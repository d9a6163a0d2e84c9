# Boxaide in TLA+

Specifications of Boxaide's stateful core, the model-checking runs over them, and
machine-checked proofs of what matters most. Paths and line numbers are those of the
repository (`src/src/...` is the server, `src/docs/...` its documentation).
`PROJECT.json` lists components, runs, mutants, hazards, findings and theorems, and maps
every definition of a model to the lines it stands for.

    tlc -config MCOutreach_faults.cfg MCOutreach      a run
    tlapm OutreachProofs.tla                          the proofs of a module

1. [Inventory](#inventory) - what the system is made of
2. [Plan](#plan) - modules in their order, and what comes next
3. [The modules](#the-modules) - how state and actions correspond to the code
4. [Runs](#runs) - bounds, fairness, what each shows
5. [Proofs](#proofs)
6. [Where the code and its documents disagree](#where-the-code-and-its-documents-disagree)
7. [Observations](#observations)
8. [Not modelled](#not-modelled)

## Inventory

Boxaide is one Node process, `boxaide serve`: an HTTP API, an MCP endpoint, timers (CRM
sync every 10 minutes, scheduler tick every 30 seconds, outreach engine every hour) and the
agent CLIs it spawns. `boxaide mcp` is a second kind of process: it speaks MCP over stdio to
one client, opens the *same* SQLite file (`boxaide.db`, WAL) and builds the same objects -
channel, scheduler, approvals - but starts no timer (`cli.ts:44-70`). Inside a process
handlers interleave only at `await`; between processes only a SQLite transaction is atomic.
Shutdown goes server, platform (engine, scheduler, CRM), update, mail, launcher, channel,
store (`app.ts:581-600`); a crash skips all of it.

| Component | State | Operations | Hard behaviour | What makes it correct |
|---|---|---|---|---|
| **Outreach engine** `outreach/` | outbox rows (`pending` → `approved`/`rejected` → `sent`/`failed`), suppression list; in memory the pass, its count per account, `lastSendMs`, a rerun flag | queue, approve, reject, suppress, lift, hourly tick, one pass | awaits between check and send; approvals during a pass; midnight; SMTP outcomes that are lost; death between send and write | nothing leaves unapproved, never twice, under the cap, spaced, never to who said stop; an approval is not forgotten |
| **Automation scheduler** `automation/` | automations, run rows; per process a FIFO, a drain promise, live children | create, save, delete, tick, run now, drain, spawn, settle, sweep | two processes claim in one table; a drain ends as work arrives; rows age while the machine sleeps; edits during a run | cap over all processes, one run per automation, no lost wake-up, nothing stuck, a paused one stays unscheduled |
| **Approval queue** `agent/approvals.ts` | rows `pending` → `approved`/`denied` → outcome | queue, approve, deny, perform, record | two windows; a send that throws after it took effect; death between claim and outcome | once at most, bounded, every answer recorded |
| **Conversation channel** `agent/channel.ts`, `driver.ts`, `turn-driver.ts` | message rows with lease and delivery count; per process one lease slot, waiters, a refusal; the driven loop | post, ask, answer, fail, repark, lapse, retry, stop, clear, archive, open, launch, boot | several agents, two processes, one slot each, leases that time out, user's buttons in between | one worker per message, one answer, no message forgotten or starved |
| **Launcher** `agent/launcher.ts` | the chat child and whose it is, one-shot children with their slots, scoped credentials | start, stop, exit, runOnce, kill, close | `start` awaits the model listing, `runOnce` up to three things, while stops, exits of older children and `close()` arrive | one chat agent; slots never exceeded; no credential outlives its launch; no child survives the close |
| **CLI drivers, stream readers** | none between turns | start a turn, read lines | vendor formats | - |
| **Chat sessions** `db/store.ts`, `agent/turn-driver.ts` | session id per chat with the agent it is of, an epoch | resume, save, clear | a turn lasts minutes: the chat is cleared, or the agent replaced, before it saves | a cleared chat never gets its old session back |
| **Archive log** `agent/archive-log.ts` | a row per message an agent archived, grouped into sweeps | archive, record, list, undo, dismiss, expire | an undo moves one message per await while the agent, the user and other clients move them too | what was archived can be brought back |
| **MCP server** `mcp/` | sessions, `clientName`, scoped tokens | initialize, tools | one name for many clients | a scope is never widened |
| **Mail service, index** `mail/` | rows of one folder, a server cursor, EXISTS, `covered_since`; syncs in flight, the mailbox lock | list, list by date, push, move, flag, send | what a sync knows is read before it waits for the lock and applied after moves, flags and other answers | the cursor never claims what the index lacks; a dated list is complete; what left the folder leaves the list |
| **Calendar** `calendar/` | meetings, attendees' answers, a reply cursor | create, cancel, forget, scan replies, poll the provider | mail before calendar before row; overlapping passes, pages, a cursor that only moves forward | an invite can be withdrawn, nobody is left untold, a reply is never skipped |
| **CRM** `crm/` | contacts, one interaction per message and contact with its opt-out verdict, the suppression list of outreach | the walk over the inbox, delete and derive anew, suppress, lift | a body is fetched between the look and the verdict; two tables, two processes; a human lifts while old mail lies there | flag and suppression agree, a lift stands, a stop is judged in the end |
| **Update service** `update/` | a status machine over an updater | check, download, install | events in any order | a finished download stays on screen |
| **Enrichment, research, connectors, memory** | caches, keys, markdown files | fetch, probe, write | paid remote calls | little state, no protocol |
| **Web UI, desktop shell** `apps/` | view state | HTTP calls | - | clients of the API |

How they meet: the REST routes and the MCP tools call the services directly (approve in
`outreach/routes.ts` decides *and* kicks the engine in one handler); the CRM's opt-out sink
writes the suppression table the engine and the send guard read (`platform.ts:205-235`); the
scheduler hands runs to the launcher and waits for their promise; the channel wakes parked
agents by resolving their promises and polls every 400 ms for what the other process wrote.
The four components in bold at the top carry the product's promises: mail leaves only on a
person's word, agents work unattended under a cap, and a typed message gets one answer.

The hazards list of `PROJECT.json` names, at its line, each thing in this code that is hard to
test, with the property that would notice it go wrong.

## Plan

Written so far, in this order:

1. `Outbox` - the abstract table: queue, decide, deliver, close.
2. `Outreach` - the engine; implements `Outbox`. `OutreachProofs`.
3. `Scheduler` - two processes over one run table. `SchedulerProofs`.
4. `Approvals` - implements the same `Outbox` under another mapping. `ApprovalsProofs`.
5. `Channel` - leases over two processes, composed with the driven loop of the launched agent.
   `ChannelProofs`.
6. `Meetings` - create, cancel, forget, with their partial failures.
7. `Replies` - extends `Meetings` with the mailbox, its index and the reply scan. `CalendarProofs`,
   of both.
8. `Launcher` - chat launches, automation runs, credentials, shutdown; `Sessions` extends it with
   the turns of the driven agents and the chat's session. `LauncherProofs`.
9. `MailIndex` - one folder's index against the server, two processes, other clients. `MailIndexProofs`.
10. `ArchiveLog` - archiving by an agent and its undo; `OptOut` extends it with the CRM walk,
    which judges messages by the ids that archiving changes. `OptOutProofs`.

Next:

11. `OptOut` composed with `Outreach`: a draft queued with an address but no contact
    (`outreach/tools.ts:97`) is the case to look at.
12. `Updates`: the status machine of `update/service.ts` under any order of events.
13. Pure algorithms as functions with a reference definition: free slots
    (`calendar/service.ts:162`), contact state (`crm/state.ts`), opt-out intent (`outreach/opt-out.ts`).

## The modules

### Outbox

Two variables: `status` of each row and `copies`, the messages a mail server accepted for it.
Six actions. It knows no engine, no clock and no failure: an approved row *may* be delivered
any number of times, and is closed as sent only after a copy left. It says three things a
reader of the product would want: nothing leaves that was not approved, no verdict is
revised and "sent" is true.

### Outreach - `outreach/engine.ts`, `outreach/store.ts`, `outreach/routes.ts`, `platform.ts`

| Code | Model |
|---|---|
| `outbox` table | `status`, `draft`, `sentOn`; rows are numbered in INSERT order |
| `suppression` table | `suppressed` |
| `inFlight` and the position in `sendApproved` | `pc`, `todo` (the snapshot `listOutbox` returned) |
| `sentToday`, `rerun`, `lastSendMs` | `counted`, `rerun`, `sinceSend` |
| `queueOutbox` with its pending duplicate test | `QueueDraft` |
| `tick` from the timer, from approve, from lifting a suppression | `HourlyTick`, `Approve`, `RemoveSuppression`, all through `Kick` |
| the loop body, one action per stretch between awaits | `SkipOverCap`, `FailSuppressed`, `AskVerifier`, `FailInvalid`, `PassVerifier`, `GuardRefuses`, `HandOff`, `ServerAccepts`, `RecordSent`, `RecordFailed` |
| loop exit, follow-up pass | `FinishPass`, `Rerun` |
| a database statement that throws; the process dies | `PassThrows`, `Restart` |

Days are told apart as today and earlier, time since a send is counted up to `Gap`. That is all
the code's decisions see. `pc = "head"`, the top of the loop, is reached without an await in
the code; the model lets others step there, which adds interleavings and removes none.
`ServerAccepts` is a step apart from `RecordSent`/`RecordFailed` because the mail server's
taking the message and the engine's learning of it are different events.

History variables: `copies`, `sinceCopy` (time since a server *accepted*, where the code's
`lastSendMs` is stamped later), `interrupted` (the last pass was cut short) and `beyond` (approved
rows that the last pass had no room to read).

### Scheduler - `automation/scheduler.ts`, `automation/store.ts`, `agent/launcher.ts` (`runOnce`)

| Code | Model |
|---|---|
| `automations.enabled`, `next_run_at` | `auto`, `next` (never, later, due) |
| rows of `automation_runs` that are `running`, by the age of `started_at` | `row` |
| `queue`, `draining`, the chained pass | `queue`, `drain`, `again` per process |
| `running` set, launcher slots, the child | `stage`, `spent` per run |
| `tick`, `enqueue`, `drain` | `Tick`, `Enqueue`, `Drain` |
| `drainLoop`/`startOne` up to their awaits | `LoopEnds`, `Skip`, `Defer`, `Start`, `DrainEnds` |
| `claimRun` with its sweep, one transaction | `Refused`, `Swept`, `Fresh` inside `Defer` and `Start` |
| `runOnce`: spawn, deadline, close; `finishRun`; `noteRun` | `Spawn`, `RunEnds`, `Settle` |
| a statement that throws: in `startOne`, in `finishRun`, in `noteRun` | `ClaimThrows`, `FinishThrows`, `NoteThrows` |
| quit or crash, construction, sleep of the machine | `Exit`, `Boot`, `Suspend` |

A drain is a promise others join, so it has states of its own: it looks, it closes, it rests.
Between its last look and its end a caller may queue work, which is the lost wake-up the
chained pass is there for. A drain that threw forgets the job it had taken and calls nothing chained onto it,
and a run whose end could not be written is followed by no drain; both are made good by the next tick. Time is the age of a row, up to `Stale`; `Elapse` cannot pass a
live child's deadline (its timer fires first), `Suspend` can, because the wall clock moves
while timers do not.

### Approvals - `agent/approvals.ts`, `db/store.ts`

`state` and `outcome` are the row. `decide` is synchronous up to the awaited action, so
`Approve` claims in one step and the call then stands at "claimed", "done" or "threw" until
`Record` writes the outcome through the unguarded `forceState`. `RecordFails` is that write
throwing, `Crash` the death of the process at any of these points. `PerformThrows` chooses
whether the action took effect. Seen as an outbox row - `approved` with outcome "Done." is
"sent" - the queue implements `Outbox`.

### Channel - `agent/channel.ts`, `agent/driver.ts`, `agent/turn-driver.ts`, `db/store.ts`

| Code | Model |
|---|---|
| `agent_turns` user rows: `delivered`, `delivery_count`, `reply_to`, age | `turn[m]` |
| `agent_chats` active and archived | `chats` |
| `this.work`, its holder, `waiters`, `reparkedFor`, `askers`, the last client's name | `proc[p]`, one record per process |
| what an agent was handed | `agent[a]` |
| the launched agent's state | `running`: no, yes, stopping |
| `claimNextUserTurn`, `expireStaleUserTurns`, `beginWork`, `handOff`, `releaseLease`/`unclaimUserTurn` | `Offer`, `Retire`, `BeginWork`, `HandOff`, `Release` |
| `postUserMessage`, `noteClient`, `awaitUserTurn` with `noteRepark`, `chat_say`, `answer` | `Post`, `Connect`, `Ask` with `Repark`, `Say`, `AnswerTurn` |
| `runDrivenLoop`'s failed turn, its end | `TurnFails`, `LoopEnds` |
| stop, retry, clear, archive, open | `Cancel`, `Retry`, `Clear`, `Archive`, `Open` |
| `start`, `stop` of the launcher as the channel sees them | `Launch`, `StopLaunched` |
| lapse after five minutes, hard lapse after thirty, the TTL | `Lapse`, `HardLapse`, `Age` |
| death, the constructor with `releaseOrphanLeases` | `Exit`, `Boot` |

The channel's handlers are synchronous and call each other: releasing a lease offers the
message to whoever waits, which claims it, which opens a lease. Each handler is therefore one
action that threads the whole state through operators (`Release(S, p, m, ...)`,
`HandOff(S, p)`), and `Become` makes the result the next state. `excuse` is history only: why
a message was freed while somebody was still on it. The properties say which causes are
allowed and the guards never read it.

### Meetings - `calendar/service.ts`, `calendar/store.ts`, `calendar/routes.ts`

| Code | Model |
|---|---|
| `calendar_meetings`: the row, its status, its `event_id` | `row`, `handle` |
| the organizer's calendar, the guests' mailboxes | `event`, `invites`, `cancels` |
| a call of `createMeeting` or `cancelMeeting` between two awaits | `stage[w]`, `about[w]` |
| `createMeeting`: to `sendMessage`, its two outcomes, `createEvent` and `addMeeting` | `Create`, `InviteSent`, `InviteThrows`, `Scheduled` |
| `cancelMeeting`: to `sendMessage`, its two outcomes, `deleteEvent` and `markCancelled` | `Cancel`, `CancelSent`, `CancelThrows`, `Cancelled` |
| the delete route and the sweep of rows cancelled a month ago | `Remove` |
| the process dies | `Crash` |

The code gives every attempt a UID of its own, so a member of `Meeting` is one attempt, and a retry
of a failed create is another member. A request that throws may have taken effect, and so may one
under way when the process dies. `strays` is history: the meetings whose mail, calendar and row a
fault tore apart; the properties speak of all others. A mail of `CANCEL` is recorded as received or
not, so that guests who are told twice are not told apart from guests told once.

### Replies - `calendar/service.ts` (`refreshRsvps`), `mail/service.ts`, `mail/index-store.ts`, `provider/imap-smtp.ts`

| Code | Model |
|---|---|
| the INBOX on the server, messages in order of arrival | `inbox`, `clock` |
| `message_summaries`; `mailbox_state`: the server state applied, `covered_since` | `index`; `synced`, `covered` |
| `calendar_rsvp_scan_state`, `calendar_meeting_rsvps` | `cursor`, `rsvp` |
| a call of `refreshRsvps` between its awaits | `pass[p]` |
| `refreshRsvps` up to the listing, with `scanSince` | `StartPass` |
| `oldestPage` over `listMessages`, `ensureFresh` and the read by date; the choice of messages to open | `List`, with `Listed`, `Fill`, `Reach`, `OldestPage`, `OldestOf`, `HighMark`; `LeftOut` |
| `getMessage` and `recordRsvp`, the oldest first | `Read`, `Record`, `Supersedes` |
| the cursor | `Finish` |
| a mailbox whose scan rejects | `ScanFails` |
| `pollAttendeeStatus` | `Poll` |
| a background delta; a window that replaces the index; a `messages_list` by date with its own limit | `DeltaSync`, `WindowRefill`, `ReadByDate` |
| the calls of `Meetings`, with `created_at` and the answers dropped with a row | `Store`, `Forget`, `OtherCall`, `Die` |

One mailbox. Messages are listed in the order of arrival, where the code orders by the sender's
`Date`; both agree when senders' clocks do. A guest's mail is a reply (`re`) or ordinary mail is not
from a guest: what distinguishes them in the code is the From address and the body. Every answer has
SEQUENCE 0, the only one the code sends on an invite. The listing is one step although the
code awaits once per page: between two pages a delta only moves rows down, and a replaced index is
filled by date again by the next page. Delta syncs without CONDSTORE are
`WindowRefill`s, as in the code. `read` and `unheard` are history: a reply is *unheard* when it came
before its row was stored, or while a pass that did not know the meeting was about to list, or when a
list left it out of its own window (`LeftOut`): the read by date fetched newer mail only, or the reply
lies at the window's first instant on a page that is stepped over. So is one that another list by date
leaves out while the index claims it from then on (`ReadByDate`).

### Launcher - `agent/launcher.ts`, `mcp/scoped-tokens.ts`

| Code | Model |
|---|---|
| `running`, `child`, `driver`, `chatGrant` | `running`: the launch all four are of, or `None` |
| the processes themselves | `child[l]`, `told` (who was asked to end) |
| `stopRequested`, `lastExit`, `closed` | the same |
| `oneShots`, `starting` and where a `runOnce` waits | `run[r]` |
| `ScopedTokens` | `grants` |
| `start`: refused, at once, or over the model listing | `Start`, `Listed`, with `ComesUp`, `NotPrepared`, `SpawnThrows`, `LoopThrows` |
| the "error" and "close" events, the end of a driven loop, `noteExit` | `ChildErrs`, `ChildCloses`, `LoopEnds`, `NoteExit` |
| `stop`, `close` | `Stop`, `Close` |
| `runOnce`: reservation, listing, warm-up, proxy, child, kill, end | `RunOnce`, `RunListed`, `RunWarmed`, `RunOpened`, `RunKilled`, `RunFinishes` |

`start` and `runOnce` are synchronous between awaits, so each stretch is an action. `noteExit`
compares agents' ids, not children, so the exit of an older child of the same CLI ends the newer
launch in the server's books. That takes a start that went wrong with a child at hand - a `spawn` whose "error" came
later, a driver that threw - because only then is the place free before the child has closed: `botched` is the history
of such starts, `Lost` the launches that may have lost their place to one, and `slipped` the history of a run whose child
came after `close()`.

### Sessions - `db/store.ts`, `agent/turn-driver.ts`

`session` and `epoch` are three columns of one chat; of the session id only how often the chat
had been emptied when it was begun is kept (`born`), since that is what the transcript behind it
remembers. `turn[l]` is what `chatSession` told the turn, or the naming call, of loop `l`
(`TurnBegins`, `MoreTurns`); `TurnEnds` saves under the epoch it read, or clears after a refused
resume; `ClearTurns` is the user's button and the storage budget. Every step is a step of
`Launcher` or leaves its variables alone, so `Launcher`'s properties are checked, and proved, of both.

### MailIndex - `mail/index-store.ts`, `mail/service.ts`, `provider/imap-smtp.ts`

| Code | Model |
|---|---|
| the folder on the server | `box`, `arrived` |
| `message_summaries` | `row`: none, with the server's flags, or with older ones |
| `mailbox_state`: the cursor; `exists_count`, `dirty`, staleness, `covered_since` | `mark`; `exists`, `dirty`, `fresh`, `covered` |
| `inflight`, and what a sync has read so far | `sync[p][k]` |
| the mailbox lock; a list that waits to look again | `conn`, `refill` |
| `ensureFresh` without and with a date, `refresh`; `watchAccount` | `List`, `ListSince`, `ListRefreshed`; `Push` |
| `syncFolder`: what it knows; the lock; the read; the search for the vanished; `applySync` | `Asked`; `Select`; `Fetch`; `Search`; `Apply` |
| a sync that rejects; `withImap`'s second attempt | `SyncFails`; `SyncRetries` |
| move, archive, trash; the flag; their write-through | `MoveOnServer`, `MoveAnswerLost`; `FlagOnServer`; `MoveApplied`, `FlagApplied` |
| the process dies | `Exit` |

A mod-sequence is only compared, so a cursor is the set of uids that changed since it was taken; each
change on the server adds to every cursor there is. `jumped` is history: changes a cursor passed
that no sync read. The code passes them in five ways - a dated read, which reads only its dates; a
delta another answer overtook; a delta over an emptied index; a delta, of what is older than its oldest
row; a flag written over a newer one - and the two invariants are about all other messages.

### ArchiveLog - `agent/archive-log.ts`, `mcp/server.ts`, `api/routes.ts`

| Code | Model |
|---|---|
| where a message lies, its folder and uid | `folder`, `id` |
| `agent_archives` | `log`, the set of its rows with their rowids, `lastRow` |
| `message_archive` before its answer is recorded | `call[c]`; `ArchiveOnServer`, `ArchiveRecorded`, `ArchiveUnrecorded` |
| `sweepRows` over `listAgentArchives` | `Sweep` over `Listed` |
| `undo`, one message per await | `undo[k]`; `UndoBegins`, `UndoMoves`, `UndoFindsNothing`, `UndoRefused`, `UndoThrows`, `UndoEnds` |
| `dismiss`, `sweeps` and its pruning | `Dismiss`, `ListSweeps`, both through `Forget` |
| other clients, death | `OutsideMoves`, `Dies` |

A move gives a message another name, as a uid is of a folder; names come from one counter. `owed`
is history: the names under which messages lie where an agent put them.

### OptOut - `crm/service.ts`, `crm/store.ts`, `platform.ts`, `outreach/routes.ts`

| Code | Model |
|---|---|
| contacts by address | `contactOf`, `lastContact` |
| `interactions`: `opt_out`, `opt_out_full` | `seen[<<i, c>>]` |
| outbox rows, as `hasOutreachHistory` asks | `drafted` |
| `suppression`; between the two statements of a lift | `suppressed`; `lifting` |
| `syncFromMail` between awaits | `walk[q]`; `WalkBegins`, `WalkLooks`, `WalkEnds`, `WalkThrows` |
| `detectOptOut` by the body, by the snippet; `addInteraction` and the sink | `BodyRead`, `BodyMissed`; `Judged` |
| contacts, drafts and suppressions by hand | `AddContact`, `DeleteContact`, `QueueDraft`, `AddSuppression`, `RemoveSuppression`, `ClearOptOutFlags` |

It extends `ArchiveLog` because both meet in one place: the walk remembers its verdicts by message
id, and an archive with its undo gives the message a new one. `fired` and `unscoped` are
history; they name the cases in which the code judges a message again, or flags without suppressing.

### MC and proof modules

`MCOutreach`, `MCScheduler`, `MCApprovals`, `MCChannel`, `MCReplies`, `MCLauncher`, `MCMailIndex` and
`MCOptOut` give the constants that a `.cfg` cannot write (functions, symmetry sets).
`OutreachProofs`, `ApprovalsProofs`, `CalendarProofs`, `ChannelProofs`, `LauncherProofs`, `SchedulerProofs`,
`MailIndexProofs` and `OptOutProofs` hold theorems.
A definition marked *Mutation* or *Mutant* in a module is a plausible bug: substituted for
the definition it stands beside, it makes the named property fail. No action uses it.

## Runs

Passing runs.

| Run | Bounds | Shows |
|---|---|---|
| `outreach_faults` | 2 rows, 3 drafts, 2 accounts, cap 1, pass limit 2, gap 2, 1 fault, `FairSpec`; 359k states | the cap over midnights and restarts, no approved row overlooked at rest, no second copy without a fault, no hand-off to a suppressed address, the gap, that every approved row is in the end sent or failed, and that the engine implements `Outbox` |
| `scheduler_ticking` | 2 processes, 2 automations, limit 1, 1 exit, 1 run-now, 1 failing write, `TickingSpec`; 128k | the cap over both processes, no lost wake-up while no write fails; what the server queued is started or dropped in the end |
| `scheduler_edits` | 2 processes, 1 automation created on or paused, limit 2, 2 saves, 1 delete, 1 sleep, 1 exit, 2 run-nows, 1 failing write; 453k | one live run per automation until the machine sleeps, a pause that stands |
| `approvals` | 3 requests, 2 windows, limit 2, 2 faults, `FairSpec`; 7k | once, bounded, recorded, answered, and `Outbox` again |
| `channel_lease` | 2 processes, 3 clients and the driven agent, 1 message, 2 events; 296k | one worker and one answer per message, but for the causes named |
| `channel_order` | 1 client and the driven agent, 2 messages in 2 chats, 2 events, `FairSpec`; 52k | nothing left leased by nobody, the driven loop's answer goes to its question, a queued message is taken |
| `replies` | 1 meeting, 1 call, 2 passes, 3 messages, 2 of them at one instant, pages of 2, 1 message opened per pass, 1 failed scan, refill or other dated list; 3.3M, about 2 minutes | no reply under the cursor is unread but those a list left out, the newest answer read stands |
| `replies_live` | 1 meeting, 2 calls, 1 fault, 1 pass, 2 messages, pages of 1, 1 opened per pass, 1 failed scan, refill or other dated list, `FairSpec`; 491k | invites can be withdrawn, guests are told, the calendar follows the table; the scan has read every reply it could know of, again and again |
| `launcher` | 2 launches each of a driven CLI and one with a child, 2 runs over 1 slot, 1 start that goes wrong, 1 clear, symmetry; 2.4M states, about 2 minutes | one chat agent but after a start that went wrong, slots, credentials and children that end, a cleared session that stays cleared, one loop that answers |
| `mail_index` | 1 process, 2 messages, a window of 1 and one date, 1 change by another client, 1 operation, 1 fault, `FairSpec`; 169k | an honest cursor, complete dated lists, and that messages which left the folder leave the list |
| `opt_out` | 1 process, 1 stop message, 4 ids, 2 contact rows, 1 call, 1 click, 1 fault, 2 acts by hand, `FairSpec`; 480k | what was archived is on record, flag and suppression agree, a lift stands, a stop that stays is judged by its body |

Runs that are expected to fail, one property each, are described
[below](#where-the-code-and-its-documents-disagree).

**Why the bounds are enough.** Two rows with a cap of one are the smallest case in which the
cap refuses anything, three drafts on two accounts make one account's count independent of
the other's and let one recipient be suppressed while another is sent; a gap of two separates
"just sent", "waiting" and "over". The pass limit is the number of
rows, as 200 is above most queues; the theorem covers every limit, with the rows one pass does not read set apart. For the scheduler, two processes and a limit of one make
every claim contested, and two automations make one job wait behind another; the time before a spawn is a tick, and with the
deadline it stays one tick below the staleness threshold, their smallest legal distance. For
approvals, two windows and three requests let the pending limit of two refuse one. For the
channel, one message and three clients, two of them on one process, are all the ways one
message can go to two workers; two messages in two chats are the least that can be taken out
of order; `MaxDeliveries` of two (three in the code) still tells apart a first, a last and no
further delivery. For the replies, three messages and pages of two make a window outgrow its
page, a fetch cap of one cuts a page, and a day holds two instants, so that a read by date finds more
than was asked for. For liveness an instant holds no more messages than a pass opens, or the scan opens the
same ones for ever ([below](#observations)). Launches in pairs let an old child of a CLI close under a new one, and one
slot for two runs makes the second contend. In a window of one a second message pushes the first
out, which is when rows, cursor and `covered_since` can part; a second process (checked by hand to a bounded
depth, too large for a regular run) adds overtaken answers, which `jumped` names. Four ids let the one message be archived,
undone and moved back, and two contact rows let its sender be deleted and derived anew. `MaxEvents` counts what the user, the clocks and the failures do; typing,
asking, answering, failing and polling are free.

`CHECK_DEADLOCK FALSE` is set everywhere, since every system here may stop: all rows are
decided, all budgets spent, nobody types.

**Fairness, and why the code justifies it.**

- *Outreach*: `EngineStep` - the verifier has a timeout, the sleep is a timer, Nodemailer has
  connection, greeting and socket timeouts (`provider/imap-smtp.ts:49-51`), so every await
  settles. `HourlyTick` - `setInterval`. `Elapse` and `Midnight` - clocks. Approving,
  suppressing and faults have none.
- *Scheduler*: a drain's promise settles, a run comes to its end (the deadline kills it),
  `Settle` is the continuation of that, time passes; for `TickingSpec` the 30-second timer
  runs and the server is started again after it quit.
- *Approvals*: the action settles (the same SMTP timeouts), and the code after an await runs.
- *Channel*: the 400 ms poll of the server, the driven loop asking again, a turn that ends
  (`turn-driver.ts` has a silence watchdog), and the 30 seconds of `REPARK_COOLDOWN_MS`. A CLI
  that prints for ever without finishing is therefore outside the property.
- *Replies*: a pass is started again and again (`calendar/routes.ts:390`: whenever the meetings are
  listed and the last pass is a minute old), its awaits settle, and an index older than 30 seconds
  is brought up to date (`mail/service.ts:606`). Nothing makes anybody send mail or hold meetings.

- *MailIndex*: time passes, the list stays open (the web UI polls it), commands are answered or
  fail and their continuation runs. `Select` needs strong fairness: the lock is freed and taken again, and
  ImapFlow queues those who wait.
- *OptOut*: the server's 10-minute timer starts walks and the awaits of a walk settle. `BodyRead` has
  strong fairness: the server need not answer each time, but when it is asked for bodies for ever
  it answers once. `ClearOptOutFlags` is the next statement of the handler that lifts.

## Proofs

TLAPS checks these for every value of the constants, under each module's one named assumption
(`OutreachAssumption`: natural bounds, a non-empty pass and gap, every draft has an account
and a recipient; `ApprovalsAssumption`: finitely many requests, natural bounds; `MeetingsAssumption`: finitely many
meetings, and something that is none; `RepliesAssumption`: limits and a day of at least one, natural bounds; `LauncherAssumption`, `SessionsAssumption`: finite sets of launches and
runs, natural bounds; `SchedulerAssumption`: the server is a process, a limit of at least one, and a listing and a
deadline together shorter than the staleness threshold; `MailIndexAssumption`: dates among the uids, natural bounds, a list that
asks for something; `ArchiveLogAssumption`, `OptOutAssumption`: natural bounds, the
server is a process, every message has a sender, and the value for "no call" is no record of one; `ChannelAssumption`: the
server is a process, every client has one, the launched agent is no client, every message has a chat, at least one delivery).

| Theorem | States |
|---|---|
| `OutreachProofs!TypeCorrect` | `Spec => []TypeOK` |
| `OutreachProofs!DailyCapHolds` | `Spec => []DailyCap` |
| `OutreachProofs!EngineKeepsPromise` | `Spec => Promise!Spec`, the refinement of `Outbox` |
| `OutreachProofs!StopIsHonoured` | no hand-off to a suppressed address |
| `OutreachProofs!NoFaultNoRepeat` | without a fault, one copy per row |
| `OutreachProofs!NoFaultGapKept` | without a fault, the gap between two mails |
| `OutreachProofs!ApprovalsAreNotOverlooked` | `Spec => []NothingOverlooked` |
| `ApprovalsProofs!TypeCorrect` | `Spec => []TypeOK` |
| `ApprovalsProofs!NeverTwice` | `Spec => []PerformedOnce` |
| `ApprovalsProofs!QueueIsBounded` | `Spec => []PendingBounded` |
| `ApprovalsProofs!NothingLeftHanging` | `Spec => []NoAnswerLost` |
| `ApprovalsProofs!ApprovalsKeepPromise` | `Spec => Promise!Spec`, the refinement of `Outbox` |
| `CalendarProofs!MeetingsTypeCorrect` | `MeetingsSpec => []MeetingsTypeOK` |
| `CalendarProofs!InvitesCanBeWithdrawn` | `MeetingsSpec => []InviteCanBeWithdrawn` |
| `CalendarProofs!GuestsAreToldFirst` | `MeetingsSpec => []ToldBeforeForgotten` |
| `CalendarProofs!EventsFollowMeetings` | `MeetingsSpec => []EventFollowsMeeting` |
| `CalendarProofs!ScansLeaveMeetings` | `Spec => MeetingsSpec`: `Replies` implements `Meetings`, so the four above hold of it |
| `CalendarProofs!RepliesTypeCorrect` | `Spec => []TypeOK` |
| `CalendarProofs!NewestAnswerStands` | `Spec => []AnswerIsNewestRead` |
| `CalendarProofs!NoReplyIsSkipped` | `Spec => []NothingSkipped`, for any pages and caps |
| `ChannelProofs!ChannelTypeCorrect` | `Spec => []TypeOK` |
| `ChannelProofs!OneAgentPerMessage` | `Spec => []OneWorker` |
| `ChannelProofs!AnsweredOnlyOnce` | `Spec => []AnsweredOnce` |
| `ChannelProofs!NoMessageForgotten` | `Spec => []NothingForgotten` |
| `ChannelProofs!AnswersFit` | `Spec => AnswerFits` |
| `LauncherProofs!LauncherTypeCorrect` | `SessionsSpec => []TypeOK`, `Launcher`'s types under `Sessions` |
| `LauncherProofs!OneAgent` | `OneChatAgent`: an agent that is up unasked is the server's, unless a start of its CLI went wrong before; of `Sessions`, as the next six |
| `LauncherProofs!StopsWereAsked` | `StoppedMeansStopped`: a recorded stop was asked of the launch it ended |
| `LauncherProofs!SlotsBounded` | `RunsWithinLimit` |
| `LauncherProofs!CredentialsEnd` | `CredentialsDieWithLaunch` |
| `LauncherProofs!ShutdownReaches` | `NothingSurvivesClose` |
| `LauncherProofs!SessionsKeepLauncher` | `SessionsSpec => Spec`: `Sessions` implements `Launcher` |
| `LauncherProofs!ClearsHold` | `ClearedStaysCleared` |
| `LauncherProofs!OneLoopAsks` | `TurnsOfRunningOnly` |
| `SchedulerProofs!SchedulerTypeCorrect` | `Spec => []TypeOK` |
| `SchedulerProofs!OneRunEach` | `Spec => []OneRunUntilSleep` |
| `SchedulerProofs!CapHolds` | `AtMostLimit`, while nothing was deleted and the machine has not slept |
| `SchedulerProofs!PauseHolds` | `Spec => PauseUnschedules`: nothing but its creation gives a paused automation a next run |
| `SchedulerProofs!NoWakeupLost` | `Spec => []NoLostWakeup`, which speaks of the time before a write fails |
| `MailIndexProofs!MailIndexTypeCorrect` | `Spec => []TypeOK` |
| `MailIndexProofs!SyncsMayRely` | the inductive invariant, stage by stage of a sync |
| `MailIndexProofs!CursorIsHonest` | `Spec => []HonestCursor` |
| `MailIndexProofs!DatedListsComplete` | `Spec => []DatedListComplete` |
| `OptOutProofs!OptOutTypeCorrect` | `Spec => []Types` |
| `OptOutProofs!FlagsAgree` | `Spec => []FlaggedIsSuppressed` |
| `OptOutProofs!LiftsStand` | `Spec => []LiftStands` |
| `OptOutProofs!ArchiveTypeCorrect` | `Spec => []ArchiveTypeOK` |
| `OptOutProofs!FiledStaysOnRecord` | `Spec => []FiledIsOnRecord` |

*The daily cap.* `DailyCap` is not inductive: the engine does not count rows when it sends, it
trusts the number it read when it first met the account in this pass. `CapInv` adds what makes
that trust right: `CountsCover`, the number is at least the rows sent today (midnight can only
make it too high); `RoomForRowInHand`, past the head of the loop it is below the cap;
`SentRowsSent`, a row with a sending day is no longer approved. `TInv` supplies the rest: a
row that is not "none" has a draft, and a row still in the pass is approved.

*Approvals not overlooked.* A tick that comes during a pass only sets `rerun`, so the invariant (`PassCovers`) speaks of a
pass under way: unless another is to follow, each approved row is still in it, over the cap already, or beyond
what it read. Leaving a row takes one of these; `beyond` is what 200 rows per pass cost.

*No repeat, and the gap.* Both rest on `CalmInv`, which holds until the first fault: a copy out
belongs to the row in hand or to a closed row, and `lastSendMs` is known and no older than the
last acceptance. `faults` never decreases, so "until" is an invariant.

*Approvals.* `IInv` says that a call's request is claimed (`ClaimsHold`: it is "approved" with
no outcome and, once performed, has an effect), that two calls never hold one request
(`ClaimsApart`), and what each row's state says about its effects (`RowsHold`). Without
`ClaimsApart` the unguarded second write could revise another call's verdict.

*Meetings.* The three properties are about the world between calls, and a call under way is what
breaks each of them on the way. The invariant says where every call stands (`CallsHold`: a busy
call is about a meeting), what a call that creates may rely on (`CreatorsHold`: no row yet,
nobody else creating it), what one that cancels leaves true (`CancellersHold`: the row was stored
once, and past the mail the guests are told) and that no event stands that its row could
not name, but for a fault (`HandlesHold`), so that a cancellation finds it.

*Replies.* Two invariants, one on top of the other. For the answers: nothing on record lies in the future and mail is
numbered as it arrives (`Timely`), what scans hold is about meetings that were stored (`Known`), and the record is the newest
answer opened (`AnswersHeld`). For the cursor: the index holds every change up to `synced` that is as young as `covered`
(`IndexHeld`), a pass about to list knows every reply that counts and its window begins before them (`ListingHeld`), and one that
reads has still to open what is below the mark it will set (`ReadingHeld`). Windows may be of any length: what a list
leaves out of its own window becomes unheard in the same step (`LeftOut`), as does what another list claims for the index
without fetching it, and of the rows it has, the page it takes is the
oldest (`PageIsOldest`) or steps over rows of the window's first instant only.

*Channel.* A handler is a chain of calls over a state, so the invariant is a predicate `Good` of such a state, with one
lemma per call: `Release`, `Retire`, `Offer`, `Take`, `HandOff`, `Unpark` and the rest give a `Good` state back. Its core
is `Held`: unless something named in `Taken` took a message away, the hands it is in are one agent and the one process that
agent asked; a message that waits is in nobody's; and it is answered at most once, after which no process and no driven
turn has it to answer. `Leases` says that of every message, `Counts` that a lease was a delivery, `Seats` that an agent is
busy exactly with a message, `Queues` that who waits in a process is parked there, once, `Live` that the server holds nothing of an
archived chat. `Rowed` names the only three things that may become of a row when nobody is handed it (`RowsGood`). `HandOff` serves waiters in a
loop; that its recursive definition is a function is shown by the least index without a value, since induction
over the loop's length needs a rule the provers cannot use. `AnswersFit` needs of the invariant only that the launched agent's
message is nobody else's answer.

*Launcher and sessions.* The launcher's invariant adds to the types where each call and child stand
(`CallsHold`: a call that is not over has no child; `LoopsHold`: a driven loop that is up is the
one running, until `close()`). `OneChatAgent` needs more, as an agent that lost its place may itself close late and take
another's: `ChildrenHold` says that a child that is up is the server's, had a start that went wrong or is `Lost`, and
`BotchedHold` that one of the second kind was asked to end and is not the one the server knows. So every exit that takes
another launch's place leads back to a start that went wrong. `ExitsHold` ties the pending stop to the launch in place.
A session's invariant says what a turn under way read (`TurnsHold`), that its epoch is at most the row's, and that one
with the row's own epoch was asked since the last clear (`EpochsHold`): that is why the guarded save is enough. A step of
`Sessions` is a step of `Launcher` or a stutter, so the first invariant is proved once, for `Launcher`.

*Scheduler.* The lock is a row that another process may judge by its age. `LocksHold` says that a live run's
row exists and is no older than the time before its spawn plus the time since, which the assumption keeps below
`Stale`: no sweep takes it. That gives one run per automation even with deletions, since
`DeletesCounted` and `RunsKnown` say that a run without a row is of a deleted automation and those are never
started again. The cap needs more: `CapHolds` maps each live run to its row, which is why it
asks that nothing was deleted. `ClosingIsDone` extends `NoLostWakeup` to drains that had their last look.

*Mail index.* Both properties speak of the index at rest, and a sync writes from what it learned long
before. `SyncHolds` says what each stage may rely on: from the lock on, every message there was is known or has changed
since; what a window or a dated read took has no gap (`ReadHolds`; `NewestOf` proves that of the newest of a
set); and a delta's rows are those it began with, its answer holding whatever changed above the oldest of them, unless
another answer overtook it (`DeltaHolds`). Steps come in three kinds: calm ones, which only take messages away
(`CalmKeeps`), changes of one message, which mark it in every cursor (`ChangeKeeps`), and a sync's own. This holds for any
number of processes, which the run cannot afford.

*Opt-outs.* For the flags: contact ids are never given twice, the contact a waiting walk carries is its sender's or
nobody's any more (`BodiesHold`), and at most one address is being lifted. For the lifts: all walks know a message by its
present id and contact and at most one of them waits (`OneJudge`), so a verdict that stands forbids another
(`OnceIsDecided`).

*Archive log.* The record must outlast every undo that crosses it. Rows are numbered apart and name ids already given (`LogInv`), no two messages
share an id and what is owed a row lies in the archive (`OwedInv`), and an undo will look its messages up under the ids its rows
still have, while what it is done with is owed no row (`UndoInv`): so the rows it deletes are nobody's any more.

*Refinement.* Each step lemma maps one action to one action of `Outbox` or to a stutter:
`ServerAccepts` to `Deliver`, `RecordSent` to `CloseSent`, `MarkFailed` to `CloseFailed`;
`PerformDone` to `Deliver` and `Record` to `CloseSent` or `CloseFailed`.

Only model-checked: liveness, which is beyond the prover (`EveryApprovalSettles`,
`ApprovalIsAnswered`, `NothingStuckInQueue`, `QueuedIsTaken`, `ScanCatchesUp`, `GhostsLeave`, `StopIsJudged`).
Every safety property of a passing run is a theorem (`AtMostLimit` under the conditions in the table); the runs check those of `Meetings` inside `Replies`, which implements it.

## Where the code and its documents disagree

One run checks one sentence of the repository and fails; the counterexample is short.

- `channel_boot`, `OrphansOnly`. "Any lease in the file is held by nobody" (`channel.ts:369`). A
  `boxaide mcp` that starts beside a live server takes the leases of that server.

## Observations

Met while modelling, with no property of their own.

- Scheduler: deleting an automation deletes the row of its live run, so the count lets another process start one
  too many, against "at most `BOXAIDE_AGENT_CONCURRENCY` runs are alive at once" (`docs/specs/agent-platform.md:26`; why
  `CapHolds` excludes deletions); a cron fire that comes during a run is ignored by `enqueue` and the run's end moves the
  schedule past it, where `docs/specs/agent-platform.md:28` says it waits; a paused automation is created with a `next_run_at` (`routes.ts:47`, `store.ts:295`; nothing
  reads it while it is off, and `PauseUnschedules` names the case), against the while-disabled invariant `scheduler.ts:267-270` relies on; a deferred run-now of a stdio process waits for the next call there,
  as no tick comes; run-now of a paused automation is dropped without a word; saving an
  automation takes a due fire back; after the machine slept a live run's row is stale, and a
  second copy may start (why `OneRunUntilSleep` says "until").
- Outreach: a death or a failed write between the mail server's acceptance and `markSent`
  (`engine.ts:168`) leaves the row approved and the next pass mails it again, where
  `docs/specs/agent-platform.md:484` says "no retry" (`NoRepeatWithoutFault` is as much as holds);
  the 60-second gap (`README.md:381`) is forgotten by a restart; a pass reads 200 rows
  (`engine.ts:120`), so an approval behind a longer backlog is not sent when it is given
  (`beyond`, which `NothingOverlooked` excepts).
- Approvals: after a death between claim and outcome the row reads "approved" for good.
- Channel: Stop answers the message itself while the agent's own answer may be under way, and
  both are filed; archiving a chat leaves the message it was working on leased
  (`channel.ts:674`, against `486-487`); `beginWork` overwrites an open lease of another agent
  of the process; two HTTP clients that give the same name are one agent to the channel, so the second
  takes the first's open lease (`mcp/server.ts:858`, against `channel.ts:834`); a stdio client that leaves
  keeps its lease until a server starts; a launch
  requeues a message on its last delivery that is still in hand; the launched agent's exit
  can free a lease just given to another client; `chat_say` answers whatever the process holds
  open by then; `handOff` stops at the first waiter with nothing to take.
- Launcher: `close()` during `egress.start()` of a run is followed by the spawn (`launcher.ts:1078`, against the comments at
  `:691` and `:1018`; `slipped`); the late close of an old child of the same CLI ends the newer launch in the server's
  books while it runs on (`Lost`); a Stop pressed during the listing is forgotten; a `spawn` that throws leaves the
  chat credential live (`NeverSpawned`); a cancelled Antigravity sign-in watch still launches if its probe was under way
  (`api/routes.ts:1540`); the timers start before the port is known to be free (`app.ts:555`).
- Sessions: the naming call of a stopped agent may still save, over the next agent's session; a refused resume clears the
  session whatever was saved since.
- Meetings: a create that failed after the mail server took the invite invites twice when it is
  retried; two cancellations mail the guests twice; an event whose deletion failed has lost its
  handle, as its row is cancelled all the same.
- Replies: the invite is mailed before the row is stored, so an answer that comes in between is not
  heard; pages are ordered by the sender's date and the cursor is a receive time; a page of mail as
  old as the cursor need not have been read (`calendar/service.ts:920`); as many guest mails of one
  instant as a pass opens stall the scan; one message that cannot be fetched rejects the whole scan;
  a pass that outlives a meeting's deletion writes its answers again; a read by date fetches only the newest page of the window
  (`provider/imap-smtp.ts:1100`), so "the backlog is walked off one page at a time" (`calendar/service.ts:918-927`) ends at that page
  and the cursor passes mail nobody opened (`LeftOut`); another list by date, with a smaller limit, leaves holes the scan takes
  for covered (`ReadByDate`); a page whose rows all lie at the cursor's instant is stepped over as
"already read" (`calendar/service.ts:929-955`), though the fetch cap may have left some of them unopened.
- Mail index: a dated read moves the cursor past changes it did not read, and so do a delta that another answer overtook
  (it adds rows with gaps between them), a delta over an emptied index, and any delta for what is older than its oldest row
  (`jumped`; the next window repairs rows, not flags); a late `setSeen` overwrites a newer flag; a MOVE whose
  answer is lost leaves the row until the next sync; `setLastError` (`index-store.ts:271`) makes a state row, so a folder that was
  never synced shows no unread mail instead of an unknown number.
- Archive log: `moveUid` reports a refused MOVE like a message that is gone, so the undo forgets the row; a dismiss does not
  stop an undo under way; agent and chat of a row are read after the await, so another agent's; `listAgentArchives`
  returns the oldest 1000 rows, so a longer log hides the newest sweep.
- Opt-outs: a message moved back to the inbox has a new id and is judged again, so it suppresses its sender again after a
  human lifted that (`crm/service.ts:173` says the removal stands); a contact deleted and derived anew has a new id, and a stop that comes
  then is out of scope although approved rows to the address live on (against `platform.ts:222-225`); a draft queued with an
  address and no contact gives no scope at all; `crm/store.ts:504` says foreign keys are off, but the driver turns
  them on, so a contact deleted during the body fetch makes `addInteraction` throw and ends the walk; a death between the two
  statements of a lift leaves a flag without a suppression; a stop archived before the next walk is never judged; a snippet
  that only looks like a stop suppresses for good.

`OneWorker` and `AnsweredOnce` name exactly these causes (`Taken`), so anything *else* that put
two agents on one message would be found; the causes themselves are the code's behaviour.

## Not modelled

- Wording, formatting, titles, activity lines, SSE: presentation.
- CLI drivers, MIME, ICS, CalDAV, IMAP: conversions and network I/O over external formats. The
  models take their outcomes - accepted, refused, unknown - as choices.
- Kickoff launches, in which the CLI itself calls the chat tools; the storage budget that trims
  old chats; chat deletion (its rows go as `Clear`'s do).
- Cron expressions: a fire arrives, or does not.
- In the launcher, OpenCode's own sessions and its late `setDriven(false)`, model choice, confinement, sign-in dialogues. In the
  mail service, the copy of a sent message, search, bodies and drafts. In the CRM, the Sent-folder half of the walk, names, orgs,
  deals, contact state and the phrases that mean "stop".
- Named departures inside the models. `Defer` puts a refused job back in the step that took it, where the code has one
  microtask between shift and unshift (`scheduler.ts:178-187`): a run-now in it queues the job a second time, and the second
  entry waits for the first one's run. Two lists that wait to look again at one folder start a sync each
  (`mail/service.ts:656-682`), where `MailIndex` keeps one per process and folder.
- Enrichment, prospecting, research, connectors, memory, encryption, configuration: stateless
  calls or single-row state with nothing to interleave.
- The web UI and the desktop shell: clients of the HTTP API.
- The scan's 30-day window, its 100 pages, the list of 200 meetings and of 20 polls; several
  mailboxes; SEQUENCE, which is 0 in every invite; which guest of several answered.
