------------------------------ MODULE Outreach ------------------------------
(***************************************************************************)
(* The outreach engine (src/src/outreach/engine.ts) over its outbox table  *)
(* (src/src/outreach/store.ts), with the human at the REST routes          *)
(* (src/src/outreach/routes.ts), the send guard (src/src/platform.ts), the *)
(* mail server and a process that may die between any two steps.           *)
(*                                                                         *)
(* Rows are numbered in the order of their INSERT, which is the order      *)
(* listOutbox returns them in.  Days are told apart only as today and      *)
(* earlier, and elapsed time is counted up to Gap units: no decision of    *)
(* the code sees more of the clock than that.                              *)
(*                                                                         *)
(* The engine is one async loop.  Its awaits are the phases of `pc`:       *)
(* "verify" (the address verifier), "gap" (the sleep between sends),       *)
(* "smtp" (the provider's send, nothing accepted yet) and "accepted" (the  *)
(* server took the mail, the caller does not know yet).  "head" is the top *)
(* of the loop; the code reaches it without an await, so letting others    *)
(* step there allows more interleavings than the code has, never fewer.    *)
(***************************************************************************)
EXTENDS Integers, FiniteSets

CONSTANTS
  MaxRow,          \* bound: rows ever queued
  Account,         \* mail accounts
  Draft,           \* drafts an agent may queue: account, recipient and text
  AccountOf,       \* the account a draft is sent from
  RecipientOf,     \* the address a draft goes to
  NoDraft,         \* the draft of a row not yet queued
  Cap,             \* BOXAIDE_SEND_DAILY_CAP
  PassLimit,       \* rows one pass reads (200 in the code)
  Gap,             \* SEND_GAP_MS, in units of the model's clock
  MaxFaults        \* bound: process deaths and failed database writes

Row == 1..MaxRow
Recipient == {RecipientOf[d] : d \in Draft}

ASSUME OutreachAssumption ==
  /\ MaxRow \in Nat
  /\ AccountOf \in [Draft -> Account]
  /\ DOMAIN RecipientOf = Draft
  /\ NoDraft \notin Draft
  /\ Cap \in Nat
  /\ PassLimit \in Nat \ {0}
  /\ Gap \in Nat \ {0}
  /\ MaxFaults \in Nat

VARIABLES
  status,          \* outbox.status of each row, "none" before its INSERT
  draft,           \* what the row says, to whom and from which account
  sentOn,          \* the UTC day of outbox.sent_at: "never", "today", "earlier"
  suppressed,      \* the suppression table
  pc,              \* where the send loop stands
  todo,            \* rows of the pass not yet dealt with, the one in hand included
  counted,         \* the pass's sentToday map
  rerun,           \* a tick arrived while a pass ran
  sinceSend,       \* time since lastSendMs, up to Gap
  faults,          \* faults so far
  copies,          \* history: copies of each row a mail server accepted
  sinceCopy,       \* history: time since a server last accepted a mail, up to Gap
  interrupted,     \* history: the last pass was cut short
  beyond           \* history: approved rows the last pass had no room to read

outboxVars == <<status, draft, sentOn>>
engineVars == <<pc, todo, counted, rerun, sinceSend>>
historyVars == <<copies, sinceCopy, interrupted, beyond>>
vars == <<outboxVars, suppressed, engineVars, faults, historyVars>>

Status == {"none", "pending", "approved", "rejected", "sent", "failed"}
Phase == {"idle", "head", "verify", "gap", "smtp", "accepted"}

Unread == -1       \* sentToday has no entry for the account yet
Forgotten == -1    \* lastSendMs is null

TypeOK ==
  /\ status \in [Row -> Status]
  /\ draft \in [Row -> Draft \cup {NoDraft}]
  /\ sentOn \in [Row -> {"never", "today", "earlier"}]
  /\ suppressed \subseteq Recipient
  /\ pc \in Phase
  /\ todo \subseteq Row
  /\ counted \in [Account -> Nat \cup {Unread}]
  /\ rerun \in BOOLEAN
  /\ sinceSend \in (0..Gap) \cup {Forgotten}
  /\ faults \in 0..MaxFaults
  /\ copies \in [Row -> Nat]
  /\ sinceCopy \in 0..Gap
  /\ interrupted \in BOOLEAN
  /\ beyond \subseteq Row

Init ==
  /\ status = [r \in Row |-> "none"]
  /\ draft = [r \in Row |-> NoDraft]
  /\ sentOn = [r \in Row |-> "never"]
  /\ suppressed = {}
  /\ pc = "idle"
  /\ todo = {}
  /\ counted = [a \in Account |-> Unread]
  /\ rerun = FALSE
  /\ sinceSend = Forgotten
  /\ faults = 0
  /\ copies = [r \in Row |-> 0]
  /\ sinceCopy = Gap
  /\ interrupted = FALSE
  /\ beyond = {}

-----------------------------------------------------------------------------
(* The outbox table. *)

InStatus(st, s) == {r \in Row : st[r] = s}

\* countSentOnUtcDay for the current day.
SentToday(a) ==
  {r \in Row : sentOn[r] = "today" /\ AccountOf[draft[r]] = a}

\* Mutant of OldestApproved: the pass reads every row not yet decided against.
OldestApprovedOrPending(st) ==
  InStatus(st, "approved") \cup InStatus(st, "pending")

\* listOutbox: the oldest PassLimit rows with status 'approved'.
OldestApproved(st) ==
  {r \in InStatus(st, "approved") :
     Cardinality({q \in InStatus(st, "approved") : q < r}) < PassLimit}

\* An agent queues a draft.  A pending row that says the same thing is handed
\* back instead, so only a draft no pending row repeats inserts one.
QueueDraft(d) ==
  /\ ~ \E q \in InStatus(status, "pending") : draft[q] = d
  /\ \E r \in InStatus(status, "none") :
       /\ \A q \in InStatus(status, "none") : r <= q
       /\ status' = [status EXCEPT ![r] = "pending"]
       /\ draft' = [draft EXCEPT ![r] = d]
  /\ UNCHANGED <<sentOn, suppressed, engineVars, faults, historyVars>>

-----------------------------------------------------------------------------
(* Ticks.  tick() starts a pass, or asks the running one for another. *)

StartPass(st) ==
  /\ pc' = "head"
  /\ todo' = OldestApproved(st)
  /\ counted' = [a \in Account |-> Unread]
  /\ rerun' = FALSE
  /\ beyond' = InStatus(st, "approved") \ todo'
  /\ UNCHANGED sinceSend

\* Mutant of Kick: a tick that finds a pass running is dropped.
KickDropped(st) ==
  IF pc = "idle"
  THEN StartPass(st)
  ELSE UNCHANGED <<pc, todo, counted, rerun, sinceSend, beyond>>

Kick(st) ==
  IF pc = "idle"
  THEN StartPass(st)
  ELSE rerun' = TRUE /\ UNCHANGED <<pc, todo, counted, sinceSend, beyond>>

HourlyTick ==
  /\ Kick(status)
  /\ UNCHANGED <<outboxVars, suppressed, faults, copies, sinceCopy, interrupted>>

\* POST .../approve: the decision, then the kick, with no await between.
Approve(r) ==
  /\ status[r] = "pending"
  /\ status' = [status EXCEPT ![r] = "approved"]
  /\ Kick(status')
  /\ UNCHANGED <<draft, sentOn, suppressed, faults, copies, sinceCopy, interrupted>>

Reject(r) ==
  /\ status[r] = "pending"
  /\ status' = [status EXCEPT ![r] = "rejected"]
  /\ UNCHANGED <<draft, sentOn, suppressed, engineVars, faults, historyVars>>

\* A human, an agent or the CRM sync's opt-out sink suppresses an address.
AddSuppression(a) ==
  /\ suppressed' = suppressed \cup {a}
  /\ UNCHANGED <<outboxVars, engineVars, faults, historyVars>>

\* DELETE .../suppression/:email, which kicks the engine.
RemoveSuppression(a) ==
  /\ a \in suppressed
  /\ suppressed' = suppressed \ {a}
  /\ Kick(status)
  /\ UNCHANGED <<outboxVars, faults, copies, sinceCopy, interrupted>>

-----------------------------------------------------------------------------
(* One pass: sendApproved. *)

\* The row in hand is the oldest one left.
InHand(r) == r \in todo /\ \A q \in todo : r <= q

SentSoFar(a) ==
  IF counted[a] = Unread THEN Cardinality(SentToday(a)) ELSE counted[a]

Blocked(r) == RecipientOf[draft[r]] \in suppressed

\* Leave the row in hand and return to the top of the loop.
NextRow(r) == todo' = todo \ {r} /\ pc' = "head"

\* Mutant of MarkFailed: a failed row stays approved, so it is tried again.
MarkFailedForRetry(r) == UNCHANGED status

MarkFailed(r) ==
  status' = [status EXCEPT ![r] = IF @ = "approved" THEN "failed" ELSE @]

\* The first lines of the loop body: read or recall today's count.
ReadCount(r) ==
  LET a == AccountOf[draft[r]]
  IN  counted' = [counted EXCEPT ![a] = SentSoFar(a)]

SkipOverCap(r) ==
  /\ pc = "head"
  /\ InHand(r)
  /\ SentSoFar(AccountOf[draft[r]]) >= Cap
  /\ ReadCount(r)
  /\ NextRow(r)
  /\ UNCHANGED <<outboxVars, suppressed, rerun, sinceSend, faults, historyVars>>

\* Mutant of FailSuppressed: the row is skipped, not failed.
SkipSuppressed(r) ==
  /\ pc = "head"
  /\ InHand(r)
  /\ SentSoFar(AccountOf[draft[r]]) < Cap
  /\ Blocked(r)
  /\ ReadCount(r)
  /\ NextRow(r)
  /\ UNCHANGED <<outboxVars, suppressed, rerun, sinceSend, faults, historyVars>>

FailSuppressed(r) ==
  /\ pc = "head"
  /\ InHand(r)
  /\ SentSoFar(AccountOf[draft[r]]) < Cap
  /\ Blocked(r)
  /\ ReadCount(r)
  /\ MarkFailed(r)
  /\ NextRow(r)
  /\ UNCHANGED <<draft, sentOn, suppressed, rerun, sinceSend, faults, historyVars>>

AskVerifier(r) ==
  /\ pc = "head"
  /\ InHand(r)
  /\ SentSoFar(AccountOf[draft[r]]) < Cap
  /\ ~ Blocked(r)
  /\ ReadCount(r)
  /\ pc' = "verify"
  /\ UNCHANGED <<outboxVars, suppressed, todo, rerun, sinceSend, faults, historyVars>>

\* The verifier says 'invalid'.
FailInvalid(r) ==
  /\ pc = "verify"
  /\ InHand(r)
  /\ MarkFailed(r)
  /\ NextRow(r)
  /\ UNCHANGED <<draft, sentOn, suppressed, counted, rerun, sinceSend, faults,
                 historyVars>>

\* Any other verdict, none, or an error: the row goes on.
PassVerifier ==
  /\ pc = "verify"
  /\ pc' = "gap"
  /\ UNCHANGED <<outboxVars, suppressed, todo, counted, rerun, sinceSend, faults,
                 historyVars>>

\* The sleep is over, or was never needed.  Jitter only lengthens it.
GapOver == pc = "gap" /\ (sinceSend = Forgotten \/ sinceSend >= Gap)

\* sendMessage's guard re-reads the suppression table; its throw lands in the
\* loop's catch, which also stamps lastSendMs.
GuardRefuses(r) ==
  /\ GapOver
  /\ InHand(r)
  /\ Blocked(r)
  /\ MarkFailed(r)
  /\ NextRow(r)
  /\ sinceSend' = 0
  /\ UNCHANGED <<draft, sentOn, suppressed, counted, rerun, faults, historyVars>>

\* Mutant of HandOff: no guard at the send, only the check before the awaits.
HandOffUnguarded(r) ==
  /\ GapOver
  /\ InHand(r)
  /\ pc' = "smtp"
  /\ UNCHANGED <<outboxVars, suppressed, todo, counted, rerun, sinceSend, faults,
                 historyVars>>

HandOff(r) ==
  /\ GapOver
  /\ InHand(r)
  /\ ~ Blocked(r)
  /\ pc' = "smtp"
  /\ UNCHANGED <<outboxVars, suppressed, todo, counted, rerun, sinceSend, faults,
                 historyVars>>

\* The mail server takes the message.  The engine learns of it later or never.
ServerAccepts(r) ==
  /\ pc = "smtp"
  /\ InHand(r)
  /\ pc' = "accepted"
  /\ copies' = [copies EXCEPT ![r] = @ + 1]
  /\ sinceCopy' = 0
  /\ UNCHANGED <<outboxVars, suppressed, todo, counted, rerun, sinceSend, faults,
                 interrupted, beyond>>

\* Mutant of RecordSent: the pass's own count is not kept up.
RecordSentUncounted(r) ==
  /\ pc = "accepted"
  /\ InHand(r)
  /\ status' = [status EXCEPT ![r] = "sent"]
  /\ sentOn' = [sentOn EXCEPT ![r] = "today"]
  /\ NextRow(r)
  /\ sinceSend' = 0
  /\ UNCHANGED <<draft, suppressed, counted, rerun, faults, historyVars>>

\* sendMessage returned: markSent, the pass's count, lastSendMs.
RecordSent(r) ==
  LET a == AccountOf[draft[r]]
  IN  /\ pc = "accepted"
      /\ InHand(r)
      /\ status[r] = "approved"
      /\ status' = [status EXCEPT ![r] = "sent"]
      /\ sentOn' = [sentOn EXCEPT ![r] = "today"]
      /\ counted' = [counted EXCEPT ![a] = @ + 1]
      /\ NextRow(r)
      /\ sinceSend' = 0
      /\ UNCHANGED <<draft, suppressed, rerun, faults, historyVars>>

\* Mutant of RecordFailed: only a successful send stamps lastSendMs.
RecordFailedUnstamped(r) ==
  /\ pc \in {"smtp", "accepted"}
  /\ InHand(r)
  /\ MarkFailed(r)
  /\ NextRow(r)
  /\ UNCHANGED <<draft, sentOn, suppressed, counted, rerun, sinceSend, faults,
                 historyVars>>

\* sendMessage threw: the server refused ("smtp"), or its answer was lost, the
\* local index write failed or markSent threw ("accepted").  No retry.
RecordFailed(r) ==
  /\ pc \in {"smtp", "accepted"}
  /\ InHand(r)
  /\ MarkFailed(r)
  /\ NextRow(r)
  /\ sinceSend' = 0
  /\ UNCHANGED <<draft, sentOn, suppressed, counted, rerun, faults, historyVars>>

\* The snapshot is exhausted; a tick that arrived meanwhile gets one more pass.
Rerun ==
  /\ pc = "head"
  /\ todo = {}
  /\ rerun
  /\ StartPass(status)
  /\ interrupted' = FALSE
  /\ UNCHANGED <<outboxVars, suppressed, faults, copies, sinceCopy>>

FinishPass ==
  /\ pc = "head"
  /\ todo = {}
  /\ ~ rerun
  /\ pc' = "idle"
  /\ interrupted' = FALSE
  /\ UNCHANGED <<outboxVars, suppressed, todo, counted, rerun, sinceSend, faults,
                 copies, sinceCopy, beyond>>

-----------------------------------------------------------------------------
(* Faults and time. *)

\* A database statement throws outside the send's try (or in its catch): the
\* pass rejects, tick() clears inFlight, and the row in hand stays approved.
PassThrows ==
  /\ pc # "idle"
  /\ faults < MaxFaults
  /\ faults' = faults + 1
  /\ pc' = "idle"
  /\ todo' = {}
  /\ interrupted' = TRUE
  /\ UNCHANGED <<outboxVars, suppressed, counted, rerun, sinceSend, copies, sinceCopy,
                 beyond>>

\* The process dies and is started again: only the tables survive.
Restart ==
  /\ faults < MaxFaults
  /\ faults' = faults + 1
  /\ pc' = "idle"
  /\ todo' = {}
  /\ counted' = [a \in Account |-> Unread]
  /\ rerun' = FALSE
  /\ sinceSend' = Forgotten
  /\ interrupted' = TRUE
  /\ UNCHANGED <<outboxVars, suppressed, copies, sinceCopy, beyond>>

Elapse ==
  /\ sinceCopy < Gap \/ sinceSend \in 0..(Gap - 1)
  /\ sinceCopy' = IF sinceCopy < Gap THEN sinceCopy + 1 ELSE Gap
  /\ sinceSend' = IF sinceSend \in 0..(Gap - 1) THEN sinceSend + 1 ELSE sinceSend
  /\ UNCHANGED <<outboxVars, suppressed, pc, todo, counted, rerun, faults, copies,
                 interrupted, beyond>>

Midnight ==
  /\ \E r \in Row : sentOn[r] = "today"
  /\ sentOn' = [r \in Row |-> IF sentOn[r] = "today" THEN "earlier" ELSE sentOn[r]]
  /\ UNCHANGED <<status, draft, suppressed, engineVars, faults, historyVars>>

-----------------------------------------------------------------------------
(* The step the send loop takes next; its awaits all settle. *)
EngineStep ==
  \/ \E r \in Row :
       \/ SkipOverCap(r) \/ FailSuppressed(r) \/ AskVerifier(r) \/ FailInvalid(r)
       \/ GuardRefuses(r) \/ HandOff(r) \/ ServerAccepts(r)
       \/ RecordSent(r) \/ RecordFailed(r)
  \/ PassVerifier
  \/ Rerun
  \/ FinishPass

Next ==
  \/ \E d \in Draft : QueueDraft(d)
  \/ \E r \in Row : Approve(r) \/ Reject(r)
  \/ \E a \in Recipient : AddSuppression(a) \/ RemoveSuppression(a)
  \/ HourlyTick
  \/ EngineStep
  \/ PassThrows
  \/ Restart
  \/ Elapse
  \/ Midnight

Spec == Init /\ [][Next]_vars

\* The loop's awaits settle (timers fire, the verifier and the mail server
\* answer or time out), the hourly interval fires, and clocks advance.
Fairness ==
  /\ WF_vars(EngineStep)
  /\ WF_vars(HourlyTick)
  /\ WF_vars(Elapse)
  /\ WF_vars(Midnight)

FairSpec == Spec /\ Fairness

-----------------------------------------------------------------------------
(* What the engine must keep true. *)

\* engine.ts:6, countSentOnUtcDay: in no UTC day are more rows of an account
\* recorded as sent than the cap, whatever passes, restarts, midnights and
\* approvals interleave: the count is read once per pass and kept by hand.
DailyCap == \A a \in Account : Cardinality(SentToday(a)) <= Cap

\* platform.ts:210: a stop recorded while a row waits for the verifier or
\* sleeps out the gap still keeps it from being handed to the mail server.
OnTheWire(r) == pc = "smtp" /\ InHand(r)
NoHandOffWhileSuppressed ==
  [][\A r \in Row : OnTheWire(r)' /\ ~ OnTheWire(r) => ~ Blocked(r)']_vars

\* routes.ts:70 "the approval IS the send trigger": when the engine rests, no
\* approved row was overlooked; each is one its last pass found over the cap, or
\* one that came after the PassLimit oldest rows a pass reads.
NothingOverlooked ==
  pc = "idle" /\ ~ interrupted =>
    \A r \in InStatus(status, "approved") \ beyond : counted[AccountOf[draft[r]]] >= Cap

\* engine.ts:171 "no retry": a row leaves the queue with its first copy, so no
\* recipient gets the same row's mail twice.
AtMostOneCopy == \A r \in Row : copies[r] <= 1

\* The same as far as the code can keep it: while the process lives and its
\* database answers, whatever answers of the mail server are lost.
NoRepeatWithoutFault == faults = 0 => AtMostOneCopy

\* README.md:381 "at least 60 seconds between engine sends": no mail is handed
\* to a server less than Gap after a server took the one before it.  A fault
\* forgets lastSendMs, which lives in memory, and with it the gap.
GapKeptWithoutFault ==
  [][\A r \in Row :
       OnTheWire(r)' /\ ~ OnTheWire(r) /\ faults = 0 => sinceCopy >= Gap]_vars

\* engine.ts:116: a row over the cap is never dropped; every approved row is
\* in the end sent, or failed with a reason.
EveryApprovalSettles ==
  \A r \in Row : status[r] = "approved" ~> status[r] \in {"sent", "failed"}

\* The engine keeps the outbox's promise: mail leaves only for approved rows,
\* rows are closed once, and only a row whose mail left is recorded as sent.
Promise == INSTANCE Outbox
KeepsPromise == Promise!Spec
=============================================================================
