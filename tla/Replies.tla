------------------------------ MODULE Replies ------------------------------
(***************************************************************************)
(* Learning who answered an invite: refreshRsvps of src/src/calendar/      *)
(* service.ts over the local message index (src/src/mail/service.ts,       *)
(* index-store.ts) and the mailbox behind it (src/src/provider/            *)
(* imap-smtp.ts), beside the calls of Meetings.                            *)
(*                                                                         *)
(* One mailbox, whose messages are numbered in the order they arrive; at   *)
(* is the receive time of each.  A scan lists the mail since its cursor,   *)
(* opens the oldest of what guests wrote and moves the cursor up to it, a  *)
(* floor no later scan reads below.                                        *)
(***************************************************************************)
EXTENDS Meetings, Sequences, FiniteSetsExt

CONSTANTS
  Pass,            \* calls of refreshRsvps that may be in flight at once
  PageLimit,       \* rows listed per page (RSVP_LIST_LIMIT or less)
  FetchLimit,      \* messages opened per pass (RSVP_FETCH_LIMIT)
  ListLimit,       \* rows asked for by the other lists of the INBOX
  MaxMessage,      \* bound: messages that ever arrive
  Burst,           \* bound: messages that arrive at one instant
  Day,             \* instants per day: IMAP's SINCE knows only days
  MaxAttempts      \* bound: failed scans, window refills and other reads by date

ASSUME RepliesAssumption ==
  /\ {PageLimit, FetchLimit, ListLimit, Burst, Day} \subseteq Nat \ {0}
  /\ {MaxMessage, MaxAttempts} \subseteq Nat

VARIABLES
  inbox,           \* Seq of [at, re]: receive time and the meeting it answers
  clock,           \* the present instant
  created,         \* calendar_meetings.created_at
  index,           \* message_summaries: the messages indexed
  synced,          \* mailbox_state: the server's changes up to here are applied
  covered,         \* mailbox_state.covered_since, Never when null
  cursor,          \* calendar_rsvp_scan_state.cursor, Never before the first
  rsvp,            \* calendar_meeting_rsvps: source and responded_at, per meeting
  pass,            \* the passes of refreshRsvps
  read,            \* history: replies a scan has opened
  unheard,         \* history: replies the scans cannot know of, or left out by a list
  attempts         \* failed scans, window refills and other reads by date so far

indexVars == <<index, synced, covered>>
mailVars == <<inbox, clock, indexVars>>
scanVars == <<cursor, rsvp, pass, read>>
vars == <<meetingVars, created, mailVars, scanVars, unheard, attempts>>

Never == MaxMessage + 1        \* later than every instant
Unsynced == -1                 \* there is no mailbox_state row yet
NoAnswer == [source |-> "none", at |-> 0]
IdlePass == [stage |-> "idle", known |-> {}, polls |-> {}, since |-> 0, todo |-> {}, mark |-> 0]

Stored == {m \in Meeting : row[m] \in {"scheduled", "cancelled"}}
At(i) == inbox[i].at
Messages == 1..Len(inbox)
Replying == {i \in Messages : inbox[i].re # NoMeeting}

Init ==
  /\ MeetingsInit
  /\ inbox = <<>> /\ clock = 0
  /\ created = [m \in Meeting |-> 0]
  /\ index = {} /\ synced = Unsynced /\ covered = Never
  /\ cursor = Never
  /\ rsvp = [m \in Meeting |-> NoAnswer]
  /\ pass = [p \in Pass |-> IdlePass]
  /\ read = {} /\ unheard = {}
  /\ attempts = 0

-----------------------------------------------------------------------------
(* The mailbox and its index *)

\* A guest who holds the invite answers it, or other mail comes in.  A reply is
\* unheard by the passes that took their list of meetings before its row was
\* stored: they take it for mail of a stranger.
Arrive(re) ==
  /\ Len(inbox) < MaxMessage
  /\ re # NoMeeting => invites[re] = 1
  /\ \E at \in {clock, clock + 1} :
       /\ Cardinality({i \in Messages : At(i) = at}) < Burst
       /\ clock' = at
       /\ inbox' = Append(inbox, [at |-> at, re |-> re])
  /\ unheard' =
       IF re # NoMeeting
            /\ \/ re \notin Stored
               \/ \E p \in Pass : pass[p].stage = "listing" /\ re \notin pass[p].known
       THEN unheard \cup {Len(inbox) + 1} ELSE unheard
  /\ UNCHANGED <<meetingVars, created, indexVars, scanVars, attempts>>

\* The delta of a background sync: every change since the last one.
DeltaSync ==
  /\ synced \in 0..(Len(inbox) - 1)
  /\ index' = index \cup (synced + 1)..Len(inbox)
  /\ synced' = Len(inbox)
  /\ UNCHANGED <<meetingVars, created, inbox, clock, covered, scanVars, unheard, attempts>>

\* A list of the INBOX for which the index holds too few rows, a changed
\* UIDVALIDITY or too large a delta: the newest window replaces the index.
WindowRefill ==
  /\ attempts < MaxAttempts
  /\ index' = {i \in Messages : i > Len(inbox) - ListLimit}
  /\ synced' = Len(inbox)
  /\ covered' = Never
  /\ attempts' = attempts + 1
  /\ UNCHANGED <<meetingVars, created, inbox, clock, scanVars, unheard>>

\* What a read by date adds to the index: of the messages since that day, the
\* newest, less those before the instant itself.
FoundByDate(since) == {i \in Messages : At(i) \div Day >= since \div Day}
Newest(S, n) == {i \in S : Cardinality({j \in S : j > i}) < n}
Fill(since, limit) == {i \in Newest(FoundByDate(since), limit) : At(i) >= since}

\* How far back it says it reaches.
Reach(since, limit) ==
  IF Cardinality(FoundByDate(since)) > limit /\ Fill(since, limit) # {}
  THEN Min({At(i) : i \in Fill(since, limit)}) ELSE since

\* listMessages with a date: fill the index once, then answer from it.
Listed(since, limit) ==
  IF covered <= since THEN indexVars
  ELSE <<index \cup Fill(since, limit), Len(inbox), Min({covered, Reach(since, limit)})>>

\* Another dated list of the INBOX, an agent's messages_list.  Replies that the
\* index claims from then on and does not hold are unheard.
ReadByDate ==
  /\ attempts < MaxAttempts
  /\ \E since \in {s \in 0..clock : s < covered} :
       /\ index' = Listed(since, ListLimit)[1]
       /\ synced' = Listed(since, ListLimit)[2]
       /\ covered' = Listed(since, ListLimit)[3]
  /\ unheard' = unheard \cup {i \in Replying \ read : At(i) >= covered' /\ i \notin index'}
  /\ attempts' = attempts + 1
  /\ UNCHANGED <<meetingVars, created, inbox, clock, scanVars>>

-----------------------------------------------------------------------------
(* refreshRsvps *)

\* The meetings are read, and the scan starts at the cursor, the first one at
\* the oldest meeting.
StartPass(p) ==
  /\ pass[p].stage = "idle"
  /\ Stored # {}
  /\ pass' = [pass EXCEPT ![p] =
       [IdlePass EXCEPT !.stage = "listing", !.known = Stored,
          !.polls = {m \in Stored : row[m] = "scheduled" /\ handle[m]},
          !.since = IF cursor # Never THEN cursor
                    ELSE Min({created[m] : m \in Stored})]]
  /\ UNCHANGED <<meetingVars, created, mailVars, cursor, rsvp, read, unheard, attempts>>

\* Mutation: the newest page of the rows, which is what a list answers first.
NewestPage(rows, since) == Newest(rows, PageLimit)

\* The oldest page of the rows since then, or the one above it when nothing in
\* it would move the cursor.
OldestPage(rows, since) ==
  LET above(i) == Cardinality({j \in rows : j > i})
      last == (Cardinality(rows) - 1) \div PageLimit
      page(n) == {i \in rows : above(i) \div PageLimit = n}
      moves == \E i \in page(last) : At(i) > since
  IN IF rows = {} THEN {}
     ELSE IF ~moves /\ last > 0 THEN page(last - 1) ELSE page(last)

\* Sets of the n oldest of S: equals in age may go either way.
OldestOf(S, n) ==
  {T \in SUBSET S : /\ Cardinality(T) = Min({n, Cardinality(S)})
                    /\ \A i \in T, j \in S \ T : At(i) <= At(j)}

\* Replies the list leaves out although they are in its window: those the read
\* by date did not fetch, and those at the window's first instant when their
\* page is stepped over.
LeftOut(since, listed, messages) ==
  {i \in Replying \ read :
     \/ covered > since /\ At(i) >= since /\ i \notin listed
     \/ At(i) = since /\ i \in listed /\ \A j \in messages : i < j}

\* The last message opened when some were left for the next pass, the newest
\* one listed otherwise.
HighMark(messages, guests, todo) ==
  Max({At(i) : i \in IF Cardinality(guests) > Cardinality(todo) THEN todo ELSE messages})

\* The window is listed and the messages to open are picked.
List(p) ==
  LET q == pass[p] IN
  /\ q.stage = "listing"
  /\ \E listed \in {Listed(q.since, PageLimit)} :
     \E messages \in {OldestPage({i \in listed[1] : At(i) >= q.since}, q.since)} :
     \E guests \in {{i \in messages : inbox[i].re \in q.known}} :
     \E todo \in OldestOf(guests, FetchLimit) :
       /\ index' = listed[1] /\ synced' = listed[2] /\ covered' = listed[3]
       /\ unheard' = unheard \cup LeftOut(q.since, listed[1], messages)
       /\ pass' = [pass EXCEPT ![p] =
            [q EXCEPT !.stage = "reading", !.todo = todo,
               !.mark = IF messages = {} THEN q.since ELSE HighMark(messages, guests, todo)]]
  /\ UNCHANGED <<meetingVars, created, inbox, clock, cursor, rsvp, read, attempts>>

\* Mutation: whatever comes in last is kept.
SupersedesLast(new, old) == TRUE

\* The precedence ladder of recordRsvp, at the one SEQUENCE invites carry.
Supersedes(new, old) ==
  \/ old.source = "none"
  \/ old.source = "provider"
  \/ new.source = "email" /\ new.at > old.at

Record(m, new) ==
  rsvp' = [rsvp EXCEPT ![m] = IF Supersedes(new, @) THEN new ELSE @]

\* getMessage and recordRsvp, the oldest first.
Read(p) ==
  /\ pass[p].stage = "reading"
  /\ \E i \in pass[p].todo :
       /\ \A j \in pass[p].todo : At(i) <= At(j)
       /\ Record(inbox[i].re, [source |-> "email", at |-> At(i)])
       /\ read' = read \cup {i}
       /\ pass' = [pass EXCEPT ![p].todo = @ \ {i}]
  /\ UNCHANGED <<meetingVars, created, mailVars, cursor, unheard, attempts>>

\* The scan is over; what is left of the pass is the provider's turn.
ToPolling(p) ==
  pass' = [pass EXCEPT ![p] = [IdlePass EXCEPT !.stage = "polling", !.polls = pass[p].polls]]

\* Mutation: the cursor waits for a pass that leaves nothing unopened.
FinishUncut(p) ==
  /\ pass[p].stage = "reading" /\ pass[p].todo = {}
  /\ cursor' = IF /\ pass[p].mark > pass[p].since
                  /\ \A i \in index : At(i) <= pass[p].mark
               THEN pass[p].mark ELSE cursor
  /\ ToPolling(p)
  /\ UNCHANGED <<meetingVars, created, mailVars, rsvp, read, unheard, attempts>>

\* Everything picked was opened: the cursor moves, forward of where this pass
\* started.
Finish(p) ==
  /\ pass[p].stage = "reading" /\ pass[p].todo = {}
  /\ cursor' = IF pass[p].mark > pass[p].since THEN pass[p].mark ELSE cursor
  /\ ToPolling(p)
  /\ UNCHANGED <<meetingVars, created, mailVars, rsvp, read, unheard, attempts>>

\* listMessages or getMessage threw: the mailbox's scan is given up, the cursor
\* stays, and the provider is still asked.
ScanFails(p) ==
  /\ pass[p].stage \in {"listing", "reading"}
  /\ attempts < MaxAttempts
  /\ attempts' = attempts + 1
  /\ ToPolling(p)
  /\ UNCHANGED <<meetingVars, created, mailVars, cursor, rsvp, read, unheard>>

\* pollAttendeeStatus: the calendar reports answers without an instant.
Poll(p) ==
  /\ pass[p].stage = "polling"
  /\ \E heard \in SUBSET pass[p].polls :
       rsvp' = [m \in Meeting |->
         IF m \in heard /\ Supersedes([source |-> "provider", at |-> 0], rsvp[m])
         THEN [source |-> "provider", at |-> 0] ELSE rsvp[m]]
  /\ pass' = [pass EXCEPT ![p] = IdlePass]
  /\ UNCHANGED <<meetingVars, created, mailVars, cursor, read, unheard, attempts>>

-----------------------------------------------------------------------------
(* The calls of Meetings, with what they do to the answers *)

Store(w) ==
  /\ Scheduled(w)
  /\ created' = [created EXCEPT ![about[w]] = clock]
  /\ UNCHANGED <<mailVars, scanVars, unheard, attempts>>

\* deleteMeeting drops the answers with the row.
Forget(m) ==
  /\ Remove(m)
  /\ rsvp' = [rsvp EXCEPT ![m] = NoAnswer]
  /\ UNCHANGED <<created, mailVars, cursor, pass, read, unheard, attempts>>

Die ==
  /\ Crash
  /\ pass' = [p \in Pass |-> IdlePass]
  /\ UNCHANGED <<created, mailVars, cursor, rsvp, read, unheard, attempts>>

OtherCall(w) ==
  /\ \/ \E m \in Meeting : Create(w, m) \/ Cancel(w, m)
     \/ InviteSent(w) \/ InviteThrows(w)
     \/ CancelSent(w) \/ CancelThrows(w) \/ Cancelled(w)
  /\ UNCHANGED <<created, mailVars, scanVars, unheard, attempts>>

PassStep(p) ==
  StartPass(p) \/ List(p) \/ Read(p) \/ Finish(p) \/ Poll(p)

Next ==
  \/ \E w \in Window : OtherCall(w) \/ Store(w)
  \/ \E m \in Meeting : Forget(m)
  \/ \E re \in Meeting \cup {NoMeeting} : Arrive(re)
  \/ DeltaSync \/ WindowRefill \/ ReadByDate
  \/ \E p \in Pass : PassStep(p) \/ ScanFails(p)
  \/ Die

Spec == Init /\ [][Next]_vars

\* The meetings page asks for a pass whenever it is drawn, awaited calls return
\* or throw, and the index refreshes itself when it is stale.
FairSpec == Spec /\ WF_vars(DeltaSync) /\ \A p \in Pass : WF_vars(PassStep(p))

-----------------------------------------------------------------------------
(* Properties *)

TypeOK ==
  /\ MeetingsTypeOK
  /\ inbox \in Seq([at : 0..MaxMessage, re : Meeting \cup {NoMeeting}])
  /\ clock \in 0..MaxMessage
  /\ created \in [Meeting -> 0..MaxMessage]
  /\ index \subseteq Messages /\ synced \in -1..Len(inbox) /\ covered \in 0..Never
  /\ cursor \in 0..Never
  /\ rsvp \in [Meeting -> [source : {"none", "email", "provider"}, at : 0..MaxMessage]]
  /\ pass \in [Pass -> [stage : {"idle", "listing", "reading", "polling"},
                         known : SUBSET Meeting, polls : SUBSET Meeting,
                         since : 0..MaxMessage, todo : SUBSET Messages, mark : 0..MaxMessage]]
  /\ read \cup unheard \subseteq Replying
  /\ attempts \in 0..MaxAttempts

\* Replies to a meeting on the list that no scan has opened yet.
Unread(i) == i \in Replying \ (unheard \cup read) /\ inbox[i].re \in Stored

\* Nothing ever lists below the cursor again, so no reply may be under it that
\* no scan has opened: whatever passes overlap, are cut short by the page or the
\* fetch cap, or fail, the cursor only moves over mail that was examined - and
\* over what a list left out (LeftOut, ReadByDate).
NothingSkipped ==
  cursor # Never => \A i \in Messages : Unread(i) => At(i) >= cursor

\* The answer on record is the newest one a scan has opened, and no word of the
\* calendar replaces it, in whatever order passes read and poll.
AnswerIsNewestRead ==
  \A m \in Stored :
    LET opened == {At(i) : i \in {j \in read : inbox[j].re = m}} IN
    /\ rsvp[m].source = "email" <=> opened # {}
    /\ opened # {} => rsvp[m].at = Max(opened)

\* Every reply that came after its meeting was known is read in the end, while
\* the meeting is kept: the scan catches up again and again.
ScanCatchesUp == []<>(\A i \in Messages : ~Unread(i))
=============================================================================
