------------------------------ MODULE Meetings ------------------------------
(***************************************************************************)
(* Creating, cancelling and forgetting a meeting (src/src/calendar/        *)
(* service.ts, store.ts and routes.ts).                                    *)
(*                                                                         *)
(* A meeting lives in three places: the guests' mailboxes, the organizer's *)
(* calendar and the table calendar_meetings.  The service writes them one  *)
(* after the other across awaits, so a call of createMeeting or            *)
(* cancelMeeting is a sequence of steps that other calls and the death of  *)
(* the process come between.  Each attempt to create a meeting mints a UID *)
(* of its own: a member of Meeting is one such UID.                        *)
(***************************************************************************)
EXTENDS Integers, FiniteSets

CONSTANTS
  Meeting,         \* UIDs createMeeting may ever mint
  Window,          \* calls of createMeeting and cancelMeeting in flight at once
  NoMeeting,       \* what an idle call holds, and what ordinary mail is about
  MaxFaults        \* bound: lost answers, failed requests and process deaths

ASSUME MeetingsAssumption ==
  /\ IsFiniteSet(Meeting)
  /\ NoMeeting \notin Meeting
  /\ MaxFaults \in Nat

VARIABLES
  row,             \* calendar_meetings: "none", "scheduled", "cancelled", "removed"
  handle,          \* does the row hold the provider's eventId?
  event,           \* is there an event on the organizer's calendar?
  invites,         \* REQUEST mails the guests received, 0 or 1
  cancels,         \* have the guests received a CANCEL mail?
  stage,           \* how far each call is
  about,           \* the meeting it is about
  strays,          \* history: meetings a fault tore apart
  faults           \* faults so far

outsideVars == <<event, invites, cancels>>
callVars == <<stage, about>>
meetingVars == <<row, handle, event, invites, cancels, stage, about, strays, faults>>

RowStatus == {"none", "scheduled", "cancelled", "removed"}

\* Creating: "inviting" (sendMessage is under way), "writing" (createEvent is).
\* Cancelling: "withdrawing" (sendMessage is under way), "deleting" (deleteEvent is).
Creating == {"inviting", "writing"}
Cancelling == {"withdrawing", "deleting"}
Stage == {"idle"} \cup Creating \cup Cancelling

MeetingsInit ==
  /\ row = [m \in Meeting |-> "none"]
  /\ handle = [m \in Meeting |-> FALSE]
  /\ event = [m \in Meeting |-> FALSE]
  /\ invites = [m \in Meeting |-> 0]
  /\ cancels = [m \in Meeting |-> FALSE]
  /\ stage = [w \in Window |-> "idle"]
  /\ about = [w \in Window |-> NoMeeting]
  /\ strays = {}
  /\ faults = 0

InFlight(m, stages) == \E w \in Window : about[w] = m /\ stage[w] \in stages

Begin(w, s, m) ==
  /\ stage[w] = "idle"
  /\ stage' = [stage EXCEPT ![w] = s]
  /\ about' = [about EXCEPT ![w] = m]

Await(w, s) == stage' = [stage EXCEPT ![w] = s] /\ UNCHANGED about

Return(w) ==
  /\ stage' = [stage EXCEPT ![w] = "idle"]
  /\ about' = [about EXCEPT ![w] = NoMeeting]

\* What a call to a server that throws may still have done there: the fault is
\* the request or the answer getting lost.
Fault(torn) ==
  /\ faults < MaxFaults
  /\ faults' = faults + 1
  /\ strays' = strays \cup torn

NoFault == UNCHANGED <<strays, faults>>

-----------------------------------------------------------------------------
(* createMeeting *)

\* The UID is minted and sendMessage called; nothing is stored.
Create(w, m) ==
  /\ row[m] = "none" /\ invites[m] = 0 /\ ~InFlight(m, Creating)
  /\ Begin(w, "inviting", m)
  /\ NoFault
  /\ UNCHANGED <<row, handle, outsideVars>>

InviteSent(w) ==
  /\ stage[w] = "inviting"
  /\ invites' = [invites EXCEPT ![about[w]] = 1]
  /\ Await(w, "writing")
  /\ NoFault
  /\ UNCHANGED <<row, handle, event, cancels>>

\* sendMessage threw: the call throws, and the caller may try again under
\* another UID.  The server may have taken the mail before its answer was lost.
InviteThrows(w) ==
  /\ stage[w] = "inviting"
  /\ \E taken \in {0, 1} :
       /\ invites' = [invites EXCEPT ![about[w]] = taken]
       /\ Fault(IF taken = 1 THEN {about[w]} ELSE {})
  /\ Return(w)
  /\ UNCHANGED <<row, handle, event, cancels>>

\* addMeeting
Insert(m, h) ==
  /\ row' = [row EXCEPT ![m] = "scheduled"]
  /\ handle' = [handle EXCEPT ![m] = h]

\* Mutation: a meeting whose event could not be written is not stored.
ScheduledIfWritten(w) ==
  /\ stage[w] = "writing"
  /\ \/ event' = [event EXCEPT ![about[w]] = TRUE] /\ Insert(about[w], TRUE) /\ NoFault
     \/ UNCHANGED <<event, row, handle>> /\ NoFault
  /\ Return(w)
  /\ UNCHANGED <<invites, cancels>>

\* createEvent returned or threw (a warning), or there is no calendar account
\* and it was never called; then the row is stored, with the event's handle if
\* one came back.
Scheduled(w) ==
  /\ stage[w] = "writing"
  /\ \/ event' = [event EXCEPT ![about[w]] = TRUE] /\ Insert(about[w], TRUE) /\ NoFault
     \/ UNCHANGED event /\ Insert(about[w], FALSE) /\ NoFault
     \/ /\ event' = [event EXCEPT ![about[w]] = TRUE]
        /\ Insert(about[w], FALSE)
        /\ Fault({about[w]})
  /\ Return(w)
  /\ UNCHANGED <<invites, cancels>>

-----------------------------------------------------------------------------
(* cancelMeeting *)

\* Mutation: the row is marked before the guests are told.
CancelMarksFirst(w, m) ==
  /\ row[m] = "scheduled"
  /\ Begin(w, "withdrawing", m)
  /\ row' = [row EXCEPT ![m] = "cancelled"]
  /\ NoFault
  /\ UNCHANGED <<handle, outsideVars>>

\* The row is read and a CANCEL mailed: two calls may both find it scheduled.
Cancel(w, m) ==
  /\ row[m] = "scheduled"
  /\ Begin(w, "withdrawing", m)
  /\ NoFault
  /\ UNCHANGED <<row, handle, outsideVars>>

\* markCancelled updates a row that may be gone by now.
MarkCancelled(m) ==
  row' = [row EXCEPT ![m] = IF @ = "removed" THEN @ ELSE "cancelled"]

\* Mutation: the event is left on the calendar.
CancelSentOnly(w) ==
  /\ stage[w] = "withdrawing"
  /\ cancels' = [cancels EXCEPT ![about[w]] = TRUE]
  /\ MarkCancelled(about[w])
  /\ Return(w)
  /\ NoFault
  /\ UNCHANGED <<handle, event, invites>>

\* The guests are told.  A meeting that has no handle is marked at once, the
\* others wait for deleteEvent.
CancelSent(w) ==
  /\ stage[w] = "withdrawing"
  /\ cancels' = [cancels EXCEPT ![about[w]] = TRUE]
  /\ \/ handle[about[w]] /\ Await(w, "deleting") /\ UNCHANGED row
     \/ ~handle[about[w]] /\ Return(w) /\ MarkCancelled(about[w])
  /\ NoFault
  /\ UNCHANGED <<handle, event, invites>>

\* sendMessage threw: the meeting stays scheduled, the event in place.
CancelThrows(w) ==
  /\ stage[w] = "withdrawing"
  /\ \E taken \in BOOLEAN : cancels' = [cancels EXCEPT ![about[w]] = @ \/ taken]
  /\ Return(w)
  /\ Fault({})
  /\ UNCHANGED <<row, handle, event, invites>>

\* deleteEvent returned, or threw, which is a warning: the row is marked either
\* way, and an event that was not deleted has lost its handle.
Cancelled(w) ==
  /\ stage[w] = "deleting"
  /\ \/ event' = [event EXCEPT ![about[w]] = FALSE] /\ NoFault
     \/ UNCHANGED event /\ Fault({about[w]})
  /\ MarkCancelled(about[w])
  /\ Return(w)
  /\ UNCHANGED <<handle, invites, cancels>>

-----------------------------------------------------------------------------
(* Forgetting and dying *)

\* DELETE /api/calendar/meetings/:id, or the sweep of rows cancelled long ago.
Remove(m) ==
  /\ row[m] = "cancelled"
  /\ row' = [row EXCEPT ![m] = "removed"]
  /\ NoFault
  /\ UNCHANGED <<handle, outsideVars, callVars>>

\* The process dies and every call with it.  A request under way may have
\* reached its server.
Crash ==
  /\ \E reached \in SUBSET {w \in Window : stage[w] # "idle"} :
       LET At(s) == {about[w] : w \in {x \in reached : stage[x] = s}} IN
       /\ invites' = [m \in Meeting |-> IF m \in At("inviting") THEN 1 ELSE invites[m]]
       /\ event' = [m \in Meeting |-> /\ event[m] \/ m \in At("writing")
                                      /\ m \notin At("deleting")]
       /\ cancels' = [m \in Meeting |-> cancels[m] \/ m \in At("withdrawing")]
       /\ Fault({m \in Meeting : InFlight(m, {"writing"}) \/ m \in At("inviting")})
  /\ stage' = [w \in Window |-> "idle"]
  /\ about' = [w \in Window |-> NoMeeting]
  /\ UNCHANGED <<row, handle>>

CallStep(w) ==
  \/ InviteSent(w) \/ InviteThrows(w) \/ Scheduled(w)
  \/ CancelSent(w) \/ CancelThrows(w) \/ Cancelled(w)

MeetingsNext ==
  \/ \E w \in Window, m \in Meeting : Create(w, m) \/ Cancel(w, m)
  \/ \E w \in Window : CallStep(w)
  \/ \E m \in Meeting : Remove(m)
  \/ Crash

MeetingsSpec == MeetingsInit /\ [][MeetingsNext]_meetingVars

-----------------------------------------------------------------------------
(* Properties *)

MeetingsTypeOK ==
  /\ row \in [Meeting -> RowStatus]
  /\ handle \in [Meeting -> BOOLEAN]
  /\ event \in [Meeting -> BOOLEAN]
  /\ invites \in [Meeting -> {0, 1}]
  /\ cancels \in [Meeting -> BOOLEAN]
  /\ stage \in [Window -> Stage]
  /\ about \in [Window -> Meeting \cup {NoMeeting}]
  /\ strays \subseteq Meeting
  /\ faults \in 0..MaxFaults

\* Guests who hold an invite and were not told otherwise hold one that can be
\* withdrawn: its row is stored as scheduled, or the call that will store it is
\* under way.  Only a lost answer or a death between the mail and the INSERT
\* leaves an invite nobody can cancel.
InviteCanBeWithdrawn ==
  \A m \in Meeting :
    invites[m] = 1 /\ ~cancels[m] /\ m \notin strays =>
      row[m] = "scheduled" \/ InFlight(m, {"writing"})

\* No meeting is cancelled or forgotten behind its guests' backs, whatever calls
\* overlap and wherever the process dies.
ToldBeforeForgotten ==
  \A m \in Meeting : row[m] \in {"cancelled", "removed"} => cancels[m]

\* The organizer's calendar follows the table: an event stands only for a
\* scheduled meeting, unless a calendar server failed on the way.
EventFollowsMeeting ==
  \A m \in Meeting :
    event[m] /\ m \notin strays => row[m] = "scheduled"
=============================================================================
