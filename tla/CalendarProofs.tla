--------------------------- MODULE CalendarProofs ---------------------------
(***************************************************************************)
(* Proofs about Meetings, for any meetings, calls and bound on the faults, *)
(* and about Replies, the same calls beside scans of the mailbox.          *)
(*                                                                         *)
(* The argument for Meetings is what a call may assume when its await is   *)
(* over: the call that creates a meeting is the only one and its row is    *)
(* not there yet; the one that deletes the event has told the guests; and  *)
(* an event that no fault tore loose has its handle in the row.  Every     *)
(* step of Replies is a step of Meetings or leaves its state alone, so     *)
(* what is proved of the one holds of the other.                           *)
(***************************************************************************)
EXTENDS Replies, FiniteSetTheorems, NaturalsInduction, WellFoundedInduction, TLAPS

\* A call under way is about a meeting.
CallsHold ==
  \A w \in Window : stage[w] # "idle" => about[w] \in Meeting

\* A meeting that is being created has no row, and one call creates it.
CreatorsHold ==
  \A w \in Window : stage[w] \in Creating =>
    /\ row[about[w]] = "none"
    /\ \A x \in Window : stage[x] \in Creating /\ about[x] = about[w] => x = w

\* A meeting that is being cancelled was stored, and its guests are told
\* before its event goes.
CancellersHold ==
  \A w \in Window :
    /\ stage[w] \in Cancelling => row[about[w]] # "none"
    /\ stage[w] = "deleting" => cancels[about[w]]

\* An event of a scheduled meeting can be deleted again.
HandlesHold ==
  \A m \in Meeting : event[m] /\ m \notin strays => handle[m]

Calls == CallsHold /\ CreatorsHold /\ CancellersHold
Promises == InviteCanBeWithdrawn /\ ToldBeforeForgotten /\ EventFollowsMeeting /\ HandlesHold
IInv == MeetingsTypeOK /\ Calls /\ Promises

-----------------------------------------------------------------------------
(* The invariant is inductive *)

LEMMA InitInv == MeetingsInit => IInv
  BY MeetingsAssumption
  DEF MeetingsInit, IInv, MeetingsTypeOK, Calls, CallsHold, CreatorsHold, CancellersHold,
      Promises, InviteCanBeWithdrawn, ToldBeforeForgotten, EventFollowsMeeting, HandlesHold,
      RowStatus, Stage, Creating, Cancelling

\* A fault is one more, within its bound.
LEMMA FaultCounts ==
  ASSUME MeetingsTypeOK, NEW torn \in SUBSET Meeting, Fault(torn)
  PROVE  /\ faults' \in 0..MaxFaults
         /\ strays' = strays \cup torn
         /\ strays' \subseteq Meeting
  BY MeetingsAssumption DEF MeetingsTypeOK, Fault

\* createMeeting mints a UID: nothing changes but the call.
LEMMA CreateStep ==
  ASSUME IInv, NEW w \in Window, NEW m \in Meeting, Create(w, m)
  PROVE  IInv'
<1> USE DEF IInv, MeetingsTypeOK, Create, Begin, NoFault, outsideVars, InFlight
<1>1. MeetingsTypeOK'
  BY DEF Stage, Creating
<1>2. CallsHold'
  BY DEF Calls, CallsHold
<1>3. CreatorsHold'
  BY DEF Calls, CreatorsHold, Creating
<1>4. CancellersHold'
  BY DEF Calls, CallsHold, CancellersHold, Cancelling, Creating
<1>5. InviteCanBeWithdrawn'
  BY DEF Promises, InviteCanBeWithdrawn
<1>6. ToldBeforeForgotten' /\ EventFollowsMeeting' /\ HandlesHold'
  BY DEF Promises, ToldBeforeForgotten, EventFollowsMeeting, HandlesHold
<1> QED
  BY <1>1, <1>2, <1>3, <1>4, <1>5, <1>6 DEF Calls, Promises

\* The invite is out and the row not yet stored, but the call is under way.
LEMMA InviteSentStep ==
  ASSUME IInv, NEW w \in Window, InviteSent(w)
  PROVE  IInv'
<1> USE DEF IInv, MeetingsTypeOK, InviteSent, Await, NoFault, InFlight
<1>1. about[w] \in Meeting /\ stage[w] \in Creating
  BY DEF Calls, CallsHold, Creating
<1>2. MeetingsTypeOK'
  BY DEF Stage, Creating
<1>3. CallsHold'
  BY DEF Calls, CallsHold
<1>4. CreatorsHold'
  BY <1>1 DEF Calls, CreatorsHold, Creating
<1>5. CancellersHold'
  BY DEF Calls, CallsHold, CancellersHold, Cancelling, Creating
<1>6. InviteCanBeWithdrawn'
  <2> SUFFICES ASSUME NEW m \in Meeting, invites'[m] = 1, ~cancels[m], m \notin strays
               PROVE  row[m] = "scheduled" \/ InFlight(m, {"writing"})'
    BY DEF InviteCanBeWithdrawn
  <2>1. CASE m = about[w]
    BY <2>1
  <2>2. CASE m # about[w]
    BY <2>2 DEF Promises, InviteCanBeWithdrawn
  <2> QED
    BY <2>1, <2>2
<1>7. ToldBeforeForgotten' /\ EventFollowsMeeting' /\ HandlesHold'
  BY DEF Promises, ToldBeforeForgotten, EventFollowsMeeting, HandlesHold
<1> QED
  BY <1>2, <1>3, <1>4, <1>5, <1>6, <1>7 DEF Calls, Promises

\* The call ends; if the invite went out after all, a fault says so.
LEMMA InviteThrowsStep ==
  ASSUME IInv, NEW w \in Window, InviteThrows(w)
  PROVE  IInv'
<1> USE DEF IInv, MeetingsTypeOK, InviteThrows, Return, InFlight
<1>1. about[w] \in Meeting
  BY DEF Calls, CallsHold
<1>2. PICK taken \in {0, 1} :
        /\ invites' = [invites EXCEPT ![about[w]] = taken]
        /\ Fault(IF taken = 1 THEN {about[w]} ELSE {})
  OBVIOUS
<1>3. /\ faults' \in 0..MaxFaults
      /\ strays' = strays \cup (IF taken = 1 THEN {about[w]} ELSE {})
      /\ strays' \subseteq Meeting
  BY <1>1, <1>2, FaultCounts
<1>4. MeetingsTypeOK'
  BY <1>2, <1>3 DEF Stage
<1>5. CallsHold'
  BY DEF Calls, CallsHold
<1>6. CreatorsHold'
  BY DEF Calls, CreatorsHold, Creating
<1>7. CancellersHold'
  BY DEF Calls, CallsHold, CancellersHold, Cancelling, Creating
<1>8. InviteCanBeWithdrawn'
  <2> SUFFICES ASSUME NEW m \in Meeting, invites'[m] = 1, ~cancels[m], m \notin strays'
               PROVE  row[m] = "scheduled" \/ InFlight(m, {"writing"})'
    BY DEF InviteCanBeWithdrawn
  <2>1. m # about[w]
    BY <1>1, <1>2, <1>3
  <2> QED
    BY <2>1, <1>2, <1>3 DEF Promises, InviteCanBeWithdrawn
<1>9. ToldBeforeForgotten' /\ EventFollowsMeeting' /\ HandlesHold'
  BY <1>3 DEF Promises, ToldBeforeForgotten, EventFollowsMeeting, HandlesHold
<1> QED
  BY <1>4, <1>5, <1>6, <1>7, <1>8, <1>9 DEF Calls, Promises

\* The row is stored: it is the first for this meeting, so nothing else is
\* known of it but the call that ends.
LEMMA ScheduledStep ==
  ASSUME IInv, NEW w \in Window, Scheduled(w)
  PROVE  IInv'
<1> USE DEF IInv, MeetingsTypeOK, Scheduled, Return, Insert, InFlight
<1>1. about[w] \in Meeting /\ stage[w] \in Creating /\ row[about[w]] = "none"
  BY DEF Calls, CallsHold, CreatorsHold, Creating
<1>2. \A x \in Window : stage[x] \in Creating /\ about[x] = about[w] => x = w
  BY <1>1 DEF Calls, CreatorsHold
<1>3. /\ row' = [row EXCEPT ![about[w]] = "scheduled"]
      /\ \E h \in BOOLEAN : handle' = [handle EXCEPT ![about[w]] = h]
      /\ \E e \in BOOLEAN : event' = [event EXCEPT ![about[w]] = e]
  <2>1. row' = [row EXCEPT ![about[w]] = "scheduled"]
    OBVIOUS
  <2>2. \E h \in BOOLEAN : handle' = [handle EXCEPT ![about[w]] = h]
    OBVIOUS
  <2>3. event = [event EXCEPT ![about[w]] = event[about[w]]] /\ event[about[w]] \in BOOLEAN
    BY <1>1
  <2>4. \E e \in BOOLEAN : event' = [event EXCEPT ![about[w]] = e]
    BY <2>3
  <2> QED
    BY <2>1, <2>2, <2>4
<1>4. /\ faults' \in 0..MaxFaults
      /\ strays' \subseteq Meeting /\ strays \subseteq strays'
  BY <1>1, FaultCounts DEF NoFault
<1>5. MeetingsTypeOK'
  BY <1>1, <1>3, <1>4 DEF Stage, RowStatus
<1>6. CallsHold'
  BY DEF Calls, CallsHold
<1>7. CreatorsHold'
  BY <1>1, <1>2, <1>3 DEF Calls, CallsHold, CreatorsHold, Creating
<1>8. CancellersHold'
  BY DEF Calls, CallsHold, CancellersHold, Cancelling, Creating
<1>9. InviteCanBeWithdrawn'
  <2> SUFFICES ASSUME NEW m \in Meeting, invites[m] = 1, ~cancels[m], m \notin strays
               PROVE  row'[m] = "scheduled" \/ InFlight(m, {"writing"})'
    BY <1>3, <1>4 DEF InviteCanBeWithdrawn
  <2> QED
    BY <1>1, <1>3, <1>4 DEF Promises, InviteCanBeWithdrawn
<1>10. ToldBeforeForgotten'
  BY <1>1, <1>3, <1>4 DEF Promises, ToldBeforeForgotten
<1>11. EventFollowsMeeting'
  BY <1>1, <1>3, <1>4 DEF Promises, EventFollowsMeeting
<1>12. HandlesHold'
  <2> SUFFICES ASSUME NEW m \in Meeting, event'[m], m \notin strays'
               PROVE  handle'[m]
    BY DEF HandlesHold
  <2>1. CASE m # about[w]
    BY <2>1, <1>3, <1>4 DEF Promises, HandlesHold
  <2>2. CASE m = about[w]
    <3>1. ~event[m] \/ m \in strays
      BY <2>2, <1>1 DEF Promises, EventFollowsMeeting
    <3> QED
      BY <2>2, <3>1, <1>1, <1>3, <1>4 DEF NoFault, Fault
  <2> QED
    BY <2>1, <2>2
<1> QED
  BY <1>5, <1>6, <1>7, <1>8, <1>9, <1>10, <1>11, <1>12 DEF Calls, Promises

\* cancelMeeting has read a scheduled row: nothing changes but the call.
LEMMA CancelStep ==
  ASSUME IInv, NEW w \in Window, NEW m \in Meeting, Cancel(w, m)
  PROVE  IInv'
<1> USE DEF IInv, MeetingsTypeOK, Cancel, Begin, NoFault, outsideVars, InFlight
<1>1. MeetingsTypeOK'
  BY DEF Stage, Cancelling
<1>2. CallsHold'
  BY DEF Calls, CallsHold
<1>3. CreatorsHold'
  BY DEF Calls, CreatorsHold, Creating
<1>4. CancellersHold'
  BY DEF Calls, CallsHold, CancellersHold, Cancelling, Creating
<1>5. InviteCanBeWithdrawn'
  BY DEF Promises, InviteCanBeWithdrawn
<1>6. ToldBeforeForgotten' /\ EventFollowsMeeting' /\ HandlesHold'
  BY DEF Promises, ToldBeforeForgotten, EventFollowsMeeting, HandlesHold
<1> QED
  BY <1>1, <1>2, <1>3, <1>4, <1>5, <1>6 DEF Calls, Promises

\* The mark never makes a row out of none that anybody creates.
LEMMA MarkKeepsCreators ==
  ASSUME IInv, NEW w \in Window, stage[w] \in Cancelling, MarkCancelled(about[w]),
         row[about[w]] # "none", Return(w)
  PROVE  /\ CallsHold' /\ CreatorsHold'
         /\ row' \in [Meeting -> RowStatus]
         /\ \A m \in Meeting : row'[m] # row[m] => m = about[w]
<1> USE DEF IInv, MeetingsTypeOK, MarkCancelled, Return
<1>1. about[w] \in Meeting
  BY DEF Calls, CallsHold, Cancelling
<1>2. row' \in [Meeting -> RowStatus] /\ \A m \in Meeting : row'[m] # row[m] => m = about[w]
  BY <1>1 DEF RowStatus
<1>3. CallsHold'
  BY DEF Calls, CallsHold
<1>4. CreatorsHold'
  BY <1>1, <1>2 DEF Calls, CallsHold, CreatorsHold, Creating
<1> QED
  BY <1>2, <1>3, <1>4

\* Guests told; the event, if there is one to delete, comes next.
LEMMA CancelSentStep ==
  ASSUME IInv, NEW w \in Window, CancelSent(w)
  PROVE  IInv'
<1> USE DEF IInv, MeetingsTypeOK, CancelSent, NoFault, InFlight
<1>1. /\ about[w] \in Meeting /\ stage[w] \in Cancelling /\ row[about[w]] # "none"
      /\ cancels' = [cancels EXCEPT ![about[w]] = TRUE]
  BY DEF Calls, CallsHold, CancellersHold, Cancelling
<1>2. ASSUME handle[about[w]], Await(w, "deleting"), UNCHANGED row
      PROVE  IInv'
  <2> USE <1>2 DEF Await
  <2>1. MeetingsTypeOK'
    BY <1>1 DEF Stage, Cancelling
  <2>2. CallsHold'
    BY <1>1 DEF Calls, CallsHold
  <2>3. CreatorsHold'
    BY DEF Calls, CreatorsHold, Creating
  <2>4. CancellersHold'
    BY <1>1 DEF Calls, CancellersHold, Cancelling
  <2>5. InviteCanBeWithdrawn'
    BY <1>1 DEF Promises, InviteCanBeWithdrawn
  <2>6. ToldBeforeForgotten' /\ EventFollowsMeeting' /\ HandlesHold'
    BY <1>1 DEF Promises, ToldBeforeForgotten, EventFollowsMeeting, HandlesHold
  <2> QED
    BY <2>1, <2>2, <2>3, <2>4, <2>5, <2>6 DEF Calls, Promises
<1>3. ASSUME ~handle[about[w]], Return(w), MarkCancelled(about[w])
      PROVE  IInv'
  <2>1. /\ CallsHold' /\ CreatorsHold'
        /\ row' \in [Meeting -> RowStatus]
        /\ \A m \in Meeting : row'[m] # row[m] => m = about[w]
    BY <1>1, <1>3, MarkKeepsCreators
  <2> USE <1>3 DEF Return
  <2>2. MeetingsTypeOK'
    BY <1>1, <2>1 DEF Stage
  <2>3. CancellersHold'
    BY <1>1 DEF Calls, CallsHold, CancellersHold, Cancelling, MarkCancelled
  <2>4. InviteCanBeWithdrawn'
    BY <1>1, <2>1 DEF Promises, InviteCanBeWithdrawn
  <2>5. ToldBeforeForgotten'
    BY <1>1, <2>1 DEF Promises, ToldBeforeForgotten
  <2>6. ~event[about[w]] \/ about[w] \in strays
    BY <1>1 DEF Promises, HandlesHold
  <2>7. EventFollowsMeeting' /\ HandlesHold'
    BY <2>1, <2>6 DEF Promises, EventFollowsMeeting, HandlesHold
  <2> QED
    BY <2>1, <2>2, <2>3, <2>4, <2>5, <2>7 DEF Calls, Promises
<1> QED
  BY <1>2, <1>3

\* The meeting stays as it was, whether or not the guests heard of it.
LEMMA CancelThrowsStep ==
  ASSUME IInv, NEW w \in Window, CancelThrows(w)
  PROVE  IInv'
<1> USE DEF IInv, MeetingsTypeOK, CancelThrows, Return, InFlight
<1>1. about[w] \in Meeting
  BY DEF Calls, CallsHold
<1>2. faults' \in 0..MaxFaults /\ strays' = strays
  <2>1. faults' \in 0..MaxFaults /\ strays' = strays \cup {}
    BY FaultCounts
  <2> QED
    BY <2>1
<1>3. PICK taken \in BOOLEAN : cancels' = [cancels EXCEPT ![about[w]] = @ \/ taken]
  OBVIOUS
<1>4. cancels' \in [Meeting -> BOOLEAN] /\ \A m \in Meeting : cancels[m] => cancels'[m]
  BY <1>3
<1>5. MeetingsTypeOK'
  BY <1>2, <1>4 DEF Stage
<1>6. CallsHold'
  BY DEF Calls, CallsHold
<1>7. CreatorsHold'
  BY DEF Calls, CreatorsHold, Creating
<1>8. CancellersHold'
  BY <1>4 DEF Calls, CallsHold, CancellersHold, Cancelling
<1>9. InviteCanBeWithdrawn'
  BY <1>2, <1>4 DEF Promises, InviteCanBeWithdrawn
<1>10. ToldBeforeForgotten' /\ EventFollowsMeeting' /\ HandlesHold'
  BY <1>2, <1>4 DEF Promises, ToldBeforeForgotten, EventFollowsMeeting, HandlesHold
<1> QED
  BY <1>5, <1>6, <1>7, <1>8, <1>9, <1>10 DEF Calls, Promises

\* The row is marked: its guests were told, and an event that is left is a fault's.
LEMMA CancelledStep ==
  ASSUME IInv, NEW w \in Window, Cancelled(w)
  PROVE  IInv'
<1> USE DEF IInv, MeetingsTypeOK, Cancelled, InFlight
<1>1. /\ about[w] \in Meeting /\ stage[w] \in Cancelling /\ row[about[w]] # "none"
      /\ cancels[about[w]]
  BY DEF Calls, CallsHold, CancellersHold, Cancelling
<1>2. /\ CallsHold' /\ CreatorsHold'
      /\ row' \in [Meeting -> RowStatus]
      /\ \A m \in Meeting : row'[m] # row[m] => m = about[w]
  BY <1>1, MarkKeepsCreators
<1>3. /\ faults' \in 0..MaxFaults
      /\ strays' \subseteq Meeting /\ strays \subseteq strays'
  BY <1>1, FaultCounts DEF NoFault
<1>4. /\ event' \in [Meeting -> BOOLEAN]
      /\ \A m \in Meeting : event'[m] => event[m]
      /\ ~event'[about[w]] \/ about[w] \in strays'
  <2>1. CASE event' = [event EXCEPT ![about[w]] = FALSE] /\ NoFault
    BY <2>1, <1>1
  <2>2. CASE UNCHANGED event /\ Fault({about[w]})
    BY <2>2, <1>1, FaultCounts
  <2> QED
    BY <2>1, <2>2
<1>5. MeetingsTypeOK'
  BY <1>2, <1>3, <1>4 DEF Return, Stage
<1>6. CancellersHold'
  BY <1>1 DEF Calls, CallsHold, CancellersHold, Cancelling, MarkCancelled, Return
<1>7. InviteCanBeWithdrawn'
  BY <1>1, <1>2, <1>3 DEF Promises, InviteCanBeWithdrawn, Return
<1>8. ToldBeforeForgotten'
  BY <1>1, <1>2 DEF Promises, ToldBeforeForgotten
<1>9. EventFollowsMeeting' /\ HandlesHold'
  BY <1>2, <1>3, <1>4 DEF Promises, EventFollowsMeeting, HandlesHold
<1> QED
  BY <1>2, <1>5, <1>6, <1>7, <1>8, <1>9 DEF Calls, Promises

\* Only a cancelled meeting is forgotten.
LEMMA RemoveStep ==
  ASSUME IInv, NEW m \in Meeting, Remove(m)
  PROVE  IInv'
<1> USE DEF IInv, MeetingsTypeOK, Remove, NoFault, outsideVars, callVars, InFlight
<1>1. MeetingsTypeOK'
  BY DEF RowStatus
<1>2. CallsHold'
  BY DEF Calls, CallsHold
<1>3. CreatorsHold'
  BY DEF Calls, CallsHold, CreatorsHold, Creating
<1>4. CancellersHold'
  BY DEF Calls, CallsHold, CancellersHold, Cancelling
<1>5. InviteCanBeWithdrawn' /\ ToldBeforeForgotten'
  BY DEF Promises, InviteCanBeWithdrawn, ToldBeforeForgotten
<1>6. EventFollowsMeeting' /\ HandlesHold'
  BY DEF Promises, EventFollowsMeeting, HandlesHold
<1> QED
  BY <1>1, <1>2, <1>3, <1>4, <1>5, <1>6 DEF Calls, Promises

\* No call survives, and what one may have left outside is a stray.
LEMMA CrashStep ==
  ASSUME IInv, Crash
  PROVE  IInv'
<1> USE DEF IInv, MeetingsTypeOK
<1>1. PICK reached \in SUBSET {w \in Window : stage[w] # "idle"} :
        LET Was(s) == {about[w] : w \in {x \in reached : stage[x] = s}} IN
        /\ invites' = [m \in Meeting |-> IF m \in Was("inviting") THEN 1 ELSE invites[m]]
        /\ event' = [m \in Meeting |-> /\ event[m] \/ m \in Was("writing")
                                       /\ m \notin Was("deleting")]
        /\ cancels' = [m \in Meeting |-> cancels[m] \/ m \in Was("withdrawing")]
        /\ Fault({m \in Meeting : InFlight(m, {"writing"}) \/ m \in Was("inviting")})
  BY DEF Crash
<1> DEFINE Was(s) == {about[w] : w \in {x \in reached : stage[x] = s}}
           torn == {m \in Meeting : InFlight(m, {"writing"}) \/ m \in Was("inviting")}
<1>2. /\ faults' \in 0..MaxFaults /\ strays' = strays \cup torn
      /\ strays' \subseteq Meeting
  BY <1>1, FaultCounts
<1>3. \A m \in Meeting : m \in Was("writing") => m \in strays'
  BY <1>2 DEF InFlight
<1>4. /\ stage' = [w \in Window |-> "idle"] /\ about' = [w \in Window |-> NoMeeting]
      /\ UNCHANGED <<row, handle>>
  BY DEF Crash
<1>5. MeetingsTypeOK'
  BY <1>1, <1>2, <1>4 DEF Stage
<1>6. Calls'
  BY <1>4 DEF Calls, CallsHold, CreatorsHold, CancellersHold, Creating, Cancelling
<1>7. InviteCanBeWithdrawn'
  <2> SUFFICES ASSUME NEW m \in Meeting, invites'[m] = 1, ~cancels'[m], m \notin strays'
               PROVE  row[m] = "scheduled"
    BY <1>4 DEF InviteCanBeWithdrawn
  <2>1. ~InFlight(m, {"writing"}) /\ m \notin Was("inviting") /\ m \notin strays
    BY <1>2
  <2>2. invites[m] = 1 /\ ~cancels[m]
    BY <1>1, <2>1
  <2> QED
    BY <2>1, <2>2 DEF Promises, InviteCanBeWithdrawn
<1>8. ToldBeforeForgotten'
  BY <1>1, <1>4 DEF Promises, ToldBeforeForgotten
<1>9. \A m \in Meeting : event'[m] /\ m \notin strays' => event[m] /\ m \notin strays
  BY <1>1, <1>2, <1>3
<1>10. EventFollowsMeeting' /\ HandlesHold'
  BY <1>4, <1>9 DEF Promises, EventFollowsMeeting, HandlesHold
<1> QED
  BY <1>5, <1>6, <1>7, <1>8, <1>10 DEF Promises

LEMMA StepInv == IInv /\ [MeetingsNext]_meetingVars => IInv'
<1> SUFFICES ASSUME IInv, [MeetingsNext]_meetingVars PROVE IInv'
  OBVIOUS
<1>1. ASSUME NEW w \in Window, CallStep(w) PROVE IInv'
  BY <1>1, InviteSentStep, InviteThrowsStep, ScheduledStep, CancelSentStep,
     CancelThrowsStep, CancelledStep DEF CallStep
<1>2. CASE UNCHANGED meetingVars
  BY <1>2 DEF meetingVars, IInv, MeetingsTypeOK, Calls, CallsHold, CreatorsHold, CancellersHold,
     Promises, InviteCanBeWithdrawn, ToldBeforeForgotten, EventFollowsMeeting, HandlesHold, InFlight
<1> QED
  BY <1>1, <1>2, CreateStep, CancelStep, RemoveStep, CrashStep DEF MeetingsNext

THEOREM Invariance == MeetingsSpec => []IInv
<1> QED
  BY InitInv, StepInv, PTL DEF MeetingsSpec

-----------------------------------------------------------------------------
(* What follows *)

\* Every reachable state of the meetings is well typed.
THEOREM MeetingsTypeCorrect == MeetingsSpec => []MeetingsTypeOK
<1>1. IInv => MeetingsTypeOK
  BY DEF IInv
<1> QED
  BY <1>1, Invariance, PTL

\* An invite nobody could cancel any more is the work of a lost answer or of a
\* death, never of calls that overlap.
THEOREM InvitesCanBeWithdrawn == MeetingsSpec => []InviteCanBeWithdrawn
<1>1. IInv => InviteCanBeWithdrawn
  BY DEF IInv, Promises
<1> QED
  BY <1>1, Invariance, PTL

\* A meeting is marked cancelled, and forgotten, only after its guests were told.
THEOREM GuestsAreToldFirst == MeetingsSpec => []ToldBeforeForgotten
<1>1. IInv => ToldBeforeForgotten
  BY DEF IInv, Promises
<1> QED
  BY <1>1, Invariance, PTL

\* The organizer's calendar holds no event of a meeting that is not scheduled,
\* but for those a failed calendar call left there.
THEOREM EventsFollowMeetings == MeetingsSpec => []EventFollowsMeeting
<1>1. IInv => EventFollowsMeeting
  BY DEF IInv, Promises
<1> QED
  BY <1>1, Invariance, PTL

-----------------------------------------------------------------------------
(* Replies: its calls are those of Meetings *)

\* Whatever a scan, a sync, a guest or a call does, the meetings take a step of
\* their own or none.
LEMMA MeetingsStep == [Next]_vars => [MeetingsNext]_meetingVars
<1> SUFFICES ASSUME [Next]_vars PROVE MeetingsNext \/ UNCHANGED meetingVars
  OBVIOUS
<1>1. ASSUME NEW w \in Window, OtherCall(w) \/ Store(w) PROVE MeetingsNext
  BY <1>1 DEF OtherCall, Store, MeetingsNext, CallStep
<1>2. ASSUME NEW m \in Meeting, Forget(m) PROVE MeetingsNext
  BY <1>2 DEF Forget, MeetingsNext
<1>3. ASSUME NEW re \in Meeting \cup {NoMeeting}, Arrive(re) PROVE UNCHANGED meetingVars
  BY <1>3 DEF Arrive
<1>4. ASSUME DeltaSync \/ WindowRefill \/ ReadByDate PROVE UNCHANGED meetingVars
  BY <1>4 DEF DeltaSync, WindowRefill, ReadByDate
<1>5. ASSUME NEW p \in Pass, PassStep(p) \/ ScanFails(p) PROVE UNCHANGED meetingVars
  BY <1>5 DEF PassStep, StartPass, List, Read, Finish, Poll, ScanFails
<1>6. CASE Die
  BY <1>6 DEF Die, MeetingsNext
<1>7. CASE UNCHANGED vars
  BY <1>7 DEF vars
<1> QED
  BY <1>1, <1>2, <1>3, <1>4, <1>5, <1>6, <1>7 DEF Next

\* The refreshing of answers implements the meetings it watches: with it,
\* createMeeting, cancelMeeting and the rest do what they do without it.
THEOREM ScansLeaveMeetings == Spec => MeetingsSpec
<1>1. Init => MeetingsInit
  BY DEF Init
<1> QED
  BY <1>1, MeetingsStep, PTL DEF Spec, MeetingsSpec

\* Hence what calls may assume holds beside the scans, too.
LEMMA CallsHoldBesideScans == Spec => []IInv
  BY ScansLeaveMeetings, Invariance, PTL

\* A row, once there, is never absent again, and a removed one stays removed.
LEMMA RowsOnlyAdvance ==
  ASSUME IInv, [MeetingsNext]_meetingVars
  PROVE  \A m \in Meeting :
           /\ row[m] # "none" => row'[m] # "none"
           /\ row[m] = "removed" => row'[m] = "removed"
<1> USE DEF IInv, MeetingsTypeOK
<1>1. ASSUME NEW w \in Window, Scheduled(w)
      PROVE  /\ row' = [row EXCEPT ![about[w]] = "scheduled"]
             /\ row[about[w]] = "none"
  BY <1>1 DEF Scheduled, Insert, Calls, CreatorsHold, Creating
<1>2. ASSUME NEW w \in Window, MarkCancelled(about[w]) \/ UNCHANGED row
      PROVE  \A m \in Meeting :
               /\ row[m] # "none" => row'[m] # "none"
               /\ row[m] = "removed" => row'[m] = "removed"
  BY <1>2 DEF MarkCancelled
<1>3. ASSUME NEW w \in Window, NEW m \in Meeting, Create(w, m) \/ Cancel(w, m) PROVE UNCHANGED row
  BY <1>3 DEF Create, Cancel
<1>4. ASSUME NEW w \in Window, CallStep(w), ~Scheduled(w)
      PROVE  MarkCancelled(about[w]) \/ UNCHANGED row
  BY <1>4 DEF CallStep, InviteSent, InviteThrows, CancelSent, CancelThrows, Cancelled
<1>5. ASSUME NEW m \in Meeting, Remove(m) PROVE row' = [row EXCEPT ![m] = "removed"]
  BY <1>5 DEF Remove
<1>6. Crash => UNCHANGED row
  BY DEF Crash
<1>7. UNCHANGED meetingVars => UNCHANGED row
  BY DEF meetingVars
<1>8. ASSUME NEW w \in Window, CallStep(w)
      PROVE  \A m \in Meeting :
               /\ row[m] # "none" => row'[m] # "none"
               /\ row[m] = "removed" => row'[m] = "removed"
  BY <1>1, <1>2, <1>4, <1>8
<1> QED
  BY <1>3, <1>5, <1>6, <1>7, <1>8 DEF MeetingsNext

-----------------------------------------------------------------------------
(* Replies: the answer on record *)

\* Mail is numbered as it arrives, and nothing the scans keep lies in the future.
Timely ==
  /\ clock <= Len(inbox)
  /\ \A i \in Messages : At(i) <= clock
  /\ \A i, j \in Messages : i <= j => At(i) <= At(j)
  /\ \A m \in Meeting : created[m] <= clock
  /\ cursor # Never => cursor <= clock
  /\ \A p \in Pass : pass[p].since <= clock /\ pass[p].mark <= clock

\* What scans hold is about meetings that were stored, and so is all mail they
\* would know for an answer.
HasRow(m) == m \in Meeting /\ row[m] # "none"

Known ==
  /\ \A i \in read : HasRow(inbox[i].re)
  /\ \A p \in Pass : \A m \in pass[p].known \cup pass[p].polls : HasRow(m)
  /\ \A p \in Pass : \A i \in pass[p].todo : HasRow(inbox[i].re)
  /\ \A i \in Replying \ unheard : HasRow(inbox[i].re) /\ created[inbox[i].re] <= At(i)

\* The times of the answers to a meeting that scans have opened.
Opened(m) == {At(i) : i \in {j \in read : inbox[j].re = m}}

\* The record is the newest of them, and before its row a meeting has none.
AnswersHeld ==
  \A m \in Meeting :
    /\ row[m] = "none" => rsvp[m] = NoAnswer
    /\ m \in Stored =>
         /\ rsvp[m].source = "email" <=> Opened(m) # {}
         /\ Opened(m) # {} => rsvp[m].at \in Opened(m) /\ \A a \in Opened(m) : a <= rsvp[m].at

RInv == IInv /\ TypeOK /\ Timely /\ Known /\ AnswersHeld

LEMMA InitRInv == Init => RInv
<1> SUFFICES ASSUME Init PROVE RInv
  OBVIOUS
<1> USE DEF Init, IdlePass, NoAnswer, Never
<1>1. IInv
  BY InitInv
<1>2. TypeOK
  <2>1. /\ MeetingsTypeOK
        /\ inbox \in Seq([at : 0..MaxMessage, re : Meeting \cup {NoMeeting}])
        /\ clock \in 0..MaxMessage
    BY <1>1, RepliesAssumption DEF IInv
  <2>2. /\ created \in [Meeting -> 0..MaxMessage]
        /\ index \subseteq Messages /\ synced \in -1..Len(inbox) /\ covered \in 0..Never
        /\ cursor \in 0..Never
    BY RepliesAssumption DEF Messages, Unsynced
  <2>3. rsvp \in [Meeting -> [source : {"none", "email", "provider"}, at : 0..MaxMessage]]
    BY RepliesAssumption
  <2>4. pass \in [Pass -> [stage : {"idle", "listing", "reading", "polling"},
                          known : SUBSET Meeting, polls : SUBSET Meeting,
                          since : 0..MaxMessage, todo : SUBSET Messages, mark : 0..MaxMessage]]
    BY RepliesAssumption
  <2>5. read \cup unheard \subseteq Replying /\ attempts \in 0..MaxAttempts
    BY RepliesAssumption
  <2> QED
    BY <2>1, <2>2, <2>3, <2>4, <2>5 DEF TypeOK
<1>3. Timely
  BY RepliesAssumption DEF Timely, Messages
<1>4. Known
  BY DEF Known, Replying, Messages
<1>5. AnswersHeld
  BY DEF AnswersHeld, Opened, MeetingsInit, Stored
<1> QED
  BY <1>1, <1>2, <1>3, <1>4, <1>5 DEF RInv

\* A call moves rows and nothing a scan holds.
LEMMA CallKeeps ==
  ASSUME RInv, IInv', NEW w \in Window, OtherCall(w) \/ Store(w)
  PROVE  RInv'
<1>1. UNCHANGED <<mailVars, scanVars, unheard, attempts>>
  BY DEF OtherCall, Store
<1> USE <1>1 DEF RInv, mailVars, indexVars, scanVars
<1>2. OtherCall(w) => MeetingsNext
  BY DEF OtherCall, MeetingsNext, CallStep
<1>3. Store(w) => MeetingsNext
  BY DEF Store, MeetingsNext, CallStep
<1>4. \A m \in Meeting : /\ row[m] # "none" => row'[m] # "none"
                         /\ row[m] = "removed" => row'[m] = "removed"
  BY <1>2, <1>3, RowsOnlyAdvance
<1>5. \A m \in Meeting : \/ created'[m] = created[m]
                         \/ row[m] = "none" /\ created'[m] = clock
  <2>1. CASE OtherCall(w)
    BY <2>1 DEF OtherCall
  <2>2. CASE Store(w)
    <3>1. row[about[w]] = "none"
      BY <2>2 DEF Store, Scheduled, IInv, Calls, CreatorsHold, Creating
    <3> QED
      BY <2>2, <3>1 DEF Store, TypeOK
  <2> QED
    BY <2>1, <2>2
<1>6. created' \in [Meeting -> 0..MaxMessage]
  BY DEF OtherCall, Store, TypeOK
<1>7. TypeOK'
  BY <1>6 DEF IInv, TypeOK, Messages, Replying, Never
<1>8. Timely'
  <2>1. \A m \in Meeting : created'[m] <= clock
    <3>1. clock <= clock
      BY RepliesAssumption DEF TypeOK
    <3>2. \A m \in Meeting : created[m] <= clock
      BY DEF Timely
    <3> QED
      BY <1>5, <3>1, <3>2
  <2> QED
    BY <2>1 DEF Timely, Messages, At, Never
<1>9. Known'
  <2>1. \A m \in Meeting : row[m] # "none" => row'[m] # "none" /\ created'[m] = created[m]
    BY <1>4, <1>5
  <2>2. UNCHANGED <<read, pass, inbox, unheard, Replying>>
    BY DEF Replying, Messages
  <2>3. \A i : At(i)' = At(i)
    BY DEF At
  <2>4. \A i \in read' : HasRow(inbox[i].re)'
    BY <2>1, <2>2 DEF Known, HasRow
  <2>5. \A p \in Pass : \A m \in pass'[p].known \cup pass'[p].polls : HasRow(m)'
    BY <2>1, <2>2 DEF Known, HasRow
  <2>6. \A p \in Pass : \A i \in pass'[p].todo : HasRow(inbox[i].re)'
    BY <2>1, <2>2 DEF Known, HasRow
  <2>7. \A i \in Replying' \ unheard' :
          HasRow(inbox[i].re)' /\ created'[inbox'[i].re] <= At(i)'
    <3> SUFFICES ASSUME NEW i \in Replying \ unheard
                 PROVE  HasRow(inbox[i].re)' /\ created'[inbox[i].re] <= At(i)
      BY <2>2, <2>3 DEF HasRow
    <3>1. HasRow(inbox[i].re) /\ created[inbox[i].re] <= At(i)
      BY DEF Known
    <3> QED
      BY <2>1, <3>1 DEF HasRow
  <2> QED
    BY <2>4, <2>5, <2>6, <2>7 DEF Known, HasRow, Replying, Messages, At
<1>10. AnswersHeld'
  <2> SUFFICES ASSUME NEW m \in Meeting
               PROVE  /\ row'[m] = "none" => rsvp[m] = NoAnswer
                      /\ m \in Stored' =>
                           /\ rsvp[m].source = "email" <=> Opened(m) # {}
                           /\ Opened(m) # {} =>
                                rsvp[m].at \in Opened(m) /\ \A a \in Opened(m) : a <= rsvp[m].at
    <3>1. UNCHANGED rsvp /\ \A m : Opened(m)' = Opened(m)
      BY DEF Opened, At
    <3> QED
      BY <3>1 DEF AnswersHeld, NoAnswer
  <2>1. CASE row[m] = "none"
    <3>1. Opened(m) = {}
      BY <2>1 DEF Known, HasRow, Opened
    <3>2. rsvp[m] = NoAnswer
      BY <2>1 DEF AnswersHeld
    <3> QED
      BY <3>1, <3>2 DEF NoAnswer
  <2>2. CASE row[m] # "none"
    <3>1. m \in Stored' => m \in Stored
      BY <1>4, <2>2 DEF Stored, IInv, MeetingsTypeOK, RowStatus
    <3> QED
      BY <1>4, <2>2, <3>1 DEF AnswersHeld
  <2> QED
    BY <2>1, <2>2
<1> QED
  BY <1>7, <1>8, <1>9, <1>10

\* What the invariant says of one pass.
PassHeld(q) ==
  /\ q \in [stage : {"idle", "listing", "reading", "polling"},
            known : SUBSET Meeting, polls : SUBSET Meeting,
            since : 0..MaxMessage, todo : SUBSET Messages, mark : 0..MaxMessage]
  /\ q.since <= clock /\ q.mark <= clock
  /\ \A m \in q.known \cup q.polls : HasRow(m)
  /\ \A i \in q.todo : HasRow(inbox[i].re)

LEMMA PassesHold == RInv => \A p \in Pass : PassHeld(pass[p])
  BY DEF RInv, TypeOK, Timely, Known, PassHeld

LEMMA IdleHolds == RInv => PassHeld(IdlePass)
  BY RepliesAssumption DEF RInv, TypeOK, PassHeld, IdlePass

LEMMA PollingHolds ==
  ASSUME RInv, NEW p \in Pass
  PROVE  PassHeld([IdlePass EXCEPT !.stage = "polling", !.polls = pass[p].polls])
<1>1. PassHeld(pass[p]) /\ PassHeld(IdlePass)
  BY PassesHold, IdleHolds
<1> QED
  BY <1>1 DEF PassHeld, IdlePass

\* A step that opens nothing has only to leave its passes, the index and the
\* cursor in order.
LEMMA PassKeeps ==
  ASSUME RInv, IInv',
         UNCHANGED <<row, inbox, clock, created, read, rsvp>>,
         unheard \subseteq unheard', unheard' \subseteq Replying,
         pass' = [p \in Pass |-> pass'[p]], \A p \in Pass : PassHeld(pass'[p]),
         index' \subseteq Messages, synced' \in -1..Len(inbox), covered' \in 0..Never,
         cursor' \in 0..Never, cursor' # Never => cursor' <= clock,
         attempts' \in 0..MaxAttempts
  PROVE  RInv'
<1>1. TypeOK'
  <2>1. /\ MeetingsTypeOK'
        /\ inbox \in Seq([at : 0..MaxMessage, re : Meeting \cup {NoMeeting}])
        /\ clock \in 0..MaxMessage
        /\ created \in [Meeting -> 0..MaxMessage]
        /\ rsvp \in [Meeting -> [source : {"none", "email", "provider"}, at : 0..MaxMessage]]
        /\ read \cup unheard' \subseteq Replying
    BY DEF RInv, TypeOK, IInv
  <2>2. pass' \in [Pass -> [stage : {"idle", "listing", "reading", "polling"},
                          known : SUBSET Meeting, polls : SUBSET Meeting,
                          since : 0..MaxMessage, todo : SUBSET Messages, mark : 0..MaxMessage]]
    BY DEF PassHeld
  <2> QED
    BY <2>1, <2>2 DEF TypeOK, Messages, Replying, Never
<1>2. Timely'
  BY DEF RInv, Timely, PassHeld, Messages, At, Never
<1>3. Known'
  <2>1. \A i \in read : HasRow(inbox[i].re)
    BY DEF RInv, Known
  <2>2. \A i \in Replying \ unheard : HasRow(inbox[i].re) /\ created[inbox[i].re] <= At(i)
    BY DEF RInv, Known
  <2>3. \A p \in Pass : /\ \A m \in pass'[p].known \cup pass'[p].polls : HasRow(m)
                        /\ \A i \in pass'[p].todo : HasRow(inbox[i].re)
    BY DEF PassHeld
  <2> QED
    BY <2>1, <2>2, <2>3 DEF Known, HasRow, Replying, Messages, At
<1>4. AnswersHeld'
  <2>1. UNCHANGED <<rsvp, row, Stored>> /\ \A m : Opened(m)' = Opened(m)
    BY DEF Opened, At, Stored
  <2> QED
    BY <2>1 DEF RInv, AnswersHeld, NoAnswer
<1> QED
  BY <1>1, <1>2, <1>3, <1>4 DEF RInv

\* The index may catch up or be replaced at any time.
LEMMA IndexKeeps ==
  ASSUME RInv, IInv', DeltaSync \/ WindowRefill
  PROVE  RInv'
<1>1. \A p \in Pass : PassHeld(pass'[p])
  BY PassesHold DEF DeltaSync, WindowRefill, scanVars
<1>2. inbox \in Seq([at : 0..MaxMessage, re : Meeting \cup {NoMeeting}])
  BY DEF RInv, TypeOK
<1>3. /\ Len(inbox) \in Nat
      /\ index \subseteq 1..Len(inbox) /\ covered \in 0..Never /\ attempts \in 0..MaxAttempts
  BY <1>2 DEF RInv, TypeOK, Messages
<1>4. /\ index' \subseteq Messages /\ synced' \in -1..Len(inbox) /\ covered' \in 0..Never
  <2>1. CASE DeltaSync
    <3>1. index' = index \cup (synced + 1)..Len(inbox) /\ synced' = Len(inbox) /\ covered' = covered
      BY <2>1 DEF DeltaSync
    <3>2. synced \in 0..(Len(inbox) - 1)
      BY <2>1 DEF DeltaSync
    <3>3. (synced + 1)..Len(inbox) \subseteq 1..Len(inbox)
      BY <1>3, <3>2
    <3>4. index' \subseteq Messages
      BY <1>3, <3>1, <3>3 DEF Messages
    <3>5. Len(inbox) \in -1..Len(inbox)
      BY <1>3
    <3> QED
      BY <1>3, <3>1, <3>4, <3>5
  <2>2. CASE WindowRefill
    BY <1>3, <2>2, RepliesAssumption DEF WindowRefill, Messages, Never
  <2> QED
    BY <2>1, <2>2
<1>5. attempts' \in 0..MaxAttempts
  BY <1>3, RepliesAssumption DEF DeltaSync, WindowRefill
<1>6. UNCHANGED <<row, inbox, clock, created, read, unheard, rsvp, pass, cursor>>
  BY DEF DeltaSync, WindowRefill, meetingVars, scanVars
<1>7. pass' = [p \in Pass |-> pass'[p]] /\ cursor' \in 0..Never /\ (cursor' # Never => cursor' <= clock)
  BY <1>6 DEF RInv, TypeOK, Timely
<1>8. unheard \subseteq Replying
  BY DEF RInv, TypeOK
<1> QED
  BY <1>1, <1>4, <1>5, <1>6, <1>7, <1>8, PassKeeps

\* The least and the greatest of some natural numbers.
LEMMA HasMin ==
  ASSUME NEW S \in SUBSET Nat, S # {}
  PROVE  Min(S) \in S /\ \A x \in S : Min(S) <= x
<1>1. PICK m \in S : \A x \in S : ~(<<x, m>> \in OpToRel(<, Nat))
  BY NatLessThanWellFounded, WFMin
<1>2. \A x \in S : ~(x < m)
  <2>1. \A x \in S : <<x, m>> \in Nat \X Nat
    OBVIOUS
  <2> QED
    BY <1>1, <2>1 DEF OpToRel
<1>3. \A x \in S : m <= x
  BY <1>2
<1> QED
  BY <1>3 DEF Min

LEMMA HasMax ==
  ASSUME NEW S \in SUBSET Nat, S # {}, NEW b \in Nat, \A x \in S : x <= b
  PROVE  Max(S) \in S /\ \A x \in S : x <= Max(S)
<1> DEFINE T == {b - x : x \in S}
<1>1. T \in SUBSET Nat /\ T # {}
  <2>1. ASSUME NEW y \in T PROVE y \in Nat
    <3>1. PICK x \in S : y = b - x
      BY <2>1
    <3>2. x \in Nat /\ x <= b
      BY <3>1
    <3> QED
      BY <3>1, <3>2
  <2>2. PICK x : x \in S
    OBVIOUS
  <2>3. b - x \in T
    BY <2>2
  <2> QED
    BY <2>1, <2>3
<1>2. Min(T) \in T /\ \A y \in T : Min(T) <= y
  BY <1>1, HasMin
<1>3. PICK m \in S : Min(T) = b - m
  BY <1>2
<1>4. \A x \in S : x <= m
  <2> SUFFICES ASSUME NEW x \in S PROVE x <= m
    OBVIOUS
  <2>1. b - m <= b - x
    BY <1>2, <1>3
  <2> QED
    BY <2>1
<1> QED
  BY <1>4 DEF Max

\* A pass that begins takes what is stored, from the cursor or the oldest row.
LEMMA StartKeeps ==
  ASSUME RInv, IInv', NEW p \in Pass, StartPass(p)
  PROVE  RInv' /\ (cursor = Never =>
                     \A m \in Stored : pass'[p].since <= created[m])
<1> DEFINE polls == {m \in Stored : row[m] = "scheduled" /\ handle[m]}
           since == IF cursor # Never THEN cursor ELSE Min({created[m] : m \in Stored})
           q == [IdlePass EXCEPT !.stage = "listing", !.known = Stored,
                   !.polls = polls, !.since = since]
<1>1. pass' = [pass EXCEPT ![p] = q]
  BY DEF StartPass
<1>2. /\ {created[m] : m \in Stored} \in SUBSET Nat /\ {created[m] : m \in Stored} # {}
      /\ \A m \in Stored : created[m] <= clock /\ created[m] \in 0..MaxMessage
  <2>1. created \in [Meeting -> 0..MaxMessage] /\ \A m \in Meeting : created[m] <= clock
    BY DEF RInv, TypeOK, Timely
  <2>2. Stored \subseteq Meeting /\ Stored # {}
    BY DEF Stored, StartPass
  <2> QED
    BY <2>1, <2>2, RepliesAssumption
<1>3. /\ since \in 0..MaxMessage /\ since <= clock
      /\ cursor = Never => \A m \in Stored : since <= created[m]
  <2>1. CASE cursor # Never
    BY <2>1, RepliesAssumption DEF RInv, TypeOK, Timely, Never
  <2>2. CASE cursor = Never
    BY <1>2, <2>2, HasMin
  <2> QED
    BY <2>1, <2>2
<1>4. PassHeld(q)
  <2>1. PassHeld(IdlePass)
    BY IdleHolds
  <2>2. Stored \subseteq Meeting /\ polls \subseteq Stored /\ \A m \in Stored : HasRow(m)
    BY DEF Stored, HasRow
  <2> HIDE DEF since, polls
  <2> QED
    BY <1>3, <2>1, <2>2 DEF PassHeld, IdlePass
<1>5. UNCHANGED <<row, inbox, clock, created, read, unheard, rsvp, cursor, index, synced, covered, attempts>>
  BY DEF StartPass, meetingVars, mailVars, indexVars
<1> HIDE DEF q
<1>6. \A x \in Pass : PassHeld(pass'[x])
  BY <1>1, <1>4, PassesHold DEF RInv, TypeOK
<1>7. pass' = [x \in Pass |-> pass'[x]]
  BY <1>1 DEF RInv, TypeOK
<1>8. /\ index' \subseteq Messages /\ synced' \in -1..Len(inbox) /\ covered' \in 0..Never
      /\ cursor' \in 0..Never /\ (cursor' # Never => cursor' <= clock) /\ attempts' \in 0..MaxAttempts
  BY <1>5 DEF RInv, TypeOK, Timely
<1>9. RInv'
  <2>1. unheard \subseteq Replying
    BY DEF RInv, TypeOK
  <2> QED
    BY <1>5, <1>6, <1>7, <1>8, <2>1, PassKeeps
<1>10. pass'[p].since = since
  BY <1>1 DEF RInv, TypeOK, q, IdlePass
<1> QED
  BY <1>3, <1>9, <1>10

\* Deleting a meeting drops its answer; the dead process's passes are gone.
LEMMA ForgetKeeps ==
  ASSUME RInv, IInv', NEW m \in Meeting, Forget(m)
  PROVE  RInv'
<1>1. /\ row[m] = "cancelled" /\ row' = [row EXCEPT ![m] = "removed"]
      /\ rsvp' = [rsvp EXCEPT ![m] = NoAnswer]
      /\ UNCHANGED <<created, inbox, clock, index, synced, covered, cursor, pass, read, unheard, attempts>>
  BY DEF Forget, Remove, mailVars, indexVars
<1>2. row \in [Meeting -> RowStatus] /\ \A n \in Meeting : row[n] # "none" => row'[n] # "none"
  BY <1>1 DEF RInv, IInv, MeetingsTypeOK
<1>3. rsvp' \in [Meeting -> [source : {"none", "email", "provider"}, at : 0..MaxMessage]]
  <2>1. NoAnswer \in [source : {"none", "email", "provider"}, at : 0..MaxMessage]
    BY RepliesAssumption DEF NoAnswer
  <2> QED
    BY <1>1, <2>1 DEF RInv, TypeOK
<1>4. TypeOK'
  BY <1>1, <1>3 DEF RInv, IInv, TypeOK, Messages, Replying, Never
<1>5. Timely'
  BY <1>1 DEF RInv, Timely, Messages, At, Never
<1>6. Known'
  BY <1>1, <1>2 DEF RInv, Known, HasRow, Replying, Messages, At
<1>7. AnswersHeld'
  <2>1. \A n : Opened(n)' = Opened(n)
    BY <1>1 DEF Opened, At
  <2>2. \A n \in Meeting : n # m => row'[n] = row[n] /\ rsvp'[n] = rsvp[n]
    BY <1>1, <1>2 DEF RInv, TypeOK
  <2>3. row'[m] = "removed"
    BY <1>1, <1>2
  <2>4. AnswersHeld
    BY DEF RInv
  <2> QED
    BY <2>1, <2>2, <2>3, <2>4 DEF AnswersHeld, Stored, NoAnswer
<1> QED
  BY <1>4, <1>5, <1>6, <1>7 DEF RInv

LEMMA DieKeeps ==
  ASSUME RInv, IInv', Die
  PROVE  RInv'
<1>1. \A p \in Pass : PassHeld(pass'[p])
  BY IdleHolds DEF Die
<1>2. /\ UNCHANGED <<row, inbox, clock, created, read, unheard, rsvp>>
      /\ pass' = [p \in Pass |-> pass'[p]]
      /\ UNCHANGED <<index, synced, covered, cursor, attempts>>
  BY DEF Die, Crash, mailVars, indexVars
<1>3. /\ index' \subseteq Messages /\ synced' \in -1..Len(inbox) /\ covered' \in 0..Never
      /\ cursor' \in 0..Never /\ (cursor' # Never => cursor' <= clock) /\ attempts' \in 0..MaxAttempts
  BY <1>2 DEF RInv, TypeOK, Timely
<1>4. unheard \subseteq Replying
  BY DEF RInv, TypeOK
<1> QED
  BY <1>1, <1>2, <1>3, <1>4, PassKeeps

\* The scan gives the pass over to the provider: after its last message, with
\* the cursor moved, or after a failure.
LEMMA FinishKeeps ==
  ASSUME RInv, IInv', NEW p \in Pass, Finish(p) \/ ScanFails(p)
  PROVE  RInv'
<1> DEFINE q == [IdlePass EXCEPT !.stage = "polling", !.polls = pass[p].polls]
<1>1. PassHeld(q) /\ pass' = [pass EXCEPT ![p] = q]
  BY PollingHolds DEF Finish, ScanFails, ToPolling
<1> HIDE DEF q
<1>2. pass' = [x \in Pass |-> pass'[x]] /\ \A x \in Pass : PassHeld(pass'[x])
  BY <1>1, PassesHold DEF RInv, TypeOK
<1>3. /\ UNCHANGED <<row, inbox, clock, created, read, unheard, rsvp, index, synced, covered>>
      /\ cursor' \in {cursor, pass[p].mark}
  BY DEF Finish, ScanFails, meetingVars, mailVars, indexVars
<1>4. /\ index \subseteq Messages /\ synced \in -1..Len(inbox) /\ covered \in 0..Never
      /\ cursor \in 0..Never /\ (cursor # Never => cursor <= clock) /\ attempts \in 0..MaxAttempts
  BY DEF RInv, TypeOK, Timely
<1>5. pass[p].mark <= clock /\ pass[p].mark \in 0..Never
  BY PassesHold, RepliesAssumption DEF PassHeld, Never
<1>6. attempts' \in 0..MaxAttempts
  BY <1>4, RepliesAssumption DEF Finish, ScanFails
<1>7. unheard \subseteq Replying
  BY DEF RInv, TypeOK
<1> QED
  BY <1>2, <1>3, <1>4, <1>5, <1>6, <1>7, PassKeeps

\* Every message has a time and perhaps a meeting.
LEMMA MailTyped ==
  RInv => /\ Len(inbox) \in Nat
          /\ \A i \in Messages : At(i) \in 0..MaxMessage /\ inbox[i].re \in Meeting \cup {NoMeeting}
<1> SUFFICES ASSUME RInv
             PROVE  /\ Len(inbox) \in Nat
                    /\ \A i \in Messages : /\ At(i) \in 0..MaxMessage
                                          /\ inbox[i].re \in Meeting \cup {NoMeeting}
  OBVIOUS
<1> DEFINE Mail == [at : 0..MaxMessage, re : Meeting \cup {NoMeeting}]
<1>1. inbox \in Seq(Mail)
  BY DEF RInv, TypeOK
<1> HIDE DEF Mail
<1>2. \A i \in 1..Len(inbox) : inbox[i] \in Mail
  BY <1>1
<1> USE DEF Mail
<1> QED
  BY <1>1, <1>2 DEF Messages, At

\* New mail is the latest there is.
LEMMA ArriveAppends ==
  ASSUME RInv, NEW re \in Meeting \cup {NoMeeting}, Arrive(re), NEW new, new = Len(inbox) + 1
  PROVE  /\ clock' \in 0..MaxMessage /\ clock <= clock' /\ clock' <= Len(inbox')
         /\ inbox' \in Seq([at : 0..MaxMessage, re : Meeting \cup {NoMeeting}])
         /\ Len(inbox') = Len(inbox) + 1 /\ Len(inbox) \in Nat
         /\ Messages' = Messages \cup {new} /\ new \notin Messages
         /\ At(new)' = clock' /\ inbox'[new].re = re
         /\ \A i \in Messages : inbox'[i] = inbox[i] /\ At(i)' = At(i)
<1>1. inbox \in Seq([at : 0..MaxMessage, re : Meeting \cup {NoMeeting}]) /\ clock \in 0..MaxMessage
  BY DEF RInv, TypeOK
<1>2. PICK at \in {clock, clock + 1} :
        clock' = at /\ inbox' = Append(inbox, [at |-> at, re |-> re])
  BY DEF Arrive
<1>3. Len(inbox) \in Nat /\ Len(inbox) < MaxMessage /\ clock <= Len(inbox)
  BY <1>1 DEF RInv, Timely, Arrive
<1>4. /\ at \in 0..MaxMessage /\ clock <= at /\ at <= Len(inbox) + 1
  BY <1>1, <1>2, <1>3, RepliesAssumption
<1>5. [at |-> at, re |-> re] \in [at : 0..MaxMessage, re : Meeting \cup {NoMeeting}]
  BY <1>4
<1>6. /\ inbox' \in Seq([at : 0..MaxMessage, re : Meeting \cup {NoMeeting}])
      /\ Len(inbox') = Len(inbox) + 1
  BY <1>1, <1>2, <1>5
<1>7. inbox'[new] = [at |-> at, re |-> re]
  BY <1>1, <1>2, <1>3
<1>8. \A i \in Messages : inbox'[i] = inbox[i]
  BY <1>1, <1>2, <1>3 DEF Messages
<1>9. Messages' = Messages \cup {new} /\ new \notin Messages
  BY <1>3, <1>6 DEF Messages
<1>10. At(new)' = clock' /\ inbox'[new].re = re
  BY <1>2, <1>7 DEF At
<1>11. \A i \in Messages : inbox'[i] = inbox[i] /\ At(i)' = At(i)
  BY <1>8 DEF At
<1>12. clock' \in 0..MaxMessage /\ clock <= clock' /\ clock' <= Len(inbox')
  BY <1>2, <1>4, <1>6
<1> QED
  BY <1>3, <1>6, <1>9, <1>10, <1>11, <1>12

LEMMA ArriveKeeps ==
  ASSUME RInv, IInv', NEW re \in Meeting \cup {NoMeeting}, Arrive(re)
  PROVE  RInv'
<1>. PICK new : new = Len(inbox) + 1
  OBVIOUS
<1>1. /\ clock' \in 0..MaxMessage /\ clock <= clock' /\ clock' <= Len(inbox')
      /\ inbox' \in Seq([at : 0..MaxMessage, re : Meeting \cup {NoMeeting}])
      /\ Len(inbox') = Len(inbox) + 1 /\ Len(inbox) \in Nat
      /\ Messages' = Messages \cup {new} /\ new \notin Messages
      /\ At(new)' = clock' /\ inbox'[new].re = re
      /\ \A i \in Messages : inbox'[i] = inbox[i] /\ At(i)' = At(i)
  BY ArriveAppends
<1>2. /\ UNCHANGED <<row, created, index, synced, covered, cursor, rsvp, pass, read, attempts>>
      /\ unheard' \in {unheard, unheard \cup {new}}
      /\ re # NoMeeting /\ unheard' = unheard => re \in Stored \/ new \in unheard
  BY DEF Arrive, meetingVars, indexVars, scanVars
<1>3. clock \in 0..MaxMessage /\ Messages \subseteq Nat
  BY DEF RInv, TypeOK, Messages
<1>4. read \subseteq Replying /\ unheard \subseteq Replying /\ Replying \subseteq Messages
  BY DEF RInv, TypeOK, Replying
<1>5. Replying' = Replying \cup (IF re # NoMeeting THEN {new} ELSE {})
  BY <1>1 DEF Replying
<1>6. TypeOK'
  <2>1. /\ created \in [Meeting -> 0..MaxMessage]
        /\ index \subseteq Messages /\ synced \in -1..Len(inbox) /\ covered \in 0..Never
        /\ cursor \in 0..Never /\ attempts \in 0..MaxAttempts
        /\ rsvp \in [Meeting -> [source : {"none", "email", "provider"}, at : 0..MaxMessage]]
        /\ pass \in [Pass -> [stage : {"idle", "listing", "reading", "polling"},
                         known : SUBSET Meeting, polls : SUBSET Meeting,
                         since : 0..MaxMessage, todo : SUBSET Messages, mark : 0..MaxMessage]]
    BY DEF RInv, TypeOK
  <2>2. pass \in [Pass -> [stage : {"idle", "listing", "reading", "polling"},
                         known : SUBSET Meeting, polls : SUBSET Meeting,
                         since : 0..MaxMessage, todo : SUBSET (Messages \cup {new}), mark : 0..MaxMessage]]
    BY <2>1
  <2>3. synced \in -1..Len(inbox')
    BY <1>1, <2>1
  <2>4. re # NoMeeting \/ unheard' = unheard
    BY DEF Arrive
  <2>5. read' \cup unheard' \subseteq Replying'
    BY <1>2, <1>4, <1>5, <2>4
  <2>6. MeetingsTypeOK'
    BY DEF IInv
  <2> QED
    BY <1>1, <1>2, <2>1, <2>2, <2>3, <2>5, <2>6 DEF TypeOK, Never
<1>7. Timely'
  <2>1. \A i \in Messages' : At(i)' <= clock'
    <3>1. \A i \in Messages : At(i) <= clock /\ At(i) \in Int
      <4>1. \A i \in Messages : At(i) <= clock
        BY DEF RInv, Timely
      <4> QED
        BY <4>1, MailTyped
    <3>2. \A i \in Messages : At(i)' <= clock'
      BY <1>1, <1>3, <3>1
    <3>3. clock' <= clock'
      BY <1>1
    <3> QED
      BY <1>1, <3>2, <3>3
  <2>2. ASSUME NEW i \in Messages', NEW j \in Messages', i <= j PROVE At(i)' <= At(j)'
    <3>1. CASE j = new
      BY <1>1, <2>1, <3>1
    <3>2. CASE j # new
      <4>1. j \in Messages /\ i \in Messages
        BY <1>1, <2>2, <3>2 DEF Messages
      <4>2. At(i) <= At(j)
        BY <2>2, <4>1 DEF RInv, Timely
      <4> QED
        BY <1>1, <4>1, <4>2
    <3> QED
      BY <3>1, <3>2
  <2>3. \A x \in Int : x <= clock => x <= clock'
    BY <1>1, <1>3
  <2>4. /\ \A m \in Meeting : created[m] <= clock /\ created[m] \in Int
        /\ cursor # Never => cursor <= clock
        /\ cursor \in Int
        /\ \A p \in Pass : /\ pass[p].since <= clock /\ pass[p].mark <= clock
                           /\ pass[p].since \in Int /\ pass[p].mark \in Int
    BY DEF RInv, TypeOK, Timely
  <2> QED
    BY <1>1, <1>2, <2>1, <2>2, <2>3, <2>4 DEF Timely, Never
<1>8. Known'
  <2>1. \A i \in read : HasRow(inbox[i].re)
    BY DEF RInv, Known
  <2>2. \A p \in Pass : pass[p].todo \subseteq Messages
    BY DEF RInv, TypeOK
  <2>3. \A p \in Pass : /\ \A m \in pass[p].known \cup pass[p].polls : HasRow(m)
                        /\ \A i \in pass[p].todo : HasRow(inbox[i].re)
    BY DEF RInv, Known
  <2>4. ASSUME NEW i \in Replying' \ unheard'
        PROVE  HasRow(inbox'[i].re) /\ created[inbox'[i].re] <= At(i)'
    <3>1. CASE i = new
      <4>1. re # NoMeeting /\ re \in Stored
        BY <1>1, <1>2, <1>4, <1>5, <2>4, <3>1
      <4>2. created[re] <= clock /\ created[re] \in Int
        BY <4>1 DEF RInv, TypeOK, Timely, Stored
      <4> QED
        BY <1>1, <1>3, <3>1, <4>1, <4>2 DEF HasRow, Stored
    <3>2. CASE i # new
      <4>1. i \in Replying \ unheard /\ i \in Messages
        BY <1>2, <1>4, <1>5, <2>4, <3>2
      <4>2. HasRow(inbox[i].re) /\ created[inbox[i].re] <= At(i)
        BY <4>1 DEF RInv, Known
      <4> QED
        BY <1>1, <4>1, <4>2
    <3> QED
      BY <3>1, <3>2
  <2>5. \A i \in read : HasRow(inbox'[i].re)
    BY <1>1, <1>4, <2>1
  <2>6. \A p \in Pass : \A i \in pass[p].todo : HasRow(inbox'[i].re)
    BY <1>1, <2>2, <2>3
  <2> QED
    BY <1>2, <2>3, <2>4, <2>5, <2>6 DEF Known, HasRow
<1>9. AnswersHeld'
  <2>1. ASSUME NEW m PROVE Opened(m)' = Opened(m)
    BY <1>1, <1>2, <1>4 DEF Opened
  <2> QED
    BY <1>2, <2>1 DEF RInv, AnswersHeld, Stored, NoAnswer
<1> QED
  BY <1>6, <1>7, <1>8, <1>9 DEF RInv

\* Sets of messages are finite and their times are small.
LEMMA MailFinite ==
  RInv => IsFiniteSet(Messages) /\ \A S \in SUBSET Messages : IsFiniteSet(S)
<1> SUFFICES ASSUME RInv PROVE IsFiniteSet(Messages) /\ \A S \in SUBSET Messages : IsFiniteSet(S)
  OBVIOUS
<1>1. IsFiniteSet(Messages)
  BY MailTyped, FS_Interval DEF Messages
<1> QED
  BY <1>1, FS_Subset

LEMMA MinOfTwo ==
  ASSUME NEW a \in Nat, NEW b \in Nat
  PROVE  /\ Min({a, b}) \in {a, b} /\ Min({a, b}) <= a /\ Min({a, b}) <= b
  BY HasMin

LEMMA TimesOf ==
  ASSUME RInv, NEW S \in SUBSET Messages
  PROVE  /\ {At(i) : i \in S} \in SUBSET Nat /\ \A t \in {At(i) : i \in S} : t <= MaxMessage
  BY MailTyped, RepliesAssumption

\* How far the cursor may go: no further than a message that was listed, nor
\* past a guest's message that was left unopened.
LEMMA HighMarkIs ==
  ASSUME RInv, NEW messages \in SUBSET Messages, messages # {},
         NEW guests \in SUBSET messages, NEW todo \in OldestOf(guests, FetchLimit)
  PROVE  /\ \E j \in messages : HighMark(messages, guests, todo) = At(j)
         /\ \A i \in guests \ todo : HighMark(messages, guests, todo) <= At(i)
<1> DEFINE X == IF Cardinality(guests) > Cardinality(todo) THEN todo ELSE messages
           T == {At(i) : i \in X}
<1>1. /\ todo \subseteq guests
      /\ Cardinality(todo) = Min({FetchLimit, Cardinality(guests)})
      /\ \A i \in todo, j \in guests \ todo : At(i) <= At(j)
  BY DEF OldestOf
<1>2. /\ IsFiniteSet(guests) /\ Cardinality(guests) \in Nat
      /\ IsFiniteSet(todo) /\ Cardinality(todo) \in Nat
  BY <1>1, MailFinite, FS_CardinalityType, FS_Subset
<1>3. FetchLimit \in Nat \ {0}
  BY RepliesAssumption
<1>4. todo = {} => Cardinality(guests) = 0
  <2>1. todo = {} => Cardinality(todo) = 0
    BY FS_EmptySet
  <2> QED
    BY <1>1, <1>2, <1>3, <2>1, MinOfTwo
<1>5. X \subseteq messages /\ X # {}
  <2>1. CASE Cardinality(guests) > Cardinality(todo)
    BY <1>1, <1>2, <1>4, <2>1
  <2>2. CASE ~(Cardinality(guests) > Cardinality(todo))
    BY <2>2
  <2> QED
    BY <2>1, <2>2
<1>6. T \in SUBSET Nat /\ T # {} /\ \A t \in T : t <= MaxMessage
  BY <1>5, TimesOf
<1>7. Max(T) \in T
  BY <1>6, HasMax, RepliesAssumption
<1>8. HighMark(messages, guests, todo) = Max(T)
  BY DEF HighMark
<1>9. PICK j \in X : Max(T) = At(j)
  BY <1>7
<1>10. ASSUME NEW i \in guests \ todo PROVE Max(T) <= At(i)
  <2>1. Cardinality(todo) < Cardinality(guests)
    <3>1. todo # guests
      BY <1>10
    <3> QED
      BY <1>1, <1>2, <3>1, FS_Subset
  <2>2. j \in todo
    BY <1>2, <1>9, <2>1
  <2> QED
    BY <1>1, <1>9, <2>2
<1> QED
  BY <1>5, <1>8, <1>9, <1>10

\* A read by date leaves the index in order.
LEMMA ListedTyped ==
  ASSUME RInv, NEW since \in 0..MaxMessage, NEW limit
  PROVE  /\ Listed(since, limit)[1] \subseteq Messages
         /\ Listed(since, limit)[2] \in -1..Len(inbox)
         /\ Listed(since, limit)[3] \in 0..Never
<1>1. index \subseteq Messages /\ synced \in -1..Len(inbox) /\ covered \in 0..Never
  BY DEF RInv, TypeOK
<1>2. Fill(since, limit) \subseteq Messages
  BY DEF Fill, Newest, FoundByDate
<1>3. Reach(since, limit) \in 0..MaxMessage
  <2> DEFINE T == {At(i) : i \in Fill(since, limit)}
  <2>1. T \in SUBSET Nat
    BY <1>2, TimesOf
  <2>2. Fill(since, limit) # {} => T # {}
    OBVIOUS
  <2>3. T # {} => Min(T) \in T
    <3> HIDE DEF T
    <3> QED
      BY <2>1, HasMin
  <2> QED
    BY <1>2, <2>2, <2>3, MailTyped DEF Reach
<1>4. Min({covered, Reach(since, limit)}) \in 0..Never
  BY SMTT(30), <1>1, <1>3, MinOfTwo, RepliesAssumption DEF Never
<1>5. CASE covered <= since
  BY <1>1, <1>5 DEF Listed, indexVars
<1>6. CASE ~(covered <= since)
  <2>1. Listed(since, limit)
          = <<index \cup Fill(since, limit), Len(inbox), Min({covered, Reach(since, limit)})>>
    BY <1>6 DEF Listed
  <2>2. Len(inbox) \in -1..Len(inbox)
    BY MailTyped
  <2> QED
    BY <1>1, <1>2, <1>4, <2>1, <2>2
<1> QED
  BY <1>5, <1>6

\* Another list may fill the index at any time, too.
LEMMA ReadByDateKeeps ==
  ASSUME RInv, IInv', ReadByDate
  PROVE  RInv'
<1>1. \A p \in Pass : PassHeld(pass'[p])
  BY PassesHold DEF ReadByDate, scanVars
<1>2. clock \in 0..MaxMessage /\ attempts \in 0..MaxAttempts /\ unheard \subseteq Replying
  BY DEF RInv, TypeOK
<1>3. PICK since \in 0..clock :
        /\ index' = Listed(since, ListLimit)[1] /\ synced' = Listed(since, ListLimit)[2]
        /\ covered' = Listed(since, ListLimit)[3]
  BY DEF ReadByDate
<1>4. index' \subseteq Messages /\ synced' \in -1..Len(inbox) /\ covered' \in 0..Never
  <2>1. since \in 0..MaxMessage
    BY <1>2, RepliesAssumption
  <2> QED
    BY <1>3, <2>1, ListedTyped
<1>5. attempts' \in 0..MaxAttempts
  BY <1>2, RepliesAssumption DEF ReadByDate
<1>6. UNCHANGED <<row, inbox, clock, created, read, rsvp, pass, cursor>>
  BY DEF ReadByDate, meetingVars, scanVars
<1>7. pass' = [p \in Pass |-> pass'[p]] /\ cursor' \in 0..Never /\ (cursor' # Never => cursor' <= clock)
  BY <1>6 DEF RInv, TypeOK, Timely
<1>8. unheard \subseteq unheard' /\ unheard' \subseteq Replying
  BY <1>2 DEF ReadByDate
<1> QED
  BY <1>1, <1>4, <1>5, <1>6, <1>7, <1>8, PassKeeps

\* What a pass opens and how far it means to go, from the window it lists.
LEMMA ListPicks ==
  ASSUME RInv, NEW p \in Pass, List(p)
  PROVE  \E messages \in SUBSET Messages, todo \in SUBSET Messages, mark \in 0..MaxMessage :
           /\ messages = OldestPage({i \in index' : At(i) >= pass[p].since}, pass[p].since)
           /\ messages \subseteq {i \in index' : At(i) >= pass[p].since}
           /\ unheard' = unheard \cup LeftOut(pass[p].since, index', messages)
           /\ todo \subseteq {i \in messages : inbox[i].re \in pass[p].known}
           /\ pass' = [pass EXCEPT ![p] =
                [pass[p] EXCEPT !.stage = "reading", !.todo = todo, !.mark = mark]]
           /\ \/ messages = {} /\ mark = pass[p].since
              \/ /\ \E j \in messages : mark = At(j)
                 /\ \A i \in messages \ todo : inbox[i].re \in pass[p].known => mark <= At(i)
<1> DEFINE q == pass[p]
<1>1. PICK listed \in {Listed(q.since, PageLimit)} :
      \E messages \in {OldestPage({i \in listed[1] : At(i) >= q.since}, q.since)} :
      \E guests \in {{i \in messages : inbox[i].re \in q.known}} :
      \E todo \in OldestOf(guests, FetchLimit) :
        /\ index' = listed[1]
        /\ unheard' = unheard \cup LeftOut(q.since, listed[1], messages)
        /\ pass' = [pass EXCEPT ![p] =
             [q EXCEPT !.stage = "reading", !.todo = todo,
                !.mark = IF messages = {} THEN q.since ELSE HighMark(messages, guests, todo)]]
  BY DEF List
<1> DEFINE messages == OldestPage({i \in index' : At(i) >= q.since}, q.since)
           guests == {i \in messages : inbox[i].re \in q.known}
<1>2. PICK todo \in OldestOf(guests, FetchLimit) :
        /\ unheard' = unheard \cup LeftOut(q.since, index', messages)
        /\ pass' = [pass EXCEPT ![p] =
             [q EXCEPT !.stage = "reading", !.todo = todo,
                !.mark = IF messages = {} THEN q.since ELSE HighMark(messages, guests, todo)]]
  BY <1>1
<1>3. index' \subseteq Messages
  <2>1. index' = Listed(q.since, PageLimit)[1] /\ index \subseteq Messages
    BY <1>1 DEF RInv, TypeOK
  <2>2. Fill(q.since, PageLimit) \subseteq Messages
    BY DEF Fill, Newest, FoundByDate
  <2> QED
    BY <2>1, <2>2 DEF Listed, indexVars
<1>4. messages \subseteq {i \in index' : At(i) >= q.since}
  BY DEF OldestPage
<1>5. todo \subseteq guests
  BY DEF OldestOf
<1>6. q.since \in 0..MaxMessage
  BY DEF RInv, TypeOK
<1> HIDE DEF messages
<1> DEFINE mark == IF messages = {} THEN q.since ELSE HighMark(messages, guests, todo)
<1>7. \/ messages = {} /\ mark = q.since
      \/ /\ \E j \in messages : mark = At(j)
         /\ \A i \in guests \ todo : mark <= At(i)
  <2>1. messages \in SUBSET Messages /\ guests \in SUBSET messages
    BY <1>3, <1>4
  <2> QED
    BY <2>1, HighMarkIs
<1> HIDE DEF mark
<1>8. mark \in 0..MaxMessage
  <2>1. messages \subseteq Messages
    BY <1>3, <1>4
  <2> QED
    BY <1>6, <1>7, <2>1, MailTyped
<1>9. \A i \in messages \ todo : inbox[i].re \in q.known => i \in guests \ todo
  OBVIOUS
<1>10. pass' = [pass EXCEPT ![p] = [q EXCEPT !.stage = "reading", !.todo = todo, !.mark = mark]]
  BY <1>2 DEF mark
<1>11. /\ messages = OldestPage({i \in index' : At(i) >= q.since}, q.since)
       /\ unheard' = unheard \cup LeftOut(q.since, index', messages)
  BY <1>2 DEF messages
<1> QED
  BY ZenonT(30), <1>3, <1>4, <1>5, <1>7, <1>8, <1>9, <1>10, <1>11

LEMMA ListKeeps ==
  ASSUME RInv, IInv', NEW p \in Pass, List(p)
  PROVE  RInv'
<1>1. PICK messages \in SUBSET Messages, todo \in SUBSET Messages, mark \in 0..MaxMessage :
           /\ messages = OldestPage({i \in index' : At(i) >= pass[p].since}, pass[p].since)
           /\ messages \subseteq {i \in index' : At(i) >= pass[p].since}
           /\ unheard' = unheard \cup LeftOut(pass[p].since, index', messages)
           /\ todo \subseteq {i \in messages : inbox[i].re \in pass[p].known}
           /\ pass' = [pass EXCEPT ![p] =
                [pass[p] EXCEPT !.stage = "reading", !.todo = todo, !.mark = mark]]
           /\ \/ messages = {} /\ mark = pass[p].since
              \/ /\ \E j \in messages : mark = At(j)
                 /\ \A i \in messages \ todo : inbox[i].re \in pass[p].known => mark <= At(i)
  BY ListPicks
<1> DEFINE q == [pass[p] EXCEPT !.stage = "reading", !.todo = todo, !.mark = mark]
<1>2. mark <= clock
  <2>1. \A j \in Messages : At(j) <= clock
    BY DEF RInv, Timely
  <2>2. pass[p].since <= clock
    BY DEF RInv, Timely
  <2> QED
    BY <1>1, <2>1, <2>2
<1>3. PassHeld(q)
  <2>1. PassHeld(pass[p])
    BY PassesHold
  <2> QED
    BY <1>1, <1>2, <2>1 DEF PassHeld
<1> HIDE DEF q
<1>4. pass' = [x \in Pass |-> pass'[x]] /\ \A x \in Pass : PassHeld(pass'[x])
  BY <1>1, <1>3, PassesHold DEF RInv, TypeOK, q
<1>5. /\ UNCHANGED <<row, inbox, clock, created, read, rsvp, cursor, attempts>>
      /\ unheard \subseteq unheard' /\ unheard' \subseteq Replying
  <2>1. UNCHANGED <<row, inbox, clock, created, read, rsvp, cursor, attempts>>
    BY DEF List, meetingVars
  <2>2. unheard \subseteq Replying
    BY DEF RInv, TypeOK
  <2> QED
    BY <1>1, <2>1, <2>2 DEF LeftOut
<1>6. /\ index \subseteq Messages /\ synced \in -1..Len(inbox) /\ covered \in 0..Never
      /\ cursor \in 0..Never /\ (cursor # Never => cursor <= clock) /\ attempts \in 0..MaxAttempts
  BY DEF RInv, TypeOK, Timely
<1> DEFINE since == pass[p].since
<1>7. since \in 0..MaxMessage
  BY DEF RInv, TypeOK
<1>8. /\ index' = Listed(since, PageLimit)[1] /\ synced' = Listed(since, PageLimit)[2]
      /\ covered' = Listed(since, PageLimit)[3]
  BY DEF List
<1> HIDE DEF since
<1>11. index' \subseteq Messages /\ synced' \in -1..Len(inbox) /\ covered' \in 0..Never
  BY <1>7, <1>8, ListedTyped
<1> QED
  BY <1>4, <1>5, <1>6, <1>11, PassKeeps

\* A reply is opened and recorded if it is newer than the answer on record.
LEMMA ReadKeeps ==
  ASSUME RInv, IInv', NEW p \in Pass, Read(p)
  PROVE  RInv'
<1>1. PICK i \in pass[p].todo :
        /\ Record(inbox[i].re, [source |-> "email", at |-> At(i)])
        /\ read' = read \cup {i}
        /\ pass' = [pass EXCEPT ![p].todo = @ \ {i}]
  BY DEF Read
<1> DEFINE a == inbox[i].re
           new == [source |-> "email", at |-> At(i)]
<1>2. /\ i \in Messages /\ a \in Meeting /\ row[a] # "none" /\ HasRow(a)
  BY DEF RInv, TypeOK, Known, HasRow
<1>3. /\ At(i) \in 0..MaxMessage
      /\ i \in Replying
  BY <1>2, MailTyped, MeetingsAssumption DEF Replying
<1>4. UNCHANGED <<row, inbox, clock, created, unheard, cursor, index, synced, covered, attempts>>
  BY DEF Read, meetingVars, mailVars, indexVars
<1>5. rsvp' = [rsvp EXCEPT ![a] = IF Supersedes(new, @) THEN new ELSE @]
  BY <1>1 DEF Record
<1>6. /\ rsvp'[a] = IF Supersedes(new, rsvp[a]) THEN new ELSE rsvp[a]
      /\ \A m \in Meeting : m # a => rsvp'[m] = rsvp[m]
      /\ rsvp' \in [Meeting -> [source : {"none", "email", "provider"}, at : 0..MaxMessage]]
  <2> HIDE DEF a
  <2>1. new \in [source : {"none", "email", "provider"}, at : 0..MaxMessage]
    BY <1>3
  <2>2. rsvp \in [Meeting -> [source : {"none", "email", "provider"}, at : 0..MaxMessage]]
    BY DEF RInv, TypeOK
  <2> HIDE DEF new
  <2> QED
    BY <1>2, <1>5, <2>1, <2>2
<1>7. /\ \A x \in Pass : PassHeld(pass'[x])
      /\ pass' = [x \in Pass |-> pass'[x]]
  <2>1. pass' = [pass EXCEPT ![p] = [pass[p] EXCEPT !.todo = pass[p].todo \ {i}]]
    BY <1>1
  <2>2. PassHeld([pass[p] EXCEPT !.todo = pass[p].todo \ {i}])
    <3>1. PassHeld(pass[p])
      BY PassesHold
    <3> QED
      BY <3>1 DEF PassHeld
  <2> QED
    BY <2>1, <2>2, PassesHold DEF RInv, TypeOK
<1>8. TypeOK'
  <2>1. /\ inbox \in Seq([at : 0..MaxMessage, re : Meeting \cup {NoMeeting}])
        /\ clock \in 0..MaxMessage
        /\ created \in [Meeting -> 0..MaxMessage]
        /\ index \subseteq Messages /\ synced \in -1..Len(inbox) /\ covered \in 0..Never
        /\ cursor \in 0..Never
        /\ read \cup unheard \subseteq Replying
        /\ attempts \in 0..MaxAttempts
    BY DEF RInv, TypeOK
  <2>2. pass' \in [Pass -> [stage : {"idle", "listing", "reading", "polling"},
                          known : SUBSET Meeting, polls : SUBSET Meeting,
                          since : 0..MaxMessage, todo : SUBSET Messages, mark : 0..MaxMessage]]
    BY <1>7 DEF PassHeld
  <2>3. read' \cup unheard \subseteq Replying
    BY <1>1, <1>3, <2>1
  <2>4. MeetingsTypeOK'
    BY DEF IInv
  <2> QED
    BY <1>4, <1>6, <2>1, <2>2, <2>3, <2>4 DEF TypeOK, Messages, Replying, Never
<1>9. Timely'
  BY <1>4, <1>7 DEF RInv, Timely, PassHeld, Messages, At, Never
<1>10. Known'
  <2>1. \A j \in read' : HasRow(inbox[j].re)
    BY <1>1, <1>2 DEF RInv, Known
  <2>2. \A j \in Replying \ unheard : HasRow(inbox[j].re) /\ created[inbox[j].re] <= At(j)
    BY DEF RInv, Known
  <2>3. \A x \in Pass : /\ \A m \in pass'[x].known \cup pass'[x].polls : HasRow(m)
                        /\ \A j \in pass'[x].todo : HasRow(inbox[j].re)
    BY <1>7 DEF PassHeld
  <2> QED
    BY <1>4, <2>1, <2>2, <2>3 DEF Known, HasRow, Replying, Messages, At
<1>11. AnswersHeld'
  <2> SUFFICES ASSUME NEW m \in Meeting
               PROVE  /\ row[m] = "none" => rsvp'[m] = NoAnswer
                      /\ m \in Stored =>
                           /\ rsvp'[m].source = "email" <=> Opened(m)' # {}
                           /\ Opened(m)' # {} =>
                                rsvp'[m].at \in Opened(m)' /\ \A t \in Opened(m)' : t <= rsvp'[m].at
    BY <1>4 DEF AnswersHeld, Stored, NoAnswer
  <2>1. /\ row[m] = "none" => rsvp[m] = NoAnswer
        /\ m \in Stored =>
             /\ rsvp[m].source = "email" <=> Opened(m) # {}
             /\ Opened(m) # {} =>
                  rsvp[m].at \in Opened(m) /\ \A t \in Opened(m) : t <= rsvp[m].at
    BY DEF RInv, AnswersHeld
  <2>2. CASE m # a
    <3>1. Opened(m)' = Opened(m)
      BY <1>1, <1>4, <2>2 DEF Opened, At
    <3> QED
      BY <1>6, <2>1, <2>2, <3>1
  <2>3. CASE m = a
    <3>1. Opened(m)' = Opened(m) \cup {At(i)}
      BY <1>1, <1>4, <2>3 DEF Opened, At
    <3>2. Opened(m) \subseteq 0..MaxMessage
      BY MailTyped DEF Opened, RInv, TypeOK, Replying
    <3>3. rsvp[m] \in [source : {"none", "email", "provider"}, at : 0..MaxMessage]
      BY DEF RInv, TypeOK
    <3>4. rsvp'[m] = IF Supersedes(new, rsvp[m]) THEN new ELSE rsvp[m]
      BY <1>6, <2>3
    <3>5. row[m] # "none"
      BY <1>2, <2>3
    <3> HIDE DEF a
    <3>6. CASE m \in Stored
      <4>1. CASE rsvp[m].source = "email"
        <5>1. /\ rsvp[m].at \in Opened(m) /\ \A t \in Opened(m) : t <= rsvp[m].at
              /\ rsvp[m].at \in 0..MaxMessage
          BY <2>1, <3>3, <3>6, <4>1
        <5>2. Supersedes(new, rsvp[m]) <=> At(i) > rsvp[m].at
          BY <4>1 DEF Supersedes
        <5>3. rsvp'[m].source = "email" /\ Opened(m)' # {}
          BY <3>1, <3>4, <4>1
        <5>4. CASE At(i) > rsvp[m].at
          <6>1. rsvp'[m].at = At(i)
            BY <3>4, <5>2, <5>4
          <6> QED
            BY <1>3, <3>1, <3>2, <3>5, <5>1, <5>3, <5>4, <6>1
        <5>5. CASE ~(At(i) > rsvp[m].at)
          <6>1. rsvp'[m].at = rsvp[m].at
            BY <3>4, <5>2, <5>5
          <6> QED
            BY <1>3, <3>1, <3>2, <3>5, <5>1, <5>3, <5>5, <6>1
        <5> QED
          BY <5>4, <5>5
      <4>2. CASE rsvp[m].source # "email"
        <5>1. Opened(m) = {}
          BY <2>1, <3>6, <4>2
        <5>2. Supersedes(new, rsvp[m])
          BY <3>3, <4>2 DEF Supersedes
        <5>3. rsvp'[m] = new
          BY <3>4, <5>2
        <5>4. rsvp'[m].source = "email" /\ rsvp'[m].at = At(i) /\ At(i) <= At(i)
          BY <1>3, <5>3
        <5> QED
          BY <3>1, <3>5, <5>1, <5>4
      <4> QED
        BY <4>1, <4>2
    <3> QED
      BY <3>5, <3>6
  <2> QED
    BY <2>2, <2>3
<1> QED
  BY <1>8, <1>9, <1>10, <1>11 DEF RInv

\* The calendar's word is taken only where no mail was read.
LEMMA PollKeeps ==
  ASSUME RInv, IInv', NEW p \in Pass, Poll(p)
  PROVE  RInv'
<1> DEFINE word == [source |-> "provider", at |-> 0]
<1>1. PICK heard \in SUBSET pass[p].polls :
        rsvp' = [m \in Meeting |-> IF m \in heard /\ Supersedes(word, rsvp[m]) THEN word ELSE rsvp[m]]
  BY DEF Poll
<1>2. /\ UNCHANGED <<row, inbox, clock, created, unheard, read, cursor, index, synced, covered, attempts>>
      /\ pass' = [pass EXCEPT ![p] = IdlePass]
  BY DEF Poll, meetingVars, mailVars, indexVars
<1>3. rsvp \in [Meeting -> [source : {"none", "email", "provider"}, at : 0..MaxMessage]]
  BY DEF RInv, TypeOK
<1>4. rsvp' \in [Meeting -> [source : {"none", "email", "provider"}, at : 0..MaxMessage]]
  <2>1. word \in [source : {"none", "email", "provider"}, at : 0..MaxMessage]
    BY RepliesAssumption
  <2> QED
    BY <1>1, <1>3, <2>1
<1>5. /\ \A x \in Pass : PassHeld(pass'[x])
      /\ pass' = [x \in Pass |-> pass'[x]]
  BY <1>2, PassesHold, IdleHolds DEF RInv, TypeOK
<1>6. TypeOK'
  <2>1. /\ inbox \in Seq([at : 0..MaxMessage, re : Meeting \cup {NoMeeting}])
        /\ clock \in 0..MaxMessage
        /\ created \in [Meeting -> 0..MaxMessage]
        /\ index \subseteq Messages /\ synced \in -1..Len(inbox) /\ covered \in 0..Never
        /\ cursor \in 0..Never
        /\ read \cup unheard \subseteq Replying
        /\ attempts \in 0..MaxAttempts
    BY DEF RInv, TypeOK
  <2>2. pass' \in [Pass -> [stage : {"idle", "listing", "reading", "polling"},
                          known : SUBSET Meeting, polls : SUBSET Meeting,
                          since : 0..MaxMessage, todo : SUBSET Messages, mark : 0..MaxMessage]]
    BY <1>5 DEF PassHeld
  <2>3. MeetingsTypeOK'
    BY DEF IInv
  <2> QED
    BY <1>2, <1>4, <2>1, <2>2, <2>3 DEF TypeOK, Messages, Replying, Never
<1>7. Timely'
  BY <1>2, <1>5 DEF RInv, Timely, PassHeld, Messages, At, Never
<1>8. Known'
  <2>1. \A j \in read : HasRow(inbox[j].re)
    BY DEF RInv, Known
  <2>2. \A j \in Replying \ unheard : HasRow(inbox[j].re) /\ created[inbox[j].re] <= At(j)
    BY DEF RInv, Known
  <2>3. \A x \in Pass : /\ \A m \in pass'[x].known \cup pass'[x].polls : HasRow(m)
                        /\ \A j \in pass'[x].todo : HasRow(inbox[j].re)
    BY <1>5 DEF PassHeld
  <2> QED
    BY <1>2, <2>1, <2>2, <2>3 DEF Known, HasRow, Replying, Messages, At
<1>9. AnswersHeld'
  <2>1. UNCHANGED <<row, Stored>> /\ \A m : Opened(m)' = Opened(m)
    BY <1>2 DEF Stored, Opened, At
  <2>2. \A m \in Meeting : m \in heard => row[m] # "none"
    BY DEF RInv, Known, HasRow
  <2>3. \A m \in Meeting : \/ rsvp'[m] = rsvp[m]
                           \/ /\ rsvp'[m] = word /\ row[m] # "none"
                              /\ rsvp[m].source # "email"
    BY <1>1, <2>2 DEF Supersedes
  <2>4. word.source # "email"
    OBVIOUS
  <2> HIDE DEF word
  <2>5. AnswersHeld
    BY DEF RInv
  <2> QED
    BY <2>1, <2>3, <2>4, <2>5 DEF AnswersHeld, NoAnswer
<1> QED
  BY <1>6, <1>7, <1>8, <1>9 DEF RInv

LEMMA RInvStep == RInv /\ IInv' /\ [Next]_vars => RInv'
<1> SUFFICES ASSUME RInv, IInv', [Next]_vars PROVE RInv'
  OBVIOUS
<1>1. ASSUME NEW p \in Pass, PassStep(p) \/ ScanFails(p) PROVE RInv'
  BY <1>1, StartKeeps, ListKeeps, ReadKeeps, FinishKeeps, PollKeeps DEF PassStep
<1>2. CASE UNCHANGED vars
  <2>1. /\ UNCHANGED <<row, inbox, clock, created, read, unheard, rsvp, pass>>
        /\ UNCHANGED <<index, synced, covered, cursor, attempts>>
    BY <1>2 DEF vars, meetingVars, mailVars, indexVars, scanVars
  <2>2. /\ index \subseteq Messages /\ synced \in -1..Len(inbox) /\ covered \in 0..Never
        /\ cursor \in 0..Never /\ (cursor # Never => cursor <= clock) /\ attempts \in 0..MaxAttempts
        /\ pass = [p \in Pass |-> pass[p]] /\ unheard \subseteq Replying
    BY DEF RInv, TypeOK, Timely
  <2> QED
    BY <2>1, <2>2, PassesHold, PassKeeps
<1> QED
  BY <1>1, <1>2, CallKeeps, ForgetKeeps, ArriveKeeps, IndexKeeps, ReadByDateKeeps,
     DieKeeps DEF Next

LEMMA RInvHolds == Spec => []RInv
  BY InitRInv, RInvStep, CallsHoldBesideScans, PTL DEF Spec

\* Every reachable state of the scans is well typed.
THEOREM RepliesTypeCorrect == Spec => []TypeOK
<1>1. RInv => TypeOK
  BY DEF RInv
<1> QED
  BY <1>1, RInvHolds, PTL

\* Of the answers scans have opened, the newest is the one on record, and what
\* the calendar says never takes its place: for any number of meetings, passes
\* and messages, in any order.
THEOREM NewestAnswerStands == Spec => []AnswerIsNewestRead
<1>1. RInv => AnswerIsNewestRead
  <2> SUFFICES ASSUME RInv, NEW m \in Stored
               PROVE  /\ rsvp[m].source = "email" <=> Opened(m) # {}
                      /\ Opened(m) # {} => rsvp[m].at = Max(Opened(m))
    BY DEF AnswerIsNewestRead, Opened
  <2>1. /\ rsvp[m].source = "email" <=> Opened(m) # {}
        /\ Opened(m) # {} => rsvp[m].at \in Opened(m) /\ \A t \in Opened(m) : t <= rsvp[m].at
    BY DEF RInv, AnswersHeld, Stored
  <2>2. /\ Opened(m) \in SUBSET Nat
        /\ \A t \in Opened(m) : t <= MaxMessage
    <3>1. {j \in read : inbox[j].re = m} \in SUBSET Messages
      BY DEF RInv, TypeOK, Replying
    <3> QED
      BY <3>1, TimesOf DEF Opened
  <2>3. Opened(m) # {} => Max(Opened(m)) \in Opened(m) /\ \A t \in Opened(m) : t <= Max(Opened(m))
    BY <2>2, HasMax, RepliesAssumption
  <2>4. Opened(m) # {} => rsvp[m].at = Max(Opened(m))
    <3> SUFFICES ASSUME Opened(m) # {} PROVE rsvp[m].at = Max(Opened(m))
      OBVIOUS
    <3>1. Max(Opened(m)) \in Nat /\ rsvp[m].at \in Nat
      BY <2>1, <2>2, <2>3
    <3>2. Max(Opened(m)) <= rsvp[m].at /\ rsvp[m].at <= Max(Opened(m))
      BY <2>1, <2>3
    <3> QED
      BY <3>1, <3>2
  <2> QED
    BY <2>1, <2>4
<1> QED
  BY <1>1, RInvHolds, PTL

-----------------------------------------------------------------------------
(* Replies: the cursor *)

\* The index holds every unread reply up to synced that is as young as covered.
IndexHeld ==
  /\ index \subseteq 1..synced
  /\ \A i \in 1..synced : covered <= At(i) /\ Unread(i) => i \in index

\* A pass that has its list of meetings knows every reply that counts, and its
\* window begins before them.
ListingHeld ==
  \A p \in Pass : pass[p].stage = "listing" =>
    \A i \in Messages : Unread(i) => inbox[i].re \in pass[p].known /\ pass[p].since <= At(i)

\* A pass that means to move the cursor has still to open what is below it.
ReadingHeld ==
  \A p \in Pass : pass[p].stage = "reading" =>
    \A i \in Messages : Unread(i) /\ At(i) < pass[p].mark => i \in pass[p].todo

SInv == RInv /\ IndexHeld /\ ListingHeld /\ ReadingHeld /\ NothingSkipped

\* What is unread after a step was unread before it, or has just come in: late,
\* and known to every pass that is about to list.
LEMMA UnreadLater ==
  ASSUME RInv, [Next]_vars
  PROVE  /\ Messages \subseteq Messages'
         /\ \A i \in Messages : inbox'[i] = inbox[i] /\ At(i)' = At(i)
         /\ \A i \in Messages' : Unread(i)' =>
              \/ i \in Messages /\ Unread(i)
              \/ /\ i \notin Messages /\ clock <= At(i)' /\ At(i)' \in Nat /\ UNCHANGED <<pass, cursor>>
                 /\ \A p \in Pass : pass[p].stage = "listing" => inbox'[i].re \in pass[p].known
<1>1. \A m \in Meeting : /\ row[m] # "none" => row'[m] # "none"
                         /\ row[m] = "removed" => row'[m] = "removed"
  BY MeetingsStep, RowsOnlyAdvance DEF RInv
<1>2. row \in [Meeting -> RowStatus]
  BY DEF RInv, IInv, MeetingsTypeOK
<1>3. ASSUME NEW i \in Messages, inbox'[i] = inbox[i], read \subseteq read', unheard \subseteq unheard',
             Unread(i)'
      PROVE  Unread(i)
  <2>1. i \in Replying \ (unheard \cup read) /\ inbox[i].re \in Stored'
    BY <1>3 DEF Unread, Replying
  <2>2. HasRow(inbox[i].re)
    BY <2>1 DEF RInv, Known
  <2>3. inbox[i].re \in Stored
    BY <1>1, <1>2, <2>1, <2>2 DEF HasRow, Stored, RowStatus
  <2> QED
    BY <2>1, <2>3 DEF Unread
<1>4. ASSUME NEW re \in Meeting \cup {NoMeeting}, Arrive(re)
      PROVE  /\ Messages \subseteq Messages'
             /\ \A i \in Messages : inbox'[i] = inbox[i] /\ At(i)' = At(i)
             /\ \A i \in Messages' : Unread(i)' =>
                  \/ i \in Messages /\ Unread(i)
                  \/ /\ i \notin Messages /\ clock <= At(i)' /\ At(i)' \in Nat /\ UNCHANGED <<pass, cursor>>
                     /\ \A p \in Pass : pass[p].stage = "listing" => inbox'[i].re \in pass[p].known
  <2>. PICK new : new = Len(inbox) + 1
    OBVIOUS
  <2>1. /\ clock <= clock' /\ clock' \in Nat /\ Messages' = Messages \cup {new} /\ new \notin Messages
        /\ At(new)' = clock' /\ inbox'[new].re = re
        /\ \A i \in Messages : inbox'[i] = inbox[i] /\ At(i)' = At(i)
    BY <1>4, ArriveAppends
  <2>2. /\ UNCHANGED <<pass, cursor, read>> /\ unheard \subseteq unheard'
        /\ re # NoMeeting /\ new \notin unheard' =>
             \A p \in Pass : pass[p].stage = "listing" => re \in pass[p].known
    BY <1>4 DEF Arrive, scanVars
  <2>3. ASSUME NEW i \in Messages', Unread(i)'
        PROVE  \/ i \in Messages /\ Unread(i)
               \/ /\ i \notin Messages /\ clock <= At(i)' /\ At(i)' \in Nat /\ UNCHANGED <<pass, cursor>>
                  /\ \A p \in Pass : pass[p].stage = "listing" => inbox'[i].re \in pass[p].known
    <3>1. CASE i \in Messages
      BY <1>3, <2>1, <2>2, <2>3, <3>1
    <3>2. CASE i = new
      <4>1. re # NoMeeting /\ new \notin unheard'
        BY <2>1, <2>3, <3>2 DEF Unread, Replying
      <4> QED
        BY <2>1, <2>2, <3>2, <4>1
    <3> QED
      BY <2>1, <3>1, <3>2
  <2> QED
    BY <2>1, <2>3
<1>5. ASSUME NEW p \in Pass, PassStep(p) \/ ScanFails(p)
      PROVE  UNCHANGED inbox /\ read \subseteq read' /\ unheard \subseteq unheard'
  BY <1>5 DEF PassStep, StartPass, List, Read, Finish, Poll, ScanFails, mailVars
<1>6. ASSUME NEW w \in Window, OtherCall(w) \/ Store(w)
      PROVE  UNCHANGED inbox /\ read \subseteq read' /\ unheard \subseteq unheard'
  BY <1>6 DEF OtherCall, Store, mailVars, scanVars
<1>7. ASSUME (\E m \in Meeting : Forget(m)) \/ DeltaSync \/ WindowRefill \/ ReadByDate
               \/ Die \/ UNCHANGED vars
      PROVE  UNCHANGED inbox /\ read \subseteq read' /\ unheard \subseteq unheard'
  BY <1>7 DEF Forget, DeltaSync, WindowRefill, ReadByDate, Die, vars, mailVars, scanVars
<1>8. ASSUME UNCHANGED inbox /\ read \subseteq read' /\ unheard \subseteq unheard'
      PROVE  /\ Messages \subseteq Messages'
             /\ \A i \in Messages : inbox'[i] = inbox[i] /\ At(i)' = At(i)
             /\ \A i \in Messages' : Unread(i)' => i \in Messages /\ Unread(i)
  <2>1. Messages' = Messages /\ \A i \in Messages : inbox'[i] = inbox[i] /\ At(i)' = At(i)
    BY <1>8 DEF Messages, At
  <2> QED
    BY <1>3, <1>8, <2>1
<1> QED
  BY <1>4, <1>5, <1>6, <1>7, <1>8 DEF Next

\* A pass that does not move stays right about what is unread.
LEMMA UnmovedPass ==
  ASSUME SInv, [Next]_vars, NEW p \in Pass, pass'[p] = pass[p]
  PROVE  /\ pass'[p].stage = "listing" =>
              \A i \in Messages' : Unread(i)' =>
                inbox'[i].re \in pass'[p].known /\ pass'[p].since <= At(i)'
         /\ pass'[p].stage = "reading" =>
              \A i \in Messages' : Unread(i)' /\ At(i)' < pass'[p].mark => i \in pass'[p].todo
<1>1. RInv
  BY DEF SInv
<1>2. /\ \A i \in Messages : inbox'[i] = inbox[i] /\ At(i)' = At(i)
      /\ \A i \in Messages' : Unread(i)' =>
              \/ i \in Messages /\ Unread(i)
              \/ /\ i \notin Messages /\ clock <= At(i)' /\ At(i)' \in Nat
                 /\ pass[p].stage = "listing" => inbox'[i].re \in pass[p].known
  BY <1>1, UnreadLater
<1>3. /\ pass[p].since <= clock /\ pass[p].mark <= clock
      /\ pass[p].since \in Int /\ pass[p].mark \in Int /\ clock \in Int
  BY <1>1 DEF RInv, TypeOK, Timely
<1> SUFFICES ASSUME NEW i \in Messages', Unread(i)'
             PROVE  /\ pass[p].stage = "listing" =>
                         inbox'[i].re \in pass[p].known /\ pass[p].since <= At(i)'
                    /\ pass[p].stage = "reading" =>
                         (At(i)' < pass[p].mark => i \in pass[p].todo)
  OBVIOUS
<1>4. CASE i \in Messages /\ Unread(i)
  BY <1>2, <1>4 DEF SInv, ListingHeld, ReadingHeld
<1>5. CASE i \notin Messages
  BY <1>2, <1>3, <1>5
<1> QED
  BY <1>2, <1>4, <1>5

LEMMA UnmovedCursor ==
  ASSUME SInv, [Next]_vars, cursor' = cursor
  PROVE  NothingSkipped'
<1>1. /\ \A i \in Messages : inbox'[i] = inbox[i] /\ At(i)' = At(i)
      /\ \A i \in Messages' : Unread(i)' =>
              \/ i \in Messages /\ Unread(i)
              \/ i \notin Messages /\ clock <= At(i)' /\ At(i)' \in Nat
  BY UnreadLater DEF SInv
<1>2. (cursor # Never => cursor <= clock) /\ cursor \in Int /\ clock \in Int
  BY DEF SInv, RInv, TypeOK, Timely
<1>3. cursor # Never => \A i \in Messages : Unread(i) => At(i) >= cursor
  BY DEF SInv, NothingSkipped
<1>4. ASSUME cursor # Never, NEW i \in Messages', Unread(i)' PROVE At(i)' >= cursor
  BY <1>1, <1>2, <1>3, <1>4
<1> QED
  BY <1>4 DEF NothingSkipped, Never

\* A step that moves one pass only has to be right about that one.
LEMMA OnePassMoves ==
  ASSUME SInv, [Next]_vars, NEW p \in Pass, \A x \in Pass : x # p => pass'[x] = pass[x],
         pass'[p].stage = "listing" =>
              \A i \in Messages' : Unread(i)' =>
                inbox'[i].re \in pass'[p].known /\ pass'[p].since <= At(i)',
         pass'[p].stage = "reading" =>
              \A i \in Messages' : Unread(i)' /\ At(i)' < pass'[p].mark => i \in pass'[p].todo
  PROVE  ListingHeld' /\ ReadingHeld'
<1>1. ASSUME NEW x \in Pass
      PROVE  /\ pass'[x].stage = "listing" =>
                  \A i \in Messages' : Unread(i)' =>
                    inbox'[i].re \in pass'[x].known /\ pass'[x].since <= At(i)'
             /\ pass'[x].stage = "reading" =>
                  \A i \in Messages' : Unread(i)' /\ At(i)' < pass'[x].mark => i \in pass'[x].todo
  BY UnmovedPass
<1> QED
  BY <1>1 DEF ListingHeld, ReadingHeld

LEMMA NoPassMoves ==
  ASSUME SInv, [Next]_vars, UNCHANGED pass
  PROVE  ListingHeld' /\ ReadingHeld'
<1>1. ASSUME NEW x \in Pass
      PROVE  /\ pass'[x].stage = "listing" =>
                  \A i \in Messages' : Unread(i)' =>
                    inbox'[i].re \in pass'[x].known /\ pass'[x].since <= At(i)'
             /\ pass'[x].stage = "reading" =>
                  \A i \in Messages' : Unread(i)' /\ At(i)' < pass'[x].mark => i \in pass'[x].todo
  BY UnmovedPass
<1> QED
  BY <1>1 DEF ListingHeld, ReadingHeld

\* The index is right after every step but List's, which comes below.
LEMMA UnmovedIndex ==
  ASSUME SInv, [Next]_vars, UNCHANGED indexVars
  PROVE  IndexHeld'
<1>1. /\ \A i \in Messages : At(i)' = At(i)
      /\ \A i \in Messages : Unread(i)' => Unread(i)
  BY UnreadLater DEF SInv
<1>2. index \subseteq 1..synced /\ (\A i \in 1..synced : covered <= At(i) /\ Unread(i) => i \in index)
  BY DEF SInv, IndexHeld
<1>3. 1..synced \subseteq Messages
  <2>1. synced \in -1..Len(inbox) /\ Len(inbox) \in Nat
    BY MailTyped DEF SInv, RInv, TypeOK
  <2> QED
    BY <2>1 DEF Messages
<1> QED
  BY <1>1, <1>2, <1>3 DEF IndexHeld, indexVars

LEMMA SyncHolds ==
  ASSUME SInv, [Next]_vars, DeltaSync \/ WindowRefill
  PROVE  IndexHeld'
<1>1. /\ \A i : At(i)' = At(i)
      /\ \A i \in Messages : Unread(i)' => Unread(i)
  <2>1. \A i \in Messages : Unread(i)' => Unread(i)
    BY UnreadLater DEF SInv
  <2> QED
    BY <2>1 DEF DeltaSync, WindowRefill, At
<1>2. index \subseteq 1..synced /\ (\A i \in 1..synced : covered <= At(i) /\ Unread(i) => i \in index)
  BY DEF SInv, IndexHeld
<1>3. Len(inbox) \in Nat /\ \A i \in Messages : At(i) \in 0..MaxMessage
  BY MailTyped DEF SInv
<1>4. CASE DeltaSync
  <2>1. /\ index' = index \cup (synced + 1)..Len(inbox) /\ synced' = Len(inbox) /\ covered' = covered
        /\ synced \in 0..(Len(inbox) - 1)
    BY <1>4 DEF DeltaSync
  <2>2. 1..Len(inbox) = (1..synced) \cup (synced + 1)..Len(inbox)
    BY <1>3, <2>1
  <2> QED
    BY <1>1, <1>2, <2>1, <2>2 DEF IndexHeld, Messages
<1>5. CASE WindowRefill
  <2>1. index' \subseteq 1..Len(inbox) /\ synced' = Len(inbox) /\ covered' = Never
    BY <1>5 DEF WindowRefill, Messages
  <2>2. \A i \in 1..Len(inbox) : ~(Never <= At(i))
    BY <1>3, RepliesAssumption DEF Never, Messages
  <2> QED
    BY <1>1, <2>1, <2>2 DEF IndexHeld
<1> QED
  BY <1>4, <1>5

\* What another list claims and does not hold is unheard from then on.
LEMMA ReadByDateHolds ==
  ASSUME SInv, [Next]_vars, ReadByDate
  PROVE  IndexHeld'
<1>1. RInv /\ clock \in 0..MaxMessage
  BY DEF SInv, RInv, TypeOK
<1>2. PICK since \in {s \in 0..clock : s < covered} :
        /\ index' = Listed(since, ListLimit)[1] /\ synced' = Listed(since, ListLimit)[2]
        /\ covered' = Listed(since, ListLimit)[3]
  BY DEF ReadByDate
<1>3. since \in 0..MaxMessage /\ covered \in 0..Never
  BY <1>1, RepliesAssumption DEF RInv, TypeOK
<1>4. index' \subseteq Messages
  BY <1>1, <1>2, <1>3, ListedTyped
<1>5. synced' = Len(inbox)
  <2>1. ~(covered <= since)
    BY <1>3, RepliesAssumption DEF Never
  <2> QED
    BY <1>2, <2>1 DEF Listed
<1>6. UNCHANGED <<inbox, read>> /\ \A i : At(i)' = At(i)
  BY DEF ReadByDate, scanVars, At
<1>7. \A i \in Messages : Unread(i)' => i \in Replying \ read /\ i \notin unheard'
  BY <1>6 DEF Unread, Replying, Messages
<1>8. \A i \in Messages : covered' <= At(i) /\ Unread(i)' => i \in index'
  <2> SUFFICES ASSUME NEW i \in Messages, covered' <= At(i), Unread(i)', i \notin index'
               PROVE  FALSE
    OBVIOUS
  <2>1. i \in Replying \ read /\ At(i) >= covered'
    BY <1>7
  <2>2. i \in unheard'
    BY <2>1 DEF ReadByDate
  <2> QED
    BY <1>7, <2>2
<1> QED
  BY <1>4, <1>5, <1>6, <1>8 DEF IndexHeld, Messages

\* Days are in the order of their instants, and pages in that of their rows.
LEMMA DivMonotone ==
  ASSUME NEW a \in Nat, NEW b \in Nat, NEW d \in Nat \ {0}, a <= b
  PROVE  a \div d <= b \div d
  BY SMTT(20)

\* Fewer of a set are above a message of its own than above an older one.
LEMMA FewerAbove ==
  ASSUME RInv, NEW S \in SUBSET Messages, NEW i \in S
  PROVE  /\ Cardinality({j \in S : j > i}) \in Nat
         /\ Cardinality(S) \in Nat
         /\ Cardinality({j \in S : j > i}) < Cardinality(S)
         /\ \A k \in S : i < k => Cardinality({j \in S : j > k}) <= Cardinality({j \in S : j > i})
<1>1. IsFiniteSet(S)
  BY MailFinite
<1>2. S \subseteq Nat
  BY DEF Messages
<1>3. {j \in S : j > i} \in SUBSET S /\ i \notin {j \in S : j > i}
  BY <1>2
<1>4. {j \in S : j > i} # S
  BY <1>3
<1> HIDE DEF Messages
<1>5. ASSUME NEW k \in S, i < k
      PROVE  Cardinality({j \in S : j > k}) <= Cardinality({j \in S : j > i})
  <2>1. {j \in S : j > k} \subseteq {j \in S : j > i}
    <3> SUFFICES ASSUME NEW j \in S, j > k PROVE j > i
      OBVIOUS
    <3>1. i \in Nat /\ j \in Nat /\ k \in Nat
      BY <1>2
    <3> QED
      BY <1>5, <3>1
  <2>2. IsFiniteSet({j \in S : j > i})
    BY <1>1, <1>3, FS_Subset
  <2> QED
    BY <2>1, <2>2, FS_Subset
<1> QED
  BY <1>1, <1>3, <1>4, <1>5, FS_Subset, FS_CardinalityType

\* What is not on the page that is opened is younger than all of it, or was
\* stepped over.
LEMMA PageIsOldest ==
  ASSUME RInv, NEW since \in 0..MaxMessage,
         NEW rows \in SUBSET Messages, \A i \in rows : At(i) >= since,
         NEW i \in rows, i \notin OldestPage(rows, since)
  PROVE  \/ \A j \in OldestPage(rows, since) : j < i
         \/ At(i) = since /\ \A j \in OldestPage(rows, since) : i < j
<1> DEFINE above(k) == Cardinality({j \in rows : j > k})
           last == (Cardinality(rows) - 1) \div PageLimit
           page(n) == {k \in rows : above(k) \div PageLimit = n}
           moves == \E k \in page(last) : At(k) > since
<1>1. PageLimit \in Nat \ {0} /\ rows # {} /\ rows \subseteq Nat
  BY RepliesAssumption DEF Messages
<1>2. /\ \A k \in rows : above(k) \in Nat /\ above(k) <= Cardinality(rows) - 1
      /\ Cardinality(rows) - 1 \in Nat
  <2>1. ASSUME NEW k \in rows
        PROVE  /\ above(k) \in Nat /\ above(k) <= Cardinality(rows) - 1
               /\ Cardinality(rows) - 1 \in Nat
    <3>1. above(k) \in Nat /\ Cardinality(rows) \in Nat /\ above(k) < Cardinality(rows)
      BY FewerAbove
    <3> HIDE DEF above
    <3> QED
      BY <3>1
  <2> HIDE DEF above
  <2> QED
    BY <2>1
<1>3. \A k \in rows : above(k) \div PageLimit \in Nat
  <2>1. \A k \in rows : above(k) \in Nat
    BY <1>2
  <2> HIDE DEF above
  <2> QED
    BY <1>1, <2>1
<1>4. \A k \in rows : above(k) \div PageLimit <= last
  <2> HIDE DEF above
  <2> QED
    BY <1>1, <1>2, DivMonotone
<1>5. \A k, l \in rows : k < l => above(l) \div PageLimit <= above(k) \div PageLimit
  <2> SUFFICES ASSUME NEW k \in rows, NEW l \in rows, k < l
               PROVE  above(l) \div PageLimit <= above(k) \div PageLimit
    OBVIOUS
  <2>1. above(l) \in Nat /\ above(k) \in Nat /\ above(l) <= above(k)
    BY FewerAbove
  <2> HIDE DEF above
  <2> QED
    BY <1>1, <2>1, DivMonotone
<1>6. OldestPage(rows, since) = IF ~moves /\ last > 0 THEN page(last - 1) ELSE page(last)
  BY <1>1 DEF OldestPage
<1>7. last \in Nat
  BY <1>1, <1>2
<1> HIDE DEF above, last
<1>8. ASSUME NEW n \in Nat, above(i) \div PageLimit < n PROVE \A j \in page(n) : j < i
  <2> SUFFICES ASSUME NEW j \in page(n) PROVE j < i
    OBVIOUS
  <2>1. ~(i < j) /\ i # j
    BY <1>3, <1>5, <1>8
  <2> QED
    BY <1>1, <2>1
<1>9. ASSUME NEW n \in Nat, n < above(i) \div PageLimit PROVE \A j \in page(n) : i < j
  <2> SUFFICES ASSUME NEW j \in page(n) PROVE i < j
    OBVIOUS
  <2>1. ~(j < i) /\ i # j
    BY <1>3, <1>5, <1>9
  <2> QED
    BY <1>1, <2>1
<1>10. CASE ~moves /\ last > 0
  <2>1. OldestPage(rows, since) = page(last - 1) /\ last - 1 \in Nat
    BY <1>6, <1>7, <1>10
  <2>2. CASE above(i) \div PageLimit < last - 1
    BY <1>8, <2>1, <2>2
  <2>3. CASE above(i) \div PageLimit = last
    <3>1. i \in page(last)
      BY <2>3
    <3>2. At(i) = since
      <4>1. At(i) \in 0..MaxMessage /\ MaxMessage \in Nat
        BY MailTyped, RepliesAssumption
      <4>2. ~(At(i) > since)
        BY <1>10, <3>1
      <4> QED
        BY <4>1, <4>2
    <3> QED
      BY <1>7, <1>9, <2>1, <2>3, <3>2
  <2>4. above(i) \div PageLimit # last - 1
    BY <2>1
  <2> QED
    BY <1>3, <1>4, <1>7, <2>2, <2>3, <2>4
<1>11. CASE ~(~moves /\ last > 0)
  <2>1. OldestPage(rows, since) = page(last)
    BY <1>6, <1>11
  <2>2. above(i) \div PageLimit # last
    BY <2>1
  <2>3. above(i) \div PageLimit < last
    BY <1>3, <1>4, <1>7, <2>2
  <2> QED
    BY <1>7, <1>8, <2>1, <2>3
<1> QED
  BY <1>10, <1>11

\* A read by date never claims to reach further back than it was asked for.
LEMMA ReachIsLater ==
  ASSUME RInv, NEW since \in 0..MaxMessage, NEW limit
  PROVE  Reach(since, limit) \in Nat /\ since <= Reach(since, limit)
<1>1. Fill(since, limit) \in SUBSET Messages /\ \A i \in Fill(since, limit) : At(i) >= since
  BY DEF Fill, Newest, FoundByDate
<1> DEFINE T == {At(i) : i \in Fill(since, limit)}
<1>2. T \in SUBSET Nat
  BY <1>1, TimesOf
<1>3. CASE Fill(since, limit) = {}
  BY <1>3, RepliesAssumption DEF Reach
<1>4. CASE Fill(since, limit) # {}
  <2>1. Min(T) \in T
    <3>1. T # {}
      BY <1>4
    <3> HIDE DEF T
    <3> QED
      BY <1>2, <3>1, HasMin
  <2>2. PICK i \in Fill(since, limit) : Min(T) = At(i)
    BY <2>1
  <2>3. Min(T) \in Nat /\ since <= Min(T)
    BY <1>1, <1>2, <2>1, <2>2, RepliesAssumption
  <2>4. Reach(since, limit) = Min(T) \/ Reach(since, limit) = since
    BY DEF Reach
  <2> QED
    BY <2>3, <2>4, RepliesAssumption
<1> QED
  BY <1>3, <1>4

\* What the pass leaves unopened is no older than where it means to put the
\* cursor, but for what its list leaves out.
LEMMA ListSkipsNothing ==
  ASSUME SInv, [Next]_vars, NEW p \in Pass, List(p)
  PROVE  IndexHeld' /\ ListingHeld' /\ ReadingHeld'
<1> DEFINE since == pass[p].since
<1>1. RInv /\ since \in 0..MaxMessage /\ pass[p].stage = "listing"
  BY DEF SInv, RInv, TypeOK, List
<1>2. Reach(since, PageLimit) \in Nat /\ since <= Reach(since, PageLimit) /\ Fill(since, PageLimit) \subseteq Messages
  BY <1>1, ReachIsLater DEF Fill, Newest, FoundByDate
<1>3. /\ index' = Listed(since, PageLimit)[1] /\ synced' = Listed(since, PageLimit)[2]
      /\ covered' = Listed(since, PageLimit)[3]
  BY DEF List
<1>4. UNCHANGED <<inbox, cursor, read, row>> /\ Messages' = Messages /\ \A i : At(i)' = At(i)
  BY DEF List, meetingVars, Messages, At
<1>5. \A i \in Messages' : Unread(i)' =>
        i \in Messages /\ Unread(i) /\ i \in Replying \ read /\ i \notin unheard'
  <2>1. \A i \in Messages' : Unread(i)' => i \in Messages /\ Unread(i)
    BY <1>1, <1>4, UnreadLater
  <2> QED
    BY <2>1 DEF Unread
<1>6. /\ Len(inbox) \in Nat /\ \A i \in Messages : At(i) \in 0..MaxMessage
      /\ synced \in -1..Len(inbox) /\ covered \in 0..Never
  BY <1>1, MailTyped DEF RInv, TypeOK
<1>7. index \subseteq 1..synced /\ (\A i \in 1..synced : covered <= At(i) /\ Unread(i) => i \in index)
  BY DEF SInv, IndexHeld
<1>8. PICK messages \in SUBSET Messages, todo \in SUBSET Messages, mark \in 0..MaxMessage :
           /\ messages = OldestPage({i \in index' : At(i) >= pass[p].since}, pass[p].since)
           /\ messages \subseteq {i \in index' : At(i) >= pass[p].since}
           /\ unheard' = unheard \cup LeftOut(pass[p].since, index', messages)
           /\ todo \subseteq {i \in messages : inbox[i].re \in pass[p].known}
           /\ pass' = [pass EXCEPT ![p] =
                [pass[p] EXCEPT !.stage = "reading", !.todo = todo, !.mark = mark]]
           /\ \/ messages = {} /\ mark = pass[p].since
              \/ /\ \E j \in messages : mark = At(j)
                 /\ \A i \in messages \ todo : inbox[i].re \in pass[p].known => mark <= At(i)
  BY <1>1, ListPicks
<1>9. \A i \in Messages : Unread(i)' =>
        /\ covered > since /\ At(i) >= since => i \in index'
        /\ ~(At(i) = since /\ i \in index' /\ \A j \in messages : i < j)
  BY <1>4, <1>5, <1>8 DEF LeftOut
<1> HIDE DEF since
<1>10. /\ index' \subseteq 1..synced' /\ synced' \in -1..Len(inbox)
       /\ \A i \in 1..synced' : covered' <= At(i) /\ Unread(i)' => i \in index'
       /\ \A i \in 1..synced' : since <= At(i) /\ Unread(i)' => i \in index'
  <2>1. CASE covered <= since
    <3>1. index' = index /\ synced' = synced /\ covered' = covered
      BY <1>3, <2>1 DEF Listed, indexVars
    <3>2. \A i \in 1..synced : i \in Messages
      BY <1>6 DEF Messages
    <3>3. \A i \in 1..synced : since <= At(i) => covered <= At(i)
      BY <1>1, <1>6, <2>1, <3>2, RepliesAssumption DEF Never
    <3>4. \A i \in 1..synced : Unread(i)' => Unread(i)
      BY <1>4, <1>5, <3>2
    <3> QED
      BY <1>6, <1>7, <3>1, <3>3, <3>4
  <2>2. CASE ~(covered <= since)
    <3>1. /\ index' = index \cup Fill(since, PageLimit) /\ synced' = Len(inbox)
          /\ covered' = Min({covered, Reach(since, PageLimit)})
      BY <1>3, <2>2 DEF Listed
    <3>2. covered \in Nat /\ since \in Nat /\ MaxMessage \in Nat /\ covered > since
      BY <1>1, <1>6, <2>2, RepliesAssumption DEF Never
    <3>3. covered' \in Nat /\ since <= covered'
      <4>1. covered' \in {covered, Reach(since, PageLimit)}
        BY <1>2, <3>1, <3>2, MinOfTwo
      <4> QED
        BY <1>2, <3>2, <4>1
    <3>4. index' \subseteq 1..Len(inbox)
      BY <1>1, <1>2, <3>1 DEF RInv, TypeOK, Messages
    <3>5. \A i \in Messages : since <= At(i) /\ Unread(i)' => i \in index'
      BY <1>6, <1>9, <3>2
    <3>6. \A i \in Messages : covered' <= At(i) => since <= At(i)
      BY <1>6, <3>2, <3>3
    <3>7. Len(inbox) \in -1..Len(inbox) /\ Messages = 1..Len(inbox)
      BY <1>6 DEF Messages
    <3> QED
      BY <3>1, <3>4, <3>5, <3>6, <3>7
  <2> QED
    BY <2>1, <2>2
<1>11. IndexHeld'
  BY <1>4, <1>10 DEF IndexHeld
<1> DEFINE rows == {i \in index' : At(i) >= since}
<1>12. rows \in SUBSET Messages /\ (\A i \in rows : At(i) >= since) /\ messages = OldestPage(rows, since)
  <2>1. 1..synced' \subseteq Messages
    BY <1>6, <1>10 DEF Messages
  <2> QED
    BY <1>8, <1>10, <2>1 DEF since
<1>13. /\ pass'[p].stage = "reading" /\ pass'[p].todo = todo /\ pass'[p].mark = mark
       /\ \A x \in Pass : x # p => pass'[x] = pass[x]
  BY <1>1, <1>8 DEF RInv, TypeOK
<1>14. ASSUME NEW i \in Messages, Unread(i), Unread(i)', At(i) < mark PROVE i \in todo
  <2>1. inbox[i].re \in pass[p].known /\ since <= At(i) /\ At(i) \in Nat /\ since \in Nat
    BY <1>1, <1>6, <1>14 DEF SInv, ListingHeld, since
  <2>2. PICK j \in messages : mark = At(j)
    BY <1>8, <1>14, <2>1 DEF since
  <2>3. j \in Messages /\ j \in 1..synced' /\ i \in Nat /\ j \in Nat
    BY <1>8, <1>10, <1>12, <2>2 DEF Messages
  <2>4. i < j
    <3>1. j <= i => At(j) <= At(i)
      BY <1>1, <2>3 DEF RInv, Timely
    <3> QED
      BY <1>6, <1>14, <2>1, <2>2, <2>3, <3>1
  <2>5. i \in 1..synced'
    BY <1>10, <2>3, <2>4 DEF Messages
  <2>6. i \in rows
    BY <1>10, <1>14, <2>1, <2>5
  <2>7. i \in messages
    <3> SUFFICES ASSUME i \notin messages PROVE FALSE
      OBVIOUS
    <3>1. \/ \A k \in messages : k < i
          \/ At(i) = since /\ \A k \in messages : i < k
      BY <1>1, <1>12, <2>6, PageIsOldest
    <3>2. ~(j < i)
      BY <2>3, <2>4
    <3> QED
      BY <1>9, <1>14, <2>2, <2>6, <3>1, <3>2
  <2>8. i \notin todo => mark <= At(i)
    BY <1>8, <2>1, <2>7
  <2> QED
    BY <1>14, <2>1, <2>2, <2>3, <2>8, <1>6
<1>15. \A i \in Messages' : Unread(i)' /\ At(i)' < pass'[p].mark => i \in pass'[p].todo
  BY <1>4, <1>5, <1>13, <1>14
<1>16. ListingHeld' /\ ReadingHeld'
  BY <1>13, <1>15, OnePassMoves
<1> QED
  BY <1>11, <1>16

\* A pass begins its window at the cursor, or before every reply that counts.
LEMMA StartSkipsNothing ==
  ASSUME SInv, IInv', [Next]_vars, NEW p \in Pass, StartPass(p)
  PROVE  ListingHeld' /\ ReadingHeld'
<1>1. RInv
  BY DEF SInv
<1>2. cursor = Never => \A m \in Stored : pass'[p].since <= created[m]
  BY <1>1, StartKeeps
<1>3. /\ \A x \in Pass : x # p => pass'[x] = pass[x]
      /\ pass'[p].stage = "listing" /\ pass'[p].known = Stored
      /\ cursor # Never => pass'[p].since = cursor
      /\ pass'[p].since = IF cursor # Never THEN cursor ELSE Min({created[m] : m \in Stored})
  BY <1>1 DEF StartPass, RInv, TypeOK, IdlePass
<1>4. UNCHANGED inbox /\ Messages' = Messages /\ \A i : At(i)' = At(i)
  BY DEF StartPass, mailVars, Messages, At
<1>5. \A i \in Messages' : Unread(i)' => i \in Messages /\ Unread(i)
  BY <1>1, <1>4, UnreadLater
<1>6. ASSUME NEW i \in Messages, Unread(i)
      PROVE  inbox[i].re \in Stored /\ pass'[p].since <= At(i)
  <2>1. inbox[i].re \in Stored /\ inbox[i].re \in Meeting /\ i \in Replying \ unheard
    BY <1>6 DEF Unread, Stored
  <2>2. At(i) \in Nat
    BY <1>1, MailTyped
  <2>3. CASE cursor # Never
    <3>1. At(i) >= cursor /\ cursor \in Int
      BY <1>1, <1>6, <2>3 DEF SInv, NothingSkipped, RInv, TypeOK
    <3> QED
      BY <1>3, <2>1, <2>2, <2>3, <3>1
  <2>4. CASE cursor = Never
    <3>1. created[inbox[i].re] <= At(i) /\ created[inbox[i].re] \in Nat
      BY SMTT(30), <1>1, <2>1, RepliesAssumption DEF RInv, Known, TypeOK
    <3>2. pass'[p].since <= created[inbox[i].re]
      BY <1>2, <2>1, <2>4
    <3>3. pass'[p].since \in Nat
      <4>1. {created[m] : m \in Stored} \in SUBSET Nat /\ {created[m] : m \in Stored} # {}
        <5>1. created \in [Meeting -> 0..MaxMessage] /\ Stored \subseteq Meeting
          BY <1>1 DEF RInv, TypeOK, Stored
        <5> QED
          BY <2>1, <5>1, RepliesAssumption
      <4> QED
        BY <1>3, <2>4, <4>1, HasMin
    <3> QED
      BY <2>1, <2>2, <3>1, <3>2, <3>3
  <2> QED
    BY <2>3, <2>4
<1> QED
  BY <1>3, <1>4, <1>5, <1>6, OnePassMoves

\* The cursor moves only when nothing that was to be opened is left.
LEMMA FinishSkipsNothing ==
  ASSUME SInv, [Next]_vars, NEW p \in Pass, Finish(p)
  PROVE  NothingSkipped'
<1>1. CASE cursor' = cursor
  BY <1>1, UnmovedCursor
<1>2. CASE cursor' # cursor
  <2>1. cursor' = pass[p].mark /\ pass[p].stage = "reading" /\ pass[p].todo = {}
    BY <1>2 DEF Finish
  <2>2. UNCHANGED inbox /\ Messages' = Messages /\ \A i : At(i)' = At(i)
    BY DEF Finish, mailVars, Messages, At
  <2>3. \A i \in Messages' : Unread(i)' => i \in Messages /\ Unread(i)
    BY <2>2, UnreadLater DEF SInv
  <2>4. \A i \in Messages : Unread(i) => ~(At(i) < pass[p].mark)
    BY <2>1 DEF SInv, ReadingHeld
  <2>5. /\ \A i \in Messages : At(i) \in 0..MaxMessage
        /\ pass[p].mark \in 0..MaxMessage
    BY MailTyped DEF SInv, RInv, TypeOK
  <2>6. \A i \in Messages' : Unread(i)' => At(i)' >= cursor'
    BY <2>1, <2>2, <2>3, <2>4, <2>5
  <2> QED
    BY <2>6 DEF NothingSkipped
<1> QED
  BY <1>1, <1>2

LEMMA SInvStep == SInv /\ RInv' /\ [Next]_vars => SInv'
<1> SUFFICES ASSUME SInv, RInv', [Next]_vars PROVE SInv'
  OBVIOUS
<1>1. IInv'
  BY DEF RInv
<1>2. ASSUME UNCHANGED <<indexVars, pass, cursor>> PROVE SInv'
  BY <1>2, UnmovedIndex, NoPassMoves, UnmovedCursor DEF SInv
<1>3. ASSUME NEW w \in Window, OtherCall(w) \/ Store(w) PROVE SInv'
  BY <1>2, <1>3 DEF OtherCall, Store, mailVars, scanVars
<1>4. ASSUME NEW m \in Meeting, Forget(m) PROVE SInv'
  BY <1>2, <1>4 DEF Forget, mailVars
<1>5. ASSUME NEW re \in Meeting \cup {NoMeeting}, Arrive(re) PROVE SInv'
  BY <1>2, <1>5 DEF Arrive, scanVars
<1>6. ASSUME DeltaSync \/ WindowRefill \/ ReadByDate PROVE SInv'
  <2>1. UNCHANGED <<pass, cursor>>
    BY <1>6 DEF DeltaSync, WindowRefill, ReadByDate, scanVars
  <2> QED
    BY <1>6, <2>1, SyncHolds, ReadByDateHolds, NoPassMoves, UnmovedCursor DEF SInv
<1>7. CASE Die
  <2>1. UNCHANGED <<indexVars, cursor>>
    BY <1>7 DEF Die, mailVars, indexVars
  <2>2. ListingHeld' /\ ReadingHeld'
    BY <1>7 DEF Die, IdlePass, ListingHeld, ReadingHeld
  <2> QED
    BY <2>1, <2>2, UnmovedIndex, UnmovedCursor DEF SInv
<1>8. ASSUME NEW p \in Pass, StartPass(p) PROVE SInv'
  <2>1. UNCHANGED <<indexVars, cursor>>
    BY <1>8 DEF StartPass, mailVars
  <2> QED
    BY <1>1, <1>8, <2>1, StartSkipsNothing, UnmovedIndex, UnmovedCursor DEF SInv
<1>9. ASSUME NEW p \in Pass, List(p) PROVE SInv'
  <2>1. UNCHANGED cursor
    BY <1>9 DEF List
  <2> QED
    BY <1>9, <2>1, ListSkipsNothing, UnmovedCursor DEF SInv
<1>10. ASSUME NEW p \in Pass, Read(p) PROVE SInv'
  <2>1. PICK i \in pass[p].todo :
          pass' = [pass EXCEPT ![p].todo = @ \ {i}] /\ read' = read \cup {i}
    BY <1>10 DEF Read
  <2>2. /\ UNCHANGED <<indexVars, cursor, inbox, unheard>> /\ Messages' = Messages
        /\ \A j : At(j)' = At(j)
    BY <1>10 DEF Read, mailVars, Messages, At
  <2>3. /\ pass'[p].stage = "reading" /\ pass[p].stage = "reading"
        /\ pass'[p].todo = pass[p].todo \ {i} /\ pass'[p].mark = pass[p].mark
        /\ \A x \in Pass : x # p => pass'[x] = pass[x]
    BY SMTT(30), <1>10, <2>1 DEF Read, SInv, RInv, TypeOK
  <2>4. \A j \in Messages' : Unread(j)' => j \in Messages /\ Unread(j) /\ j # i
    BY <2>1, <2>2, UnreadLater DEF SInv, Unread
  <2>5. \A j \in Messages' : Unread(j)' /\ At(j)' < pass'[p].mark => j \in pass'[p].todo
    BY <2>2, <2>3, <2>4 DEF SInv, ReadingHeld
  <2>6. ListingHeld' /\ ReadingHeld'
    BY <2>3, <2>5, OnePassMoves
  <2> QED
    BY <2>2, <2>6, UnmovedIndex, UnmovedCursor DEF SInv
<1>11. ASSUME NEW p \in Pass, Finish(p) \/ ScanFails(p) \/ Poll(p) PROVE SInv'
  <2>1. /\ pass'[p].stage \notin {"listing", "reading"}
        /\ \A x \in Pass : x # p => pass'[x] = pass[x]
        /\ UNCHANGED indexVars
    <3>1. pass = [x \in Pass |-> pass[x]]
      BY DEF SInv, RInv, TypeOK
    <3>2. UNCHANGED indexVars
      BY <1>11 DEF Finish, ScanFails, Poll, mailVars
    <3>3. PICK q : pass' = [pass EXCEPT ![p] = q] /\ q.stage \in {"polling", "idle"}
      <4>1. CASE Poll(p)
        <5>1. pass' = [pass EXCEPT ![p] = IdlePass] /\ IdlePass.stage = "idle"
          BY <4>1 DEF Poll, IdlePass
        <5> QED
          BY <5>1
      <4>2. CASE Finish(p) \/ ScanFails(p)
        <5> DEFINE q == [IdlePass EXCEPT !.stage = "polling", !.polls = pass[p].polls]
        <5>1. pass' = [pass EXCEPT ![p] = q]
          BY <4>2 DEF Finish, ScanFails, ToPolling
        <5>2. q.stage = "polling"
          BY DEF IdlePass
        <5> HIDE DEF q
        <5> QED
          BY <5>1, <5>2
      <4> QED
        BY <1>11, <4>1, <4>2
    <3>4. pass'[p] = q /\ \A x \in Pass : x # p => pass'[x] = pass[x]
      BY <3>1, <3>3
    <3> QED
      BY <3>2, <3>3, <3>4
  <2>2. ListingHeld' /\ ReadingHeld'
    BY <2>1, OnePassMoves
  <2>3. ScanFails(p) \/ Poll(p) => UNCHANGED cursor
    BY DEF ScanFails, Poll
  <2> QED
    BY <1>11, <2>1, <2>2, <2>3, FinishSkipsNothing, UnmovedIndex, UnmovedCursor DEF SInv
<1>12. CASE UNCHANGED vars
  BY <1>2, <1>12 DEF vars, mailVars, scanVars
<1> QED
  BY <1>3, <1>4, <1>5, <1>6, <1>7, <1>8, <1>9, <1>10, <1>11, <1>12 DEF Next, PassStep

\* No reply that a scan could have known of is ever left below the cursor, but
\* for those a list left out: for any meetings, passes, lists, length of
\* a page and of a day, fetch limit, refills of the index and messages at one
\* instant.
THEOREM NoReplyIsSkipped == Spec => []NothingSkipped
<1>1. Init => SInv
  <2>1. Init => RInv
    BY InitRInv
  <2>2. Init => IndexHeld /\ ListingHeld /\ ReadingHeld /\ NothingSkipped
    BY RepliesAssumption
    DEF Init, IndexHeld, ListingHeld, ReadingHeld, NothingSkipped, IdlePass, Unsynced, Messages
  <2> QED
    BY <2>1, <2>2 DEF SInv
<1>2. SInv => NothingSkipped
  BY DEF SInv
<1> QED
  BY <1>1, <1>2, SInvStep, RInvHolds, PTL DEF Spec
=============================================================================
