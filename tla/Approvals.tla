------------------------------ MODULE Approvals ------------------------------
(***************************************************************************)
(* The queue of actions an agent may ask for and only a person may allow   *)
(* (src/src/agent/approvals.ts), over its table (src/src/db/store.ts).     *)
(*                                                                         *)
(* decide() is synchronous up to its one await, the action itself, so the  *)
(* claim is one step.  A window's click is a call that then holds its      *)
(* request through three stages: "claimed" (the action is under way),      *)
(* "done" (it returned) and "threw".  Clicks of several windows overlap    *)
(* there, and the process may die at any of them.                          *)
(***************************************************************************)
EXTENDS Integers, FiniteSets

CONSTANTS
  Request,         \* rows agent_approvals may ever hold
  Window,          \* calls of decide() that may be in flight at once
  NoRequest,       \* what an idle window holds
  MaxPending,      \* MAX_PENDING (25 in the code)
  MaxFaults        \* bound: process deaths and failed outcome writes

ASSUME ApprovalsAssumption ==
  /\ IsFiniteSet(Request)
  /\ NoRequest \notin Request
  /\ MaxPending \in Nat
  /\ MaxFaults \in Nat

VARIABLES
  state,           \* agent_approvals.state, "none" before the INSERT
  outcome,         \* agent_approvals.outcome: "null", "declined", "done", "why"
  doing,           \* the request each window's call has claimed
  stage,           \* how far that call is
  effects,         \* history: times the request's action took effect
  faults           \* deaths and failed writes so far

rowVars == <<state, outcome>>
callVars == <<doing, stage>>
vars == <<state, outcome, doing, stage, effects, faults>>

State == {"none", "pending", "approved", "denied", "failed"}
Outcome == {"null", "declined", "done", "why"}
Stage == {"idle", "claimed", "done", "threw"}

Pending == {r \in Request : state[r] = "pending"}

Init ==
  /\ state = [r \in Request |-> "none"]
  /\ outcome = [r \in Request |-> "null"]
  /\ doing = [w \in Window |-> NoRequest]
  /\ stage = [w \in Window |-> "idle"]
  /\ effects = [r \in Request |-> 0]
  /\ faults = 0

\* UPDATE agent_approvals SET state, outcome
Write(r, s, o) ==
  /\ state' = [state EXCEPT ![r] = s]
  /\ outcome' = [outcome EXCEPT ![r] = o]

-----------------------------------------------------------------------------
(* Asking *)



\* queue: past MaxPending the tool refuses and no row is written.
Queue(r) ==
  /\ state[r] = "none"
  /\ Cardinality(Pending) < MaxPending
  /\ Write(r, "pending", "null")
  /\ UNCHANGED <<callVars, effects, faults>>

-----------------------------------------------------------------------------
(* Deciding: a click on a card that is no longer pending answers 409 and   *)
(* changes nothing.                                                        *)

Deny(r) ==
  /\ state[r] = "pending"
  /\ Write(r, "denied", "declined")
  /\ UNCHANGED <<callVars, effects, faults>>

\* The claim: settleApproval takes the row out of pending before the action.
Approve(w, r) ==
  /\ stage[w] = "idle"
  /\ state[r] = "pending"
  /\ Write(r, "approved", "null")
  /\ doing' = [doing EXCEPT ![w] = r]
  /\ stage' = [stage EXCEPT ![w] = "claimed"]
  /\ UNCHANGED <<effects, faults>>

\* perform returned: the mail, the move or the meeting happened.
PerformDone(w) ==
  /\ stage[w] = "claimed"
  /\ stage' = [stage EXCEPT ![w] = "done"]
  /\ effects' = [effects EXCEPT ![doing[w]] = @ + 1]
  /\ UNCHANGED <<rowVars, doing, faults>>

\* perform threw: refused outright, a move that found nothing to move, or a
\* server that took the mail and whose answer was lost.
PerformThrows(w) ==
  /\ stage[w] = "claimed"
  /\ stage' = [stage EXCEPT ![w] = "threw"]
  /\ \E tookEffect \in {0, 1} : effects' = [effects EXCEPT ![doing[w]] = @ + tookEffect]
  /\ UNCHANGED <<rowVars, doing, faults>>

Release(w) ==
  /\ doing' = [doing EXCEPT ![w] = NoRequest]
  /\ stage' = [stage EXCEPT ![w] = "idle"]

\* Mutation: a failed send leaves a card that looks as if it was never touched.
RecordReopens(w) ==
  /\ \/ stage[w] = "done" /\ Write(doing[w], "approved", "done")
     \/ stage[w] = "threw" /\ Write(doing[w], "pending", "why")
  /\ Release(w)
  /\ UNCHANGED <<effects, faults>>

\* Mutation: the outcome write goes through settleApproval and matches nothing.
RecordGuarded(w) ==
  /\ stage[w] \in {"done", "threw"}
  /\ Release(w)
  /\ UNCHANGED <<rowVars, effects, faults>>

\* Mutation: a move that reports moved = false by returning is taken for done.
RecordAlwaysDone(w) ==
  /\ stage[w] \in {"done", "threw"}
  /\ Write(doing[w], "approved", "done")
  /\ Release(w)
  /\ UNCHANGED <<effects, faults>>

\* Mutation: no catch around perform, so an error unwinds past the write.
RecordOnlyDone(w) ==
  /\ \/ stage[w] = "done" /\ Write(doing[w], "approved", "done")
     \/ stage[w] = "threw" /\ UNCHANGED rowVars
  /\ Release(w)
  /\ UNCHANGED <<effects, faults>>

\* forceState: the second write, unguarded.
Record(w) ==
  /\ \/ stage[w] = "done" /\ Write(doing[w], "approved", "done")
     \/ stage[w] = "threw" /\ Write(doing[w], "failed", "why")
  /\ Release(w)
  /\ UNCHANGED <<effects, faults>>

-----------------------------------------------------------------------------
(* Faults *)

\* forceState itself throws: the route answers 500, the row keeps its claim.
RecordFails(w) ==
  /\ faults < MaxFaults
  /\ stage[w] \in {"done", "threw"}
  /\ Release(w)
  /\ faults' = faults + 1
  /\ UNCHANGED <<rowVars, effects>>

\* The process dies and starts again: the rows stay, the calls are gone.
Crash ==
  /\ faults < MaxFaults
  /\ doing' = [w \in Window |-> NoRequest]
  /\ stage' = [w \in Window |-> "idle"]
  /\ faults' = faults + 1
  /\ UNCHANGED <<rowVars, effects>>

Next ==
  \/ \E r \in Request : Queue(r) \/ Deny(r)
  \/ \E w \in Window, r \in Request : Approve(w, r)
  \/ \E w \in Window :
       \/ PerformDone(w)
       \/ PerformThrows(w)
       \/ Record(w)
       \/ RecordFails(w)
  \/ Crash

Spec == Init /\ [][Next]_vars

\* A mail server answers or times out, and the code after an await runs.
FairSpec ==
  /\ Spec
  /\ \A w \in Window : WF_vars(PerformDone(w) \/ PerformThrows(w)) /\ WF_vars(Record(w))

-----------------------------------------------------------------------------
(* Properties *)

TypeOK ==
  /\ state \in [Request -> State]
  /\ outcome \in [Request -> Outcome]
  /\ doing \in [Window -> Request \cup {NoRequest}]
  /\ stage \in [Window -> Stage]
  /\ effects \in [Request -> Nat]
  /\ faults \in 0..MaxFaults

\* The cards a person faces never outgrow MAX_PENDING, whoever asks
\* (approvals.ts:108-113).
PendingBounded == Cardinality(Pending) <= MaxPending

\* No click, no failure, no death and no retry carries an action out twice:
\* the row has left pending before the action starts and never returns
\* (approvals.ts:159-167).
PerformedOnce == \A r \in Request : effects[r] <= 1

\* An approved row with no outcome, whose call is gone, is only ever left
\* behind by a death or a failed write; every thrown error is written down
\* (approvals.ts:190-199).
NoAnswerLost ==
  \A r \in Request :
    state[r] = "approved" /\ outcome[r] = "null" =>
      faults > 0 \/ \E w \in Window : doing[w] = r

\* The row as the outreach outbox would hold it: an approval is one more
\* table of messages that leave only on a person's word.
AsOutboxRow(r) ==
  IF state[r] = "approved" /\ outcome[r] = "done" THEN "sent"
  ELSE IF state[r] = "denied" THEN "rejected"
  ELSE state[r]

Promise == INSTANCE Outbox WITH
  Row <- Request,
  status <- [r \in Request |-> AsOutboxRow(r)],
  copies <- effects

\* Nothing takes effect that was not approved, a verdict is never revised,
\* and a card that reads "Done." is one whose action happened.
KeepsPromise == Promise!Spec

\* While nothing dies, an approval ends in "Done." or in the reason it failed.
ApprovalIsAnswered ==
  \A r \in Request :
    state[r] = "approved" ~> outcome[r] # "null" \/ faults > 0
=============================================================================
