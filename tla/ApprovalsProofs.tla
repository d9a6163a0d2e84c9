--------------------------- MODULE ApprovalsProofs ---------------------------
(***************************************************************************)
(* Proofs about Approvals, for any requests, windows and bounds.           *)
(*                                                                         *)
(* The argument is one invariant about claims: a call under way holds a    *)
(* request no other call holds, whose row says "approved" with no outcome, *)
(* and whose action has not happened before its stage says so.             *)
(***************************************************************************)
EXTENDS Approvals, FiniteSetTheorems, TLAPS

\* A request held by a call: claimed once, not yet answered.
ClaimsHold ==
  \A w \in Window :
    /\ stage[w] = "idle" <=> doing[w] = NoRequest
    /\ stage[w] # "idle" =>
         /\ state[doing[w]] = "approved"
         /\ outcome[doing[w]] = "null"
         /\ stage[w] = "claimed" => effects[doing[w]] = 0
         /\ stage[w] = "done" => effects[doing[w]] = 1

\* No two calls hold the same request.
ClaimsApart ==
  \A w1, w2 \in Window :
    doing[w1] = doing[w2] /\ doing[w1] # NoRequest => w1 = w2

\* What the row says of the action: not before approval, and "Done." after it.
RowsHold ==
  \A r \in Request :
    /\ effects[r] <= 1
    /\ state[r] \in {"none", "pending", "denied"} => effects[r] = 0
    /\ outcome[r] = "done" => effects[r] = 1
    /\ outcome[r] = "done" => state[r] = "approved"

IInv == TypeOK /\ ClaimsHold /\ ClaimsApart /\ RowsHold

-----------------------------------------------------------------------------
(* The invariant is inductive *)

LEMMA InitInv == Init => IInv
  BY ApprovalsAssumption DEF Init, IInv, TypeOK, ClaimsHold, ClaimsApart, RowsHold, State, Outcome, Stage

\* Every step keeps the types.
LEMMA TypeStep == IInv /\ [Next]_vars => TypeOK'
<1> SUFFICES ASSUME IInv, [Next]_vars PROVE TypeOK'
  OBVIOUS
<1> USE ApprovalsAssumption DEF IInv, TypeOK, State, Outcome, Stage
<1>1. ASSUME NEW r \in Request, Queue(r) \/ Deny(r) PROVE TypeOK'
  BY <1>1 DEF Queue, Deny, Write, callVars
<1>2. ASSUME NEW w \in Window, NEW r \in Request, Approve(w, r) PROVE TypeOK'
  BY <1>2 DEF Approve, Write
<1>3. ASSUME NEW w \in Window, PerformDone(w) PROVE TypeOK'
  BY <1>3 DEF PerformDone, rowVars, ClaimsHold
<1>4. ASSUME NEW w \in Window, PerformThrows(w) PROVE TypeOK'
  BY <1>4 DEF PerformThrows, rowVars, ClaimsHold
<1>5. ASSUME NEW w \in Window, Record(w) PROVE TypeOK'
  BY <1>5 DEF Record, Write, Release, ClaimsHold
<1>6. ASSUME NEW w \in Window, RecordFails(w) PROVE TypeOK'
  BY <1>6 DEF RecordFails, Release, rowVars
<1>7. CASE Crash
  BY <1>7 DEF Crash, rowVars
<1>8. CASE UNCHANGED vars
  BY <1>8 DEF vars
<1> QED
  BY <1>1, <1>2, <1>3, <1>4, <1>5, <1>6, <1>7, <1>8 DEF Next

\* A queued or denied row is in nobody's hands, so asking and denying
\* disturb no claim.
LEMMA RowWrite ==
  ASSUME IInv, NEW r \in Request, Queue(r) \/ Deny(r)
  PROVE  ClaimsHold' /\ ClaimsApart' /\ RowsHold'
<1> USE DEF IInv, TypeOK, Queue, Deny, Write, callVars
<1>1. \A w \in Window : stage[w] # "idle" => doing[w] # r
  BY DEF ClaimsHold
<1>2. ClaimsHold'
  BY <1>1 DEF ClaimsHold
<1>3. ClaimsApart'
  BY DEF ClaimsApart
<1>4. RowsHold'
  BY DEF RowsHold
<1> QED
  BY <1>2, <1>3, <1>4

\* The claim takes a pending row, which no call holds and whose action has
\* not happened.
LEMMA ApproveStep ==
  ASSUME IInv, NEW w \in Window, NEW r \in Request, Approve(w, r)
  PROVE  ClaimsHold' /\ ClaimsApart' /\ RowsHold'
<1> USE DEF IInv, TypeOK, Approve, Write
<1>1. \A v \in Window : doing[v] # r
  BY ApprovalsAssumption DEF ClaimsHold
<1>2. effects[r] = 0
  BY DEF RowsHold
<1>3. ClaimsHold'
  BY <1>1, <1>2, ApprovalsAssumption DEF ClaimsHold
<1>4. ClaimsApart'
  BY <1>1 DEF ClaimsApart
<1>5. RowsHold'
  BY <1>2 DEF RowsHold
<1> QED
  BY <1>3, <1>4, <1>5

\* The action takes effect once, for the one call that holds its request.
LEMMA PerformStep ==
  ASSUME IInv, NEW w \in Window, PerformDone(w) \/ PerformThrows(w)
  PROVE  ClaimsHold' /\ ClaimsApart' /\ RowsHold'
<1> USE DEF IInv, TypeOK, PerformDone, PerformThrows, rowVars
<1>1. /\ stage[w] = "claimed"
      /\ doing[w] \in Request
      /\ state[doing[w]] = "approved"
      /\ outcome[doing[w]] = "null"
      /\ effects[doing[w]] = 0
  BY DEF ClaimsHold
<1>2. \A v \in Window : v # w => doing[v] # doing[w]
  BY <1>1, ApprovalsAssumption DEF ClaimsApart
<1>3. ClaimsHold'
  BY <1>1, <1>2, ApprovalsAssumption DEF ClaimsHold
<1>4. ClaimsApart'
  BY DEF ClaimsApart
<1>5. RowsHold'
  BY <1>1 DEF RowsHold
<1> QED
  BY <1>3, <1>4, <1>5

\* The outcome is written to the row the call holds, which no other call does.
LEMMA RecordStep ==
  ASSUME IInv, NEW w \in Window, Record(w)
  PROVE  ClaimsHold' /\ ClaimsApart' /\ RowsHold'
<1> USE DEF IInv, TypeOK, Record, Write, Release
<1>1. /\ doing[w] \in Request
      /\ state[doing[w]] = "approved"
      /\ stage[w] = "done" => effects[doing[w]] = 1
  BY DEF ClaimsHold
<1>2. \A v \in Window : v # w => doing[v] # doing[w]
  BY <1>1, ApprovalsAssumption DEF ClaimsApart
<1>3. ClaimsHold'
  BY <1>1, <1>2, ApprovalsAssumption DEF ClaimsHold
<1>4. ClaimsApart'
  BY DEF ClaimsApart
<1>5. RowsHold'
  BY <1>1 DEF RowsHold
<1> QED
  BY <1>3, <1>4, <1>5

\* Letting go of a claim, in one call or in all of them, writes no row.
LEMMA FaultStep ==
  ASSUME IInv, Crash \/ \E w \in Window : RecordFails(w)
  PROVE  ClaimsHold' /\ ClaimsApart' /\ RowsHold'
<1> USE DEF IInv, TypeOK, Crash, RecordFails, Release, rowVars
<1>1. ClaimsHold'
  BY ApprovalsAssumption DEF ClaimsHold
<1>2. ClaimsApart'
  BY ApprovalsAssumption DEF ClaimsApart
<1>3. RowsHold'
  BY DEF RowsHold
<1> QED
  BY <1>1, <1>2, <1>3

LEMMA StepInv == IInv /\ [Next]_vars => IInv'
<1> SUFFICES ASSUME IInv, [Next]_vars PROVE IInv'
  OBVIOUS
<1>1. TypeOK'
  BY TypeStep
<1>2. CASE UNCHANGED vars
  BY <1>2, <1>1 DEF IInv, TypeOK, vars, ClaimsHold, ClaimsApart, RowsHold
<1>3. CASE Next
  BY <1>3, <1>1, RowWrite, ApproveStep, PerformStep, RecordStep, FaultStep DEF Next, IInv
<1> QED
  BY <1>2, <1>3

LEMMA Invariant == Spec => []IInv
  BY InitInv, StepInv, PTL DEF Spec

-----------------------------------------------------------------------------
(* Theorems *)

\* Every variable keeps its type, for any requests, windows and bounds.
THEOREM TypeCorrect == Spec => []TypeOK
<1>1. IInv => TypeOK
  BY DEF IInv
<1> QED
  BY <1>1, Invariant, PTL

\* No approved action is carried out twice, whatever clicks overlap and
\* wherever the process dies.
THEOREM NeverTwice == Spec => []PerformedOnce
<1>1. IInv => PerformedOnce
  BY DEF IInv, RowsHold, PerformedOnce
<1> QED
  BY <1>1, Invariant, PTL

\* The cards waiting for the user never outgrow MAX_PENDING.
THEOREM QueueIsBounded == Spec => []PendingBounded
<1>1. Init => PendingBounded
  <2> SUFFICES ASSUME Init PROVE PendingBounded
    OBVIOUS
  <2>1. Pending = {}
    BY DEF Init, Pending
  <2> QED
    BY <2>1, FS_EmptySet, ApprovalsAssumption DEF PendingBounded
<1>2. IInv /\ PendingBounded /\ [Next]_vars => PendingBounded'
  <2> SUFFICES ASSUME IInv, PendingBounded, [Next]_vars PROVE PendingBounded'
    OBVIOUS
  <2> USE DEF IInv, TypeOK
  <2>1. IsFiniteSet(Pending)
    BY FS_Subset, ApprovalsAssumption DEF Pending
  <2>2. ASSUME NEW r \in Request, Queue(r) PROVE PendingBounded'
    <3>1. Pending' = Pending \cup {r}
      BY <2>2 DEF Queue, Write, Pending
    <3>2. Cardinality(Pending \cup {r}) = Cardinality(Pending) + 1
      <4>1. r \notin Pending
        BY <2>2 DEF Queue, Pending
      <4> QED
        BY <4>1, <2>1, FS_AddElement
    <3>3. Cardinality(Pending) \in Nat
      BY <2>1, FS_CardinalityType
    <3> QED
      BY <2>2, <3>1, <3>2, <3>3, ApprovalsAssumption DEF Queue, PendingBounded
  <2>3. CASE Pending' \subseteq Pending
    BY <2>3, <2>1, FS_Subset, FS_CardinalityType, ApprovalsAssumption DEF PendingBounded
  <2>4. ASSUME NEW r \in Request, Deny(r) PROVE Pending' \subseteq Pending
    BY <2>4 DEF Deny, Write, Pending
  <2>5. ASSUME NEW w \in Window, NEW r \in Request, Approve(w, r) PROVE Pending' \subseteq Pending
    BY <2>5 DEF Approve, Write, Pending
  <2>6. ASSUME NEW w \in Window, Record(w) PROVE Pending' \subseteq Pending
    BY <2>6 DEF Record, Write, Pending
  <2>7. ASSUME UNCHANGED rowVars PROVE Pending' \subseteq Pending
    BY <2>7 DEF rowVars, Pending
  <2>8. ASSUME NEW w \in Window, PerformDone(w) \/ PerformThrows(w) \/ RecordFails(w)
        PROVE UNCHANGED rowVars
    BY <2>8 DEF PerformDone, PerformThrows, RecordFails
  <2>9. Crash \/ UNCHANGED vars => UNCHANGED rowVars
    BY DEF Crash, vars, rowVars
  <2> QED
    BY <2>2, <2>3, <2>4, <2>5, <2>6, <2>7, <2>8, <2>9 DEF Next
<1> QED
  BY <1>1, <1>2, Invariant, PTL DEF Spec

\* Without a death or a failed write, an approved row with no outcome is in
\* the hands of a call that will write one.
THEOREM NothingLeftHanging == Spec => []NoAnswerLost
<1>1. Init => NoAnswerLost
  BY DEF Init, NoAnswerLost
<1>2. IInv /\ NoAnswerLost /\ [Next]_vars => NoAnswerLost'
  <2> SUFFICES ASSUME IInv, NoAnswerLost, [Next]_vars PROVE NoAnswerLost'
    OBVIOUS
  <2> USE DEF IInv, TypeOK, NoAnswerLost
  <2>1. ASSUME NEW r \in Request, Queue(r) \/ Deny(r) PROVE NoAnswerLost'
    BY <2>1 DEF Queue, Deny, Write, callVars
  <2>2. ASSUME NEW w \in Window, NEW r \in Request, Approve(w, r) PROVE NoAnswerLost'
    <3>1. doing[w] = NoRequest
      BY <2>2 DEF Approve, ClaimsHold
    <3> QED
      BY <2>2, <3>1, ApprovalsAssumption DEF Approve, Write
  <2>3. ASSUME NEW w \in Window, PerformDone(w) \/ PerformThrows(w) PROVE NoAnswerLost'
    BY <2>3 DEF PerformDone, PerformThrows, rowVars
  <2>4. ASSUME NEW w \in Window, Record(w) PROVE NoAnswerLost'
    <3>1. doing[w] \in Request /\ outcome'[doing[w]] # "null"
      BY <2>4 DEF Record, Write, ClaimsHold
    <3> QED
      BY <2>4, <3>1 DEF Record, Write, Release
  <2>5. ASSUME NEW w \in Window, RecordFails(w) PROVE NoAnswerLost'
    <3>1. faults' > 0
      BY <2>5, ApprovalsAssumption DEF RecordFails
    <3> QED
      BY <3>1
  <2>6. CASE Crash
    <3>1. faults' > 0
      BY <2>6, ApprovalsAssumption DEF Crash
    <3> QED
      BY <3>1
  <2>7. CASE UNCHANGED vars
    BY <2>7 DEF vars
  <2> QED
    BY <2>1, <2>2, <2>3, <2>4, <2>5, <2>6, <2>7 DEF Next
<1> QED
  BY <1>1, <1>2, Invariant, PTL DEF Spec

-----------------------------------------------------------------------------
(* Refinement *)

\* A step that leaves a request's row and its effects alone is a stutter of
\* the promise; one that changes a single row is one step of it.
LEMMA PromiseStep ==
  ASSUME IInv, [Next]_vars
  PROVE  [Promise!Next]_(Promise!vars)
<1> USE DEF IInv, TypeOK
<1> DEFINE Mapped == [r \in Request |-> AsOutboxRow(r)]
<1>1. ASSUME NEW r \in Request, Queue(r) PROVE Promise!Queue(r)
  <2>1. Mapped' = [Mapped EXCEPT ![r] = "pending"]
    BY <1>1 DEF Queue, Write, AsOutboxRow
  <2>2. Mapped[r] = "none"
    BY <1>1 DEF Queue, AsOutboxRow
  <2> QED
    BY <1>1, <2>1, <2>2 DEF Queue, Promise!Queue
<1>2. ASSUME NEW r \in Request, Deny(r) PROVE Promise!Decide(r, "rejected")
  <2>1. Mapped' = [Mapped EXCEPT ![r] = "rejected"]
    BY <1>2 DEF Deny, Write, AsOutboxRow
  <2>2. Mapped[r] = "pending"
    BY <1>2 DEF Deny, AsOutboxRow
  <2> QED
    BY <1>2, <2>1, <2>2 DEF Deny, Promise!Decide
<1>3. ASSUME NEW w \in Window, NEW r \in Request, Approve(w, r)
      PROVE  Promise!Decide(r, "approved")
  <2>1. Mapped' = [Mapped EXCEPT ![r] = "approved"]
    BY <1>3 DEF Approve, Write, AsOutboxRow
  <2>2. Mapped[r] = "pending"
    BY <1>3 DEF Approve, AsOutboxRow
  <2> QED
    BY <1>3, <2>1, <2>2 DEF Approve, Promise!Decide
<1>4. ASSUME NEW w \in Window, PerformDone(w) \/ PerformThrows(w)
      PROVE  Promise!Deliver(doing[w]) \/ UNCHANGED Promise!vars
  <2>1. doing[w] \in Request /\ Mapped[doing[w]] = "approved"
    BY <1>4 DEF PerformDone, PerformThrows, ClaimsHold, AsOutboxRow
  <2>2. Mapped' = Mapped
    BY <1>4 DEF PerformDone, PerformThrows, rowVars, AsOutboxRow
  <2>3. effects' = [effects EXCEPT ![doing[w]] = @ + 1] \/ effects' = effects
    BY <1>4, <2>1 DEF PerformDone, PerformThrows
  <2> QED
    BY <2>1, <2>2, <2>3 DEF Promise!Deliver, Promise!vars
<1>5. ASSUME NEW w \in Window, Record(w)
      PROVE  Promise!CloseSent(doing[w]) \/ Promise!CloseFailed(doing[w])
  <2>1. doing[w] \in Request /\ Mapped[doing[w]] = "approved"
    BY <1>5 DEF Record, ClaimsHold, AsOutboxRow
  <2>2. CASE stage[w] = "done"
    <3>1. Mapped' = [Mapped EXCEPT ![doing[w]] = "sent"]
      BY <1>5, <2>1, <2>2 DEF Record, Write, AsOutboxRow
    <3>2. effects[doing[w]] > 0
      BY <2>2 DEF ClaimsHold
    <3> QED
      BY <1>5, <2>1, <3>1, <3>2 DEF Record, Promise!CloseSent
  <2>3. CASE stage[w] = "threw"
    <3>1. Mapped' = [Mapped EXCEPT ![doing[w]] = "failed"]
      BY <1>5, <2>1, <2>3 DEF Record, Write, AsOutboxRow
    <3> QED
      BY <1>5, <2>1, <3>1 DEF Record, Promise!CloseFailed
  <2> QED
    BY <1>5, <2>2, <2>3 DEF Record
<1>6. ASSUME Crash \/ UNCHANGED vars \/ \E w \in Window : RecordFails(w)
      PROVE  UNCHANGED Promise!vars
  BY <1>6 DEF Crash, RecordFails, rowVars, vars, Promise!vars, AsOutboxRow
<1>7. \A w \in Window : stage[w] # "idle" => doing[w] \in Request
  BY DEF ClaimsHold
<1>8. ASSUME NEW w \in Window, PerformDone(w) \/ PerformThrows(w) \/ Record(w)
      PROVE  doing[w] \in Request
  BY <1>7, <1>8 DEF PerformDone, PerformThrows, Record
<1> QED
  BY <1>1, <1>2, <1>3, <1>4, <1>5, <1>6, <1>8 DEF Next, Promise!Next

\* The approval queue keeps the outbox's promise: a row takes effect only
\* while approved, and reads "Done." only after it did.
THEOREM ApprovalsKeepPromise == Spec => KeepsPromise
<1>1. Init => Promise!Init
  BY DEF Init, Promise!Init, AsOutboxRow
<1>2. IInv /\ [Next]_vars => [Promise!Next]_(Promise!vars)
  BY PromiseStep
<1> QED
  BY <1>1, <1>2, Invariant, PTL DEF Spec, KeepsPromise, Promise!Spec
=============================================================================
