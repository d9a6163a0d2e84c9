---------------------------- MODULE SchedulerProofs ----------------------------
(***************************************************************************)
(* Proofs about Scheduler, for any processes, automations, limits and      *)
(* times.  The run rows are the lock between processes: LocksHold says     *)
(* that a live run's row is too young to be swept, because the deadline of *)
(* its child comes first.                                                  *)
(***************************************************************************)
EXTENDS Scheduler, FiniteSetTheorems, SequenceTheorems, TLAPS

-----------------------------------------------------------------------------
(* Types. *)

AutoType == auto \in [Automation -> {"absent", "on", "paused", "deleted"}]
NextType == next \in [Automation -> {"never", "later", "due"}]
RowType == row \in [Run -> (0..Stale) \cup {NoRow}]
QueueType == up \subseteq Proc /\ queue \in [Proc -> Seq(Automation)]
DrainType ==
  /\ drain \in [Proc -> {"idle", "looping", "closing", "deferring", "failing", "deferred"}]
  /\ again \subseteq Proc
StageType == stage \in [Run -> {"off", "starting", "spawned", "ended"}]
SpentType == spent \in [Run -> 0..Deadline]
BudgetType == budget \in [exits: 0..MaxExits, now: 0..MaxNow, saves: 0..MaxSaves,
                          deletes: 0..MaxDeletes, suspends: 0..MaxSuspends,
                          faults: 0..MaxFaults]

Types == /\ AutoType /\ NextType /\ RowType /\ QueueType
         /\ DrainType /\ StageType /\ SpentType /\ BudgetType

LEMMA TypeParts == TypeOK = Types
BY DEF TypeOK, Types, AutoType, NextType, RowType, QueueType, DrainType, StageType,
       SpentType, BudgetType

LEMMA TypeInit == Init => Types
<1> SUFFICES ASSUME Init PROVE Types
  OBVIOUS
<1>1. AutoType /\ NextType /\ RowType /\ DrainType /\ StageType
  BY DEF Init, AutoType, NextType, RowType, DrainType, StageType
<1>2. QueueType
  BY DEF Init, QueueType
<1>3. SpentType /\ BudgetType
  BY SchedulerAssumption DEF Init, SpentType, BudgetType
<1> QED
  BY <1>1, <1>2, <1>3 DEF Types

LEMMA TypeStep == Types /\ [Next]_vars => Types'
<1> SUFFICES ASSUME Types, [Next]_vars PROVE Types'
  OBVIOUS
<1> USE SchedulerAssumption DEF Types
<1>1. ASSUME NEW a \in Automation, Create(a) \/ Save(a) \/ Delete(a) \/ CronArrives(a)
      PROVE  Types'
  <2> USE <1>1 DEF Create, Save, Delete, CronArrives, procVars
  <2>1. AutoType' /\ NextType'
    BY DEF AutoType, NextType, NextOnSave
  <2>2. RowType'
    BY DEF RowType
  <2>3. QueueType' /\ DrainType' /\ StageType' /\ SpentType'
    BY DEF QueueType, DrainType, StageType, SpentType
  <2>4. BudgetType'
    BY DEF BudgetType
  <2> QED
    BY <2>1, <2>2, <2>3, <2>4
<1>2. ASSUME NEW a \in Automation, NEW p \in Proc, Tick(a) \/ RunNow(p, a)
      PROVE  Types'
  <2> USE <1>2 DEF Tick, RunNow, storeVars
  <2>1. AutoType' /\ NextType' /\ RowType' /\ StageType' /\ SpentType'
    BY DEF AutoType, NextType, RowType, StageType, SpentType
  <2>2. QueueType'
    <3>1. ASSUME NEW q \in Proc PROVE Append(queue[q], a) \in Seq(Automation)
      BY AppendProperties DEF QueueType
    <3> QED
      BY <3>1 DEF QueueType, Enqueue
  <2>3. DrainType'
    BY DEF DrainType, Drain
  <2>4. BudgetType'
    BY DEF BudgetType
  <2> QED
    BY <2>1, <2>2, <2>3, <2>4
<1>3. ASSUME NEW p \in Proc, LoopEnds(p) \/ DrainEnds(p) PROVE Types'
  <2> USE <1>3 DEF LoopEnds, DrainEnds, storeVars
  <2>1. AutoType' /\ NextType' /\ RowType' /\ QueueType'
    BY DEF AutoType, NextType, RowType, QueueType
  <2>2. StageType' /\ SpentType' /\ BudgetType'
    BY DEF StageType, SpentType, BudgetType
  <2>3. DrainType'
    BY DEF DrainType
  <2> QED
    BY <2>1, <2>2, <2>3
<1>4. ASSUME NEW p \in Proc, Skip(p) \/ Defer(p) \/ Start(p) PROVE Types'
  <2> USE <1>4 DEF Skip, Defer, Start, storeVars
  <2>1. AutoType' /\ NextType' /\ SpentType' /\ BudgetType'
    BY DEF AutoType, NextType, SpentType, BudgetType
  <2>2. QueueType'
    <3>1. ~NothingToDispatch(p) /\ queue \in [Proc -> Seq(Automation)]
      BY DEF QueueType
    <3>2. Tail(queue[p]) \in Seq(Automation)
      BY <3>1, HeadTailProperties DEF NothingToDispatch
    <3> QED
      BY <3>1, <3>2 DEF QueueType
  <2>3. DrainType' /\ StageType'
    BY DEF DrainType, StageType
  <2>4. Swept \in [Run -> (0..Stale) \cup {NoRow}]
    BY DEF RowType, Swept
  <2>5. RowType'
    <3>1. CASE Skip(p)
      BY <3>1 DEF RowType
    <3>2. CASE Defer(p)
      BY <3>2, <2>4 DEF RowType
    <3>3. CASE Start(p)
      <4>1. row' = [Swept EXCEPT ![<<p, Head(queue[p])>>] = 0]
        BY <3>3
      <4>2. 0 \in (0..Stale) \cup {NoRow}
        OBVIOUS
      <4> HIDE <1>4, SchedulerAssumption DEF Start, Skip, Defer, storeVars, Types
      <4> QED
        BY <4>1, <4>2, <2>4 DEF RowType
    <3> QED
      BY <3>1, <3>2, <3>3
  <2> QED
    BY <2>1, <2>2, <2>3, <2>5
<1>5. ASSUME NEW p \in Proc, Exit(p) \/ Boot(p) PROVE Types'
  <2> USE <1>5 DEF Exit, Boot, storeVars
  <2>0. <<>> \in Seq(Automation)
    BY EmptySeq
  <2>1. AutoType' /\ NextType'
    BY DEF AutoType, NextType
  <2>2. RowType'
    BY DEF RowType, Swept
  <2>3. QueueType'
    BY ZenonT(30), <2>0 DEF QueueType
  <2>4. DrainType'
    BY DEF DrainType
  <2>5. StageType' /\ SpentType'
    <3>1. CASE Exit(p)
      <4>1. /\ stage' = [r \in Run |-> IF r[1] = p THEN "off" ELSE stage[r]]
            /\ spent' = [r \in Run |-> IF r[1] = p THEN 0 ELSE spent[r]]
            /\ Deadline \in Nat
        BY <3>1, SchedulerAssumption
      <4> HIDE <1>5, SchedulerAssumption DEF Exit, Boot, storeVars, Types
      <4>2. stage \in [Run -> {"off", "starting", "spawned", "ended"}] /\ spent \in [Run -> 0..Deadline]
        BY DEF Types, StageType, SpentType
      <4> QED
        BY SMTT(30), <4>1, <4>2 DEF StageType, SpentType
    <3>2. CASE Boot(p)
      BY SMTT(30), <3>2 DEF StageType, SpentType
    <3> QED
      BY <1>5, <3>1, <3>2
  <2>6. BudgetType'
    <3>1. CASE Exit(p)
      <4>1. budget.exits > 0 /\ budget' = [budget EXCEPT !.exits = @ - 1]
        BY <3>1
      <4> HIDE <1>5
      <4> QED
        BY <4>1 DEF BudgetType
    <3>2. CASE Boot(p)
      BY <3>2 DEF BudgetType
    <3> QED
      BY <3>1, <3>2
  <2> QED
    BY <2>1, <2>2, <2>3, <2>4, <2>5, <2>6
<1>8. ASSUME NEW p \in Proc, ClaimThrows(p) PROVE Types'
  <2> USE <1>8 DEF ClaimThrows, storeVars
  <2>1. AutoType' /\ NextType' /\ RowType' /\ StageType' /\ SpentType'
    BY DEF AutoType, NextType, RowType, StageType, SpentType
  <2>2. QueueType'
    <3>1. ~NothingToDispatch(p) /\ queue \in [Proc -> Seq(Automation)]
      BY DEF QueueType
    <3>2. Tail(queue[p]) \in Seq(Automation)
      BY <3>1, HeadTailProperties DEF NothingToDispatch
    <3> QED
      BY <3>1, <3>2 DEF QueueType
  <2>3. DrainType'
    BY DEF DrainType
  <2>4. BudgetType'
    <3>1. budget.faults > 0 /\ budget' = [budget EXCEPT !.faults = @ - 1]
      BY DEF Throws
    <3> HIDE <1>8
    <3> QED
      BY <3>1 DEF BudgetType
  <2> QED
    BY <2>1, <2>2, <2>3, <2>4
<1>9. ASSUME NEW r \in Run, FinishThrows(r) \/ NoteThrows(r) PROVE Types'
  <2> USE <1>9 DEF FinishThrows, NoteThrows, Throws, storeVars, procVars
  <2>0. UNCHANGED <<auto, row, procVars>>
    OBVIOUS
  <2>1. AutoType' /\ RowType' /\ QueueType' /\ DrainType'
    BY <2>0 DEF AutoType, RowType, QueueType, DrainType
  <2>4. NextType'
    BY DEF NextType, Reschedule, Run
  <2>2. StageType' /\ SpentType'
    BY DEF StageType, SpentType
  <2>3. BudgetType'
    BY DEF BudgetType
  <2> QED
    BY <2>1, <2>2, <2>3, <2>4
<1>6. ASSUME NEW r \in Run, Spawn(r) \/ RunEnds(r) \/ Settle(r) PROVE Types'
  <2> USE <1>6 DEF Spawn, RunEnds, Settle, storeVars, procVars
  <2>1. AutoType' /\ NextType' /\ RowType'
    BY DEF AutoType, NextType, RowType, Reschedule, Run
  <2>2. QueueType' /\ DrainType'
    BY SMTT(30) DEF QueueType, DrainType, Drain, Run
  <2>3. StageType' /\ SpentType' /\ BudgetType'
    BY DEF StageType, SpentType, BudgetType
  <2> QED
    BY <2>1, <2>2, <2>3
<1>7. ASSUME Elapse \/ Suspend \/ UNCHANGED vars PROVE Types'
  <2> USE <1>7 DEF Elapse, Suspend, vars, storeVars, procVars
  <2>1. AutoType' /\ NextType' /\ QueueType' /\ DrainType' /\ StageType'
    BY DEF AutoType, NextType, QueueType, DrainType, StageType
  <2>2. RowType'
    BY DEF RowType
  <2>3. SpentType'
    BY DEF SpentType
  <2>4. BudgetType'
    BY DEF BudgetType
  <2> QED
    BY <2>1, <2>2, <2>3, <2>4
<1> QED
  BY <1>1, <1>2, <1>3, <1>4, <1>5, <1>6, <1>7, <1>8, <1>9 DEF Next, DrainStep, RunStep

\* Every reachable state is well typed: rows, queues, drains, runs and budgets.
THEOREM SchedulerTypeCorrect == Spec => []TypeOK
<1>1. Spec => []Types
  BY TypeInit, TypeStep, PTL DEF Spec
<1>2. Types => TypeOK
  BY TypeParts
<1> QED
  BY <1>1, <1>2, PTL

-----------------------------------------------------------------------------
(* The lock. *)

\* Nothing is deleted twice, and what was deleted was counted.
DeletesCounted == \A a \in Automation : auto[a] = "deleted" => budget.deletes < MaxDeletes

RunsKnown == \A r \in LiveRuns : auto[r[2]] # "absent"

\* The row of a run is no older than its listing and its child.
Locked(r) ==
  /\ row[r] # NoRow
  /\ stage[r] = "starting" => row[r] <= StartSlack
  /\ stage[r] = "spawned" => row[r] <= StartSlack + spent[r]

LocksHold ==
  budget.suspends = MaxSuspends => \A r \in LiveRuns : Stored(r[2]) => Locked(r)

SInv == Types /\ DeletesCounted /\ RunsKnown /\ LocksHold

\* A locked row is too young for any sweep.
LEMMA LockedIsFresh ==
  ASSUME Types, NEW r \in LiveRuns, Locked(r)
  PROVE  r \in Fresh
BY SchedulerAssumption
   DEF Types, RowType, SpentType, StageType, LiveRuns, Locked, Fresh, NoRow

LEMMA SInvInit == Init => SInv
<1> SUFFICES ASSUME Init PROVE SInv
  OBVIOUS
<1>1. LiveRuns = {}
  BY DEF Init, LiveRuns
<1>2. DeletesCounted /\ RunsKnown /\ LocksHold
  BY <1>1 DEF Init, DeletesCounted, RunsKnown, LocksHold
<1> QED
  BY <1>2, TypeInit DEF SInv

LEMMA KnownStep == SInv /\ [Next]_vars => (DeletesCounted /\ RunsKnown)'
<1> SUFFICES ASSUME SInv, [Next]_vars PROVE DeletesCounted' /\ RunsKnown'
  OBVIOUS
<1> USE SchedulerAssumption DEF SInv, Types, DeletesCounted, RunsKnown
<1>1. ASSUME NEW a \in Automation, Create(a) \/ Save(a) \/ CronArrives(a)
      PROVE  DeletesCounted' /\ RunsKnown'
  <2>1. LiveRuns' = LiveRuns /\ budget'.deletes = budget.deletes
    BY <1>1 DEF Create, Save, CronArrives, procVars, LiveRuns, BudgetType
  <2>2. \A b \in Automation : /\ auto'[b] = "deleted" => auto[b] = "deleted"
                              /\ auto'[b] = "absent" => auto[b] = "absent"
    BY <1>1 DEF Create, Save, CronArrives, AutoType
  <2>3. \A r \in LiveRuns : r[2] \in Automation
    BY DEF LiveRuns, Run
  <2> HIDE <1>1
  <2>4. DeletesCounted'
    BY <2>1, <2>2
  <2>5. RunsKnown'
    BY <2>1, <2>2, <2>3
  <2> QED
    BY <2>4, <2>5
<1>2. ASSUME NEW a \in Automation, Delete(a) PROVE DeletesCounted' /\ RunsKnown'
  <2>1. budget'.deletes < MaxDeletes
    BY <1>2 DEF Delete, BudgetType
  <2>2. RunsKnown'
    BY <1>2 DEF Delete, AutoType, LiveRuns, Run
  <2> QED
    BY <2>1, <2>2
<1>3. ASSUME NEW a \in Automation, NEW p \in Proc, Tick(a) \/ RunNow(p, a)
      PROVE  DeletesCounted' /\ RunsKnown'
  BY <1>3 DEF Tick, RunNow, storeVars, LiveRuns, BudgetType
<1>4. ASSUME NEW p \in Proc, DrainStep(p) \/ Boot(p) PROVE DeletesCounted' /\ RunsKnown'
  <2>1. auto' = auto /\ budget'.deletes = budget.deletes
    BY <1>4 DEF DrainStep, LoopEnds, Skip, Defer, Start, ClaimThrows, Throws, DrainEnds, Boot,
                storeVars, BudgetType
  <2>2. CASE stage' = stage
    BY <2>1, <2>2 DEF LiveRuns
  <2>3. CASE Start(p)
    BY <2>1, <2>3 DEF Start, LiveRuns, StageType, Run
  <2> QED
    BY <1>4, <2>2, <2>3 DEF DrainStep, LoopEnds, Skip, Defer, ClaimThrows, DrainEnds, Boot
<1>5. ASSUME NEW p \in Proc, Exit(p) PROVE DeletesCounted' /\ RunsKnown'
  BY <1>5 DEF Exit, storeVars, LiveRuns, BudgetType
<1>6. ASSUME NEW r \in Run, RunStep(r) PROVE DeletesCounted' /\ RunsKnown'
  <2>1. auto' = auto /\ budget'.deletes = budget.deletes
    BY <1>6 DEF RunStep, Spawn, RunEnds, Settle, FinishThrows, NoteThrows, Throws, storeVars,
                BudgetType
  <2>2. LiveRuns' \subseteq LiveRuns
    BY <1>6 DEF RunStep, Spawn, RunEnds, Settle, FinishThrows, NoteThrows, LiveRuns, StageType
  <2> QED
    BY <2>1, <2>2
<1>7. ASSUME Elapse \/ Suspend \/ UNCHANGED vars PROVE DeletesCounted' /\ RunsKnown'
  BY <1>7 DEF Elapse, Suspend, vars, storeVars, procVars, LiveRuns, BudgetType
<1> QED
  BY <1>1, <1>2, <1>3, <1>4, <1>5, <1>6, <1>7 DEF Next

LEMMA LocksStep == SInv /\ [Next]_vars => LocksHold'
<1> SUFFICES ASSUME SInv, [Next]_vars, budget'.suspends = MaxSuspends,
                    NEW r \in LiveRuns', Stored(r[2])'
             PROVE  Locked(r)'
  BY DEF LocksHold
<1>0. /\ r \in Run /\ r[2] \in Automation /\ r[1] \in Proc
      /\ stage'[r] \in {"starting", "spawned"}
  BY DEF LiveRuns, Run
<1>a. ASSUME budget.suspends = MaxSuspends, r \in LiveRuns, Stored(r[2]) PROVE Locked(r)
  BY <1>a DEF SInv, LocksHold
<1> USE SchedulerAssumption, <1>0, <1>a DEF Types, SInv
<1>1. ASSUME NEW a \in Automation, Create(a) \/ Save(a) \/ Delete(a) \/ CronArrives(a)
      PROVE  Locked(r)'
  <2>1. budget.suspends = MaxSuspends /\ stage' = stage /\ spent' = spent
    BY <1>1 DEF Create, Save, Delete, CronArrives, procVars, BudgetType
  <2>2. Stored(r[2]) /\ row'[r] = row[r]
    <3>1. r \in LiveRuns /\ auto[r[2]] # "absent"
      BY <2>1 DEF LiveRuns, RunsKnown
    <3> QED
      BY <1>1, <3>1 DEF Create, Save, Delete, CronArrives, Stored, AutoType, RowType
  <2> QED
    BY <2>1, <2>2 DEF LiveRuns, Locked
<1>2. ASSUME NEW a \in Automation, NEW p \in Proc, Tick(a) \/ RunNow(p, a)
      PROVE  Locked(r)'
  BY <1>2 DEF Tick, RunNow, storeVars, LiveRuns, BudgetType, Stored, Locked
<1>3. ASSUME NEW p \in Proc, LoopEnds(p) \/ Skip(p) \/ ClaimThrows(p) \/ DrainEnds(p)
      PROVE  Locked(r)'
  BY <1>3 DEF LoopEnds, Skip, ClaimThrows, Throws, DrainEnds, storeVars, LiveRuns, Stored, Locked,
              BudgetType
<1>4. ASSUME NEW p \in Proc, Defer(p) \/ Boot(p) PROVE Locked(r)'
  <2>1. /\ row' = Swept /\ stage' = stage /\ spent' = spent
        /\ budget' = budget /\ auto' = auto
    BY <1>4 DEF Defer, Boot
  <2>2. r \in LiveRuns /\ Locked(r)
    BY <2>1 DEF LiveRuns, Stored
  <2>3. row'[r] = row[r]
    BY <2>1, <2>2, LockedIsFresh DEF Swept
  <2> QED
    BY <2>1, <2>2, <2>3 DEF Locked
<1>5. ASSUME NEW p \in Proc, Start(p) PROVE Locked(r)'
  <2>1. /\ row' = [Swept EXCEPT ![<<p, Head(queue[p])>>] = 0]
        /\ stage' = [stage EXCEPT ![<<p, Head(queue[p])>>] = "starting"]
        /\ budget' = budget /\ auto' = auto /\ spent' = spent
    BY <1>5 DEF Start
  <2>2. CASE r = <<p, Head(queue[p])>>
    BY <2>1, <2>2 DEF Locked, Swept, StageType, NoRow
  <2>3. CASE r # <<p, Head(queue[p])>>
    <3>1. stage'[r] = stage[r] /\ row'[r] = Swept[r]
      BY <2>1, <2>3 DEF StageType, Swept
    <3>2. r \in LiveRuns /\ Locked(r)
      BY <2>1, <3>1 DEF LiveRuns, Stored
    <3>3. Swept[r] = row[r]
      BY <3>2, LockedIsFresh DEF Swept
    <3> QED
      BY <2>1, <3>1, <3>2, <3>3 DEF Locked
  <2> QED
    BY <2>2, <2>3
<1>6. ASSUME NEW p \in Proc, Exit(p) PROVE Locked(r)'
  BY <1>6 DEF Exit, storeVars, LiveRuns, Stored, Locked, BudgetType
<1>7. ASSUME NEW q \in Run, RunStep(q) PROVE Locked(r)'
  <2>1. auto' = auto /\ budget'.suspends = budget.suspends
    BY <1>7 DEF RunStep, Spawn, RunEnds, Settle, FinishThrows, NoteThrows, Throws, storeVars,
                BudgetType
  <2>2. /\ r \in LiveRuns /\ row'[r] = row[r] /\ spent'[r] = spent[r]
        /\ stage'[r] = stage[r] \/ (stage[r] = "starting" /\ stage'[r] = "spawned")
    BY <1>7 DEF RunStep, Spawn, RunEnds, Settle, FinishThrows, NoteThrows, storeVars, LiveRuns,
                StageType, RowType, SpentType
  <2>3. Locked(r)
    BY <2>1, <2>2 DEF Stored
  <2>4. spent[r] \in Nat /\ row[r] \in Int
    BY DEF SpentType, RowType, NoRow
  <2>5. StartSlack \in Nat
    OBVIOUS
  <2> HIDE <1>7
  <2> QED
    BY <2>2, <2>3, <2>4, <2>5 DEF Locked
<1>8. ASSUME Elapse PROVE Locked(r)'
  <2>1. auto' = auto /\ budget' = budget /\ stage' = stage
    BY <1>8 DEF Elapse
  <2>2. r \in LiveRuns /\ Locked(r)
    BY <2>1 DEF LiveRuns, Stored
  <2>3. r \in Fresh
    BY <2>2, LockedIsFresh
  <2>4. row'[r] = row[r] + 1
    BY <1>8, <2>3 DEF Elapse, Fresh
  <2>5. CASE stage[r] = "starting"
    BY <1>8, <2>1, <2>4, <2>3, <2>5 DEF Elapse, Locked, Fresh, NoRow
  <2>6. CASE stage[r] = "spawned"
    <3>1. spent'[r] = spent[r] + 1
      BY <1>8, <2>6 DEF Elapse
    <3> QED
      BY <2>1, <2>2, <2>3, <2>4, <2>6, <3>1 DEF Locked, Fresh, NoRow, SpentType
  <2> QED
    BY <2>1, <2>5, <2>6
<1>9. CASE Suspend
  BY <1>9 DEF Suspend, BudgetType
<1>10. CASE UNCHANGED vars
  BY <1>10 DEF vars, storeVars, procVars, LiveRuns, Stored, Locked
<1> QED
  BY <1>1, <1>2, <1>3, <1>4, <1>5, <1>6, <1>7, <1>8, <1>9, <1>10 DEF Next, DrainStep

LEMMA SchedulerInvariant == Spec => []SInv
<1>1. SInv /\ [Next]_vars => SInv'
  BY TypeStep, KnownStep, LocksStep DEF SInv
<1> QED
  BY <1>1, SInvInit, PTL DEF Spec

-----------------------------------------------------------------------------
(* One run of an automation. *)

LEMMA BudgetFalls ==
  ASSUME Types, [Next]_vars
  PROVE  /\ budget'.suspends <= budget.suspends /\ budget'.deletes <= budget.deletes
         /\ budget'.faults <= budget.faults
<1> USE SchedulerAssumption DEF Types, BudgetType
<1>1. ASSUME NEW a \in Automation, Save(a) \/ Delete(a)
      PROVE  /\ budget'.suspends <= budget.suspends /\ budget'.deletes <= budget.deletes
             /\ budget'.faults <= budget.faults
  BY <1>1 DEF Save, Delete
<1>2. ASSUME NEW a \in Automation, NEW p \in Proc, RunNow(p, a)
      PROVE  /\ budget'.suspends <= budget.suspends /\ budget'.deletes <= budget.deletes
             /\ budget'.faults <= budget.faults
  BY <1>2 DEF RunNow
<1>3. ASSUME NEW p \in Proc, Exit(p)
      PROVE  /\ budget'.suspends <= budget.suspends /\ budget'.deletes <= budget.deletes
             /\ budget'.faults <= budget.faults
  BY SMTT(30), <1>3 DEF Exit
<1>4. CASE Suspend
  BY <1>4 DEF Suspend
<1>6. CASE Throws
  BY <1>6 DEF Throws
<1>5. CASE budget' = budget
  BY <1>5
<1> HIDE DEF Types, BudgetType
<1> QED
  BY <1>1, <1>2, <1>3, <1>4, <1>5, <1>6
     DEF Next, Create, CronArrives, Tick, DrainStep, LoopEnds, Skip, Defer, Start, ClaimThrows,
         DrainEnds, Boot, RunStep, Spawn, RunEnds, Settle, FinishThrows, NoteThrows, Elapse, vars

\* Only a start makes a run live.
LEMMA OnlyStartAdds ==
  ASSUME Types, [Next]_vars, \A p \in Proc : ~Start(p)
  PROVE  LiveRuns' \subseteq LiveRuns
BY DEF Types, Next, Create, Save, Delete, CronArrives, Tick, RunNow, DrainStep, LoopEnds, Skip,
       Defer, ClaimThrows, DrainEnds, Exit, Boot, RunStep, Spawn, RunEnds, Settle, FinishThrows,
       NoteThrows, Elapse,
       Suspend, vars, storeVars, procVars, StageType, LiveRuns

LEMMA OneRunStep == SInv /\ OneRunUntilSleep /\ [Next]_vars => OneRunUntilSleep'
<1> SUFFICES ASSUME SInv, OneRunUntilSleep, [Next]_vars, budget'.suspends = MaxSuspends,
                    NEW r \in LiveRuns', NEW q \in LiveRuns', r[2] = q[2]
             PROVE  r = q
  BY DEF OneRunUntilSleep, OneRunPerAutomation
<1> USE SchedulerAssumption DEF SInv, Types
<1>1. budget.suspends = MaxSuspends
  BY BudgetFalls DEF BudgetType
<1>2. \A x, y \in LiveRuns : x[2] = y[2] => x = y
  BY <1>1 DEF OneRunUntilSleep, OneRunPerAutomation
<1>3. CASE LiveRuns' \subseteq LiveRuns
  BY <1>2, <1>3
<1>4. ASSUME NEW p \in Proc, Start(p) PROVE r = q
  <2>1. PICK a : a = Head(queue[p])
    OBVIOUS
  <2>2. stage' = [stage EXCEPT ![<<p, a>>] = "starting"] /\ auto[a] = "on" /\ ~Refused(a)
    BY <1>4, <2>1 DEF Start
  <2>3. LiveRuns' \subseteq LiveRuns \cup {<<p, a>>}
    BY <2>2 DEF LiveRuns, StageType
  <2>4. \A x \in LiveRuns : x[2] # a
    <3> SUFFICES ASSUME NEW x \in LiveRuns, x[2] = a PROVE FALSE
      OBVIOUS
    <3>1. Locked(x)
      BY <1>1, <2>2 DEF LocksHold, Stored
    <3>2. x \in Fresh
      BY <3>1, LockedIsFresh
    <3> QED
      BY <3>2, <2>2 DEF Refused
  <2> QED
    BY <2>3, <2>4, <1>2
<1>5. (\A p \in Proc : ~Start(p)) => LiveRuns' \subseteq LiveRuns
  BY OnlyStartAdds
<1> QED
  BY <1>3, <1>4, <1>5

\* Never two live runs of one automation, over all processes and whatever is
\* edited, deleted, quit or started again, until the machine has slept.
THEOREM OneRunEach == Spec => []OneRunUntilSleep
<1>1. Init => OneRunUntilSleep
  BY DEF Init, OneRunUntilSleep, OneRunPerAutomation, LiveRuns
<1> QED
  BY <1>1, OneRunStep, SchedulerInvariant, PTL DEF Spec

-----------------------------------------------------------------------------
(* The cap. *)

Undisturbed == budget.suspends = MaxSuspends /\ budget.deletes = MaxDeletes

LEMMA LiveAreFresh ==
  ASSUME SInv, Undisturbed
  PROVE  LiveRuns \subseteq Fresh
<1> SUFFICES ASSUME NEW r \in LiveRuns PROVE r \in Fresh
  OBVIOUS
<1>1. r[2] \in Automation
  BY DEF LiveRuns, Run
<1>2. auto[r[2]] \in {"on", "paused"}
  BY <1>1, SchedulerAssumption
     DEF SInv, Types, AutoType, DeletesCounted, RunsKnown, Undisturbed, BudgetType
<1>3. Locked(r)
  BY <1>2 DEF SInv, LocksHold, Undisturbed, Stored
<1> QED
  BY <1>3, LockedIsFresh DEF SInv

LEMMA CapStep ==
  SInv /\ (Undisturbed => AtMostLimit) /\ [Next]_vars => (Undisturbed => AtMostLimit)'
<1> SUFFICES ASSUME SInv, Undisturbed => AtMostLimit, [Next]_vars, Undisturbed'
             PROVE  AtMostLimit'
  OBVIOUS
<1>1. Undisturbed
  BY BudgetFalls, SchedulerAssumption DEF SInv, Types, Undisturbed, BudgetType
<1>2. IsFiniteSet(Run) /\ IsFiniteSet(LiveRuns) /\ IsFiniteSet(Fresh)
  <2>1. IsFiniteSet(Run)
    BY FS_Product, SchedulerAssumption DEF Run
  <2> QED
    BY <2>1, FS_Subset DEF LiveRuns, Fresh
<1>3. CASE LiveRuns' \subseteq LiveRuns
  <2>1. Cardinality(LiveRuns') <= Cardinality(LiveRuns)
    BY <1>2, <1>3, FS_Subset
  <2>2. Cardinality(LiveRuns') \in Nat /\ Cardinality(LiveRuns) \in Nat
    BY <1>2, <1>3, FS_Subset, FS_CardinalityType
  <2> QED
    BY <1>1, <2>1, <2>2, SchedulerAssumption DEF AtMostLimit
<1>4. ASSUME NEW p \in Proc, Start(p) PROVE AtMostLimit'
  <2>1. PICK x : x = <<p, Head(queue[p])>>
    OBVIOUS
  <2>2. stage' = [stage EXCEPT ![x] = "starting"]
    BY <1>4, <2>1 DEF Start
  <2>3. ~(Cardinality(Fresh) >= Limit)
    BY <1>4 DEF Start, Refused
  <2>4. LiveRuns' \subseteq LiveRuns \cup {x}
    BY <2>2 DEF SInv, Types, StageType, LiveRuns
  <2>5. Cardinality(LiveRuns) <= Cardinality(Fresh)
    BY <1>1, <1>2, LiveAreFresh, FS_Subset
  <2>6. /\ IsFiniteSet(LiveRuns \cup {x})
        /\ Cardinality(LiveRuns \cup {x}) <= Cardinality(LiveRuns) + 1
    <3>1. Cardinality(LiveRuns) \in Nat
      BY <1>2, FS_CardinalityType
    <3>2. /\ IsFiniteSet(LiveRuns \cup {x})
          /\ Cardinality(LiveRuns \cup {x}) =
               IF x \in LiveRuns THEN Cardinality(LiveRuns) ELSE Cardinality(LiveRuns) + 1
      BY <1>2, FS_AddElement
    <3> QED
      BY <3>1, <3>2
  <2>7. IsFiniteSet(LiveRuns') /\ Cardinality(LiveRuns') <= Cardinality(LiveRuns \cup {x})
    BY <2>4, <2>6, FS_Subset
  <2>8. /\ Cardinality(LiveRuns') \in Nat /\ Cardinality(LiveRuns) \in Nat
        /\ Cardinality(LiveRuns \cup {x}) \in Nat /\ Cardinality(Fresh) \in Nat
    BY <1>2, <2>6, <2>7, FS_CardinalityType
  <2> QED
    BY <2>3, <2>5, <2>6, <2>7, <2>8, SchedulerAssumption DEF AtMostLimit
<1> QED
  BY <1>3, <1>4, OnlyStartAdds DEF SInv

\* The runs alive over all processes never exceed the cap, whatever quits, starts
\* again and is edited, as long as no automation was deleted and the machine has
\* not slept.
THEOREM CapHolds == Spec => [](Undisturbed => AtMostLimit)
<1>1. Init => AtMostLimit
  <2> SUFFICES ASSUME Init PROVE AtMostLimit
    OBVIOUS
  <2>1. LiveRuns = {}
    BY DEF Init, LiveRuns
  <2> QED
    BY <2>1, FS_EmptySet, SchedulerAssumption DEF AtMostLimit
<1> QED
  BY <1>1, CapStep, SchedulerInvariant, PTL DEF Spec

-----------------------------------------------------------------------------
(* The schedule. *)

LEMMA PausedStep ==
  ASSUME Types, [Next]_vars, NEW a \in Automation, auto'[a] = "paused", next'[a] # "never"
  PROVE  auto[a] = "absent" \/ (auto[a] = "paused" /\ next[a] # "never")
<1> USE SchedulerAssumption DEF Types, AutoType, NextType
<1> DEFINE Goal == auto[a] = "absent" \/ (auto[a] = "paused" /\ next[a] # "never")
<1>1. ASSUME NEW b \in Automation, Create(b) \/ Save(b) \/ Delete(b) \/ CronArrives(b)
      PROVE  Goal
  BY <1>1 DEF Create, Save, Delete, CronArrives, NextOnSave
<1>2. ASSUME NEW r \in Run, Settle(r) \/ FinishThrows(r) PROVE Goal
  BY <1>2 DEF Settle, FinishThrows, Run, Reschedule
<1>3. ASSUME UNCHANGED <<auto, next>> PROVE Goal
  BY <1>3
<1>4. ASSUME NEW b \in Automation, NEW p \in Proc, Tick(b) \/ RunNow(p, b) PROVE Goal
  BY <1>3, <1>4 DEF Tick, RunNow, storeVars
<1>5. ASSUME NEW p \in Proc, DrainStep(p) \/ Exit(p) \/ Boot(p) PROVE Goal
  BY <1>3, <1>5 DEF DrainStep, LoopEnds, Skip, Defer, Start, ClaimThrows, DrainEnds, Exit, Boot,
                    storeVars
<1>6. ASSUME NEW r \in Run, Spawn(r) \/ RunEnds(r) \/ NoteThrows(r) PROVE Goal
  BY <1>3, <1>6 DEF Spawn, RunEnds, NoteThrows, storeVars
<1>7. ASSUME Elapse \/ Suspend \/ UNCHANGED vars PROVE Goal
  BY <1>3, <1>7 DEF Elapse, Suspend, vars, storeVars
<1> QED
  BY <1>1, <1>2, <1>4, <1>5, <1>6, <1>7 DEF Next, RunStep

\* A pause takes the next run and nothing gives it back: neither the end of a run
\* that was going on, however late, nor any save (scheduler.ts:267-286,
\* store.ts:358-365).  Only an automation created as paused has one (routes.ts:47).
THEOREM PauseHolds == Spec => PauseUnschedules
<1>1. SInv /\ [Next]_vars =>
        [\A a \in Automation :
           auto'[a] = "paused" /\ next'[a] # "never"
             => auto[a] = "absent" \/ (auto[a] = "paused" /\ next[a] # "never")]_vars
  BY PausedStep DEF SInv
<1> QED
  BY <1>1, SchedulerInvariant, PTL DEF Spec, PauseUnschedules

-----------------------------------------------------------------------------
(* The queue. *)

NoEnded(p) == \A a \in Automation : stage[<<p, a>>] # "ended"

\* A drain that has had its last look, and onto which nobody chained a pass, has
\* nothing it could dispatch.
ClosingIsDone ==
  budget.faults = MaxFaults =>
    \A p \in Proc : drain[p] = "closing" /\ p \notin again /\ NoEnded(p) => NothingToDispatch(p)

LEMMA WakeupStep ==
  SInv /\ ClosingIsDone /\ NoLostWakeup /\ [Next]_vars => (ClosingIsDone /\ NoLostWakeup)'
<1> SUFFICES ASSUME SInv, ClosingIsDone, NoLostWakeup, [Next]_vars, NEW p \in Proc,
                    budget'.faults = MaxFaults,
                    \/ drain'[p] = "closing" /\ p \notin again'
                    \/ drain'[p] = "idle",
                    NoEnded(p)'
             PROVE  NothingToDispatch(p)'
  BY DEF ClosingIsDone, NoLostWakeup, NoEnded
<1>0. budget.faults = MaxFaults /\ ~Throws
  <2>1. budget.faults \in 0..MaxFaults
    BY DEF SInv, Types, BudgetType
  <2>2. budget.faults = MaxFaults
    BY <2>1, BudgetFalls, SchedulerAssumption DEF SInv
  <2> QED
    BY <2>2, SchedulerAssumption DEF Throws, SInv, Types, BudgetType
<1>1. ASSUME \/ drain[p] = "closing" /\ p \notin again
             \/ drain[p] = "idle",
             NoEnded(p)
      PROVE  NothingToDispatch(p)
  BY <1>0, <1>1 DEF ClosingIsDone, NoLostWakeup, NoEnded
<1>2. ASSUME queue'[p] = queue[p], {r \in LiveRuns : r[1] = p} = {r \in LiveRuns' : r[1] = p},
             NothingToDispatch(p)
      PROVE  NothingToDispatch(p)'
  BY <1>2 DEF NothingToDispatch, Full
<1> USE DEF SInv, Types
<1>3. ASSUME NEW a \in Automation, NEW q \in Proc, Tick(a) \/ RunNow(q, a)
      PROVE  NothingToDispatch(p)'
  <2>1. PICK x \in Proc : /\ Enqueue(x, a) \/ UNCHANGED queue
                         /\ Drain(x)
                         /\ stage' = stage
    BY <1>3, SchedulerAssumption DEF Tick, RunNow
  <2>2. x # p /\ drain'[p] = drain[p] /\ (p \in again' <=> p \in again)
    BY <2>1 DEF Drain, DrainType, Resting
  <2>3. queue'[p] = queue[p] /\ LiveRuns' = LiveRuns
    BY <2>1, <2>2 DEF Enqueue, QueueType, LiveRuns
  <2> QED
    BY <2>1, <2>2, <2>3, <1>1, <1>2 DEF NoEnded
<1>4. ASSUME NEW q \in Proc, LoopEnds(q) \/ Skip(q) \/ Defer(q) PROVE NothingToDispatch(p)'
  <2>1. LiveRuns' = LiveRuns /\ NoEnded(p)
    BY <1>4 DEF LoopEnds, Skip, Defer, LiveRuns, NoEnded
  <2>2. CASE q = p
    <3>1. LoopEnds(p)
      BY <1>4, <2>2 DEF Skip, Defer, DrainType
    <3> QED
      BY <3>1, <2>1, <1>2 DEF LoopEnds
  <2>3. CASE q # p
    <3>1. /\ queue'[p] = queue[p] /\ drain'[p] = drain[p]
          /\ (p \in again' <=> p \in again)
      BY <1>4, <2>3 DEF LoopEnds, Skip, Defer, DrainType, QueueType
    <3> QED
      BY <3>1, <2>1, <1>1, <1>2
  <2> QED
    BY <2>2, <2>3
<1>5. ASSUME NEW q \in Proc, Start(q) PROVE NothingToDispatch(p)'
  <2>1. q # p /\ drain' = drain /\ again' = again
    BY <1>5 DEF Start
  <2>2. queue'[p] = queue[p] /\ \A a \in Automation : stage'[<<p, a>>] = stage[<<p, a>>]
    BY <1>5, <2>1 DEF Start, QueueType, StageType, Run
  <2>3. {r \in LiveRuns : r[1] = p} = {r \in LiveRuns' : r[1] = p}
    BY <1>5, <2>1 DEF Start, StageType, LiveRuns, Run
  <2> QED
    BY <2>1, <2>2, <2>3, <1>1, <1>2 DEF NoEnded
<1>6. ASSUME NEW q \in Proc, DrainEnds(q) PROVE NothingToDispatch(p)'
  <2>1. LiveRuns' = LiveRuns /\ queue' = queue /\ NoEnded(p)
    BY <1>6 DEF DrainEnds, LiveRuns, NoEnded
  <2>2. CASE q = p
    BY <1>6, <2>1, <2>2, <1>1, <1>2 DEF DrainEnds, DrainType
  <2>3. CASE q # p
    BY <1>6, <2>1, <2>3, <1>1, <1>2 DEF DrainEnds, DrainType
  <2> QED
    BY <2>2, <2>3
<1>7. ASSUME NEW q \in Proc, Exit(q) PROVE NothingToDispatch(p)'
  <2>1. CASE q = p
    BY <1>7, <2>1 DEF Exit, QueueType, NothingToDispatch
  <2>2. CASE q # p
    <3>1. /\ queue'[p] = queue[p] /\ drain'[p] = drain[p]
          /\ (p \in again' <=> p \in again)
          /\ \A a \in Automation : stage'[<<p, a>>] = stage[<<p, a>>]
      BY <1>7, <2>2 DEF Exit, QueueType, DrainType, Run
    <3>2. {r \in LiveRuns : r[1] = p} = {r \in LiveRuns' : r[1] = p}
      BY <1>7, <2>2 DEF Exit, LiveRuns
    <3> QED
      BY <3>1, <3>2, <1>1, <1>2 DEF NoEnded
  <2> QED
    BY <2>1, <2>2
<1>8. ASSUME NEW r \in Run, RunStep(r) PROVE NothingToDispatch(p)'
  <2>1. CASE Spawn(r)
    <3>1. LiveRuns' = LiveRuns /\ NoEnded(p)
      BY <2>1 DEF Spawn, LiveRuns, StageType, NoEnded, Run
    <3> QED
      BY <2>1, <3>1, <1>1, <1>2 DEF Spawn, procVars
  <2>2. CASE RunEnds(r)
    <3>1. r[1] # p
      BY <2>2 DEF RunEnds, NoEnded, StageType, LiveRuns, Run
    <3>2. NoEnded(p) /\ {x \in LiveRuns : x[1] = p} = {x \in LiveRuns' : x[1] = p}
      BY <2>2, <3>1 DEF RunEnds, LiveRuns, StageType, NoEnded, Run
    <3> QED
      BY <2>2, <3>2, <1>1, <1>2 DEF RunEnds, procVars
  <2>3. CASE Settle(r)
    <3>1. r[1] \in Proc /\ Drain(r[1]) /\ queue' = queue
      BY <2>3 DEF Settle, Run
    <3>2. r[1] # p /\ drain'[p] = drain[p] /\ (p \in again' <=> p \in again)
      BY <3>1 DEF Drain, DrainType, Resting
    <3>3. NoEnded(p) /\ LiveRuns' = LiveRuns
      BY <2>3, <3>2 DEF Settle, LiveRuns, StageType, NoEnded, Run
    <3> QED
      BY <3>1, <3>2, <3>3, <1>1, <1>2
  <2> QED
    BY <1>0, <1>8, <2>1, <2>2, <2>3 DEF RunStep, FinishThrows, NoteThrows
<1>9. CASE UNCHANGED <<queue, drain, again, stage>>
  BY <1>9, <1>1, <1>2 DEF LiveRuns, NoEnded
<1> QED
  BY <1>0, <1>3, <1>4, <1>5, <1>6, <1>7, <1>8, <1>9
     DEF Next, Create, Save, Delete, CronArrives, DrainStep, ClaimThrows, Boot, Elapse, Suspend,
         vars, procVars

\* No wakeup is lost: while no write fails, a drain at rest that no claim refused has
\* nothing left to dispatch, whatever was queued and ended while it was closing.
THEOREM NoWakeupLost == Spec => []NoLostWakeup
<1>1. Init => ClosingIsDone /\ NoLostWakeup
  BY DEF Init, ClosingIsDone, NoLostWakeup, NothingToDispatch
<1> QED
  BY <1>1, WakeupStep, SchedulerInvariant, PTL DEF Spec

=============================================================================
