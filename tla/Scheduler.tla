----------------------------- MODULE Scheduler -----------------------------
(***************************************************************************)
(* Automation runs: the scheduler's queue                                  *)
(* (src/src/automation/scheduler.ts), the automations and run rows it      *)
(* keeps in SQLite (src/src/automation/store.ts) and the launcher's        *)
(* one-shot runs (src/src/agent/launcher.ts, runOnce).                     *)
(*                                                                         *)
(* Two kinds of process share one database file: `boxaide serve`, the only *)
(* one whose 30-second timer runs (Server), and stdio `boxaide mcp`        *)
(* processes, whose scheduler moves only when a tool call or a finishing   *)
(* run moves it.  Each has a queue and child processes of its own; the     *)
(* 'running' rows are the lock between them.                               *)
(*                                                                         *)
(* Every SQLite transaction is one step.  A drain is a promise that other  *)
(* callers may join: "looping" while it looks at the queue, "closing"      *)
(* after its last look and before it clears itself ("deferring" when the   *)
(* last look was a refused claim, "failing" when it threw, and "deferred"  *)
(* instead of "idle" then).                                                *)
(*                                                                         *)
(* A run is named by its process and its automation: enqueue takes nothing *)
(* that waits or runs in its process.  A row that is final, and with which *)
(* outcome, is read by nobody here, so only the 'running' rows are kept.   *)
(* Time is the age of what is running.                                     *)
(***************************************************************************)
EXTENDS Integers, Sequences, FiniteSets

CONSTANTS
  Proc,            \* processes with a scheduler over the database
  Server,          \* the one whose timer runs
  Automation,
  Limit,           \* BOXAIDE_AGENT_CONCURRENCY
  StartSlack,      \* longest time from the claim of a row to the spawn
  Deadline,        \* ONESHOT_TIMEOUT_MS, counted from the spawn
  Stale,           \* RUN_STALE_MS, counted from the claim
  NewStates,       \* what an automation may be created as
  MaxExits,        \* bound: processes that quit or crash
  MaxNow,          \* bound: runs asked for by a tool call or a button
  MaxSaves,        \* bound: automations edited
  MaxDeletes,      \* bound: automations deleted
  MaxSuspends,     \* bound: times the machine sleeps
  MaxFaults        \* bound: database calls that throw

Run == Proc \X Automation

ASSUME SchedulerAssumption ==
  /\ Server \in Proc
  /\ IsFiniteSet(Proc) /\ IsFiniteSet(Automation)
  /\ Limit \in Nat \ {0}
  /\ StartSlack \in Nat /\ Deadline \in Nat /\ Stale \in Nat
  /\ StartSlack + Deadline < Stale
  /\ NewStates \subseteq {"on", "paused"}
  /\ MaxExits \in Nat /\ MaxNow \in Nat /\ MaxSaves \in Nat
  /\ MaxDeletes \in Nat /\ MaxSuspends \in Nat /\ MaxFaults \in Nat

NoRow == -1        \* the run has no row, or a final one

VARIABLES
  auto,            \* the automation: "absent", "on", "paused", "deleted"
  next,            \* next_run_at: "never", "later" or "due"
  row,             \* the 'running' row of each run: time since its started_at
  up,              \* the processes alive
  queue,           \* the automations waiting in each process
  drain,           \* the drain of each process
  again,           \* processes where one more pass is chained onto the drain
  stage,           \* where the execution of a run stands
  spent,           \* time since its child was spawned
  budget           \* what is left of each bound

storeVars == <<auto, next, row>>
procVars == <<up, queue, drain, again>>
vars == <<storeVars, procVars, stage, spent, budget>>

TypeOK ==
  /\ auto \in [Automation -> {"absent", "on", "paused", "deleted"}]
  /\ next \in [Automation -> {"never", "later", "due"}]
  /\ row \in [Run -> (0..Stale) \cup {NoRow}]
  /\ up \subseteq Proc
  /\ queue \in [Proc -> Seq(Automation)]
  /\ drain \in [Proc -> {"idle", "looping", "closing", "deferring", "failing", "deferred"}]
  /\ again \subseteq Proc
  /\ stage \in [Run -> {"off", "starting", "spawned", "ended"}]
  /\ spent \in [Run -> 0..Deadline]
  /\ budget \in [exits: 0..MaxExits, now: 0..MaxNow, saves: 0..MaxSaves,
                 deletes: 0..MaxDeletes, suspends: 0..MaxSuspends, faults: 0..MaxFaults]

Init ==
  /\ auto = [a \in Automation |-> "absent"]
  /\ next = [a \in Automation |-> "never"]
  /\ row = [r \in Run |-> NoRow]
  /\ up = Proc
  /\ queue = [p \in Proc |-> <<>>]
  /\ drain = [p \in Proc |-> "idle"]
  /\ again = {}
  /\ stage = [r \in Run |-> "off"]
  /\ spent = [r \in Run |-> 0]
  /\ budget = [exits |-> MaxExits, now |-> MaxNow, saves |-> MaxSaves,
               deletes |-> MaxDeletes, suspends |-> MaxSuspends, faults |-> MaxFaults]

-----------------------------------------------------------------------------
(* The automations table. *)

Stored(a) == auto[a] \in {"on", "paused"}

Create(a) ==
  /\ auto[a] = "absent"
  /\ \E s \in NewStates : auto' = [auto EXCEPT ![a] = s]
  /\ next' = [next EXCEPT ![a] = "later"]
  /\ UNCHANGED <<row, procVars, stage, spent, budget>>

NextOnSave(a, s) == IF s = "on" THEN "later" ELSE "never"

\* Any save recomputes the schedule, so a fire that was due is taken back.
Save(a) ==
  /\ Stored(a)
  /\ budget.saves > 0
  /\ budget' = [budget EXCEPT !.saves = @ - 1]
  /\ \E s \in {"on", "paused"} :
       /\ auto' = [auto EXCEPT ![a] = s]
       /\ next' = [next EXCEPT ![a] = NextOnSave(a, s)]
  /\ UNCHANGED <<row, procVars, stage, spent>>

\* The run rows go with it, running or not.
Delete(a) ==
  /\ Stored(a)
  /\ budget.deletes > 0
  /\ budget' = [budget EXCEPT !.deletes = @ - 1]
  /\ auto' = [auto EXCEPT ![a] = "deleted"]
  /\ next' = [next EXCEPT ![a] = "never"]
  /\ row' = [r \in Run |-> IF r[2] = a THEN NoRow ELSE row[r]]
  /\ UNCHANGED <<procVars, stage, spent>>

CronArrives(a) ==
  /\ next[a] = "later"
  /\ next' = [next EXCEPT ![a] = "due"]
  /\ UNCHANGED <<auto, row, procVars, stage, spent, budget>>

-----------------------------------------------------------------------------
(* The queue. *)

Waiting(p, a) == \E i \in DOMAIN queue[p] : queue[p][i] = a

Active(p, a) == stage[<<p, a>>] # "off"

Enqueue(p, a) ==
  queue' = IF Active(p, a) \/ Waiting(p, a)
           THEN queue
           ELSE [queue EXCEPT ![p] = Append(@, a)]

Resting(p) == drain[p] \in {"idle", "deferred"}

\* Mutant of Drain: a caller that finds a drain under way only waits for it.
DrainJoined(p) ==
  /\ drain' = [drain EXCEPT ![p] = IF Resting(p) THEN "looping" ELSE @]
  /\ UNCHANGED again

\* drain(): start one, or chain one more pass onto the one under way.
Drain(p) ==
  IF Resting(p)
  THEN drain' = [drain EXCEPT ![p] = "looping"] /\ UNCHANGED again
  ELSE again' = again \cup {p} /\ UNCHANGED drain

Due(a) == auto[a] = "on" /\ next[a] = "due"

\* tick(), as far as one automation goes; due or not, it drains.
Tick(a) ==
  /\ Server \in up
  /\ IF Due(a) THEN Enqueue(Server, a) ELSE UNCHANGED queue
  /\ Drain(Server)
  /\ UNCHANGED <<storeVars, up, stage, spent, budget>>

RunNow(p, a) ==
  /\ p \in up
  /\ Stored(a)
  /\ budget.now > 0
  /\ budget' = [budget EXCEPT !.now = @ - 1]
  /\ Enqueue(p, a)
  /\ Drain(p)
  /\ UNCHANGED <<storeVars, up, stage, spent>>

LiveRuns == {r \in Run : stage[r] \in {"starting", "spawned"}}

\* No slot of p's launcher is free: a run holds one from its claim on.
Full(p) == Cardinality({r \in LiveRuns : r[1] = p}) >= Limit

-----------------------------------------------------------------------------
(* The run rows: the lock between the processes. *)

\* Mutant of Fresh: no row is ever swept.
FreshAll == {r \in Run : row[r] # NoRow}

\* What a sweep leaves 'running': the rows too young to be a dead process's.
Fresh == {r \in Run : row[r] \in 0..(Stale - 1)}

Swept == [r \in Run |-> IF r \in Fresh THEN row[r] ELSE NoRow]

\* Mutant of Refused: the cap alone decides.
RefusedAtCap(a) == Cardinality(Fresh) >= Limit

\* Mutant of Refused: one run too many.
RefusedPastCap(a) == a \in {r[2] : r \in Fresh} \/ Cardinality(Fresh) > Limit

Refused(a) == a \in {r[2] : r \in Fresh} \/ Cardinality(Fresh) >= Limit

-----------------------------------------------------------------------------
(* One drain: drainLoop and startOne. *)

NothingToDispatch(p) == queue[p] = <<>> \/ Full(p)

LoopEnds(p) ==
  /\ drain[p] = "looping"
  /\ NothingToDispatch(p)
  /\ drain' = [drain EXCEPT ![p] = "closing"]
  /\ UNCHANGED <<storeVars, up, queue, again, stage, spent, budget>>

\* Deleted or paused while it waited: dropped, and no row.
Skip(p) ==
  /\ drain[p] = "looping"
  /\ ~ NothingToDispatch(p)
  /\ auto[Head(queue[p])] # "on"
  /\ queue' = [queue EXCEPT ![p] = Tail(@)]
  /\ UNCHANGED <<storeVars, up, drain, again, stage, spent, budget>>

\* The claim is refused: back to the head, and this pass is over.
Defer(p) ==
  /\ drain[p] = "looping"
  /\ ~ NothingToDispatch(p)
  /\ auto[Head(queue[p])] = "on"
  /\ Refused(Head(queue[p]))
  /\ row' = Swept
  /\ drain' = [drain EXCEPT ![p] = "deferring"]
  /\ UNCHANGED <<auto, next, up, queue, again, stage, spent, budget>>

Start(p) ==
  LET a == Head(queue[p]) IN
  /\ drain[p] = "looping"
  /\ ~ NothingToDispatch(p)
  /\ auto[a] = "on"
  /\ ~ Refused(a)
  /\ row' = [Swept EXCEPT ![<<p, a>>] = 0]
  /\ stage' = [stage EXCEPT ![<<p, a>>] = "starting"]
  /\ queue' = [queue EXCEPT ![p] = Tail(@)]
  /\ UNCHANGED <<auto, next, up, drain, again, spent, budget>>

\* A database call that throws, as far as the bound allows.
Throws ==
  /\ budget.faults > 0
  /\ budget' = [budget EXCEPT !.faults = @ - 1]

\* startOne throws: what the loop took off the queue is lost with the pass.
ClaimThrows(p) ==
  /\ drain[p] = "looping"
  /\ ~ NothingToDispatch(p)
  /\ Throws
  /\ queue' = [queue EXCEPT ![p] = Tail(@)]
  /\ drain' = [drain EXCEPT ![p] = "failing"]
  /\ UNCHANGED <<storeVars, up, again, stage, spent>>

\* The drain clears itself; a chained pass starts if there is room and work, but
\* nothing chained onto a drain that threw is called.
DrainEnds(p) ==
  /\ drain[p] \in {"closing", "deferring", "failing"}
  /\ drain' = [drain EXCEPT ![p] =
                 IF p \in again /\ @ # "failing" /\ ~ NothingToDispatch(p) THEN "looping"
                 ELSE IF @ = "closing" THEN "idle" ELSE "deferred"]
  /\ again' = again \ {p}
  /\ UNCHANGED <<storeVars, up, queue, stage, spent, budget>>

-----------------------------------------------------------------------------
(* One run: execute and runOnce. *)

\* The model is listed and the CLI ready; the deadline counts from here.
Spawn(r) ==
  /\ stage[r] = "starting"
  /\ stage' = [stage EXCEPT ![r] = "spawned"]
  /\ UNCHANGED <<storeVars, procVars, spent, budget>>

\* The child is gone, or never came: the slot is free and finishRun writes.
RunEnds(r) ==
  /\ r \in LiveRuns
  /\ row' = [row EXCEPT ![r] = NoRow]
  /\ stage' = [stage EXCEPT ![r] = "ended"]
  /\ spent' = [spent EXCEPT ![r] = 0]
  /\ UNCHANGED <<auto, next, procVars, budget>>

\* Mutant of Reschedule: the automation is not read again, and it was on.
RescheduleBlindly(a) == "later"

Reschedule(a) == IF auto[a] = "on" THEN "later" ELSE "never"

\* noteRun, then the scheduler forgets the run and drains.
Settle(r) ==
  /\ stage[r] = "ended"
  /\ next' = [next EXCEPT ![r[2]] = IF Stored(r[2]) THEN Reschedule(r[2]) ELSE @]
  /\ stage' = [stage EXCEPT ![r] = "off"]
  /\ Drain(r[1])
  /\ UNCHANGED <<auto, row, up, queue, spent, budget>>

\* finishRun throws, and again in its catch: the row stays 'running'.  noteRun may
\* write or throw as well.  The run is forgotten, with no drain.
FinishThrows(r) ==
  /\ r \in LiveRuns
  /\ Throws
  /\ stage' = [stage EXCEPT ![r] = "off"]
  /\ spent' = [spent EXCEPT ![r] = 0]
  /\ \/ UNCHANGED next
     \/ Stored(r[2]) /\ next' = [next EXCEPT ![r[2]] = Reschedule(r[2])]
  /\ UNCHANGED <<auto, row, procVars>>

\* noteRun throws: the run is forgotten, with no drain and its old next run.
NoteThrows(r) ==
  /\ stage[r] = "ended"
  /\ Throws
  /\ stage' = [stage EXCEPT ![r] = "off"]
  /\ UNCHANGED <<storeVars, procVars, spent>>

-----------------------------------------------------------------------------
(* Processes and time. *)

\* Quit or crash.  The children die with their pipes and nobody writes their
\* rows: SQLite is closed before a close handler could.
Exit(p) ==
  /\ p \in up
  /\ budget.exits > 0
  /\ budget' = [budget EXCEPT !.exits = @ - 1]
  /\ up' = up \ {p}
  /\ queue' = [queue EXCEPT ![p] = <<>>]
  /\ drain' = [drain EXCEPT ![p] = "idle"]
  /\ again' = again \ {p}
  /\ stage' = [r \in Run |-> IF r[1] = p THEN "off" ELSE stage[r]]
  /\ spent' = [r \in Run |-> IF r[1] = p THEN 0 ELSE spent[r]]
  /\ UNCHANGED storeVars

\* A scheduler that constructs sweeps.
Boot(p) ==
  /\ p \notin up
  /\ up' = up \cup {p}
  /\ row' = Swept
  /\ UNCHANGED <<auto, next, queue, drain, again, stage, spent, budget>>

\* Time passes while the machine is awake: a listing ends within StartSlack
\* and a child at its Deadline is killed before more time goes by.
Elapse ==
  /\ \E r \in Run : row[r] \in 0..(Stale - 1)
  /\ \A r \in Run : /\ stage[r] = "starting" => row[r] < StartSlack
                    /\ stage[r] = "spawned" => spent[r] < Deadline
  /\ row' = [r \in Run |-> IF row[r] \in 0..(Stale - 1) THEN row[r] + 1 ELSE row[r]]
  /\ spent' = [r \in Run |-> IF stage[r] = "spawned" THEN spent[r] + 1 ELSE spent[r]]
  /\ UNCHANGED <<auto, next, procVars, stage, budget>>

\* The machine sleeps: the wall clock moves, the timers do not.
Suspend ==
  /\ budget.suspends > 0
  /\ budget' = [budget EXCEPT !.suspends = @ - 1]
  /\ row' = [r \in Run |-> IF row[r] = NoRow THEN NoRow ELSE Stale]
  /\ UNCHANGED <<auto, next, procVars, stage, spent>>

-----------------------------------------------------------------------------
DrainStep(p) ==
  LoopEnds(p) \/ Skip(p) \/ Defer(p) \/ Start(p) \/ ClaimThrows(p) \/ DrainEnds(p)

RunStep(r) == Spawn(r) \/ RunEnds(r) \/ Settle(r) \/ FinishThrows(r) \/ NoteThrows(r)

Next ==
  \/ \E a \in Automation : Create(a) \/ Save(a) \/ Delete(a) \/ CronArrives(a)
  \/ \E a \in Automation : Tick(a) \/ \E p \in Proc : RunNow(p, a)
  \/ \E p \in Proc : DrainStep(p) \/ Exit(p) \/ Boot(p)
  \/ \E r \in Run : RunStep(r)
  \/ Elapse
  \/ Suspend

Spec == Init /\ [][Next]_vars

\* A promise settles, a run comes to its end and time passes; the user, the
\* tools and the failures need not come.
Progress ==
  /\ \A p \in Proc : WF_vars(DrainStep(p))
  /\ \A r \in Run : WF_vars(RunEnds(r)) /\ WF_vars(Settle(r))
  /\ WF_vars(Elapse)

\* ... and the server is started again and its timer runs.
TickingSpec ==
  /\ Spec /\ Progress
  /\ \A a \in Automation : WF_vars(Tick(a))
  /\ WF_vars(Boot(Server))

-----------------------------------------------------------------------------
(* Properties. *)

\* At most BOXAIDE_AGENT_CONCURRENCY runs are alive over all processes: what
\* claimRun's count and the launcher's slots keep between them.
AtMostLimit == Cardinality(LiveRuns) <= Limit

\* Never two live runs of one automation, whichever processes were asked.
OneRunPerAutomation ==
  \A r, q \in LiveRuns : r[2] = q[2] => r = q

\* ... as long as the machine has not slept, whatever is deleted and edited.
OneRunUntilSleep == budget.suspends = MaxSuspends => OneRunPerAutomation

\* The chained pass: a drain that came to rest without having been refused a
\* claim left nothing it could have dispatched, whoever queued work or freed a
\* slot while it was ending, as long as no write to the run rows failed.
NoLostWakeup ==
  budget.faults = MaxFaults =>
    \A p \in Proc :
      /\ drain[p] = "idle"
      /\ \A a \in Automation : stage[<<p, a>>] # "ended"
      => NothingToDispatch(p)

\* The store's while-disabled invariant: nothing but its creation gives a paused
\* automation a next run, neither the end of a run that was going on when it was
\* paused nor any save, and a pause takes the one it had.
PauseUnschedules ==
  [][\A a \in Automation :
       auto'[a] = "paused" /\ next'[a] # "never"
         => auto[a] = "absent" \/ (auto[a] = "paused" /\ next[a] # "never")]_vars

\* What the server has queued is in the end started or dropped, whatever the
\* other processes do, crashes, failed writes and the rows both leave behind
\* included.
NothingStuckInQueue ==
  \A a \in Automation : Waiting(Server, a) ~> ~ Waiting(Server, a)

=============================================================================
