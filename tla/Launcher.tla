------------------------------- MODULE Launcher -------------------------------
(***************************************************************************)
(* The agent CLIs a server starts (src/src/agent/launcher.ts): one chat    *)
(* agent, up to RunLimit automation runs, and the scoped credential each   *)
(* is given (src/src/mcp/scoped-tokens.ts).                                *)
(*                                                                         *)
(* start() and runOnce() are synchronous between their awaits - listing    *)
(* the CLI's models, warming its login, opening the egress proxy - so each *)
(* stretch is an action, and Stop, other starts and close() come between.  *)
(* An agent in Driven has no child of its own: its driver's loop is the    *)
(* agent, and the end of the loop is its exit.                             *)
(***************************************************************************)
EXTENDS Integers, FiniteSets

CONSTANTS
  Launch,          \* calls of start()
  Run,             \* run ids runOnce() is called with
  Agent,           \* registry ids
  Driven,          \* the agents whose spec has no args
  agentOf,         \* the agent a call of start() names
  None,            \* no launch
  RunLimit,        \* BOXAIDE_AGENT_CONCURRENCY
  MaxFaults        \* bound: spawns that throw or never become a process

ASSUME LauncherAssumption ==
  /\ IsFiniteSet(Launch) /\ IsFiniteSet(Run)
  /\ Launch \cap Run = {}
  /\ None \notin Launch \cup Run
  /\ Driven \subseteq Agent
  /\ agentOf \in [Launch -> Agent]
  /\ RunLimit \in Nat
  /\ MaxFaults \in Nat

VARIABLES
  closed,          \* close() has run
  call,            \* how far each call of start() is: "idle", "listing", "over"
  running,         \* the launch `running`, `child`, `driver` and `chatGrant` are of
  stopRequested,   \* a stop was asked for on the current launch
  child,           \* the long-lived child (or driven loop) of each launch
  told,            \* launches that were asked to end
  lastExit,        \* the last exit: its reason and, history, the launch it ended
  run,             \* how far each automation run is
  grants,          \* live scoped credentials, by the launch or run they are of
  faults,          \* spawns that went wrong so far
  botched,         \* history: launches whose start went wrong once they had a child
  slipped          \* history: runs whose child was spawned after close()

chatVars == <<call, running, stopRequested, child, told, lastExit, botched>>
runVars == <<run, slipped>>
vars == <<closed, call, running, stopRequested, child, told, lastExit,
          run, grants, faults, botched, slipped>>

\* "stillborn": spawn returned a child that never became a process, its "error"
\* event is due; "failed": that event came, its "close" is due.
Child == {"none", "alive", "stillborn", "failed", "gone"}
Reason == {"none", "stopped", "exited", "error"}
Waiting == {"listing", "warming", "opening"}
RunStage == {"idle"} \cup Waiting \cup {"alive", "killed", "over"}

Starting == {r \in Run : run[r] \in Waiting}
OneShots == {r \in Run : run[r] \in {"alive", "killed"}}

Init ==
  /\ closed = FALSE
  /\ call = [l \in Launch |-> "idle"]
  /\ running = None
  /\ stopRequested = FALSE
  /\ child = [l \in Launch |-> "none"]
  /\ told = {}
  /\ lastExit = [of |-> None, reason |-> "none"]
  /\ run = [r \in Run |-> "idle"]
  /\ grants = {}
  /\ faults = 0
  /\ botched = {}
  /\ slipped = {}

-----------------------------------------------------------------------------
(* The chat agent *)

\* start() past its last guard: the credential is minted, the directory and the
\* sandbox prepared, the child spawned, the driver started.
ComesUp(l) ==
  /\ running' = l
  /\ grants' = grants \cup {l}
  /\ stopRequested' = FALSE
  /\ \/ child' = [child EXCEPT ![l] = "alive"] /\ UNCHANGED <<faults, botched>>
     \/ /\ agentOf[l] \notin Driven /\ faults < MaxFaults
        /\ child' = [child EXCEPT ![l] = "stillborn"]
        /\ faults' = faults + 1
        /\ botched' = botched \cup {l}
  /\ UNCHANGED <<told, lastExit>>

\* prepareWorkDir or confine throws: the credential is taken back.
NotPrepared ==
  UNCHANGED <<running, grants, stopRequested, child, faults, told, lastExit, botched>>

\* spawn() itself throws, outside every try: nobody revokes.
SpawnThrows(l) ==
  /\ agentOf[l] \notin Driven /\ faults < MaxFaults
  /\ faults' = faults + 1
  /\ grants' = grants \cup {l}
  /\ UNCHANGED <<running, stopRequested, child, told, lastExit, botched>>

\* The driver throws or declines after the spawn: the exit is recorded.  A child
\* is signalled, and closes later; an agent in Driven has none.
LoopThrows(l) ==
  /\ faults < MaxFaults
  /\ faults' = faults + 1
  /\ \/ /\ agentOf[l] \notin Driven
        /\ child' = [child EXCEPT ![l] = "alive"]
        /\ told' = told \cup {l}
        /\ botched' = botched \cup {l}
     \/ /\ agentOf[l] \in Driven
        /\ child' = [child EXCEPT ![l] = "gone"]
        /\ UNCHANGED <<told, botched>>
  /\ lastExit' = [of |-> l, reason |-> "error"]
  /\ stopRequested' = FALSE
  /\ UNCHANGED <<running, grants>>

Launched(l) ==
  /\ call' = [call EXCEPT ![l] = "over"]
  /\ ComesUp(l) \/ NotPrepared \/ SpawnThrows(l) \/ LoopThrows(l)
  /\ UNCHANGED <<closed, runVars>>

\* start(): refused when closed or when an agent is up.  Only a picked model
\* makes it wait, for the list of models the CLI offers.
Start(l) ==
  /\ call[l] = "idle" /\ ~closed /\ running = None
  /\ \/ Launched(l)
     \/ /\ call' = [call EXCEPT ![l] = "listing"]
        /\ UNCHANGED <<closed, running, stopRequested, child, told, lastExit, botched,
                       runVars, grants, faults>>

\* Mutation: the slot is not checked again after the listing.
ListedUnchecked(l) ==
  /\ call[l] = "listing"
  /\ \/ ~closed /\ Launched(l)
     \/ /\ call' = [call EXCEPT ![l] = "over"]
        /\ UNCHANGED <<closed, running, stopRequested, child, told, lastExit, botched,
                       runVars, grants, faults>>

\* The list arrives: assertClosed and assertIdle again, or the model is not on it.
Listed(l) ==
  /\ call[l] = "listing"
  /\ \/ ~closed /\ running = None /\ Launched(l)
     \/ /\ call' = [call EXCEPT ![l] = "over"]
        /\ UNCHANGED <<closed, running, stopRequested, child, told, lastExit, botched,
                       runVars, grants, faults>>

\* Mutation: an exit leaves the credential to the next launch.
NoteExitKeepsGrant(l, reason) ==
  IF running # None /\ agentOf[running] = agentOf[l]
    THEN /\ running' = None
         /\ lastExit' = [of |-> running, reason |-> reason]
         /\ UNCHANGED grants
    ELSE UNCHANGED <<running, grants, lastExit>>

\* noteExit: told apart by the agent's id, not by the launch the child was of.
NoteExit(l, reason) ==
  IF running # None /\ agentOf[running] = agentOf[l]
    THEN /\ running' = None
         /\ grants' = grants \ {running}
         /\ lastExit' = [of |-> running, reason |-> reason]
    ELSE UNCHANGED <<running, grants, lastExit>>

\* "error" of a child that never ran.
ChildErrs(l) ==
  /\ child[l] = "stillborn"
  /\ child' = [child EXCEPT ![l] = "failed"]
  /\ NoteExit(l, "error")
  /\ UNCHANGED <<closed, call, stopRequested, told, runVars, faults, botched>>

\* "close" of a child: it ended by itself, by the signal, or never ran.
ChildCloses(l) ==
  /\ agentOf[l] \notin Driven
  /\ child[l] \in {"alive", "failed"}
  /\ child' = [child EXCEPT ![l] = "gone"]
  /\ NoteExit(l, IF stopRequested THEN "stopped" ELSE "exited")
  /\ UNCHANGED <<closed, call, stopRequested, told, runVars, faults, botched>>

\* The loop of a driven agent ends: it was stopped, or it gave up (noteDriverStop).
LoopEnds(l) ==
  /\ agentOf[l] \in Driven
  /\ child[l] = "alive"
  /\ child' = [child EXCEPT ![l] = "gone"]
  /\ \/ l \in told /\ NoteExit(l, "stopped")
     \/ l \notin told /\ NoteExit(l, "error")
  /\ UNCHANGED <<closed, call, stopRequested, told, runVars, faults, botched>>

\* Mutation: Stop frees the slot itself.
StopAtOnce ==
  /\ ~closed
  /\ stopRequested' = TRUE
  /\ told' = told \cup ({running} \ {None})
  /\ running' = None
  /\ grants' = grants \ {running}
  /\ UNCHANGED <<closed, call, child, lastExit, botched, runVars, faults>>

\* stop(): the driver and the child are asked to end; their exit clears the state.
Stop ==
  /\ ~closed
  /\ stopRequested' = TRUE
  /\ told' = told \cup ({running} \ {None})
  /\ UNCHANGED <<closed, call, running, child, lastExit, botched, runVars, grants, faults>>

-----------------------------------------------------------------------------
(* Automation runs *)

RunMoves(r, s) == run' = [run EXCEPT ![r] = s]

\* What follows the last check before an await, or the spawn: a CLI with a login
\* to warm waits for it, a confined run for its proxy.
Proceeds(r, stages) ==
  /\ \E s \in stages : RunMoves(r, s)
  /\ UNCHANGED grants

\* The catch of runOnce: no child, so slot and credential are given back.
RunRefused(r) ==
  /\ RunMoves(r, "over")
  /\ grants' = grants \ {r}

\* Mutation: a run that waits for its model list holds no slot.
RoomForChildren == Cardinality(OneShots) < RunLimit

Room == Cardinality(Starting \cup OneShots) < RunLimit

\* runOnce(): the slot is reserved and the credential minted before any await;
\* with none to wait for, the run may be refused, or have its child, at once.
RunOnce(r) ==
  /\ run[r] = "idle" /\ ~closed /\ Room
  /\ \/ /\ \E s \in Waiting \cup {"alive"} : RunMoves(r, s)
        /\ grants' = grants \cup {r}
     \/ RunRefused(r)
  /\ UNCHANGED <<closed, chatVars, faults, slipped>>

RunListed(r) ==
  /\ run[r] = "listing"
  /\ \/ ~closed /\ Proceeds(r, {"warming", "opening", "alive"})
     \/ RunRefused(r)
  /\ UNCHANGED <<closed, chatVars, faults, slipped>>

RunWarmed(r) ==
  /\ run[r] = "warming"
  /\ \/ ~closed /\ Proceeds(r, {"opening", "alive"})
     \/ RunRefused(r)
  /\ UNCHANGED <<closed, chatVars, faults, slipped>>

\* The proxy listens: the child is spawned with no look at closed.
RunOpened(r) ==
  /\ run[r] = "opening"
  /\ \/ /\ Proceeds(r, {"alive"})
        /\ slipped' = IF closed THEN slipped \cup {r} ELSE slipped
     \/ RunRefused(r) /\ UNCHANGED slipped
  /\ UNCHANGED <<closed, chatVars, faults>>

\* The deadline, the first-output watchdog or the sign-in prompt: SIGKILL.
RunKilled(r) ==
  /\ run[r] = "alive"
  /\ RunMoves(r, "killed")
  /\ UNCHANGED <<closed, chatVars, grants, faults, slipped>>

\* finish(): "close", "error", or the grace after "exit".
RunFinishes(r) ==
  /\ run[r] \in {"alive", "killed"}
  /\ RunMoves(r, "over")
  /\ grants' = grants \ {r}
  /\ UNCHANGED <<closed, chatVars, faults, slipped>>

-----------------------------------------------------------------------------
(* Shutdown *)

\* Mutation: the runs are left to finish.
CloseChatOnly ==
  /\ ~closed
  /\ closed' = TRUE
  /\ stopRequested' = TRUE
  /\ running' = None
  /\ told' = told \cup ({running} \ {None})
  /\ grants' = grants \ {running}
  /\ UNCHANGED <<call, child, lastExit, botched, runVars, faults>>

\* close(): the chat agent is signalled and disowned, every run that has a child
\* is killed.  A run that still waits is not in oneShots.
Close ==
  /\ ~closed
  /\ closed' = TRUE
  /\ stopRequested' = TRUE
  /\ running' = None
  /\ told' = told \cup ({running} \ {None})
  /\ grants' = grants \ {running}
  /\ run' = [r \in Run |-> IF run[r] = "alive" THEN "killed" ELSE run[r]]
  /\ UNCHANGED <<call, child, lastExit, botched, slipped, faults>>

RunSettles(r) == RunListed(r) \/ RunWarmed(r) \/ RunOpened(r) \/ RunFinishes(r)

\* Every step but the end of a driven loop.
LauncherStep ==
  \/ \E l \in Launch : Start(l) \/ Listed(l) \/ ChildErrs(l) \/ ChildCloses(l)
  \/ Stop \/ Close
  \/ \E r \in Run : RunOnce(r) \/ RunSettles(r) \/ RunKilled(r)

Next == LauncherStep \/ \E l \in Launch : LoopEnds(l)

Spec == Init /\ [][Next]_vars

-----------------------------------------------------------------------------
(* Properties *)

TypeOK ==
  /\ closed \in BOOLEAN /\ stopRequested \in BOOLEAN
  /\ call \in [Launch -> {"idle", "listing", "over"}]
  /\ running \in Launch \cup {None}
  /\ child \in [Launch -> Child]
  /\ told \subseteq Launch /\ botched \subseteq Launch
  /\ lastExit \in [of : Launch \cup {None}, reason : Reason]
  /\ run \in [Run -> RunStage]
  /\ grants \subseteq Launch \cup Run
  /\ faults \in 0..MaxFaults
  /\ slipped \subseteq Run

\* A child or loop that nobody has asked to end.
Unasked == {l \in Launch : child[l] = "alive" /\ l \notin told}

\* An exit is told apart by the agent's id alone, so the late "close" of a child
\* whose start went wrong ends the launch of the same CLI that came after it.
Lost ==
  {l \in Launch : \E o \in botched \ {l} :
                    agentOf[o] = agentOf[l] /\ child[o] \in {"failed", "gone"}}

\* One chat agent: whatever starts, stops and exits cross, an agent that is up
\* and was not asked to end is the one the server knows, so there is never a
\* second one, and Stop reaches it.  The server loses sight of it only once a start
\* of the same CLI went wrong before: with every exit of a child that came up
\* properly, early or late, this holds with no exception.
OneChatAgent == \A l \in Unasked : running = l \/ l \in Lost

\* At most RunLimit automation runs hold a slot, those without a child yet included.
RunsWithinLimit == Cardinality(Starting \cup OneShots) <= RunLimit

\* A credential is live only while what it was minted for is: the chat agent the
\* server knows, or a run that holds its slot.  The exception is a chat launch
\* whose spawn threw, which keeps it (call over, no child, no exit).
NeverSpawned == {l \in Launch : call[l] = "over" /\ child[l] = "none"}
CredentialsDieWithLaunch ==
  \A g \in grants : g = running \/ g \in Starting \cup OneShots \cup NeverSpawned

\* After close() every child was signalled, but for a chat child the server had
\* lost sight of after a start that went wrong and a run whose proxy was being
\* opened.
NothingSurvivesClose ==
  closed => /\ Unasked \subseteq Lost
            /\ \A r \in Run : run[r] = "alive" => r \in slipped

\* An exit is recorded as a stop only if that launch was asked to stop: an older
\* Stop, or one pressed while nothing ran, does not excuse a crash.
StoppedMeansStopped == lastExit.reason = "stopped" => lastExit.of \in told

=============================================================================
