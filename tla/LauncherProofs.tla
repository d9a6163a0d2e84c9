---------------------------- MODULE LauncherProofs ----------------------------
(***************************************************************************)
(* Proofs about Launcher and Sessions, for any launches, runs, agents and  *)
(* bounds.  A step of Sessions is a step of Launcher or leaves it alone    *)
(* (LauncherStays), so what is proved of Spec holds of SessionsSpec, the   *)
(* specification the run checks.                                           *)
(***************************************************************************)
EXTENDS Sessions, FiniteSetTheorems, TLAPS

\* Before start() returned there is no child, and only CLIs that have a child of
\* their own can fail to become one.
CallsHold ==
  \A l \in Launch :
    /\ call[l] # "over" => child[l] = "none"
    /\ child[l] \in {"stillborn", "failed"} => agentOf[l] \notin Driven

\* A driven loop that is alive is the agent the server knows, asked to end or not.
LoopsHold ==
  \A l \in Launch :
    agentOf[l] \in Driven /\ child[l] = "alive" => running = l \/ closed

\* A child whose start went wrong is never one that is up unasked, and it alone has
\* an "error" behind it; the launch the server knows is not such a one, unless its
\* "error" is still due.
BotchedHold ==
  /\ \A l \in Launch :
       /\ child[l] \in {"stillborn", "failed"} => l \in botched
       /\ l \in botched => child[l] # "none" /\ (child[l] = "alive" => l \in told)
  /\ running # None =>
       /\ ~closed
       /\ \/ child[running] = "stillborn"
          \/ child[running] = "alive" /\ running \notin botched

\* A child that is up is the server's, or botched, or the server has lost it.
ChildrenHold ==
  ~closed => \A l \in Launch :
               child[l] = "alive" => running = l \/ l \in botched \/ l \in Lost

ExitsHold == StoppedMeansStopped /\ (stopRequested /\ running # None => running \in told)

IInv == TypeOK /\ CallsHold /\ LoopsHold /\ BotchedHold /\ ChildrenHold /\ ExitsHold
          /\ OneChatAgent /\ CredentialsDieWithLaunch /\ NothingSurvivesClose

LEMMA InitInv == Init => IInv
<1> SUFFICES ASSUME Init PROVE IInv
  OBVIOUS
<1>1. TypeOK
  <2>1. call \in [Launch -> {"idle", "listing", "over"}] /\ child \in [Launch -> Child]
    BY DEF Init, Child
  <2>2. run \in [Run -> RunStage] /\ lastExit \in [of : Launch \cup {None}, reason : Reason]
    BY DEF Init, RunStage, Reason
  <2>3. running \in Launch \cup {None} /\ faults \in 0..MaxFaults
    BY LauncherAssumption DEF Init
  <2>4. closed \in BOOLEAN /\ stopRequested \in BOOLEAN
    BY DEF Init
  <2>5. told \subseteq Launch /\ botched \subseteq Launch /\ slipped \subseteq Run
        /\ grants \subseteq Launch \cup Run
    BY DEF Init
  <2> QED
    BY <2>1, <2>2, <2>3, <2>4, <2>5 DEF TypeOK
<1>2. CallsHold /\ LoopsHold /\ OneChatAgent /\ ChildrenHold
  BY DEF Init, CallsHold, LoopsHold, OneChatAgent, ChildrenHold, Unasked
<1>4. BotchedHold /\ ExitsHold
  BY DEF Init, BotchedHold, ExitsHold, StoppedMeansStopped
<1>3. CredentialsDieWithLaunch /\ NothingSurvivesClose
  BY DEF Init, CredentialsDieWithLaunch, NothingSurvivesClose
<1> QED
  BY <1>1, <1>2, <1>3, <1>4 DEF IInv

\* What was lost stays lost: a child that failed or closed does not come back.
LEMMA LostStays ==
  ASSUME botched \subseteq botched',
         \A o \in botched : child[o] \in {"failed", "gone"} => child'[o] \in {"failed", "gone"}
  PROVE  Lost \subseteq Lost'
BY DEF Lost

\* A launch keeps the invariant: nothing was up, and nothing is closed.
LEMMA LaunchedInv ==
  ASSUME IInv, NEW l \in Launch, Launched(l), call[l] # "over", running = None, ~closed
  PROVE  IInv'
<1> USE LauncherAssumption DEF IInv
<1>1. TypeOK'
  <2> USE DEF Launched, TypeOK, runVars
  <2>1. CASE ComesUp(l)
    <3>1. child' \in [Launch -> Child] /\ faults' \in 0..MaxFaults
      BY SMTT(30), <2>1 DEF ComesUp, Child
    <3>2. botched' \subseteq Launch
      BY <2>1 DEF ComesUp
    <3>3. call' \in [Launch -> {"idle", "listing", "over"}]
      OBVIOUS
    <3>4. running' = l /\ grants' = grants \cup {l} /\ stopRequested' = FALSE
      BY <2>1 DEF ComesUp
    <3>5. UNCHANGED <<told, lastExit>> /\ UNCHANGED <<closed, run, slipped>>
      BY <2>1 DEF ComesUp
    <3> HIDE DEF Launched, runVars
    <3> QED
      BY <3>1, <3>2, <3>3, <3>4, <3>5
  <2>2. CASE NotPrepared
    BY <2>2 DEF NotPrepared
  <2>3. CASE SpawnThrows(l)
    BY <2>3 DEF SpawnThrows
  <2>4. CASE LoopThrows(l)
    <3>1. child' \in [Launch -> Child] /\ faults' \in 0..MaxFaults
      BY <2>4 DEF LoopThrows, Child
    <3>2. lastExit' \in [of : Launch \cup {None}, reason : Reason]
      BY <2>4 DEF LoopThrows, Reason
    <3> QED
      BY <2>4, <3>1, <3>2 DEF LoopThrows
  <2> QED
    BY <2>1, <2>2, <2>3, <2>4
<1>2. CallsHold' /\ LoopsHold'
  BY DEF Launched, ComesUp, NotPrepared, SpawnThrows, LoopThrows, TypeOK, CallsHold, LoopsHold, Child
<1>3. child[l] = "none" /\ l \notin botched
  BY DEF CallsHold, BotchedHold
<1>6. Lost \subseteq Lost'
  <2>1. botched \subseteq botched' /\ \A o \in Launch \ {l} : child'[o] = child[o]
    BY DEF Launched, ComesUp, NotPrepared, SpawnThrows, LoopThrows, TypeOK
  <2> QED
    BY <1>3, <2>1, LostStays DEF TypeOK
<1>7. \A k \in Launch \ {l} : /\ child'[k] = child[k]
                              /\ k \in told' <=> k \in told
                              /\ k \in botched' <=> k \in botched
  BY DEF Launched, ComesUp, NotPrepared, SpawnThrows, LoopThrows, TypeOK
<1>8. \/ child'[l] = "none" /\ l \notin botched' /\ running' = None
      \/ child'[l] = "alive" /\ l \notin botched' /\ running' = l
      \/ child'[l] = "stillborn" /\ l \in botched' /\ running' = l
      \/ child'[l] = "alive" /\ l \in botched' /\ l \in told' /\ running' = None
      \/ child'[l] = "gone" /\ l \notin botched' /\ running' = None
  BY <1>3 DEF Launched, ComesUp, NotPrepared, SpawnThrows, LoopThrows, TypeOK
<1>9. OneChatAgent' /\ ChildrenHold'
  BY <1>3, <1>6, <1>7, <1>8 DEF Launched, OneChatAgent, ChildrenHold, Unasked
<1>10. BotchedHold'
  BY <1>7, <1>8 DEF Launched, BotchedHold, TypeOK
<1>11. ExitsHold'
  BY DEF Launched, ComesUp, NotPrepared, SpawnThrows, LoopThrows, ExitsHold, StoppedMeansStopped, TypeOK
<1>4. CredentialsDieWithLaunch'
  <2> DEFINE slots == Starting \cup OneShots
  <2>1. slots' = slots
    BY DEF Launched, runVars, Starting, OneShots
  <2>2. NeverSpawned \subseteq NeverSpawned'
    BY DEF Launched, ComesUp, NotPrepared, SpawnThrows, LoopThrows, TypeOK, NeverSpawned
  <2>3. \A g \in grants : g # None
    BY DEF TypeOK
  <2>4. \A g \in grants : g \in slots' \cup NeverSpawned'
    BY <2>1, <2>2, <2>3 DEF CredentialsDieWithLaunch
  <2>5. grants' \subseteq grants \cup {l} /\ (l \in grants' => l \in grants \/ running' = l \/ l \in NeverSpawned')
    BY DEF Launched, ComesUp, NotPrepared, SpawnThrows, LoopThrows, TypeOK, NeverSpawned, CallsHold
  <2> QED
    BY <2>4, <2>5 DEF CredentialsDieWithLaunch
<1>5. NothingSurvivesClose'
  BY DEF Launched, NothingSurvivesClose
<1> QED
  BY <1>1, <1>2, <1>4, <1>5, <1>9, <1>10, <1>11

\* The end of a child or loop: told apart by the agent's id alone.
LEMMA ExitInv ==
  ASSUME IInv, NEW l \in Launch, NEW reason \in Reason, NoteExit(l, reason),
         NEW to \in {"failed", "gone"}, child' = [child EXCEPT ![l] = to],
         child[l] \in {"stillborn", "alive", "failed"},
         to = "failed" => agentOf[l] \notin Driven,
         child[l] = "alive" => to = "gone",
         child[l] = "stillborn" => to = "failed",
         reason = "stopped" /\ running # None /\ agentOf[running] = agentOf[l]
           => running \in told,
         UNCHANGED <<closed, call, stopRequested, told, runVars, faults, botched>>
  PROVE  IInv'
<1> USE LauncherAssumption DEF IInv
<1>1. TypeOK'
  BY DEF NoteExit, TypeOK, Child, runVars
<1>2. CallsHold'
  BY DEF NoteExit, TypeOK, CallsHold, Child
<1>3. LoopsHold'
  <2> SUFFICES ASSUME NEW k \in Launch, agentOf[k] \in Driven, child'[k] = "alive", ~closed
               PROVE  running' = k
    BY DEF LoopsHold
  <2>1. k # l /\ child[k] = "alive"
    BY DEF TypeOK, Child
  <2>2. running = k
    BY <2>1 DEF LoopsHold
  <2>3. agentOf[l] # agentOf[k]
    BY <2>1, <2>2 DEF LoopsHold, CallsHold
  <2> QED
    BY <2>2, <2>3 DEF NoteExit
<1>7. child'[l] = to /\ \A k \in Launch \ {l} : child'[k] = child[k]
  BY DEF TypeOK
<1>8. Lost \subseteq Lost'
  BY <1>7, LostStays DEF TypeOK
<1>9. \/ running' = running
      \/ running' = None /\ running # None /\ agentOf[running] = agentOf[l]
  BY DEF NoteExit
\* The launch whose place the exit takes, if the exit is not its own.
<1>10. ASSUME running # None, agentOf[running] = agentOf[l], running # l PROVE running \in Lost'
  <2>1. running \in Launch /\ ~closed
    BY <1>10 DEF TypeOK, BotchedHold
  <2>2. CASE l \in botched
    BY <1>7, <1>10, <2>1, <2>2 DEF Lost
  <2>3. CASE l \notin botched
    <3>1. child[l] = "alive"
      BY <2>3 DEF BotchedHold
    <3>2. l \in Lost
      BY <1>10, <2>1, <2>3, <3>1 DEF ChildrenHold
    <3>3. PICK o \in botched : agentOf[o] = agentOf[l] /\ child[o] \in {"failed", "gone"}
      BY <3>2 DEF Lost
    <3>4. o # running /\ o # l
      BY <1>10, <2>3, <3>3 DEF BotchedHold
    <3> QED
      BY <1>7, <1>10, <2>1, <3>3, <3>4 DEF Lost, TypeOK
  <2> QED
    BY <2>2, <2>3
<1>4. OneChatAgent' /\ ChildrenHold'
  BY <1>7, <1>8, <1>9, <1>10 DEF OneChatAgent, ChildrenHold, Unasked
<1>11. BotchedHold'
  <2>1. running' # None => running' = running /\ running # l
    BY <1>7 DEF NoteExit
  <2> QED
    BY <1>7, <2>1 DEF BotchedHold, TypeOK
<1>12. ExitsHold'
  BY DEF NoteExit, ExitsHold, StoppedMeansStopped, TypeOK
<1>5. CredentialsDieWithLaunch'
  <2>1. UNCHANGED (Starting \cup OneShots) /\ NeverSpawned \subseteq NeverSpawned'
    BY DEF TypeOK, runVars, Starting, OneShots, NeverSpawned
  <2> QED
    BY <2>1 DEF NoteExit, CredentialsDieWithLaunch
<1>6. NothingSurvivesClose'
  BY <1>7, <1>8 DEF TypeOK, NothingSurvivesClose, Unasked, runVars
<1> QED
  BY <1>1, <1>2, <1>3, <1>4, <1>5, <1>6, <1>11, <1>12

\* A step of an automation run leaves the chat agent alone: what matters is that
\* its slot and its credential go together.
RunPart ==
  /\ UNCHANGED <<closed, chatVars>>
  /\ run' \in [Run -> RunStage] /\ faults' \in 0..MaxFaults /\ slipped' \subseteq Run

LEMMA RunInv ==
  ASSUME IInv, NEW r \in Run, RunPart, \A q \in Run \ {r} : run'[q] = run[q],
         \/ grants' = grants \ {r}
         \/ grants' = grants /\ run'[r] \in Waiting \cup {"alive", "killed"}
         \/ grants' = grants \cup {r} /\ run'[r] \in Waiting \cup {"alive", "killed"},
         closed /\ run'[r] = "alive" => r \in slipped', slipped \subseteq slipped'
  PROVE  IInv'
<1> USE LauncherAssumption DEF IInv, RunPart, chatVars
<1>1. TypeOK'
  BY DEF TypeOK
<1>2. CallsHold' /\ LoopsHold' /\ OneChatAgent' /\ BotchedHold' /\ ChildrenHold' /\ ExitsHold'
  BY DEF CallsHold, LoopsHold, OneChatAgent, BotchedHold, ChildrenHold, ExitsHold,
         StoppedMeansStopped, Unasked, Lost
<1>3. CredentialsDieWithLaunch'
  <2>1. NeverSpawned' = NeverSpawned
    BY DEF NeverSpawned
  <2>2. (Starting \cup OneShots) \ {r} \subseteq (Starting \cup OneShots)'
    BY DEF Starting, OneShots
  <2>3. run'[r] \in Waiting \cup {"alive", "killed"} => r \in (Starting \cup OneShots)'
    BY DEF Starting, OneShots
  <2> QED
    BY <2>1, <2>2, <2>3 DEF CredentialsDieWithLaunch
<1>4. NothingSurvivesClose'
  BY DEF NothingSurvivesClose, Unasked, Lost
<1> QED
  BY <1>1, <1>2, <1>3, <1>4

LEMMA StopInv == IInv /\ Stop => IInv'
<1> SUFFICES ASSUME IInv, Stop PROVE IInv'
  OBVIOUS
<1> USE DEF IInv, Stop, runVars
<1>1. TypeOK'
  BY DEF TypeOK
<1>2. CallsHold' /\ LoopsHold' /\ OneChatAgent' /\ NothingSurvivesClose'
  BY DEF CallsHold, LoopsHold, OneChatAgent, NothingSurvivesClose, Unasked, Lost
<1>4. BotchedHold' /\ ChildrenHold' /\ ExitsHold'
  BY DEF BotchedHold, ChildrenHold, ExitsHold, StoppedMeansStopped, TypeOK, Lost
<1>3. CredentialsDieWithLaunch'
  BY DEF CredentialsDieWithLaunch, Starting, OneShots, NeverSpawned
<1> QED
  BY <1>1, <1>2, <1>3, <1>4

\* close() disowns the chat agent, which OneChatAgent says it can still reach, and
\* kills the runs that have a child.
LEMMA CloseInv == IInv /\ Close => IInv'
<1> SUFFICES ASSUME IInv, Close PROVE IInv'
  OBVIOUS
<1> USE DEF IInv, Close
<1>1. TypeOK'
  <2>1. run' \in [Run -> RunStage]
    BY DEF TypeOK, RunStage
  <2> QED
    BY <2>1 DEF TypeOK
<1>2. CallsHold' /\ LoopsHold' /\ OneChatAgent'
  BY DEF CallsHold, LoopsHold, OneChatAgent, Unasked, Lost
<1>5. BotchedHold' /\ ChildrenHold' /\ ExitsHold'
  BY DEF BotchedHold, ChildrenHold, ExitsHold, StoppedMeansStopped, TypeOK
<1>3. CredentialsDieWithLaunch'
  <2>1. (Starting \cup OneShots)' = Starting \cup OneShots
    BY DEF TypeOK, Starting, OneShots, Waiting
  <2>2. NeverSpawned' = NeverSpawned
    BY DEF NeverSpawned
  <2> QED
    BY <2>1, <2>2 DEF CredentialsDieWithLaunch
<1>4. NothingSurvivesClose'
  <2>1. Unasked' \subseteq Lost'
    BY LauncherAssumption DEF OneChatAgent, Unasked, Lost, TypeOK
  <2>2. \A q \in Run : run'[q] # "alive"
    BY DEF TypeOK
  <2> QED
    BY <2>1, <2>2 DEF NothingSurvivesClose
<1> QED
  BY <1>1, <1>2, <1>3, <1>4, <1>5

\* Every step of the launcher keeps the invariant.
LEMMA NextInv == IInv /\ [Next]_vars => IInv'
<1> SUFFICES ASSUME IInv, [Next]_vars PROVE IInv'
  OBVIOUS
<1> USE LauncherAssumption DEF IInv
<1>1. ASSUME NEW l \in Launch, Start(l) \/ Listed(l) PROVE IInv'
  <2>1. CASE Launched(l) /\ call[l] # "over" /\ running = None /\ ~closed
    BY <2>1, LaunchedInv
  <2>2. CASE /\ call' \in [Launch -> {"idle", "listing", "over"}]
             /\ \A k \in Launch : call[k] = "over" => call'[k] = "over"
             /\ \A k \in Launch : call'[k] # "over" => call[k] # "over"
             /\ UNCHANGED <<closed, running, stopRequested, child, told, lastExit, botched,
                            runVars, grants, faults>>
    <3>1. TypeOK' /\ CallsHold' /\ LoopsHold' /\ OneChatAgent' /\ NothingSurvivesClose'
      BY <2>2 DEF TypeOK, CallsHold, LoopsHold, OneChatAgent, NothingSurvivesClose, Unasked, Lost,
                  runVars
    <3>3. BotchedHold' /\ ChildrenHold' /\ ExitsHold'
      BY <2>2 DEF BotchedHold, ChildrenHold, ExitsHold, StoppedMeansStopped, Lost
    <3>2. CredentialsDieWithLaunch'
      BY <2>2 DEF CredentialsDieWithLaunch, Starting, OneShots, NeverSpawned, runVars
    <3> QED
      BY <3>1, <3>2, <3>3
  <2> QED
    BY <1>1, <2>1, <2>2 DEF Start, Listed, TypeOK
<1>2. ASSUME NEW l \in Launch, ChildErrs(l) PROVE IInv'
  <2>1. agentOf[l] \notin Driven
    BY <1>2 DEF ChildErrs, CallsHold
  <2> QED
    BY <1>2, <2>1, ExitInv DEF ChildErrs, Reason
<1>3. ASSUME NEW l \in Launch, ChildCloses(l) PROVE IInv'
  <2>1. PICK reason \in Reason : NoteExit(l, reason) /\ (reason = "stopped" => stopRequested)
    BY <1>3 DEF ChildCloses, Reason
  <2>2. reason = "stopped" /\ running # None => running \in told
    BY <2>1 DEF ExitsHold
  <2> QED
    BY <1>3, <2>1, <2>2, ExitInv DEF ChildCloses
<1>4. ASSUME NEW l \in Launch, LoopEnds(l) PROVE IInv'
  <2>1. PICK reason \in Reason : NoteExit(l, reason) /\ (reason = "stopped" => l \in told)
    BY <1>4 DEF LoopEnds, Reason
  <2>2. running # None => running = l
    BY <1>4 DEF LoopEnds, LoopsHold, BotchedHold
  <2> QED
    BY <1>4, <2>1, <2>2, ExitInv DEF LoopEnds
<1>5. ASSUME NEW r \in Run, RunOnce(r) \/ RunListed(r) \/ RunWarmed(r) \/ RunOpened(r)
                              \/ RunFinishes(r) \/ RunKilled(r)
      PROVE  IInv'
  <2> USE <1>5 DEF RunOnce, RunListed, RunWarmed, RunOpened, RunFinishes, RunKilled, RunMoves,
                   RunRefused, Proceeds
  <2>1. RunPart
    BY DEF RunPart, TypeOK, RunStage, Waiting
  <2>2. \A q \in Run \ {r} : run'[q] = run[q]
    BY DEF TypeOK
  <2>3. \/ grants' = grants \ {r}
        \/ grants' = grants /\ run'[r] \in Waiting \cup {"alive", "killed"}
        \/ grants' = grants \cup {r} /\ run'[r] \in Waiting \cup {"alive", "killed"}
    BY DEF TypeOK, Waiting
  <2>4. (closed /\ run'[r] = "alive" => r \in slipped') /\ slipped \subseteq slipped'
    BY DEF TypeOK
  <2> QED
    BY <2>1, <2>2, <2>3, <2>4, RunInv
<1>6. CASE UNCHANGED vars
  <2>1. TypeOK' /\ CallsHold' /\ LoopsHold' /\ OneChatAgent' /\ NothingSurvivesClose'
    BY <1>6 DEF vars, TypeOK, CallsHold, LoopsHold, OneChatAgent, NothingSurvivesClose, Unasked, Lost
  <2>2. BotchedHold' /\ ChildrenHold' /\ ExitsHold'
    BY <1>6 DEF vars, BotchedHold, ChildrenHold, ExitsHold, StoppedMeansStopped, Lost
  <2>3. CredentialsDieWithLaunch'
    BY <1>6 DEF vars, CredentialsDieWithLaunch, Starting, OneShots, NeverSpawned
  <2> QED
    BY <2>1, <2>2, <2>3
<1> QED
  BY <1>1, <1>2, <1>3, <1>4, <1>5, <1>6, StopInv, CloseInv DEF Next, LauncherStep, RunSettles

\* Only runOnce() takes a slot, after it counted them; every other step of a run
\* keeps its slot or gives it back.
LEMMA SlotsStep == TypeOK /\ RunsWithinLimit /\ [Next]_vars => RunsWithinLimit'
<1> DEFINE slots == Starting \cup OneShots
<1> SUFFICES ASSUME TypeOK, RunsWithinLimit, [Next]_vars PROVE RunsWithinLimit'
  OBVIOUS
<1>1. slots \subseteq Run /\ slots' \subseteq Run
  BY DEF Starting, OneShots
<1>2. IsFiniteSet(slots) /\ IsFiniteSet(slots')
  BY <1>1, LauncherAssumption, FS_Subset
<1>3. CASE slots' \subseteq slots
  <2>1. Cardinality(slots') <= Cardinality(slots)
    BY <1>2, <1>3, FS_Subset
  <2>2. Cardinality(slots') \in Nat /\ Cardinality(slots) \in Nat
    BY <1>2, FS_CardinalityType
  <2> QED
    BY <2>1, <2>2, LauncherAssumption DEF RunsWithinLimit
<1>4. ASSUME NEW r \in Run, RunOnce(r) PROVE RunsWithinLimit'
  <2>1. slots' \subseteq slots \cup {r}
    BY <1>4 DEF RunOnce, RunMoves, RunRefused, Starting, OneShots, TypeOK
  <2>2. Cardinality(slots') <= Cardinality(slots) + 1
    <3>1. IsFiniteSet(slots \cup {r}) /\ Cardinality(slots \cup {r}) <= Cardinality(slots) + 1
      BY <1>2, FS_AddElement, FS_CardinalityType
    <3>2. Cardinality(slots') <= Cardinality(slots \cup {r})
      BY <2>1, <3>1, FS_Subset
    <3> QED
      BY <1>2, <3>1, <3>2, FS_CardinalityType
  <2>3. Cardinality(slots') \in Nat /\ Cardinality(slots) \in Nat
    BY <1>2, FS_CardinalityType
  <2>4. Cardinality(slots) < RunLimit
    BY <1>4 DEF RunOnce, Room
  <2> QED
    BY <2>2, <2>3, <2>4, LauncherAssumption DEF RunsWithinLimit
<1>5. (\E r \in Run : RunOnce(r)) \/ slots' \subseteq slots
  <2> USE DEF Starting, OneShots
  <2>1. CASE run' = run
    BY <2>1
  <2>2. CASE \E r \in Run : RunSettles(r) \/ RunKilled(r)
    BY <2>2 DEF RunSettles, RunListed, RunWarmed, RunOpened, RunFinishes, RunKilled, RunMoves,
                RunRefused, Proceeds, TypeOK, Waiting
  <2>3. CASE Close
    BY <2>3 DEF Close, TypeOK, Waiting
  <2>4. CASE \E l \in Launch : Start(l) \/ Listed(l) \/ ChildErrs(l) \/ ChildCloses(l) \/ LoopEnds(l)
    BY <2>4, <2>1 DEF Start, Listed, Launched, ChildErrs, ChildCloses, LoopEnds, runVars
  <2>5. CASE Stop \/ UNCHANGED vars
    BY <2>5, <2>1 DEF Stop, vars, runVars
  <2> QED
    BY <2>1, <2>2, <2>3, <2>4, <2>5 DEF Next, LauncherStep
<1> QED
  BY <1>3, <1>4, <1>5

-----------------------------------------------------------------------------
(* Sessions *)

\* A step of Sessions is one of Launcher, or happens to the chat's row alone.
LEMMA LauncherStays == SessionsInit => Init
  BY DEF SessionsInit

LEMMA LauncherSteps == [SessionsNext]_allVars => [Next]_vars
  BY DEF SessionsNext, LoopLeaves, TurnBegins, TurnEnds, ClearTurns, Next, allVars

\* A turn is of a driven loop, and until Stop or close() takes it away the server
\* knows that loop.
TurnsHold ==
  \A l \in Launch : turn[l] # NoTurn =>
    /\ agentOf[l] \in Driven
    /\ turn[l].names \/ running = l \/ closed

\* What a turn may save: under an epoch that is still the row's, only a session
\* that began after the chat was last emptied.
Guarded(t) ==
  t # NoTurn =>
    /\ t.epoch <= epoch
    /\ t.epoch = epoch =>
         /\ t.asked = clears
         /\ t.resume # NoSession => t.resume.born = clears

EpochsHold == \A l \in Launch : Guarded(turn[l])

\* The types of the chat's row and of the turns.
RowTypes ==
  /\ session \in Session \cup {NoSession}
  /\ epoch \in 0..MaxClears /\ clears \in 0..epoch
  /\ turn \in [Launch -> Turn \cup {NoTurn}]

SInv == RowTypes /\ TurnsHold /\ EpochsHold /\ ClearedStaysCleared

LEMMA SessionsInitInv == SessionsInit => SInv
  BY SessionsAssumption
  DEF SessionsInit, SInv, RowTypes, TurnsHold, EpochsHold, Guarded, ClearedStaysCleared

\* The server loses sight of a loop only when it ends or at close(): the exits that
\* could be mistaken for its own are of children, and it is the only loop.
LEMMA KnownStep ==
  ASSUME IInv, NEW l \in Launch, agentOf[l] \in Driven, running = l \/ closed,
         LauncherStep \/ (\E k \in Launch \ {l} : LoopEnds(k))
  PROVE  running' = l \/ closed'
<1> USE LauncherAssumption DEF IInv
<1>1. CASE closed
  <2>1. closed' = closed \/ Close
    BY DEF LauncherStep, Start, Listed, Launched, ChildErrs, ChildCloses, LoopEnds, Stop,
           RunOnce, RunSettles, RunListed, RunWarmed, RunOpened, RunFinishes, RunKilled
  <2> QED
    BY <1>1, <2>1 DEF Close
<1>2. CASE running = l /\ ~closed
  <2>1. ASSUME NEW k \in Launch, Start(k) \/ Listed(k) PROVE running' = l
    BY <2>1, <1>2 DEF Start, Listed, Launched
  <2>2. ASSUME NEW k \in Launch, ChildErrs(k) \/ ChildCloses(k) PROVE running' = l
    BY <2>2, <1>2 DEF ChildErrs, ChildCloses, CallsHold, NoteExit
  <2>3. ASSUME NEW k \in Launch \ {l}, LoopEnds(k) PROVE running' = l
    BY <2>3, <1>2 DEF LoopEnds, LoopsHold
  <2>4. CASE Stop \/ \E r \in Run : RunOnce(r) \/ RunSettles(r) \/ RunKilled(r)
    BY <2>4, <1>2 DEF Stop, RunOnce, RunSettles, RunListed, RunWarmed, RunOpened, RunFinishes,
                      RunKilled, chatVars
  <2>5. CASE Close
    BY <2>5 DEF Close
  <2> QED
    BY <1>2, <2>1, <2>2, <2>3, <2>4, <2>5 DEF LauncherStep
<1> QED
  BY <1>1, <1>2

\* Turns begin on the loop the server knows; what else happens leaves the turns of
\* other loops alone.
LEMMA TurnsStep == IInv /\ SInv /\ [SessionsNext]_allVars => TurnsHold'
<1> SUFFICES ASSUME IInv, SInv, [SessionsNext]_allVars, NEW l \in Launch, turn'[l] # NoTurn
             PROVE  agentOf[l] \in Driven /\ (turn'[l].names \/ running' = l \/ closed')
  BY DEF TurnsHold
<1> USE DEF IInv, SInv, RowTypes
<1>1. CASE LauncherStep /\ UNCHANGED sessionVars
  BY <1>1, KnownStep DEF sessionVars, TurnsHold
<1>2. ASSUME NEW k \in Launch, LoopLeaves(k) PROVE agentOf[l] \in Driven /\ (turn'[l].names \/ running' = l \/ closed')
  BY <1>2, KnownStep DEF LoopLeaves, sessionVars, TurnsHold
<1>3. ASSUME NEW k \in Launch, TurnBegins(k) PROVE agentOf[l] \in Driven /\ (turn'[l].names \/ running' = l \/ closed')
  <2>1. UNCHANGED <<running, closed>>
    BY <1>3 DEF TurnBegins, vars
  <2>2. k # l => turn'[l] = turn[l]
    BY <1>3 DEF TurnBegins
  <2>3. agentOf[k] \in Driven /\ (running = k \/ closed)
    BY <1>3 DEF TurnBegins, LoopsHold
  <2> QED
    BY <2>1, <2>2, <2>3 DEF TurnsHold
<1>4. ASSUME NEW k \in Launch, TurnEnds(k) PROVE agentOf[l] \in Driven /\ (turn'[l].names \/ running' = l \/ closed')
  <2>1. UNCHANGED <<running, closed>>
    BY <1>4 DEF TurnEnds, vars
  <2>2. k # l => turn'[l] = turn[l]
    BY <1>4 DEF TurnEnds, MoreTurns
  <2>3. turn'[k] # NoTurn => turn'[k].names
    BY <1>4 DEF TurnEnds, MoreTurns, ChatSession
  <2>4. turn[k] # NoTurn
    BY <1>4 DEF TurnEnds
  <2> QED
    BY <2>1, <2>2, <2>3, <2>4 DEF TurnsHold
<1>5. CASE ClearTurns \/ UNCHANGED allVars
  BY <1>5 DEF ClearTurns, allVars, vars, sessionVars, TurnsHold
<1> QED
  BY <1>1, <1>2, <1>3, <1>4, <1>5 DEF SessionsNext

\* What chatSession gives a turn is of the right type, and guarded from the start.
LEMMA ChatSessionTyped ==
  ASSUME NEW a \in Agent, NEW s \in Session \cup {NoSession}, NEW e \in 0..MaxClears,
         NEW naming \in BOOLEAN, clears \in 0..MaxClears
  PROVE  ChatSession(a, s, e, naming) \in Turn
  BY DEF ChatSession, Turn

\* Everything a turn can report is a session.
LEMMA ReportedTyped ==
  ASSUME NEW l \in Launch, turn[l] \in Turn, NEW s \in Reported(l)
  PROVE  s \in Session /\ (s.born = turn[l].asked \/ (turn[l].resume # NoSession /\ s.born = turn[l].resume.born))
  BY LauncherAssumption DEF Reported, Turn, Session

\* A chat that is emptied moves its epoch, so no turn that began before can save
\* under it any more; a turn that begins reads both at once.
LEMMA EpochsStep ==
  SInv /\ [SessionsNext]_allVars => RowTypes' /\ EpochsHold' /\ ClearedStaysCleared'
<1> SUFFICES ASSUME SInv, [SessionsNext]_allVars
             PROVE  RowTypes' /\ EpochsHold' /\ ClearedStaysCleared'
  OBVIOUS
<1> USE LauncherAssumption, SessionsAssumption DEF SInv
<1>1. CASE UNCHANGED sessionVars
  BY <1>1 DEF sessionVars, RowTypes, EpochsHold, Guarded, ClearedStaysCleared
<1>2. ASSUME NEW l \in Launch, TurnBegins(l)
      PROVE  RowTypes' /\ EpochsHold' /\ ClearedStaysCleared'
  <2>1. turn' = [turn EXCEPT ![l] = ChatSession(agentOf[l], session, epoch, FALSE)]
        /\ UNCHANGED <<session, epoch, clears>>
    BY <1>2 DEF TurnBegins
  <2> agentOf[l] \in Agent
    OBVIOUS
  <2> session \in Session \cup {NoSession} /\ epoch \in 0..MaxClears /\ clears \in 0..MaxClears
    BY DEF RowTypes
  <2>2. ChatSession(agentOf[l], session, epoch, FALSE) \in Turn
    BY ChatSessionTyped
  <2>3. RowTypes' /\ ClearedStaysCleared'
    BY <2>1, <2>2 DEF RowTypes, ClearedStaysCleared
  <2>4. Guarded(ChatSession(agentOf[l], session, epoch, FALSE))
    BY DEF Guarded, ChatSession, ClearedStaysCleared, RowTypes
  <2>5. EpochsHold'
    BY <2>1, <2>4 DEF EpochsHold, Guarded, RowTypes
  <2> QED
    BY <2>3, <2>5
<1>3. ASSUME NEW l \in Launch, turn[l] # NoTurn, MoreTurns(l), UNCHANGED <<epoch, clears>>,
             session' = session \/ (epoch = turn[l].epoch /\ session' \in Reported(l))
      PROVE  RowTypes' /\ EpochsHold' /\ ClearedStaysCleared'
  <2>1. session' \in Session \cup {NoSession} /\ (session' # NoSession => session'.born = clears)
    BY <1>3, ReportedTyped DEF RowTypes, EpochsHold, Guarded, ClearedStaysCleared
  <2> DEFINE again == ChatSession(agentOf[l], session', epoch', TRUE)
  <2> agentOf[l] \in Agent
    OBVIOUS
  <2> epoch' \in 0..MaxClears /\ clears \in 0..MaxClears
    BY <1>3 DEF RowTypes
  <2>2. again \in Turn
    BY <2>1, ChatSessionTyped
  <2>3. turn' \in [Launch -> Turn \cup {NoTurn}]
    BY <1>3, <2>2 DEF MoreTurns, RowTypes
  <2>4. RowTypes' /\ ClearedStaysCleared'
    BY <1>3, <2>1, <2>3 DEF RowTypes, ClearedStaysCleared
  <2>5. again.epoch = epoch /\ again.asked = clears /\ (again.resume # NoSession => again.resume.born = clears)
    BY <1>3, <2>1 DEF ChatSession
  <2>6. \A k \in Launch : turn'[k] \in {turn[k], NoTurn, again}
    BY <1>3 DEF MoreTurns, RowTypes
  <2>7. ASSUME NEW k \in Launch, turn'[k] # NoTurn PROVE Guarded(turn[k])' \/ turn'[k] = again
    BY <1>3, <2>6 DEF EpochsHold, Guarded
  <2>8. ASSUME NEW k \in Launch PROVE Guarded(turn[k])'
    <3> epoch \in Int
      BY DEF RowTypes
    <3> HIDE DEF again
    <3>1. CASE turn'[k] = again
      BY <1>3, <2>5, <3>1 DEF Guarded
    <3>2. CASE turn'[k] = NoTurn
      BY <3>2 DEF Guarded
    <3> QED
      BY <2>7, <3>1, <3>2
  <2>9. EpochsHold'
    BY <2>8 DEF EpochsHold
  <2> QED
    BY <2>4, <2>9
<1>4. ASSUME ClearChatSession, epoch < MaxClears, clears' \in clears..(clears + 1),
             \A k \in Launch : turn'[k] \in {turn[k], NoTurn}, turn' \in [Launch -> Turn \cup {NoTurn}]
      PROVE  RowTypes' /\ EpochsHold' /\ ClearedStaysCleared'
  <2>1. session' = NoSession /\ epoch' = epoch + 1
    BY <1>4 DEF ClearChatSession
  <2>2. RowTypes' /\ ClearedStaysCleared'
    BY <1>4, <2>1 DEF RowTypes, ClearedStaysCleared
  <2>3. EpochsHold'
    BY <1>4, <2>1 DEF EpochsHold, Guarded, RowTypes, Turn
  <2> QED
    BY <2>2, <2>3
<1>5. ASSUME NEW l \in Launch, TurnEnds(l)
      PROVE  RowTypes' /\ EpochsHold' /\ ClearedStaysCleared'
  <2>1. CASE MoreTurns(l) /\ ((\E s \in Reported(l) : SaveChatSession(l, s)) \/ UNCHANGED <<session, epoch>>)
    BY <1>5, <2>1, <1>3 DEF TurnEnds, SaveChatSession
  <2>2. CASE epoch < MaxClears /\ ClearChatSession /\ turn' = [turn EXCEPT ![l] = NoTurn]
    BY <1>5, <2>2, <1>4 DEF TurnEnds, RowTypes
  <2> QED
    BY <1>5, <2>1, <2>2 DEF TurnEnds
<1>6. CASE ClearTurns
  BY <1>6, <1>4 DEF ClearTurns, RowTypes
<1> QED
  BY <1>1, <1>2, <1>5, <1>6 DEF SessionsNext, LoopLeaves, sessionVars, allVars

-----------------------------------------------------------------------------
(* What holds of every behaviour *)

\* Turns and sessions ask nothing of the launcher but what it does by itself: the
\* loops with their turns (turn-driver.ts:385-433) implement the launcher alone.
THEOREM SessionsKeepLauncher == SessionsSpec => Spec
<1> QED
  BY LauncherStays, LauncherSteps, PTL DEF SessionsSpec, Spec

LEMMA LauncherInvariant == Spec => [](IInv /\ RunsWithinLimit)
<1>1. Init => IInv /\ RunsWithinLimit
  <2>1. ASSUME Init PROVE RunsWithinLimit
    <3>1. Starting \cup OneShots = {}
      BY <2>1 DEF Init, Starting, OneShots, Waiting
    <3> QED
      BY <3>1, FS_EmptySet, LauncherAssumption DEF RunsWithinLimit
  <2> QED
    BY <2>1, InitInv
<1>2. IInv /\ RunsWithinLimit /\ [Next]_vars => (IInv /\ RunsWithinLimit)'
  BY NextInv, SlotsStep DEF IInv
<1> QED
  BY <1>1, <1>2, PTL DEF Spec

\* Type correctness of the launcher (launcher.ts:411-467), under Sessions too.
THEOREM LauncherTypeCorrect == SessionsSpec => []TypeOK
  BY LauncherInvariant, SessionsKeepLauncher, PTL DEF IInv

\* There is one chat agent, and Stop reaches it, whatever starts, stops, exits and
\* clears cross (launcher.ts:795-810, 1576-1624).  A late exit takes another launch's
\* place only if a start of the same CLI went wrong before it.
THEOREM OneAgent == SessionsSpec => []OneChatAgent
  BY LauncherInvariant, SessionsKeepLauncher, PTL DEF IInv

\* An exit is recorded as a stop only if the launch it ended was asked to stop: an
\* older Stop, or one pressed while nothing ran, excuses no crash (launcher.ts:879-888,
\* 915, 1559-1574).
THEOREM StopsWereAsked == SessionsSpec => []StoppedMeansStopped
  BY LauncherInvariant, SessionsKeepLauncher, PTL DEF IInv, ExitsHold

\* The runs that wait count against the cap (launcher.ts:752-756).
THEOREM SlotsBounded == SessionsSpec => []RunsWithinLimit
  BY LauncherInvariant, SessionsKeepLauncher, PTL

\* A scoped credential is revoked with what it was minted for (launcher.ts:1576-1624).
THEOREM CredentialsEnd == SessionsSpec => []CredentialsDieWithLaunch
  BY LauncherInvariant, SessionsKeepLauncher, PTL DEF IInv

\* close() leaves nothing running but what it could not see (launcher.ts:1347-1367).
THEOREM ShutdownReaches == SessionsSpec => []NothingSurvivesClose
  BY LauncherInvariant, SessionsKeepLauncher, PTL DEF IInv

LEMMA SessionsInvariant == SessionsSpec => []SInv
<1>1. SessionsInit => SInv
  BY SessionsInitInv
<1>2. IInv /\ SInv /\ [SessionsNext]_allVars => SInv'
  BY TurnsStep, EpochsStep DEF SInv
<1> QED
  BY <1>1, <1>2, LauncherInvariant, SessionsKeepLauncher, PTL DEF SessionsSpec

\* A cleared chat stays cleared (store.ts:845-880).
THEOREM ClearsHold == SessionsSpec => []ClearedStaysCleared
  BY SessionsInvariant, PTL DEF SInv

\* Two loops never have a question under way at once (turn-driver.ts:385-433).
THEOREM OneLoopAsks == SessionsSpec => []TurnsOfRunningOnly
<1>1. SInv => TurnsOfRunningOnly
  BY DEF SInv, TurnsHold, TurnsOfRunningOnly
<1> QED
  BY <1>1, SessionsInvariant, PTL

=============================================================================
