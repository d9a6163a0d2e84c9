------------------------------- MODULE Sessions -------------------------------
(***************************************************************************)
(* The CLI session one chat continues in (src/src/db/store.ts), read and   *)
(* written by the turns of the driven agents of Launcher                   *)
(* (src/src/agent/turn-driver.ts).  A turn is a process that may run for   *)
(* minutes: what it read of the chat's row when it began is what it saves  *)
(* under when it ends, and the user may empty the chat meanwhile.          *)
(***************************************************************************)
EXTENDS Launcher

CONSTANTS
  NoSession,       \* session_id is NULL
  NoTurn,          \* a loop with no process of its own
  MaxClears        \* bound: times the chat is emptied or a resume is refused

ASSUME SessionsAssumption == MaxClears \in Nat

VARIABLES
  session,         \* session_agent and session_id; of the id only what the
                   \* transcript remembers: how often the chat had been emptied
                   \* when its first message was asked
  epoch,           \* session_epoch
  turn,            \* what the turn of each loop read as it began
  clears           \* history: times the chat was emptied

sessionVars == <<session, epoch, turn, clears>>
allVars == <<vars, sessionVars>>

Session == [agent : Agent, born : 0..MaxClears]
Turn == [resume : Session \cup {NoSession}, epoch : 0..MaxClears,
         asked : 0..MaxClears, names : BOOLEAN]

SessionsInit ==
  /\ Init
  /\ session = NoSession
  /\ epoch = 0
  /\ turn = [l \in Launch |-> NoTurn]
  /\ clears = 0

\* What chatSession answers agent a of a row <<s, e>>: another agent's id means
\* nothing to its CLI, the epoch does.
ChatSession(a, s, e, naming) ==
  [resume |-> IF s # NoSession /\ s.agent = a THEN s ELSE NoSession,
   epoch |-> e, asked |-> clears, names |-> naming]

\* takeTurn: the row is read and the process spawned; the loop has waited for a
\* naming call under way and looked at `stopped` since.
TurnBegins(l) ==
  /\ agentOf[l] \in Driven
  /\ child[l] = "alive" /\ l \notin told
  /\ turn[l] = NoTurn
  /\ turn' = [turn EXCEPT ![l] = ChatSession(agentOf[l], session, epoch, FALSE)]
  /\ UNCHANGED <<vars, session, epoch, clears>>

\* The session the process reports: the one it resumed, or one it started.
Reported(l) ==
  {[agent |-> agentOf[l], born |-> turn[l].asked]}
    \cup (IF turn[l].resume = NoSession THEN {} ELSE {turn[l].resume})

\* Mutation: saveChatSession without its epoch.
SaveUnguarded(l, s) == session' = s /\ UNCHANGED epoch

\* saveChatSession: refused when the chat's session was dropped meanwhile.
SaveChatSession(l, s) ==
  /\ session' = IF epoch = turn[l].epoch THEN s ELSE session
  /\ UNCHANGED epoch

\* clearChatSession, and the same columns in clearTurns and trimChat.
ClearChatSession ==
  /\ session' = NoSession
  /\ epoch' = epoch + 1

\* After an answer the loop goes back to its wait, and may have the chat named
\* by a second process meanwhile (maybeName), which nothing waits for but the
\* next message.
MoreTurns(l) ==
  \/ turn' = [turn EXCEPT ![l] = NoTurn]
  \/ /\ ~turn[l].names /\ l \notin told
     /\ turn' = [turn EXCEPT ![l] = ChatSession(agentOf[l], session', epoch', TRUE)]

\* The process closes: killed, failed or with an answer; it may or may not have
\* named its session.  A refused resume drops the chat's session.
TurnEnds(l) ==
  /\ turn[l] # NoTurn
  /\ \/ /\ \/ \E s \in Reported(l) : SaveChatSession(l, s)
           \/ UNCHANGED <<session, epoch>>
        /\ MoreTurns(l)
     \/ /\ turn[l].resume # NoSession /\ epoch < MaxClears
        /\ ClearChatSession
        /\ turn' = [turn EXCEPT ![l] = NoTurn]
  /\ UNCHANGED <<vars, clears>>

\* The user empties the chat, or the storage budget trims it.
ClearTurns ==
  /\ clears < MaxClears /\ epoch < MaxClears
  /\ clears' = clears + 1
  /\ ClearChatSession
  /\ UNCHANGED <<vars, turn>>

\* A loop leaves run() between messages, a naming call still under way or not.
LoopLeaves(l) ==
  /\ turn[l] # NoTurn => turn[l].names
  /\ LoopEnds(l)
  /\ UNCHANGED sessionVars

SessionsNext ==
  \/ LauncherStep /\ UNCHANGED sessionVars
  \/ \E l \in Launch : TurnBegins(l) \/ TurnEnds(l) \/ LoopLeaves(l)
  \/ ClearTurns

SessionsSpec == SessionsInit /\ [][SessionsNext]_allVars

-----------------------------------------------------------------------------
(* Properties *)

SessionsTypeOK ==
  /\ TypeOK
  /\ session \in Session \cup {NoSession}
  /\ epoch \in 0..MaxClears /\ clears \in 0..epoch
  /\ turn \in [Launch -> Turn \cup {NoTurn}]

\* A cleared chat never gets its old session back: the session it resumes began
\* after the last time it was emptied, whatever turn was under way then, also
\* one of an agent that was stopped and replaced since.
ClearedStaysCleared == session # NoSession => session.born = clears

\* Only the agent the server knows answers in the chat: the answer of one that was
\* stopped ends before another is up.  Its naming call may still be ending.
TurnsOfRunningOnly ==
  \A l \in Launch : turn[l] # NoTurn => turn[l].names \/ running = l \/ closed

=============================================================================
