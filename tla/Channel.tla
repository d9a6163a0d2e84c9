------------------------------- MODULE Channel -------------------------------
(***************************************************************************)
(* The conversation channel (src/src/agent/channel.ts): user messages      *)
(* leased to agents, one message to one agent, over the agent_turns table  *)
(* (src/src/db/store.ts) that `boxaide serve` and `boxaide mcp` share.     *)
(* Every process has its own channel object with its own lease slot; only  *)
(* the rows are common.                                                    *)
(*                                                                         *)
(* Agents are the MCP clients of a process and one launched agent, whose   *)
(* loop (src/src/agent/driver.ts) the server drives: while it runs the     *)
(* MCP chat tools are refused there.  Handlers are synchronous, so each is *)
(* one action; a handler that frees a message goes on to offer it, and the *)
(* operators below pass the whole state S through those calls.             *)
(***************************************************************************)
EXTENDS Integers, FiniteSets, SequencesExt

CONSTANTS
  Proc,            \* processes over one database
  Server,          \* the one that runs `boxaide serve`
  Client,          \* MCP clients
  ProcOf,          \* the process a client is connected to
  Launched,        \* the agent the server launches and drives
  MaxMessage,      \* bound: messages the user types
  Chat,            \* conversations
  ChatOf,          \* the conversation a message is typed in
  MaxDeliveries,   \* MAX_DELIVERIES (3 in the code)
  MaxEvents        \* bound: everything but typing, asking and answering

Message == 1..MaxMessage
Agent == Client \cup {Launched}
None == 0          \* no message

ASSUME ChannelAssumption ==
  /\ Server \in Proc
  /\ ProcOf \in [Client -> Proc]
  /\ Launched \notin Client
  /\ MaxMessage \in Nat
  /\ ChatOf \in [Message -> Chat]
  /\ MaxDeliveries \in Nat \ {0}
  /\ MaxEvents \in Nat

VARIABLES
  turn,            \* agent_turns, user rows
  chats,           \* agent_chats: the active one and the archived ones
  proc,            \* the channel object of each process
  agent,           \* what each agent is doing, and the message it was given
  running,         \* the launched agent is up, or told to stop, or gone
  excuse,          \* history: what took a message from an agent still on it
  events           \* events left

vars == <<turn, chats, proc, agent, running, excuse, events>>

NoName == "nobody"
NotRefused == [msg |-> None, name |-> NoName]

\* delivered, delivery_count, how many agent rows carry reply_to, and whether
\* the row is inside USER_TURN_TTL_MS.
TurnRow == [at : {"none", "queued", "leased", "gone"},
            tries : 0..MaxDeliveries, replies : Nat, fresh : BOOLEAN]

Place(a) == IF a = Launched THEN Server ELSE ProcOf[a]
Driven(p) == p = Server /\ running # "no"

\* clientName: the launched agent, else whoever initialized last.
ClientName(p) == IF Driven(p) THEN Launched ELSE proc[p].last

Fresh == [up |-> TRUE, work |-> None, holder |-> NoName, waiting |-> <<>>,
          refused |-> NotRefused, askers |-> {}, last |-> NoName]

Init ==
  /\ turn = [m \in Message |-> [at |-> "none", tries |-> 0, replies |-> 0, fresh |-> TRUE]]
  /\ \E c \in Chat : chats = [active |-> c, archived |-> {}]
  /\ proc = [p \in Proc |-> Fresh]
  /\ agent = [a \in Agent |-> [at |-> "off", msg |-> None]]
  /\ running = "no"
  /\ excuse = [m \in Message |-> {}]
  /\ events = MaxEvents

-----------------------------------------------------------------------------
(* The state a handler threads through the calls it makes *)

Now == [turn |-> turn, chats |-> chats, proc |-> proc, agent |-> agent, excuse |-> excuse]

Become(S) ==
  \E T \in {S} :
    /\ turn' = T.turn
    /\ chats' = T.chats
    /\ proc' = T.proc
    /\ agent' = T.agent
    /\ excuse' = T.excuse

Unlimited == UNCHANGED <<running, events>>
Event == events > 0 /\ events' = events - 1

Taken == {"clock", "retry", "stop", "boot", "launch", "exit", "namesake"}

\* Somebody is still on the message, or a process believes so.
InHand(S, m) == \/ \E a \in Agent : S.agent[a].msg = m
                \/ \E p \in Proc : S.proc[p].work = m

\* History: the message is freed although it is in hand.
Excuse(S, m, why) ==
  IF why \in Taken /\ InHand(S, m) THEN [S EXCEPT !.excuse[m] = @ \cup {why}] ELSE S

\* History: this.work is dropped with the row still leased.
Strand(S, p, why) ==
  LET m == S.proc[p].work
  IN  IF m # None /\ S.turn[m].at = "leased"
      THEN [S EXCEPT !.excuse[m] = @ \cup {why}] ELSE S

DropWork(S, p) == [S EXCEPT !.proc[p].work = None, !.proc[p].holder = NoName]
DropWorkOn(S, p, m) == IF S.proc[p].work = m THEN DropWork(S, p) ELSE S
Idle(S, a) == [S EXCEPT !.agent[a] = [at |-> "away", msg |-> None]]
Unpark(S, p, a) == [S EXCEPT !.proc[p].waiting = RemoveFirstMatch(@, LAMBDA w : w.agent = a)]

Answered(S, m) == S.turn[m].replies > 0
Exists(S, m) == S.turn[m].at \in {"queued", "leased"}
Writable(S, m) == ChatOf[m] \notin S.chats.archived

\* expireStaleUserTurns: a queued message past the window is retired, marked
\* as a dropped one is.
Retire(S) ==
  [S EXCEPT !.turn = [m \in Message |->
     IF @[m].at = "queued" /\ ~@[m].fresh
     THEN [@[m] EXCEPT !.at = "leased", !.tries = MaxDeliveries] ELSE @[m]]]

\* reparkedFor: what this client walked away from.
Skip(S, p, name) ==
  IF S.proc[p].refused.name = name THEN S.proc[p].refused.msg ELSE None

\* Mutant: only the chat on screen is looked at.
OfferOnScreen(S, p, name) ==
  LET here == {m \in Message : /\ S.turn[m].at = "queued"
                               /\ ChatOf[m] = S.chats.active
                               /\ m # Skip(S, p, name)}
  IN  IF here = {} THEN None ELSE CHOOSE m \in here : \A k \in here : m <= k

\* claimNextUserTurn picks: the chat on screen first, then the oldest.
Offer(S, p, name) ==
  LET claimable == {m \in Message : /\ S.turn[m].at = "queued"
                                    /\ Writable(S, m)
                                    /\ m # Skip(S, p, name)}
      onScreen == {m \in claimable : ChatOf[m] = S.chats.active}
      first == IF onScreen = {} THEN claimable ELSE onScreen
  IN  IF first = {} THEN None ELSE CHOOSE m \in first : \A k \in first : m <= k

\* beginWork writes over whatever lease this process had open.
BeginWork(S, p, m, name) ==
  [Strand(S, p, "displaced") EXCEPT
     !.proc[p].work = m,
     !.proc[p].holder = name,
     !.proc[p].refused = IF @.msg = m THEN NotRefused ELSE @]

\* The claim, the hold and the hand-over.
Take(S, p, m, name, a) ==
  [BeginWork(S, p, m, name) EXCEPT
     !.turn[m].at = "leased",
     !.turn[m].tries = @ + 1,
     !.agent[a] = [at |-> "busy", msg |-> m]]

\* The waiter in front is offered a message, as far as it has not refused it.
ServeFirst(S, p) ==
  LET T == Retire(S)
      w == Head(T.proc[p].waiting)
      m == Offer(T, p, w.name)
  IN  IF m = None THEN T
      ELSE Take([T EXCEPT !.proc[p].waiting = Tail(@)], p, m, w.name, w.agent)

\* handOff: waiters in order, until one is offered nothing: then so it is again.
HandOff(S, p) ==
  LET waiters == Len(S.proc[p].waiting)
      served[n \in 0..waiters] == IF n = 0 THEN S ELSE ServeFirst(served[n - 1], p)
  IN  served[waiters]

\* releaseLease over unclaimUserTurn: "revert" is a claim nobody read, "dead"
\* ends the message here.
Release(S, p, m, how, why) ==
  LET held == DropWorkOn(S, p, m)
      freed == Excuse(held, m, why)
  IN  IF S.turn[m].at # "leased" \/ Answered(S, m) THEN held
      ELSE IF how = "dead" THEN [freed EXCEPT !.turn[m].tries = MaxDeliveries]
      ELSE IF how = "revert"
        THEN HandOff([freed EXCEPT !.turn[m].at = "queued", !.turn[m].tries = @ - 1], p)
      ELSE IF S.turn[m].tries >= MaxDeliveries THEN freed
      ELSE HandOff([freed EXCEPT !.turn[m].at = "queued"], p)

-----------------------------------------------------------------------------
(* Typing, asking, answering *)

\* POST /api/agent/messages
Post(m) ==
  /\ proc[Server].up
  /\ turn[m].at = "none" /\ \A k \in Message : k < m => turn[k].at # "none"
  /\ Writable(Now, m)
  /\ Become(HandOff([Now EXCEPT !.turn[m].at = "queued", !.chats.active = ChatOf[m]], Server))
  /\ Unlimited

\* noteClient: an MCP client's initialize.
Connect(a) ==
  /\ agent[a].at = "off"
  /\ proc[ProcOf[a]].up
  /\ Become([Idle(Now, a) EXCEPT !.proc[ProcOf[a]].last = a])
  /\ Unlimited

\* Mutant: anybody's return ends the open lease.
ReparkAnyone(S, p, name) ==
  LET m == S.proc[p].work
  IN  IF m # None
      THEN Release([S EXCEPT !.proc[p].refused = [msg |-> m, name |-> name]],
                   p, m, "release", "repark")
      ELSE S

\* noteRepark: the holder is back without an answer, or another client of the
\* name it asked under: clientName is one for the whole process.
Repark(S, p, name) ==
  LET m == S.proc[p].work
  IN  IF m # None /\ S.proc[p].holder = name
      THEN Release([S EXCEPT !.proc[p].refused = [msg |-> m, name |-> name]],
                   p, m, "release", "namesake")
      ELSE S

\* awaitUserTurn
Ask(a) ==
  LET p == Place(a)
      name == ClientName(p)
      S == Retire(Repark([Idle(Now, a) EXCEPT !.proc[p].askers = @ \cup {name}], p, name))
      m == Offer(S, p, name)
  IN  /\ agent[a].at \in {"away", "busy"}
      /\ proc[p].up
      /\ Driven(p) => a = Launched
      /\ a = Launched => agent[a].at = "away" /\ running = "yes"
      /\ Become(IF m # None THEN Take(S, p, m, name, a)
                ELSE [S EXCEPT !.agent[a].at = "parked",
                               !.proc[p].waiting = Append(@, [agent |-> a, name |-> name])])
      /\ Unlimited

\* chat_say: the answer goes to whatever this process holds open.
Say(a) ==
  LET p == ProcOf[a]
      m == proc[p].work
  IN  /\ agent[a].at = "busy"
      /\ proc[p].up
      /\ IF Driven(p) \/ m = None THEN Become(Idle(Now, a))
         ELSE Become(DropWork([Idle(Now, a) EXCEPT !.turn[m].replies = @ + 1], p))
      /\ Unlimited

\* Mutant: the answer goes to whatever is open, as chat_say's does.
ReplyToWork(S, m) ==
  LET held == S.proc[Server].work
  IN  IF held = None THEN S
      ELSE DropWork([S EXCEPT !.turn[held].replies = @ + 1], Server)

\* answer: the driven loop names the question, and drops the answer when the
\* question is gone or put away.  Posting it ends whatever lease is open.
Reply(S, m) ==
  LET T == IF S.proc[Server].work = m THEN S ELSE Strand(S, Server, "displaced")
  IN  IF Exists(S, m) /\ Writable(S, m)
      THEN DropWork([T EXCEPT !.turn[m].replies = @ + 1], Server)
      ELSE DropWorkOn(S, Server, m)

AnswerTurn ==
  /\ agent[Launched].at = "busy"
  /\ Become(Reply(Idle(Now, Launched), agent[Launched].msg))
  /\ Unlimited

\* Mutant: the claim is dropped without giving the message back.
ExitedDropping(S) ==
  DropWork([S EXCEPT !.agent[Launched] = [at |-> "off", msg |-> None],
                     !.proc[Server].askers = {}], Server)

\* setLaunchedAgent(null): the exit ends the claim, if nobody else had asked.
Exited(S) ==
  LET gone == [S EXCEPT !.agent[Launched] = [at |-> "off", msg |-> None],
                        !.proc[Server].askers = {}]
      m == S.proc[Server].work
  IN  IF Cardinality(S.proc[Server].askers) <= 1 /\ m # None
      THEN Release(gone, Server, m, "release", "exit") ELSE gone

\* runDrivenLoop's failed turn: the message goes back, and the loop goes on,
\* or gives up after MAX_FAILURES in a row or a message dropped for good.
TurnFails ==
  LET m == agent[Launched].msg
      S == Release(Idle(Now, Launched), Server, m, "release", "failed")
      acked == turn[m].at = "leased" /\ Answered(Now, m)
      dropped == turn[m].at = "leased" /\ ~Answered(Now, m) /\ turn[m].tries >= MaxDeliveries
  IN  /\ agent[Launched].at = "busy"
      /\ running = "yes"
      /\ \/ ~dropped /\ Become(S) /\ UNCHANGED running
         \/ ~acked /\ Become(Exited(S)) /\ running' = "no"
      /\ UNCHANGED events

\* A loop told to stop: the turn it ends without an answer goes back unread.
LoopEnds ==
  LET m == agent[Launched].msg
      S == Idle(Now, Launched)
  IN  /\ running = "stopping"
      /\ Become(Exited(IF m = None THEN S ELSE Release(S, Server, m, "revert", "unread")))
      /\ running' = "no"
      /\ UNCHANGED events

\* The 400 ms poll: a message may have come from the other process.
Poll(p) ==
  /\ proc[p].waiting # <<>>
  /\ Become(HandOff(Now, p))
  /\ Unlimited

\* A parked wait times out or is cancelled.
GiveUp(a) ==
  /\ agent[a].at = "parked"
  /\ Become(Unpark(Idle(Now, a), Place(a), a))
  /\ Unlimited

\* dispatchChat: the call was cancelled as its message arrived, unread.
HangUp(a) ==
  /\ agent[a].at = "busy"
  /\ proc[ProcOf[a]].up
  /\ Become(Release(Idle(Now, a), ProcOf[a], agent[a].msg, "revert", "unread"))
  /\ Unlimited

\* REPARK_COOLDOWN_MS
CooldownEnds(p) ==
  /\ proc[p].refused # NotRefused
  /\ Become([Now EXCEPT !.proc[p].refused = NotRefused])
  /\ Unlimited

-----------------------------------------------------------------------------
(* The user's buttons *)

\* POST /api/agent/stop
Cancel ==
  /\ proc[Server].work # None
  /\ Become(Reply(DropWork(Excuse(Now, proc[Server].work, "stop"), Server), proc[Server].work))
  /\ Event /\ UNCHANGED running

\* Mutant: an answered message can be sent again.
RetryAnswered(m) ==
  LET S == [DropWorkOn(Excuse(Now, m, "retry"), Server, m) EXCEPT
              !.turn[m].at = "queued", !.turn[m].tries = 0]
  IN  /\ proc[Server].up
      /\ Exists(Now, m) /\ turn[m].fresh
      /\ Become(HandOff(S, Server))
      /\ Event /\ UNCHANGED running

\* POST /api/agent/retry: requeueTurn
Retry(m) ==
  LET S == [DropWorkOn(Excuse(Now, m, "retry"), Server, m) EXCEPT
              !.turn[m].at = "queued", !.turn[m].tries = 0,
              !.proc[Server].refused = IF @.msg = m THEN NotRefused ELSE @]
  IN  /\ proc[Server].up
      /\ Exists(Now, m) /\ turn[m].fresh /\ ~Answered(Now, m)
      /\ Become(HandOff(S, Server))
      /\ Event /\ UNCHANGED running

\* afterChatRemoved, clear: the hold on a message of this chat is dropped.
Removed(S, c) ==
  LET m == S.proc[Server].work
  IN  IF m # None /\ ChatOf[m] = c
      THEN DropWork(Strand(S, Server, "archived"), Server) ELSE S

Clear(c) ==
  LET S == [Now EXCEPT !.turn = [m \in Message |->
              IF ChatOf[m] = c /\ Exists(Now, m) THEN [@[m] EXCEPT !.at = "gone"] ELSE @[m]]]
  IN  /\ proc[Server].up
      /\ c \notin chats.archived
      /\ Become(Removed(S, c))
      /\ Event /\ UNCHANGED running

\* ensureActiveChat: another live chat, or a new one.
Archive(c) ==
  LET live == Chat \ (chats.archived \cup {c})
      S == Removed([Now EXCEPT !.chats.archived = @ \cup {c}], c)
  IN  /\ proc[Server].up
      /\ c \notin chats.archived
      /\ \E next \in IF chats.active # c THEN {chats.active}
                     ELSE IF live = {} THEN {"new"} ELSE live :
           Become([S EXCEPT !.chats.active = next])
      /\ Event /\ UNCHANGED running

\* selectChat: opening a chat brings it back from the archive.
Open(c) ==
  /\ proc[Server].up
  /\ chats.active # c
  /\ Become([Now EXCEPT !.chats = [active |-> c, archived |-> @.archived \ {c}]])
  /\ Event /\ UNCHANGED running

\* AgentLauncher.start: setLaunchedAgent with requeueDropped, then the driver.
Launch ==
  LET dropped == {m \in Message : /\ turn[m].at = "leased" /\ turn[m].fresh
                                  /\ turn[m].tries = MaxDeliveries /\ ~Answered(Now, m)}
      kept == Retire([Idle(Now, Launched) EXCEPT !.proc[Server].askers = {}])
      S == [kept EXCEPT
              !.turn = [m \in Message |->
                 IF m \in dropped THEN [@[m] EXCEPT !.at = "queued", !.tries = 0] ELSE @[m]],
              !.excuse = [m \in Message |->
                 IF m \in dropped /\ InHand(Now, m) THEN @[m] \cup {"launch"} ELSE @[m]]]
  IN  /\ proc[Server].up
      /\ running = "no"
      /\ Become(IF dropped = {} THEN S ELSE HandOff(S, Server))
      /\ running' = "yes"
      /\ Event

\* AgentLauncher.stop: a wait ends here, a turn when its CLI does.
StopLaunched ==
  /\ running = "yes"
  /\ Become(IF agent[Launched].at = "parked"
            THEN Unpark(Idle(Now, Launched), Server, Launched) ELSE Now)
  /\ running' = "stopping"
  /\ Event

-----------------------------------------------------------------------------
(* Clocks, deaths and starts *)

\* presence(), which only the server is asked for: five minutes with no proof
\* of life, which a launched agent alone on the channel never needs to give.
Lapse ==
  /\ proc[Server].work # None
  /\ ~(running # "no" /\ Cardinality(proc[Server].askers) <= 1)
  /\ Become(Release(Now, Server, proc[Server].work, "release", "clock"))
  /\ Event /\ UNCHANGED running

\* WORK_HARD_MAX_MS: half an hour, whatever the holder shows.
HardLapse ==
  /\ proc[Server].work # None
  /\ Become(Release(Now, Server, proc[Server].work, "dead", "clock"))
  /\ Event /\ UNCHANGED running

\* USER_TURN_TTL_MS goes by.
Age(m) ==
  /\ turn[m].at # "none" /\ turn[m].fresh
  /\ Become([Now EXCEPT !.turn[m].fresh = FALSE])
  /\ Event /\ UNCHANGED running

\* An HTTP client goes away without a word.
Vanish(a) ==
  /\ ProcOf[a] = Server
  /\ agent[a].at # "off"
  /\ Become(Unpark([Now EXCEPT !.agent[a] = [at |-> "off", msg |-> None]], Server, a))
  /\ Event /\ UNCHANGED running

\* A process ends, close() or not: nothing is written.  A stdio process and its
\* client end together; an HTTP client outlives the server with what it was given.
Exit(p) ==
  LET After(a) ==
        IF Place(a) # p THEN agent[a]
        ELSE IF p # Server \/ a = Launched THEN [at |-> "off", msg |-> None]
        ELSE IF agent[a].at = "parked" THEN [at |-> "away", msg |-> None]
        ELSE agent[a]
  IN  /\ proc[p].up
      /\ Become([Strand(Now, p, "died") EXCEPT
                   !.proc[p] = [Fresh EXCEPT !.up = FALSE],
                   !.agent = [a \in Agent |-> After(a)]])
      /\ running' = IF p = Server THEN "no" ELSE running
      /\ Event

\* The AgentChannel constructor: releaseOrphanLeases.
Boot(p) ==
  LET orphan == {m \in Message : /\ turn[m].at = "leased" /\ turn[m].tries < MaxDeliveries
                                 /\ ~Answered(Now, m)}
  IN  /\ ~proc[p].up
      /\ Become([Now EXCEPT
           !.proc[p] = Fresh,
           !.turn = [m \in Message |-> IF m \in orphan THEN [@[m] EXCEPT !.at = "queued"] ELSE @[m]],
           !.excuse = [m \in Message |->
              IF m \in orphan /\ InHand(Now, m) THEN @[m] \cup {"boot"} ELSE @[m]]])
      /\ Event /\ UNCHANGED running

Next ==
  \/ \E m \in Message : Post(m) \/ Retry(m) \/ Age(m)
  \/ \E a \in Client : Connect(a) \/ Say(a) \/ HangUp(a) \/ Vanish(a)
  \/ \E a \in Agent : Ask(a) \/ GiveUp(a)
  \/ \E c \in Chat : Clear(c) \/ Archive(c) \/ Open(c)
  \/ \E p \in Proc : Poll(p) \/ CooldownEnds(p) \/ Exit(p) \/ Boot(p)
  \/ AnswerTurn \/ TurnFails \/ LoopEnds
  \/ Cancel \/ Launch \/ StopLaunched \/ Lapse \/ HardLapse

Spec == Init /\ [][Next]_vars

\* The server polls, and the driven loop asks again and ends every turn.
FairSpec ==
  /\ Spec
  /\ WF_vars(Poll(Server))
  /\ WF_vars(Ask(Launched))
  /\ WF_vars(AnswerTurn \/ TurnFails)
  /\ WF_vars(CooldownEnds(Server))

-----------------------------------------------------------------------------
(* Properties *)

TypeOK ==
  /\ turn \in [Message -> TurnRow]
  /\ chats \in [active : Chat \cup {"new"}, archived : SUBSET Chat]
  /\ agent \in [Agent -> [at : {"off", "away", "parked", "busy"}, msg : Message \cup {None}]]
  /\ \A p \in Proc : proc[p].work \in Message \cup {None}
  /\ running \in {"no", "yes", "stopping"}

OnIt(m) == {a \in Agent : agent[a].msg = m}
Excused(m, reasons) == excuse[m] \cap reasons # {}

\* A message is leased to exactly one agent (channel.ts:23-27).  What frees it
\* from an agent still working on it is the user, a clock, or one of the calls
\* that do not know whose lease it is: a start, a launch, the launched agent's
\* exit, a client asking under the same name.  Nothing else does.
OneWorker == \A m \in Message : Cardinality(OnIt(m)) <= 1 \/ Excused(m, Taken)

\* So two answers to one message need a lease that was taken away that way.
AnsweredOnce == \A m \in Message : turn[m].replies <= 1 \/ Excused(m, Taken)

\* "This process just started. Any lease in the file is held by nobody"
\* (channel.ts:369): where no process died with its lease, a start puts no
\* second agent on a message.
OrphansOnly ==
  \A m \in Message :
    Cardinality(OnIt(m)) <= 1 \/ Excused(m, (Taken \ {"boot"}) \cup {"died"})

\* Leased, unanswered and not on the dropped list, while no process holds it: a
\* message nobody will be offered again and nothing on screen says so.
Stranded(m) ==
  /\ turn[m].at = "leased"
  /\ turn[m].tries < MaxDeliveries
  /\ turn[m].replies = 0
  /\ \A p \in Proc : proc[p].work # m

\* A lease is given back rather than sit there delivered for ever
\* (channel.ts:834-837), unless its process died, another message took its
\* place in the one slot a process has, or its chat was archived.
NothingForgotten ==
  \A m \in Message : Stranded(m) => Excused(m, {"displaced", "archived", "died"})

\* The driven loop's answer is filed under the question it was given, never
\* under another one the process holds by then.  (chat_say promises no such thing.)
AnswerFits ==
  [][\A m \in Message :
       turn'[m].replies > turn[m].replies /\ agent'[Launched].msg # agent[Launched].msg
         => agent[Launched].msg = m]_vars

\* With the driven agent up, a message in a live chat does not wait for ever,
\* whichever chat is on screen and whatever was refused before it.
QueuedIsTaken ==
  \A m \in Message :
    turn[m].at = "queued" ~>
      turn[m].at # "queued" \/ running # "yes" \/ ChatOf[m] \in chats.archived
=============================================================================
