--------------------------- MODULE ChannelProofs ---------------------------
(***************************************************************************)
(* Proofs about Channel, for any processes, clients, chats, messages and   *)
(* bound on the deliveries and the events.                                 *)
(*                                                                         *)
(* A handler passes a state through the calls it makes, so the invariant   *)
(* is a predicate of such a state, Good, and there is one lemma per call:  *)
(* what it makes of a Good state is Good again.  Its core is Held: the     *)
(* hands a message is in are one agent and the process that agent asked,   *)
(* and a message that waits, or that is answered, is in nobody's.          *)
(***************************************************************************)
EXTENDS Channel, FiniteSetTheorems, SequenceTheorems, NaturalsInduction, WellFoundedInduction, TLAPS

Name == Agent \cup {NoName}
Reason == Taken \cup {"displaced", "archived", "died"}

Waiter == [agent : Agent, name : Name]

ProcRow == [up : BOOLEAN, work : Message \cup {None}, holder : Name,
            waiting : Seq(Waiter),
            refused : [msg : Message \cup {None}, name : Name],
            askers : SUBSET Name, last : Name]

State == [turn : [Message -> TurnRow],
          chats : [active : Chat \cup {"new"}, archived : SUBSET Chat],
          proc : [Proc -> ProcRow],
          agent : [Agent -> [at : {"off", "away", "parked", "busy"}, msg : Message \cup {None}]],
          excuse : [Message -> SUBSET Reason]]

\* Something that may take a message away took this one.
Freed(S, m) == S.excuse[m] \cap Taken # {}

Waits(S, m) == S.turn[m].at \in {"none", "queued"}

\* One agent is on it, and the process it asked; nobody is while it waits.  It is
\* answered once, and then no process, nor the launched agent, has it to answer.
Held(S, m) ==
  /\ \A a, b \in Agent : S.agent[a].msg = m /\ S.agent[b].msg = m => a = b
  /\ \A p, q \in Proc : S.proc[p].work = m /\ S.proc[q].work = m => p = q
  /\ \A a \in Agent, p \in Proc : S.agent[a].msg = m /\ S.proc[p].work = m => p = Place(a)
  /\ Waits(S, m) => ~InHand(S, m) /\ S.turn[m].replies = 0
  /\ S.turn[m].replies <= 1
  /\ S.agent[Launched].msg = m => S.turn[m].replies = 0
  /\ \A p \in Proc : S.proc[p].work = m => S.turn[m].replies = 0

Leases(S) == \A m \in Message : Freed(S, m) \/ Held(S, m)

\* What waits may be delivered once more, what is leased was delivered.
Counts(S) ==
  \A m \in Message : /\ Waits(S, m) => S.turn[m].tries < MaxDeliveries
                     /\ S.turn[m].at = "leased" => S.turn[m].tries >= 1

\* An agent has a message while it is busy.
Seats(S) == \A a \in Agent : S.agent[a].at = "busy" <=> S.agent[a].msg # None

\* Who waits in a process is parked there, once; nobody does in a dead one.
Queue(S, p) ==
  LET w == S.proc[p].waiting IN
  /\ \A i \in 1..Len(w) : S.agent[w[i].agent].at = "parked" /\ Place(w[i].agent) = p
  /\ \A i, j \in 1..Len(w) : w[i].agent = w[j].agent => i = j
  /\ ~S.proc[p].up => S.proc[p].work = None /\ w = <<>>

Queues(S) == \A p \in Proc : Queue(S, p)

WaitsNowhere(S, a) ==
  \A q \in Proc : \A i \in 1..Len(S.proc[q].waiting) : S.proc[q].waiting[i].agent # a

\* What the server holds is in a live chat.
Live(S) == \A m \in Message : S.proc[Server].work = m => Writable(S, m)

Good(S) == S \in State /\ Leases(S) /\ Counts(S) /\ Seats(S) /\ Queues(S) /\ Live(S)

\* NothingForgotten, of one message of a state.
Kept(S, m) ==
  /\ S.turn[m].at = "leased"
  /\ S.turn[m].tries < MaxDeliveries
  /\ S.turn[m].replies = 0
  /\ \A p \in Proc : S.proc[p].work # m
  => S.excuse[m] \cap {"displaced", "archived", "died"} # {}

AllKept(S) == \A m \in Message : Kept(S, m)

\* What calls that free and offer messages leave alone: the answers, every agent
\* that is not waiting, and which processes are up.
Serves(S, T) ==
  /\ \A m \in Message : T.turn[m].replies = S.turn[m].replies
  /\ \A a \in Agent : S.agent[a].at # "parked" => T.agent[a] = S.agent[a]
  /\ \A q \in Proc : S.proc[q].up => T.proc[q].up

-----------------------------------------------------------------------------
(* What is given of the constants *)

LEMMA Basics ==
  /\ Server \in Proc
  /\ \A a \in Agent : Place(a) \in Proc
  /\ Place(Launched) = Server /\ Launched \in Agent
  /\ \A a \in Client : a \in Agent /\ a # Launched /\ Place(a) = ProcOf[a]
  /\ None \notin Message /\ Message \subseteq Nat \ {0}
  /\ MaxDeliveries \in Nat /\ MaxDeliveries >= 1
  /\ \A m \in Message : ChatOf[m] \in Chat
  BY ChannelAssumption DEF Agent, Place, Message, None

LEMMA ServesAgain ==
  ASSUME NEW S, NEW T, NEW U, Serves(S, T), Serves(T, U)
  PROVE  Serves(S, U)
  BY DEF Serves

LEMMA ServesSelf == \A S : Serves(S, S)
  BY DEF Serves

-----------------------------------------------------------------------------
(* The small changes *)

\* Hands that only let go, of a message that does not come back, stay as they
\* should be.
LEMMA HeldOn ==
  ASSUME NEW S, NEW T, NEW m \in Message, Freed(S, m) \/ Held(S, m),
         S.excuse[m] \subseteq T.excuse[m],
         \A a \in Agent : T.agent[a].msg = m => S.agent[a].msg = m,
         \A p \in Proc : T.proc[p].work = m => S.proc[p].work = m,
         T.turn[m].replies = S.turn[m].replies,
         Waits(T, m) => Waits(S, m)
  PROVE  Freed(T, m) \/ Held(T, m)
<1>1. CASE Freed(S, m)
  BY <1>1 DEF Freed
<1>2. CASE Held(S, m)
  <2>1. Launched \in Agent
    BY Basics
  <2>2. InHand(T, m) => InHand(S, m)
    BY DEF InHand
  <2> QED
    BY <1>2, <2>1, <2>2 DEF Held
<1> QED
  BY <1>1, <1>2

LEMMA DropWorkIs ==
  ASSUME NEW S \in State, NEW p \in Proc
  PROVE  /\ DropWork(S, p) \in State
         /\ DropWork(S, p).turn = S.turn /\ DropWork(S, p).chats = S.chats
         /\ DropWork(S, p).agent = S.agent /\ DropWork(S, p).excuse = S.excuse
         /\ \A q \in Proc : /\ DropWork(S, p).proc[q].work = IF q = p THEN None ELSE S.proc[q].work
                            /\ DropWork(S, p).proc[q].waiting = S.proc[q].waiting
                            /\ DropWork(S, p).proc[q].up = S.proc[q].up
<1> DEFINE R == [S.proc[p] EXCEPT !.work = None, !.holder = NoName]
           P == [S.proc EXCEPT ![p] = R]
<1>1. S.proc \in [Proc -> ProcRow] /\ S.proc[p] \in ProcRow
  BY DEF State
<1>2. /\ R \in ProcRow
      /\ R.work = None /\ R.waiting = S.proc[p].waiting /\ R.up = S.proc[p].up
  BY <1>1 DEF ProcRow, Name
<1>3. DropWork(S, p) = [S EXCEPT !.proc = P]
  BY <1>1 DEF DropWork, State, ProcRow
<1> HIDE DEF R
<1>4. P \in [Proc -> ProcRow]
  BY <1>1, <1>2
<1> QED
  BY <1>1, <1>2, <1>3, <1>4 DEF State

LEMMA ExcuseIs ==
  ASSUME NEW S \in State, NEW m \in Message, NEW why
  PROVE  /\ Excuse(S, m, why) \in State
         /\ Excuse(S, m, why).turn = S.turn /\ Excuse(S, m, why).chats = S.chats
         /\ Excuse(S, m, why).agent = S.agent /\ Excuse(S, m, why).proc = S.proc
         /\ \A k \in Message : S.excuse[k] \subseteq Excuse(S, m, why).excuse[k]
         /\ why \in Taken /\ InHand(S, m) => Freed(Excuse(S, m, why), m)
  BY DEF Excuse, State, Reason, Freed

LEMMA StrandIs ==
  ASSUME NEW S \in State, NEW p \in Proc, NEW why \in {"displaced", "archived", "died"}
  PROVE  /\ Strand(S, p, why) \in State
         /\ Strand(S, p, why).turn = S.turn /\ Strand(S, p, why).chats = S.chats
         /\ Strand(S, p, why).agent = S.agent /\ Strand(S, p, why).proc = S.proc
         /\ \A k \in Message : S.excuse[k] \subseteq Strand(S, p, why).excuse[k]
         /\ \A k \in Message : S.proc[p].work = k /\ S.turn[k].at = "leased" =>
              why \in Strand(S, p, why).excuse[k]
<1>1. S.proc[p].work \in Message \cup {None}
  BY DEF State, ProcRow
<1>2. CASE S.proc[p].work # None /\ S.turn[S.proc[p].work].at = "leased"
  <2>1. Strand(S, p, why) = [S EXCEPT !.excuse[S.proc[p].work] = @ \cup {why}]
    BY <1>2 DEF Strand
  <2> QED
    BY SMTT(30), <1>1, <1>2, <2>1 DEF State, Reason
<1>3. CASE ~(S.proc[p].work # None /\ S.turn[S.proc[p].work].at = "leased")
  <2>1. Strand(S, p, why) = S
    BY <1>3 DEF Strand
  <2> QED
    BY <1>3, <2>1, Basics
<1> QED
  BY <1>2, <1>3

\* Letting go of messages, and writing down why, is always in order.
LEMMA LetsGo ==
  ASSUME NEW S, Good(S), NEW T \in State,
         T.turn = S.turn, T.chats = S.chats, T.agent = S.agent,
         \A k \in Message : S.excuse[k] \subseteq T.excuse[k],
         \A q \in Proc : /\ T.proc[q].work \in {S.proc[q].work, None}
                         /\ T.proc[q].waiting = S.proc[q].waiting
                         /\ T.proc[q].up = S.proc[q].up
  PROVE  Good(T) /\ Serves(S, T)
<1>1. Leases(T)
  <2>1. SUFFICES ASSUME NEW m \in Message PROVE Freed(T, m) \/ Held(T, m)
    BY DEF Leases
  <2>2. Freed(S, m) \/ Held(S, m)
    BY DEF Good, Leases
  <2>3. \A p \in Proc : T.proc[p].work = m => S.proc[p].work = m
    BY Basics
  <2>4. Waits(T, m) => Waits(S, m)
    BY DEF Waits
  <2> QED
    BY <2>2, <2>3, <2>4, HeldOn
<1>2. Counts(T) /\ Seats(T)
  BY DEF Good, Counts, Seats, Waits
<1>3. Queues(T)
  <2>1. SUFFICES ASSUME NEW p \in Proc PROVE Queue(T, p)
    BY DEF Queues
  <2>2. Queue(S, p) /\ T.proc[p].waiting = S.proc[p].waiting /\ T.proc[p].up = S.proc[p].up
    BY DEF Good, Queues
  <2>3. ~S.proc[p].up => T.proc[p].work = None
    BY <2>2 DEF Queue
  <2> QED
    BY <2>2, <2>3 DEF Queue
<1>4. Live(T)
  BY Basics DEF Good, Live, Writable
<1>5. Serves(S, T)
  BY DEF Serves
<1> QED
  BY <1>1, <1>2, <1>3, <1>4, <1>5 DEF Good

LEMMA DropWorkGood ==
  ASSUME NEW S, Good(S), NEW p \in Proc
  PROVE  Good(DropWork(S, p)) /\ Serves(S, DropWork(S, p))
<1>1. S \in State
  BY DEF Good
<1> QED
  BY <1>1, DropWorkIs, LetsGo

LEMMA DropWorkOnGood ==
  ASSUME NEW S, Good(S), NEW p \in Proc, NEW m \in Message
  PROVE  /\ Good(DropWorkOn(S, p, m)) /\ Serves(S, DropWorkOn(S, p, m))
         /\ DropWorkOn(S, p, m).turn = S.turn /\ DropWorkOn(S, p, m).agent = S.agent
         /\ DropWorkOn(S, p, m).chats = S.chats /\ DropWorkOn(S, p, m).excuse = S.excuse
         /\ \A q \in Proc : DropWorkOn(S, p, m).proc[q].work =
              IF q = p /\ S.proc[q].work = m THEN None ELSE S.proc[q].work
<1>1. S \in State
  BY DEF Good
<1>2. CASE S.proc[p].work = m
  BY <1>1, <1>2, DropWorkIs, DropWorkGood DEF DropWorkOn
<1>3. CASE S.proc[p].work # m
  BY <1>3, ServesSelf DEF DropWorkOn
<1> QED
  BY <1>2, <1>3

LEMMA ExcuseGood ==
  ASSUME NEW S, Good(S), NEW m \in Message, NEW why
  PROVE  Good(Excuse(S, m, why)) /\ Serves(S, Excuse(S, m, why))
<1>1. S \in State
  BY DEF Good
<1> QED
  BY <1>1, ExcuseIs, LetsGo

LEMMA StrandGood ==
  ASSUME NEW S, Good(S), NEW p \in Proc, NEW why \in {"displaced", "archived", "died"}
  PROVE  Good(Strand(S, p, why)) /\ Serves(S, Strand(S, p, why))
<1>1. S \in State
  BY DEF Good
<1> QED
  BY <1>1, StrandIs, LetsGo

\* What is kept stays so, when a message is let go of only with a reason.
LEMMA KeptOn ==
  ASSUME NEW S, NEW T, NEW m \in Message, Kept(S, m),
         S.excuse[m] \subseteq T.excuse[m],
         T.turn[m] = S.turn[m],
         \/ \A p \in Proc : S.proc[p].work = m => T.proc[p].work = m
         \/ S.turn[m].at = "leased" => T.excuse[m] \cap {"displaced", "archived", "died"} # {}
  PROVE  Kept(T, m)
  BY DEF Kept

-----------------------------------------------------------------------------
(* Agents that let go, or stop waiting *)

LEMMA HasLeast ==
  ASSUME NEW N \in SUBSET Nat, N # {}
  PROVE  \E least \in N : \A x \in N : least <= x
<1>1. PICK least \in N : \A x \in N : ~(<<x, least>> \in OpToRel(<, Nat))
  BY NatLessThanWellFounded, WFMin
<1>2. \A x \in N : <<x, least>> \in Nat \X Nat
  OBVIOUS
<1>3. \A x \in N : ~(x < least)
  BY <1>1, <1>2 DEF OpToRel
<1> QED
  BY <1>3

LEMMA ElementIn ==
  ASSUME NEW R, NEW w \in Seq(R), NEW i \in 1..Len(w)
  PROVE  w[i] \in R
  OBVIOUS

\* What agents and processes lose harms nothing, if no queue minds.
LEMMA LeavesGood ==
  ASSUME NEW S, Good(S), NEW T \in State,
         T.turn = S.turn, T.chats = S.chats,
         \A k \in Message : S.excuse[k] \subseteq T.excuse[k],
         \A b \in Agent : \/ T.agent[b] = S.agent[b]
                          \/ T.agent[b].at # "busy" /\ T.agent[b].msg = None,
         \A q \in Proc : T.proc[q].work \in {S.proc[q].work, None},
         Queues(T)
  PROVE  Good(T)
<1>1. Leases(T)
  <2>1. SUFFICES ASSUME NEW m \in Message PROVE Freed(T, m) \/ Held(T, m)
    BY DEF Leases
  <2>2. Freed(S, m) \/ Held(S, m)
    BY DEF Good, Leases
  <2>3. \A b \in Agent : T.agent[b].msg = m => S.agent[b].msg = m
    BY Basics
  <2>4. \A p \in Proc : T.proc[p].work = m => S.proc[p].work = m
    BY Basics
  <2>5. Waits(T, m) => Waits(S, m)
    BY DEF Waits
  <2>6. S.excuse[m] \subseteq T.excuse[m] /\ T.turn[m].replies = S.turn[m].replies
    OBVIOUS
  <2> QED
    BY <2>2, <2>3, <2>4, <2>5, <2>6, HeldOn
<1>2. Counts(T) /\ Live(T)
  BY Basics DEF Good, Counts, Waits, Live, Writable
<1>3. Seats(T)
  BY DEF Good, Seats
<1> QED
  BY <1>1, <1>2, <1>3 DEF Good

\* An agent that waits nowhere can let go and be wherever it likes.
LEMMA AgentGood ==
  ASSUME NEW S, Good(S), NEW a \in Agent, NEW at \in {"off", "away", "parked"},
         WaitsNowhere(S, a)
  PROVE  /\ Good([S EXCEPT !.agent[a] = [at |-> at, msg |-> None]])
         /\ [S EXCEPT !.agent[a] = [at |-> at, msg |-> None]].agent
              = [S.agent EXCEPT ![a] = [at |-> at, msg |-> None]]
<1> DEFINE A == [S.agent EXCEPT ![a] = [at |-> at, msg |-> None]]
           T == [S EXCEPT !.agent = A]
<1>0. S \in State /\ S.agent \in [Agent -> [at : {"off", "away", "parked", "busy"},
                                            msg : Message \cup {None}]]
  BY DEF Good, State
<1>1. A \in [Agent -> [at : {"off", "away", "parked", "busy"}, msg : Message \cup {None}]]
  BY <1>0
<1>2. [S EXCEPT !.agent[a] = [at |-> at, msg |-> None]] = T
  BY <1>0 DEF State
<1>3. \A b \in Agent : b # a => A[b] = S.agent[b]
  BY <1>0
<1> HIDE DEF A
<1>4. /\ T \in State /\ T.turn = S.turn /\ T.chats = S.chats /\ T.excuse = S.excuse
      /\ T.proc = S.proc /\ T.agent = A
  BY <1>0, <1>1 DEF State
<1>5. Queues(T)
  <2>1. SUFFICES ASSUME NEW p \in Proc PROVE Queue(T, p)
    BY DEF Queues
  <2>2. Queue(S, p) /\ T.proc[p] = S.proc[p]
    BY <1>4 DEF Good, Queues
  <2>3. S.proc[p].waiting \in Seq(Waiter)
    BY <1>0 DEF State, ProcRow
  <2>4. \A i \in 1..Len(S.proc[p].waiting) :
          T.agent[S.proc[p].waiting[i].agent] = S.agent[S.proc[p].waiting[i].agent]
    <3> SUFFICES ASSUME NEW i \in 1..Len(S.proc[p].waiting)
                 PROVE  A[S.proc[p].waiting[i].agent] = S.agent[S.proc[p].waiting[i].agent]
      BY <1>4
    <3>1. S.proc[p].waiting[i] \in Waiter
      BY <2>3, ElementIn
    <3>2. S.proc[p].waiting[i].agent \in Agent /\ S.proc[p].waiting[i].agent # a
      BY <3>1 DEF Waiter, WaitsNowhere
    <3> QED
      BY <1>3, <3>2
  <2> QED
    BY SMTT(30), <2>2, <2>4 DEF Queue
<1>6. T.agent = [S.agent EXCEPT ![a] = [at |-> at, msg |-> None]]
  BY <1>4 DEF A
<1>7. T.agent[a].at = at /\ T.agent[a].msg = None
  BY <1>0, <1>6
<1>8. \A b \in Agent : b # a => T.agent[b] = S.agent[b]
  BY <1>3, <1>4
<1> HIDE DEF T
<1>9. Good(T)
  <2>1. \A b \in Agent : \/ T.agent[b] = S.agent[b]
                         \/ T.agent[b].at # "busy" /\ T.agent[b].msg = None
    BY <1>7, <1>8
  <2>2. \A q \in Proc : T.proc[q].work \in {S.proc[q].work, None}
    BY <1>4
  <2>3. \A k \in Message : S.excuse[k] \subseteq T.excuse[k]
    BY <1>4
  <2> QED
    BY <1>4, <1>5, <2>1, <2>2, <2>3, LeavesGood
<1> QED
  BY <1>2, <1>6, <1>9

\* No queue has an agent that is not parked.
LEMMA NotWaiting ==
  ASSUME NEW S, Good(S), NEW a \in Agent, S.agent[a].at # "parked"
  PROVE  WaitsNowhere(S, a)
  BY SMTT(30) DEF Good, Queues, Queue, WaitsNowhere

LEMMA IdleGood ==
  ASSUME NEW S, Good(S), NEW a \in Agent, S.agent[a].at # "parked"
  PROVE  /\ Good(Idle(S, a))
         /\ Idle(S, a).turn = S.turn /\ Idle(S, a).chats = S.chats
         /\ Idle(S, a).proc = S.proc /\ Idle(S, a).excuse = S.excuse
         /\ Idle(S, a).agent = [S.agent EXCEPT ![a] = [at |-> "away", msg |-> None]]
         /\ Idle(S, a).agent[a] = [at |-> "away", msg |-> None]
<1>0. S \in State
  BY DEF Good
<1>1. Good(Idle(S, a)) /\ Idle(S, a).agent = [S.agent EXCEPT ![a] = [at |-> "away", msg |-> None]]
  <2>1. WaitsNowhere(S, a)
    BY NotWaiting
  <2>2. "away" \in {"off", "away", "parked"}
    OBVIOUS
  <2> QED
    BY <2>1, <2>2, AgentGood DEF Idle
<1> QED
  BY <1>0, <1>1 DEF Idle, State

LEMMA RemoveAtIs ==
  ASSUME NEW R, NEW w \in Seq(R), NEW i \in 1..Len(w)
  PROVE  /\ RemoveAt(w, i) \in Seq(R)
         /\ Len(RemoveAt(w, i)) = Len(w) - 1
         /\ \A j \in 1..Len(w) - 1 : RemoveAt(w, i)[j] = IF j < i THEN w[j] ELSE w[j + 1]
<1> DEFINE n == Len(w)
           front == SubSeq(w, 1, i - 1)
           back == SubSeq(w, i + 1, n)
<1>1. n \in Nat /\ i \in 1..n
  OBVIOUS
<1>2. /\ front \in Seq(R) /\ Len(front) = i - 1
      /\ \A j \in 1..i - 1 : front[j] = w[j]
  OBVIOUS
<1>3. /\ back \in Seq(R) /\ Len(back) = n - i
      /\ \A j \in 1..n - i : back[j] = w[i + j]
  OBVIOUS
<1>4. RemoveAt(w, i) = front \o back
  BY DEF RemoveAt
<1> HIDE DEF front, back, n
<1>5. /\ front \o back \in Seq(R) /\ Len(front \o back) = n - 1
      /\ \A j \in 1..n - 1 : (front \o back)[j] = IF j < i THEN front[j] ELSE back[j - (i - 1)]
  <2>1. /\ front \o back \in Seq(R) /\ Len(front \o back) = Len(front) + Len(back)
        /\ \A j \in 1..Len(front) + Len(back) :
             (front \o back)[j] = IF j <= Len(front) THEN front[j] ELSE back[j - Len(front)]
    BY <1>2, <1>3, ConcatProperties
  <2>2. Len(front) + Len(back) = n - 1
    BY <1>1, <1>2, <1>3
  <2>3. \A j \in 1..n - 1 : j <= i - 1 <=> j < i
    BY <1>1
  <2> QED
    BY <1>2, <2>1, <2>2, <2>3
<1>6. ASSUME NEW j \in 1..n - 1 PROVE (front \o back)[j] = IF j < i THEN w[j] ELSE w[j + 1]
  <2>1. CASE j < i
    BY <1>1, <1>2, <1>5, <2>1
  <2>2. CASE ~(j < i)
    <3>1. j - (i - 1) \in 1..n - i /\ i + (j - (i - 1)) = j + 1
      BY <1>1, <2>2
    <3> QED
      BY <1>3, <1>5, <2>2, <3>1
  <2> QED
    BY <2>1, <2>2
<1> QED
  BY <1>4, <1>5, <1>6 DEF n

\* The queue w as an agent leaves it.
Without(w, a) ==
  LET at == {i \in 1..Len(w) : w[i].agent = a}
  IN  IF \E i \in 1..Len(w) : w[i].agent = a
      THEN RemoveAt(w, IF at # {} THEN Min(at) ELSE 0) ELSE w

\* A queue an agent has left: the others are there still, once each.
LEMMA Leaving ==
  ASSUME NEW w \in Seq(Waiter), NEW a \in Agent,
         \A i, j \in 1..Len(w) : w[i].agent = w[j].agent => i = j,
         NEW v, v = Without(w, a)
  PROVE  /\ v \in Seq(Waiter)
         /\ \A i \in 1..Len(v) : v[i].agent # a /\ \E j \in 1..Len(w) : v[i] = w[j]
         /\ \A i, j \in 1..Len(v) : v[i].agent = v[j].agent => i = j
<1> DEFINE at == {i \in 1..Len(w) : w[i].agent = a}
<1>1. CASE at = {}
  <2>1. v = w
    BY <1>1 DEF Without
  <2> QED
    BY <1>1, <2>1
<1>2. CASE at # {}
  <2>0. at \in SUBSET Nat
    OBVIOUS
  <2>1. \E least \in at : \A x \in at : least <= x
    <3> HIDE DEF at
    <3> QED
      BY <1>2, <2>0, HasLeast
  <2>2. Min(at) \in at
    BY <2>1 DEF Min
  <2>3. v = RemoveAt(w, Min(at))
    BY <1>2 DEF Without
  <2>4. PICK k \in 1..Len(w) : w[k].agent = a /\ v = RemoveAt(w, k)
    BY <2>2, <2>3
  <2>5. /\ v \in Seq(Waiter) /\ Len(v) = Len(w) - 1
        /\ \A j \in 1..Len(w) - 1 : v[j] = IF j < k THEN w[j] ELSE w[j + 1]
    <3>1. w \in Seq(Waiter)
      OBVIOUS
    <3>2. /\ RemoveAt(w, k) \in Seq(Waiter)
          /\ Len(RemoveAt(w, k)) = Len(w) - 1
          /\ \A j \in 1..Len(w) - 1 : RemoveAt(w, k)[j] = IF j < k THEN w[j] ELSE w[j + 1]
      BY <3>1, RemoveAtIs
    <3> QED
      BY <2>4, <3>2
  <2>6. Len(w) \in Nat
    OBVIOUS
  <2>7. ASSUME NEW j \in 1..Len(v)
        PROVE  \E l \in 1..Len(w) : v[j] = w[l] /\ l # k /\ l = IF j < k THEN j ELSE j + 1
    <3>1. CASE j < k
      <4>1. j \in 1..Len(w) /\ j # k /\ j \in 1..Len(w) - 1
        BY <2>4, <2>5, <2>6, <3>1
      <4> QED
        BY <2>5, <3>1, <4>1
    <3>2. CASE ~(j < k)
      <4>1. j + 1 \in 1..Len(w) /\ j + 1 # k /\ j \in 1..Len(w) - 1
        BY <2>4, <2>5, <2>6, <3>2
      <4> QED
        BY <2>5, <3>2, <4>1
    <3> QED
      BY <3>1, <3>2
  <2>8. ASSUME NEW j \in 1..Len(v) PROVE v[j].agent # a
    BY <2>4, <2>7
  <2>9. ASSUME NEW j \in 1..Len(v), NEW l \in 1..Len(v), v[j].agent = v[l].agent PROVE j = l
    <3>1. PICK x \in 1..Len(w) : v[j] = w[x] /\ x = IF j < k THEN j ELSE j + 1
      BY <2>7
    <3>2. PICK y \in 1..Len(w) : v[l] = w[y] /\ y = IF l < k THEN l ELSE l + 1
      BY <2>7
    <3>3. x = y
      BY <2>9, <3>1, <3>2
    <3> QED
      BY <2>5, <2>6, <3>1, <3>2, <3>3
  <2> QED
    BY <2>5, <2>7, <2>8, <2>9
<1> QED
  BY <1>1, <1>2

\* T is S with agent a gone from the queue of process p.
GoneFrom(S, p, a, T) ==
  /\ T \in State
  /\ T.turn = S.turn /\ T.chats = S.chats /\ T.agent = S.agent /\ T.excuse = S.excuse
  /\ \A q \in Proc : q # p => T.proc[q] = S.proc[q]
  /\ T.proc[p].work = S.proc[p].work
  /\ T.proc[p].up = S.proc[p].up
  /\ \E v \in Seq(Waiter) :
       /\ T.proc[p].waiting = v
       /\ \A i \in 1..Len(v) : /\ v[i].agent # a
                               /\ \E j \in 1..Len(S.proc[p].waiting) :
                                    v[i] = S.proc[p].waiting[j]
       /\ \A i, j \in 1..Len(v) : v[i].agent = v[j].agent => i = j

LEMMA UnparkIs ==
  ASSUME NEW S \in State, NEW p \in Proc, NEW a \in Agent,
         \A i, j \in 1..Len(S.proc[p].waiting) :
           S.proc[p].waiting[i].agent = S.proc[p].waiting[j].agent => i = j
  PROVE  GoneFrom(S, p, a, Unpark(S, p, a))
<1> DEFINE v == Without(S.proc[p].waiting, a)
           R == [S.proc[p] EXCEPT !.waiting = v]
           P == [S.proc EXCEPT ![p] = R]
<1>1. S.proc \in [Proc -> ProcRow] /\ S.proc[p] \in ProcRow
  BY DEF State
<1>2. S.proc[p].waiting \in Seq(Waiter)
  BY <1>1 DEF ProcRow
<1>4. Unpark(S, p, a) = [S EXCEPT !.proc[p].waiting = v]
  BY DEF Unpark, RemoveFirstMatch, SelectInSeq, Without
<1>5. PICK new : new = v
  OBVIOUS
<1>6. /\ new \in Seq(Waiter)
      /\ \A i \in 1..Len(new) : new[i].agent # a /\ \E j \in 1..Len(S.proc[p].waiting) :
                                                     new[i] = S.proc[p].waiting[j]
      /\ \A i, j \in 1..Len(new) : new[i].agent = new[j].agent => i = j
  <2>1. PICK w : w = S.proc[p].waiting
    OBVIOUS
  <2>2. w \in Seq(Waiter) /\ \A i, j \in 1..Len(w) : w[i].agent = w[j].agent => i = j
    BY <1>2, <2>1
  <2>3. new = Without(w, a)
    BY <1>5, <2>1
  <2> HIDE DEF v
  <2>4. /\ new \in Seq(Waiter)
        /\ \A i \in 1..Len(new) : new[i].agent # a /\ \E j \in 1..Len(w) : new[i] = w[j]
        /\ \A i, j \in 1..Len(new) : new[i].agent = new[j].agent => i = j
    BY ONLY <2>2, <2>3, Leaving, a \in Agent
  <2> QED
    BY ONLY <2>1, <2>4
<1> HIDE DEF v
<1>7. Unpark(S, p, a) = [S EXCEPT !.proc = P]
  BY <1>1, <1>4 DEF State, ProcRow
<1>8. R \in ProcRow /\ R.work = S.proc[p].work /\ R.up = S.proc[p].up /\ R.waiting = new
  BY <1>1, <1>5, <1>6 DEF ProcRow
<1> HIDE DEF R
<1>9. P \in [Proc -> ProcRow] /\ P[p] = R /\ \A q \in Proc : q # p => P[q] = S.proc[q]
  BY <1>1, <1>8
<1> HIDE DEF P
<1> QED
  BY <1>6, <1>7, <1>8, <1>9 DEF State, GoneFrom

\* An agent leaves the queue it waits in, if it does, and lets go.
LEMMA LeavesQueue ==
  ASSUME NEW S, Good(S), NEW a \in Agent, NEW at \in {"off", "away"}, NEW p, p = Place(a),
         NEW U \in State, U.turn = S.turn, U.chats = S.chats, U.excuse = S.excuse,
         U.proc = S.proc, U.agent[a].at = at, U.agent[a].msg = None,
         \A b \in Agent : b # a => U.agent[b] = S.agent[b]
  PROVE  /\ Good(Unpark(U, p, a))
         /\ Unpark(U, p, a).turn = S.turn /\ Unpark(U, p, a).chats = S.chats
         /\ Unpark(U, p, a).excuse = S.excuse
         /\ Unpark(U, p, a).agent = U.agent
         /\ \A q \in Proc : Unpark(U, p, a).proc[q].work = S.proc[q].work
<1> DEFINE T == Unpark(U, p, a)
<1>0. S \in State /\ p \in Proc
  BY Basics DEF Good, State
<1>4. \A q \in Proc : Queue(S, q)
  BY DEF Good, Queues
<1>5. ASSUME NEW q \in Proc, NEW i \in 1..Len(S.proc[q].waiting)
      PROVE  S.proc[q].waiting[i].agent \in Agent
  <2>1. S.proc[q].waiting \in Seq(Waiter)
    BY <1>0 DEF State, ProcRow
  <2>2. S.proc[q].waiting[i] \in Waiter
    BY <2>1, ElementIn
  <2> QED
    BY <2>2 DEF Waiter
<1>6. \A i, j \in 1..Len(U.proc[p].waiting) :
        U.proc[p].waiting[i].agent = U.proc[p].waiting[j].agent => i = j
  BY SMTT(30), <1>0, <1>4 DEF Queue
<1>7. GoneFrom(U, p, a, T)
  BY <1>0, <1>6, UnparkIs
<1> HIDE DEF T
<1>8. PICK v \in Seq(Waiter) :
        /\ T.proc[p].waiting = v
        /\ \A i \in 1..Len(v) : /\ v[i].agent # a
                                /\ \E j \in 1..Len(U.proc[p].waiting) :
                                     v[i] = U.proc[p].waiting[j]
        /\ \A i, j \in 1..Len(v) : v[i].agent = v[j].agent => i = j
  BY <1>7 DEF GoneFrom
<1>12. /\ T.agent[a].at = at /\ T.agent[a].msg = None
       /\ \A b \in Agent : b # a => T.agent[b] = S.agent[b]
  BY <1>7 DEF GoneFrom
<1>9. Queues(T)
  <2>1. ASSUME NEW q \in Proc, q # p PROVE Queue(T, q)
    <3>1. Queue(S, q) /\ T.proc[q] = S.proc[q]
      BY <1>4, <1>7, <2>1 DEF GoneFrom
    <3>2. ASSUME NEW i \in 1..Len(S.proc[q].waiting)
          PROVE  T.agent[S.proc[q].waiting[i].agent].at = "parked"
      <4>1. S.proc[q].waiting[i].agent \in Agent /\ S.proc[q].waiting[i].agent # a
        BY <1>5, <2>1, <3>1 DEF Queue
      <4> QED
        BY <1>12, <3>1, <4>1 DEF Queue
    <3> QED
      BY SMTT(30), <3>1, <3>2 DEF Queue
  <2>2. Queue(T, p)
    <3>1. Queue(S, p)
      BY <1>0, <1>4
    <3>2. ASSUME NEW i \in 1..Len(v)
          PROVE  T.agent[v[i].agent].at = "parked" /\ Place(v[i].agent) = p
      <4>1. PICK j \in 1..Len(S.proc[p].waiting) : v[i] = S.proc[p].waiting[j] /\ v[i].agent # a
        BY <1>8
      <4>2. v[i].agent \in Agent
        BY <1>0, <1>5, <4>1
      <4> QED
        BY SMTT(30), <1>12, <3>1, <4>1, <4>2 DEF Queue
    <3>3. ~S.proc[p].up => v = <<>>
      <4>1. SUFFICES ASSUME ~S.proc[p].up PROVE v = <<>>
        OBVIOUS
      <4>2. S.proc[p].waiting = <<>>
        BY <3>1, <4>1 DEF Queue
      <4>3. Len(v) = 0
        BY <1>8, <4>2
      <4> QED
        BY <4>3
    <3> QED
      BY SMTT(30), <1>0, <1>7, <1>8, <3>1, <3>2, <3>3 DEF Queue, GoneFrom
  <2> QED
    BY <2>1, <2>2 DEF Queues
<1>10. \A q \in Proc : T.proc[q].work = S.proc[q].work
  BY <1>7 DEF GoneFrom
<1>11. T.turn = S.turn /\ T.chats = S.chats /\ T.excuse = S.excuse
  BY <1>7 DEF GoneFrom
<1>13. Good(T)
  <2>1. \A b \in Agent : \/ T.agent[b] = S.agent[b]
                         \/ T.agent[b].at # "busy" /\ T.agent[b].msg = None
    BY <1>12
  <2>2. \A q \in Proc : T.proc[q].work \in {S.proc[q].work, None}
    BY <1>10
  <2>3. \A k \in Message : S.excuse[k] \subseteq T.excuse[k]
    BY <1>11
  <2>4. T \in State
    BY <1>7 DEF GoneFrom
  <2> QED
    BY <1>9, <1>11, <2>1, <2>2, <2>3, <2>4, LeavesGood
<1> QED
  BY <1>7, <1>10, <1>11, <1>13 DEF T, GoneFrom

\* S with agent a idle, or gone.
LeftBy(S, a, at) == [S EXCEPT !.agent[a] = [at |-> at, msg |-> None]]

\* T is that state of S, the agent waiting nowhere.
Gone(S, a, at, T) ==
  /\ Good(T)
  /\ T.turn = S.turn /\ T.chats = S.chats /\ T.excuse = S.excuse
  /\ T.agent = [S.agent EXCEPT ![a] = [at |-> at, msg |-> None]]
  /\ \A q \in Proc : T.proc[q].work = S.proc[q].work

LEMMA UnparkGood ==
  ASSUME NEW S, Good(S), NEW a \in Agent, NEW at \in {"off", "away"}
  PROVE  Gone(S, a, at, Unpark(LeftBy(S, a, at), Place(a), a))
<1>u. PICK U : U = LeftBy(S, a, at)
  OBVIOUS
<1> DEFINE A == [S.agent EXCEPT ![a] = [at |-> at, msg |-> None]]
<1>0. /\ S \in State
      /\ S.agent \in [Agent -> [at : {"off", "away", "parked", "busy"}, msg : Message \cup {None}]]
  BY DEF Good, State
<1>1. /\ A \in [Agent -> [at : {"off", "away", "parked", "busy"}, msg : Message \cup {None}]]
      /\ A[a].at = at /\ A[a].msg = None
      /\ \A b \in Agent : b # a => A[b] = S.agent[b]
  BY <1>0
<1>2. U = [S EXCEPT !.agent = A]
  BY <1>0, <1>u DEF State, LeftBy
<1> HIDE DEF A
<1>3. /\ U \in State /\ U.turn = S.turn /\ U.chats = S.chats /\ U.excuse = S.excuse
      /\ U.proc = S.proc /\ U.agent = A
  BY <1>0, <1>1, <1>2 DEF State
<1>4. /\ U.agent[a].at = at /\ U.agent[a].msg = None
      /\ \A b \in Agent : b # a => U.agent[b] = S.agent[b]
  BY <1>1, <1>3
<1>5. PICK V : V = U
  OBVIOUS
<1>6. /\ V \in State /\ V.turn = S.turn /\ V.chats = S.chats /\ V.excuse = S.excuse
      /\ V.proc = S.proc /\ V.agent[a].at = at /\ V.agent[a].msg = None
      /\ \A b \in Agent : b # a => V.agent[b] = S.agent[b]
  BY <1>3, <1>4, <1>5
<1>7. PICK p : p = Place(a)
  OBVIOUS
<1>8. /\ Good(Unpark(V, p, a))
      /\ Unpark(V, p, a).turn = S.turn /\ Unpark(V, p, a).chats = S.chats
      /\ Unpark(V, p, a).excuse = S.excuse
      /\ Unpark(V, p, a).agent = V.agent
      /\ \A q \in Proc : Unpark(V, p, a).proc[q].work = S.proc[q].work
  BY <1>6, <1>7, LeavesQueue
<1>9. Gone(S, a, at, Unpark(V, p, a))
  BY <1>3, <1>5, <1>8 DEF A, Gone
<1> QED
  BY <1>u, <1>5, <1>7, <1>9

-----------------------------------------------------------------------------
(* Handing messages out *)

LEMMA RetireIs ==
  ASSUME NEW S \in State
  PROVE  /\ Retire(S) \in State
         /\ Retire(S).chats = S.chats /\ Retire(S).proc = S.proc
         /\ Retire(S).agent = S.agent /\ Retire(S).excuse = S.excuse
         /\ \A m \in Message :
              /\ Retire(S).turn[m].replies = S.turn[m].replies
              /\ \/ Retire(S).turn[m] = S.turn[m]
                 \/ /\ S.turn[m].at = "queued"
                    /\ Retire(S).turn[m].at = "leased"
                    /\ Retire(S).turn[m].tries = MaxDeliveries
<1> DEFINE D == [m \in Message |->
                   IF S.turn[m].at = "queued" /\ ~S.turn[m].fresh
                   THEN [S.turn[m] EXCEPT !.at = "leased", !.tries = MaxDeliveries]
                   ELSE S.turn[m]]
<1>0. S.turn \in [Message -> TurnRow]
  BY DEF State
<1>1. Retire(S) = [S EXCEPT !.turn = D]
  BY DEF Retire
<1>2. ASSUME NEW m \in Message
      PROVE  /\ D[m] \in TurnRow
             /\ D[m].replies = S.turn[m].replies
             /\ \/ D[m] = S.turn[m]
                \/ /\ S.turn[m].at = "queued" /\ D[m].at = "leased"
                   /\ D[m].tries = MaxDeliveries
  <2>1. S.turn[m] \in TurnRow /\ MaxDeliveries \in 0..MaxDeliveries
    BY <1>0, Basics
  <2> QED
    BY <2>1 DEF TurnRow
<1>3. D \in [Message -> TurnRow]
  BY <1>2
<1> HIDE DEF D
<1> QED
  BY <1>1, <1>2, <1>3 DEF State

LEMMA RetireGood ==
  ASSUME NEW S, Good(S)
  PROVE  /\ Good(Retire(S)) /\ Serves(S, Retire(S))
         /\ AllKept(S) => AllKept(Retire(S))
<1> DEFINE T == Retire(S)
<1>0. S \in State /\ MaxDeliveries \in Nat /\ MaxDeliveries >= 1
  BY Basics DEF Good
<1>1. /\ T \in State
      /\ T.chats = S.chats /\ T.proc = S.proc /\ T.agent = S.agent /\ T.excuse = S.excuse
      /\ \A m \in Message : /\ T.turn[m].replies = S.turn[m].replies
                            /\ \/ T.turn[m] = S.turn[m]
                               \/ /\ S.turn[m].at = "queued" /\ T.turn[m].at = "leased"
                                  /\ T.turn[m].tries = MaxDeliveries
  BY <1>0, RetireIs
<1> HIDE DEF T
<1>2. Leases(T)
  <2>1. SUFFICES ASSUME NEW m \in Message PROVE Freed(T, m) \/ Held(T, m)
    BY DEF Leases
  <2>2. Freed(S, m) \/ Held(S, m)
    BY DEF Good, Leases
  <2>3. Waits(T, m) => Waits(S, m)
    BY <1>1 DEF Waits
  <2> QED
    BY <1>1, <2>2, <2>3, HeldOn
<1>3. Counts(T)
  <2>1. SUFFICES ASSUME NEW m \in Message
                 PROVE  /\ Waits(T, m) => T.turn[m].tries < MaxDeliveries
                        /\ T.turn[m].at = "leased" => T.turn[m].tries >= 1
    BY DEF Counts
  <2> QED
    BY <1>0, <1>1 DEF Waits, Good, Counts
<1>4. Seats(T) /\ Live(T)
  BY <1>1 DEF Good, Seats, Live, Writable
<1>5. Queues(T)
  BY SMTT(30), <1>1 DEF Good, Queues, Queue
<1>6. AllKept(S) => AllKept(T)
  <2>1. SUFFICES ASSUME NEW m \in Message, Kept(S, m) PROVE Kept(T, m)
    BY DEF AllKept
  <2>2. CASE T.turn[m] = S.turn[m]
    BY <1>1, <2>1, <2>2 DEF Kept
  <2>3. CASE T.turn[m].tries = MaxDeliveries
    BY <1>0, <2>3 DEF Kept
  <2> QED
    BY <1>1, <2>2, <2>3
<1>7. Serves(S, T)
  BY <1>1 DEF Serves
<1> QED
  BY <1>1, <1>2, <1>3, <1>4, <1>5, <1>6, <1>7 DEF Good, T

\* T is S with message m handed to agent a by process p.
Given(S, p, m, a, T) ==
  /\ T \in State
  /\ T.chats = S.chats
  /\ \A k \in Message : k # m => T.turn[k] = S.turn[k]
  /\ T.turn[m].at = "leased" /\ T.turn[m].tries = S.turn[m].tries + 1
  /\ T.turn[m].replies = S.turn[m].replies
  /\ \A q \in Proc : T.proc[q].up = S.proc[q].up /\ T.proc[q].waiting = S.proc[q].waiting
  /\ T.proc[p].work = m
  /\ \A q \in Proc : q # p => T.proc[q].work = S.proc[q].work
  /\ T.agent[a].at = "busy" /\ T.agent[a].msg = m
  /\ \A b \in Agent : b # a => T.agent[b] = S.agent[b]
  /\ \A k \in Message : S.excuse[k] \subseteq T.excuse[k]
  /\ \A k \in Message : S.proc[p].work = k /\ S.turn[k].at = "leased" =>
                          "displaced" \in T.excuse[k]

LEMMA TakeIs ==
  ASSUME NEW S \in State, NEW p \in Proc, NEW m \in Message, NEW name \in Name, NEW a \in Agent,
         S.turn[m].tries < MaxDeliveries
  PROVE  Given(S, p, m, a, Take(S, p, m, name, a))
<1> DEFINE X == Strand(S, p, "displaced")
           R == [X.proc[p] EXCEPT !.work = m, !.holder = name,
                                  !.refused = IF @.msg = m THEN NotRefused ELSE @]
           P == [X.proc EXCEPT ![p] = R]
           D == [X.turn EXCEPT ![m] = [X.turn[m] EXCEPT !.at = "leased", !.tries = @ + 1]]
           A == [X.agent EXCEPT ![a] = [at |-> "busy", msg |-> m]]
<1>1. /\ X \in State
      /\ X.turn = S.turn /\ X.chats = S.chats /\ X.agent = S.agent /\ X.proc = S.proc
      /\ \A k \in Message : S.excuse[k] \subseteq X.excuse[k]
      /\ \A k \in Message : S.proc[p].work = k /\ S.turn[k].at = "leased" =>
                              "displaced" \in X.excuse[k]
  BY StrandIs
<1> HIDE DEF X
<1>2. /\ X.proc \in [Proc -> ProcRow] /\ X.proc[p] \in ProcRow
      /\ X.turn \in [Message -> TurnRow] /\ X.turn[m] \in TurnRow
      /\ X.agent \in [Agent -> [at : {"off", "away", "parked", "busy"}, msg : Message \cup {None}]]
  BY <1>1 DEF State
<1>3. /\ R \in ProcRow /\ R.work = m /\ R.up = X.proc[p].up /\ R.waiting = X.proc[p].waiting
  BY <1>2 DEF ProcRow, NotRefused, Name
<1>4. Take(S, p, m, name, a) = [X EXCEPT !.proc = P, !.turn = D, !.agent = A]
  <2> DEFINE B == [X EXCEPT !.proc = P]
  <2>0. X \in State
    BY <1>1
  <2>1. BeginWork(S, p, m, name) = [X EXCEPT !.proc[p].work = m, !.proc[p].holder = name,
                                      !.proc[p].refused = IF @.msg = m THEN NotRefused ELSE @]
    BY DEF BeginWork, X
  <2>2. [X EXCEPT !.proc[p].work = m, !.proc[p].holder = name,
                  !.proc[p].refused = IF @.msg = m THEN NotRefused ELSE @] = B
    BY ZenonT(30), <2>0 DEF State, ProcRow
  <2> HIDE DEF P
  <2>3. B.turn = X.turn /\ B.agent = X.agent /\ B = [X EXCEPT !.proc = P]
    BY <2>0 DEF State
  <2>4. Take(S, p, m, name, a)
          = [B EXCEPT !.turn[m].at = "leased", !.turn[m].tries = @ + 1,
                      !.agent[a] = [at |-> "busy", msg |-> m]]
    BY <2>1, <2>2 DEF Take
  <2>5. [X EXCEPT !.proc = P, !.turn[m].at = "leased", !.turn[m].tries = @ + 1,
                  !.agent[a] = [at |-> "busy", msg |-> m]]
          = [X EXCEPT !.proc = P, !.turn = D, !.agent = A]
    <3> DEFINE Work == [at |-> "busy", msg |-> m]
               Chats == [active : Chat \cup {"new"}, archived : SUBSET Chat]
               Rows == [at : {"off", "away", "parked", "busy"}, msg : Message \cup {None}]
               Excuses == [Message -> SUBSET Reason]
    <3>1. X \in [turn : [Message -> TurnRow], chats : Chats, proc : [Proc -> ProcRow],
                 agent : [Agent -> Rows], excuse : Excuses]
      BY <2>0 DEF State
    <3> HIDE DEF Work, Chats, Rows, Excuses
    <3>2. [X EXCEPT !.proc = P, !.turn[m].at = "leased", !.turn[m].tries = @ + 1,
                    !.agent[a] = Work]
            = [X EXCEPT !.proc = P, !.agent = [X.agent EXCEPT ![a] = Work],
                        !.turn = [X.turn EXCEPT ![m] =
                                    [X.turn[m] EXCEPT !.at = "leased", !.tries = @ + 1]]]
      BY ZenonT(30), <3>1 DEF TurnRow
    <3>3. [X EXCEPT !.proc = P, !.turn = D, !.agent = A]
            = [X EXCEPT !.proc = P, !.agent = [X.agent EXCEPT ![a] = Work], !.turn = D]
      BY <3>1 DEF Work
    <3> QED
      BY <3>2, <3>3 DEF Work
  <2>6. [B EXCEPT !.turn[m].at = "leased", !.turn[m].tries = @ + 1,
                  !.agent[a] = [at |-> "busy", msg |-> m]]
          = [X EXCEPT !.proc = P, !.turn[m].at = "leased", !.turn[m].tries = @ + 1,
                      !.agent[a] = [at |-> "busy", msg |-> m]]
    OBVIOUS
  <2> QED
    BY <2>4, <2>5, <2>6
<1> HIDE DEF R
<1>5. P \in [Proc -> ProcRow] /\ P[p] = R /\ \A q \in Proc : q # p => P[q] = X.proc[q]
  BY <1>2, <1>3
<1>6. /\ D \in [Message -> TurnRow] /\ \A k \in Message : k # m => D[k] = X.turn[k]
      /\ D[m].at = "leased" /\ D[m].tries = X.turn[m].tries + 1
      /\ D[m].replies = X.turn[m].replies
  <2>1. X.turn[m].tries + 1 \in 0..MaxDeliveries
    BY <1>1, <1>2, Basics DEF TurnRow
  <2>2. [X.turn[m] EXCEPT !.at = "leased", !.tries = @ + 1] \in TurnRow
    BY <1>2, <2>1 DEF TurnRow
  <2> QED
    BY <1>2, <2>2 DEF TurnRow
<1>7. /\ A \in [Agent -> [at : {"off", "away", "parked", "busy"}, msg : Message \cup {None}]]
      /\ A[a].at = "busy" /\ A[a].msg = m /\ \A b \in Agent : b # a => A[b] = X.agent[b]
  BY <1>2
<1> HIDE DEF P, D, A
<1>8. PICK T : T = [X EXCEPT !.proc = P, !.turn = D, !.agent = A]
  OBVIOUS
<1>9. /\ T \in State /\ T.proc = P /\ T.turn = D /\ T.agent = A /\ T.chats = X.chats
      /\ T.excuse = X.excuse
  BY <1>1, <1>5, <1>6, <1>7, <1>8 DEF State
<1>10. \A q \in Proc : /\ P[q].up = X.proc[q].up /\ P[q].waiting = X.proc[q].waiting
                       /\ q # p => P[q].work = X.proc[q].work
  BY <1>3, <1>5
<1>11. Given(S, p, m, a, T)
  BY <1>1, <1>3, <1>5, <1>6, <1>7, <1>9, <1>10 DEF Given
<1> QED
  BY <1>4, <1>8, <1>11

LEMMA GivenGood ==
  ASSUME NEW S, Good(S), NEW p \in Proc, NEW m \in Message, NEW a \in Agent, NEW T,
         Given(S, p, m, a, T),
         S.turn[m].at = "queued", Writable(S, m), Place(a) = p, S.proc[p].up,
         S.agent[a].msg = None,
         WaitsNowhere(S, a)
  PROVE  /\ Good(T)
         /\ AllKept(S) => AllKept(T)
<1>0. /\ S \in State /\ T \in State
      /\ S.turn \in [Message -> TurnRow] /\ T.turn \in [Message -> TurnRow]
      /\ \A k \in Message : k # None
  BY Basics DEF Good, State, Given
<1>1. Leases(T)
  <2>1. SUFFICES ASSUME NEW k \in Message PROVE Freed(T, k) \/ Held(T, k)
    BY DEF Leases
  <2>2. Freed(S, k) \/ Held(S, k)
    BY DEF Good, Leases
  <2>3. CASE k # m
    <3>1. S.excuse[k] \subseteq T.excuse[k] /\ T.turn[k].replies = S.turn[k].replies
      BY <2>3 DEF Given
    <3>2. \A b \in Agent : T.agent[b].msg = k => S.agent[b].msg = k
      BY <2>3 DEF Given
    <3>3. \A q \in Proc : T.proc[q].work = k => S.proc[q].work = k
      BY <2>3 DEF Given
    <3>4. Waits(T, k) => Waits(S, k)
      BY <2>3 DEF Given, Waits
    <3> QED
      BY <2>2, <3>1, <3>2, <3>3, <3>4, HeldOn
  <2>4. CASE k = m /\ Freed(S, m)
    BY <2>4 DEF Freed, Given
  <2>5. CASE k = m /\ Held(S, m)
    <3>1. /\ \A b \in Agent : S.agent[b].msg # m
          /\ \A q \in Proc : S.proc[q].work # m
          /\ S.turn[m].replies = 0
      BY <2>5 DEF Held, Waits, InHand
    <3>2. \A b \in Agent : T.agent[b].msg = m <=> b = a
      BY <3>1 DEF Given
    <3>3. \A q \in Proc : T.proc[q].work = m <=> q = p
      BY <3>1 DEF Given
    <3>4. T.turn[m].replies = 0 /\ ~Waits(T, m)
      BY <3>1 DEF Given, Waits
    <3> QED
      BY <2>5, <3>2, <3>3, <3>4 DEF Held
  <2> QED
    BY <2>2, <2>3, <2>4, <2>5
<1>2. Counts(T)
  <2>1. SUFFICES ASSUME NEW k \in Message
                 PROVE  /\ Waits(T, k) => T.turn[k].tries < MaxDeliveries
                        /\ T.turn[k].at = "leased" => T.turn[k].tries >= 1
    BY DEF Counts
  <2>2. CASE k # m
    BY <2>2 DEF Given, Good, Counts, Waits
  <2>3. CASE k = m
    <3>1. T.turn[m].at = "leased" /\ T.turn[m].tries = S.turn[m].tries + 1
      BY DEF Given
    <3>2. S.turn[m].tries \in Nat
      BY <1>0, Basics DEF TurnRow
    <3> QED
      BY <2>3, <3>1, <3>2 DEF Waits
  <2> QED
    BY <2>2, <2>3
<1>3. Seats(T)
  BY <1>0 DEF Given, Good, Seats
<1>4. Queues(T)
  <2>1. SUFFICES ASSUME NEW q \in Proc PROVE Queue(T, q)
    BY DEF Queues
  <2>2. Queue(S, q) /\ T.proc[q].up = S.proc[q].up /\ T.proc[q].waiting = S.proc[q].waiting
    BY DEF Good, Queues, Given
  <2>3. S.proc[q].waiting \in Seq(Waiter)
    BY <1>0 DEF State, ProcRow
  <2>4. ASSUME NEW i \in 1..Len(S.proc[q].waiting)
        PROVE  T.agent[S.proc[q].waiting[i].agent] = S.agent[S.proc[q].waiting[i].agent]
    <3>1. S.proc[q].waiting[i] \in Waiter
      BY <2>3, ElementIn
    <3>2. S.proc[q].waiting[i].agent \in Agent /\ S.proc[q].waiting[i].agent # a
      BY <3>1 DEF Waiter, WaitsNowhere
    <3> QED
      BY <3>2 DEF Given
  <2>5. ~S.proc[q].up => T.proc[q].work = None
    BY <2>2 DEF Given, Queue
  <2>6. PICK w : w = S.proc[q].waiting
    OBVIOUS
  <2>7. /\ \A i \in 1..Len(w) : S.agent[w[i].agent].at = "parked" /\ Place(w[i].agent) = q
        /\ \A i, j \in 1..Len(w) : w[i].agent = w[j].agent => i = j
        /\ ~S.proc[q].up => w = <<>>
    BY ONLY <2>2, <2>6 DEF Queue
  <2>8. \A i \in 1..Len(w) : T.agent[w[i].agent] = S.agent[w[i].agent]
    BY ONLY <2>4, <2>6
  <2>9. \A i \in 1..Len(w) : T.agent[w[i].agent].at = "parked"
    BY ONLY <2>7, <2>8
  <2>10. T.proc[q].waiting = w /\ (~T.proc[q].up => T.proc[q].work = None /\ w = <<>>)
    BY ONLY <2>2, <2>5, <2>6, <2>7
  <2> QED
    BY ONLY <2>7, <2>9, <2>10 DEF Queue
<1>5. Live(T)
  BY <1>0, Basics DEF Given, Good, Live, Writable
<1>6. AllKept(S) => AllKept(T)
  <2>1. SUFFICES ASSUME NEW k \in Message, Kept(S, k) PROVE Kept(T, k)
    BY DEF AllKept
  <2>2. CASE k = m
    BY <2>2 DEF Kept, Given
  <2>3. CASE k # m
    <3>1. S.excuse[k] \subseteq T.excuse[k] /\ T.turn[k] = S.turn[k]
      BY <2>3 DEF Given
    <3>2. \/ \A q \in Proc : S.proc[q].work = k => T.proc[q].work = k
          \/ S.turn[k].at = "leased" => T.excuse[k] \cap {"displaced", "archived", "died"} # {}
      <4>1. CASE S.proc[p].work = k
        BY <4>1 DEF Given
      <4>2. CASE S.proc[p].work # k
        BY <4>2 DEF Given
      <4> QED
        BY <4>1, <4>2
    <3> QED
      BY <2>1, <3>1, <3>2, KeptOn
  <2> QED
    BY <2>2, <2>3
<1> QED
  BY <1>0, <1>1, <1>2, <1>3, <1>4, <1>5, <1>6 DEF Good

LEMMA OfferIs ==
  ASSUME NEW S \in State, NEW p \in Proc, NEW name
  PROVE  \/ Offer(S, p, name) = None
         \/ /\ Offer(S, p, name) \in Message
            /\ S.turn[Offer(S, p, name)].at = "queued"
            /\ Writable(S, Offer(S, p, name))
<1> DEFINE claimable == {m \in Message : /\ S.turn[m].at = "queued"
                                         /\ Writable(S, m)
                                         /\ m # Skip(S, p, name)}
           onScreen == {m \in claimable : ChatOf[m] = S.chats.active}
           first == IF onScreen = {} THEN claimable ELSE onScreen
<1>1. first \subseteq claimable
  OBVIOUS
<1>2. \A m \in claimable : m \in Message /\ S.turn[m].at = "queued" /\ Writable(S, m)
  OBVIOUS
<1>3. Offer(S, p, name) = IF first = {} THEN None
                          ELSE CHOOSE m \in first : \A k \in first : m <= k
  BY DEF Offer
<1> HIDE DEF first, onScreen, claimable
<1>4. CASE first # {}
  <2>1. first \in SUBSET Nat
    BY <1>1, <1>2, Basics
  <2>2. \E m \in first : \A k \in first : m <= k
    BY <1>4, <2>1, HasLeast
  <2>3. Offer(S, p, name) \in first
    BY <1>3, <1>4, <2>2
  <2> QED
    BY <1>1, <1>2, <2>3
<1>5. CASE first = {}
  BY <1>3, <1>5
<1> QED
  BY <1>4, <1>5

\* A process hands a message to an agent that waits nowhere.
LEMMA TakeGood ==
  ASSUME NEW S, Good(S), NEW p \in Proc, NEW name \in Name, NEW a \in Agent,
         NEW m \in Message, S.turn[m].at = "queued", Writable(S, m),
         Place(a) = p, S.proc[p].up, S.agent[a].msg = None,
         WaitsNowhere(S, a)
  PROVE  /\ Good(Take(S, p, m, name, a))
         /\ AllKept(S) => AllKept(Take(S, p, m, name, a))
         /\ \A k \in Message : Take(S, p, m, name, a).turn[k].replies = S.turn[k].replies
         /\ \A b \in Agent : b # a => Take(S, p, m, name, a).agent[b] = S.agent[b]
         /\ Take(S, p, m, name, a).agent[a].at = "busy"
         /\ Take(S, p, m, name, a).proc[p].waiting = S.proc[p].waiting
         /\ \A q \in Proc : Take(S, p, m, name, a).proc[q].up = S.proc[q].up
<1>1. S \in State /\ S.turn[m].tries < MaxDeliveries
  BY DEF Good, Counts, Waits
<1>2. PICK T : T = Take(S, p, m, name, a)
  OBVIOUS
<1>3. Given(S, p, m, a, T)
  BY <1>1, <1>2, TakeIs
<1>4. Good(T) /\ (AllKept(S) => AllKept(T))
  BY <1>3, GivenGood
<1> QED
  BY <1>2, <1>3, <1>4 DEF Given

Shifted(S, p) == [S EXCEPT !.proc[p].waiting = Tail(@)]

\* The waiter in front is taken out of its queue, and still parked.
LEMMA TailGood ==
  ASSUME NEW S, Good(S), NEW p \in Proc, S.proc[p].waiting # <<>>,
         NEW U, U = Shifted(S, p)
  PROVE  /\ Good(U)
         /\ U.turn = S.turn /\ U.chats = S.chats /\ U.agent = S.agent /\ U.excuse = S.excuse
         /\ \A q \in Proc : U.proc[q].work = S.proc[q].work /\ U.proc[q].up = S.proc[q].up
         /\ Len(U.proc[p].waiting) = Len(S.proc[p].waiting) - 1
         /\ Head(S.proc[p].waiting) \in Waiter
         /\ Place(Head(S.proc[p].waiting).agent) = p
         /\ S.agent[Head(S.proc[p].waiting).agent].at = "parked"
         /\ WaitsNowhere(U, Head(S.proc[p].waiting).agent)
<1> DEFINE w == S.proc[p].waiting
           R == [S.proc[p] EXCEPT !.waiting = Tail(w)]
           P == [S.proc EXCEPT ![p] = R]
<1>0. /\ S \in State /\ S.proc \in [Proc -> ProcRow] /\ S.proc[p] \in ProcRow
      /\ w \in Seq(Waiter)
  BY DEF Good, State, ProcRow
<1>1. U = [S EXCEPT !.proc = P]
  BY <1>0 DEF State, ProcRow, Shifted
<1>2. PICK v : v = Tail(w)
  OBVIOUS
<1>3. /\ v \in Seq(Waiter) /\ Len(v) = Len(w) - 1 /\ Len(w) \in Nat /\ Len(w) >= 1
      /\ \A i \in 1..Len(v) : v[i] = w[i + 1] /\ i + 1 \in 1..Len(w)
      /\ Head(w) = w[1] /\ 1 \in 1..Len(w)
  BY <1>0, <1>2
<1>4. R \in ProcRow /\ R.work = S.proc[p].work /\ R.up = S.proc[p].up /\ R.waiting = v
  BY <1>0, <1>2, <1>3 DEF ProcRow
<1> HIDE DEF R
<1>5. P \in [Proc -> ProcRow] /\ P[p] = R /\ \A q \in Proc : q # p => P[q] = S.proc[q]
  BY <1>0, <1>4
<1> HIDE DEF P
<1>6. /\ U \in State /\ U.turn = S.turn /\ U.chats = S.chats /\ U.agent = S.agent
      /\ U.excuse = S.excuse /\ U.proc = P
  BY <1>0, <1>1, <1>5 DEF State
<1>7. \A q \in Proc : Queue(S, q)
  BY DEF Good, Queues
<1>15. /\ \A i \in 1..Len(w) : S.agent[w[i].agent].at = "parked" /\ Place(w[i].agent) = p
       /\ \A i, j \in 1..Len(w) : w[i].agent = w[j].agent => i = j
       /\ S.proc[p].up
  BY <1>7 DEF Queue
<1>16. ASSUME NEW i \in 1..Len(v)
       PROVE  /\ v[i].agent # Head(w).agent
              /\ S.agent[v[i].agent].at = "parked" /\ Place(v[i].agent) = p
  <2>1. i + 1 \in 1..Len(w) /\ v[i] = w[i + 1] /\ i + 1 # 1
    BY <1>3
  <2> QED
    BY SMTT(30), <1>3, <1>15, <2>1
<1>8. Head(w) \in Waiter /\ Place(Head(w).agent) = p /\ S.agent[Head(w).agent].at = "parked"
  <2>1. Head(w) \in Waiter
    BY <1>0, <1>3, ElementIn
  <2> QED
    BY SMTT(30), <1>3, <1>7, <2>1 DEF Queue
<1>9. \A i \in 1..Len(v) : v[i].agent # Head(w).agent
  BY <1>16
<1>10. Queues(U)
  <2>1. ASSUME NEW q \in Proc, q # p PROVE Queue(U, q)
    <3>1. U.proc[q] = S.proc[q] /\ U.agent = S.agent
      BY <1>5, <1>6, <2>1
    <3> QED
      BY SMTT(30), <1>7, <3>1 DEF Queue
  <2>2. Queue(U, p)
    <3>1. ASSUME NEW i \in 1..Len(v) PROVE U.agent[v[i].agent].at = "parked" /\ Place(v[i].agent) = p
      BY <1>6, <1>16
    <3>2. ASSUME NEW i \in 1..Len(v), NEW j \in 1..Len(v), v[i].agent = v[j].agent PROVE i = j
      <4>1. /\ i + 1 \in 1..Len(w) /\ v[i] = w[i + 1]
            /\ j + 1 \in 1..Len(w) /\ v[j] = w[j + 1]
        BY <1>3
      <4>2. i + 1 = j + 1
        BY <1>15, <3>2, <4>1
      <4> QED
        BY <1>3, <4>2
    <3>3. U.proc[p].waiting = v /\ U.proc[p].up
      BY <1>4, <1>5, <1>6, <1>15
    <3> QED
      BY <3>1, <3>2, <3>3 DEF Queue
  <2> QED
    BY <2>1, <2>2 DEF Queues
<1>11. \A q \in Proc : U.proc[q].work = S.proc[q].work /\ U.proc[q].up = S.proc[q].up
  BY <1>4, <1>5, <1>6
<1>12. Good(U)
  <2>1. Leases(U)
    BY <1>6, <1>11 DEF Good, Leases, Freed, Held, Waits, InHand
  <2>2. Counts(U) /\ Seats(U)
    BY <1>6 DEF Good, Counts, Seats, Waits
  <2>3. Live(U)
    BY <1>6, <1>11, Basics DEF Good, Live, Writable
  <2> QED
    BY <1>6, <1>10, <2>1, <2>2, <2>3 DEF Good
<1>13. WaitsNowhere(U, Head(w).agent)
  <2>1. ASSUME NEW q \in Proc, q # p, NEW i \in 1..Len(S.proc[q].waiting)
        PROVE  S.proc[q].waiting[i].agent # Head(w).agent
    BY SMTT(30), <1>7, <1>8, <2>1 DEF Queue
  <2>2. U.proc[p].waiting = v
    BY <1>4, <1>5, <1>6
  <2>3. \A q \in Proc : q # p => U.proc[q].waiting = S.proc[q].waiting
    BY <1>5, <1>6
  <2> QED
    BY <1>9, <2>1, <2>2, <2>3 DEF WaitsNowhere
<1>14. Len(U.proc[p].waiting) = Len(w) - 1
  BY <1>3, <1>4, <1>5, <1>6
<1> QED
  BY <1>6, <1>8, <1>11, <1>12, <1>13, <1>14

LEMMA ServeFirstGood ==
  ASSUME NEW S, Good(S), NEW p \in Proc, S.proc[p].waiting # <<>>
  PROVE  /\ Good(ServeFirst(S, p)) /\ Serves(S, ServeFirst(S, p))
         /\ AllKept(S) => AllKept(ServeFirst(S, p))
         /\ Len(ServeFirst(S, p).proc[p].waiting) >= Len(S.proc[p].waiting) - 1
<1>1. PICK T : T = Retire(S)
  OBVIOUS
<1>2. /\ Good(T) /\ Serves(S, T) /\ (AllKept(S) => AllKept(T))
      /\ T.proc = S.proc /\ T.agent = S.agent
  <2>1. S \in State
    BY DEF Good
  <2> QED
    BY <1>1, <2>1, RetireGood, RetireIs
<1>3. T \in State /\ Len(S.proc[p].waiting) \in Nat
  <2>1. T \in State /\ S.proc[p].waiting \in Seq(Waiter)
    BY <1>2 DEF Good, State, ProcRow
  <2> QED
    BY <2>1
<1>4. PICK w : w = Head(T.proc[p].waiting)
  OBVIOUS
<1>5. PICK m : m = Offer(T, p, w.name)
  OBVIOUS
<1>6. CASE m = None
  <2>1. ServeFirst(S, p) = T
    BY <1>1, <1>4, <1>5, <1>6 DEF ServeFirst
  <2> QED
    BY <1>2, <1>3, <2>1
<1>7. CASE m # None
  <2>0. T.proc[p].waiting # <<>>
    BY <1>2
  <2>1. PICK U : U = Shifted(T, p)
    OBVIOUS
  <2>2. ServeFirst(S, p) = Take(U, p, m, w.name, w.agent)
    BY <1>1, <1>4, <1>5, <1>7, <2>1 DEF ServeFirst, Shifted
  <2>3. m \in Message /\ T.turn[m].at = "queued" /\ Writable(T, m)
    BY <1>3, <1>5, <1>7, OfferIs
  <2>4. /\ Good(U)
        /\ U.turn = T.turn /\ U.chats = T.chats /\ U.agent = T.agent /\ U.excuse = T.excuse
        /\ \A q \in Proc : U.proc[q].work = T.proc[q].work /\ U.proc[q].up = T.proc[q].up
        /\ Len(U.proc[p].waiting) = Len(T.proc[p].waiting) - 1
        /\ w \in Waiter /\ Place(w.agent) = p /\ T.agent[w.agent].at = "parked"
        /\ WaitsNowhere(U, w.agent)
    BY SMTT(30), <1>2, <1>4, <2>0, <2>1, TailGood
  <2>5. w.agent \in Agent /\ w.name \in Name
    BY <2>4 DEF Waiter
  <2>6. U.agent[w.agent].msg = None
    <3>1. Seats(U)
      BY <2>4 DEF Good
    <3> QED
      BY <2>4, <2>5, <3>1 DEF Seats
  <2>7. T.proc[p].up /\ U.proc[p].up
    <3>1. Queue(T, p)
      BY <1>2 DEF Good, Queues
    <3> QED
      BY <2>0, <2>4, <3>1 DEF Queue
  <2>8. U.turn[m].at = "queued" /\ Writable(U, m)
    BY <2>3, <2>4 DEF Writable
  <2>9. PICK V : V = Take(U, p, m, w.name, w.agent)
    OBVIOUS
  <2>10. /\ Good(V) /\ (AllKept(U) => AllKept(V))
         /\ \A k \in Message : V.turn[k].replies = U.turn[k].replies
         /\ \A b \in Agent : b # w.agent => V.agent[b] = U.agent[b]
         /\ V.proc[p].waiting = U.proc[p].waiting
         /\ \A q \in Proc : V.proc[q].up = U.proc[q].up
    BY <2>3, <2>4, <2>5, <2>6, <2>7, <2>8, <2>9, TakeGood
  <2>11. AllKept(T) => AllKept(U)
    BY <2>4 DEF AllKept, Kept
  <2>12. Serves(T, V)
    BY <2>4, <2>10 DEF Serves
  <2>13. Serves(S, V)
    BY <1>2, <2>12, ServesAgain
  <2>14. Len(V.proc[p].waiting) >= Len(S.proc[p].waiting) - 1
    BY <1>2, <1>3, <2>4, <2>10
  <2> QED
    BY <1>2, <2>2, <2>9, <2>10, <2>11, <2>13, <2>14
<1> QED
  BY <1>6, <1>7

\* The recursion of HandOff is a function.
LEMMA ServedExists ==
  ASSUME NEW S, NEW p, NEW waiters \in Nat
  PROVE  \E f : f = [n \in 0..waiters |-> IF n = 0 THEN S ELSE ServeFirst(f[n - 1], p)]
<1> DEFINE Upto(N) == \E f : f = [n \in 0..N |-> IF n = 0 THEN S ELSE ServeFirst(f[n - 1], p)]
           bad == {N \in Nat : ~Upto(N)}
<1>1. Upto(0)
  <2> DEFINE f == [n \in 0..0 |-> S]
  <2>1. f = [n \in 0..0 |-> IF n = 0 THEN S ELSE ServeFirst(f[n - 1], p)]
    OBVIOUS
  <2> QED
    BY <2>1
<1>2. ASSUME NEW N \in Nat, Upto(N) PROVE Upto(N + 1)
  <2>1. PICK f : f = [n \in 0..N |-> IF n = 0 THEN S ELSE ServeFirst(f[n - 1], p)]
    BY <1>2
  <2> DEFINE g == [n \in 0..N + 1 |-> IF n = N + 1 THEN ServeFirst(f[N], p) ELSE f[n]]
  <2>2. \A n \in 0..N : g[n] = f[n] /\ g[N + 1] = ServeFirst(f[N], p)
    OBVIOUS
  <2>3. ASSUME NEW n \in 0..N + 1
        PROVE  g[n] = IF n = 0 THEN S ELSE ServeFirst(g[n - 1], p)
    <3>1. CASE n = N + 1
      <4>1. n # 0 /\ n - 1 = N /\ N \in 0..N
        BY <3>1
      <4>2. g[n - 1] = f[N] /\ g[n] = ServeFirst(f[N], p)
        BY <2>2, <3>1, <4>1
      <4> QED
        BY <4>1, <4>2
    <3>2. CASE n # N + 1
      <4>1. n \in 0..N /\ (n # 0 => n - 1 \in 0..N)
        BY <3>2
      <4>2. f[n] = IF n = 0 THEN S ELSE ServeFirst(f[n - 1], p)
        BY <2>1, <4>1
      <4>3. g[n] = f[n] /\ (n # 0 => g[n - 1] = f[n - 1])
        BY <2>2, <4>1
      <4> QED
        BY <4>2, <4>3
    <3> QED
      BY <3>1, <3>2
  <2>4. g = [n \in 0..N + 1 |-> g[n]]
    OBVIOUS
  <2> HIDE DEF g
  <2>5. g = [n \in 0..N + 1 |-> IF n = 0 THEN S ELSE ServeFirst(g[n - 1], p)]
    BY <2>3, <2>4
  <2> QED
    BY <2>5
<1> HIDE DEF Upto
<1>3. bad = {}
  <2>1. SUFFICES ASSUME bad # {} PROVE FALSE
    OBVIOUS
  <2>2. bad \in SUBSET Nat
    OBVIOUS
  <2>3. PICK N \in bad : \A k \in bad : N <= k
    <3> HIDE DEF bad
    <3> QED
      BY <2>1, <2>2, HasLeast
  <2>4. N # 0
    BY <1>1, <2>3
  <2>5. N - 1 \in Nat /\ N - 1 \notin bad
    BY <2>3, <2>4
  <2>6. Upto(N - 1)
    BY <2>5
  <2> QED
    BY <1>2, <2>3, <2>5, <2>6
<1>4. Upto(waiters)
  BY <1>3
<1> QED
  BY <1>4 DEF Upto

LEMMA HandOffGood ==
  ASSUME NEW S, Good(S), NEW p \in Proc
  PROVE  /\ Good(HandOff(S, p)) /\ Serves(S, HandOff(S, p))
         /\ AllKept(S) => AllKept(HandOff(S, p))
<1> DEFINE waiters == Len(S.proc[p].waiting)
           f == CHOOSE g : g = [n \in 0..waiters |-> IF n = 0 THEN S ELSE ServeFirst(g[n - 1], p)]
           Fine(T) == /\ Good(T) /\ Serves(S, T)
                      /\ AllKept(S) => AllKept(T)
           bad == {n \in 0..waiters : ~(Fine(f[n]) /\ Len(f[n].proc[p].waiting) >= waiters - n)}
<1>1. waiters \in Nat
  <2>1. S.proc[p].waiting \in Seq(Waiter)
    BY DEF Good, State, ProcRow
  <2> QED
    BY <2>1
<1>2. HandOff(S, p) = f[waiters]
  BY DEF HandOff
<1>3. f = [n \in 0..waiters |-> IF n = 0 THEN S ELSE ServeFirst(f[n - 1], p)]
  <2> HIDE DEF waiters
  <2> QED
    BY <1>1, ServedExists
<1> HIDE DEF f
<1>4. Fine(f[0]) /\ Len(f[0].proc[p].waiting) >= waiters - 0
  <2>1. f[0] = S
    BY <1>1, <1>3
  <2> QED
    BY <1>1, <2>1, ServesSelf
<1>5. ASSUME NEW n \in 0..waiters, n # 0, Fine(f[n - 1]),
             Len(f[n - 1].proc[p].waiting) >= waiters - (n - 1)
      PROVE  Fine(f[n]) /\ Len(f[n].proc[p].waiting) >= waiters - n
  <2>1. f[n] = ServeFirst(f[n - 1], p)
    <3> HIDE DEF waiters
    <3> QED
      BY <1>1, <1>3, <1>5
  <2>2. PICK T : T = f[n - 1]
    OBVIOUS
  <2>3. Len(T.proc[p].waiting) \in Nat
    <3>1. T.proc[p].waiting \in Seq(Waiter)
      BY <1>5, <2>2 DEF Good, State, ProcRow
    <3> QED
      BY <3>1
  <2>4. Len(T.proc[p].waiting) >= 1 /\ Len(T.proc[p].waiting) >= waiters - (n - 1)
    <3> HIDE DEF waiters, Fine
    <3> QED
      BY <1>1, <1>5, <2>2, <2>3
  <2>5. T.proc[p].waiting # <<>>
    BY <2>4
  <2>6. /\ Good(ServeFirst(T, p)) /\ Serves(T, ServeFirst(T, p))
        /\ AllKept(T) => AllKept(ServeFirst(T, p))
        /\ Len(ServeFirst(T, p).proc[p].waiting) >= Len(T.proc[p].waiting) - 1
    BY <1>5, <2>2, <2>5, ServeFirstGood
  <2>7. Serves(S, ServeFirst(T, p))
    BY <1>5, <2>2, <2>6, ServesAgain
  <2>8. Fine(f[n])
    BY <1>5, <2>1, <2>2, <2>6, <2>7
  <2>9. Len(f[n].proc[p].waiting) \in Nat
    <3>1. f[n].proc[p].waiting \in Seq(Waiter)
      BY <2>8 DEF Good, State, ProcRow
    <3> QED
      BY SMTT(30), <3>1
  <2>10. Len(f[n].proc[p].waiting) >= Len(T.proc[p].waiting) - 1
    BY <2>1, <2>2, <2>6
  <2>11. Len(f[n].proc[p].waiting) >= waiters - n
    <3>1. PICK k \in Nat : k = Len(T.proc[p].waiting)
      BY <2>3
    <3>2. PICK l \in Nat : l = Len(f[n].proc[p].waiting)
      BY <2>9
    <3>3. l >= k - 1 /\ k >= waiters - (n - 1)
      BY <2>4, <2>10, <3>1, <3>2
    <3> HIDE DEF waiters
    <3>4. l >= waiters - n
      BY <1>1, <3>3
    <3> QED
      BY <3>2, <3>4 DEF waiters
  <2> QED
    BY <2>8, <2>11
<1> HIDE DEF Fine, waiters
<1>6. bad = {}
  <2>1. SUFFICES ASSUME bad # {} PROVE FALSE
    OBVIOUS
  <2>2. bad \in SUBSET Nat
    BY <1>1
  <2>3. PICK n \in bad : \A k \in bad : n <= k
    <3> HIDE DEF bad
    <3> QED
      BY <2>1, <2>2, HasLeast
  <2>4. n # 0
    BY <1>4, <2>3
  <2>5. n - 1 \in 0..waiters /\ n - 1 \notin bad
    BY <1>1, <2>3, <2>4
  <2>6. Fine(f[n - 1]) /\ Len(f[n - 1].proc[p].waiting) >= waiters - (n - 1)
    BY <2>5
  <2> QED
    BY <1>5, <2>3, <2>4, <2>6
<1>7. Fine(f[waiters])
  <2>1. waiters \in 0..waiters
    BY <1>1
  <2> QED
    BY <1>6, <2>1
<1> QED
  BY <1>2, <1>7 DEF Fine

-----------------------------------------------------------------------------
(* Giving messages back *)

\* What may become of a row: nothing; it waits again, in nobody's hands or
\* taken from them; or nobody is offered it any more.
Rowed(S, T, k) ==
  \/ /\ T.turn[k].at = S.turn[k].at /\ T.turn[k].tries = S.turn[k].tries
     /\ T.turn[k].replies = S.turn[k].replies
  \/ /\ T.turn[k].at = "queued" /\ T.turn[k].tries < MaxDeliveries
     /\ T.turn[k].replies = S.turn[k].replies
     /\ Freed(T, k) \/ (~InHand(S, k) /\ S.turn[k].replies = 0)
  \/ /\ T.turn[k].at = "gone" \/ (T.turn[k].at = "leased" /\ T.turn[k].tries = MaxDeliveries)
     /\ T.turn[k].replies = S.turn[k].replies

LEMMA RowsGood ==
  ASSUME NEW S, Good(S), NEW T \in State,
         T.chats.archived \subseteq S.chats.archived,
         T.agent = S.agent,
         \A k \in Message : S.excuse[k] \subseteq T.excuse[k],
         \A q \in Proc : /\ T.proc[q].work = S.proc[q].work
                         /\ T.proc[q].waiting = S.proc[q].waiting
                         /\ S.proc[q].up => T.proc[q].up,
         \A k \in Message : Rowed(S, T, k)
  PROVE  /\ Good(T) /\ Serves(S, T)
         /\ (\A k \in Message : \/ Kept(S, k)
                                \/ T.turn[k].at # "leased"
                                \/ T.turn[k].tries = MaxDeliveries)
              => AllKept(T)
<1>0. /\ S \in State /\ T \in State /\ MaxDeliveries \in Nat /\ MaxDeliveries >= 1
      /\ \A k \in Message : S.turn[k].replies \in Nat
  BY Basics DEF Good, State, TurnRow
<1>1. Leases(T)
  <2>1. SUFFICES ASSUME NEW k \in Message PROVE Freed(T, k) \/ Held(T, k)
    BY DEF Leases
  <2>2. Freed(S, k) \/ Held(S, k)
    BY DEF Good, Leases
  <2>3. S.excuse[k] \subseteq T.excuse[k] /\ T.turn[k].replies = S.turn[k].replies
    BY DEF Rowed
  <2>4. \A b \in Agent : T.agent[b].msg = k => S.agent[b].msg = k
    OBVIOUS
  <2>5. \A q \in Proc : T.proc[q].work = k => S.proc[q].work = k
    OBVIOUS
  <2>6. CASE Waits(T, k) => Waits(S, k)
    BY <2>2, <2>3, <2>4, <2>5, <2>6, HeldOn
  <2>7. CASE Waits(T, k) /\ ~Waits(S, k)
    <3>1. Freed(T, k) \/ (~InHand(S, k) /\ S.turn[k].replies = 0)
      BY <2>7 DEF Rowed, Waits
    <3>2. CASE ~InHand(S, k) /\ S.turn[k].replies = 0
      <4>1. ~InHand(T, k) /\ T.turn[k].replies = 0
        BY <2>3, <3>1, <3>2 DEF InHand
      <4>2. \A b \in Agent : T.agent[b].msg # k
        BY <4>1 DEF InHand
      <4>3. \A q \in Proc : T.proc[q].work # k
        BY <4>1 DEF InHand
      <4> QED
        BY <4>1, <4>2, <4>3, Basics DEF Held
    <3> QED
      BY <3>1, <3>2
  <2> QED
    BY <2>6, <2>7
<1>2. Counts(T)
  <2>1. SUFFICES ASSUME NEW k \in Message
                 PROVE  /\ Waits(T, k) => T.turn[k].tries < MaxDeliveries
                        /\ T.turn[k].at = "leased" => T.turn[k].tries >= 1
    BY DEF Counts
  <2>2. /\ Waits(S, k) => S.turn[k].tries < MaxDeliveries
        /\ S.turn[k].at = "leased" => S.turn[k].tries >= 1
    BY DEF Good, Counts
  <2>3. Rowed(S, T, k)
    OBVIOUS
  <2> QED
    BY <1>0, <2>2, <2>3 DEF Rowed, Waits
<1>3. Seats(T)
  BY DEF Good, Seats
<1>4. Queues(T)
  <2>1. SUFFICES ASSUME NEW q \in Proc PROVE Queue(T, q)
    BY DEF Queues
  <2>2. Queue(S, q)
    BY DEF Good, Queues
  <2> QED
    BY <1>0, <2>2 DEF Queue
<1>5. Live(T)
  <2>1. \A k \in Message : Writable(S, k) => Writable(T, k)
    BY DEF Writable
  <2> QED
    BY <2>1, Basics DEF Good, Live
<1>6. Serves(S, T)
  BY DEF Serves, Rowed
<1>7. ASSUME NEW k \in Message, \/ Kept(S, k)
                                \/ T.turn[k].at # "leased"
                                \/ T.turn[k].tries = MaxDeliveries
      PROVE  Kept(T, k)
  <2>1. Rowed(S, T, k)
    OBVIOUS
  <2> QED
    BY <1>0, <1>7, <2>1 DEF Kept, Rowed
<1> QED
  BY <1>0, <1>1, <1>2, <1>3, <1>4, <1>5, <1>6, <1>7 DEF Good, AllKept

\* T is S with the row of message m as r says.
Written(S, m, r, T) ==
  /\ T \in State /\ T.chats = S.chats /\ T.proc = S.proc /\ T.agent = S.agent
  /\ T.excuse = S.excuse
  /\ T.turn[m] = r
  /\ \A k \in Message : k # m => T.turn[k] = S.turn[k]

LEMMA WriteIs ==
  ASSUME NEW S \in State, NEW m \in Message, NEW r \in TurnRow
  PROVE  Written(S, m, r, [S EXCEPT !.turn = [S.turn EXCEPT ![m] = r]])
<1>1. S.turn \in [Message -> TurnRow]
  BY DEF State
<1> DEFINE D == [S.turn EXCEPT ![m] = r]
<1>2. D \in [Message -> TurnRow] /\ D[m] = r /\ \A k \in Message : k # m => D[k] = S.turn[k]
  BY <1>1
<1> HIDE DEF D
<1>3. PICK T : T = [S EXCEPT !.turn = D]
  OBVIOUS
<1>4. Written(S, m, r, T)
  BY <1>2, <1>3 DEF Written, State
<1> QED
  BY <1>3, <1>4 DEF D

\* One row is given back or dropped, and then the waiters are served.
LEMMA WriteGood ==
  ASSUME NEW S, Good(S), NEW m \in Message, NEW r, NEW T, Written(S, m, r, T), Rowed(S, T, m)
  PROVE  /\ Good(T) /\ Serves(S, T)
         /\ (/\ \A k \in Message : k # m => Kept(S, k)
             /\ r.at # "leased" \/ r.tries = MaxDeliveries)
              => AllKept(T)
<1>1. \A k \in Message : Rowed(S, T, k)
  BY DEF Written, Rowed
<1>2. /\ T \in State /\ T.chats = S.chats /\ T.proc = S.proc /\ T.agent = S.agent
      /\ T.excuse = S.excuse
  BY DEF Written
<1>3. T.chats.archived \subseteq S.chats.archived
  BY <1>2
<1>4. \A k \in Message : S.excuse[k] \subseteq T.excuse[k]
  BY <1>2
<1>5. \A q \in Proc : /\ T.proc[q].work = S.proc[q].work
                      /\ T.proc[q].waiting = S.proc[q].waiting
                      /\ S.proc[q].up => T.proc[q].up
  BY <1>2
<1>6. ASSUME \A k \in Message : k # m => Kept(S, k),
             r.at # "leased" \/ r.tries = MaxDeliveries
      PROVE  \A k \in Message : \/ Kept(S, k)
                                \/ T.turn[k].at # "leased"
                                \/ T.turn[k].tries = MaxDeliveries
  BY <1>6 DEF Written
<1>7. /\ Good(T) /\ Serves(S, T)
      /\ (\A k \in Message : \/ Kept(S, k)
                             \/ T.turn[k].at # "leased"
                             \/ T.turn[k].tries = MaxDeliveries)
           => AllKept(T)
  BY <1>1, <1>2, <1>3, <1>4, <1>5, RowsGood
<1> QED
  BY <1>6, <1>7

\* What is taken from m's hands by a call that says so, or is in nobody's.
MayFree(S, p, m, why) ==
  \/ why \in Taken
  \/ Freed(S, m)
  \/ ~InHand(DropWorkOn(S, p, m), m)

LEMMA ReleaseGood ==
  ASSUME NEW S, Good(S), NEW p \in Proc, NEW m \in Message, NEW how, NEW why,
         MayFree(S, p, m, why)
  PROVE  /\ Good(Release(S, p, m, how, why))
         /\ Serves(S, Release(S, p, m, how, why))
         /\ AllKept(S) => AllKept(Release(S, p, m, how, why))
<1>1. PICK held : held = DropWorkOn(S, p, m)
  OBVIOUS
<1>2. /\ Good(held) /\ Serves(S, held)
      /\ held.turn = S.turn /\ held.agent = S.agent
      /\ held.chats = S.chats /\ held.excuse = S.excuse
      /\ \A q \in Proc : held.proc[q].work = IF q = p /\ S.proc[q].work = m THEN None ELSE S.proc[q].work
  BY <1>1, DropWorkOnGood
<1>3. PICK F : F = Excuse(held, m, why)
  OBVIOUS
<1>4. /\ Good(F) /\ Serves(held, F)
      /\ F.turn = held.turn /\ F.chats = held.chats /\ F.agent = held.agent /\ F.proc = held.proc
      /\ \A k \in Message : held.excuse[k] \subseteq F.excuse[k]
      /\ why \in Taken /\ InHand(held, m) => Freed(F, m)
  <2>1. held \in State
    BY <1>2 DEF Good
  <2> QED
    BY <1>2, <1>3, <2>1, ExcuseGood, ExcuseIs
<1>5. F \in State /\ S \in State /\ F.turn = S.turn /\ S.turn[m] \in TurnRow /\ Serves(S, F)
      /\ MaxDeliveries \in Nat /\ MaxDeliveries >= 1
  BY <1>2, <1>4, ServesAgain, Basics DEF Good, State
<1>6. Freed(F, m) \/ ~InHand(F, m)
  <2>1. InHand(F, m) <=> InHand(held, m)
    BY <1>4 DEF InHand
  <2>2. Freed(S, m) => Freed(F, m)
    BY <1>2, <1>4 DEF Freed
  <2> QED
    BY <1>1, <1>4, <2>1, <2>2 DEF MayFree
<1>7. AllKept(S) => \A k \in Message : k # m => Kept(held, k) /\ Kept(F, k)
  <2>1. SUFFICES ASSUME NEW k \in Message, k # m, Kept(S, k) PROVE Kept(held, k) /\ Kept(F, k)
    BY DEF AllKept
  <2>2. \A q \in Proc : S.proc[q].work = k => held.proc[q].work = k /\ F.proc[q].work = k
    BY <1>2, <1>4, <2>1
  <2>3. /\ S.excuse[k] \subseteq held.excuse[k] /\ S.excuse[k] \subseteq F.excuse[k]
        /\ held.turn[k] = S.turn[k] /\ F.turn[k] = S.turn[k]
    BY <1>2, <1>4
  <2>4. Kept(held, k)
    BY <2>1, <2>2, <2>3, KeptOn
  <2>5. Kept(F, k)
    BY <2>1, <2>2, <2>3, KeptOn
  <2> QED
    BY <2>4, <2>5
<1>8. CASE S.turn[m].at # "leased" \/ Answered(S, m)
  <2>1. Release(S, p, m, how, why) = held
    BY <1>1, <1>8 DEF Release
  <2>2. Kept(held, m)
    BY <1>2, <1>8 DEF Kept, Answered
  <2>3. AllKept(S) => AllKept(held)
    BY <1>7, <2>2 DEF AllKept
  <2> QED
    BY <1>2, <2>1, <2>3
<1>9. CASE S.turn[m].at = "leased" /\ ~Answered(S, m)
  <2>0. /\ S.turn[m].at = "leased" /\ S.turn[m].replies = 0
        /\ S.turn[m].tries \in 1..MaxDeliveries
    BY <1>5, <1>9 DEF Answered, TurnRow, Good, Counts
  <2>1. CASE how = "dead"
    <3> DEFINE r == [S.turn[m] EXCEPT !.tries = MaxDeliveries]
    <3>1. r \in TurnRow /\ r.tries = MaxDeliveries /\ r.replies = S.turn[m].replies /\ r.at = "leased"
      BY <1>5, <2>0 DEF TurnRow
    <3>2. [F EXCEPT !.turn[m].tries = MaxDeliveries] = [F EXCEPT !.turn = [F.turn EXCEPT ![m] = r]]
      BY <1>5 DEF State
    <3> HIDE DEF r
    <3>3. PICK T : T = [F EXCEPT !.turn = [F.turn EXCEPT ![m] = r]]
      OBVIOUS
    <3>4. Written(F, m, r, T)
      BY <1>5, <3>1, <3>3, WriteIs
    <3>5. Rowed(F, T, m)
      BY <1>5, <2>0, <3>1, <3>4 DEF Rowed, Written
    <3>6. Good(T) /\ Serves(F, T) /\ ((\A k \in Message : k # m => Kept(F, k)) => AllKept(T))
      BY <1>4, <3>1, <3>4, <3>5, WriteGood
    <3>7. Release(S, p, m, how, why) = T
      BY <1>1, <1>3, <1>9, <2>1, <3>2, <3>3 DEF Release
    <3> QED
      BY <1>5, <1>7, <3>6, <3>7, ServesAgain
  <2>2. CASE how # "dead" /\ how # "revert" /\ S.turn[m].tries >= MaxDeliveries
    <3>1. Release(S, p, m, how, why) = F
      BY <1>1, <1>3, <1>9, <2>2 DEF Release
    <3>2. Kept(F, m)
      BY <1>5, <2>0, <2>2 DEF Kept
    <3> QED
      BY <1>4, <1>5, <1>7, <3>1, <3>2 DEF AllKept
  <2>3. CASE how = "revert" \/ (how # "dead" /\ ~(S.turn[m].tries >= MaxDeliveries))
    <3>1. PICK t : t = IF how = "revert" THEN S.turn[m].tries - 1 ELSE S.turn[m].tries
      OBVIOUS
    <3>2. t \in 0..MaxDeliveries /\ t < MaxDeliveries
      BY <1>5, <2>0, <2>3, <3>1
    <3> DEFINE r == [S.turn[m] EXCEPT !.at = "queued", !.tries = t]
    <3>3. r \in TurnRow /\ r.tries = t /\ r.replies = 0 /\ r.at = "queued"
      BY <1>5, <2>0, <3>2 DEF TurnRow
    <3> DEFINE T == [F EXCEPT !.turn = [F.turn EXCEPT ![m] = r]]
    <3>4. Release(S, p, m, how, why) = HandOff(T, p)
      <4>1. CASE how = "revert"
        <5>1. [F EXCEPT !.turn[m].at = "queued", !.turn[m].tries = @ - 1] = T
          BY ZenonT(30), <1>5, <3>1, <4>1 DEF State, TurnRow
        <5> HIDE DEF T
        <5> QED
          BY <1>1, <1>3, <1>9, <4>1, <5>1 DEF Release
      <4>2. CASE how # "revert"
        <5>1. [F EXCEPT !.turn[m].at = "queued"] = T
          BY <1>5, <3>1, <4>2 DEF State, TurnRow
        <5> HIDE DEF T
        <5> QED
          BY <1>1, <1>3, <1>9, <2>3, <4>2, <5>1 DEF Release
      <4> QED
        BY <4>1, <4>2
    <3> HIDE DEF r
    <3>5. PICK U : U = T
      OBVIOUS
    <3>6. Written(F, m, r, U)
      BY <1>5, <3>3, <3>5, WriteIs
    <3>7. Rowed(F, U, m)
      <4>1. U.turn[m] = r /\ U.excuse = F.excuse
        BY <3>6 DEF Written
      <4>2. Freed(U, m) \/ ~InHand(F, m)
        BY <1>6, <4>1 DEF Freed
      <4> QED
        BY <1>5, <2>0, <3>2, <3>3, <4>1, <4>2 DEF Rowed
    <3>8. Good(U) /\ Serves(F, U) /\ ((\A k \in Message : k # m => Kept(F, k)) => AllKept(U))
      BY <1>4, <3>3, <3>6, <3>7, WriteGood
    <3>9. /\ Good(HandOff(U, p)) /\ Serves(U, HandOff(U, p))
          /\ AllKept(U) => AllKept(HandOff(U, p))
      BY <3>8, HandOffGood
    <3>10. Serves(S, HandOff(U, p))
      BY <1>5, <3>8, <3>9, ServesAgain
    <3> QED
      BY <1>7, <3>4, <3>5, <3>8, <3>9, <3>10
  <2> QED
    BY <2>1, <2>2, <2>3
<1> QED
  BY <1>8, <1>9

-----------------------------------------------------------------------------
(* The calls of the handlers *)

\* T is S with one answer more to message m, and some work dropped.
Replied(S, m, T) ==
  /\ T \in State /\ T.chats = S.chats /\ T.agent = S.agent
  /\ \A k \in Message : S.excuse[k] \subseteq T.excuse[k]
  /\ \A k \in Message : k # m => T.turn[k] = S.turn[k]
  /\ T.turn[m].at = S.turn[m].at /\ T.turn[m].tries = S.turn[m].tries
  /\ T.turn[m].replies = S.turn[m].replies + 1
  /\ \A q \in Proc : /\ T.proc[q].work \in {S.proc[q].work, None}
                     /\ T.proc[q].waiting = S.proc[q].waiting
                     /\ T.proc[q].up = S.proc[q].up

LEMMA RepliedGood ==
  ASSUME NEW S, Good(S), NEW m \in Message, NEW T, Replied(S, m, T),
         Freed(T, m) \/ Held(T, m)
  PROVE  Good(T)
<1>1. Leases(T)
  <2>1. SUFFICES ASSUME NEW k \in Message, k # m PROVE Freed(T, k) \/ Held(T, k)
    BY DEF Leases
  <2>2. Freed(S, k) \/ Held(S, k)
    BY DEF Good, Leases
  <2>3. /\ \A b \in Agent : T.agent[b].msg = k => S.agent[b].msg = k
        /\ \A q \in Proc : T.proc[q].work = k => S.proc[q].work = k
    BY Basics DEF Replied
  <2>4. S.excuse[k] \subseteq T.excuse[k] /\ T.turn[k] = S.turn[k]
    BY <2>1 DEF Replied
  <2>5. Waits(T, k) => Waits(S, k)
    BY <2>4 DEF Waits
  <2> QED
    BY <2>2, <2>3, <2>4, <2>5, HeldOn
<1>2. \A k \in Message : T.turn[k].at = S.turn[k].at /\ T.turn[k].tries = S.turn[k].tries
  BY DEF Replied
<1>3. Counts(T)
  BY <1>2 DEF Good, Counts, Waits
<1>4. Seats(T) /\ Live(T)
  BY Basics DEF Good, Seats, Live, Writable, Replied
<1>5. Queues(T)
  <2>1. SUFFICES ASSUME NEW q \in Proc PROVE Queue(T, q)
    BY DEF Queues
  <2>2. Queue(S, q) /\ T.proc[q].waiting = S.proc[q].waiting /\ T.proc[q].up = S.proc[q].up
        /\ T.proc[q].work \in {S.proc[q].work, None} /\ T.agent = S.agent
    BY DEF Good, Queues, Replied
  <2> QED
    BY <2>2 DEF Queue
<1> QED
  BY <1>1, <1>3, <1>4, <1>5 DEF Good, Replied

\* An answer is filed, and the process's work is dropped.
LEMMA AnswerIs ==
  ASSUME NEW S \in State, NEW p \in Proc, NEW m \in Message
  PROVE  /\ Replied(S, m, DropWork([S EXCEPT !.turn[m].replies = @ + 1], p))
         /\ DropWork([S EXCEPT !.turn[m].replies = @ + 1], p).excuse = S.excuse
         /\ \A q \in Proc : DropWork([S EXCEPT !.turn[m].replies = @ + 1], p).proc[q].work
                              = IF q = p THEN None ELSE S.proc[q].work
<1> DEFINE r == [S.turn[m] EXCEPT !.replies = @ + 1]
<1>0. S.turn[m] \in TurnRow
  BY DEF State
<1>1. r \in TurnRow /\ r.at = S.turn[m].at /\ r.tries = S.turn[m].tries
      /\ r.replies = S.turn[m].replies + 1
  BY <1>0 DEF TurnRow
<1>2. [S EXCEPT !.turn[m].replies = @ + 1] = [S EXCEPT !.turn = [S.turn EXCEPT ![m] = r]]
  BY <1>0 DEF State
<1> HIDE DEF r
<1>3. PICK U : U = [S EXCEPT !.turn = [S.turn EXCEPT ![m] = r]]
  OBVIOUS
<1>4. Written(S, m, r, U)
  BY <1>1, <1>3, WriteIs
<1>5. PICK T : T = DropWork(U, p)
  OBVIOUS
<1>6. /\ T \in State /\ T.turn = U.turn /\ T.chats = U.chats /\ T.agent = U.agent
      /\ T.excuse = U.excuse
      /\ \A q \in Proc : /\ T.proc[q].work = IF q = p THEN None ELSE U.proc[q].work
                         /\ T.proc[q].waiting = U.proc[q].waiting
                         /\ T.proc[q].up = U.proc[q].up
  <2>1. U \in State
    BY <1>4 DEF Written
  <2> QED
    BY <1>5, <2>1, DropWorkIs
<1>7. Replied(S, m, T)
  BY <1>1, <1>4, <1>6 DEF Replied, Written
<1>8. T.excuse = S.excuse /\ \A q \in Proc : T.proc[q].work = IF q = p THEN None ELSE S.proc[q].work
  BY <1>4, <1>6 DEF Written
<1> QED
  BY <1>2, <1>3, <1>5, <1>7, <1>8

Parked(S, p, a, name) ==
  [S EXCEPT !.agent[a].at = "parked",
            !.proc[p].waiting = Append(@, [agent |-> a, name |-> name])]

\* An agent is put at the end of the queue of the process it asks.
LEMMA ParkGood ==
  ASSUME NEW S, Good(S), NEW p \in Proc, NEW a \in Agent, NEW name \in Name,
         Place(a) = p, S.proc[p].up, S.agent[a].at = "away", WaitsNowhere(S, a),
         NEW T, T = Parked(S, p, a, name)
  PROVE  /\ Good(T)
         /\ T.turn = S.turn /\ T.excuse = S.excuse
         /\ \A b \in Agent : b # a => T.agent[b] = S.agent[b]
         /\ \A q \in Proc : T.proc[q].work = S.proc[q].work
         /\ T.agent[a].at = "parked"
<1> DEFINE Rows == [at : {"off", "away", "parked", "busy"}, msg : Message \cup {None}]
           new == [agent |-> a, name |-> name]
           w == S.proc[p].waiting
           R == [S.proc[p] EXCEPT !.waiting = Append(w, new)]
           P == [S.proc EXCEPT ![p] = R]
           A == [S.agent EXCEPT ![a] = [S.agent[a] EXCEPT !.at = "parked"]]
<1>0. /\ S \in State /\ S.proc \in [Proc -> ProcRow] /\ S.proc[p] \in ProcRow
      /\ w \in Seq(Waiter) /\ S.agent \in [Agent -> Rows] /\ S.agent[a].msg = None
  <2>1. S \in State /\ Seats(S)
    BY DEF Good
  <2>2. S.agent[a].msg = None
    BY <2>1 DEF Seats
  <2> QED
    BY <2>1, <2>2 DEF State, ProcRow
<1>1. new \in Waiter /\ new.agent = a
  BY DEF Waiter
<1>2. T = [S EXCEPT !.agent = A, !.proc = P]
  <2> HIDE DEF new
  <2>1. [S EXCEPT !.agent[a].at = "parked", !.proc[p].waiting = Append(@, new)]
          = [S EXCEPT !.agent = A, !.proc = P]
    BY <1>0 DEF State, ProcRow
  <2> QED
    BY <2>1 DEF new, Parked
<1> HIDE DEF new
<1>3. PICK v : v = Append(w, new)
  OBVIOUS
<1>4. /\ v \in Seq(Waiter) /\ Len(v) = Len(w) + 1 /\ Len(w) \in Nat
      /\ \A i \in 1..Len(w) : v[i] = w[i]
      /\ v[Len(w) + 1] = new
  BY <1>0, <1>1, <1>3
<1>5. R \in ProcRow /\ R.work = S.proc[p].work /\ R.up = S.proc[p].up /\ R.waiting = v
  BY <1>0, <1>3, <1>4 DEF ProcRow
<1> HIDE DEF R
<1>6. P \in [Proc -> ProcRow] /\ P[p] = R /\ \A q \in Proc : q # p => P[q] = S.proc[q]
  BY <1>0, <1>5
<1>7. /\ A \in [Agent -> Rows] /\ A[a].at = "parked" /\ A[a].msg = None
      /\ \A b \in Agent : b # a => A[b] = S.agent[b]
  BY <1>0
<1> HIDE DEF P, A
<1>8. /\ T \in State /\ T.turn = S.turn /\ T.chats = S.chats /\ T.excuse = S.excuse
      /\ T.agent = A /\ T.proc = P
  BY ZenonT(30), <1>0, <1>2, <1>6, <1>7 DEF State
<1>9. /\ \A q \in Proc : Queue(S, q)
      /\ \A q \in Proc : \A i \in 1..Len(S.proc[q].waiting) :
           T.agent[S.proc[q].waiting[i].agent].at = "parked"
  <2>1. \A q \in Proc : Queue(S, q)
    BY DEF Good, Queues
  <2>2. SUFFICES ASSUME NEW q \in Proc, NEW i \in 1..Len(S.proc[q].waiting)
                 PROVE  T.agent[S.proc[q].waiting[i].agent].at = "parked"
    BY <2>1
  <2>3. S.proc[q].waiting \in Seq(Waiter)
    BY <1>0 DEF ProcRow
  <2>4. S.proc[q].waiting[i] \in Waiter
    BY <2>3, ElementIn
  <2>5. S.proc[q].waiting[i].agent \in Agent /\ S.proc[q].waiting[i].agent # a
    BY <2>4 DEF Waiter, WaitsNowhere
  <2> QED
    BY SMTT(30), <1>7, <1>8, <2>1, <2>5 DEF Queue
<1>10. Queues(T)
  <2>1. ASSUME NEW q \in Proc, q # p PROVE Queue(T, q)
    <3>1. T.proc[q] = S.proc[q]
      BY <1>6, <1>8, <2>1
    <3> QED
      BY SMTT(30), <1>9, <3>1 DEF Queue
  <2>2. Queue(T, p)
    <3>1. /\ \A i \in 1..Len(w) : S.agent[w[i].agent].at = "parked" /\ Place(w[i].agent) = p
          /\ \A i, j \in 1..Len(w) : w[i].agent = w[j].agent => i = j
      BY <1>9 DEF Queue
    <3>2. ASSUME NEW i \in 1..Len(v) PROVE T.agent[v[i].agent].at = "parked" /\ Place(v[i].agent) = p
      <4>1. CASE i \in 1..Len(w)
        <5>1. v[i] = w[i]
          BY <1>4, <4>1
        <5> QED
          BY SMTT(30), <1>9, <3>1, <4>1, <5>1
      <4>2. CASE i = Len(w) + 1
        <5>1. v[i].agent = a
          BY <1>1, <1>4, <4>2
        <5> QED
          BY <1>7, <1>8, <5>1
      <4>3. i \in 1..Len(w) \/ i = Len(w) + 1
        BY <1>4
      <4> QED
        BY <4>1, <4>2, <4>3
    <3>3. ASSUME NEW i \in 1..Len(w) PROVE v[i].agent # a
      BY <1>4 DEF WaitsNowhere
    <3>4. ASSUME NEW i \in 1..Len(v), NEW j \in 1..Len(v), v[i].agent = v[j].agent PROVE i = j
      <4>1. CASE i \in 1..Len(w) /\ j \in 1..Len(w)
        <5>1. v[i] = w[i] /\ v[j] = w[j]
          BY <1>4, <4>1
        <5> QED
          BY SMTT(30), <3>1, <3>4, <4>1, <5>1
      <4>2. CASE i = Len(w) + 1 /\ j = Len(w) + 1
        BY <4>2
      <4>3. CASE i \in 1..Len(w) /\ j = Len(w) + 1
        BY <1>1, <1>4, <3>3, <3>4, <4>3
      <4>4. CASE j \in 1..Len(w) /\ i = Len(w) + 1
        BY <1>1, <1>4, <3>3, <3>4, <4>4
      <4>5. /\ i \in 1..Len(w) \/ i = Len(w) + 1
            /\ j \in 1..Len(w) \/ j = Len(w) + 1
        BY <1>4
      <4> QED
        BY <4>1, <4>2, <4>3, <4>4, <4>5
    <3>5. T.proc[p].waiting = v /\ T.proc[p].up
      BY <1>5, <1>6, <1>8
    <3> QED
      BY <3>2, <3>4, <3>5 DEF Queue
  <2> QED
    BY <2>1, <2>2 DEF Queues
<1>11. \A q \in Proc : T.proc[q].work = S.proc[q].work
  BY <1>5, <1>6, <1>8
<1>12. Good(T)
  <2>1. \A b \in Agent : \/ T.agent[b] = S.agent[b]
                         \/ T.agent[b].at # "busy" /\ T.agent[b].msg = None
    BY <1>7, <1>8
  <2>2. \A q \in Proc : T.proc[q].work \in {S.proc[q].work, None}
    BY <1>11
  <2>3. \A k \in Message : S.excuse[k] \subseteq T.excuse[k]
    BY <1>8
  <2> QED
    BY <1>8, <1>10, <2>1, <2>2, <2>3, LeavesGood
<1> QED
  BY <1>7, <1>8, <1>11, <1>12

\* T is S with what its processes remember of their callers changed.
Noted(S, T) ==
  /\ T \in State
  /\ T.turn = S.turn /\ T.chats = S.chats /\ T.agent = S.agent /\ T.excuse = S.excuse
  /\ \A q \in Proc : /\ T.proc[q].work = S.proc[q].work
                     /\ T.proc[q].waiting = S.proc[q].waiting
                     /\ T.proc[q].up = S.proc[q].up

LEMMA NotedGood ==
  ASSUME NEW S, Good(S), NEW T, Noted(S, T)
  PROVE  Good(T) /\ Serves(S, T) /\ (AllKept(S) => AllKept(T))
<1>1. /\ T \in State /\ T.turn = S.turn /\ T.chats = S.chats /\ T.agent = S.agent
      /\ \A k \in Message : S.excuse[k] \subseteq T.excuse[k]
      /\ \A q \in Proc : /\ T.proc[q].work \in {S.proc[q].work, None}
                         /\ T.proc[q].waiting = S.proc[q].waiting
                         /\ T.proc[q].up = S.proc[q].up
  BY DEF Noted
<1>2. Good(T) /\ Serves(S, T)
  BY <1>1, LetsGo
<1>3. AllKept(S) => AllKept(T)
  BY DEF Noted, AllKept, Kept
<1> QED
  BY <1>2, <1>3

LEMMA NoteIs ==
  ASSUME NEW S \in State, NEW p \in Proc, NEW R \in ProcRow,
         R.work = S.proc[p].work, R.waiting = S.proc[p].waiting, R.up = S.proc[p].up,
         NEW T, T = [S EXCEPT !.proc = [S.proc EXCEPT ![p] = R]]
  PROVE  Noted(S, T)
<1> DEFINE P == [S.proc EXCEPT ![p] = R]
<1>1. S.proc \in [Proc -> ProcRow]
  BY DEF State
<1>2. P \in [Proc -> ProcRow] /\ P[p] = R /\ \A q \in Proc : q # p => P[q] = S.proc[q]
  BY <1>1
<1> HIDE DEF P
<1>3. /\ T \in State /\ T.proc = P
      /\ T.turn = S.turn /\ T.chats = S.chats /\ T.agent = S.agent /\ T.excuse = S.excuse
  BY <1>2 DEF State, P
<1>4. \A q \in Proc : /\ T.proc[q].work = S.proc[q].work
                      /\ T.proc[q].waiting = S.proc[q].waiting
                      /\ T.proc[q].up = S.proc[q].up
  BY <1>2, <1>3
<1> QED
  BY <1>3, <1>4 DEF Noted

LEMMA NotesAre ==
  ASSUME NEW S \in State, NEW p \in Proc
  PROVE  /\ \A r \in [msg : Message \cup {None}, name : Name] :
              Noted(S, [S EXCEPT !.proc[p].refused = r])
         /\ \A x \in SUBSET Name : Noted(S, [S EXCEPT !.proc[p].askers = x])
         /\ \A x \in Name : Noted(S, [S EXCEPT !.proc[p].last = x])
<1>1. S.proc \in [Proc -> ProcRow] /\ S.proc[p] \in ProcRow
  BY DEF State
<1>2. ASSUME NEW r \in [msg : Message \cup {None}, name : Name]
      PROVE  Noted(S, [S EXCEPT !.proc[p].refused = r])
  <2> DEFINE R == [S.proc[p] EXCEPT !.refused = r]
  <2>1. /\ R \in ProcRow /\ R.work = S.proc[p].work /\ R.waiting = S.proc[p].waiting
        /\ R.up = S.proc[p].up
    BY <1>1 DEF ProcRow
  <2>2. [S EXCEPT !.proc[p].refused = r] = [S EXCEPT !.proc = [S.proc EXCEPT ![p] = R]]
    BY <1>1 DEF State, ProcRow
  <2> HIDE DEF R
  <2>3. PICK T : T = [S EXCEPT !.proc = [S.proc EXCEPT ![p] = R]]
    OBVIOUS
  <2>4. Noted(S, T)
    BY <2>1, <2>3, NoteIs
  <2> QED
    BY <2>2, <2>3, <2>4
<1>3. ASSUME NEW x \in SUBSET Name PROVE Noted(S, [S EXCEPT !.proc[p].askers = x])
  <2> DEFINE R == [S.proc[p] EXCEPT !.askers = x]
  <2>1. /\ R \in ProcRow /\ R.work = S.proc[p].work /\ R.waiting = S.proc[p].waiting
        /\ R.up = S.proc[p].up
    BY <1>1 DEF ProcRow
  <2>2. [S EXCEPT !.proc[p].askers = x] = [S EXCEPT !.proc = [S.proc EXCEPT ![p] = R]]
    BY <1>1 DEF State, ProcRow
  <2> HIDE DEF R
  <2>3. PICK T : T = [S EXCEPT !.proc = [S.proc EXCEPT ![p] = R]]
    OBVIOUS
  <2>4. Noted(S, T)
    BY <2>1, <2>3, NoteIs
  <2> QED
    BY <2>2, <2>3, <2>4
<1>4. ASSUME NEW x \in Name PROVE Noted(S, [S EXCEPT !.proc[p].last = x])
  <2> DEFINE R == [S.proc[p] EXCEPT !.last = x]
  <2>1. /\ R \in ProcRow /\ R.work = S.proc[p].work /\ R.waiting = S.proc[p].waiting
        /\ R.up = S.proc[p].up
    BY <1>1 DEF ProcRow
  <2>2. [S EXCEPT !.proc[p].last = x] = [S EXCEPT !.proc = [S.proc EXCEPT ![p] = R]]
    BY <1>1 DEF State, ProcRow
  <2> HIDE DEF R
  <2>3. PICK T : T = [S EXCEPT !.proc = [S.proc EXCEPT ![p] = R]]
    OBVIOUS
  <2>4. Noted(S, T)
    BY <2>1, <2>3, NoteIs
  <2> QED
    BY <2>2, <2>3, <2>4
<1> QED
  BY <1>2, <1>3, <1>4

LEMMA ReparkGood ==
  ASSUME NEW S, Good(S), NEW p \in Proc, NEW name \in Name
  PROVE  /\ Good(Repark(S, p, name))
         /\ Serves(S, Repark(S, p, name))
         /\ AllKept(S) => AllKept(Repark(S, p, name))
<1>1. PICK m : m = S.proc[p].work
  OBVIOUS
<1>2. S \in State /\ m \in Message \cup {None}
  BY <1>1 DEF Good, State, ProcRow
<1>3. CASE ~(m # None /\ S.proc[p].holder = name)
  BY <1>1, <1>3, ServesSelf DEF Repark
<1>4. CASE m # None /\ S.proc[p].holder = name
  <2>1. PICK U : U = [S EXCEPT !.proc[p].refused = [msg |-> m, name |-> name]]
    OBVIOUS
  <2>2. Noted(S, U)
    <3>1. [msg |-> m, name |-> name] \in [msg : Message \cup {None}, name : Name]
      BY <1>2
    <3> QED
      BY <1>2, <2>1, <3>1, NotesAre
  <2>3. Good(U) /\ Serves(S, U) /\ (AllKept(S) => AllKept(U))
    BY <2>2, NotedGood
  <2>4. PICK T : T = Release(U, p, m, "release", "namesake")
    OBVIOUS
  <2>5. MayFree(U, p, m, "namesake")
    BY DEF MayFree, Taken
  <2>6. Good(T) /\ Serves(U, T) /\ (AllKept(U) => AllKept(T))
    BY <1>2, <1>4, <2>3, <2>4, <2>5, ReleaseGood
  <2>7. Repark(S, p, name) = T
    BY <1>1, <1>4, <2>1, <2>4 DEF Repark
  <2> QED
    BY <2>3, <2>6, <2>7, ServesAgain
<1> QED
  BY <1>3, <1>4

\* The launched agent is off, and its claim goes back.
LEMMA ExitedGood ==
  ASSUME NEW S, Good(S), S.agent[Launched].at # "parked"
  PROVE  /\ Good(Exited(S))
         /\ AllKept(S) => AllKept(Exited(S))
         /\ \A m \in Message : Exited(S).turn[m].replies = S.turn[m].replies
         /\ Exited(S).agent[Launched] = [at |-> "off", msg |-> None]
<1>1. PICK U : U = [S EXCEPT !.agent[Launched] = [at |-> "off", msg |-> None]]
  OBVIOUS
<1>2. /\ S \in State /\ Launched \in Agent /\ Server \in Proc /\ WaitsNowhere(S, Launched)
      /\ S.agent \in [Agent -> [at : {"off", "away", "parked", "busy"}, msg : Message \cup {None}]]
      /\ "off" \in {"off", "away", "parked"}
  BY Basics, NotWaiting DEF Good, State
<1>3. Good(U) /\ U.agent = [S.agent EXCEPT ![Launched] = [at |-> "off", msg |-> None]]
  BY <1>1, <1>2, AgentGood
<1>4. U.turn = S.turn /\ U.proc = S.proc /\ U.excuse = S.excuse
  BY <1>1, <1>2 DEF State
<1>5. U.agent[Launched] = [at |-> "off", msg |-> None]
  BY <1>2, <1>3
<1>6. PICK gone : gone = [U EXCEPT !.proc[Server].askers = {}]
  OBVIOUS
<1>7. gone = [S EXCEPT !.agent[Launched] = [at |-> "off", msg |-> None],
                       !.proc[Server].askers = {}]
  BY <1>1, <1>2, <1>6 DEF State
<1>8. Noted(U, gone)
  BY <1>2, <1>3, <1>6, NotesAre DEF Good
<1>9. Good(gone) /\ Serves(U, gone) /\ (AllKept(U) => AllKept(gone))
  BY <1>3, <1>8, NotedGood
<1>10. AllKept(S) => AllKept(gone)
  BY <1>4, <1>9 DEF AllKept, Kept
<1>11. gone.turn = S.turn /\ gone.agent[Launched] = [at |-> "off", msg |-> None]
  BY <1>4, <1>5, <1>8 DEF Noted
<1>12. PICK m : m = S.proc[Server].work
  OBVIOUS
<1>13. CASE Cardinality(S.proc[Server].askers) <= 1 /\ m # None
  <2>1. m \in Message
    BY <1>2, <1>12, <1>13 DEF State, ProcRow
  <2>2. MayFree(gone, Server, m, "exit")
    BY DEF MayFree, Taken
  <2>3. PICK T : T = Release(gone, Server, m, "release", "exit")
    OBVIOUS
  <2>4. Good(T) /\ Serves(gone, T) /\ (AllKept(gone) => AllKept(T))
    BY <1>2, <1>9, <2>1, <2>2, <2>3, ReleaseGood
  <2>5. Exited(S) = T
    BY <1>7, <1>12, <1>13, <2>3 DEF Exited
  <2>6. T.agent[Launched] = [at |-> "off", msg |-> None]
    BY <1>2, <1>11, <2>4 DEF Serves
  <2>7. \A k \in Message : T.turn[k].replies = S.turn[k].replies
    BY <1>11, <2>4 DEF Serves
  <2> QED
    BY <1>10, <2>4, <2>5, <2>6, <2>7
<1>14. CASE ~(Cardinality(S.proc[Server].askers) <= 1 /\ m # None)
  <2>1. Exited(S) = gone
    BY <1>7, <1>12, <1>14 DEF Exited
  <2> QED
    BY <1>9, <1>10, <1>11, <2>1
<1> QED
  BY <1>13, <1>14

\* Nobody but the server has m, which is unanswered.
Answerable(S, m) ==
  /\ ~Waits(S, m) /\ S.turn[m].replies = 0
  /\ \A a \in Agent : S.agent[a].msg # m
  /\ \A q \in Proc : S.proc[q].work = m => q = Server

LEMMA ReplyGood ==
  ASSUME NEW S, Good(S), NEW m \in Message,
         Freed(S, m) \/ Answerable(S, m),
         \A k \in Message : k # m => Kept(S, k),
         Kept(S, m) \/ Writable(S, m)
  PROVE  /\ Good(Reply(S, m)) /\ AllKept(Reply(S, m))
         /\ Reply(S, m).agent = S.agent
         /\ \A k \in Message : k # m => Reply(S, m).turn[k].replies = S.turn[k].replies
<1>0. S \in State /\ Server \in Proc /\ Launched \in Agent /\ m # None
      /\ S.turn[m].replies \in Nat
  BY Basics DEF Good, State, TurnRow
<1>1. CASE Exists(S, m) /\ Writable(S, m)
  <2>1. PICK T : T = IF S.proc[Server].work = m THEN S ELSE Strand(S, Server, "displaced")
    OBVIOUS
  <2>2. /\ T \in State /\ Good(T)
        /\ T.turn = S.turn /\ T.chats = S.chats /\ T.agent = S.agent /\ T.proc = S.proc
        /\ \A k \in Message : S.excuse[k] \subseteq T.excuse[k]
        /\ \A k \in Message : k # m /\ S.proc[Server].work = k /\ S.turn[k].at = "leased" =>
             "displaced" \in T.excuse[k]
    <3>1. CASE S.proc[Server].work = m
      BY <1>0, <2>1, <3>1
    <3>2. CASE S.proc[Server].work # m
      <4>1. T = Strand(S, Server, "displaced")
        BY <2>1, <3>2
      <4> QED
        BY <1>0, <4>1, StrandIs, StrandGood
    <3> QED
      BY <3>1, <3>2
  <2>3. PICK R : R = DropWork([T EXCEPT !.turn[m].replies = @ + 1], Server)
    OBVIOUS
  <2>4. /\ Replied(T, m, R) /\ R.excuse = T.excuse
        /\ \A q \in Proc : R.proc[q].work = IF q = Server THEN None ELSE T.proc[q].work
    BY <1>0, <2>2, <2>3, AnswerIs
  <2>5. Reply(S, m) = R
    BY <1>1, <2>1, <2>3 DEF Reply
  <2>6. Freed(R, m) \/ Held(R, m)
    <3>1. CASE Freed(S, m)
      BY <2>2, <2>4, <3>1 DEF Freed
    <3>2. CASE Answerable(S, m)
      <4>1. \A a \in Agent : R.agent[a].msg # m
        BY <2>2, <2>4, <3>2 DEF Answerable, Replied
      <4>2. \A q \in Proc : R.proc[q].work # m
        BY <1>0, <2>2, <2>4, <3>2 DEF Answerable
      <4>3. ~Waits(R, m) /\ R.turn[m].replies = 1
        BY <2>2, <2>4, <3>2 DEF Answerable, Replied, Waits
      <4> QED
        BY <1>0, <4>1, <4>2, <4>3 DEF Held
    <3> QED
      BY <3>1, <3>2
  <2>7. Good(R)
    BY <2>2, <2>4, <2>6, RepliedGood
  <2>8. Kept(R, m)
    <3>1. R.turn[m].replies = S.turn[m].replies + 1
      BY <2>2, <2>4 DEF Replied
    <3> QED
      BY <1>0, <3>1 DEF Kept
  <2>9. ASSUME NEW k \in Message, k # m PROVE Kept(R, k)
    <3>1. S.excuse[k] \subseteq R.excuse[k] /\ R.turn[k] = S.turn[k] /\ Kept(S, k)
      BY <2>2, <2>4, <2>9 DEF Replied
    <3>2. \/ \A q \in Proc : S.proc[q].work = k => R.proc[q].work = k
          \/ S.turn[k].at = "leased" => R.excuse[k] \cap {"displaced", "archived", "died"} # {}
      BY <2>2, <2>4, <2>9
    <3> QED
      BY <3>1, <3>2, KeptOn
  <2> QED
    BY <2>2, <2>4, <2>5, <2>7, <2>8, <2>9 DEF AllKept, Replied
<1>2. CASE ~(Exists(S, m) /\ Writable(S, m))
  <2>1. PICK T : T = DropWorkOn(S, Server, m)
    OBVIOUS
  <2>2. Reply(S, m) = T
    BY <1>2, <2>1 DEF Reply
  <2>3. /\ Good(T) /\ T.turn = S.turn /\ T.agent = S.agent /\ T.excuse = S.excuse
        /\ \A q \in Proc : T.proc[q].work =
             IF q = Server /\ S.proc[q].work = m THEN None ELSE S.proc[q].work
    BY <1>0, <2>1, DropWorkOnGood
  <2>4. ASSUME NEW k \in Message, k # m PROVE Kept(T, k)
    <3>1. \A q \in Proc : S.proc[q].work = k => T.proc[q].work = k
      BY <2>3, <2>4
    <3> QED
      BY <2>3, <2>4, <3>1, KeptOn
  <2>5. Kept(T, m)
    <3>1. CASE ~Exists(S, m)
      BY <2>3, <3>1 DEF Exists, Kept
    <3>2. CASE ~Writable(S, m)
      <4>1. S.proc[Server].work # m
        BY <3>2 DEF Good, Live
      <4>2. \A q \in Proc : S.proc[q].work = m => T.proc[q].work = m
        BY <2>3, <4>1
      <4> QED
        BY <2>3, <3>2, <4>2, KeptOn
    <3> QED
      BY <1>2, <3>1, <3>2
  <2> QED
    BY <2>2, <2>3, <2>4, <2>5 DEF AllKept
<1> QED
  BY <1>1, <1>2

LEMMA RemovedGood ==
  ASSUME NEW S, Good(S), NEW c
  PROVE  /\ Good(Removed(S, c)) /\ Serves(S, Removed(S, c))
         /\ Removed(S, c).agent = S.agent /\ Removed(S, c).chats = S.chats
         /\ Removed(S, c).turn = S.turn
         /\ AllKept(S) => AllKept(Removed(S, c))
         /\ \A m \in Message : Removed(S, c).proc[Server].work = m => ChatOf[m] # c
<1>1. PICK m : m = S.proc[Server].work
  OBVIOUS
<1>2. S \in State /\ Server \in Proc /\ None \notin Message
  BY Basics DEF Good
<1>3. CASE m # None /\ ChatOf[m] = c
  <2>1. PICK U : U = Strand(S, Server, "archived")
    OBVIOUS
  <2>2. /\ U \in State /\ Good(U) /\ Serves(S, U)
        /\ U.turn = S.turn /\ U.chats = S.chats /\ U.agent = S.agent /\ U.proc = S.proc
        /\ \A k \in Message : S.excuse[k] \subseteq U.excuse[k]
        /\ \A k \in Message : S.proc[Server].work = k /\ S.turn[k].at = "leased" =>
             "archived" \in U.excuse[k]
    BY <1>2, <2>1, StrandIs, StrandGood
  <2>3. PICK T : T = DropWork(U, Server)
    OBVIOUS
  <2>4. /\ Good(T) /\ Serves(U, T) /\ T.turn = U.turn /\ T.chats = U.chats
        /\ T.agent = U.agent /\ T.excuse = U.excuse
        /\ \A q \in Proc : T.proc[q].work = IF q = Server THEN None ELSE U.proc[q].work
    BY <1>2, <2>2, <2>3, DropWorkIs, DropWorkGood
  <2>5. Removed(S, c) = T
    BY <1>1, <1>3, <2>1, <2>3 DEF Removed
  <2>6. AllKept(S) => AllKept(T)
    <3>1. SUFFICES ASSUME NEW k \in Message, Kept(S, k) PROVE Kept(T, k)
      BY DEF AllKept
    <3>2. \/ \A q \in Proc : S.proc[q].work = k => T.proc[q].work = k
          \/ S.turn[k].at = "leased" => T.excuse[k] \cap {"displaced", "archived", "died"} # {}
      BY <2>2, <2>4
    <3> QED
      BY <2>2, <2>4, <3>1, <3>2, KeptOn
  <2>7. Serves(S, T)
    BY <2>2, <2>4, ServesAgain
  <2> QED
    BY <1>2, <2>2, <2>4, <2>5, <2>6, <2>7
<1>4. CASE ~(m # None /\ ChatOf[m] = c)
  <2>1. Removed(S, c) = S
    BY <1>1, <1>4 DEF Removed
  <2> QED
    BY <1>1, <1>2, <1>4, <2>1, ServesSelf
<1> QED
  BY <1>3, <1>4

LEMMA ChatsGood ==
  ASSUME NEW S, Good(S), NEW T \in State,
         T.turn = S.turn, T.agent = S.agent, T.proc = S.proc, T.excuse = S.excuse,
         \A m \in Message : S.proc[Server].work = m => ChatOf[m] \notin T.chats.archived
  PROVE  Good(T) /\ Serves(S, T) /\ (AllKept(S) => AllKept(T))
<1>1. Leases(T) /\ Counts(T)
  BY DEF Good, Leases, Freed, Held, Waits, InHand, Counts
<1>2. Seats(T) /\ Live(T)
  BY DEF Good, Seats, Live, Writable
<1>3. Queues(T)
  BY SMTT(30) DEF Good, Queues, Queue
<1>4. Serves(S, T) /\ (AllKept(S) => AllKept(T))
  BY DEF Serves, AllKept, Kept
<1> QED
  BY <1>1, <1>2, <1>3, <1>4 DEF Good

\* Dropping the hold asks nothing of the chats.
LEMMA RemovedSame ==
  ASSUME NEW S \in State, NEW X \in State, NEW c,
         X.turn = S.turn, X.agent = S.agent, X.proc = S.proc, X.excuse = S.excuse
  PROVE  /\ Removed(X, c) \in State
         /\ Removed(X, c).turn = Removed(S, c).turn /\ Removed(X, c).agent = Removed(S, c).agent
         /\ Removed(X, c).proc = Removed(S, c).proc
         /\ Removed(X, c).excuse = Removed(S, c).excuse
         /\ Removed(X, c).chats = X.chats
<1>1. PICK m : m = S.proc[Server].work
  OBVIOUS
<1>2. Server \in Proc
  BY Basics
<1>3. CASE m # None /\ ChatOf[m] = c
  <2>1. PICK U : U = Strand(S, Server, "archived")
    OBVIOUS
  <2>2. PICK V : V = Strand(X, Server, "archived")
    OBVIOUS
  <2>3. /\ U \in State /\ V \in State
        /\ U.turn = S.turn /\ U.agent = S.agent /\ U.proc = S.proc
        /\ V.turn = X.turn /\ V.agent = X.agent /\ V.proc = X.proc /\ V.chats = X.chats
    BY <1>2, <2>1, <2>2, StrandIs
  <2>4. V.excuse = U.excuse
    <3>1. CASE S.turn[m].at = "leased"
      <4>1. /\ U = [S EXCEPT !.excuse[m] = @ \cup {"archived"}]
            /\ V = [X EXCEPT !.excuse[m] = @ \cup {"archived"}]
        BY <1>1, <1>3, <2>1, <2>2, <3>1 DEF Strand
      <4> QED
        BY <4>1 DEF State
    <3>2. CASE S.turn[m].at # "leased"
      BY <1>1, <2>1, <2>2, <3>2 DEF Strand
    <3> QED
      BY <3>1, <3>2
  <2>5. /\ DropWork(V, Server) \in State
        /\ DropWork(V, Server).turn = V.turn /\ DropWork(V, Server).agent = V.agent
        /\ DropWork(V, Server).chats = V.chats /\ DropWork(V, Server).excuse = V.excuse
        /\ DropWork(U, Server).turn = U.turn /\ DropWork(U, Server).agent = U.agent
        /\ DropWork(U, Server).excuse = U.excuse
    BY <1>2, <2>3, DropWorkIs
  <2>6. DropWork(V, Server).proc = DropWork(U, Server).proc
    BY <2>3 DEF DropWork, State
  <2>7. Removed(S, c) = DropWork(U, Server) /\ Removed(X, c) = DropWork(V, Server)
    BY <1>1, <1>3, <2>1, <2>2 DEF Removed
  <2> QED
    BY <2>3, <2>4, <2>5, <2>6, <2>7
<1>4. CASE ~(m # None /\ ChatOf[m] = c)
  <2>1. Removed(S, c) = S /\ Removed(X, c) = X
    BY <1>1, <1>4 DEF Removed
  <2> QED
    BY <2>1
<1> QED
  BY <1>3, <1>4

-----------------------------------------------------------------------------
(* The invariant *)

\* A launched agent that is not off is running, and waits for nothing once it
\* was told to stop.
Inv ==
  /\ Good(Now) /\ AllKept(Now)
  /\ running \in {"no", "yes", "stopping"}
  /\ agent[Launched].at # "off" => running # "no"
  /\ running = "stopping" => agent[Launched].at # "parked"

\* What AnswerFits says of a step.
Fits ==
  \A m \in Message :
    turn'[m].replies > turn[m].replies /\ agent'[Launched].msg # agent[Launched].msg
      => agent[Launched].msg = m

\* T does nothing to the launched agent that running does not allow.
Calm(T) ==
  \/ T.agent[Launched] = agent[Launched]
  \/ agent[Launched].at = "parked"
  \/ running = "yes"
  \/ T.agent[Launched].at = "off"
  \/ agent[Launched].at # "off" /\ T.agent[Launched].at # "parked"

Quiet(T) == \A m \in Message : T.turn[m].replies = turn[m].replies

LEMMA NowIs ==
  /\ Now.turn = turn /\ Now.chats = chats /\ Now.proc = proc /\ Now.agent = agent
  /\ Now.excuse = excuse
  BY DEF Now

LEMMA Becomes ==
  ASSUME NEW T, Good(T), AllKept(T), Become(T)
  PROVE  /\ Good(Now)' /\ AllKept(Now)'
         /\ turn' = T.turn /\ agent' = T.agent
<1>1. T \in State
  BY DEF Good
<1>2. T = Now'
  BY <1>1 DEF Become, Now, State
<1> QED
  BY <1>2 DEF Become

LEMMA CalmStep ==
  ASSUME Inv, NEW T, Good(T), AllKept(T), Become(T), UNCHANGED running, Calm(T)
  PROVE  Inv'
<1>1. Good(Now)' /\ AllKept(Now)' /\ agent' = T.agent
  BY Becomes
<1>2. running' = running /\ running \in {"no", "yes", "stopping"}
  BY DEF Inv
<1>3. agent'[Launched].at # "off" => running' # "no"
  BY <1>1, <1>2 DEF Calm, Inv
<1>4. running' = "stopping" => agent'[Launched].at # "parked"
  BY <1>1, <1>2 DEF Calm, Inv
<1> QED
  BY <1>1, <1>2, <1>3, <1>4 DEF Inv

LEMMA QuietFits ==
  ASSUME Inv, NEW T, Good(T), AllKept(T), Become(T), Quiet(T)
  PROVE  Fits
<1>1. turn' = T.turn
  BY Becomes
<1>2. T.turn \in [Message -> TurnRow]
  BY DEF Good, State
<1>3. \A m \in Message : T.turn[m].replies \in Nat
  BY <1>2 DEF TurnRow
<1> QED
  BY <1>1, <1>3 DEF Quiet, Fits

\* A step of calls that leave the launched agent alone, unless it waits.
LEMMA ServingStep ==
  ASSUME Inv, NEW S, NEW T, Serves(S, T), Good(T), AllKept(T), Become(T), UNCHANGED running,
         Quiet(S), S.agent[Launched] = agent[Launched]
  PROVE  Inv' /\ Fits
<1>1. Calm(T)
  BY Basics DEF Serves, Calm
<1>2. Quiet(T)
  BY DEF Serves, Quiet
<1> QED
  BY <1>1, <1>2, CalmStep, QuietFits

LEMMA InitInv == Init => Inv
<1> SUFFICES ASSUME Init PROVE Inv
  OBVIOUS
<1>1. \A a \in Agent : agent[a].at = "off" /\ agent[a].msg = None
  BY DEF Init
<1>2. \A p \in Proc : proc[p].work = None /\ proc[p].waiting = <<>> /\ proc[p].up
  BY DEF Init, Fresh
<1>3. \A m \in Message : turn[m].at = "none" /\ turn[m].tries = 0 /\ turn[m].replies = 0
  BY DEF Init
<1>4. Now \in State
  <2>1. turn \in [Message -> TurnRow]
    BY Basics DEF Init, TurnRow
  <2>2. Fresh \in ProcRow
    BY DEF Fresh, ProcRow, Name, NotRefused
  <2>3. proc \in [Proc -> ProcRow]
    BY <2>2 DEF Init
  <2>4. chats \in [active : Chat \cup {"new"}, archived : SUBSET Chat]
    BY DEF Init
  <2>5. agent \in [Agent -> [at : {"off", "away", "parked", "busy"}, msg : Message \cup {None}]]
    BY DEF Init
  <2>6. excuse \in [Message -> SUBSET Reason]
    BY DEF Init
  <2> QED
    BY <2>1, <2>3, <2>4, <2>5, <2>6 DEF Now, State
<1>5. Leases(Now)
  <2>1. SUFFICES ASSUME NEW m \in Message PROVE Held(Now, m)
    BY DEF Leases
  <2>2. \A a \in Agent : Now.agent[a].msg # m
    BY <1>1, Basics, NowIs
  <2>3. \A p \in Proc : Now.proc[p].work # m
    BY <1>2, Basics, NowIs
  <2> QED
    BY <1>3, <2>2, <2>3, Basics, NowIs DEF Held, InHand
<1>6. Counts(Now) /\ Seats(Now)
  BY <1>1, <1>3, NowIs, Basics DEF Counts, Seats, Waits
<1>7. Queues(Now)
  BY <1>2, NowIs DEF Queues, Queue
<1>8. Live(Now) /\ AllKept(Now)
  BY <1>2, <1>3, NowIs, Basics DEF Live, AllKept, Kept
<1>9. agent[Launched].at = "off" /\ running = "no"
  BY <1>1, Basics DEF Init
<1> QED
  BY <1>4, <1>5, <1>6, <1>7, <1>8, <1>9 DEF Inv, Good

-----------------------------------------------------------------------------
(* Typing, asking, answering *)

LEMMA PostStep ==
  ASSUME Inv, NEW m \in Message, Post(m)
  PROVE  Inv' /\ Fits
<1>1. PICK S : S = [Now EXCEPT !.turn[m].at = "queued", !.chats.active = ChatOf[m]]
  OBVIOUS
<1>2. PICK T : T = HandOff(S, Server)
  OBVIOUS
<1>3. Become(T) /\ UNCHANGED running
  BY <1>1, <1>2 DEF Post, Unlimited
<1>4. /\ Good(Now) /\ AllKept(Now) /\ Now \in State /\ turn[m].at = "none"
      /\ turn \in [Message -> TurnRow] /\ turn[m] \in TurnRow
      /\ chats \in [active : Chat \cup {"new"}, archived : SUBSET Chat]
      /\ ChatOf[m] \in Chat /\ Server \in Proc
  BY NowIs, Basics DEF Inv, Good, State, Post
<1> DEFINE r == [turn[m] EXCEPT !.at = "queued"]
           ch == [chats EXCEPT !.active = ChatOf[m]]
           D == [turn EXCEPT ![m] = r]
<1>5. r \in TurnRow /\ r.at = "queued" /\ r.tries = turn[m].tries /\ r.replies = turn[m].replies
  BY <1>4 DEF TurnRow
<1>6. /\ ch \in [active : Chat \cup {"new"}, archived : SUBSET Chat]
      /\ ch.archived = chats.archived
  BY <1>4
<1>7. S = [Now EXCEPT !.turn = D, !.chats = ch]
  BY <1>1, <1>4 DEF Now
<1> HIDE DEF r, ch
<1>8. D \in [Message -> TurnRow] /\ D[m] = r /\ \A k \in Message : k # m => D[k] = turn[k]
  BY <1>4, <1>5
<1> HIDE DEF D
<1>9. /\ S \in State /\ S.turn = D /\ S.chats = ch /\ S.proc = proc /\ S.agent = agent
      /\ S.excuse = excuse
  BY <1>4, <1>6, <1>7, <1>8 DEF Now, State
<1>10. \A k \in Message : Rowed(Now, S, k)
  <2>1. SUFFICES ASSUME NEW k \in Message PROVE Rowed(Now, S, k)
    OBVIOUS
  <2>2. CASE k # m
    BY <1>8, <1>9, <2>2, NowIs DEF Rowed
  <2>3. CASE k = m
    <3>1. Waits(Now, m) /\ turn[m].tries < MaxDeliveries
      BY <1>4, NowIs DEF Waits, Good, Counts
    <3>2. Freed(Now, m) \/ (~InHand(Now, m) /\ turn[m].replies = 0)
      BY <1>4, <3>1, NowIs DEF Good, Leases, Held
    <3>3. Freed(Now, m) => Freed(S, m)
      BY <1>9, NowIs DEF Freed
    <3> QED
      BY <1>5, <1>8, <1>9, <2>3, <3>1, <3>2, <3>3, NowIs DEF Rowed
  <2> QED
    BY <2>2, <2>3
<1>11. /\ S.chats.archived \subseteq Now.chats.archived
       /\ S.agent = Now.agent
       /\ \A k \in Message : Now.excuse[k] \subseteq S.excuse[k]
       /\ \A q \in Proc : /\ S.proc[q].work = Now.proc[q].work
                          /\ S.proc[q].waiting = Now.proc[q].waiting
                          /\ Now.proc[q].up => S.proc[q].up
  BY <1>6, <1>9, NowIs
<1>12. Good(S) /\ Serves(Now, S) /\ AllKept(S)
  <2>1. \A k \in Message : Kept(Now, k)
    BY <1>4 DEF AllKept
  <2> QED
    BY <1>4, <1>9, <1>10, <1>11, <2>1, RowsGood
<1>13. Good(T) /\ Serves(S, T) /\ AllKept(T)
  BY <1>2, <1>4, <1>12, HandOffGood
<1>14. Serves(Now, T) /\ Quiet(Now)
  BY <1>12, <1>13, ServesAgain, NowIs DEF Quiet
<1> QED
  BY <1>3, <1>13, <1>14, ServingStep, NowIs

LEMMA PollStep ==
  ASSUME Inv, NEW p \in Proc, Poll(p)
  PROVE  Inv' /\ Fits
<1>1. PICK T : T = HandOff(Now, p)
  OBVIOUS
<1>2. Become(T) /\ UNCHANGED running
  BY <1>1 DEF Poll, Unlimited
<1>3. Good(T) /\ Serves(Now, T) /\ AllKept(T)
  BY <1>1, HandOffGood DEF Inv
<1> QED
  BY <1>2, <1>3, ServingStep, NowIs DEF Quiet

LEMMA ConnectStep ==
  ASSUME Inv, NEW a \in Client, Connect(a)
  PROVE  Inv' /\ Fits
<1>1. PICK S : S = Idle(Now, a)
  OBVIOUS
<1>2. PICK T : T = [S EXCEPT !.proc[ProcOf[a]].last = a]
  OBVIOUS
<1>3. Become(T) /\ UNCHANGED running
  BY <1>1, <1>2 DEF Connect, Unlimited
<1>4. /\ Good(Now) /\ AllKept(Now) /\ a \in Agent /\ a # Launched /\ ProcOf[a] \in Proc
      /\ Now.agent[a].at # "parked" /\ a \in Name
      /\ Launched \in Agent /\ agent \in [Agent -> [at : {"off", "away", "parked", "busy"},
                                                    msg : Message \cup {None}]]
  BY NowIs, Basics DEF Inv, Connect, Name, Good, State
<1>5. /\ Good(S) /\ S.turn = turn /\ S.proc = proc /\ S.excuse = excuse
      /\ S.agent = [agent EXCEPT ![a] = [at |-> "away", msg |-> None]]
  BY <1>1, <1>4, IdleGood, NowIs
<1>6. Noted(S, T)
  BY <1>2, <1>4, <1>5, NotesAre DEF Good
<1>7. Good(T) /\ Serves(S, T) /\ (AllKept(S) => AllKept(T))
  BY <1>5, <1>6, NotedGood
<1>8. AllKept(S)
  BY <1>4, <1>5, NowIs DEF AllKept, Kept
<1>9. Quiet(S) /\ S.agent[Launched] = agent[Launched]
  BY <1>4, <1>5 DEF Quiet
<1> QED
  BY <1>3, <1>7, <1>8, <1>9, ServingStep

LEMMA AskStep ==
  ASSUME Inv, NEW a \in Agent, Ask(a)
  PROVE  Inv' /\ Fits
<1>1. PICK p : p = Place(a)
  OBVIOUS
<1>2. PICK name : name = ClientName(p)
  OBVIOUS
<1>3. PICK I : I = Idle(Now, a)
  OBVIOUS
<1>4. PICK U : U = [I EXCEPT !.proc[p].askers = @ \cup {name}]
  OBVIOUS
<1>5. PICK V : V = Repark(U, p, name)
  OBVIOUS
<1>6. PICK S : S = Retire(V)
  OBVIOUS
<1>7. PICK m : m = Offer(S, p, name)
  OBVIOUS
<1>8. PICK T : T = IF m # None THEN Take(S, p, m, name, a) ELSE Parked(S, p, a, name)
  OBVIOUS
<1>9. /\ Become(T) /\ UNCHANGED running
      /\ agent[a].at \in {"away", "busy"} /\ proc[p].up
      /\ a = Launched => running = "yes"
  <2>1. U = [Idle(Now, a) EXCEPT !.proc[p].askers = @ \cup {name}]
    BY <1>3, <1>4
  <2> QED
    BY <1>1, <1>2, <1>5, <1>6, <1>7, <1>8, <2>1 DEF Ask, Unlimited, Parked
<1>10. /\ Good(Now) /\ AllKept(Now) /\ p \in Proc /\ Launched \in Agent /\ Now.agent[a].at # "parked"
       /\ agent \in [Agent -> [at : {"off", "away", "parked", "busy"}, msg : Message \cup {None}]]
       /\ proc \in [Proc -> ProcRow]
  BY <1>1, <1>9, NowIs, Basics DEF Inv, Good, State
<1>11. name \in Name
  <2>1. proc[p].last \in Name
    BY <1>10 DEF ProcRow
  <2> QED
    BY <1>2, <1>10, <2>1 DEF ClientName, Name
<1>12. /\ Good(I) /\ I.turn = turn /\ I.proc = proc /\ I.excuse = excuse
       /\ I.agent = [agent EXCEPT ![a] = [at |-> "away", msg |-> None]]
  BY <1>3, <1>10, IdleGood, NowIs
<1>13. I \in State /\ AllKept(I) /\ Quiet(I) /\ I.agent[a] = [at |-> "away", msg |-> None]
       /\ \A b \in Agent : b # a => I.agent[b] = agent[b]
  BY <1>10, <1>12, NowIs DEF AllKept, Kept, Quiet, Good
<1>14. Noted(I, U)
  <2>1. I.proc[p].askers \cup {name} \in SUBSET Name
    BY <1>10, <1>11, <1>12 DEF ProcRow
  <2>2. U = [I EXCEPT !.proc[p].askers = I.proc[p].askers \cup {name}]
    BY <1>4
  <2> QED
    BY <1>10, <1>13, <2>1, <2>2, NotesAre
<1>15. Good(U) /\ Serves(I, U) /\ AllKept(U)
  BY <1>12, <1>13, <1>14, NotedGood
<1>16. Good(V) /\ Serves(U, V) /\ AllKept(V)
  BY <1>5, <1>10, <1>11, <1>15, ReparkGood
<1>17. Good(S) /\ Serves(V, S) /\ AllKept(S)
  BY <1>6, <1>16, RetireGood
<1>18. Serves(I, S)
  BY <1>15, <1>16, <1>17, ServesAgain
<1>19. /\ S.agent[a] = [at |-> "away", msg |-> None] /\ S.proc[p].up
       /\ Quiet(S) /\ WaitsNowhere(S, a)
  <2>1. S.agent[a] = [at |-> "away", msg |-> None]
    BY <1>13, <1>18 DEF Serves
  <2>2. WaitsNowhere(S, a)
    BY <1>17, <2>1, NotWaiting
  <2>3. Quiet(S)
    BY <1>13, <1>18 DEF Serves, Quiet
  <2>4. S.proc[p].up
    BY <1>9, <1>10, <1>12, <1>18 DEF Serves
  <2> QED
    BY <2>1, <2>2, <2>3, <2>4
<1>20. /\ Good(T) /\ AllKept(T) /\ Quiet(T)
       /\ \A b \in Agent : b # a => T.agent[b] = S.agent[b]
  <2>1. CASE m # None
    <3>1. T = Take(S, p, m, name, a)
      BY <1>8, <2>1
    <3>2. S \in State
      BY <1>17 DEF Good
    <3>3. m \in Message /\ S.turn[m].at = "queued" /\ Writable(S, m)
      BY <1>7, <1>10, <2>1, <3>2, OfferIs
    <3>4. S.agent[a].msg = None /\ Place(a) = p
      BY <1>1, <1>19
    <3>5. /\ Good(T) /\ (AllKept(S) => AllKept(T))
          /\ \A k \in Message : T.turn[k].replies = S.turn[k].replies
          /\ \A b \in Agent : b # a => T.agent[b] = S.agent[b]
      BY <1>10, <1>11, <1>17, <1>19, <3>1, <3>3, <3>4, TakeGood
    <3> QED
      BY <1>17, <1>19, <3>5 DEF Quiet
  <2>2. CASE m = None
    <3>1. T = Parked(S, p, a, name)
      BY <1>8, <2>2
    <3>2. S.agent[a].at = "away" /\ Place(a) = p
      BY <1>1, <1>19
    <3>3. /\ Good(T) /\ T.turn = S.turn /\ T.excuse = S.excuse
          /\ \A b \in Agent : b # a => T.agent[b] = S.agent[b]
          /\ \A q \in Proc : T.proc[q].work = S.proc[q].work
      BY <1>10, <1>11, <1>17, <1>19, <3>1, <3>2, ParkGood
    <3> QED
      BY <1>17, <1>19, <3>3 DEF Quiet, AllKept, Kept
  <2> QED
    BY <2>1, <2>2
<1>21. Calm(T)
  <2>1. CASE a = Launched
    BY <1>9, <2>1 DEF Calm
  <2>2. CASE a # Launched
    <3>1. T.agent[Launched] = S.agent[Launched] /\ I.agent[Launched] = agent[Launched]
      BY <1>10, <1>13, <1>20, <2>2
    <3> QED
      BY <1>10, <1>18, <3>1 DEF Serves, Calm
  <2> QED
    BY <2>1, <2>2
<1> QED
  BY <1>9, <1>20, <1>21, CalmStep, QuietFits

LEMMA SayStep ==
  ASSUME Inv, NEW a \in Client, Say(a)
  PROVE  Inv' /\ Fits
<1>1. PICK p : p = ProcOf[a]
  OBVIOUS
<1>2. PICK m : m = proc[p].work
  OBVIOUS
<1>3. PICK I : I = Idle(Now, a)
  OBVIOUS
<1>4. PICK T : T = IF Driven(p) \/ m = None THEN I
                   ELSE DropWork([I EXCEPT !.turn[m].replies = @ + 1], p)
  OBVIOUS
<1>5. Become(T) /\ UNCHANGED running /\ agent[a].at = "busy"
  <2>1. T = IF Driven(p) \/ m = None THEN Idle(Now, a)
            ELSE DropWork([Idle(Now, a) EXCEPT !.turn[m].replies = @ + 1], p)
    BY <1>3, <1>4
  <2> QED
    BY <1>1, <1>2, <2>1 DEF Say, Unlimited
<1>6. /\ Good(Now) /\ AllKept(Now) /\ a \in Agent /\ a # Launched /\ p \in Proc
      /\ Launched \in Agent /\ Now.agent[a].at # "parked" /\ Place(Launched) = Server
      /\ agent \in [Agent -> [at : {"off", "away", "parked", "busy"}, msg : Message \cup {None}]]
      /\ proc \in [Proc -> ProcRow]
  BY <1>1, <1>5, NowIs, Basics DEF Inv, Good, State
<1>7. /\ Good(I) /\ I.turn = turn /\ I.proc = proc /\ I.excuse = excuse
      /\ I.agent = [agent EXCEPT ![a] = [at |-> "away", msg |-> None]]
  BY <1>3, <1>6, IdleGood, NowIs
<1>8. I \in State /\ AllKept(I) /\ Quiet(I) /\ I.agent[Launched] = agent[Launched]
      /\ \A b \in Agent : I.agent[b].msg = agent[b].msg \/ I.agent[b].msg = None
  BY <1>6, <1>7, NowIs DEF AllKept, Kept, Quiet, Good
<1>9. CASE Driven(p) \/ m = None
  <2>1. T = I
    BY <1>4, <1>9
  <2> QED
    BY <1>5, <1>7, <1>8, <2>1, ServingStep, ServesSelf
<1>10. CASE ~(Driven(p) \/ m = None)
  <2>1. m \in Message
    BY <1>2, <1>6, <1>10 DEF ProcRow
  <2>2. T = DropWork([I EXCEPT !.turn[m].replies = @ + 1], p)
    BY <1>4, <1>10
  <2>3. /\ Replied(I, m, T) /\ T.excuse = I.excuse
        /\ \A q \in Proc : T.proc[q].work = IF q = p THEN None ELSE I.proc[q].work
    BY ZenonT(30), <1>6, <1>8, <2>1, <2>2, AnswerIs
  <2>4. Freed(T, m) \/ Held(T, m)
    <3>1. CASE Freed(Now, m)
      BY <1>7, <2>3, <3>1, NowIs DEF Freed
    <3>2. CASE Held(Now, m)
      <4>1. turn[m].replies = 0 /\ ~Waits(Now, m)
        <5>1. InHand(Now, m)
          BY <1>2, <1>6, NowIs DEF InHand
        <5> QED
          BY <1>2, <1>6, <3>2, <5>1, NowIs DEF Held
      <4>2. \A q \in Proc : T.proc[q].work # m
        BY <1>2, <1>6, <1>7, <2>1, <2>3, <3>2, NowIs, Basics DEF Held
      <4>3. agent[Launched].msg # m
        <5>1. SUFFICES ASSUME agent[Launched].msg = m PROVE FALSE
          OBVIOUS
        <5>2. p = Server
          BY <1>2, <1>6, <3>2, <5>1, NowIs DEF Held
        <5>3. agent[Launched].at = "off"
          BY <1>10, <5>2 DEF Driven, Inv
        <5> QED
          BY <1>6, <1>10, <5>1, <5>3, NowIs DEF Good, Seats
      <4>4. \A b \in Agent : T.agent[b].msg = m => agent[b].msg = m
        BY <1>8, <1>10, <2>3 DEF Replied
      <4>5. T.turn[m].replies = 1 /\ ~Waits(T, m)
        BY <1>7, <2>3, <4>1, NowIs DEF Replied, Waits
      <4>6. \A b, c \in Agent : T.agent[b].msg = m /\ T.agent[c].msg = m => b = c
        BY <3>2, <4>4, NowIs DEF Held
      <4>7. T.agent[Launched].msg # m
        BY <1>6, <4>3, <4>4
      <4> QED
        BY <4>2, <4>5, <4>6, <4>7 DEF Held
    <3> QED
      BY <1>6, <2>1, <3>1, <3>2 DEF Good, Leases
  <2>5. Good(T)
    BY <1>7, <2>1, <2>3, <2>4, RepliedGood
  <2>6. AllKept(T)
    <3>1. SUFFICES ASSUME NEW k \in Message PROVE Kept(T, k)
      BY DEF AllKept
    <3>2. I.turn[m].replies \in Nat
      BY <1>8, <2>1 DEF State, TurnRow
    <3>3. CASE k = m
      <4>1. T.turn[m].replies = I.turn[m].replies + 1
        BY <2>3 DEF Replied
      <4> QED
        BY <3>2, <3>3, <4>1 DEF Kept
    <3>4. CASE k # m
      <4>1. I.excuse[k] \subseteq T.excuse[k] /\ T.turn[k] = I.turn[k] /\ Kept(I, k)
        BY <1>8, <2>3, <3>4 DEF Replied, AllKept
      <4>2. \A q \in Proc : I.proc[q].work = k => T.proc[q].work = k
        BY <1>2, <1>7, <2>3, <3>4
      <4> QED
        BY <4>1, <4>2, KeptOn
    <3> QED
      BY <3>3, <3>4
  <2>7. Calm(T) /\ T.agent[Launched] = agent[Launched]
    BY <1>8, <2>3 DEF Calm, Replied
  <2>8. Inv' /\ agent' = T.agent
    BY <1>5, <2>5, <2>6, <2>7, CalmStep, Becomes
  <2> QED
    BY <2>7, <2>8 DEF Fits
<1> QED
  BY <1>9, <1>10

\* A busy agent lets go of its message, which then is in no hands but those of
\* the process it asked.
LEMMA BusyIdle ==
  ASSUME Inv, NEW a \in Agent, agent[a].at = "busy", NEW S, S = Idle(Now, a),
         NEW m, m = agent[a].msg
  PROVE  /\ m \in Message
         /\ Good(S) /\ AllKept(S) /\ Quiet(S)
         /\ S.turn = turn /\ S.proc = proc /\ S.excuse = excuse
         /\ S.agent[a] = [at |-> "away", msg |-> None]
         /\ \A b \in Agent : b # a => S.agent[b] = agent[b]
         /\ \A why : MayFree(S, Place(a), m, why)
         /\ Freed(S, m) \/ (Held(Now, m) /\ \A b \in Agent : S.agent[b].msg # m)
<1>1. /\ Good(Now) /\ AllKept(Now) /\ Place(a) \in Proc
      /\ Now.agent[a].at # "parked" /\ Seats(Now)
      /\ agent \in [Agent -> [at : {"off", "away", "parked", "busy"}, msg : Message \cup {None}]]
  BY NowIs, Basics DEF Inv, Good, State
<1>2. m \in Message
  BY <1>1, NowIs DEF Seats
<1>3. /\ Good(S) /\ S.turn = turn /\ S.proc = proc /\ S.excuse = excuse
      /\ S.agent = [agent EXCEPT ![a] = [at |-> "away", msg |-> None]]
  BY <1>1, IdleGood, NowIs
<1>4. AllKept(S) /\ Quiet(S) /\ S.agent[a] = [at |-> "away", msg |-> None]
      /\ \A b \in Agent : b # a => S.agent[b] = agent[b]
  BY <1>1, <1>3, NowIs DEF AllKept, Kept, Quiet
<1>5. Freed(S, m) \/ (Held(Now, m) /\ \A b \in Agent : S.agent[b].msg # m)
  <2>1. CASE Freed(Now, m)
    BY <1>3, <2>1, NowIs DEF Freed
  <2>2. CASE Held(Now, m)
    <3>1. ASSUME NEW b \in Agent PROVE S.agent[b].msg # m
      <4>1. CASE b = a
        BY <1>2, <1>4, <4>1, Basics
      <4>2. CASE b # a
        BY <1>4, <2>2, <4>2, NowIs DEF Held
      <4> QED
        BY <4>1, <4>2
    <3> QED
      BY <2>2, <3>1
  <2> QED
    BY <1>1, <1>2, <2>1, <2>2 DEF Good, Leases
<1>6. ASSUME NEW why PROVE MayFree(S, Place(a), m, why)
  <2>1. CASE Freed(S, m)
    BY <2>1 DEF MayFree
  <2>2. CASE Held(Now, m) /\ \A b \in Agent : S.agent[b].msg # m
    <3>1. PICK D : D = DropWorkOn(S, Place(a), m)
      OBVIOUS
    <3>2. /\ D.agent = S.agent
          /\ \A q \in Proc : D.proc[q].work =
               IF q = Place(a) /\ S.proc[q].work = m THEN None ELSE S.proc[q].work
      BY <1>1, <1>2, <1>3, <3>1, DropWorkOnGood
    <3>3. \A q \in Proc : proc[q].work = m => q = Place(a)
      BY <2>2, NowIs DEF Held
    <3>4. \A q \in Proc : D.proc[q].work # m
      BY <1>2, <1>3, <3>2, <3>3, Basics
    <3>5. ~InHand(D, m)
      BY <2>2, <3>2, <3>4 DEF InHand
    <3> QED
      BY <3>1, <3>5 DEF MayFree
  <2> QED
    BY <1>5, <2>1, <2>2
<1> QED
  BY <1>2, <1>3, <1>4, <1>5, <1>6

LEMMA AnswerTurnStep ==
  ASSUME Inv, AnswerTurn
  PROVE  Inv' /\ Fits
<1>1. PICK m : m = agent[Launched].msg
  OBVIOUS
<1>2. PICK S : S = Idle(Now, Launched)
  OBVIOUS
<1>3. PICK T : T = Reply(S, m)
  OBVIOUS
<1>4. Become(T) /\ UNCHANGED running /\ agent[Launched].at = "busy"
  BY <1>1, <1>2, <1>3 DEF AnswerTurn, Unlimited
<1>5. /\ m \in Message /\ Launched \in Agent /\ Place(Launched) = Server
      /\ Good(S) /\ AllKept(S) /\ Quiet(S)
      /\ S.turn = turn /\ S.proc = proc
      /\ S.agent[Launched] = [at |-> "away", msg |-> None]
      /\ Freed(S, m) \/ (Held(Now, m) /\ \A b \in Agent : S.agent[b].msg # m)
  BY <1>1, <1>2, <1>4, BusyIdle, Basics
<1>6. Freed(S, m) \/ Answerable(S, m)
  <2>1. SUFFICES ASSUME Held(Now, m), \A b \in Agent : S.agent[b].msg # m
                 PROVE  Answerable(S, m)
    BY <1>5
  <2>2. InHand(Now, m)
    BY <1>1, <1>5, NowIs DEF InHand
  <2>3. ~Waits(Now, m) /\ turn[m].replies = 0
    BY <1>1, <2>1, <2>2, NowIs DEF Held
  <2>4. ~Waits(S, m) /\ S.turn[m].replies = 0
    BY <1>5, <2>3, NowIs DEF Waits
  <2>5. \A q \in Proc : S.proc[q].work = m => q = Server
    BY <1>1, <1>5, <2>1, NowIs DEF Held
  <2> QED
    BY <2>1, <2>4, <2>5 DEF Answerable
<1>7. \A k \in Message : Kept(S, k)
  BY <1>5 DEF AllKept
<1>8. /\ Good(T) /\ AllKept(T) /\ T.agent = S.agent
      /\ \A k \in Message : k # m => T.turn[k].replies = S.turn[k].replies
  BY <1>3, <1>5, <1>6, <1>7, ReplyGood
<1>9. Calm(T)
  BY <1>4, <1>5, <1>8 DEF Calm
<1>10. Inv' /\ turn' = T.turn
  BY <1>4, <1>8, <1>9, CalmStep, Becomes
<1>11. Fits
  <2>1. T.turn \in [Message -> TurnRow]
    BY <1>8 DEF Good, State
  <2>2. \A k \in Message : T.turn[k].replies \in Nat
    BY <2>1 DEF TurnRow
  <2> QED
    BY <1>1, <1>5, <1>8, <1>10, <2>2 DEF Fits, Quiet
<1> QED
  BY <1>10, <1>11

\* The launched agent's exit: it is off, as running says.
LEMMA ExitedStep ==
  ASSUME Inv, NEW S, NEW T, T = Exited(S), Good(S), AllKept(S), Quiet(S),
         S.agent[Launched].at # "parked", Become(T), running' = "no"
  PROVE  Inv' /\ Fits
<1>1. /\ Good(T) /\ AllKept(T)
      /\ \A m \in Message : T.turn[m].replies = S.turn[m].replies
      /\ T.agent[Launched] = [at |-> "off", msg |-> None]
  BY ExitedGood
<1>2. Good(Now)' /\ AllKept(Now)' /\ agent' = T.agent
  BY <1>1, Becomes
<1>3. Inv'
  BY <1>1, <1>2 DEF Inv
<1>4. Quiet(T)
  BY <1>1 DEF Quiet
<1> QED
  BY <1>1, <1>3, <1>4, QuietFits

LEMMA TurnFailsStep ==
  ASSUME Inv, TurnFails
  PROVE  Inv' /\ Fits
<1>1. PICK m : m = agent[Launched].msg
  OBVIOUS
<1>2. PICK I : I = Idle(Now, Launched)
  OBVIOUS
<1>3. PICK S : S = Release(I, Server, m, "release", "failed")
  OBVIOUS
<1>4. /\ agent[Launched].at = "busy" /\ running = "yes"
      /\ \/ Become(S) /\ UNCHANGED running
         \/ Become(Exited(S)) /\ running' = "no"
  BY <1>1, <1>2, <1>3 DEF TurnFails
<1>5. /\ m \in Message /\ Launched \in Agent /\ Place(Launched) = Server /\ Server \in Proc
      /\ Good(I) /\ AllKept(I) /\ Quiet(I)
      /\ I.agent[Launched] = [at |-> "away", msg |-> None]
      /\ MayFree(I, Place(Launched), m, "failed")
  BY <1>1, <1>2, <1>4, BusyIdle, Basics
<1>6. Good(S) /\ Serves(I, S) /\ AllKept(S)
  BY <1>3, <1>5, ReleaseGood
<1>7. Quiet(S) /\ S.agent[Launched] = [at |-> "away", msg |-> None]
  BY <1>5, <1>6 DEF Serves, Quiet
<1>8. CASE Become(S) /\ UNCHANGED running
  <2>1. Calm(S)
    BY <1>4 DEF Calm
  <2> QED
    BY <1>6, <1>7, <1>8, <2>1, CalmStep, QuietFits
<1>9. CASE Become(Exited(S)) /\ running' = "no"
  <2>1. PICK T : T = Exited(S)
    OBVIOUS
  <2> QED
    BY <1>6, <1>7, <1>9, <2>1, ExitedStep
<1> QED
  BY <1>4, <1>8, <1>9

LEMMA LoopEndsStep ==
  ASSUME Inv, LoopEnds
  PROVE  Inv' /\ Fits
<1>1. PICK m : m = agent[Launched].msg
  OBVIOUS
<1>2. PICK I : I = Idle(Now, Launched)
  OBVIOUS
<1>3. PICK S : S = IF m = None THEN I ELSE Release(I, Server, m, "revert", "unread")
  OBVIOUS
<1>4. PICK T : T = Exited(S)
  OBVIOUS
<1>5. running = "stopping" /\ Become(T) /\ running' = "no"
  BY <1>1, <1>2, <1>3, <1>4 DEF LoopEnds
<1>6. Good(S) /\ AllKept(S) /\ Quiet(S) /\ S.agent[Launched].at # "parked"
  <2>1. /\ Good(Now) /\ AllKept(Now) /\ Launched \in Agent /\ Now.agent[Launched].at # "parked"
        /\ Place(Launched) = Server /\ Server \in Proc /\ Seats(Now)
        /\ agent \in [Agent -> [at : {"off", "away", "parked", "busy"}, msg : Message \cup {None}]]
    BY <1>5, NowIs, Basics DEF Inv, Good, State
  <2>2. CASE m = None
    <3>1. /\ Good(I) /\ I.turn = turn /\ I.proc = proc /\ I.excuse = excuse
          /\ I.agent = [agent EXCEPT ![Launched] = [at |-> "away", msg |-> None]]
      BY <1>2, <2>1, IdleGood, NowIs
    <3>2. I.agent[Launched].at = "away"
      BY <2>1, <3>1
    <3>3. AllKept(I) /\ Quiet(I)
      BY <2>1, <3>1, NowIs DEF AllKept, Kept, Quiet
    <3> QED
      BY <1>3, <2>2, <3>1, <3>2, <3>3
  <2>3. CASE m # None
    <3>1. agent[Launched].at = "busy"
      BY <1>1, <2>1, <2>3, NowIs DEF Seats
    <3>2. /\ m \in Message /\ Good(I) /\ AllKept(I) /\ Quiet(I)
          /\ I.agent[Launched] = [at |-> "away", msg |-> None]
          /\ MayFree(I, Place(Launched), m, "unread")
      BY <1>1, <1>2, <2>1, <3>1, BusyIdle
    <3>3. S = Release(I, Server, m, "revert", "unread")
      BY <1>3, <2>3
    <3>4. Good(S) /\ Serves(I, S) /\ AllKept(S)
      BY <2>1, <3>2, <3>3, ReleaseGood
    <3> QED
      BY <2>1, <3>2, <3>4 DEF Serves, Quiet
  <2> QED
    BY <2>2, <2>3
<1> QED
  BY <1>4, <1>5, <1>6, ExitedStep

LEMMA HangUpStep ==
  ASSUME Inv, NEW a \in Client, HangUp(a)
  PROVE  Inv' /\ Fits
<1>1. PICK m : m = agent[a].msg
  OBVIOUS
<1>2. PICK I : I = Idle(Now, a)
  OBVIOUS
<1>3. PICK T : T = Release(I, Place(a), m, "revert", "unread")
  OBVIOUS
<1>4. a \in Agent /\ a # Launched /\ Place(a) = ProcOf[a] /\ Place(a) \in Proc /\ Launched \in Agent
  BY Basics
<1>5. Become(T) /\ UNCHANGED running /\ agent[a].at = "busy"
  BY <1>1, <1>2, <1>3, <1>4 DEF HangUp, Unlimited
<1>6. /\ m \in Message /\ Good(I) /\ AllKept(I) /\ Quiet(I)
      /\ \A b \in Agent : b # a => I.agent[b] = agent[b]
      /\ MayFree(I, Place(a), m, "unread")
  BY <1>1, <1>2, <1>4, <1>5, BusyIdle
<1>7. Good(T) /\ Serves(I, T) /\ AllKept(T)
  BY <1>3, <1>4, <1>6, ReleaseGood
<1>8. I.agent[Launched] = agent[Launched]
  BY <1>4, <1>6
<1> QED
  BY <1>5, <1>6, <1>7, <1>8, ServingStep

LEMMA GiveUpStep ==
  ASSUME Inv, NEW a \in Agent, GiveUp(a)
  PROVE  Inv' /\ Fits
<1>1. PICK T : T = Unpark(LeftBy(Now, a, "away"), Place(a), a)
  OBVIOUS
<1>2. Become(T) /\ UNCHANGED running /\ agent[a].at = "parked"
  BY <1>1 DEF GiveUp, Unlimited, Idle, LeftBy
<1>3. /\ Good(Now) /\ AllKept(Now) /\ Launched \in Agent /\ "away" \in {"off", "away"}
      /\ agent \in [Agent -> [at : {"off", "away", "parked", "busy"}, msg : Message \cup {None}]]
  BY NowIs, Basics DEF Inv, Good, State
<1>4. /\ Good(T) /\ T.turn = turn /\ T.excuse = excuse
      /\ T.agent = [agent EXCEPT ![a] = [at |-> "away", msg |-> None]]
      /\ \A q \in Proc : T.proc[q].work = proc[q].work
  <2>1. Gone(Now, a, "away", T)
    BY <1>1, <1>3, UnparkGood
  <2> QED
    BY <2>1, NowIs DEF Gone
<1>5. AllKept(T) /\ Quiet(T)
  BY <1>3, <1>4, NowIs DEF AllKept, Kept, Quiet
<1>6. Calm(T)
  BY <1>2, <1>3, <1>4 DEF Calm
<1> QED
  BY <1>2, <1>4, <1>5, <1>6, CalmStep, QuietFits

LEMMA CooldownEndsStep ==
  ASSUME Inv, NEW p \in Proc, CooldownEnds(p)
  PROVE  Inv' /\ Fits
<1>1. PICK T : T = [Now EXCEPT !.proc[p].refused = NotRefused]
  OBVIOUS
<1>2. Become(T) /\ UNCHANGED running
  BY <1>1 DEF CooldownEnds, Unlimited
<1>3. Noted(Now, T)
  <2>1. NotRefused \in [msg : Message \cup {None}, name : Name]
    BY DEF NotRefused, Name
  <2> QED
    BY <1>1, <2>1, NotesAre DEF Inv, Good
<1>4. Good(T) /\ Serves(Now, T) /\ AllKept(T)
  BY <1>3, NotedGood DEF Inv
<1> QED
  BY <1>2, <1>4, ServingStep, NowIs DEF Quiet

-----------------------------------------------------------------------------
(* The user's buttons *)

LEMMA CancelStep ==
  ASSUME Inv, Cancel
  PROVE  Inv' /\ Fits
<1>1. PICK m : m = proc[Server].work
  OBVIOUS
<1>2. PICK E : E = Excuse(Now, m, "stop")
  OBVIOUS
<1>3. PICK S : S = DropWork(E, Server)
  OBVIOUS
<1>4. PICK T : T = Reply(S, m)
  OBVIOUS
<1>5. Become(T) /\ UNCHANGED running /\ m # None
  BY <1>1, <1>2, <1>3, <1>4 DEF Cancel
<1>6. /\ Good(Now) /\ AllKept(Now) /\ Now \in State /\ Server \in Proc
      /\ proc \in [Proc -> ProcRow]
  BY NowIs, Basics DEF Inv, Good, State
<1>7. m \in Message
  BY <1>1, <1>5, <1>6 DEF ProcRow
<1>8. /\ Good(E) /\ E.turn = turn /\ E.chats = chats /\ E.agent = agent /\ E.proc = proc
      /\ \A k \in Message : excuse[k] \subseteq E.excuse[k]
      /\ Freed(E, m)
  <2>1. InHand(Now, m)
    BY <1>1, <1>6, NowIs DEF InHand
  <2>2. "stop" \in Taken
    BY DEF Taken
  <2> QED
    BY <1>2, <1>6, <1>7, <2>1, <2>2, ExcuseIs, ExcuseGood, NowIs
<1>9. /\ Good(S) /\ S.turn = turn /\ S.chats = chats /\ S.agent = agent /\ S.excuse = E.excuse
      /\ \A q \in Proc : S.proc[q].work = IF q = Server THEN None ELSE proc[q].work
  <2>1. E \in State
    BY <1>8 DEF Good
  <2> QED
    BY <1>3, <1>6, <1>8, <2>1, DropWorkIs, DropWorkGood
<1>10. Freed(S, m)
  BY <1>8, <1>9 DEF Freed
<1>11. Writable(S, m)
  BY <1>1, <1>6, <1>7, <1>9, NowIs DEF Good, Live, Writable
<1>12. ASSUME NEW k \in Message, k # m PROVE Kept(S, k)
  <2>1. \A q \in Proc : Now.proc[q].work = k => S.proc[q].work = k
    BY <1>1, <1>9, <1>12, NowIs
  <2>2. Now.excuse[k] \subseteq S.excuse[k] /\ S.turn[k] = Now.turn[k] /\ Kept(Now, k)
    BY <1>6, <1>8, <1>9, NowIs DEF AllKept
  <2> QED
    BY <2>1, <2>2, KeptOn
<1>13. Good(T) /\ AllKept(T) /\ T.agent = S.agent
  BY <1>4, <1>7, <1>9, <1>10, <1>11, <1>12, ReplyGood
<1>14. Calm(T)
  BY <1>9, <1>13 DEF Calm
<1>15. Inv' /\ agent' = T.agent
  BY <1>5, <1>13, <1>14, CalmStep, Becomes
<1> QED
  BY <1>9, <1>13, <1>15 DEF Fits

LEMMA RequeueIs ==
  ASSUME NEW S \in State, NEW m \in Message
  PROVE  [S EXCEPT !.turn[m].at = "queued", !.turn[m].tries = 0]
           = [S EXCEPT !.turn = [S.turn EXCEPT ![m] =
                                   [S.turn[m] EXCEPT !.at = "queued", !.tries = 0]]]
<1> DEFINE Chats == [active : Chat \cup {"new"}, archived : SUBSET Chat]
           Rows == [at : {"off", "away", "parked", "busy"}, msg : Message \cup {None}]
           Excuses == [Message -> SUBSET Reason]
<1>1. S \in [turn : [Message -> TurnRow], chats : Chats, proc : [Proc -> ProcRow],
             agent : [Agent -> Rows], excuse : Excuses]
  BY DEF State
<1> HIDE DEF Chats, Rows, Excuses
<1> QED
  BY <1>1 DEF TurnRow

LEMMA RetryStep ==
  ASSUME Inv, NEW m \in Message, Retry(m)
  PROVE  Inv' /\ Fits
<1>1. PICK E : E = Excuse(Now, m, "retry")
  OBVIOUS
<1>2. PICK D : D = DropWorkOn(E, Server, m)
  OBVIOUS
<1>3. PICK U : U = [D EXCEPT !.turn[m].at = "queued", !.turn[m].tries = 0]
  OBVIOUS
<1>4. PICK r : r = IF U.proc[Server].refused.msg = m THEN NotRefused ELSE U.proc[Server].refused
  OBVIOUS
<1>5. PICK S : S = [U EXCEPT !.proc[Server].refused = r]
  OBVIOUS
<1>6. PICK T : T = HandOff(S, Server)
  OBVIOUS
<1>7. /\ Good(Now) /\ AllKept(Now) /\ Now \in State /\ Server \in Proc
      /\ turn \in [Message -> TurnRow] /\ turn[m] \in TurnRow
  BY NowIs, Basics DEF Inv, Good, State
<1>8. /\ Good(E) /\ E.turn = turn /\ E.agent = agent /\ E.proc = proc
      /\ \A k \in Message : excuse[k] \subseteq E.excuse[k]
      /\ InHand(Now, m) => Freed(E, m)
  <2>1. "retry" \in Taken
    BY DEF Taken
  <2> QED
    BY <1>1, <1>7, <2>1, ExcuseIs, ExcuseGood, NowIs
<1>9. /\ Good(D) /\ D.turn = turn /\ D.agent = agent /\ D.excuse = E.excuse
      /\ \A q \in Proc : D.proc[q].work = IF q = Server /\ proc[q].work = m THEN None ELSE proc[q].work
  BY <1>2, <1>7, <1>8, DropWorkOnGood
<1>10. Freed(D, m) \/ ~InHand(D, m)
  <2>1. CASE InHand(Now, m)
    BY <1>8, <1>9, <2>1 DEF Freed
  <2>2. CASE ~InHand(Now, m)
    BY <1>9, <2>2, NowIs, Basics DEF InHand
  <2> QED
    BY <2>1, <2>2
<1> DEFINE row == [turn[m] EXCEPT !.at = "queued", !.tries = 0]
<1>11. row \in TurnRow /\ row.at = "queued" /\ row.tries = 0 /\ row.replies = turn[m].replies
  <2>1. 0 \in 0..MaxDeliveries
    BY Basics
  <2> QED
    BY <1>7, <2>1 DEF TurnRow
<1>12. D \in State /\ U = [D EXCEPT !.turn = [D.turn EXCEPT ![m] = row]]
  <2>1. D \in State
    BY <1>9 DEF Good
  <2>2. U = [D EXCEPT !.turn = [D.turn EXCEPT ![m] =
                                  [D.turn[m] EXCEPT !.at = "queued", !.tries = 0]]]
    BY <1>3, <2>1, RequeueIs
  <2>3. D.turn[m] = turn[m]
    BY <1>9
  <2> QED
    BY <2>1, <2>2, <2>3
<1> HIDE DEF row
<1>13. Written(D, m, row, U)
  BY <1>11, <1>12, WriteIs
<1>14. turn[m].replies = 0
  <2>1. ~(turn[m].replies > 0)
    BY NowIs DEF Retry, Answered
  <2> QED
    BY <1>7, <2>1 DEF TurnRow
<1>15. Rowed(D, U, m)
  <2>1. U.turn[m] = row /\ U.excuse = D.excuse
    BY <1>13 DEF Written
  <2>2. Freed(D, m) => Freed(U, m)
    BY <2>1 DEF Freed
  <2> QED
    BY <1>9, <1>10, <1>11, <1>14, <2>1, <2>2, Basics DEF Rowed
<1>16. Good(U) /\ Serves(D, U) /\ AllKept(U)
  <2>1. ASSUME NEW k \in Message, k # m PROVE Kept(D, k)
    <3>1. Now.excuse[k] \subseteq D.excuse[k] /\ D.turn[k] = Now.turn[k] /\ Kept(Now, k)
      BY <1>7, <1>8, <1>9, NowIs DEF AllKept
    <3>2. \A q \in Proc : Now.proc[q].work = k => D.proc[q].work = k
      BY <1>9, <2>1, NowIs
    <3> QED
      BY <3>1, <3>2, KeptOn
  <2> QED
    BY <1>9, <1>11, <1>13, <1>15, <2>1, WriteGood
<1>17. Noted(U, S)
  <2>1. U \in State /\ U.proc[Server] \in ProcRow
    BY <1>7, <1>16 DEF Good, State
  <2>2. r \in [msg : Message \cup {None}, name : Name]
    BY <1>4, <2>1 DEF ProcRow, NotRefused, Name
  <2> QED
    BY <1>5, <1>7, <2>1, <2>2, NotesAre
<1>18. Good(S) /\ Serves(U, S) /\ AllKept(S)
  BY <1>16, <1>17, NotedGood
<1>19. Good(T) /\ Serves(S, T) /\ AllKept(T)
  BY <1>6, <1>7, <1>18, HandOffGood
<1>20. Serves(D, T) /\ Quiet(D)
  BY <1>9, <1>16, <1>18, <1>19, ServesAgain DEF Quiet
<1>21. Become(T) /\ UNCHANGED running
  <2>1. S = [D EXCEPT !.turn[m].at = "queued", !.turn[m].tries = 0,
                      !.proc[Server].refused = IF @.msg = m THEN NotRefused ELSE @]
    BY <1>3, <1>4, <1>5, <1>12 DEF State
  <2> QED
    BY <1>1, <1>2, <1>6, <2>1 DEF Retry
<1> QED
  BY <1>9, <1>19, <1>20, <1>21, ServingStep

LEMMA ClearStep ==
  ASSUME Inv, NEW c \in Chat, Clear(c)
  PROVE  Inv' /\ Fits
<1> DEFINE D == [m \in Message |-> IF ChatOf[m] = c /\ Exists(Now, m)
                                   THEN [turn[m] EXCEPT !.at = "gone"] ELSE turn[m]]
<1>1. PICK S : S = [Now EXCEPT !.turn = D]
  OBVIOUS
<1>2. PICK T : T = Removed(S, c)
  OBVIOUS
<1>3. Become(T) /\ UNCHANGED running
  BY <1>1, <1>2, NowIs DEF Clear
<1>4. Good(Now) /\ AllKept(Now) /\ Now \in State /\ turn \in [Message -> TurnRow]
  BY NowIs DEF Inv, Good, State
<1>5. ASSUME NEW m \in Message
      PROVE  /\ D[m] \in TurnRow /\ D[m].replies = turn[m].replies
             /\ D[m] = turn[m] \/ D[m].at = "gone"
  <2>1. turn[m] \in TurnRow
    BY <1>4
  <2> QED
    BY <2>1 DEF TurnRow
<1>6. D \in [Message -> TurnRow]
  BY <1>5
<1> HIDE DEF D
<1>7. /\ S \in State /\ S.turn = D
      /\ S.chats = chats /\ S.proc = proc /\ S.agent = agent /\ S.excuse = excuse
  BY <1>1, <1>4, <1>6, NowIs DEF State
<1>8. Good(S) /\ Serves(Now, S) /\ AllKept(S)
  <2>1. \A k \in Message : Rowed(Now, S, k)
    BY <1>5, <1>7, NowIs DEF Rowed
  <2>2. \A k \in Message : Kept(Now, k)
    BY <1>4 DEF AllKept
  <2> QED
    BY <1>4, <1>7, <2>1, <2>2, NowIs, RowsGood
<1>9. Good(T) /\ Serves(S, T) /\ AllKept(T)
  BY <1>2, <1>8, RemovedGood
<1>10. Serves(Now, T) /\ Quiet(Now)
  BY <1>8, <1>9, NowIs, ServesAgain DEF Quiet
<1> QED
  BY <1>3, <1>9, <1>10, NowIs, ServingStep

LEMMA ArchiveStep ==
  ASSUME Inv, NEW c \in Chat, Archive(c)
  PROVE  Inv' /\ Fits
<1>1. PICK X : X = [Now EXCEPT !.chats.archived = @ \cup {c}]
  OBVIOUS
<1>2. PICK R : R = Removed(X, c)
  OBVIOUS
<1>3. PICK next \in Chat \cup {"new"} : Become([R EXCEPT !.chats.active = next])
  BY <1>1, <1>2, NowIs DEF Archive, Inv, Good, State
<1>4. PICK T : T = [R EXCEPT !.chats.active = next]
  OBVIOUS
<1>5. PICK Y : Y = Removed(Now, c)
  OBVIOUS
<1>6. Become(T) /\ UNCHANGED running
  BY <1>3, <1>4 DEF Archive
<1>7. Good(Now) /\ AllKept(Now) /\ Now \in State /\ chats.archived \cup {c} \in SUBSET Chat
  BY NowIs DEF Inv, Good, State
<1>8. /\ X \in State /\ X.turn = Now.turn /\ X.proc = Now.proc /\ X.agent = Now.agent
      /\ X.excuse = Now.excuse /\ X.chats.archived = chats.archived \cup {c}
  BY <1>1, <1>7, NowIs DEF State
<1>9. /\ R \in State /\ R.turn = Y.turn /\ R.agent = Y.agent /\ R.proc = Y.proc
      /\ R.excuse = Y.excuse /\ R.chats = X.chats
  BY <1>2, <1>5, <1>7, <1>8, RemovedSame
<1>10. /\ T \in State /\ T.turn = Y.turn /\ T.agent = Y.agent /\ T.proc = Y.proc
       /\ T.excuse = Y.excuse /\ T.chats.archived = chats.archived \cup {c}
  BY <1>4, <1>8, <1>9 DEF State
<1>11. /\ Good(Y) /\ Serves(Now, Y) /\ AllKept(Y) /\ Y.chats = chats
       /\ \A m \in Message : Y.proc[Server].work = m => ChatOf[m] # c
  BY <1>5, <1>7, NowIs, RemovedGood
<1>12. \A m \in Message : Y.proc[Server].work = m => ChatOf[m] \notin T.chats.archived
  BY <1>10, <1>11 DEF Good, Live, Writable
<1>13. Good(T) /\ Serves(Y, T) /\ AllKept(T)
  BY <1>10, <1>11, <1>12, ChatsGood
<1>14. Serves(Now, T) /\ Quiet(Now)
  BY <1>11, <1>13, NowIs, ServesAgain DEF Quiet
<1> QED
  BY <1>6, <1>13, <1>14, NowIs, ServingStep

LEMMA OpenStep ==
  ASSUME Inv, NEW c \in Chat, Open(c)
  PROVE  Inv' /\ Fits
<1>1. PICK T : T = [Now EXCEPT !.chats = [active |-> c, archived |-> @.archived \ {c}]]
  OBVIOUS
<1>2. Become(T) /\ UNCHANGED running
  BY <1>1 DEF Open
<1>3. /\ Good(Now) /\ AllKept(Now) /\ Now \in State
      /\ chats \in [active : Chat \cup {"new"}, archived : SUBSET Chat]
  BY NowIs DEF Inv, Good, State
<1>4. [active |-> c, archived |-> chats.archived \ {c}]
        \in [active : Chat \cup {"new"}, archived : SUBSET Chat]
  BY <1>3
<1>5. /\ T \in State /\ T.turn = Now.turn /\ T.agent = Now.agent /\ T.proc = Now.proc
      /\ T.excuse = Now.excuse /\ T.chats.archived = chats.archived \ {c}
  BY <1>1, <1>3, <1>4, NowIs DEF State
<1>6. \A m \in Message : Now.proc[Server].work = m => ChatOf[m] \notin T.chats.archived
  BY <1>3, <1>5, NowIs DEF Good, Live, Writable
<1>7. Good(T) /\ Serves(Now, T) /\ AllKept(T)
  BY <1>3, <1>5, <1>6, ChatsGood
<1> QED
  BY <1>2, <1>7, NowIs, ServingStep DEF Quiet

LEMMA LapseStep ==
  ASSUME Inv, Lapse \/ HardLapse
  PROVE  Inv' /\ Fits
<1>1. PICK m : m = proc[Server].work
  OBVIOUS
<1>2. PICK how \in {"release", "dead"} : Become(Release(Now, Server, m, how, "clock"))
  BY <1>1 DEF Lapse, HardLapse
<1>3. PICK T : T = Release(Now, Server, m, how, "clock")
  OBVIOUS
<1>4. m # None /\ UNCHANGED running
  BY <1>1 DEF Lapse, HardLapse
<1>5. Good(Now) /\ AllKept(Now) /\ Server \in Proc /\ proc \in [Proc -> ProcRow]
  BY NowIs, Basics DEF Inv, Good, State
<1>6. m \in Message
  BY <1>1, <1>4, <1>5 DEF ProcRow
<1>7. MayFree(Now, Server, m, "clock")
  BY DEF MayFree, Taken
<1>8. Good(T) /\ Serves(Now, T) /\ AllKept(T)
  BY <1>3, <1>5, <1>6, <1>7, ReleaseGood
<1> QED
  BY <1>2, <1>3, <1>4, <1>8, NowIs, ServingStep DEF Quiet

LEMMA AgeStep ==
  ASSUME Inv, NEW m \in Message, Age(m)
  PROVE  Inv' /\ Fits
<1> DEFINE row == [turn[m] EXCEPT !.fresh = FALSE]
<1>1. PICK T : T = [Now EXCEPT !.turn[m].fresh = FALSE]
  OBVIOUS
<1>2. Become(T) /\ UNCHANGED running
  BY <1>1 DEF Age
<1>3. /\ Good(Now) /\ AllKept(Now) /\ Now \in State /\ turn \in [Message -> TurnRow]
      /\ turn[m] \in TurnRow
  BY NowIs DEF Inv, Good, State
<1>4. /\ row \in TurnRow /\ row.at = turn[m].at /\ row.tries = turn[m].tries
      /\ row.replies = turn[m].replies
  BY <1>3 DEF TurnRow
<1>5. T = [Now EXCEPT !.turn = [Now.turn EXCEPT ![m] = row]]
  BY <1>1, NowIs
<1> HIDE DEF row
<1>6. Written(Now, m, row, T)
  BY <1>3, <1>4, <1>5, WriteIs
<1>7. Rowed(Now, T, m)
  BY <1>4, <1>6, NowIs DEF Written, Rowed
<1>8. Good(T) /\ Serves(Now, T)
  BY <1>3, <1>6, <1>7, WriteGood
<1>9. AllKept(T)
  <2>1. SUFFICES ASSUME NEW k \in Message PROVE Kept(T, k)
    BY DEF AllKept
  <2>2. Kept(Now, k)
    BY <1>3 DEF AllKept
  <2>3. /\ T.proc = proc /\ T.excuse = excuse
        /\ T.turn[k].at = turn[k].at /\ T.turn[k].tries = turn[k].tries
        /\ T.turn[k].replies = turn[k].replies
    BY <1>4, <1>6, NowIs DEF Written
  <2> QED
    BY <2>2, <2>3, NowIs DEF Kept
<1> QED
  BY <1>2, <1>8, <1>9, NowIs, ServingStep DEF Quiet

LEMMA VanishStep ==
  ASSUME Inv, NEW a \in Client, Vanish(a)
  PROVE  Inv' /\ Fits
<1>0. a \in Agent /\ a # Launched /\ Place(a) = ProcOf[a] /\ "off" \in {"off", "away"}
  BY Basics
<1>1. PICK T : T = Unpark(LeftBy(Now, a, "off"), Place(a), a)
  OBVIOUS
<1>2. Become(T) /\ UNCHANGED running
  BY <1>0, <1>1 DEF Vanish, LeftBy
<1>3. /\ Good(Now) /\ AllKept(Now) /\ Launched \in Agent
      /\ agent \in [Agent -> [at : {"off", "away", "parked", "busy"}, msg : Message \cup {None}]]
  BY NowIs, Basics DEF Inv, Good, State
<1>4. /\ Good(T) /\ T.turn = turn /\ T.excuse = excuse
      /\ T.agent = [agent EXCEPT ![a] = [at |-> "off", msg |-> None]]
      /\ \A q \in Proc : T.proc[q].work = proc[q].work
  <2>1. Gone(Now, a, "off", T)
    BY <1>0, <1>1, <1>3, UnparkGood
  <2> QED
    BY <2>1, NowIs DEF Gone
<1>5. AllKept(T) /\ Quiet(T)
  BY <1>3, <1>4, NowIs DEF AllKept, Kept, Quiet
<1>6. Calm(T)
  BY <1>0, <1>3, <1>4 DEF Calm
<1> QED
  BY <1>2, <1>4, <1>5, <1>6, CalmStep, QuietFits

LEMMA StopLaunchedStep ==
  ASSUME Inv, StopLaunched
  PROVE  Inv' /\ Fits
<1>1. /\ Good(Now) /\ AllKept(Now) /\ Launched \in Agent /\ Place(Launched) = Server
      /\ "away" \in {"off", "away"} /\ running' = "stopping"
      /\ agent \in [Agent -> [at : {"off", "away", "parked", "busy"}, msg : Message \cup {None}]]
  BY NowIs, Basics DEF Inv, Good, State, StopLaunched
<1>2. PICK T : T = IF agent[Launched].at = "parked"
                   THEN Unpark(LeftBy(Now, Launched, "away"), Place(Launched), Launched) ELSE Now
  OBVIOUS
<1>3. Become(T)
  BY <1>1, <1>2 DEF StopLaunched, Idle, LeftBy
<1>4. Good(T) /\ AllKept(T) /\ Quiet(T) /\ T.agent[Launched].at # "parked"
  <2>1. CASE agent[Launched].at = "parked"
    <3>1. Gone(Now, Launched, "away", T)
      BY <1>1, <1>2, <2>1, UnparkGood
    <3>2. AllKept(T) /\ Quiet(T)
      BY <1>1, <3>1, NowIs DEF Gone, AllKept, Kept, Quiet
    <3>3. T.agent = [agent EXCEPT ![Launched] = [at |-> "away", msg |-> None]] /\ Good(T)
      BY <3>1, NowIs DEF Gone
    <3> QED
      BY <1>1, <3>2, <3>3
  <2>2. CASE agent[Launched].at # "parked"
    BY <1>1, <1>2, <2>2, NowIs DEF Quiet
  <2> QED
    BY <2>1, <2>2
<1>5. Good(Now)' /\ AllKept(Now)' /\ agent' = T.agent
  BY <1>3, <1>4, Becomes
<1>6. Inv'
  BY <1>1, <1>4, <1>5 DEF Inv
<1> QED
  BY <1>3, <1>4, <1>6, QuietFits

LEMMA LaunchStep ==
  ASSUME Inv, Launch
  PROVE  Inv' /\ Fits
<1>1. PICK I : I = Idle(Now, Launched)
  OBVIOUS
<1>2. PICK N : N = [I EXCEPT !.proc[Server].askers = {}]
  OBVIOUS
<1>3. PICK K : K = Retire(N)
  OBVIOUS
<1> DEFINE dropped == {m \in Message : /\ turn[m].at = "leased" /\ turn[m].fresh
                                       /\ turn[m].tries = MaxDeliveries /\ ~Answered(Now, m)}
           D == [m \in Message |-> IF m \in dropped
                                   THEN [K.turn[m] EXCEPT !.at = "queued", !.tries = 0]
                                   ELSE K.turn[m]]
           E == [m \in Message |-> IF m \in dropped /\ InHand(Now, m)
                                   THEN K.excuse[m] \cup {"launch"} ELSE K.excuse[m]]
<1>4. PICK S : S = [K EXCEPT !.turn = D, !.excuse = E]
  OBVIOUS
<1>5. PICK T : T = IF dropped = {} THEN S ELSE HandOff(S, Server)
  OBVIOUS
<1>6. Become(T) /\ running = "no" /\ running' = "yes"
  BY <1>1, <1>2, <1>3, <1>4, <1>5 DEF Launch
<1>7. /\ Good(Now) /\ AllKept(Now) /\ Launched \in Agent /\ Server \in Proc
      /\ agent[Launched].at = "off" /\ turn \in [Message -> TurnRow]
  BY <1>6, NowIs, Basics DEF Inv, Good, State
<1>8. /\ Good(I) /\ I.turn = turn /\ I.proc = proc /\ I.excuse = excuse
      /\ I.agent = [agent EXCEPT ![Launched] = [at |-> "away", msg |-> None]]
  BY <1>1, <1>7, IdleGood, NowIs
<1>9. AllKept(I) /\ Quiet(I)
  BY <1>7, <1>8, NowIs DEF AllKept, Kept, Quiet
<1>10. Noted(I, N)
  <2>1. {} \in SUBSET Name /\ I \in State
    BY <1>8 DEF Good
  <2> QED
    BY <1>2, <1>7, <2>1, NotesAre
<1>11. Good(N) /\ AllKept(N) /\ N \in State
  BY <1>8, <1>9, <1>10, NotedGood DEF Noted
<1>12. Good(K) /\ AllKept(K) /\ K \in State
  BY <1>3, <1>11, RetireGood DEF Good
<1>13. /\ K.proc = N.proc /\ K.agent = I.agent
       /\ \A m \in Message : K.turn[m].replies = turn[m].replies
       /\ \A m \in Message : turn[m].at # "queued" => K.turn[m] = turn[m]
  BY <1>3, <1>8, <1>10, <1>11, RetireIs DEF Noted
<1>14. ASSUME NEW m \in Message, InHand(K, m) PROVE InHand(Now, m)
  <2>1. \A q \in Proc : K.proc[q].work = proc[q].work
    BY <1>8, <1>10, <1>13 DEF Noted
  <2>2. \A a \in Agent : K.agent[a].msg = m => agent[a].msg = m
    <3>1. agent \in [Agent -> [at : {"off", "away", "parked", "busy"}, msg : Message \cup {None}]]
      BY <1>7, NowIs DEF Good, State
    <3> QED
      BY <1>8, <1>13, <3>1, Basics
  <2> QED
    BY <1>14, <2>1, <2>2, NowIs DEF InHand
<1>15. ASSUME NEW m \in Message
       PROVE  /\ D[m] \in TurnRow /\ D[m].replies = turn[m].replies
              /\ m \in dropped => /\ D[m].at = "queued" /\ D[m].tries = 0
                                  /\ K.turn[m].replies = 0
              /\ m \notin dropped => D[m] = K.turn[m]
  <2>1. K.turn[m] \in TurnRow /\ turn[m] \in TurnRow /\ 0 \in 0..MaxDeliveries
    BY <1>7, <1>12, Basics DEF State
  <2>2. m \in dropped => turn[m].replies = 0
    BY <2>1, NowIs DEF Answered, TurnRow
  <2> QED
    BY <1>13, <2>1, <2>2 DEF TurnRow
<1>16. ASSUME NEW m \in Message
       PROVE  /\ E[m] \in SUBSET Reason /\ K.excuse[m] \subseteq E[m]
              /\ m \in dropped /\ InHand(Now, m) => E[m] \cap Taken # {}
  BY <1>12 DEF State, Reason, Taken
<1>17. D \in [Message -> TurnRow] /\ E \in [Message -> SUBSET Reason]
  BY <1>15, <1>16
<1> HIDE DEF D, E
<1>18. /\ S \in State /\ S.turn = D /\ S.excuse = E
       /\ S.chats = K.chats /\ S.proc = K.proc /\ S.agent = K.agent
  BY <1>4, <1>12, <1>17 DEF State
<1>19. ASSUME NEW m \in Message PROVE Rowed(K, S, m)
  <2>1. CASE m \in dropped
    <3>1. Freed(S, m) \/ ~InHand(K, m)
      BY <1>14, <1>16, <1>18, <2>1 DEF Freed
    <3> QED
      BY <1>13, <1>15, <1>18, <2>1, <3>1, Basics DEF Rowed
  <2>2. CASE m \notin dropped
    BY <1>15, <1>18, <2>2 DEF Rowed
  <2> QED
    BY <2>1, <2>2
<1>20. Good(S) /\ AllKept(S)
  <2>1. \A k \in Message : Kept(K, k)
    BY <1>12 DEF AllKept
  <2> QED
    BY <1>12, <1>16, <1>18, <1>19, <2>1, RowsGood
<1>21. Good(T) /\ AllKept(T) /\ Serves(S, T)
  BY <1>5, <1>7, <1>20, HandOffGood, ServesSelf
<1>22. Quiet(T)
  BY <1>15, <1>18, <1>21 DEF Quiet, Serves
<1>23. Inv'
  BY <1>6, <1>21, Becomes DEF Inv
<1> QED
  BY <1>6, <1>21, <1>22, <1>23, QuietFits

-----------------------------------------------------------------------------
(* Deaths and starts *)

LEMMA BootStep ==
  ASSUME Inv, NEW p \in Proc, Boot(p)
  PROVE  Inv' /\ Fits
<1> DEFINE orphan == {m \in Message : /\ turn[m].at = "leased" /\ turn[m].tries < MaxDeliveries
                                      /\ ~Answered(Now, m)}
           D == [m \in Message |-> IF m \in orphan THEN [turn[m] EXCEPT !.at = "queued"]
                                   ELSE turn[m]]
           E == [m \in Message |-> IF m \in orphan /\ InHand(Now, m)
                                   THEN excuse[m] \cup {"boot"} ELSE excuse[m]]
           P == [proc EXCEPT ![p] = Fresh]
<1>1. PICK T : T = [Now EXCEPT !.proc = P, !.turn = D, !.excuse = E]
  OBVIOUS
<1>2. Become(T) /\ UNCHANGED running /\ ~proc[p].up
  BY <1>1, NowIs DEF Boot
<1>3. /\ Good(Now) /\ AllKept(Now) /\ Now \in State /\ turn \in [Message -> TurnRow]
      /\ proc \in [Proc -> ProcRow] /\ excuse \in [Message -> SUBSET Reason]
  BY NowIs DEF Inv, Good, State
<1>4. proc[p].work = None /\ proc[p].waiting = <<>>
  BY <1>2, <1>3, NowIs DEF Good, Queues, Queue
<1>5. Fresh \in ProcRow /\ Fresh.work = None /\ Fresh.waiting = <<>> /\ Fresh.up
  BY DEF Fresh, ProcRow, Name, NotRefused
<1>6. ASSUME NEW m \in Message
      PROVE  /\ D[m] \in TurnRow /\ D[m].replies = turn[m].replies /\ D[m].tries = turn[m].tries
             /\ m \in orphan => /\ D[m].at = "queued" /\ turn[m].tries < MaxDeliveries
                                /\ turn[m].replies = 0
             /\ m \notin orphan => D[m] = turn[m]
  <2>1. turn[m] \in TurnRow
    BY <1>3
  <2>2. m \in orphan => turn[m].replies = 0
    BY <2>1, NowIs DEF Answered, TurnRow
  <2> QED
    BY <2>1, <2>2 DEF TurnRow
<1>7. ASSUME NEW m \in Message
      PROVE  /\ E[m] \in SUBSET Reason /\ excuse[m] \subseteq E[m]
             /\ m \in orphan /\ InHand(Now, m) => E[m] \cap Taken # {}
  BY <1>3 DEF Reason, Taken
<1>8. D \in [Message -> TurnRow] /\ E \in [Message -> SUBSET Reason]
  BY <1>6, <1>7
<1>9. P \in [Proc -> ProcRow] /\ P[p] = Fresh /\ \A q \in Proc : q # p => P[q] = proc[q]
  BY <1>3, <1>5
<1> HIDE DEF D, E, P, orphan
<1>10. /\ T \in State /\ T.turn = D /\ T.excuse = E /\ T.proc = P
       /\ T.chats = chats /\ T.agent = agent
  BY <1>1, <1>3, <1>8, <1>9, NowIs DEF State
<1>11. ASSUME NEW m \in Message PROVE Rowed(Now, T, m)
  <2>1. CASE m \in orphan
    <3>1. Freed(T, m) \/ ~InHand(Now, m)
      BY <1>7, <1>10, <2>1 DEF Freed
    <3> QED
      BY <1>6, <1>10, <2>1, <3>1, NowIs DEF Rowed
  <2>2. CASE m \notin orphan
    BY <1>6, <1>10, <2>2, NowIs DEF Rowed
  <2> QED
    BY <2>1, <2>2
<1>12. Good(T) /\ Serves(Now, T) /\ AllKept(T)
  <2>1. \A k \in Message : Kept(Now, k)
    BY <1>3 DEF AllKept
  <2>2. \A q \in Proc : /\ T.proc[q].work = Now.proc[q].work
                        /\ T.proc[q].waiting = Now.proc[q].waiting
                        /\ Now.proc[q].up => T.proc[q].up
    BY <1>4, <1>5, <1>9, <1>10, NowIs
  <2>3. \A k \in Message : Now.excuse[k] \subseteq T.excuse[k]
    BY <1>7, <1>10, NowIs
  <2>4. T.chats.archived \subseteq Now.chats.archived /\ T.agent = Now.agent
    BY <1>10, NowIs
  <2> QED
    BY <1>3, <1>10, <1>11, <2>1, <2>2, <2>3, <2>4, RowsGood
<1> QED
  BY <1>2, <1>12, NowIs, ServingStep DEF Quiet

\* What became of agent a as process p ended.
Outlives(p, a) ==
  IF Place(a) # p THEN agent[a]
  ELSE IF p # Server \/ a = Launched THEN [at |-> "off", msg |-> None]
  ELSE IF agent[a].at = "parked" THEN [at |-> "away", msg |-> None]
  ELSE agent[a]

LEMMA ExitStep ==
  ASSUME Inv, NEW p \in Proc, Exit(p)
  PROVE  Inv' /\ Fits
<1> DEFINE A == [a \in Agent |-> Outlives(p, a)]
           Down == [Fresh EXCEPT !.up = FALSE]
<1>1. PICK X : X = Strand(Now, p, "died")
  OBVIOUS
<1>2. PICK T : T = [X EXCEPT !.proc[p] = Down, !.agent = A]
  OBVIOUS
<1>3. Become(T) /\ running' = IF p = Server THEN "no" ELSE running
  BY <1>1, <1>2 DEF Exit, Outlives
<1>4. /\ Good(Now) /\ AllKept(Now) /\ Now \in State /\ turn \in [Message -> TurnRow]
      /\ proc \in [Proc -> ProcRow] /\ Queues(Now)
      /\ agent \in [Agent -> [at : {"off", "away", "parked", "busy"}, msg : Message \cup {None}]]
  BY NowIs DEF Inv, Good, State
<1>5. Down \in ProcRow /\ Down.work = None /\ Down.waiting = <<>>
  <2>1. Fresh \in ProcRow /\ Fresh.work = None /\ Fresh.waiting = <<>>
    BY DEF Fresh, ProcRow, Name, NotRefused
  <2> QED
    BY <2>1 DEF ProcRow
<1>6. ASSUME NEW a \in Agent
      PROVE  /\ A[a] \in [at : {"off", "away", "parked", "busy"}, msg : Message \cup {None}]
             /\ A[a] = agent[a] \/ (A[a].at # "busy" /\ A[a].msg = None)
             /\ Place(a) # p => A[a] = agent[a]
             /\ Place(a) = p /\ a = Launched => A[a].at = "off"
  BY <1>4 DEF Outlives
<1>7. A \in [Agent -> [at : {"off", "away", "parked", "busy"}, msg : Message \cup {None}]]
  BY <1>6
<1> HIDE DEF A, Down
<1>8. /\ X \in State /\ X.turn = turn /\ X.chats = chats /\ X.proc = proc
      /\ \A k \in Message : excuse[k] \subseteq X.excuse[k]
      /\ \A k \in Message : proc[p].work = k /\ turn[k].at = "leased" => "died" \in X.excuse[k]
  BY <1>1, <1>4, NowIs, StrandIs
<1>9. /\ T \in State /\ T.turn = turn /\ T.chats = chats /\ T.excuse = X.excuse /\ T.agent = A
      /\ T.proc[p] = Down /\ \A q \in Proc : q # p => T.proc[q] = proc[q]
  BY <1>2, <1>4, <1>5, <1>7, <1>8 DEF State
<1>10. Queues(T)
  <2>1. SUFFICES ASSUME NEW q \in Proc PROVE Queue(T, q)
    BY DEF Queues
  <2>2. CASE q = p
    BY <1>5, <1>9, <2>2 DEF Queue
  <2>3. CASE q # p
    <3>1. Queue(Now, q) /\ T.proc[q] = proc[q] /\ proc[q].waiting \in Seq(Waiter)
      BY <1>4, <1>9, <2>3 DEF Queues, ProcRow
    <3>2. ASSUME NEW i \in 1..Len(proc[q].waiting)
          PROVE  /\ T.agent[proc[q].waiting[i].agent].at = "parked"
                 /\ Place(proc[q].waiting[i].agent) = q
      <4>0. proc[q].waiting[i] \in Waiter
        BY <3>1, ElementIn
      <4>1. proc[q].waiting[i].agent \in Agent
        BY <4>0 DEF Waiter
      <4>2. /\ agent[proc[q].waiting[i].agent].at = "parked"
            /\ Place(proc[q].waiting[i].agent) = q
        BY <3>1, NowIs DEF Queue
      <4> QED
        BY <1>6, <1>9, <2>3, <4>1, <4>2
    <3> QED
      BY <3>1, <3>2, NowIs DEF Queue
  <2> QED
    BY <2>2, <2>3
<1>11. Good(T)
  <2>1. \A b \in Agent : \/ T.agent[b] = Now.agent[b]
                         \/ T.agent[b].at # "busy" /\ T.agent[b].msg = None
    BY <1>6, <1>9, NowIs
  <2>2. \A q \in Proc : T.proc[q].work \in {Now.proc[q].work, None}
    BY <1>5, <1>9, NowIs
  <2>3. \A k \in Message : Now.excuse[k] \subseteq T.excuse[k]
    BY <1>8, <1>9, NowIs
  <2> QED
    BY <1>4, <1>9, <1>10, <2>1, <2>2, <2>3, NowIs, LeavesGood
<1>12. AllKept(T) /\ Quiet(T)
  <2>1. ASSUME NEW k \in Message PROVE Kept(T, k)
    <3>1. Kept(Now, k) /\ T.turn[k] = Now.turn[k] /\ Now.excuse[k] \subseteq T.excuse[k]
      BY <1>4, <1>8, <1>9, NowIs DEF AllKept
    <3>2. CASE proc[p].work = k
      <4>1. Now.turn[k].at = "leased" => T.excuse[k] \cap {"displaced", "archived", "died"} # {}
        BY <1>8, <1>9, <3>2, NowIs
      <4> QED
        BY <3>1, <4>1, KeptOn
    <3>3. CASE proc[p].work # k
      <4>1. \A q \in Proc : Now.proc[q].work = k => T.proc[q].work = k
        BY <1>9, <3>3, NowIs
      <4> QED
        BY <3>1, <4>1, KeptOn
    <3> QED
      BY <3>2, <3>3
  <2> QED
    BY <1>9, <2>1 DEF AllKept, Quiet
<1>13. Good(Now)' /\ AllKept(Now)' /\ agent' = A
  BY <1>3, <1>9, <1>11, <1>12, Becomes
<1>14. Inv'
  <2>1. CASE p = Server
    <3>1. agent'[Launched].at = "off" /\ running' = "no"
      BY <1>3, <1>6, <1>13, <2>1, Basics
    <3> QED
      BY <1>13, <3>1 DEF Inv
  <2>2. CASE p # Server
    <3>1. agent'[Launched] = agent[Launched] /\ running' = running
      BY <1>3, <1>6, <1>13, <2>2, Basics
    <3> QED
      BY <1>13, <3>1 DEF Inv
  <2> QED
    BY <2>1, <2>2
<1> QED
  BY <1>3, <1>11, <1>12, <1>14, QuietFits

-----------------------------------------------------------------------------
(* The invariant is kept, and answers fit *)

LEMMA NextStep ==
  ASSUME Inv, [Next]_vars
  PROVE  Inv' /\ Fits
<1>1. ASSUME NEW m \in Message, Post(m) \/ Retry(m) \/ Age(m) PROVE Inv' /\ Fits
  BY <1>1, PostStep, RetryStep, AgeStep
<1>2. ASSUME NEW a \in Client, Connect(a) \/ Say(a) \/ HangUp(a) \/ Vanish(a)
      PROVE  Inv' /\ Fits
  BY <1>2, ConnectStep, SayStep, HangUpStep, VanishStep
<1>3. ASSUME NEW a \in Agent, Ask(a) \/ GiveUp(a) PROVE Inv' /\ Fits
  BY <1>3, AskStep, GiveUpStep
<1>4. ASSUME NEW c \in Chat, Clear(c) \/ Archive(c) \/ Open(c) PROVE Inv' /\ Fits
  BY <1>4, ClearStep, ArchiveStep, OpenStep
<1>5. ASSUME NEW p \in Proc, Poll(p) \/ CooldownEnds(p) \/ Exit(p) \/ Boot(p)
      PROVE  Inv' /\ Fits
  BY <1>5, PollStep, CooldownEndsStep, ExitStep, BootStep
<1>6. ASSUME AnswerTurn \/ TurnFails \/ LoopEnds PROVE Inv' /\ Fits
  BY <1>6, AnswerTurnStep, TurnFailsStep, LoopEndsStep
<1>7. ASSUME Cancel \/ Launch \/ StopLaunched \/ Lapse \/ HardLapse PROVE Inv' /\ Fits
  BY <1>7, CancelStep, LaunchStep, StopLaunchedStep, LapseStep
<1>8. ASSUME UNCHANGED vars PROVE Inv' /\ Fits
  <2>1. Become(Now) /\ UNCHANGED running
    BY <1>8, NowIs DEF vars, Become
  <2>2. Calm(Now) /\ Quiet(Now) /\ Good(Now) /\ AllKept(Now)
    BY NowIs DEF Calm, Quiet, Inv
  <2> QED
    BY <2>1, <2>2, CalmStep, QuietFits
<1> QED
  BY <1>1, <1>2, <1>3, <1>4, <1>5, <1>6, <1>7, <1>8 DEF Next

LEMMA Invariance == Spec => []Inv
<1>1. Init => Inv
  BY InitInv
<1>2. Inv /\ [Next]_vars => Inv'
  BY NextStep
<1> QED
  BY <1>1, <1>2, PTL DEF Spec

-----------------------------------------------------------------------------
(* What it says *)

\* The rows, the chats, the lease slots and the agents stay of their types; in
\* particular no message is delivered more than MaxDeliveries times.
THEOREM ChannelTypeCorrect == Spec => []TypeOK
<1>1. Inv => TypeOK
  <2> SUFFICES ASSUME Inv PROVE TypeOK
    OBVIOUS
  <2>1. Now \in State /\ running \in {"no", "yes", "stopping"}
    BY DEF Inv, Good
  <2>2. /\ turn \in [Message -> TurnRow]
        /\ chats \in [active : Chat \cup {"new"}, archived : SUBSET Chat]
        /\ agent \in [Agent -> [at : {"off", "away", "parked", "busy"},
                                msg : Message \cup {None}]]
        /\ proc \in [Proc -> ProcRow]
    BY <2>1, NowIs DEF State
  <2>3. \A p \in Proc : proc[p].work \in Message \cup {None}
    BY <2>2 DEF ProcRow
  <2> QED
    BY <2>1, <2>2, <2>3 DEF TypeOK
<1> QED
  BY <1>1, Invariance, PTL

\* A message is leased to one agent at a time, whoever asks, gives up, dies or
\* starts, unless the user, a clock or a call that does not know whose lease it
\* is took it from an agent still on it (channel.ts:23-27).
THEOREM OneAgentPerMessage == Spec => []OneWorker
<1>1. Inv => OneWorker
  <2> SUFFICES ASSUME Inv, NEW m \in Message
               PROVE  Cardinality(OnIt(m)) <= 1 \/ Excused(m, Taken)
    BY DEF OneWorker
  <2>1. Freed(Now, m) \/ Held(Now, m)
    BY DEF Inv, Good, Leases
  <2>2. CASE Freed(Now, m)
    BY <2>2, NowIs DEF Freed, Excused
  <2>3. CASE Held(Now, m)
    <3>1. \A a, b \in Agent : agent[a].msg = m /\ agent[b].msg = m => a = b
      BY <2>3, NowIs DEF Held
    <3>2. CASE OnIt(m) = {}
      BY <3>2, FS_EmptySet
    <3>3. ASSUME NEW a \in OnIt(m) PROVE Cardinality(OnIt(m)) <= 1
      <4>1. OnIt(m) = {a}
        BY <3>1 DEF OnIt
      <4> QED
        BY <4>1, FS_Singleton
    <3> QED
      BY <3>2, <3>3
  <2> QED
    BY <2>1, <2>2, <2>3
<1> QED
  BY <1>1, Invariance, PTL

\* A message that nothing took from an agent still on it is answered once.
THEOREM AnsweredOnlyOnce == Spec => []AnsweredOnce
<1>1. Inv => AnsweredOnce
  <2> SUFFICES ASSUME Inv, NEW m \in Message
               PROVE  turn[m].replies <= 1 \/ Excused(m, Taken)
    BY DEF AnsweredOnce
  <2>1. Freed(Now, m) \/ Held(Now, m)
    BY DEF Inv, Good, Leases
  <2> QED
    BY <2>1, NowIs DEF Freed, Held, Excused
<1> QED
  BY <1>1, Invariance, PTL

\* A leased message that no process holds was answered or dropped on the list
\* the user sees, or another message took the one slot, its chat was archived,
\* or its process died (channel.ts:834-837).
THEOREM NoMessageForgotten == Spec => []NothingForgotten
<1>1. Inv => NothingForgotten
  <2> SUFFICES ASSUME Inv, NEW m \in Message, Stranded(m)
               PROVE  Excused(m, {"displaced", "archived", "died"})
    BY DEF NothingForgotten
  <2>1. Kept(Now, m)
    BY DEF Inv, AllKept
  <2> QED
    BY <2>1, NowIs DEF Kept, Stranded, Excused
<1> QED
  BY <1>1, Invariance, PTL

\* The driven loop files its answer under the question it was given, whatever
\* the server holds by the time the answer comes.
THEOREM AnswersFit == Spec => AnswerFits
<1>1. Inv /\ [Next]_vars
        => [\A m \in Message :
              turn'[m].replies > turn[m].replies /\ agent'[Launched].msg # agent[Launched].msg
                => agent[Launched].msg = m]_vars
  BY NextStep DEF Fits
<1> QED
  BY <1>1, Invariance, PTL DEF Spec, AnswerFits
=============================================================================
