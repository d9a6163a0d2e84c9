------------------------------ MODULE MailIndex ------------------------------
(***************************************************************************)
(* The local index of one mail folder (src/src/mail/index-store.ts), the   *)
(* reads that fill it and the moves and flags that write through it        *)
(* (src/src/mail/service.ts), against the IMAP folder they read            *)
(* (src/src/provider/imap-smtp.ts).                                        *)
(*                                                                         *)
(* Two processes share the index, each with one connection to the server   *)
(* on which a sync or a move holds the mailbox lock.  Other mail clients   *)
(* change the folder between any two commands of a sync.                   *)
(*                                                                         *)
(* A mod-sequence is only ever compared, so a cursor is modelled by the    *)
(* uids that changed on the server since it was taken; a row or a fetched  *)
(* message by whether its flags are still the server's.  Messages arrive   *)
(* in the order of their dates: a uid is its own date.                     *)
(***************************************************************************)
EXTENDS Integers, FiniteSets

CONSTANTS
  Proc,            \* processes over one data directory
  Server,          \* the one that watches the folder (serve)
  MaxUid,          \* bound: messages that ever arrive
  Limit,           \* rows a list asks for
  Since,           \* instants a dated list asks for
  NoState,         \* the folder has no mailbox_state row
  NoSync, NoOp, Free,
  MaxOutside,      \* bound: flags and moves of other mail clients
  MaxOps,          \* bound: dated lists, flags and moves of this product
  MaxFaults        \* bound: syncs that fail, answers lost, deaths of a process

ASSUME MailIndexAssumption ==
  /\ Server \in Proc
  /\ MaxUid \in Nat /\ Limit \in Nat \ {0}
  /\ Since \subseteq 1..MaxUid
  /\ MaxOutside \in Nat /\ MaxOps \in Nat /\ MaxFaults \in Nat
  /\ \A s \in SUBSET (1..MaxUid) : s # NoState

Uid == 1..MaxUid
Never == MaxUid + 1              \* covered_since of a folder never read by date
Key == Since \cup {0}            \* syncs in flight are told apart by `since`; 0: none
Window == 0

VARIABLES
  box,             \* uids in the folder, on the server
  arrived,         \* messages that have arrived
  row,             \* message_summaries: "none", "current" flags or "old" ones
  mark,            \* uids changed since the stored cursor
  exists, dirty, fresh, covered,   \* the rest of mailbox_state; fresh: read in the
                   \* last 30 s
  sync,            \* inflight: the sync of each process and key
  conn,            \* what holds the mailbox lock of each process
  refill,          \* processes where a list waits for a sync to refill the window
  op,              \* a move or a flag the server has taken and the index not yet
  outside, ops, faults,
  jumped           \* history: changes behind the cursor that no sync has read

serverVars == <<box, arrived>>
indexVars == <<row, mark, exists, dirty, fresh, covered>>
boundVars == <<outside, ops, faults>>
vars == <<serverVars, indexVars, sync, conn, refill, op, boundVars, jumped>>

Rows == {u \in Uid : row[u] # "none"}
Least(s) == CHOOSE u \in s : \A v \in s : u <= v
\* uidWindow and slice(-limit): the newest of a set of messages.
Newest(s) == {u \in s : Cardinality({v \in s : v > u}) < Limit}
Earlier(a, b) == IF a <= b THEN a ELSE b

Sync == [stage : {"asked", "selected", "fetched", "read"}, full : BOOLEAN,
         base : SUBSET Uid, known : SUBSET Uid, mark : SUBSET Uid,
         there : SUBSET Uid, heads : SUBSET Uid, old : SUBSET Uid,
         gone : SUBSET Uid, covered : 1..Never, overtaken : BOOLEAN]
Op == [kind : {"move", "flag"}, uid : Uid, latest : BOOLEAN]

Init ==
  /\ box = {} /\ arrived = 0
  /\ row = [u \in Uid |-> "none"]
  /\ mark = NoState
  /\ exists = 0 /\ dirty = FALSE /\ fresh = FALSE /\ covered = Never
  /\ sync = [p \in Proc |-> [k \in Key |-> NoSync]]
  /\ conn = [p \in Proc |-> Free]
  /\ refill = {}
  /\ op = [p \in Proc |-> NoOp]
  /\ outside = 0 /\ ops = 0 /\ faults = 0
  /\ jumped = {}

-----------------------------------------------------------------------------
(* The folder *)

\* What a change of message u does to a cursor taken before it.
With(cursor, u) == IF cursor = NoState THEN NoState ELSE cursor \cup {u}

\* A sync that asks for what changed since its cursor, until it has the answer.
IsDelta(k, s) == k = Window /\ ~s.full /\ s.stage # "read"

\* Message u is new or has new flags: it is past every cursor taken so far, and
\* what was read of it is old.
Changed(u) ==
  /\ mark' = With(mark, u)
  /\ sync' = [p \in Proc |-> [k \in Key |->
       LET s == sync[p][k] IN
       IF s = NoSync THEN NoSync
       ELSE [s EXCEPT !.base = IF IsDelta(k, s) THEN @ \cup {u} ELSE @,
                      !.mark = IF s.stage = "asked" THEN @ ELSE @ \cup {u},
                      !.old = @ \cup (s.heads \cap {u})]]]

Arrive ==
  /\ arrived < MaxUid
  /\ arrived' = arrived + 1
  /\ box' = box \cup {arrived'}
  /\ Changed(arrived')
  /\ UNCHANGED <<row, exists, dirty, fresh, covered, conn, refill, op,
                 boundVars, jumped>>

Aged(u) == row' = [row EXCEPT ![u] = IF @ = "none" THEN @ ELSE "old"]
Overruled(u) ==
  op' = [p \in Proc |-> IF op[p] # NoOp /\ op[p].uid = u
                        THEN [op[p] EXCEPT !.latest = FALSE] ELSE op[p]]

\* Another client flags a message.
OutsideFlags(u) ==
  /\ outside < MaxOutside /\ u \in box
  /\ outside' = outside + 1
  /\ Changed(u) /\ Aged(u) /\ Overruled(u)
  /\ UNCHANGED <<serverVars, exists, dirty, fresh, covered, conn, refill,
                 ops, faults, jumped>>

\* Another client moves one away: an expunge, which no mod-sequence shows.
OutsideMoves(u) ==
  /\ outside < MaxOutside /\ u \in box
  /\ outside' = outside + 1
  /\ box' = box \ {u}
  /\ UNCHANGED <<arrived, indexVars, sync, conn, refill, op, ops, faults, jumped>>

-----------------------------------------------------------------------------
(* Reading the folder *)

\* syncFolder: what the index knows (its cursor, its uids) is read here, before the
\* lock is waited for.  mailboxNeedsFullResync: without a cursor the whole window.
Asked(k, full, cursor, known) ==
  LET delta == k = Window /\ ~full /\ cursor # NoState IN
  [stage |-> "asked", full |-> k = Window /\ ~delta,
   base |-> IF delta THEN cursor ELSE {}, known |-> IF delta THEN known ELSE {},
   mark |-> {}, there |-> {}, heads |-> {}, old |-> {}, gone |-> {}, covered |-> Never,
   overtaken |-> FALSE]

\* A sync of the same key under way is joined; only a list that needs its window
\* filled looks again when that one has ended.
SyncFolder(p, k, full) ==
  IF sync[p][k] = NoSync
    THEN sync' = [sync EXCEPT ![p][k] = Asked(k, full, mark, Rows)] /\ UNCHANGED refill
    ELSE refill' = (IF full THEN refill \cup {p} ELSE refill) /\ UNCHANGED sync

Short(rows, there) ==
  LET n == Cardinality(rows) IN n = 0 \/ (n < Limit /\ n < there)
RefreshDue == dirty \/ ~fresh

\* ensureFresh: a list waits for a fill when its window is short, and is refreshed
\* behind the answer when dirty or stale.
List(p) ==
  /\ \/ Short(Rows, exists) /\ SyncFolder(p, Window, TRUE)
     \/ ~Short(Rows, exists) /\ RefreshDue /\ SyncFolder(p, Window, FALSE)
  /\ UNCHANGED <<serverVars, indexVars, conn, op, boundVars, jumped>>

\* A list that is told to refresh waits for the server in any case.
ListRefreshed(p) ==
  /\ ops < MaxOps
  /\ ops' = ops + 1
  /\ SyncFolder(p, Window, Short(Rows, exists))
  /\ UNCHANGED <<serverVars, indexVars, conn, op, outside, faults, jumped>>

\* needsSinceFill: a dated list the index does not reach back to is a sync of its
\* own; any other is refreshed like a window.
ListSince(p, d) ==
  /\ ops < MaxOps
  /\ ops' = ops + 1
  /\ \/ covered > d /\ SyncFolder(p, d, FALSE)
     \/ covered <= d /\ RefreshDue /\ SyncFolder(p, Window, FALSE)
  /\ UNCHANGED <<serverVars, indexVars, conn, op, outside, faults, jumped>>

\* watchAccount: the server says that something changed.
Push ==
  /\ mark # NoState
  /\ dirty' = TRUE
  /\ SyncFolder(Server, Window, FALSE)
  /\ UNCHANGED <<serverVars, row, mark, exists, fresh, covered, conn, op, boundVars, jumped>>

\* The mailbox lock is granted and the mailbox selected: the cursor is of now.
Select(p, k) ==
  /\ sync[p][k] # NoSync /\ sync[p][k].stage = "asked"
  /\ conn[p] = Free
  /\ conn' = [conn EXCEPT ![p] = k]
  /\ sync' = [sync EXCEPT ![p][k] = [@ EXCEPT !.stage = "selected", !.there = box]]
  /\ UNCHANGED <<serverVars, indexVars, refill, op, boundVars, jumped>>

\* Mutation: CHANGEDSINCE over the uids from the newest indexed one.
DeltaOfNew(s) == {u \in box \cap s.base : \A v \in s.known : u >= v}

\* CHANGEDSINCE over the uids from the oldest indexed one.
Delta(s) == {u \in box \cap s.base : s.known = {} \/ u >= Least(s.known)}

Fetched(p, k, stage, full, heads, reach) ==
  /\ sync' = [sync EXCEPT ![p][k] =
       [@ EXCEPT !.stage = stage, !.full = full, !.heads = heads, !.covered = reach,
                 !.base = IF stage = "read" THEN {} ELSE sync[p][k].base]]
  /\ UNCHANGED <<serverVars, indexVars, conn, refill, op, boundVars, jumped>>

\* Mutation: a read by date claims all it was asked for.
ReachAsked(k, dated) == k

\* coveredSince: a read by date that was cut off reaches back to its oldest message.
Reach(k, dated) == IF Newest(dated) # dated THEN Least(Newest(dated)) ELSE k

\* The newest window, a read by date, or a delta; one with too much to read, or
\* whose cursor the server no longer knows, is a window after all.
Fetch(p, k) ==
  LET s == sync[p][k]
      dated == {u \in box : u >= k}
  IN
  /\ s # NoSync /\ s.stage = "selected"
  /\ \/ k # Window /\ Fetched(p, k, "read", FALSE, Newest(dated), Reach(k, dated))
     \/ k = Window /\ Fetched(p, k, "read", TRUE, Newest(s.there) \cap box, Never)
     \/ k = Window /\ ~s.full /\ Fetched(p, k, "fetched", FALSE, Delta(s), Never)

\* A delta asks which of the indexed messages are still there.
Search(p, k) ==
  /\ sync[p][k] # NoSync /\ sync[p][k].stage = "fetched"
  /\ sync' = [sync EXCEPT ![p][k] =
       [@ EXCEPT !.stage = "read", !.base = {}, !.gone = sync[p][k].known \ box]]
  /\ UNCHANGED <<serverVars, indexVars, conn, refill, op, boundVars, jumped>>

\* Mutation: the answer of a delta leaves the rows of messages that are gone.
AppliedKeepingGone(s) ==
  [u \in Uid |->
     IF u \in s.heads THEN IF u \in s.old THEN "old" ELSE "current"
     ELSE IF s.full THEN "none" ELSE row[u]]

\* applySync, one transaction: a window replaces the rows, any other answer takes
\* the vanished out and then writes what it read.
Applied(s) ==
  [u \in Uid |->
     IF u \in s.heads THEN IF u \in s.old THEN "old" ELSE "current"
     ELSE IF s.full \/ u \in s.gone THEN "none" ELSE row[u]]

\* History: what an answer moves the cursor past without having read it.  A
\* dated read skips what the stored cursor was still before.  So does a delta that
\* another answer overtook, and as the rows it began at may be gone, it adds rows
\* with gaps between them; a delta over an emptied index has no row to begin at.
\* Any other delta skips what is older than the oldest row.
Passed(k, s) ==
  CASE s.full -> {}
    [] k # Window -> (jumped \cup mark) \ s.heads
    [] k = Window /\ ~s.full /\ (s.overtaken \/ s.known = {}) ->
         (jumped \cup mark \cup (box \ Rows)) \ s.heads
    [] OTHER -> (jumped \cup {u \in mark : u < Least(s.known)}) \ s.heads

Apply(p, k) ==
  LET s == sync[p][k]
      rows == {u \in Uid : row'[u] # "none"}
  IN
  /\ s # NoSync /\ s.stage = "read"
  /\ row' = Applied(s)
  /\ mark' = s.mark /\ exists' = Cardinality(s.there)
  /\ dirty' = FALSE /\ fresh' = TRUE
  /\ covered' = IF s.full THEN Never ELSE Earlier(covered, s.covered)
  /\ jumped' = IF mark = NoState THEN jumped ELSE Passed(k, s)
  /\ conn' = [conn EXCEPT ![p] = Free]
  /\ LET again == p \in refill /\ k = Window /\ Cardinality(rows) < Limit
     IN sync' = [q \in Proc |-> [j \in Key |->
          IF q = p /\ j = k THEN IF again THEN Asked(k, TRUE, mark', rows) ELSE NoSync
          ELSE IF sync[q][j] = NoSync THEN NoSync
          ELSE [sync[q][j] EXCEPT !.overtaken = TRUE]]]
  /\ refill' = IF k = Window THEN refill \ {p} ELSE refill
  /\ UNCHANGED <<serverVars, op, boundVars>>

\* The server does not answer: the rejection reaches whoever joined.
SyncFails(p, k) ==
  /\ faults < MaxFaults
  /\ sync[p][k] # NoSync
  /\ faults' = faults + 1
  /\ sync' = [sync EXCEPT ![p][k] = NoSync]
  /\ conn' = [conn EXCEPT ![p] = IF @ = k THEN Free ELSE @]
  /\ refill' = IF k = Window THEN refill \ {p} ELSE refill
  /\ UNCHANGED <<serverVars, indexVars, op, outside, ops, jumped>>

\* withImap: the connection dropped, and the whole read is begun once more, with the
\* cursor and the uids of the first time.
SyncRetries(p, k) ==
  /\ faults < MaxFaults
  /\ sync[p][k] # NoSync /\ sync[p][k].stage \in {"selected", "fetched"}
  /\ faults' = faults + 1
  /\ sync' = [sync EXCEPT ![p][k] =
       [@ EXCEPT !.stage = "asked", !.mark = {}, !.heads = {}, !.old = {}]]
  /\ conn' = [conn EXCEPT ![p] = Free]
  /\ UNCHANGED <<serverVars, indexVars, refill, op, outside, ops, jumped>>

\* Thirty seconds pass.
Elapse ==
  /\ fresh
  /\ fresh' = FALSE
  /\ UNCHANGED <<serverVars, row, mark, exists, dirty, covered, sync, conn, refill, op,
                 boundVars, jumped>>

-----------------------------------------------------------------------------
(* Writing through the index *)

Writing == Never                 \* the lock is held by a move or a flag

\* The server takes a message out of the folder (archive, trash, move), or sets
\* its flag.
MoveOnServer(p, u) ==
  /\ ops < MaxOps /\ conn[p] = Free /\ u \in box
  /\ ops' = ops + 1
  /\ box' = box \ {u}
  /\ op' = [op EXCEPT ![p] = [kind |-> "move", uid |-> u, latest |-> TRUE]]
  /\ conn' = [conn EXCEPT ![p] = Writing]
  /\ UNCHANGED <<arrived, indexVars, sync, refill, outside, faults, jumped>>

\* withImap: the connection drops before the answer, the second attempt finds
\* nothing to move, and the index is not told.
MoveAnswerLost(p, u) ==
  /\ ops < MaxOps /\ faults < MaxFaults /\ conn[p] = Free /\ u \in box
  /\ ops' = ops + 1 /\ faults' = faults + 1
  /\ box' = box \ {u}
  /\ UNCHANGED <<arrived, indexVars, sync, conn, refill, op, outside, jumped>>

FlagOnServer(p, u) ==
  /\ ops < MaxOps /\ conn[p] = Free /\ u \in box
  /\ ops' = ops + 1
  /\ Changed(u) /\ Aged(u)
  /\ op' = [q \in Proc |->
       IF q = p THEN [kind |-> "flag", uid |-> u, latest |-> TRUE]
       ELSE IF op[q] # NoOp /\ op[q].uid = u THEN [op[q] EXCEPT !.latest = FALSE]
       ELSE op[q]]
  /\ conn' = [conn EXCEPT ![p] = Writing]
  /\ UNCHANGED <<serverVars, exists, dirty, fresh, covered, refill,
                 outside, faults, jumped>>

Answered(p) ==
  /\ op' = [op EXCEPT ![p] = NoOp]
  /\ conn' = [conn EXCEPT ![p] = Free]
  /\ UNCHANGED <<serverVars, mark, fresh, covered, sync, refill, boundVars>>

OneLess(n) == IF n = 0 THEN 0 ELSE n - 1

\* applyMove, removeMessage: the row goes and the folder's EXISTS with it.
MoveApplied(p) ==
  /\ op[p] # NoOp /\ op[p].kind = "move"
  /\ IF row[op[p].uid] = "none" THEN UNCHANGED <<row, exists, dirty>>
     ELSE /\ row' = [row EXCEPT ![op[p].uid] = "none"]
          /\ exists' = OneLess(exists)
          /\ dirty' = (mark # NoState)
  /\ Answered(p)
  /\ UNCHANGED jumped

\* markRead, setSeen: the flag is written whatever the index learned meanwhile.
FlagApplied(p) ==
  /\ op[p] # NoOp /\ op[p].kind = "flag"
  /\ row' = [row EXCEPT ![op[p].uid] =
                IF @ = "none" THEN @ ELSE IF op[p].latest THEN "current" ELSE "old"]
  /\ jumped' = IF op[p].latest THEN jumped ELSE jumped \cup {op[p].uid}
  /\ UNCHANGED <<exists, dirty>>
  /\ Answered(p)

\* A process dies: what it was reading or about to write is lost.
Exit(p) ==
  /\ faults < MaxFaults
  /\ op[p] # NoOp \/ \E k \in Key : sync[p][k] # NoSync
  /\ faults' = faults + 1
  /\ sync' = [sync EXCEPT ![p] = [k \in Key |-> NoSync]]
  /\ op' = [op EXCEPT ![p] = NoOp]
  /\ conn' = [conn EXCEPT ![p] = Free]
  /\ refill' = refill \ {p}
  /\ UNCHANGED <<serverVars, indexVars, outside, ops, jumped>>

-----------------------------------------------------------------------------
SyncStep(p, k) == Select(p, k) \/ Fetch(p, k) \/ Search(p, k) \/ Apply(p, k)
OpStep(p) == MoveApplied(p) \/ FlagApplied(p)

Next ==
  \/ Arrive \/ Push \/ Elapse
  \/ \E u \in Uid : OutsideFlags(u) \/ OutsideMoves(u)
  \/ \E p \in Proc :
       \/ List(p) \/ ListRefreshed(p) \/ OpStep(p) \/ Exit(p)
       \/ \E d \in Since : ListSince(p, d)
       \/ \E k \in Key : SyncStep(p, k) \/ SyncRetries(p, k) \/ SyncFails(p, k)
       \/ \E u \in Uid : MoveOnServer(p, u) \/ MoveAnswerLost(p, u) \/ FlagOnServer(p, u)

Spec == Init /\ [][Next]_vars

\* Commands are answered or fail; the mailbox lock is granted in turn; somebody
\* keeps the list open.
FairSpec ==
  /\ Spec
  /\ WF_vars(Elapse) /\ WF_vars(List(Server))
  /\ \A p \in Proc :
       /\ WF_vars(OpStep(p))
       /\ \A k \in Key : SF_vars(Select(p, k)) /\ WF_vars(SyncStep(p, k))

-----------------------------------------------------------------------------
(* Properties *)

TypeOK ==
  /\ arrived \in 0..MaxUid /\ box \subseteq 1..arrived
  /\ row \in [Uid -> {"none", "current", "old"}]
  /\ mark \in {NoState} \cup SUBSET Uid
  /\ exists \in 0..MaxUid /\ dirty \in BOOLEAN /\ fresh \in BOOLEAN
  /\ covered \in 1..Never
  /\ sync \in [Proc -> [Key -> Sync \cup {NoSync}]]
  /\ conn \in [Proc -> Key \cup {Writing, Free}]
  /\ refill \subseteq Proc
  /\ op \in [Proc -> Op \cup {NoOp}]
  /\ outside \in 0..MaxOutside /\ ops \in 0..MaxOps /\ faults \in 0..MaxFaults
  /\ jumped \subseteq Uid

\* The cursor is honest: of the messages a list can paint (from the oldest row
\* up), each one that has not changed since the cursor is in the index as the
\* server has it, so the next delta misses nothing.  Whatever crosses a sync -
\* other syncs, moves, flags, other clients, deaths - only what `Passed` names,
\* and a flag written over newer news, may leave the cursor too far.
HonestCursor ==
  mark # NoState /\ Rows # {} =>
    \A u \in box \ (mark \cup jumped) : u >= Least(Rows) => row[u] = "current"

\* A dated list answered from the index alone is complete: a message from
\* covered_since on has its row, unless it changed or came since the cursor, or
\* the cursor was moved past it unread.
DatedListComplete ==
  mark # NoState =>
    \A u \in box \ (mark \cup jumped) : u >= covered => row[u] # "none"

\* No ghosts: a message that left the folder leaves the list, although syncs that
\* began before may put its row back.
GhostsLeave ==
  \A u \in Uid : (row[u] # "none" /\ u \notin box) ~> row[u] = "none"

=============================================================================
