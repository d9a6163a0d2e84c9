--------------------------- MODULE MailIndexProofs ---------------------------
(***************************************************************************)
(* Proofs about MailIndex: whatever crosses a sync between the moment it   *)
(* reads what the index knows and the moment its answer is applied, the    *)
(* stored cursor claims nothing the index lacks (HonestCursor), and a      *)
(* dated list answered from the index is complete (DatedListComplete).     *)
(* IInv says, stage by stage, what a sync under way may rely on.           *)
(***************************************************************************)
EXTENDS MailIndex, FiniteSetTheorems, WellFoundedInduction, TLAPS

-----------------------------------------------------------------------------
(* The invariant *)

\* u is no older than the oldest message of a set.
Reaches(set, u) == \E v \in set : u >= v

\* What a delta under way may rely on, as long as no other answer overtook it: the
\* rows are among those it knew and still as the server has them, and what changed
\* since the cursor it asked with is in its answer, or changed again.
DeltaHolds(s) ==
  /\ mark # NoState
  /\ \A u \in s.heads : s.known # {} => Reaches(s.known, u)
  /\ ~s.overtaken =>
       /\ Rows \subseteq s.known
       /\ \A u \in box \ (mark \cup jumped) : Reaches(s.known, u) => row[u] = "current"
       /\ s.stage # "read" => mark \subseteq s.base
       /\ s.stage \in {"fetched", "read"} =>
            \A u \in mark \cap box : Reaches(s.known, u) => u \in s.heads \cup s.mark

\* What a window or a dated read has read: no message is missing between those it
\* holds but one that changed since, and none from covered on.
ReadHolds(k, s) ==
  /\ s.full \/ k # Window =>
       \A u \in box \ s.mark : Reaches(s.heads, u) => u \in s.heads
  /\ k # Window => \A u \in box \ s.mark : u >= s.covered => u \in s.heads

SyncHolds(k, s) ==
  /\ s.known \cup s.heads \cup s.gone \subseteq 1..arrived
  /\ s.gone \cap box = {} /\ s.old \subseteq s.mark
  /\ k # Window => ~s.full
  /\ k = Window => s.covered = Never
  /\ s.stage = "asked" => s.heads = {}
  /\ s.stage # "asked" => box \ s.mark \subseteq s.there
  /\ s.stage = "fetched" => k = Window /\ ~s.full
  /\ s.stage = "read" => ReadHolds(k, s)
  /\ k = Window /\ ~s.full => DeltaHolds(s)

SyncsHold ==
  \A p \in Proc : \A k \in Key : sync[p][k] # NoSync => SyncHolds(k, sync[p][k])

IndexHolds ==
  /\ Rows \subseteq 1..arrived
  /\ mark = NoState => Rows = {} /\ covered = Never

\* A message the server has moved for this product does not come back.
MovesHold ==
  \A p \in Proc : op[p] # NoOp /\ op[p].kind = "move" =>
    op[p].uid <= arrived /\ op[p].uid \notin box

Honest ==
  mark # NoState =>
    \A u \in box \ (mark \cup jumped) : Reaches(Rows, u) => row[u] = "current"

Held == SyncsHold /\ IndexHolds /\ MovesHold /\ Honest /\ DatedListComplete

IInv == TypeOK /\ Held

-----------------------------------------------------------------------------
(* Least and Newest *)

\* A set of naturals has a least member, a set of uids a greatest.
LEMMA HasMinimal ==
  ASSUME NEW S \in SUBSET Nat, S # {}
  PROVE  \E x \in S : \A y \in S : ~ (y < x)
<1>1. \E x \in S : \A y \in S : ~ (<<y, x>> \in OpToRel(<, Nat))
  BY NatLessThanWellFounded, WFMin
<1>2. \A x \in S : \A y \in S : <<y, x>> \in Nat \X Nat
  OBVIOUS
<1> QED
  BY <1>1, <1>2 DEF OpToRel

LEMMA LeastOf ==
  ASSUME NEW S \in SUBSET Nat, S # {}
  PROVE  Least(S) \in S /\ \A v \in S : Least(S) <= v
<1>1. PICK x \in S : \A y \in S : ~ (y < x)
  BY HasMinimal
<1>2. \A y \in S : y \in Nat
  OBVIOUS
<1>3. \A y \in S : x <= y
  BY <1>1, <1>2
<1>4. \E u \in S : \A v \in S : u <= v
  BY <1>1, <1>3
<1> QED
  BY <1>4 DEF Least

LEMMA ReachesLeast ==
  ASSUME NEW S \in SUBSET Nat, S # {}, NEW u \in Nat
  PROVE  Reaches(S, u) <=> u >= Least(S)
<1>1. Least(S) \in S /\ \A v \in S : Least(S) <= v
  BY LeastOf
<1>2. Least(S) \in Nat
  BY <1>1
<1>3. ASSUME NEW v \in S, u >= v PROVE u >= Least(S)
  BY <1>1, <1>2, <1>3
<1> QED
  BY <1>1, <1>3 DEF Reaches

LEMMA Bounds ==
  /\ MaxUid \in Nat /\ Limit \in Nat /\ Limit > 0 /\ Uid = 1..MaxUid
  /\ Never \in Nat /\ Never > MaxUid /\ Window = 0
  /\ \A u \in Uid : u \in Nat /\ u > 0 /\ u <= MaxUid
BY MailIndexAssumption DEF Uid, Never, Window

LEMMA GreatestOf ==
  ASSUME NEW S \in SUBSET Uid, S # {}
  PROVE  \E m \in S : \A v \in S : v <= m
<1> DEFINE T == {MaxUid - x : x \in S}
<1>a. \A x \in S : x \in Nat /\ MaxUid - x \in Nat
  <2>1. \A x \in S : x \in Uid
    OBVIOUS
  <2> QED
    BY <2>1, Bounds
<1>1. T \in SUBSET Nat /\ T # {}
  BY <1>a
<1>2. Least(T) \in T /\ \A y \in T : Least(T) <= y
  BY <1>1, LeastOf
<1>3. PICK m \in S : Least(T) = MaxUid - m
  BY <1>2
<1>4. \A v \in S : MaxUid - m <= MaxUid - v
  BY <1>2, <1>3
<1> QED
  BY <1>4, <1>a, Bounds

\* The newest of a set of messages are some of it, without a gap, and not none.
LEMMA NewestOf ==
  ASSUME NEW S \in SUBSET Uid
  PROVE  /\ Newest(S) \subseteq S
         /\ \A u \in S : Reaches(Newest(S), u) => u \in Newest(S)
         /\ S # {} => Newest(S) # {}
<1>a. \A x \in S : x \in Nat
  <2>1. \A x \in S : x \in Uid
    OBVIOUS
  <2> QED
    BY <2>1, Bounds
<1>1. IsFiniteSet(S)
  <2>1. IsFiniteSet(1..MaxUid)
    BY Bounds, FS_Interval
  <2> QED
    BY <2>1, Bounds, FS_Subset
<1>2. ASSUME NEW u \in S, NEW v \in Newest(S), u >= v PROVE u \in Newest(S)
  <2> DEFINE A == {w \in S : w > u}
             B == {w \in S : w > v}
  <2>1. v \in S /\ Cardinality(B) < Limit
    BY DEF Newest
  <2>2. IsFiniteSet(B) /\ A \subseteq B
    <3>1. A \subseteq B
      BY <1>2, <2>1, <1>a
    <3> QED
      BY <1>1, <3>1, FS_Subset
  <2>3. Cardinality(A) <= Cardinality(B)
    BY <2>2, FS_Subset
  <2>4. Cardinality(A) \in Nat /\ Cardinality(B) \in Nat
    BY <2>2, FS_Subset, FS_CardinalityType
  <2>5. Cardinality(A) < Limit
    BY <2>1, <2>3, <2>4, Bounds
  <2> QED
    BY <2>5 DEF Newest
<1>3. ASSUME S # {} PROVE Newest(S) # {}
  <2>1. PICK m \in S : \A v \in S : v <= m
    BY <1>3, GreatestOf
  <2>2. {w \in S : w > m} = {}
    BY <2>1, <1>a
  <2>3. Cardinality({w \in S : w > m}) < Limit
    BY <2>2, FS_EmptySet, Bounds
  <2> QED
    BY <2>3 DEF Newest
<1> QED
  BY <1>2, <1>3 DEF Newest, Reaches

\* The invariant's form of HonestCursor and the checked one say the same.
LEMMA HonestIsHonest == TypeOK /\ Honest => HonestCursor
<1> SUFFICES ASSUME TypeOK, Honest PROVE HonestCursor
  OBVIOUS
<1>1. Rows \in SUBSET Nat /\ box \in SUBSET Nat
  BY Bounds DEF TypeOK, Rows
<1> QED
  BY <1>1, ReachesLeast DEF Honest, HonestCursor

-----------------------------------------------------------------------------
(* Types *)

FolderType == arrived \in 0..MaxUid /\ box \subseteq 1..arrived
RowType == row \in [Uid -> {"none", "current", "old"}]
StateType ==
  /\ mark \in {NoState} \cup SUBSET Uid
  /\ exists \in 0..MaxUid /\ dirty \in BOOLEAN /\ fresh \in BOOLEAN
  /\ covered \in 1..Never
SyncType == sync \in [Proc -> [Key -> Sync \cup {NoSync}]]
ConnType == conn \in [Proc -> Key \cup {Writing, Free}] /\ refill \subseteq Proc
OpType == op \in [Proc -> Op \cup {NoOp}]
BoundType ==
  /\ outside \in 0..MaxOutside /\ ops \in 0..MaxOps /\ faults \in 0..MaxFaults
  /\ jumped \subseteq Uid

Types ==
  FolderType /\ RowType /\ StateType /\ SyncType /\ ConnType /\ OpType /\ BoundType

LEMMA TypeParts == TypeOK = Types
BY DEF TypeOK, Types, FolderType, RowType, StateType, SyncType, ConnType, OpType, BoundType

LEMMA TypeInit == Init => Types
<1> SUFFICES ASSUME Init PROVE Types
  OBVIOUS
<1> USE Bounds DEF Init
<1>1. FolderType /\ RowType
  BY DEF FolderType, RowType
<1>2. StateType
  <2>1. 0 \in 0..MaxUid /\ Never \in 1..Never /\ mark \in {NoState} \cup SUBSET Uid
    OBVIOUS
  <2> QED
    BY <2>1 DEF StateType
<1>3. SyncType /\ OpType
  BY DEF SyncType, OpType
<1>4. ConnType
  BY DEF ConnType
<1>5. BoundType
  BY MailIndexAssumption DEF BoundType
<1> QED
  BY <1>1, <1>2, <1>3, <1>4, <1>5 DEF Types

\* One sync of one process becomes another, or none.
Becomes(p, k, t) ==
  \A q \in Proc : \A j \in Key :
    sync'[q][j] = IF q = p /\ j = k THEN t ELSE sync[q][j]

Shaped == sync' = [q \in Proc |-> [j \in Key |-> sync'[q][j]]]

LEMMA SyncTypeFrom ==
  ASSUME Shaped, \A q \in Proc : \A j \in Key : sync'[q][j] \in Sync \cup {NoSync}
  PROVE  SyncType'
<1> DEFINE F(q) == [j \in Key |-> sync'[q][j]]
<1>1. \A q \in Proc : F(q) \in [Key -> Sync \cup {NoSync}]
  OBVIOUS
<1> HIDE DEF F
<1>2. [q \in Proc |-> F(q)] \in [Proc -> [Key -> Sync \cup {NoSync}]]
  BY <1>1
<1> QED
  BY <1>2 DEF SyncType, Shaped, F

\* What a change of message u makes of a sync.
Touched(k, s, u) ==
  [s EXCEPT !.base = IF IsDelta(k, s) THEN @ \cup {u} ELSE @,
            !.mark = IF s.stage = "asked" THEN @ ELSE @ \cup {u},
            !.old = @ \cup (s.heads \cap {u})]

Touches(u) ==
  \A q \in Proc : \A j \in Key :
    sync'[q][j] = IF sync[q][j] = NoSync THEN NoSync ELSE Touched(j, sync[q][j], u)

LEMMA ChangedShape ==
  ASSUME SyncType, NEW u \in Uid, Changed(u)
  PROVE  Shaped /\ Touches(u)
BY DEF Changed, Shaped, Touches, Touched

LEMMA TouchedType ==
  ASSUME NEW s \in Sync, NEW k \in Key, NEW u \in Uid
  PROVE  Touched(k, s, u) \in Sync
BY DEF Touched, Sync

LEMMA ChangedType ==
  ASSUME SyncType, StateType, NEW u \in Uid, Changed(u)
  PROVE  SyncType' /\ mark' \in {NoState} \cup SUBSET Uid
<1>1. Shaped /\ Touches(u)
  BY ChangedShape
<1>2. \A q \in Proc : \A j \in Key : sync'[q][j] \in Sync \cup {NoSync}
  <2> TAKE q \in Proc
  <2> TAKE j \in Key
  <2>1. sync[q][j] \in Sync \cup {NoSync}
    BY DEF SyncType
  <2>2. CASE sync[q][j] = NoSync
    BY <1>1, <2>2 DEF Touches
  <2>3. CASE sync[q][j] # NoSync
    BY <1>1, <2>1, <2>3, TouchedType DEF Touches
  <2> QED
    BY <2>2, <2>3
<1>3. mark' \in {NoState} \cup SUBSET Uid
  BY DEF Changed, With, StateType
<1> QED
  BY <1>1, <1>2, <1>3, SyncTypeFrom

LEMMA SelectShape ==
  ASSUME SyncType, NEW p \in Proc, NEW k \in Key, Select(p, k)
  PROVE  Shaped /\ Becomes(p, k, [sync[p][k] EXCEPT !.stage = "selected", !.there = box])
BY DEF Select, Shaped, Becomes, SyncType

LEMMA FetchedShape ==
  ASSUME SyncType, NEW p \in Proc, NEW k \in Key, NEW stage, NEW full, NEW heads, NEW reach,
         Fetched(p, k, stage, full, heads, reach), sync[p][k] # NoSync
  PROVE  /\ Shaped
         /\ Becomes(p, k, [sync[p][k] EXCEPT !.stage = stage, !.full = full,
                             !.heads = heads, !.covered = reach,
                             !.base = IF stage = "read" THEN {} ELSE sync[p][k].base])
<1> DEFINE t == [sync[p][k] EXCEPT !.stage = stage, !.full = full,
                   !.heads = heads, !.covered = reach,
                   !.base = IF stage = "read" THEN {} ELSE sync[p][k].base]
<1>1. sync' = [sync EXCEPT ![p][k] = t]
  BY DEF Fetched, SyncType
<1> HIDE DEF t
<1>2. Shaped /\ Becomes(p, k, t)
  BY <1>1 DEF Shaped, Becomes, SyncType
<1> QED
  BY <1>2 DEF t

LEMMA SearchShape ==
  ASSUME SyncType, NEW p \in Proc, NEW k \in Key, Search(p, k)
  PROVE  /\ Shaped
         /\ Becomes(p, k, [sync[p][k] EXCEPT !.stage = "read", !.base = {},
                             !.gone = sync[p][k].known \ box])
BY DEF Search, Shaped, Becomes, SyncType

LEMMA RetryShape ==
  ASSUME SyncType, NEW p \in Proc, NEW k \in Key, SyncRetries(p, k)
  PROVE  /\ Shaped
         /\ Becomes(p, k, [sync[p][k] EXCEPT !.stage = "asked", !.mark = {},
                             !.heads = {}, !.old = {}])
BY DEF SyncRetries, Shaped, Becomes, SyncType

LEMMA FailShape ==
  ASSUME SyncType, NEW p \in Proc, NEW k \in Key, SyncFails(p, k)
  PROVE  Shaped /\ Becomes(p, k, NoSync)
BY DEF SyncFails, Shaped, Becomes, SyncType

LEMMA ExitShape ==
  ASSUME SyncType, NEW p \in Proc, Exit(p)
  PROVE  /\ Shaped
         /\ \A q \in Proc : \A j \in Key :
              sync'[q][j] = IF q = p THEN NoSync ELSE sync[q][j]
BY DEF Exit, Shaped, SyncType

LEMMA FolderShape ==
  ASSUME SyncType, NEW p \in Proc, NEW k \in Key, NEW full, SyncFolder(p, k, full)
  PROVE  \/ Shaped /\ Becomes(p, k, Asked(k, full, mark, Rows)) /\ UNCHANGED refill
         \/ UNCHANGED sync /\ refill' \subseteq refill \cup {p}
BY DEF SyncFolder, Shaped, Becomes, SyncType

\* What applying an answer does to all syncs.
Ends(p, k, rows) ==
  IF p \in refill /\ k = Window /\ Cardinality(rows) < Limit
    THEN Asked(k, TRUE, mark', rows) ELSE NoSync

LEMMA ApplyShape ==
  ASSUME SyncType, NEW p \in Proc, NEW k \in Key, Apply(p, k)
  PROVE  /\ Shaped
         /\ \A q \in Proc : \A j \in Key :
              sync'[q][j] = IF q = p /\ j = k THEN Ends(p, k, Rows')
                            ELSE IF sync[q][j] = NoSync THEN NoSync
                            ELSE [sync[q][j] EXCEPT !.overtaken = TRUE]
BY DEF Apply, Shaped, Ends, Rows

LEMMA AskedType ==
  ASSUME NEW k \in Key, NEW full \in BOOLEAN,
         NEW cursor \in {NoState} \cup SUBSET Uid, NEW known \in SUBSET Uid
  PROVE  Asked(k, full, cursor, known) \in Sync
<1> DEFINE delta == k = Window /\ ~full /\ cursor # NoState
           whole == k = Window /\ ~delta
<1>1. whole \in BOOLEAN
  OBVIOUS
<1>2. delta => cursor \in SUBSET Uid
  OBVIOUS
<1>3. Never \in 1..Never
  BY Bounds
<1> HIDE DEF whole, delta
<1>4. [stage |-> "asked", full |-> whole,
       base |-> IF delta THEN cursor ELSE {}, known |-> IF delta THEN known ELSE {},
       mark |-> {}, there |-> {}, heads |-> {}, old |-> {}, gone |-> {}, covered |-> Never,
       overtaken |-> FALSE] \in Sync
  BY <1>1, <1>2, <1>3 DEF Sync
<1> QED
  BY <1>4 DEF Asked, whole, delta

LEMMA KeyFacts == Window \in Key /\ Since \subseteq Key /\ Key \subseteq 0..MaxUid
BY MailIndexAssumption, Bounds DEF Key

LEMMA FolderUids ==
  ASSUME FolderType
  PROVE  /\ box \subseteq Uid /\ 1..arrived \subseteq Uid /\ arrived \in Nat
         /\ arrived < MaxUid => arrived + 1 \in Uid
BY Bounds DEF FolderType

LEMMA RowsUids == Rows \subseteq Uid
BY DEF Rows

LEMMA BecomesType ==
  ASSUME SyncType, NEW p \in Proc, NEW k \in Key, NEW t \in Sync \cup {NoSync},
         Shaped, Becomes(p, k, t)
  PROVE  SyncType'
<1>1. \A q \in Proc : \A j \in Key : sync'[q][j] \in Sync \cup {NoSync}
  BY DEF Becomes, SyncType
<1> QED
  BY <1>1, SyncTypeFrom

LEMMA FolderSyncType ==
  ASSUME Types, NEW p \in Proc, NEW k \in Key, NEW full \in BOOLEAN, SyncFolder(p, k, full)
  PROVE  SyncType' /\ refill' \subseteq Proc
<1> USE DEF Types
<1>1. Asked(k, full, mark, Rows) \in Sync
  BY AskedType, RowsUids DEF StateType
<1>2. CASE Shaped /\ Becomes(p, k, Asked(k, full, mark, Rows)) /\ UNCHANGED refill
  BY <1>1, <1>2, BecomesType DEF ConnType
<1>3. CASE UNCHANGED sync /\ refill' \subseteq refill \cup {p}
  BY <1>3 DEF SyncType, ConnType
<1> QED
  BY <1>2, <1>3, FolderShape

\* The answers of the server are in type.
LEMMA ReachType ==
  ASSUME NEW k \in Key, k # Window, NEW dated \in SUBSET Uid
  PROVE  Reach(k, dated) \in 1..Never
<1>1. Newest(dated) \subseteq dated /\ (dated # {} => Newest(dated) # {})
  BY NewestOf
<1>2. CASE Newest(dated) = dated
  BY <1>2, KeyFacts, Bounds DEF Reach
<1>3. CASE Newest(dated) # dated
  <2>1. Newest(dated) # {} /\ Newest(dated) \subseteq Uid
    BY <1>1, <1>3
  <2>2. Newest(dated) \in SUBSET Nat
    BY <2>1, Bounds
  <2>3. Least(Newest(dated)) \in Newest(dated)
    BY <2>1, <2>2, LeastOf
  <2>4. Least(Newest(dated)) \in Uid
    BY <2>1, <2>3
  <2> QED
    BY <1>3, <2>4, Bounds DEF Reach
<1> QED
  BY <1>2, <1>3

LEMMA FetchShape ==
  ASSUME Types, NEW p \in Proc, NEW k \in Key, Fetch(p, k)
  PROVE  LET s == sync[p][k]
             dated == {u \in box : u >= k}
         IN \/ /\ k # Window
               /\ Fetched(p, k, "read", FALSE, Newest(dated), Reach(k, dated))
            \/ /\ k = Window
               /\ Fetched(p, k, "read", TRUE, Newest(s.there) \cap box, Never)
            \/ /\ k = Window /\ ~s.full
               /\ Fetched(p, k, "fetched", FALSE, Delta(s), Never)
BY DEF Fetch

LEMMA FetchType ==
  ASSUME Types, NEW p \in Proc, NEW k \in Key, Fetch(p, k)
  PROVE  SyncType'
<1> DEFINE s == sync[p][k]
           dated == {u \in box : u >= k}
<1> USE DEF Types
<1>1. s # NoSync /\ s \in Sync
  BY DEF Fetch, SyncType
<1>2. box \subseteq Uid /\ dated \subseteq Uid
  BY FolderUids
<1>3. ASSUME NEW stage \in {"fetched", "read"}, NEW full \in BOOLEAN, NEW heads \in SUBSET Uid,
             NEW reach \in 1..Never, Fetched(p, k, stage, full, heads, reach)
      PROVE  SyncType'
  <2> DEFINE t == [s EXCEPT !.stage = stage, !.full = full, !.heads = heads, !.covered = reach,
                            !.base = IF stage = "read" THEN {} ELSE s.base]
  <2>1. t \in Sync
    BY <1>1 DEF Sync
  <2>2. Shaped /\ Becomes(p, k, t)
    BY <1>1, <1>3, FetchedShape
  <2> HIDE DEF t
  <2> QED
    BY <2>1, <2>2, BecomesType
<1>4. Newest(dated) \in SUBSET Uid /\ Newest(s.there) \cap box \in SUBSET Uid
  BY <1>2, NewestOf
<1>5. Delta(s) \in SUBSET Uid /\ Never \in 1..Never
  <2>1. Delta(s) \subseteq box
    BY DEF Delta
  <2>2. Delta(s) \in SUBSET Uid
    BY <2>1, <1>2
  <2> QED
    BY <2>2, Bounds
<1>6. k # Window => Reach(k, dated) \in 1..Never
  BY <1>2, ReachType
<1> QED
  BY <1>3, <1>4, <1>5, <1>6, FetchShape

LEMMA ChangeTypes ==
  ASSUME Types, NEW u \in Uid,
         \/ Arrive /\ u = arrived'
         \/ OutsideFlags(u)
         \/ \E p \in Proc : FlagOnServer(p, u)
  PROVE  Types'
<1> USE DEF Types
<1>1. Changed(u)
  BY DEF Arrive, OutsideFlags, FlagOnServer
<1>2. SyncType' /\ mark' \in {NoState} \cup SUBSET Uid
  BY <1>1, ChangedType
<1>3. CASE Arrive
  <2>1. FolderType'
    BY <1>3, Bounds DEF Arrive, FolderType
  <2>2. RowType' /\ StateType' /\ ConnType' /\ OpType' /\ BoundType'
    BY <1>2, <1>3 DEF Arrive, RowType, StateType, ConnType, OpType, BoundType, boundVars
  <2> QED
    BY <1>2, <2>1, <2>2
<1>4. CASE OutsideFlags(u)
  <2>1. FolderType' /\ StateType' /\ ConnType' /\ BoundType'
    BY <1>2, <1>4, MailIndexAssumption
    DEF OutsideFlags, FolderType, StateType, ConnType, BoundType, serverVars
  <2>2. RowType'
    BY <1>4 DEF OutsideFlags, Aged, RowType
  <2>3. OpType'
    <3>1. ASSUME NEW q \in Proc, op[q] # NoOp
          PROVE  [op[q] EXCEPT !.latest = FALSE] \in Op
      BY <3>1 DEF OpType, Op
    <3>2. Overruled(u)
      BY <1>4 DEF OutsideFlags
    <3>3. \A q \in Proc : op[q] \in Op \cup {NoOp}
      BY DEF OpType
    <3> DEFINE G(q) == IF op[q] # NoOp /\ op[q].uid = u
                       THEN [op[q] EXCEPT !.latest = FALSE] ELSE op[q]
    <3>4. \A q \in Proc : G(q) \in Op \cup {NoOp}
      BY <3>1, <3>3
    <3>5. op' = [q \in Proc |-> G(q)]
      BY <3>2 DEF Overruled
    <3> HIDE DEF G
    <3> QED
      BY <3>4, <3>5 DEF OpType
  <2> QED
    BY <1>2, <2>1, <2>2, <2>3
<1>5. ASSUME NEW p \in Proc, FlagOnServer(p, u) PROVE Types'
  <2>1. FolderType' /\ StateType' /\ BoundType'
    BY <1>2, <1>5, MailIndexAssumption
    DEF FlagOnServer, FolderType, StateType, BoundType, serverVars
  <2>2. RowType'
    BY <1>5 DEF FlagOnServer, Aged, RowType
  <2>3. OpType'
    <3>1. ASSUME NEW q \in Proc, op[q] # NoOp
          PROVE  [op[q] EXCEPT !.latest = FALSE] \in Op
      BY <3>1 DEF OpType, Op
    <3>2. [kind |-> "flag", uid |-> u, latest |-> TRUE] \in Op
      BY DEF Op
    <3>3. \A q \in Proc : op[q] \in Op \cup {NoOp}
      BY DEF OpType
    <3> DEFINE G(q) == IF q = p THEN [kind |-> "flag", uid |-> u, latest |-> TRUE]
                       ELSE IF op[q] # NoOp /\ op[q].uid = u
                       THEN [op[q] EXCEPT !.latest = FALSE] ELSE op[q]
    <3>4. \A q \in Proc : G(q) \in Op \cup {NoOp}
      BY <3>1, <3>2, <3>3
    <3>5. op' = [q \in Proc |-> G(q)]
      BY <1>5 DEF FlagOnServer
    <3> HIDE DEF G
    <3> QED
      BY <3>4, <3>5 DEF OpType
  <2>4. ConnType'
    BY <1>5 DEF FlagOnServer, ConnType
  <2> QED
    BY <1>2, <2>1, <2>2, <2>3, <2>4
<1> QED
  BY <1>3, <1>4, <1>5

LEMMA ListTypes ==
  ASSUME Types, Push \/ \E p \in Proc : \/ List(p) \/ ListRefreshed(p)
                                        \/ \E d \in Since : ListSince(p, d)
  PROVE  Types'
<1> USE DEF Types
<1>1. ASSUME NEW p \in Proc, NEW k \in Key, NEW full \in BOOLEAN, SyncFolder(p, k, full),
             UNCHANGED <<serverVars, row, mark, exists, fresh, covered, conn, op,
                         outside, faults, jumped>>,
             dirty' \in BOOLEAN, ops' \in 0..MaxOps
      PROVE  Types'
  <2>1. SyncType' /\ refill' \subseteq Proc
    BY <1>1, FolderSyncType
  <2>2. FolderType' /\ RowType' /\ OpType'
    BY <1>1 DEF FolderType, RowType, OpType, serverVars
  <2>3. StateType' /\ ConnType' /\ BoundType'
    BY <1>1, <2>1 DEF StateType, ConnType, BoundType
  <2> QED
    BY <2>1, <2>2, <2>3
<1> USE MailIndexAssumption, KeyFacts
<1>2. CASE Push
  BY <1>1, <1>2 DEF Push, boundVars, BoundType
<1>3. ASSUME NEW p \in Proc, List(p) PROVE Types'
  <2>1. dirty' \in BOOLEAN /\ ops' \in 0..MaxOps
    BY <1>3 DEF List, indexVars, boundVars, StateType, BoundType
  <2> QED
    BY <1>1, <1>3, <2>1 DEF List, indexVars, boundVars
<1>4. ASSUME NEW p \in Proc, ListRefreshed(p) PROVE Types'
  <2>1. dirty' \in BOOLEAN /\ ops' \in 0..MaxOps
    BY <1>4 DEF ListRefreshed, indexVars, StateType, BoundType
  <2>2. Short(Rows, exists) \in BOOLEAN
    BY DEF Short
  <2> QED
    BY <1>1, <1>4, <2>1, <2>2 DEF ListRefreshed, indexVars
<1>5. ASSUME NEW p \in Proc, NEW d \in Since, ListSince(p, d) PROVE Types'
  <2>1. dirty' \in BOOLEAN /\ ops' \in 0..MaxOps
    BY <1>5 DEF ListSince, indexVars, StateType, BoundType
  <2>2. d \in Key
    OBVIOUS
  <2> QED
    BY <1>1, <1>5, <2>1, <2>2 DEF ListSince, indexVars
<1> QED
  BY <1>2, <1>3, <1>4, <1>5

LEMMA SyncTypes ==
  ASSUME Types, NEW p \in Proc, NEW k \in Key,
         Select(p, k) \/ Fetch(p, k) \/ Search(p, k) \/ SyncRetries(p, k) \/ SyncFails(p, k)
  PROVE  Types'
<1> USE DEF Types
<1> DEFINE s == sync[p][k]
<1>1. sync[p][k] \in Sync \cup {NoSync}
  BY DEF SyncType
<1>2. FolderType' /\ RowType' /\ StateType' /\ OpType'
  BY DEF Select, Fetch, Fetched, Search, SyncRetries, SyncFails, FolderType, RowType,
         StateType, OpType, serverVars, indexVars
<1>3. BoundType'
  BY MailIndexAssumption
  DEF Select, Fetch, Fetched, Search, SyncRetries, SyncFails, BoundType, boundVars
<1>4. ConnType'
  BY DEF Select, Fetch, Fetched, Search, SyncRetries, SyncFails, ConnType
<1>5. SyncType'
  <2>1. CASE Select(p, k)
    <3>1. [s EXCEPT !.stage = "selected", !.there = box] \in Sync
      BY <1>1, <2>1, FolderUids DEF Select, Sync
    <3> QED
      BY <2>1, <3>1, SelectShape, BecomesType
  <2>2. CASE Fetch(p, k)
    BY <2>2, FetchType
  <2>3. CASE Search(p, k)
    <3>1. [s EXCEPT !.stage = "read", !.base = {}, !.gone = s.known \ box] \in Sync
      BY <1>1, <2>3 DEF Search, Sync
    <3> QED
      BY <2>3, <3>1, SearchShape, BecomesType
  <2>4. CASE SyncRetries(p, k)
    <3>1. [s EXCEPT !.stage = "asked", !.mark = {}, !.heads = {}, !.old = {}] \in Sync
      BY <1>1, <2>4 DEF SyncRetries, Sync
    <3> QED
      BY <2>4, <3>1, RetryShape, BecomesType
  <2>5. CASE SyncFails(p, k)
    BY <2>5, FailShape, BecomesType
  <2> QED
    BY <2>1, <2>2, <2>3, <2>4, <2>5
<1> QED
  BY <1>2, <1>3, <1>4, <1>5

\* Of a sync that is applied.
LEMMA ApplyTypes ==
  ASSUME Types, NEW p \in Proc, NEW k \in Key, Apply(p, k)
  PROVE  Types'
<1> USE DEF Types
<1> DEFINE s == sync[p][k]
<1>1. s \in Sync /\ s # NoSync
  BY DEF Apply, SyncType
<1>2. FolderType' /\ OpType'
  BY DEF Apply, FolderType, OpType, serverVars
<1>3. RowType'
  BY <1>1 DEF Apply, Applied, RowType, Sync
<1>4. ConnType'
  BY DEF Apply, ConnType
<1>5. StateType'
  <2>1. mark' \in {NoState} \cup SUBSET Uid /\ dirty' \in BOOLEAN /\ fresh' \in BOOLEAN
    BY <1>1 DEF Apply, Sync
  <2>2. covered' \in 1..Never
    <3>1. s.covered \in 1..Never /\ covered \in 1..Never /\ Never \in 1..Never
      BY <1>1, Bounds DEF Sync, StateType
    <3> QED
      BY <3>1 DEF Apply, Earlier
  <2>3. exists' \in 0..MaxUid
    <3>1. s.there \in SUBSET (1..MaxUid)
      BY <1>1, Bounds DEF Sync
    <3>2. IsFiniteSet(1..MaxUid) /\ Cardinality(1..MaxUid) = MaxUid
      BY FS_Interval, Bounds
    <3>3. Cardinality(s.there) \in Nat /\ Cardinality(s.there) <= MaxUid
      BY <3>1, <3>2, FS_Subset, FS_CardinalityType
    <3> QED
      BY <3>3, Bounds DEF Apply
  <2> QED
    BY <2>1, <2>2, <2>3 DEF StateType
<1>6. SyncType'
  <2>1. Ends(p, k, Rows') \in Sync \cup {NoSync}
    <3>1. Rows' \in SUBSET Uid
      BY DEF Rows
    <3>2. mark' \in {NoState} \cup SUBSET Uid
      BY <1>5 DEF StateType
    <3>3. Asked(k, TRUE, mark', Rows') \in Sync
      BY <3>1, <3>2, AskedType
    <3> QED
      BY <3>3 DEF Ends
  <2>2. ASSUME NEW q \in Proc, NEW j \in Key, sync[q][j] # NoSync
        PROVE  [sync[q][j] EXCEPT !.overtaken = TRUE] \in Sync
    <3>1. sync[q][j] \in Sync
      BY <2>2 DEF SyncType
    <3> QED
      BY <3>1 DEF Sync
  <2>3. \A q \in Proc : \A j \in Key :
          sync'[q][j] = IF q = p /\ j = k THEN Ends(p, k, Rows')
                        ELSE IF sync[q][j] = NoSync THEN NoSync
                        ELSE [sync[q][j] EXCEPT !.overtaken = TRUE]
    <3>1. SyncType /\ Apply(p, k)
      OBVIOUS
    <3> QED
      BY SMTT(30), <3>1, ApplyShape, Zenon
  <2>4. \A q \in Proc : \A j \in Key : sync'[q][j] \in Sync \cup {NoSync}
    <3> TAKE q \in Proc
    <3> TAKE j \in Key
    <3>1. CASE q = p /\ j = k
      BY <2>1, <2>3, <3>1
    <3>2. CASE ~(q = p /\ j = k) /\ sync[q][j] = NoSync
      BY <2>3, <3>2
    <3>3. CASE ~(q = p /\ j = k) /\ sync[q][j] # NoSync
      <4>1. [sync[q][j] EXCEPT !.overtaken = TRUE] \in Sync
        BY <2>2, <3>3
      <4>2. sync'[q][j] = [sync[q][j] EXCEPT !.overtaken = TRUE]
        BY <2>3, <3>3
      <4> QED
        BY <4>1, <4>2
    <3> QED
      BY <3>1, <3>2, <3>3
  <2> QED
    BY <2>4, ApplyShape, SyncTypeFrom
<1>7. BoundType'
  <2>1. jumped' \subseteq Uid
    <3>1. box \subseteq Uid /\ jumped \subseteq Uid
      BY FolderUids DEF BoundType
    <3>2. mark # NoState => mark \subseteq Uid
      BY DEF StateType
    <3>3. mark # NoState => Passed(k, s) \subseteq jumped \cup mark \cup box
      BY <1>1 DEF Passed, Sync
    <3>4. jumped' = IF mark = NoState THEN jumped ELSE Passed(k, s)
      BY DEF Apply
    <3> QED
      BY <3>1, <3>2, <3>3, <3>4
  <2> QED
    BY <2>1 DEF Apply, BoundType, boundVars
<1> QED
  BY <1>2, <1>3, <1>4, <1>5, <1>6, <1>7

LEMMA OtherTypes ==
  ASSUME Types,
         \/ Elapse \/ \E u \in Uid : OutsideMoves(u)
         \/ \E p \in Proc : \/ OpStep(p) \/ Exit(p)
                            \/ \E u \in Uid : MoveOnServer(p, u) \/ MoveAnswerLost(p, u)
  PROVE  Types'
<1> USE MailIndexAssumption DEF Types
<1>1. CASE Elapse
  BY <1>1 DEF Elapse, FolderType, RowType, StateType, SyncType, ConnType, OpType,
              BoundType, serverVars, boundVars
<1>2. ASSUME NEW u \in Uid, OutsideMoves(u) PROVE Types'
  BY <1>2 DEF OutsideMoves, FolderType, RowType, StateType, SyncType, ConnType, OpType,
              BoundType, indexVars
<1>3. ASSUME NEW p \in Proc, NEW u \in Uid, MoveOnServer(p, u) \/ MoveAnswerLost(p, u)
      PROVE  Types'
  <2> USE <1>3 DEF MoveOnServer, MoveAnswerLost, indexVars
  <2>1. FolderType'
    BY DEF FolderType
  <2>2. RowType' /\ StateType' /\ SyncType'
    BY DEF RowType, StateType, SyncType
  <2>3. BoundType'
    BY DEF BoundType
  <2>4. ConnType'
    BY DEF ConnType
  <2>5. OpType'
    <3>1. [kind |-> "move", uid |-> u, latest |-> TRUE] \in Op
      BY DEF Op
    <3> QED
      BY <3>1 DEF OpType
  <2> QED
    BY <2>1, <2>2, <2>3, <2>4, <2>5
<1>4. ASSUME NEW p \in Proc, Exit(p) PROVE Types'
  <2>1. SyncType'
    BY <1>4, ExitShape, SyncTypeFrom DEF SyncType
  <2> QED
    BY <1>4, <2>1 DEF Exit, FolderType, RowType, StateType, ConnType, OpType, BoundType,
                      serverVars, indexVars
<1>5. ASSUME NEW p \in Proc, OpStep(p) PROVE Types'
  <2> USE <1>5 DEF OpStep, MoveApplied, FlagApplied, Answered, serverVars, boundVars
  <2>1. op[p] \in Op
    BY DEF OpType
  <2>2. FolderType' /\ SyncType' /\ ConnType' /\ OpType'
    BY DEF FolderType, SyncType, ConnType, OpType
  <2>3. RowType'
    BY DEF RowType
  <2>4. StateType'
    <3>1. OneLess(exists) \in 0..MaxUid
      BY Bounds DEF StateType, OneLess
    <3>2. exists' \in 0..MaxUid /\ dirty' \in BOOLEAN
      BY <3>1 DEF StateType
    <3> QED
      BY <3>2 DEF StateType
  <2>5. BoundType'
    BY <2>1 DEF BoundType, Op
  <2> QED
    BY <2>2, <2>3, <2>4, <2>5
<1> QED
  BY <1>1, <1>2, <1>3, <1>4, <1>5

LEMMA StutterTypes == Types /\ UNCHANGED vars => Types'
BY DEF Types, vars, serverVars, indexVars, boundVars, FolderType, RowType, StateType,
       SyncType, ConnType, OpType, BoundType

LEMMA TypeStep == Types /\ [Next]_vars => Types'
<1> SUFFICES ASSUME Types, [Next]_vars PROVE Types'
  OBVIOUS
<1>1. CASE Arrive
  <2>1. arrived' \in Uid
    BY <1>1, FolderUids DEF Arrive, Types
  <2> QED
    BY <1>1, <2>1, ChangeTypes
<1>2. ASSUME NEW u \in Uid, OutsideFlags(u) PROVE Types'
  BY <1>2, ChangeTypes
<1>3. ASSUME NEW p \in Proc, NEW u \in Uid, FlagOnServer(p, u) PROVE Types'
  BY <1>3, ChangeTypes
<1>4. CASE Push
  BY <1>4, ListTypes
<1>5. ASSUME NEW p \in Proc, List(p) \/ ListRefreshed(p) \/ \E d \in Since : ListSince(p, d)
      PROVE  Types'
  BY <1>5, ListTypes
<1>6. ASSUME NEW p \in Proc, NEW k \in Key, SyncStep(p, k) \/ SyncRetries(p, k) \/ SyncFails(p, k)
      PROVE  Types'
  BY <1>6, SyncTypes, ApplyTypes DEF SyncStep
<1>7. CASE Elapse \/ \E u \in Uid : OutsideMoves(u)
  BY <1>7, OtherTypes
<1>8. ASSUME NEW p \in Proc, \/ OpStep(p) \/ Exit(p)
                             \/ \E u \in Uid : MoveOnServer(p, u) \/ MoveAnswerLost(p, u)
      PROVE  Types'
  BY <1>8, OtherTypes
<1>9. CASE UNCHANGED vars
  BY <1>9, StutterTypes
<1> QED
  BY <1>1, <1>2, <1>3, <1>4, <1>5, <1>6, <1>7, <1>8, <1>9 DEF Next

-----------------------------------------------------------------------------
(* Steps that leave the cursor alone *)

\* Messages may leave, rows of absent messages may go, a flag may be written over.
Calm ==
  /\ box' \subseteq box /\ UNCHANGED <<arrived, mark, covered>>
  /\ jumped \subseteq jumped' /\ Rows' \subseteq Rows
  /\ \A u \in box' : /\ row[u] # "none" => row'[u] # "none"
                     /\ row[u] = "current" /\ u \notin jumped' => row'[u] = "current"

LEMMA CalmKeeps ==
  ASSUME Calm, NEW k, NEW s, SyncHolds(k, s)
  PROVE  SyncHolds(k, s)'
<1> USE DEF Calm
<1>1. s.stage = "read" => ReadHolds(k, s)'
  BY DEF SyncHolds, ReadHolds, Reaches
<1>2. k = Window /\ ~s.full => DeltaHolds(s)'
  BY DEF SyncHolds, DeltaHolds, Reaches
<1> QED
  BY <1>1, <1>2 DEF SyncHolds

LEMMA CalmIndex ==
  ASSUME Calm, IndexHolds, Honest, DatedListComplete
  PROVE  IndexHolds' /\ Honest' /\ DatedListComplete'
<1> USE DEF Calm
<1>1. IndexHolds'
  BY DEF IndexHolds
<1>2. Honest'
  BY DEF Honest, Reaches
<1>3. DatedListComplete'
  BY DEF DatedListComplete
<1> QED
  BY <1>1, <1>2, <1>3

-----------------------------------------------------------------------------
(* Steps that change a message *)

Changes(u) ==
  /\ Changed(u)
  /\ \/ box' = box /\ arrived' = arrived
     \/ box' = box \cup {u} /\ arrived' = u /\ u = arrived + 1
  /\ UNCHANGED <<covered, jumped>> /\ Rows' = Rows
  /\ \A v \in Uid \ {u} : row'[v] = row[v]

LEMMA ChangeKeeps ==
  ASSUME Types, NEW u \in Uid, Changes(u), NEW k \in Key, NEW s \in Sync, SyncHolds(k, s),
         NEW t, t = Touched(k, s, u)
  PROVE  SyncHolds(k, t)'
<1>f. /\ t.stage = s.stage /\ t.full = s.full /\ t.known = s.known
      /\ t.there = s.there /\ t.heads = s.heads /\ t.gone = s.gone
      /\ t.covered = s.covered /\ t.overtaken = s.overtaken
      /\ t.base = IF IsDelta(k, s) THEN s.base \cup {u} ELSE s.base
      /\ t.mark = IF s.stage = "asked" THEN s.mark ELSE s.mark \cup {u}
      /\ t.old = s.old \cup (s.heads \cap {u})
  BY DEF Touched, Sync
<1>w. /\ box' \subseteq box \cup {u} /\ box \subseteq box'
      /\ 1..arrived \subseteq 1..arrived'
      /\ u \in box \/ u \notin box' \/ u \notin 1..arrived
  BY Bounds DEF Changes, Types, FolderType
<1>1. t.known \cup t.heads \cup t.gone \subseteq 1..arrived'
  BY <1>f, <1>w DEF SyncHolds
<1>2. t.gone \cap box' = {}
  BY <1>f, <1>w DEF SyncHolds
<1>3. t.old \subseteq t.mark
  BY <1>f DEF SyncHolds
<1>4. t.stage # "asked" => box' \ t.mark \subseteq t.there
  BY <1>f, <1>w DEF SyncHolds
<1>5. t.stage = "read" => ReadHolds(k, t)'
  BY <1>f, <1>w DEF SyncHolds, ReadHolds
<1>6. ASSUME k = Window, ~t.full PROVE DeltaHolds(t)'
  <2>1. DeltaHolds(s)
    BY <1>f, <1>6 DEF SyncHolds
  <2>2. mark # NoState /\ mark' = mark \cup {u} /\ mark' # NoState
    <3>1. mark # NoState /\ mark \in SUBSET Uid
      BY <2>1 DEF DeltaHolds, Types, StateType
    <3>2. mark' = mark \cup {u}
      BY <3>1 DEF Changes, Changed, With
    <3>3. mark' \in SUBSET (1..MaxUid)
      BY <3>1, <3>2, Bounds
    <3> QED
      BY <3>1, <3>2, <3>3, MailIndexAssumption
  <2>3. ASSUME ~t.overtaken, t.stage # "read" PROVE mark' \subseteq t.base
    BY <1>f, <1>6, <2>1, <2>2, <2>3 DEF DeltaHolds, IsDelta
  <2>4. ASSUME ~t.overtaken, NEW v \in box' \ (mark' \cup jumped'), Reaches(t.known, v)
        PROVE  row'[v] = "current"
    <3>1. v # u /\ v \in box /\ v \notin mark \cup jumped /\ v \in Uid
      BY <1>w, <2>2, <2>4, FolderUids DEF Changes, Types
    <3> QED
      BY <1>f, <2>1, <2>4, <3>1 DEF DeltaHolds, Changes
  <2>5. ASSUME ~t.overtaken, t.stage \in {"fetched", "read"},
               NEW v \in mark' \cap box', Reaches(t.known, v)
        PROVE  v \in t.heads \cup t.mark
    <3>1. CASE v = u
      BY <1>f, <2>5, <3>1
    <3>2. CASE v # u
      BY <1>f, <1>w, <2>1, <2>2, <2>5, <3>2 DEF DeltaHolds
    <3> QED
      BY <3>1, <3>2
  <2> QED
    BY <1>f, <2>1, <2>2, <2>3, <2>4, <2>5 DEF DeltaHolds, Changes, Reaches
<1> QED
  BY <1>f, <1>1, <1>2, <1>3, <1>4, <1>5, <1>6 DEF SyncHolds

LEMMA ChangeIndex ==
  ASSUME Types, NEW u \in Uid, Changes(u), IndexHolds, Honest, DatedListComplete
  PROVE  IndexHolds' /\ Honest' /\ DatedListComplete'
<1>w. /\ box' \subseteq box \cup {u} /\ 1..arrived \subseteq 1..arrived' /\ box' \subseteq Uid
  BY FolderUids, Bounds DEF Changes, Types, FolderType
<1>1. mark = NoState => mark' = NoState
  BY DEF Changes, Changed, With
<1>2. mark # NoState => mark' = mark \cup {u} /\ mark' # NoState
  <2>1. ASSUME mark # NoState PROVE mark' = mark \cup {u} /\ mark' \in SUBSET (1..MaxUid)
    BY <2>1, Bounds DEF Changes, Changed, With, Types, StateType
  <2> QED
    BY <2>1, MailIndexAssumption
<1>3. IndexHolds'
  BY <1>w, <1>1, <1>2 DEF IndexHolds, Changes
<1>4. Honest'
  BY <1>w, <1>1, <1>2 DEF Honest, Changes, Reaches
<1>5. DatedListComplete'
  BY <1>w, <1>1, <1>2 DEF DatedListComplete, Changes
<1> QED
  BY <1>3, <1>4, <1>5

-----------------------------------------------------------------------------
(* Steps of a sync up to its answer *)

LEMMA BecomesHolds ==
  ASSUME SyncsHold, Calm, NEW p \in Proc, NEW k \in Key, NEW t, Becomes(p, k, t),
         t # NoSync => SyncHolds(k, t)'
  PROVE  SyncsHold'
<1> SUFFICES ASSUME NEW q \in Proc, NEW j \in Key, NEW r, r = sync'[q][j], r # NoSync
             PROVE  SyncHolds(j, r)'
  BY DEF SyncsHold
<1>1. CASE q = p /\ j = k
  <2>1. r = t /\ j = k
    BY <1>1 DEF Becomes
  <2> QED
    BY <2>1
<1>2. CASE ~ (q = p /\ j = k)
  <2>1. r = sync[q][j]
    BY <1>2 DEF Becomes
  <2>2. SyncHolds(j, r)
    BY <2>1 DEF SyncsHold
  <2> QED
    BY <2>2, CalmKeeps
<1> QED
  BY <1>1, <1>2

\* Nothing changes but the syncs and what belongs to no message.
Still == UNCHANGED <<box, arrived, row, mark, covered, jumped>>

LEMMA StillIsCalm == Still => Calm
BY DEF Still, Calm, Rows

LEMMA AskedKeeps ==
  ASSUME Types, IndexHolds, Honest, Still, NEW k \in Key, NEW full \in BOOLEAN,
         NEW t, t = Asked(k, full, mark, Rows)
  PROVE  SyncHolds(k, t)'
<1> DEFINE delta == k = Window /\ ~full /\ mark # NoState
<1>f. /\ t.stage = "asked" /\ t.full = (k = Window /\ ~delta)
      /\ t.base = (IF delta THEN mark ELSE {}) /\ t.known = (IF delta THEN Rows ELSE {})
      /\ t.mark = {} /\ t.heads = {} /\ t.old = {} /\ t.gone = {} /\ t.covered = Never
      /\ t.overtaken = FALSE
  BY DEF Asked
<1> HIDE DEF delta
<1>1. t.known \cup t.heads \cup t.gone \subseteq 1..arrived'
  BY <1>f DEF IndexHolds, Still
<1>2. k = Window /\ ~t.full => DeltaHolds(t)'
  <2> SUFFICES ASSUME k = Window, ~t.full PROVE DeltaHolds(t)'
    OBVIOUS
  <2>1. delta /\ mark # NoState
    BY <1>f DEF delta
  <2>2. t.known = Rows /\ t.base = mark
    BY <1>f, <2>1
  <2>3. mark' = mark /\ box' = box /\ jumped' = jumped /\ row' = row /\ Rows' = Rows
    BY DEF Still, Rows
  <2>4. \A u \in box \ (mark \cup jumped) : Reaches(t.known, u) => row[u] = "current"
    BY <2>1, <2>2 DEF Honest
  <2> QED
    BY <1>f, <2>1, <2>2, <2>3, <2>4 DEF DeltaHolds
<1> QED
  BY <1>f, <1>1, <1>2 DEF SyncHolds, delta

LEMMA SelectKeeps ==
  ASSUME Still, NEW k \in Key, NEW s \in Sync, SyncHolds(k, s), s.stage = "asked",
         NEW t, t = [s EXCEPT !.stage = "selected", !.there = box]
  PROVE  SyncHolds(k, t)'
<1>f. /\ t.stage = "selected" /\ t.there = box /\ t.full = s.full /\ t.known = s.known
      /\ t.heads = s.heads /\ t.gone = s.gone /\ t.covered = s.covered
      /\ t.overtaken = s.overtaken /\ t.base = s.base /\ t.mark = s.mark /\ t.old = s.old
  BY DEF Sync
<1>1. k = Window /\ ~t.full => DeltaHolds(t)'
  BY <1>f DEF SyncHolds, DeltaHolds, Still, Rows
<1> QED
  BY <1>f, <1>1 DEF SyncHolds, Still

LEMMA SearchKeeps ==
  ASSUME Still, NEW k \in Key, NEW s \in Sync, SyncHolds(k, s), s.stage = "fetched",
         NEW t, t = [s EXCEPT !.stage = "read", !.base = {}, !.gone = s.known \ box]
  PROVE  SyncHolds(k, t)'
<1>f. /\ t.stage = "read" /\ t.there = s.there /\ t.full = s.full /\ t.known = s.known
      /\ t.heads = s.heads /\ t.gone = s.known \ box /\ t.covered = s.covered
      /\ t.overtaken = s.overtaken /\ t.base = {} /\ t.mark = s.mark /\ t.old = s.old
  BY DEF Sync
<1>1. k = Window /\ ~t.full => DeltaHolds(t)'
  BY <1>f DEF SyncHolds, DeltaHolds, Still, Rows
<1>2. ReadHolds(k, t)'
  BY <1>f DEF SyncHolds, ReadHolds
<1> QED
  BY <1>f, <1>1, <1>2 DEF SyncHolds, Still

LEMMA RetryKeeps ==
  ASSUME Still, NEW k \in Key, NEW s \in Sync, SyncHolds(k, s),
         s.stage \in {"selected", "fetched"},
         NEW t, t = [s EXCEPT !.stage = "asked", !.mark = {}, !.heads = {}, !.old = {}]
  PROVE  SyncHolds(k, t)'
<1>f. /\ t.stage = "asked" /\ t.there = s.there /\ t.full = s.full /\ t.known = s.known
      /\ t.heads = {} /\ t.gone = s.gone /\ t.covered = s.covered
      /\ t.overtaken = s.overtaken /\ t.base = s.base /\ t.mark = {} /\ t.old = {}
  BY DEF Sync
<1>1. k = Window /\ ~t.full => DeltaHolds(t)'
  BY <1>f DEF SyncHolds, DeltaHolds, Still, Rows
<1> QED
  BY <1>f, <1>1 DEF SyncHolds, Still

\* A window, a read by date and a delta.
LEMMA FetchKeeps ==
  ASSUME Types, Still, NEW k \in Key, NEW s \in Sync, SyncHolds(k, s), s.stage = "selected",
         NEW stage, NEW full \in BOOLEAN, NEW heads, NEW reach,
         LET dated == {u \in box : u >= k} IN
           \/ /\ k # Window /\ stage = "read" /\ full = FALSE
              /\ heads = Newest(dated) /\ reach = Reach(k, dated)
           \/ /\ k = Window /\ stage = "read" /\ full = TRUE
              /\ heads = Newest(s.there) \cap box /\ reach = Never
           \/ /\ k = Window /\ ~s.full /\ stage = "fetched" /\ full = FALSE
              /\ heads = Delta(s) /\ reach = Never,
         NEW t, t = [s EXCEPT !.stage = stage, !.full = full, !.heads = heads,
                              !.covered = reach,
                              !.base = IF stage = "read" THEN {} ELSE s.base]
  PROVE  SyncHolds(k, t)'
<1> DEFINE dated == {u \in box : u >= k}
<1>f. /\ t.stage = stage /\ t.full = full /\ t.heads = heads /\ t.covered = reach
      /\ t.base = (IF stage = "read" THEN {} ELSE s.base)
      /\ t.there = s.there /\ t.known = s.known /\ t.gone = s.gone
      /\ t.overtaken = s.overtaken /\ t.mark = s.mark /\ t.old = s.old
  BY DEF Sync
<1>u. /\ box \subseteq 1..arrived /\ box \subseteq Uid /\ dated \subseteq Uid
      /\ s.there \subseteq Uid
  BY FolderUids DEF Types, FolderType, Sync
<1>1. CASE k # Window /\ stage = "read" /\ full = FALSE
           /\ heads = Newest(dated) /\ reach = Reach(k, dated)
  <2>1. heads \subseteq dated /\ \A u \in dated : Reaches(heads, u) => u \in heads
    BY <1>1, <1>u, NewestOf
  <2>2. \A u \in box : Reaches(heads, u) => u \in heads
    <3>1. \A u \in box : Reaches(heads, u) => u >= k
      <4>1. k \in Nat /\ \A u \in box : u \in Nat
        BY <1>u, KeyFacts, Bounds
      <4>2. \A v \in heads : v \in Nat /\ v >= k
        BY <2>1, <4>1
      <4> QED
        BY <4>1, <4>2 DEF Reaches
    <3> QED
      BY <2>1, <3>1
  <2>3. \A u \in box : u >= reach => u \in heads
    <3>1. CASE heads = dated
      BY <1>1, <3>1 DEF Reach
    <3>2. CASE heads # dated
      <4>1. heads # {} /\ heads \in SUBSET Nat
        BY <1>1, <1>u, <2>1, <3>2, NewestOf, Bounds
      <4>2. reach = Least(heads) /\ Least(heads) \in heads
        BY <1>1, <3>2, <4>1, LeastOf DEF Reach
      <4> QED
        BY <2>2, <4>2 DEF Reaches
    <3> QED
      BY <3>1, <3>2
  <2>4. ReadHolds(k, t)'
    BY <1>1, <1>f, <2>2, <2>3 DEF ReadHolds, Still
  <2> QED
    BY <1>1, <1>f, <1>u, <2>1, <2>4 DEF SyncHolds, Still
<1>2. CASE k = Window /\ stage = "read" /\ full = TRUE
           /\ heads = Newest(s.there) \cap box /\ reach = Never
  <2>1. \A u \in s.there : Reaches(Newest(s.there), u) => u \in Newest(s.there)
    BY <1>u, NewestOf
  <2>2. \A u \in box \ s.mark : Reaches(heads, u) => u \in heads
    BY <1>2, <2>1 DEF SyncHolds, Reaches
  <2>3. ReadHolds(k, t)'
    BY <1>2, <1>f, <2>2 DEF ReadHolds, Still
  <2> QED
    BY <1>2, <1>f, <1>u, <2>3 DEF SyncHolds, Still
<1>3. CASE k = Window /\ ~s.full /\ stage = "fetched" /\ full = FALSE
           /\ heads = Delta(s) /\ reach = Never
  <2>1. DeltaHolds(s)
    BY <1>3 DEF SyncHolds
  <2>2. heads = {u \in box \cap s.base : s.known = {} \/ Reaches(s.known, u)}
    <3>1. s.known \in SUBSET Nat /\ \A u \in box : u \in Nat
      BY <1>u, Bounds DEF Sync
    <3>2. s.known # {} => \A u \in box : Reaches(s.known, u) <=> u >= Least(s.known)
      BY <3>1, ReachesLeast
    <3> QED
      BY <1>3, <3>2 DEF Delta
  <2>3. DeltaHolds(t)'
    BY <1>3, <1>f, <2>1, <2>2 DEF DeltaHolds, Still, Rows
  <2> QED
    BY <1>3, <1>f, <1>u, <2>2, <2>3 DEF SyncHolds, Still
<1> QED
  BY <1>1, <1>2, <1>3

-----------------------------------------------------------------------------
(* The answer of a sync is applied *)

LEMMA OvertakenKeeps ==
  ASSUME NEW p \in Proc, NEW k \in Key, Apply(p, k), sync[p][k] \in Sync,
         NEW j \in Key, NEW s \in Sync, SyncHolds(j, s),
         NEW t, t = [s EXCEPT !.overtaken = TRUE]
  PROVE  SyncHolds(j, t)'
<1>f. /\ t.stage = s.stage /\ t.full = s.full /\ t.known = s.known
      /\ t.there = s.there /\ t.heads = s.heads /\ t.gone = s.gone
      /\ t.covered = s.covered /\ t.overtaken = TRUE
      /\ t.base = s.base /\ t.mark = s.mark /\ t.old = s.old
  BY DEF Sync
<1>1. box' = box /\ arrived' = arrived
  BY DEF Apply, serverVars
<1>2. mark' # NoState
  <2>1. mark' \in SUBSET (1..MaxUid)
    BY Bounds DEF Apply, Sync
  <2> QED
    BY <2>1, MailIndexAssumption
<1>3. j = Window /\ ~t.full => DeltaHolds(t)'
  BY <1>f, <1>2 DEF SyncHolds, DeltaHolds
<1>4. t.stage = "read" => ReadHolds(j, t)'
  BY <1>f, <1>1 DEF SyncHolds, ReadHolds
<1> QED
  BY <1>f, <1>1, <1>3, <1>4 DEF SyncHolds

LEMMA EndsKeeps ==
  ASSUME NEW p \in Proc, NEW k \in Key, NEW t, t = Ends(p, k, Rows'), t # NoSync
  PROVE  SyncHolds(k, t)'
<1>1. k = Window /\ t = Asked(k, TRUE, mark', Rows')
  BY DEF Ends
<1> DEFINE delta == k = Window /\ ~TRUE /\ mark' # NoState
<1>2. /\ t.stage = "asked" /\ t.full = (k = Window /\ ~delta)
      /\ t.base = (IF delta THEN mark' ELSE {}) /\ t.known = (IF delta THEN Rows' ELSE {})
      /\ t.mark = {} /\ t.heads = {} /\ t.old = {} /\ t.gone = {} /\ t.covered = Never
      /\ t.overtaken = FALSE
  BY <1>1 DEF Asked
<1>3. ~ delta
  OBVIOUS
<1> HIDE DEF delta
<1>f. /\ t.stage = "asked" /\ t.full = TRUE
      /\ t.base = {} /\ t.known = {} /\ t.mark = {} /\ t.heads = {} /\ t.old = {}
      /\ t.gone = {} /\ t.covered = Never /\ t.overtaken = FALSE
  BY <1>1, <1>2, <1>3
<1> QED
  BY <1>1, <1>f DEF SyncHolds

LEMMA ApplySyncs ==
  ASSUME Types, SyncsHold, NEW p \in Proc, NEW k \in Key, Apply(p, k)
  PROVE  SyncsHold'
<1> SUFFICES ASSUME NEW q \in Proc, NEW j \in Key, NEW r, r = sync'[q][j], r # NoSync
             PROVE  SyncHolds(j, r)'
  BY DEF SyncsHold
<1>1. sync[p][k] \in Sync /\ SyncType
  BY DEF Apply, Types, SyncType
<1>2. r = IF q = p /\ j = k THEN Ends(p, k, Rows')
          ELSE IF sync[q][j] = NoSync THEN NoSync
          ELSE [sync[q][j] EXCEPT !.overtaken = TRUE]
  <2>1. \A i \in Proc : \A l \in Key :
          sync'[i][l] = IF i = p /\ l = k THEN Ends(p, k, Rows')
                        ELSE IF sync[i][l] = NoSync THEN NoSync
                        ELSE [sync[i][l] EXCEPT !.overtaken = TRUE]
    BY SMTT(30), <1>1, ApplyShape, Zenon
  <2> QED
    BY <2>1
<1>3. CASE q = p /\ j = k
  <2>1. r = Ends(p, k, Rows') /\ j = k
    BY <1>2, <1>3
  <2> QED
    BY <2>1, EndsKeeps
<1>4. CASE ~ (q = p /\ j = k)
  <2>1. sync[q][j] # NoSync /\ r = [sync[q][j] EXCEPT !.overtaken = TRUE]
    BY <1>2, <1>4
  <2>2. sync[q][j] \in Sync /\ SyncHolds(j, sync[q][j])
    BY <1>1, <2>1 DEF SyncType, SyncsHold
  <2> QED
    BY <1>1, <2>1, <2>2, OvertakenKeeps
<1> QED
  BY <1>3, <1>4

\* What the answer makes of each row.
LEMMA ApplyRow ==
  ASSUME Types, NEW p \in Proc, NEW k \in Key, Apply(p, k), SyncHolds(k, sync[p][k])
  PROVE  LET s == sync[p][k] IN
         /\ s \in Sync /\ s.stage = "read" /\ mark' = s.mark /\ mark' # NoState
         /\ Rows' \subseteq (IF s.full THEN {} ELSE Rows) \cup s.heads
         /\ \A u \in box : /\ u \in s.heads => row'[u] # "none"
                           /\ u \in s.heads \ s.mark => row'[u] = "current"
                           /\ u \notin s.heads /\ ~s.full => row'[u] = row[u]
<1> DEFINE s == sync[p][k]
<1>1. s \in Sync /\ s.stage = "read" /\ mark' = s.mark
  BY DEF Apply, Types, SyncType
<1>2. mark' # NoState
  <2>1. mark' \in SUBSET (1..MaxUid)
    BY <1>1, Bounds DEF Sync
  <2> QED
    BY <2>1, MailIndexAssumption
<1>3. \A u \in Uid : row'[u] = IF u \in s.heads THEN IF u \in s.old THEN "old" ELSE "current"
                               ELSE IF s.full \/ u \in s.gone THEN "none" ELSE row[u]
  BY DEF Apply, Applied
<1>4. box \subseteq Uid
  BY FolderUids DEF Types
<1>5. s.gone \cap box = {} /\ s.old \subseteq s.mark
  BY DEF SyncHolds
<1>6. Rows' \subseteq (IF s.full THEN {} ELSE Rows) \cup s.heads
  BY <1>3 DEF Rows
<1>7. ASSUME NEW u \in box
      PROVE  /\ u \in s.heads => row'[u] # "none"
             /\ u \in s.heads \ s.mark => row'[u] = "current"
             /\ u \notin s.heads /\ ~s.full => row'[u] = row[u]
  BY <1>3, <1>4, <1>5, <1>7
<1> QED
  BY <1>1, <1>2, <1>6, <1>7

\* A window replaces what the index said; anything else adds to it.
LEMMA ApplyAnswers ==
  ASSUME Types, IndexHolds, Honest, DatedListComplete,
         NEW p \in Proc, NEW k \in Key, Apply(p, k), SyncHolds(k, sync[p][k]),
         sync[p][k].full \/ k # Window
  PROVE  Honest' /\ DatedListComplete'
<1> DEFINE s == sync[p][k]
<1>1. /\ s \in Sync /\ s.stage = "read" /\ mark' = s.mark /\ mark' # NoState
      /\ Rows' \subseteq (IF s.full THEN {} ELSE Rows) \cup s.heads
      /\ \A u \in box : /\ u \in s.heads => row'[u] # "none"
                        /\ u \in s.heads \ s.mark => row'[u] = "current"
                        /\ u \notin s.heads /\ ~s.full => row'[u] = row[u]
  BY ApplyRow
<1>2. box' = box /\ jumped' = (IF mark = NoState THEN jumped ELSE Passed(k, s))
      /\ covered' = (IF s.full THEN Never ELSE Earlier(covered, s.covered))
  BY DEF Apply, serverVars
<1>3. ~s.full /\ mark # NoState => jumped' = (jumped \cup mark) \ s.heads
  BY <1>2 DEF Passed
<1>4. ReadHolds(k, s)
  BY <1>1 DEF SyncHolds
<1>5. \A u \in box \ s.mark : Reaches(s.heads, u) => u \in s.heads
  BY <1>4 DEF ReadHolds
<1>6. mark = NoState => Rows = {} /\ covered = Never
  BY DEF IndexHolds
<1> HIDE DEF s
<1>7. ASSUME NEW u \in box \ (s.mark \cup jumped'), Reaches(Rows', u)
      PROVE  row'[u] = "current"
  <2>1. CASE u \in s.heads
    BY <1>1, <1>7, <2>1
  <2>2. CASE u \notin s.heads
    <3>1. ~s.full /\ Reaches(Rows, u)
      BY <1>1, <1>5, <1>7, <2>2 DEF Reaches
    <3>2. mark # NoState /\ u \notin mark \cup jumped
      BY <1>3, <1>6, <1>7, <2>2, <3>1 DEF Reaches
    <3> QED
      BY <1>1, <1>7, <2>2, <3>1, <3>2 DEF Honest
  <2> QED
    BY <2>1, <2>2
<1>8. ASSUME NEW u \in box \ (s.mark \cup jumped'), u >= covered'
      PROVE  row'[u] # "none"
  <2>1. u \in Nat /\ u < Never
    <3>1. u \in Uid
      BY FolderUids DEF Types
    <3> QED
      BY <3>1, Bounds
  <2>2. ~s.full /\ k # Window
    BY <1>2, <1>8, <2>1, Bounds DEF s
  <2>3. CASE u \in s.heads
    BY <1>1, <2>3
  <2>4. CASE u \notin s.heads
    <3>1. ~ (u >= s.covered)
      BY <1>4, <1>8, <2>2, <2>4 DEF ReadHolds
    <3>2. u >= covered
      BY <1>2, <1>8, <2>2, <3>1 DEF Earlier
    <3>3. mark # NoState /\ u \notin mark \cup jumped
      BY <1>3, <1>6, <1>8, <2>1, <2>2, <2>4, <3>2, Bounds
    <3> QED
      BY <1>1, <1>8, <2>2, <2>4, <3>2, <3>3 DEF DatedListComplete
  <2> QED
    BY <2>3, <2>4
<1> QED
  BY <1>1, <1>2, <1>7, <1>8 DEF Honest, DatedListComplete

\* A delta takes the rows over as they are, unless another answer came between.
LEMMA ApplyDelta ==
  ASSUME Types, Honest, DatedListComplete,
         NEW p \in Proc, NEW k \in Key, Apply(p, k), SyncHolds(k, sync[p][k]),
         ~sync[p][k].full, k = Window
  PROVE  Honest' /\ DatedListComplete'
<1> DEFINE s == sync[p][k]
<1>1. /\ s \in Sync /\ s.stage = "read" /\ mark' = s.mark /\ mark' # NoState
      /\ Rows' \subseteq (IF s.full THEN {} ELSE Rows) \cup s.heads
      /\ \A u \in box : /\ u \in s.heads => row'[u] # "none"
                        /\ u \in s.heads \ s.mark => row'[u] = "current"
                        /\ u \notin s.heads /\ ~s.full => row'[u] = row[u]
  BY ApplyRow
<1>2. box' = box /\ jumped' = (IF mark = NoState THEN jumped ELSE Passed(k, s))
      /\ covered' = Earlier(covered, s.covered)
  BY DEF Apply, serverVars
<1>3. s.covered = Never /\ DeltaHolds(s)
  BY DEF SyncHolds
<1>4. mark # NoState
  BY <1>3 DEF DeltaHolds
<1>5. covered' = covered
  BY <1>2, <1>3, Bounds DEF Earlier, Types, StateType
<1>u. box \subseteq Uid /\ \A u \in box : u \in Nat
  <2>1. box \subseteq Uid
    BY FolderUids DEF Types
  <2> QED
    BY <2>1, Bounds
<1>6. CASE s.overtaken \/ s.known = {}
  <2>1. jumped' = (jumped \cup mark \cup (box \ Rows)) \ s.heads
    BY <1>2, <1>4, <1>6 DEF Passed
  <2>2. ASSUME NEW u \in box \ (s.mark \cup jumped') PROVE row'[u] = "current"
    <3>1. CASE u \in s.heads
      BY <1>1, <2>2, <3>1
    <3>2. CASE u \notin s.heads
      <4>1. u \in Rows /\ u \notin mark \cup jumped
        BY <2>1, <2>2, <3>2
      <4>2. Reaches(Rows, u)
        BY <1>u, <2>2, <4>1 DEF Reaches
      <4> QED
        BY <1>1, <1>4, <2>2, <3>2, <4>1, <4>2 DEF Honest
    <3> QED
      BY <3>1, <3>2
  <2> QED
    BY <1>1, <1>2, <2>2 DEF Honest, DatedListComplete
<1>7. CASE ~s.overtaken /\ s.known # {}
  <2>1. jumped' = (jumped \cup {u \in mark : u < Least(s.known)}) \ s.heads
    BY <1>2, <1>4, <1>7 DEF Passed
  <2>2. s.known \in SUBSET Nat
    BY <1>1, Bounds DEF Sync
  <2>3. \A u \in box : Reaches(s.known, u) <=> u >= Least(s.known)
    BY <1>u, <1>7, <2>2, ReachesLeast
  <2>4. Least(s.known) \in Nat
    BY <1>7, <2>2, LeastOf
  <2>5. ASSUME NEW u \in box \ (s.mark \cup jumped'), u \notin s.heads
        PROVE  u \notin mark \cup jumped
    <3>1. u \notin jumped /\ (u \in mark => ~ (u < Least(s.known)))
      BY <2>1, <2>5
    <3>2. u \in mark => Reaches(s.known, u)
      BY <1>u, <2>3, <2>4, <2>5, <3>1
    <3>3. u \in mark => u \in s.heads \cup s.mark
      BY <1>1, <1>3, <1>7, <2>5, <3>2 DEF DeltaHolds
    <3> QED
      BY <2>5, <3>1, <3>3
  <2>6. ASSUME NEW u \in box \ (s.mark \cup jumped'), Reaches(Rows', u)
        PROVE  row'[u] = "current"
    <3>1. CASE u \in s.heads
      BY <1>1, <2>6, <3>1
    <3>2. CASE u \notin s.heads
      <4>1. PICK v \in Rows' : u >= v
        BY <2>6 DEF Reaches
      <4>2. Reaches(s.known, u)
        <5>1. CASE v \in s.heads
          <6>1. v \in Nat /\ \E w \in s.known : v >= w
            <7>1. v \in Uid
              BY <1>1, <5>1 DEF Sync
            <7> QED
              BY <1>3, <1>7, <5>1, <7>1, Bounds DEF DeltaHolds, Reaches
          <6> QED
            BY <1>u, <2>2, <2>6, <4>1, <6>1 DEF Reaches
        <5>2. CASE v \in Rows
          BY <1>3, <1>7, <4>1, <5>2 DEF DeltaHolds, Reaches
        <5> QED
          BY <1>1, <4>1, <5>1, <5>2
      <4>3. row[u] = "current"
        BY <1>3, <1>7, <2>5, <2>6, <3>2, <4>2 DEF DeltaHolds
      <4> QED
        BY <1>1, <2>6, <3>2, <4>3
    <3> QED
      BY <3>1, <3>2
  <2>7. ASSUME NEW u \in box \ (s.mark \cup jumped'), u >= covered'
        PROVE  row'[u] # "none"
    <3>1. CASE u \in s.heads
      BY <1>1, <2>7, <3>1
    <3>2. CASE u \notin s.heads
      BY <1>1, <1>4, <1>5, <2>5, <2>7, <3>2 DEF DatedListComplete
    <3> QED
      BY <3>1, <3>2
  <2> QED
    BY <1>1, <1>2, <2>6, <2>7 DEF Honest, DatedListComplete
<1> QED
  BY <1>6, <1>7

LEMMA ApplyIndex ==
  ASSUME Types, IndexHolds, Honest, DatedListComplete,
         NEW p \in Proc, NEW k \in Key, Apply(p, k), SyncHolds(k, sync[p][k])
  PROVE  IndexHolds' /\ Honest' /\ DatedListComplete'
<1>1. Honest' /\ DatedListComplete'
  BY ApplyAnswers, ApplyDelta
<1>2. Rows' \subseteq Rows \cup sync[p][k].heads /\ mark' # NoState
  BY ApplyRow
<1>3. sync[p][k].heads \subseteq 1..arrived /\ arrived' = arrived
  BY DEF SyncHolds, Apply, serverVars
<1>4. IndexHolds'
  BY <1>2, <1>3 DEF IndexHolds
<1> QED
  BY <1>1, <1>4

-----------------------------------------------------------------------------
(* Every step *)

\* A message moved for this product stays out of the folder: no uid is given twice.
LEMMA MovesKeep ==
  ASSUME Types, MovesHold,
         \/ arrived' = arrived /\ box' \subseteq box
         \/ arrived' = arrived + 1 /\ box' = box \cup {arrived'},
         \A p \in Proc : op'[p] # NoOp /\ op'[p].kind = "move" =>
           \/ op[p] # NoOp /\ op[p].kind = "move" /\ op'[p].uid = op[p].uid
           \/ op'[p].uid \in box \ box' /\ arrived' = arrived
  PROVE  MovesHold'
<1> SUFFICES ASSUME NEW p \in Proc, op'[p] # NoOp, op'[p].kind = "move"
             PROVE  op'[p].uid <= arrived' /\ op'[p].uid \notin box'
  BY DEF MovesHold
<1>1. arrived \in Nat /\ box \subseteq 1..arrived
  BY FolderUids DEF Types, FolderType
<1>2. CASE op[p] # NoOp /\ op[p].kind = "move" /\ op'[p].uid = op[p].uid
  <2>1. op[p].uid <= arrived /\ op[p].uid \notin box
    BY <1>2 DEF MovesHold
  <2>2. op[p].uid \in Nat
    BY <1>2, Bounds DEF Types, OpType, Op
  <2>3. CASE arrived' = arrived /\ box' \subseteq box
    <3>1. op'[p].uid <= arrived /\ op'[p].uid \notin box
      BY <1>2, <2>1
    <3> QED
      BY <2>3, <3>1
  <2>4. CASE arrived' = arrived + 1 /\ box' = box \cup {arrived'}
    <3>1. op[p].uid # arrived' /\ op[p].uid <= arrived'
      BY <1>1, <2>1, <2>2, <2>4
    <3>2. op[p].uid \notin box'
      BY <2>1, <2>4, <3>1
    <3> QED
      BY <1>2, <3>1, <3>2
  <2> QED
    BY <2>3, <2>4
<1>3. CASE op'[p].uid \in box \ box' /\ arrived' = arrived
  <2>1. PICK x : x = op'[p].uid
    OBVIOUS
  <2>2. x \in 1..arrived /\ x \notin box'
    BY <1>1, <1>3, <2>1
  <2> QED
    BY <1>1, <1>3, <2>1, <2>2
<1> QED
  BY <1>2, <1>3

LEMMA CalmStep ==
  ASSUME Types, Held, Calm, MovesHold',
         \A q \in Proc : \A j \in Key : sync'[q][j] \in {sync[q][j], NoSync}
  PROVE  Held'
<1>1. IndexHolds' /\ Honest' /\ DatedListComplete'
  BY CalmIndex DEF Held
<1>2. SyncsHold'
  <2> SUFFICES ASSUME NEW q \in Proc, NEW j \in Key, NEW r, r = sync'[q][j], r # NoSync
               PROVE  SyncHolds(j, r)'
    BY DEF SyncsHold
  <2>1. r = sync[q][j]
    OBVIOUS
  <2>2. SyncHolds(j, r)
    BY <2>1 DEF Held, SyncsHold
  <2> QED
    BY <2>2, CalmKeeps
<1> QED
  BY <1>1, <1>2 DEF Held

LEMMA ChangeStep ==
  ASSUME Types, Held, NEW u \in Uid, Changes(u), MovesHold'
  PROVE  Held'
<1>1. IndexHolds' /\ Honest' /\ DatedListComplete'
  BY ChangeIndex DEF Held
<1>2. Touches(u)
  BY ChangedShape DEF Changes, Types
<1>3. SyncsHold'
  <2> SUFFICES ASSUME NEW q \in Proc, NEW j \in Key, NEW r, r = sync'[q][j], r # NoSync
               PROVE  SyncHolds(j, r)'
    BY DEF SyncsHold
  <2>1. sync[q][j] # NoSync /\ r = Touched(j, sync[q][j], u)
    BY <1>2 DEF Touches
  <2>2. sync[q][j] \in Sync /\ SyncHolds(j, sync[q][j])
    BY <2>1 DEF Held, SyncsHold, Types, SyncType
  <2> QED
    BY <2>1, <2>2, ChangeKeeps
<1> QED
  BY <1>1, <1>3 DEF Held

\* A sync takes a step of its own.
LEMMA BecomesStep ==
  ASSUME Types, Held, Still, UNCHANGED op, NEW p \in Proc, NEW k \in Key, NEW t,
         Becomes(p, k, t), t # NoSync => SyncHolds(k, t)'
  PROVE  Held'
<1>1. Calm
  BY StillIsCalm
<1>2. SyncsHold'
  BY <1>1, BecomesHolds DEF Held
<1>3. IndexHolds' /\ Honest' /\ DatedListComplete'
  BY <1>1, CalmIndex DEF Held
<1>4. MovesHold'
  BY DEF Still, Held, MovesHold
<1> QED
  BY <1>2, <1>3, <1>4 DEF Held

\* Messages come, and get other flags.
LEMMA MessageSteps ==
  ASSUME Types, Held,
         \/ Arrive
         \/ \E u \in Uid : OutsideFlags(u) \/ \E p \in Proc : FlagOnServer(p, u)
  PROVE  Held'
<1>o. \A p \in Proc : op[p] \in Op \cup {NoOp}
  BY DEF Types, OpType
<1>1. CASE Arrive
  <2>1. arrived' \in Uid /\ arrived' = arrived + 1
    BY <1>1, FolderUids DEF Arrive, Types
  <2>2. Changes(arrived')
    BY <1>1, <2>1 DEF Arrive, Changes, Rows
  <2>3. MovesHold'
    BY <1>1, MovesKeep DEF Arrive, Held
  <2> QED
    BY <2>1, <2>2, <2>3, ChangeStep
<1>2. ASSUME NEW u \in Uid, Aged(u) PROVE Rows' = Rows /\ \A v \in Uid \ {u} : row'[v] = row[v]
  BY <1>2 DEF Aged, Rows, Types, RowType
<1>3. ASSUME NEW u \in Uid, OutsideFlags(u) PROVE Held'
  <2>1. Changes(u)
    BY <1>2, <1>3 DEF OutsideFlags, Changes, serverVars
  <2>2. \A p \in Proc : op'[p] # NoOp /\ op'[p].kind = "move" =>
          op[p] # NoOp /\ op[p].kind = "move" /\ op'[p].uid = op[p].uid
    <3> SUFFICES ASSUME NEW p \in Proc, op'[p] # NoOp, op'[p].kind = "move"
                 PROVE  op[p] # NoOp /\ op[p].kind = "move" /\ op'[p].uid = op[p].uid
      OBVIOUS
    <3>1. op'[p] = IF op[p] # NoOp /\ op[p].uid = u
                   THEN [op[p] EXCEPT !.latest = FALSE] ELSE op[p]
      BY <1>3 DEF OutsideFlags, Overruled
    <3> QED
      BY <1>o, <3>1 DEF Op
  <2>3. MovesHold'
    BY <1>3, <2>2, MovesKeep DEF OutsideFlags, Held, serverVars
  <2> QED
    BY <2>1, <2>3, ChangeStep
<1>4. ASSUME NEW u \in Uid, NEW p \in Proc, FlagOnServer(p, u) PROVE Held'
  <2>1. Changes(u)
    BY <1>2, <1>4 DEF FlagOnServer, Changes, serverVars
  <2>2. \A q \in Proc : op'[q] # NoOp /\ op'[q].kind = "move" =>
          op[q] # NoOp /\ op[q].kind = "move" /\ op'[q].uid = op[q].uid
    <3> SUFFICES ASSUME NEW q \in Proc, op'[q] # NoOp, op'[q].kind = "move"
                 PROVE  op[q] # NoOp /\ op[q].kind = "move" /\ op'[q].uid = op[q].uid
      OBVIOUS
    <3>1. op'[q] = IF q = p THEN [kind |-> "flag", uid |-> u, latest |-> TRUE]
                   ELSE IF op[q] # NoOp /\ op[q].uid = u
                   THEN [op[q] EXCEPT !.latest = FALSE] ELSE op[q]
      BY <1>4 DEF FlagOnServer
    <3> QED
      BY <1>o, <3>1 DEF Op
  <2>3. MovesHold'
    BY <1>4, <2>2, MovesKeep DEF FlagOnServer, Held, serverVars
  <2> QED
    BY <2>1, <2>3, ChangeStep
<1> QED
  BY <1>1, <1>3, <1>4

\* Messages go, writes reach the index, time passes and a process dies.
LEMMA QuietSteps ==
  ASSUME Types, Held,
         \/ Elapse \/ UNCHANGED vars \/ \E u \in Uid : OutsideMoves(u)
         \/ \E p \in Proc : \/ OpStep(p) \/ Exit(p)
                            \/ \E u \in Uid : MoveOnServer(p, u) \/ MoveAnswerLost(p, u)
  PROVE  Held'
<1>m. MovesHold
  BY DEF Held
<1>1. CASE Elapse \/ UNCHANGED vars
  <2> USE <1>1 DEF Elapse, vars, serverVars, indexVars, boundVars
  <2>1. Calm
    BY DEF Calm, Rows
  <2>2. MovesHold'
    BY <1>m, MovesKeep
  <2>3. \A q \in Proc : \A j \in Key : sync'[q][j] \in {sync[q][j], NoSync}
    OBVIOUS
  <2> QED
    BY <2>1, <2>2, <2>3, CalmStep
<1>2. ASSUME NEW u \in Uid, OutsideMoves(u) \/ \E p \in Proc : MoveAnswerLost(p, u)
      PROVE  Held'
  <2> USE <1>2 DEF OutsideMoves, MoveAnswerLost, indexVars
  <2>1. Calm
    BY DEF Calm, Rows
  <2>2. MovesHold'
    BY <1>m, MovesKeep
  <2>3. \A q \in Proc : \A j \in Key : sync'[q][j] \in {sync[q][j], NoSync}
    OBVIOUS
  <2> QED
    BY <2>1, <2>2, <2>3, CalmStep
<1>3. ASSUME NEW p \in Proc, NEW u \in Uid, MoveOnServer(p, u) PROVE Held'
  <2> USE <1>3 DEF MoveOnServer, indexVars
  <2>1. Calm
    BY DEF Calm, Rows
  <2>2. MovesHold'
    <3>1. \A q \in Proc : op'[q] # NoOp /\ op'[q].kind = "move" =>
            \/ op[q] # NoOp /\ op[q].kind = "move" /\ op'[q].uid = op[q].uid
            \/ op'[q].uid \in box \ box' /\ arrived' = arrived
      BY DEF Types, OpType
    <3> QED
      BY <1>m, <3>1, MovesKeep
  <2>3. \A q \in Proc : \A j \in Key : sync'[q][j] \in {sync[q][j], NoSync}
    OBVIOUS
  <2> QED
    BY <2>1, <2>2, <2>3, CalmStep
<1>4. ASSUME NEW p \in Proc, Exit(p) PROVE Held'
  <2>1. Calm
    BY <1>4 DEF Exit, serverVars, indexVars, Calm, Rows
  <2>2. MovesHold'
    <3>1. \A q \in Proc : op'[q] # NoOp /\ op'[q].kind = "move" =>
            op[q] # NoOp /\ op[q].kind = "move" /\ op'[q].uid = op[q].uid
      BY <1>4 DEF Exit, Types, OpType
    <3> QED
      BY <1>4, <1>m, <3>1, MovesKeep DEF Exit, serverVars
  <2>3. \A q \in Proc : \A j \in Key : sync'[q][j] \in {sync[q][j], NoSync}
    BY <1>4, ExitShape DEF Types
  <2> QED
    BY <2>1, <2>2, <2>3, CalmStep
<1>5. ASSUME NEW p \in Proc, OpStep(p) PROVE Held'
  <2> USE <1>5 DEF OpStep, MoveApplied, FlagApplied, Answered, serverVars, boundVars
  <2>1. op[p] \in Op /\ row \in [Uid -> {"none", "current", "old"}]
    BY DEF Types, OpType, RowType
  <2>2. op[p].uid \in Uid
    BY <2>1 DEF Op
  <2>3. Calm
    <3>1. CASE MoveApplied(p)
      <4>1. op[p].uid \notin box
        BY <1>m, <3>1 DEF MovesHold
      <4>2. \A v \in Uid : v # op[p].uid => row'[v] = row[v]
        BY <2>1, <3>1
      <4>3. row'[op[p].uid] = "none"
        BY <2>1, <2>2, <3>1
      <4>4. Rows' \subseteq Rows
        BY <4>2, <4>3 DEF Rows
      <4>5. \A v \in box : row'[v] = row[v]
        BY <4>1, <4>2, FolderUids DEF Types
      <4> QED
        BY <3>1, <4>4, <4>5 DEF Calm
    <3>2. CASE FlagApplied(p)
      <4>1. \A v \in Uid : v # op[p].uid => row'[v] = row[v]
        BY <2>1, <3>2
      <4>2. row'[op[p].uid] = IF row[op[p].uid] = "none" THEN "none"
                              ELSE IF op[p].latest THEN "current" ELSE "old"
        BY <2>1, <2>2, <3>2
      <4>3. jumped \subseteq jumped' /\ (op[p].latest \/ op[p].uid \in jumped')
        BY <3>2
      <4>4. box \subseteq Uid
        BY FolderUids DEF Types
      <4>5. Rows' \subseteq Rows
        BY <4>1, <4>2 DEF Rows
      <4>6. ASSUME NEW v \in box
            PROVE  /\ row[v] # "none" => row'[v] # "none"
                   /\ row[v] = "current" /\ v \notin jumped' => row'[v] = "current"
        BY <4>1, <4>2, <4>3, <4>4, <4>6
      <4> QED
        BY <3>2, <4>3, <4>5, <4>6 DEF Calm
    <3> QED
      BY <3>1, <3>2
  <2>4. MovesHold'
    <3>1. \A q \in Proc : op'[q] # NoOp /\ op'[q].kind = "move" =>
            op[q] # NoOp /\ op[q].kind = "move" /\ op'[q].uid = op[q].uid
      BY DEF Types, OpType
    <3> QED
      BY <1>m, <3>1, MovesKeep
  <2>5. \A q \in Proc : \A j \in Key : sync'[q][j] \in {sync[q][j], NoSync}
    OBVIOUS
  <2> QED
    BY <2>3, <2>4, <2>5, CalmStep
<1> QED
  BY <1>1, <1>2, <1>3, <1>4, <1>5

\* A list asks for a sync, or joins one.
LEMMA FolderStep ==
  ASSUME Types, Held, Still, UNCHANGED op, NEW p \in Proc, NEW k \in Key,
         NEW full \in BOOLEAN, SyncFolder(p, k, full)
  PROVE  Held'
<1>a. PICK t : t = Asked(k, full, mark, Rows)
  OBVIOUS
<1>1. CASE Shaped /\ Becomes(p, k, Asked(k, full, mark, Rows))
  <2>1. SyncHolds(k, t)'
    BY <1>a, AskedKeeps DEF Held
  <2>2. Becomes(p, k, t)
    BY <1>1, <1>a
  <2> QED
    BY <2>1, <2>2, BecomesStep
<1>2. CASE UNCHANGED sync
  <2>1. MovesHold'
    BY DEF Still, Held, MovesHold
  <2> QED
    BY <1>2, <2>1, StillIsCalm, CalmStep
<1> QED
  BY <1>1, <1>2, FolderShape DEF Types

LEMMA ListSteps ==
  ASSUME Types, Held,
         Push \/ \E p \in Proc : \/ List(p) \/ ListRefreshed(p)
                                 \/ \E d \in Since : ListSince(p, d)
  PROVE  Held'
<1> USE KeyFacts DEF serverVars, indexVars, Still
<1>1. CASE Push
  BY <1>1, FolderStep, MailIndexAssumption DEF Push
<1>2. ASSUME NEW p \in Proc, List(p) PROVE Held'
  BY <1>2, FolderStep DEF List
<1>3. ASSUME NEW p \in Proc, ListRefreshed(p) PROVE Held'
  <2>1. Short(Rows, exists) \in BOOLEAN
    BY DEF Short
  <2> QED
    BY <1>3, <2>1, FolderStep DEF ListRefreshed
<1>4. ASSUME NEW p \in Proc, NEW d \in Since, ListSince(p, d) PROVE Held'
  <2>1. d \in Key
    OBVIOUS
  <2> QED
    BY <1>4, <2>1, FolderStep DEF ListSince
<1> QED
  BY <1>1, <1>2, <1>3, <1>4

LEMMA SyncSteps ==
  ASSUME Types, Held, NEW p \in Proc, NEW k \in Key,
         Select(p, k) \/ Fetch(p, k) \/ Search(p, k) \/ SyncRetries(p, k) \/ SyncFails(p, k)
  PROVE  Held'
<1>a. PICK s : s = sync[p][k]
  OBVIOUS
<1>b. s \in Sync /\ SyncHolds(k, s) /\ sync[p][k] # NoSync /\ SyncType
  <2>1. sync[p][k] # NoSync
    BY DEF Select, Fetch, Search, SyncRetries, SyncFails
  <2>2. SyncType
    BY DEF Types
  <2>3. sync[p][k] \in Sync
    BY <2>1, <2>2 DEF SyncType
  <2>4. SyncHolds(k, sync[p][k])
    BY <2>1 DEF Held, SyncsHold
  <2>5. SyncHolds(k, s)
    BY <1>a, <2>4
  <2> QED
    BY <1>a, <2>1, <2>2, <2>3, <2>5
<1>c. Still /\ UNCHANGED op
  BY DEF Select, Fetch, Fetched, Search, SyncRetries, SyncFails, Still, serverVars, indexVars
<1>1. CASE Select(p, k)
  <2>1. PICK t : t = [s EXCEPT !.stage = "selected", !.there = box]
    OBVIOUS
  <2>2. Becomes(p, k, t)
    BY <1>a, <1>b, <1>1, <2>1, SelectShape
  <2>3. SyncHolds(k, t)'
    BY <1>a, <1>b, <1>c, <1>1, <2>1, SelectKeeps DEF Select
  <2> QED
    BY <1>c, <2>2, <2>3, BecomesStep
<1>2. CASE Search(p, k)
  <2>1. PICK t : t = [s EXCEPT !.stage = "read", !.base = {}, !.gone = s.known \ box]
    OBVIOUS
  <2>2. Becomes(p, k, t)
    BY <1>a, <1>b, <1>2, <2>1, SearchShape
  <2>3. SyncHolds(k, t)'
    BY <1>a, <1>b, <1>c, <1>2, <2>1, SearchKeeps DEF Search
  <2> QED
    BY <1>c, <2>2, <2>3, BecomesStep
<1>3. CASE SyncRetries(p, k)
  <2>1. PICK t : t = [s EXCEPT !.stage = "asked", !.mark = {}, !.heads = {}, !.old = {}]
    OBVIOUS
  <2>2. Becomes(p, k, t)
    BY <1>a, <1>b, <1>3, <2>1, RetryShape
  <2>3. SyncHolds(k, t)'
    BY <1>a, <1>b, <1>c, <1>3, <2>1, RetryKeeps DEF SyncRetries
  <2> QED
    BY <1>c, <2>2, <2>3, BecomesStep
<1>4. CASE SyncFails(p, k)
  <2>1. PICK t : t = NoSync
    OBVIOUS
  <2>2. Becomes(p, k, t)
    BY <1>b, <1>4, <2>1, FailShape
  <2> QED
    BY <1>c, <2>1, <2>2, BecomesStep
<1>5. CASE Fetch(p, k)
  <2>1. s.stage = "selected"
    BY <1>a, <1>5 DEF Fetch
  <2>2. PICK dated : dated = {u \in box : u >= k}
    OBVIOUS
  <2>3. ASSUME NEW stage, NEW full \in BOOLEAN, NEW heads, NEW reach,
               Fetched(p, k, stage, full, heads, reach),
               \/ /\ k # Window /\ stage = "read" /\ full = FALSE
                  /\ heads = Newest(dated) /\ reach = Reach(k, dated)
               \/ /\ k = Window /\ stage = "read" /\ full = TRUE
                  /\ heads = Newest(s.there) \cap box /\ reach = Never
               \/ /\ k = Window /\ ~s.full /\ stage = "fetched" /\ full = FALSE
                  /\ heads = Delta(s) /\ reach = Never
        PROVE  Held'
    <3>1. PICK t : t = [s EXCEPT !.stage = stage, !.full = full, !.heads = heads,
                                 !.covered = reach,
                                 !.base = IF stage = "read" THEN {} ELSE s.base]
      OBVIOUS
    <3>2. Becomes(p, k, t)
      BY <1>a, <1>b, <2>3, <3>1, FetchedShape
    <3>3. SyncHolds(k, t)'
      BY ZenonT(30), <1>b, <1>c, <2>1, <2>2, <2>3, <3>1, FetchKeeps
    <3> QED
      BY <1>c, <3>2, <3>3, BecomesStep
  <2>4. CASE k # Window /\ Fetched(p, k, "read", FALSE, Newest(dated), Reach(k, dated))
    <3>1. PICK heads, reach : heads = Newest(dated) /\ reach = Reach(k, dated)
      OBVIOUS
    <3> QED
      BY <2>3, <2>4, <3>1
  <2>5. CASE k = Window /\ Fetched(p, k, "read", TRUE, Newest(s.there) \cap box, Never)
    <3>1. PICK heads : heads = Newest(s.there) \cap box
      OBVIOUS
    <3> QED
      BY <2>3, <2>5, <3>1
  <2>6. CASE k = Window /\ ~s.full /\ Fetched(p, k, "fetched", FALSE, Delta(s), Never)
    <3>1. PICK heads : heads = Delta(s)
      OBVIOUS
    <3> QED
      BY <2>3, <2>6, <3>1
  <2> QED
    BY <1>a, <1>5, <2>2, <2>4, <2>5, <2>6 DEF Fetch
<1> QED
  BY <1>1, <1>2, <1>3, <1>4, <1>5

LEMMA ApplyStep ==
  ASSUME Types, Held, NEW p \in Proc, NEW k \in Key, Apply(p, k)
  PROVE  Held'
<1>1. SyncsHold'
  BY ApplySyncs DEF Held
<1>2. SyncHolds(k, sync[p][k])
  BY DEF Apply, Held, SyncsHold
<1>3. IndexHolds' /\ Honest' /\ DatedListComplete'
  BY <1>2, ApplyIndex DEF Held
<1>4. MovesHold'
  BY DEF Apply, serverVars, Held, MovesHold
<1> QED
  BY <1>1, <1>3, <1>4 DEF Held

LEMMA HeldInit == Init => Held
<1> SUFFICES ASSUME Init PROVE Held
  OBVIOUS
<1>1. Rows = {} /\ mark = NoState /\ covered = Never
  BY DEF Init, Rows
<1>2. SyncsHold /\ MovesHold
  BY DEF Init, SyncsHold, MovesHold
<1> QED
  BY <1>1, <1>2 DEF Held, IndexHolds, Honest, DatedListComplete

LEMMA HeldStep == Types /\ Held /\ [Next]_vars => Held'
<1> SUFFICES ASSUME Types, Held, [Next]_vars PROVE Held'
  OBVIOUS
<1>1. CASE Arrive \/ \E u \in Uid : OutsideFlags(u) \/ \E p \in Proc : FlagOnServer(p, u)
  BY <1>1, MessageSteps
<1>2. CASE \/ Elapse \/ UNCHANGED vars \/ \E u \in Uid : OutsideMoves(u)
           \/ \E p \in Proc : \/ OpStep(p) \/ Exit(p)
                              \/ \E u \in Uid : MoveOnServer(p, u) \/ MoveAnswerLost(p, u)
  BY <1>2, QuietSteps
<1>3. CASE Push \/ \E p \in Proc : \/ List(p) \/ ListRefreshed(p)
                                   \/ \E d \in Since : ListSince(p, d)
  BY <1>3, ListSteps
<1>4. ASSUME NEW p \in Proc, NEW k \in Key, SyncStep(p, k) \/ SyncRetries(p, k) \/ SyncFails(p, k)
      PROVE  Held'
  BY <1>4, SyncSteps, ApplyStep DEF SyncStep
<1> QED
  BY <1>1, <1>2, <1>3, <1>4 DEF Next

-----------------------------------------------------------------------------
(* Theorems *)

\* The index, the syncs under way and the writes behind them stay in type.
THEOREM MailIndexTypeCorrect == Spec => []TypeOK
<1>1. Init => TypeOK
  BY TypeInit, TypeParts
<1>2. TypeOK /\ [Next]_vars => TypeOK'
  BY TypeStep, TypeParts DEF TypeOK, Types, FolderType, RowType, StateType, SyncType,
                             ConnType, OpType, BoundType
<1> QED
  BY <1>1, <1>2, PTL DEF Spec

\* IInv is inductive: what each sync under way may rely on holds at every step.
THEOREM SyncsMayRely == Spec => []IInv
<1>1. Init => IInv
  BY TypeInit, TypeParts, HeldInit DEF IInv
<1>2. IInv /\ [Next]_vars => IInv'
  <2> SUFFICES ASSUME IInv, [Next]_vars PROVE IInv'
    OBVIOUS
  <2>1. Types /\ Held
    BY TypeParts DEF IInv
  <2>2. Types' /\ Held'
    BY <2>1, TypeStep, HeldStep
  <2>3. TypeOK'
    BY <2>2 DEF TypeOK, Types, FolderType, RowType, StateType, SyncType,
                ConnType, OpType, BoundType
  <2> QED
    BY <2>2, <2>3 DEF IInv
<1> QED
  BY <1>1, <1>2, PTL DEF Spec

\* Whatever crosses a sync, the stored cursor claims nothing the index lacks but
\* what `jumped` names: the next delta of syncFolder misses no other change.
THEOREM CursorIsHonest == Spec => []HonestCursor
<1>1. IInv => HonestCursor
  BY HonestIsHonest DEF IInv, Held
<1> QED
  BY <1>1, SyncsMayRely, PTL

\* A dated list that needsSinceFill answers from the index alone lacks no message
\* but one newer than the cursor or one the cursor was moved past unread.
THEOREM DatedListsComplete == Spec => []DatedListComplete
<1>1. IInv => DatedListComplete
  BY DEF IInv, Held
<1> QED
  BY <1>1, SyncsMayRely, PTL

=============================================================================
