------------------------------ MODULE ArchiveLog ------------------------------
(***************************************************************************)
(* What a launched agent archives, and the undo of it                      *)
(* (src/src/agent/archive-log.ts, its table in src/src/db/store.ts, the    *)
(* tool in src/src/mcp/server.ts, the routes in src/src/api/routes.ts),    *)
(* over one account's mailboxes (moveUid in src/src/provider/imap-smtp.ts).*)
(*                                                                         *)
(* A message is named by folder and uid, so every move gives it another    *)
(* name; ids are drawn from one counter here.  An archive is recorded when *)
(* its answer comes, an undo moves one message per await, and the person   *)
(* at the card, the agent and other mail clients act in between.           *)
(***************************************************************************)
EXTENDS Integers, FiniteSets

CONSTANTS
  Message,         \* 1..n, a later one being newer
  Call,            \* calls of message_archive under a scoped credential
  Click,           \* clicks on Undo
  Who,             \* what a row is stamped with: agent and chat
  Gap,             \* SWEEP_GAP_MS
  Ttl,             \* ARCHIVE_LOG_TTL_MS
  ListLimit,       \* rows listAgentArchives returns
  Nothing,         \* a call or a click that is not under way
  MaxId,           \* bound: names given to messages
  MaxClock,        \* bound: time
  MaxEvents        \* bound: moves by other clients, moves no id comes back for, lost
                   \* answers, failed inserts, refusals, deaths

Id == 1..MaxId
NoId == 0          \* message_id is NULL; the name of a message not yet here

ASSUME ArchiveLogAssumption ==
  /\ Message \subseteq Nat
  /\ Gap \in Nat /\ Ttl \in Nat /\ Gap <= Ttl
  /\ ListLimit \in Nat \ {0}
  /\ {MaxId, MaxClock, MaxEvents} \subseteq Nat
  /\ Nothing \notin [id : 0..MaxId, from : {"inbox", "away"}]

VARIABLES
  folder,          \* where each message lies: "none" yet, "inbox", "archive", "away"
  id,              \* its present name
  lastId,
  log,             \* agent_archives, a set of rows numbered as they came
  lastRow,         \* the last id AUTOINCREMENT gave
  clock,           \* as it was last read: nothing else depends on it
  call,            \* the message a call of message_archive has moved, its answer due
  undo,            \* the rows each undo has still to do, and those it is done with
  events,          \* spent of MaxEvents
  owed             \* history: the names under which messages lie where an archive
                   \* left them, and for which the log owes a row

mailVars == <<folder, id, lastId>>
logVars == <<log, lastRow, clock>>
archiveVars == <<mailVars, logVars, call, undo, events, owed>>

Row == [row : Nat \ {0}, id : Id \cup {NoId}, from : {"inbox", "away"},
        who : Who, at : 0..MaxClock]

ArchiveInit ==
  /\ folder = [m \in Message |-> "none"]
  /\ id = [m \in Message |-> NoId]
  /\ lastId = 0
  /\ log = {} /\ lastRow = 0 /\ clock = 0
  /\ call = [c \in Call |-> Nothing]
  /\ undo = [k \in Click |-> Nothing]
  /\ events = 0
  /\ owed = {}

-----------------------------------------------------------------------------
(* The mail server *)

\* A move gives the message the next uid of the folder it comes to.
Moves(m, to) ==
  /\ lastId < MaxId
  /\ folder' = [folder EXCEPT ![m] = to]
  /\ id' = [id EXCEPT ![m] = lastId + 1]
  /\ lastId' = lastId + 1

Arrive(m) ==
  /\ folder[m] = "none" /\ \A n \in Message : n < m => folder[n] # "none"
  /\ Moves(m, "inbox")
  /\ UNCHANGED <<logVars, call, undo, events, owed>>

\* The user in this or another mail client: nothing is recorded.
OutsideMoves(m, to) ==
  /\ events < MaxEvents
  /\ folder[m] \notin {"none", to}
  /\ Moves(m, to)
  /\ events' = events + 1
  /\ owed' = owed \ {id[m]}
  /\ UNCHANGED <<logVars, call, undo>>

-----------------------------------------------------------------------------
(* message_archive *)

\* The server has moved the message; with UIDPLUS the answer will name it.
ArchiveOnServer(c, m, named) ==
  /\ call[c] = Nothing
  /\ folder[m] \in {"inbox", "away"}
  /\ Moves(m, "archive")
  /\ call' = [call EXCEPT ![c] = [id |-> IF named THEN id'[m] ELSE NoId, from |-> folder[m]]]
  /\ owed' = IF named THEN owed \cup {id'[m]} ELSE owed
  /\ named \/ events < MaxEvents
  /\ events' = IF named THEN events ELSE events + 1
  /\ UNCHANGED <<logVars, undo>>

\* record(): agent and chat are whoever spoke last and what is open by now.
ArchiveRecorded(c, who) ==
  /\ call[c] # Nothing
  /\ clock' \in clock..MaxClock
  /\ lastRow' = lastRow + 1
  /\ log' = log \cup {[row |-> lastRow', id |-> call[c].id, from |-> call[c].from,
                       who |-> who, at |-> clock']}
  /\ call' = [call EXCEPT ![c] = Nothing]
  /\ UNCHANGED <<mailVars, undo, events, owed>>

\* The answer is lost, a repeated MOVE finds nothing, or the INSERT throws.
ArchiveUnrecorded(c) ==
  /\ call[c] # Nothing
  /\ events < MaxEvents
  /\ events' = events + 1
  /\ owed' = owed \ {call[c].id}
  /\ call' = [call EXCEPT ![c] = Nothing]
  /\ UNCHANGED <<mailVars, logVars, undo>>

-----------------------------------------------------------------------------
(* The card *)

\* listAgentArchives: the oldest rows, by number.
Listed == {r \in log : Cardinality({s \in log : s.row < r.row}) < ListLimit}

SameRun(a, b) == a.who = b.who /\ b.at - a.at <= Gap

\* a is the row listed before b.
Precedes(a, b) == a.row < b.row /\ \A r \in Listed : r.row <= a.row \/ b.row <= r.row

\* sweepRows: from a row on, as long as each continues the one before.
Sweep(first) ==
  {r \in Listed :
    /\ first.row <= r.row
    /\ \A b \in Listed : first.row < b.row /\ b.row <= r.row =>
         \A a \in Listed : Precedes(a, b) => SameRun(a, b)}

RowsOf(rows) == {r.row : r \in rows}
IdsOf(rows) == {r.id : r \in rows}

Expired(now) == {r \in log : r.at < now - Ttl}

\* deleteAgentArchives and then sweeps(), which drops what is too old as it lists;
\* nothing is owed for what was excused or is too old.
Forget(numbers, excused) ==
  \E now \in clock..MaxClock :
    LET gone == numbers \cup RowsOf(Expired(now))
    IN
      /\ clock' = now
      /\ log' = {r \in log : r.row \notin gone}
      /\ owed' = owed \ (excused \cup IdsOf(Expired(now)))

Dismiss(first) ==
  /\ Forget(RowsOf(Sweep(first)), IdsOf(Sweep(first)))
  /\ UNCHANGED <<mailVars, lastRow, call, undo, events>>

\* The card is polled.
ListSweeps ==
  /\ Forget({}, {})
  /\ UNCHANGED <<mailVars, lastRow, call, undo, events>>

UndoBegins(k, first) ==
  /\ undo[k] = Nothing
  /\ undo' = [undo EXCEPT ![k] = [todo |-> Sweep(first), done |-> {}]]
  /\ UNCHANGED <<mailVars, logVars, call, events, owed>>

\* In the order of the rows.
NextRow(k) == CHOOSE r \in undo[k].todo : \A s \in undo[k].todo : r.row <= s.row

UndoGoesOn(k, finished) ==
  undo' = [undo EXCEPT ![k] = [todo |-> @.todo \ {NextRow(k)}, done |-> @.done \cup finished]]

\* The one message its row names lies where the agent put it.
UndoMoves(k, m) ==
  /\ undo[k] # Nothing /\ undo[k].todo # {}
  /\ folder[m] = "archive" /\ NextRow(k).id = id[m]
  /\ Moves(m, NextRow(k).from)
  /\ UndoGoesOn(k, {NextRow(k).row})
  /\ owed' = owed \ {id[m]}
  /\ UNCHANGED <<logVars, call, events>>

\* No id to move back to, or nothing under it: forgotten.
UndoFindsNothing(k) ==
  /\ undo[k] # Nothing /\ undo[k].todo # {}
  /\ \A m \in Message : folder[m] = "archive" => NextRow(k).id # id[m]
  /\ UndoGoesOn(k, {NextRow(k).row})
  /\ UNCHANGED <<mailVars, logVars, call, events, owed>>

\* The server answers NO to the MOVE, which moveUid reports like a message that
\* is gone.
UndoRefused(k) ==
  /\ undo[k] # Nothing /\ undo[k].todo # {}
  /\ \E m \in Message : folder[m] = "archive" /\ NextRow(k).id = id[m]
  /\ events < MaxEvents
  /\ events' = events + 1
  /\ owed' = owed \ {NextRow(k).id}
  /\ UndoGoesOn(k, {NextRow(k).row})
  /\ UNCHANGED <<mailVars, logVars, call>>

\* Mutant of UndoThrows: a throw counts as done with.
UndoThrowsDone(k) ==
  /\ undo[k] # Nothing /\ undo[k].todo # {} /\ NextRow(k).id # NoId
  /\ events < MaxEvents
  /\ events' = events + 1
  /\ UndoGoesOn(k, {NextRow(k).row})
  /\ UNCHANGED <<mailVars, logVars, call, owed>>

\* The server cannot be reached: the row is kept.
UndoThrows(k) ==
  /\ undo[k] # Nothing /\ undo[k].todo # {} /\ NextRow(k).id # NoId
  /\ events < MaxEvents
  /\ events' = events + 1
  /\ UndoGoesOn(k, {})
  /\ UNCHANGED <<mailVars, logVars, call, owed>>

UndoEnds(k) ==
  /\ undo[k] # Nothing /\ undo[k].todo = {}
  /\ Forget(undo[k].done, {})
  /\ undo' = [undo EXCEPT ![k] = Nothing]
  /\ UNCHANGED <<mailVars, lastRow, call, events>>

-----------------------------------------------------------------------------
\* The process dies and is started again; what it had begun is not finished.
Dies ==
  /\ events < MaxEvents
  /\ events' = events + 1
  /\ owed' = owed \ {call[c].id : c \in {d \in Call : call[d] # Nothing}}
  /\ call' = [c \in Call |-> Nothing]
  /\ undo' = [k \in Click |-> Nothing]
  /\ UNCHANGED <<mailVars, logVars>>

UndoStep(k) ==
  \/ \E m \in Message : UndoMoves(k, m)
  \/ UndoFindsNothing(k) \/ UndoRefused(k) \/ UndoThrows(k) \/ UndoEnds(k)

CardStep ==
  \/ \E first \in Listed : Dismiss(first) \/ \E k \in Click : UndoBegins(k, first)
  \/ ListSweeps

-----------------------------------------------------------------------------
(* Properties *)

ArchiveTypeOK ==
  /\ folder \in [Message -> {"none", "inbox", "archive", "away"}]
  /\ id \in [Message -> 0..MaxId] /\ lastId \in 0..MaxId
  /\ log \subseteq Row /\ lastRow \in Nat /\ clock \in 0..MaxClock
  /\ call \in [Call -> [id : 0..MaxId, from : {"inbox", "away"}] \cup {Nothing}]
  /\ \A k \in Click : undo[k] # Nothing => undo[k].todo \subseteq Row

\* What an agent archived can be put back: a message that still lies where a
\* named archive left it has its row, or its answer is about to be recorded,
\* whatever undos, dismissals and new archives ran into each other - until its
\* card is dismissed or expires, or a fault loses the answer, the INSERT or the
\* server's refusal to move it back.
FiledIsOnRecord ==
  \A i \in owed :
    i \in IdsOf(log) \/ \E c \in Call : call[c] # Nothing /\ call[c].id = i

=============================================================================
