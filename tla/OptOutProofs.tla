----------------------------- MODULE OptOutProofs -----------------------------
(***************************************************************************)
(* Proofs about OptOut, for any people, messages, processes and bounds.    *)
(* Of the mailbox the walk sees only that a message that moves gets an id  *)
(* it never had; what becomes of the log is proved at the end.             *)
(***************************************************************************)
EXTENDS OptOut, TLAPS, NaturalsInduction, WellFoundedInduction

-----------------------------------------------------------------------------
(* Types. *)

MailType ==
  /\ folder = [m \in Message |-> folder[m]]
  /\ id \in [Message -> 0..MaxId] /\ lastId \in 0..MaxId
  /\ \A m \in Message : folder[m] # "none" => id[m] # NoId

\* Contact ids are handed out in order and never twice.
ContactType ==
  /\ contactOf \in [Person -> 0..MaxContact] /\ lastContact \in 0..MaxContact
  /\ \A p \in Person : contactOf[p] <= lastContact
  /\ \A p, r \in Person : contactOf[p] = contactOf[r] /\ contactOf[p] # NoContact => p = r

SeenType ==
  /\ seen \in [Id \X Contact -> Verdict]
  /\ \A i \in Id, c \in Contact : c > lastContact => ~seen[<<i, c>>].optOut

ListType ==
  /\ suppressed \subseteq Person /\ lifting \subseteq Person
  /\ \A p, r \in lifting : p = r

Body == [message : Message, id : Id, contact : Contact]
Walk == [todo : SUBSET (Message \X Id), body : Body \cup {NoBody}]

WalkType == walk \in [Proc -> Walk \cup {Nothing}]

Types == MailType /\ ContactType /\ SeenType /\ ListType /\ WalkType

\* A walk of q waits for the body of a message.
Waits(q) == walk[q] # Nothing /\ walk[q].body # NoBody

\* What a walk waits for is judged under a contact that is its sender's, or nobody's
\* any more.
BodiesHold ==
  \A q \in Proc : Waits(q) =>
    /\ walk[q].body.contact <= lastContact
    /\ \A p \in Person : contactOf[p] = walk[q].body.contact => p = From[walk[q].body.message]

IInv == Types /\ BodiesHold /\ FlaggedIsSuppressed

-----------------------------------------------------------------------------
(* The initial state. *)

LEMMA IInvInit == Init => IInv
<1> SUFFICES ASSUME Init PROVE IInv
  OBVIOUS
<1> USE OptOutAssumption, ArchiveLogAssumption DEF Init, ArchiveInit, NoId, NoContact
<1>1. MailType
  BY DEF MailType
<1>2. ContactType
  BY DEF ContactType
<1>3. \A i \in Id, c \in Contact : seen[<<i, c>>] = Unseen
  OBVIOUS
<1>4. SeenType
  BY <1>3 DEF SeenType, Verdict, Unseen
<1>5. ListType /\ WalkType /\ BodiesHold
  BY DEF ListType, WalkType, BodiesHold, Waits
<1>6. FlaggedIsSuppressed
  BY DEF FlaggedIsSuppressed
<1> QED
  BY <1>1, <1>2, <1>4, <1>5, <1>6 DEF IInv, Types

-----------------------------------------------------------------------------
(* The mailbox. *)

\* Every step of the mailbox moves one message or none.
LEMMA MailboxMoves ==
  ASSUME Mailbox
  PROVE  \/ \E m \in Message : \E to : Moves(m, to)
         \/ UNCHANGED mailVars
<1>1. CASE \E m \in Message : Arrive(m) \/ \E to \in {"inbox", "away"} : OutsideMoves(m, to)
  BY <1>1 DEF Arrive, OutsideMoves
<1>2. CASE \E c \in Call : \E m \in Message : \E named \in BOOLEAN : ArchiveOnServer(c, m, named)
  BY <1>2 DEF ArchiveOnServer
<1>3. CASE \E c \in Call : ArchiveUnrecorded(c) \/ \E w \in Who : ArchiveRecorded(c, w)
  BY <1>3 DEF ArchiveUnrecorded, ArchiveRecorded
<1>4. CASE \E k \in Click : UndoStep(k)
  BY <1>4 DEF UndoStep, UndoMoves, UndoFindsNothing, UndoRefused, UndoThrows, UndoEnds
<1>5. CASE CardStep
  BY <1>5 DEF CardStep, Dismiss, UndoBegins, ListSweeps
<1> QED
  BY <1>1, <1>2, <1>3, <1>4, <1>5 DEF Mailbox

LEMMA MailStep ==
  ASSUME MailType, \/ \E m \in Message : \E to : Moves(m, to)
                   \/ UNCHANGED mailVars
  PROVE  MailType'
<1>1. CASE UNCHANGED mailVars
  BY <1>1 DEF mailVars, MailType
<1>2. ASSUME NEW m \in Message, NEW to, Moves(m, to) PROVE MailType'
  <2>1. lastId + 1 \in 0..MaxId /\ lastId + 1 # NoId
    BY <1>2, ArchiveLogAssumption DEF Moves, MailType, NoId
  <2>2. folder' = [n \in Message |-> folder'[n]]
    BY <1>2 DEF Moves, MailType
  <2>3. id' \in [Message -> 0..MaxId] /\ lastId' \in 0..MaxId
    BY <1>2, <2>1 DEF Moves, MailType
  <2>4. ASSUME NEW n \in Message, folder'[n] # "none" PROVE id'[n] # NoId
    BY <1>2, <2>1, <2>4 DEF Moves, MailType
  <2> QED
    BY <2>2, <2>3, <2>4 DEF MailType
<1> QED
  BY <1>1, <1>2

-----------------------------------------------------------------------------
(* Contacts. *)

\* Whoever upserts p leaves it with a contact that is nobody else's.
LEMMA UpsertStep ==
  ASSUME NEW p \in Person, ContactType, Upsert(p)
  PROVE  /\ ContactType'
         /\ lastContact <= lastContact' /\ lastContact' \in 0..MaxContact
         /\ contactOf'[p] \in Contact /\ contactOf'[p] <= lastContact'
         /\ \A r \in Person : contactOf'[r] = contactOf[r] \/ contactOf'[r] > lastContact
         /\ \A r \in Person : contactOf[r] # NoContact => contactOf'[r] = contactOf[r]
<1> USE OptOutAssumption DEF ContactType, Upsert, NoContact, Contact
<1>1. CASE contactOf[p] # NoContact
  BY <1>1
<1>2. CASE contactOf[p] = NoContact
  BY <1>2
<1> QED
  BY <1>1, <1>2

-----------------------------------------------------------------------------
(* One step. *)

LEMMA ContactsByHand ==
  ASSUME IInv, NEW p \in Person, AddContact(p) \/ DeleteContact(p)
  PROVE  IInv'
<1> USE DEF IInv, Types
<1>1. CASE AddContact(p)
  <2> USE <1>1 DEF AddContact, archiveVars, mailVars, judgeVars
  <2>1. /\ ContactType' /\ lastContact <= lastContact' /\ lastContact' \in 0..MaxContact
        /\ \A r \in Person : contactOf'[r] = contactOf[r] \/ contactOf'[r] > lastContact
        /\ \A r \in Person : contactOf[r] # NoContact => contactOf'[r] = contactOf[r]
    BY UpsertStep
  <2>2. MailType' /\ ListType' /\ WalkType'
    BY DEF MailType, ListType, WalkType
  <2>3. SeenType'
    BY <2>1 DEF SeenType, Contact, ContactType
  <2>4. BodiesHold'
    BY <2>1 DEF BodiesHold, Waits, WalkType, Walk, Body, Contact, ContactType
  <2>5. FlaggedIsSuppressed'
    BY <2>1 DEF FlaggedIsSuppressed, SeenType, ContactType, Contact, NoContact
  <2> QED
    BY <2>1, <2>2, <2>3, <2>4, <2>5
<1>2. CASE DeleteContact(p)
  <2> USE <1>2 DEF DeleteContact, archiveVars, mailVars
  <2>1. /\ contactOf' \in [Person -> 0..MaxContact] /\ lastContact' = lastContact
        /\ contactOf'[p] = NoContact
        /\ \A r \in Person \ {p} : contactOf'[r] = contactOf[r] /\ 
                                   (contactOf[r] = contactOf[p] => contactOf[r] = NoContact)
    BY OptOutAssumption DEF ContactType, NoContact
  <2>2. ContactType'
    BY <2>1, OptOutAssumption DEF ContactType, NoContact
  <2>3. MailType' /\ ListType' /\ WalkType'
    BY DEF MailType, ListType, WalkType
  <2>4. SeenType'
    BY <2>1 DEF SeenType, Verdict, Unseen
  <2>5. BodiesHold'
    BY <2>1 DEF BodiesHold, Waits, WalkType, Walk, Body, Contact, NoContact
  <2>6. ASSUME NEW r \in Person, contactOf'[r] # NoContact, NEW i \in Id,
               seen'[<<i, contactOf'[r]>>].optOut, <<i, contactOf'[r]>> \notin unscoped'
        PROVE  r \in suppressed' \cup lifting'
    <3>1. r # p /\ contactOf'[r] = contactOf[r] /\ contactOf[r] # contactOf[p] /\ contactOf[r] \in Contact
      BY <2>1, <2>6 DEF ContactType, Contact, NoContact
    <3>2. seen'[<<i, contactOf[r]>>] = seen[<<i, contactOf[r]>>] /\ <<i, contactOf[r]>> \notin unscoped
      BY <3>1, <2>6
    <3> QED
      BY <3>1, <3>2, <2>6 DEF FlaggedIsSuppressed
  <2> QED
    BY <2>2, <2>3, <2>4, <2>5, <2>6 DEF FlaggedIsSuppressed
<1> QED
  BY <1>1, <1>2

LEMMA ListsByHand ==
  ASSUME IInv, NEW p \in Person, QueueDraft(p) \/ AddSuppression(p) \/ RemoveSuppression(p)
  PROVE  IInv'
<1> USE DEF IInv, Types, QueueDraft, AddSuppression, RemoveSuppression, archiveVars, mailVars,
            judgeVars
<1>1. MailType' /\ ContactType' /\ SeenType' /\ WalkType' /\ BodiesHold'
  BY DEF MailType, ContactType, SeenType, WalkType, BodiesHold, Waits
<1>2. ListType'
  BY DEF ListType
<1>3. FlaggedIsSuppressed'
  BY DEF FlaggedIsSuppressed
<1> QED
  BY <1>1, <1>2, <1>3

LEMMA ClearStep ==
  ASSUME IInv, NEW p \in Person, ClearOptOutFlags(p)
  PROVE  IInv'
<1> USE DEF IInv, Types, ClearOptOutFlags, archiveVars, mailVars
<1>1. MailType' /\ ContactType' /\ WalkType' /\ BodiesHold' /\ ListType'
  BY DEF MailType, ContactType, WalkType, BodiesHold, Waits, ListType
<1>2. SeenType'
  BY ZenonT(30) DEF SeenType, Verdict, Cleared
<1>3. ASSUME NEW r \in Person, contactOf[r] # NoContact, NEW i \in Id,
             seen'[<<i, contactOf[r]>>].optOut, <<i, contactOf[r]>> \notin unscoped'
      PROVE  r \in suppressed
  <2>1. contactOf[r] \in Contact
    BY <1>3 DEF ContactType, Contact, NoContact
  <2>2. contactOf[r] # contactOf[p]
    BY <1>3, <2>1 DEF Cleared, SeenType, Verdict
  <2>3. r # p /\ lifting = {p}
    BY <2>2 DEF ListType
  <2> QED
    BY <1>3, <2>1, <2>2, <2>3 DEF FlaggedIsSuppressed
<1> QED
  BY <1>1, <1>2, <1>3 DEF FlaggedIsSuppressed

LEMMA LooksStep ==
  ASSUME IInv, NEW q \in Proc, WalkLooks(q)
  PROVE  IInv'
<1> USE DEF IInv, Types
<1>1. PICK s \in walk[q].todo :
        /\ Upsert(From[s[1]])
        /\ walk' = [walk EXCEPT ![q] =
                     [todo |-> @.todo \ {s},
                      body |-> IF NeedsOptOutDecision(s[2], contactOf'[From[s[1]]])
                               THEN [message |-> s[1], id |-> s[2],
                                     contact |-> contactOf'[From[s[1]]]]
                               ELSE NoBody]]
  BY DEF WalkLooks
<1>2. s[1] \in Message /\ s[2] \in Id /\ From[s[1]] \in Person /\ walk[q] \in Walk
  BY OptOutAssumption DEF WalkLooks, WalkType, Walk
<1>3. /\ ContactType' /\ lastContact <= lastContact' /\ lastContact' \in 0..MaxContact
      /\ contactOf'[From[s[1]]] \in Contact /\ contactOf'[From[s[1]]] <= lastContact'
      /\ \A r \in Person : contactOf'[r] = contactOf[r] \/ contactOf'[r] > lastContact
      /\ \A r \in Person : contactOf[r] # NoContact => contactOf'[r] = contactOf[r]
  BY <1>1, <1>2, UpsertStep
<1>4. UNCHANGED <<folder, id, lastId, seen, suppressed, lifting, unscoped>>
  BY DEF WalkLooks, archiveVars, mailVars
<1>5. MailType' /\ ListType'
  BY <1>4 DEF MailType, ListType
<1>6. WalkType'
  <2>1. [message |-> s[1], id |-> s[2], contact |-> contactOf'[From[s[1]]]] \in Body
    BY <1>2, <1>3 DEF Body
  <2>2. walk'[q] \in Walk
    BY <1>1, <1>2, <2>1 DEF WalkType, Walk
  <2> QED
    BY <1>1, <2>2 DEF WalkType
<1>7. SeenType'
  BY <1>3, <1>4 DEF SeenType, Contact, ContactType
<1>8. ASSUME NEW r \in Proc, Waits(r)'
      PROVE  /\ walk'[r].body.contact <= lastContact'
             /\ \A p \in Person : contactOf'[p] = walk'[r].body.contact
                                  => p = From[walk'[r].body.message]
  <2>1. CASE r = q
    <3>1. walk'[q].body = [message |-> s[1], id |-> s[2], contact |-> contactOf'[From[s[1]]]]
      BY <1>1, <1>8, <2>1 DEF Waits, WalkType
    <3> QED
      BY <3>1, <2>1, <1>2, <1>3 DEF ContactType, Contact, NoContact
  <2>2. CASE r # q
    <3>1. walk'[r] = walk[r] /\ Waits(r) /\ walk[r].body \in Body
      BY <1>1, <1>8, <2>2 DEF Waits, WalkType, Walk
    <3> QED
      BY <3>1, <1>3 DEF BodiesHold, Body, Contact, ContactType
  <2> QED
    BY <2>1, <2>2
<1>9. FlaggedIsSuppressed'
  BY <1>3, <1>4 DEF FlaggedIsSuppressed, SeenType, ContactType, Contact, NoContact
<1> QED
  BY <1>3, <1>5, <1>6, <1>7, <1>8, <1>9 DEF BodiesHold

LEMMA JudgedStep ==
  ASSUME IInv, NEW q \in Proc, Waits(q),
         NEW v \in [optOut : BOOLEAN, full : BOOLEAN], Judged(q, v)
  PROVE  IInv'
<1> DEFINE b == walk[q].body
<1> USE DEF IInv, Types
<1>1. b \in Body /\ walk[q] \in Walk
  BY DEF Waits, WalkType, Walk
<1>2. /\ seen' = [seen EXCEPT ![<<b.id, b.contact>>] =
                   [optOut |-> @.optOut \/ v.optOut, full |-> @.full \/ v.full, row |-> TRUE]]
      /\ suppressed' = IF v.optOut /\ b.contact \in drafted
                       THEN suppressed \cup {From[b.message]} ELSE suppressed
      /\ unscoped' = IF v.optOut /\ b.contact \notin drafted
                     THEN unscoped \cup {<<b.id, b.contact>>} ELSE unscoped
      /\ walk' = [walk EXCEPT ![q].body = NoBody]
      /\ UNCHANGED <<folder, id, lastId, contactOf, lastContact, lifting>>
  BY DEF Judged, archiveVars, mailVars
<1>3. MailType' /\ ContactType'
  BY <1>2 DEF MailType, ContactType
<1>4. From[b.message] \in Person /\ <<b.id, b.contact>> \in Id \X Contact
  BY <1>1, OptOutAssumption DEF Body
<1>5. ListType'
  BY <1>2, <1>4 DEF ListType
<1>6. walk' \in [Proc -> Walk \cup {Nothing}] /\ walk'[q].body = NoBody
  BY <1>1, <1>2 DEF WalkType, Walk
<1>7. SeenType'
  <2>1. seen' \in [Id \X Contact -> Verdict]
    BY <1>2, <1>4 DEF SeenType, Verdict
  <2>2. b.contact <= lastContact
    BY DEF BodiesHold
  <2> QED
    BY SMTT(30), <1>2, <2>1, <2>2, <1>4 DEF SeenType, Contact, ContactType
<1>8. BodiesHold'
  BY <1>2, <1>6 DEF BodiesHold, Waits, WalkType
<1>9. ASSUME NEW p \in Person, contactOf[p] # NoContact, NEW i \in Id,
             seen'[<<i, contactOf[p]>>].optOut, <<i, contactOf[p]>> \notin unscoped'
      PROVE  p \in suppressed' \cup lifting
  <2>0. contactOf[p] \in Contact /\ <<i, contactOf[p]>> \in Id \X Contact
    BY <1>9 DEF ContactType, Contact, NoContact
  <2>1. CASE <<i, contactOf[p]>> = <<b.id, b.contact>> /\ v.optOut
    <3>1. b.contact \in drafted
      BY <1>2, <1>9, <2>1
    <3>2. p = From[b.message]
      BY <2>1 DEF BodiesHold
    <3> QED
      BY <1>2, <2>1, <3>1, <3>2
  <2>2. CASE ~(<<i, contactOf[p]>> = <<b.id, b.contact>> /\ v.optOut)
    <3>1. seen[<<i, contactOf[p]>>].optOut
      BY <1>2, <1>9, <2>0, <2>2 DEF SeenType, Verdict
    <3> QED
      BY <3>1, <1>2, <1>9 DEF FlaggedIsSuppressed
  <2> QED
    BY <2>1, <2>2
<1> QED
  BY <1>2, <1>3, <1>5, <1>6, <1>7, <1>8, <1>9 DEF WalkType, FlaggedIsSuppressed

LEMMA WalkTakesStep ==
  ASSUME IInv, NEW q \in Proc, WalkStep(q)
  PROVE  IInv'
<1> USE DEF IInv, Types
<1>1. CASE WalkBegins(q)
  <2> USE <1>1 DEF WalkBegins, archiveVars, mailVars, crmVars
  <2>1. {<<m, id[m]>> : m \in {n \in Message : folder[n] = "inbox"}} \in SUBSET (Message \X Id)
    BY ArchiveLogAssumption DEF MailType, Id, NoId
  <2>2. WalkType' /\ walk'[q].body = NoBody
    BY <2>1 DEF WalkType, Walk
  <2>3. BodiesHold'
    BY <2>2 DEF BodiesHold, Waits, WalkType
  <2>4. MailType' /\ ContactType' /\ SeenType' /\ ListType' /\ FlaggedIsSuppressed'
    BY DEF MailType, ContactType, SeenType, ListType, FlaggedIsSuppressed
  <2> QED
    BY <2>2, <2>3, <2>4
<1>2. CASE WalkThrows(q) \/ WalkEnds(q)
  <2> USE <1>2 DEF WalkThrows, WalkEnds, archiveVars, mailVars, crmVars
  <2>1. WalkType' /\ BodiesHold'
    BY DEF WalkType, BodiesHold, Waits
  <2>2. MailType' /\ ContactType' /\ SeenType' /\ ListType' /\ FlaggedIsSuppressed'
    BY DEF MailType, ContactType, SeenType, ListType, FlaggedIsSuppressed
  <2> QED
    BY <2>1, <2>2
<1>3. CASE BodyRead(q)
  <2>1. Waits(q)
    BY <1>3, Zenon DEF BodyRead, Waits
  <2>2. Judged(q, [optOut |-> walk[q].body.message \in BodyStops, full |-> TRUE])
    BY <1>3, Zenon DEF BodyRead
  <2>3. [optOut |-> walk[q].body.message \in BodyStops, full |-> TRUE]
          \in [optOut : BOOLEAN, full : BOOLEAN]
    OBVIOUS
  <2> QED
    BY <2>1, <2>2, <2>3, JudgedStep, Zenon
<1>4. CASE BodyMissed(q)
  <2>1. Waits(q) /\ \E v \in [optOut : BOOLEAN, full : BOOLEAN] : Judged(q, v)
    BY <1>4 DEF BodyMissed, Waits
  <2> QED
    BY <2>1, JudgedStep
<1> QED
  BY <1>1, <1>2, <1>3, <1>4, LooksStep DEF WalkStep

LEMMA IInvStep == IInv /\ [Next]_allVars => IInv'
<1> SUFFICES ASSUME IInv, [Next]_allVars PROVE IInv'
  OBVIOUS
<1> USE DEF IInv, Types
<1>1. CASE Mailbox
  <2>1. MailType'
    BY <1>1, MailboxMoves, MailStep
  <2>2. UNCHANGED <<contactOf, lastContact, seen, suppressed, lifting, walk, unscoped>>
    BY <1>1 DEF Mailbox, crmVars
  <2> QED
    BY <2>1, <2>2 DEF ContactType, SeenType, ListType, WalkType, BodiesHold, Waits,
                      FlaggedIsSuppressed
<1>2. CASE ServerDies
  <2> USE <1>2, OptOutAssumption DEF ServerDies, Dies, mailVars
  <2>1. MailType' /\ ContactType' /\ SeenType' /\ ListType' /\ WalkType' /\ BodiesHold'
    BY DEF MailType, ContactType, SeenType, ListType, WalkType, BodiesHold, Waits
  <2>2. FlaggedIsSuppressed'
    BY DEF FlaggedIsSuppressed
  <2> QED
    BY <2>1, <2>2
<1>3. ASSUME NEW p \in Person, ByHand(p) \/ ClearOptOutFlags(p) PROVE IInv'
  BY <1>3, ContactsByHand, ListsByHand, ClearStep DEF ByHand
<1>4. ASSUME NEW q \in Proc, WalkStep(q) PROVE IInv'
  BY <1>4, WalkTakesStep
<1>5. CASE UNCHANGED allVars
  BY <1>5 DEF allVars, archiveVars, mailVars, crmVars, judgeVars, MailType, ContactType,
              SeenType, ListType, WalkType, BodiesHold, Waits, FlaggedIsSuppressed
<1> QED
  BY <1>1, <1>2, <1>3, <1>4, <1>5 DEF Next

\* Types of everything the walk reads and writes.
THEOREM OptOutTypeCorrect == Spec => []Types
  BY IInvInit, IInvStep, PTL DEF Spec, IInv

\* Flag and suppression agree (crm/service.ts:165-180, outreach/routes.ts:107),
\* for any number of processes walking, whatever is deleted, derived anew, lifted
\* or lost in a death.
THEOREM FlagsAgree == Spec => []FlaggedIsSuppressed
  BY IInvInit, IInvStep, PTL DEF Spec, IInv

-----------------------------------------------------------------------------
(* Lifts. *)

Fetches(q, m) == Waits(q) /\ walk[q].body.message = m

\* The walk has ruled on m as it lies there now.
Decided(m) ==
  /\ id[m] \in Id /\ contactOf[From[m]] \in Contact
  /\ ~NeedsOptOutDecision(id[m], contactOf[From[m]])

FiredType == fired \in [Message -> {"never", "once", "anew"}]

\* Of a message that never came back under another id or another contact every
\* walk knows the present ones, and one at most is waiting for its body.
OneJudge ==
  \A m \in Message : fired[m] # "anew" =>
    /\ \A q \in Proc, i \in Id : walk[q] # Nothing /\ <<m, i>> \in walk[q].todo => i = id[m]
    /\ \A q \in Proc : Fetches(q, m) => /\ walk[q].body.id = id[m]
                                        /\ walk[q].body.contact = contactOf[From[m]]
    /\ \A q, r \in Proc : Fetches(q, m) /\ Fetches(r, m) => q = r

\* A message that suppressed its sender is decided, and nobody waits for it.
OnceIsDecided ==
  \A m \in Message : fired[m] = "once" => Decided(m) /\ \A q \in Proc : ~Fetches(q, m)

LInv == FiredType /\ OneJudge /\ OnceIsDecided

LEMMA LInvInit == Init => LInv
  BY DEF Init, LInv, FiredType, OneJudge, OnceIsDecided, Fetches, Waits

\* As long as what was known of a message holds, so does what was ruled on it.
LEMMA NothingNew ==
  ASSUME IInv, LInv, UNCHANGED <<id, contactOf, walk, fired>>,
         \A x \in Id \X Contact : seen[x].optOut \/ seen[x].full => seen'[x].optOut \/ seen'[x].full
  PROVE  LInv'
<1>1. FiredType' /\ OneJudge'
  BY DEF LInv, FiredType, OneJudge, Fetches, Waits
<1>2. OnceIsDecided'
  BY DEF LInv, OnceIsDecided, Decided, NeedsOptOutDecision, Fetches, Waits
<1> QED
  BY <1>1, <1>2 DEF LInv

LEMMA LiftMailbox ==
  ASSUME IInv, LInv, Mailbox
  PROVE  LInv'
<1> USE DEF LInv
<1>1. UNCHANGED <<contactOf, seen, walk>>
  BY DEF Mailbox, crmVars
<1>2. FiredType'
  BY DEF Mailbox, Anew, FiredType
<1>3. ASSUME NEW m \in Message, fired'[m] # "anew"
      PROVE  fired'[m] = fired[m] /\ (id[m] # NoId => id'[m] = id[m])
  BY <1>3 DEF Mailbox, Anew
<1>4. OneJudge'
  <2> SUFFICES ASSUME NEW m \in Message, fired'[m] # "anew"
               PROVE  /\ \A q \in Proc, i \in Id :
                           walk[q] # Nothing /\ <<m, i>> \in walk[q].todo => i = id'[m]
                      /\ \A q \in Proc : Fetches(q, m) =>
                           /\ walk[q].body.id = id'[m]
                           /\ walk[q].body.contact = contactOf[From[m]]
                      /\ \A q, r \in Proc : Fetches(q, m) /\ Fetches(r, m) => q = r
    BY <1>1 DEF OneJudge, Fetches, Waits
  <2>1. ASSUME NEW q \in Proc, Fetches(q, m) PROVE walk[q].body.id # NoId
    BY <2>1 DEF IInv, Types, WalkType, Walk, Body, Fetches, Waits, Id, NoId
  <2> QED
    BY <1>3, <2>1 DEF OneJudge, Id, NoId
<1>5. ASSUME NEW m \in Message, fired'[m] = "once"
      PROVE  Decided(m)' /\ \A q \in Proc : ~Fetches(q, m)'
  <2>1. Decided(m) /\ \A q \in Proc : ~Fetches(q, m)
    BY <1>3, <1>5 DEF OnceIsDecided
  <2>2. id'[m] = id[m]
    BY <1>3, <1>5, <2>1 DEF Decided, Id, NoId
  <2> QED
    BY <1>1, <2>1, <2>2 DEF Decided, NeedsOptOutDecision, Fetches, Waits
<1> QED
  BY <1>2, <1>4, <1>5 DEF OnceIsDecided

LEMMA LiftContacts ==
  ASSUME IInv, LInv, NEW p \in Person, AddContact(p) \/ DeleteContact(p)
  PROVE  LInv'
<1> USE DEF LInv
<1>1. CASE AddContact(p)
  <2>1. \A r \in Person : contactOf[r] # NoContact => contactOf'[r] = contactOf[r]
    BY <1>1, UpsertStep DEF AddContact, IInv, Types
  <2>2. UNCHANGED <<id, seen, walk, fired>>
    BY <1>1 DEF AddContact, archiveVars, mailVars, judgeVars
  <2>3. FiredType'
    BY <2>2 DEF FiredType
  <2>4. OneJudge'
    <3>1. ASSUME NEW m \in Message, NEW q \in Proc, Fetches(q, m), fired[m] # "anew"
          PROVE  contactOf'[From[m]] = walk[q].body.contact
      BY <2>1, <3>1, OptOutAssumption
      DEF OneJudge, IInv, Types, WalkType, Walk, Body, Fetches, Waits, Contact, NoContact
    <3> QED
      BY <2>2, <3>1 DEF OneJudge, Fetches, Waits
  <2>5. ASSUME NEW m \in Message, fired'[m] = "once"
        PROVE  Decided(m)' /\ \A q \in Proc : ~Fetches(q, m)'
    <3>1. Decided(m) /\ \A q \in Proc : ~Fetches(q, m)
      BY <2>2, <2>5 DEF OnceIsDecided
    <3>2. contactOf'[From[m]] = contactOf[From[m]]
      BY <2>1, <3>1, OptOutAssumption DEF Decided, Contact, NoContact
    <3> QED
      BY <2>2, <3>1, <3>2 DEF Decided, NeedsOptOutDecision, Fetches, Waits
  <2> QED
    BY <2>3, <2>4, <2>5 DEF OnceIsDecided
<1>2. CASE DeleteContact(p)
  <2>1. UNCHANGED <<id, walk>>
    BY <1>2 DEF DeleteContact, archiveVars, mailVars
  <2>2. FiredType'
    BY <1>2 DEF DeleteContact, Anew, FiredType
  <2>3. ASSUME NEW m \in Message, fired'[m] # "anew"
        PROVE  /\ fired'[m] = fired[m] /\ From[m] # p
               /\ contactOf'[From[m]] = contactOf[From[m]]
    BY <1>2, <2>3, OptOutAssumption DEF DeleteContact, Anew, IInv, Types, ContactType
  <2>4. OneJudge'
    BY <2>1, <2>3 DEF OneJudge, Fetches, Waits
  <2>5. ASSUME NEW m \in Message, fired'[m] = "once"
        PROVE  Decided(m)' /\ \A q \in Proc : ~Fetches(q, m)'
    <3>1. Decided(m) /\ \A q \in Proc : ~Fetches(q, m)
      BY <2>3, <2>5 DEF OnceIsDecided
    <3>2. contactOf[From[m]] # contactOf[p]
      BY <1>2, <2>3, <2>5, OptOutAssumption DEF DeleteContact, IInv, Types, ContactType
    <3>3. seen'[<<id[m], contactOf[From[m]]>>] = seen[<<id[m], contactOf[From[m]]>>]
      BY <1>2, <3>1, <3>2 DEF DeleteContact, Decided
    <3> QED
      BY <2>1, <2>3, <2>5, <3>1, <3>3 DEF Decided, NeedsOptOutDecision, Fetches, Waits
  <2> QED
    BY <2>2, <2>4, <2>5 DEF OnceIsDecided
<1> QED
  BY <1>1, <1>2

LEMMA LiftLooks ==
  ASSUME IInv, LInv, NEW q \in Proc, WalkLooks(q)
  PROVE  LInv'
<1> USE DEF LInv
<1>1. PICK s \in walk[q].todo :
        /\ Upsert(From[s[1]])
        /\ walk' = [walk EXCEPT ![q] =
                     [todo |-> @.todo \ {s},
                      body |-> IF NeedsOptOutDecision(s[2], contactOf'[From[s[1]]])
                               THEN [message |-> s[1], id |-> s[2],
                                     contact |-> contactOf'[From[s[1]]]]
                               ELSE NoBody]]
        /\ fired' = IF \E r \in Proc \ {q} : Fetches(r, s[1]) THEN Anew({s[1]}) ELSE fired
  BY DEF WalkLooks, Fetches, Waits
<1>2. /\ s[1] \in Message /\ s[2] \in Id /\ s = <<s[1], s[2]>> /\ From[s[1]] \in Person
      /\ walk[q] \in Walk /\ walk[q] # Nothing /\ ~Waits(q)
  BY OptOutAssumption DEF WalkLooks, IInv, Types, WalkType, Walk, Waits
<1>3. UNCHANGED <<id, seen>>
  BY DEF WalkLooks, archiveVars, mailVars
<1>4. \A r \in Person : contactOf[r] # NoContact => contactOf'[r] = contactOf[r]
  BY <1>1, <1>2, UpsertStep DEF IInv, Types
<1>5. FiredType'
  BY <1>1 DEF FiredType, Anew
<1>6. \A m \in Message : fired'[m] # "anew" => fired'[m] = fired[m]
  BY <1>1 DEF Anew
<1>7. ASSUME NEW r \in Proc, NEW m \in Message, Fetches(r, m)'
      PROVE  \/ /\ r = q /\ m = s[1]
                /\ walk'[q].body = [message |-> s[1], id |-> s[2],
                                    contact |-> contactOf'[From[s[1]]]]
                /\ NeedsOptOutDecision(s[2], contactOf'[From[s[1]]])
             \/ r # q /\ Fetches(r, m) /\ walk'[r] = walk[r]
  BY <1>1, <1>7 DEF Fetches, Waits, IInv, Types, WalkType
<1>8. ASSUME NEW m \in Message, fired'[m] # "anew"
      PROVE  /\ \A r \in Proc, i \in Id : walk'[r] # Nothing /\ <<m, i>> \in walk'[r].todo
                                          => i = id[m]
             /\ \A r \in Proc : Fetches(r, m)' =>
                  /\ walk'[r].body.id = id[m]
                  /\ walk'[r].body.contact = contactOf'[From[m]]
             /\ \A r, t \in Proc : Fetches(r, m)' /\ Fetches(t, m)' => r = t
  <2>1. fired[m] # "anew"
    BY <1>6, <1>8
  <2>2. ASSUME NEW r \in Proc, NEW i \in Id, walk'[r] # Nothing, <<m, i>> \in walk'[r].todo
        PROVE  i = id[m]
    BY <1>1, <1>2, <2>1, <2>2 DEF OneJudge, IInv, Types, WalkType
  <2>3. ASSUME NEW r \in Proc, Fetches(r, m)'
        PROVE  walk'[r].body.id = id[m] /\ walk'[r].body.contact = contactOf'[From[m]]
    <3>1. CASE r = q
      BY <1>2, <1>7, <2>1, <2>3, <3>1 DEF OneJudge
    <3>2. CASE r # q
      <4>1. /\ Fetches(r, m) /\ walk'[r] = walk[r] /\ walk[r].body.id = id[m]
            /\ walk[r].body.contact = contactOf[From[m]] /\ walk[r].body \in Body
        BY <1>7, <2>1, <2>3, <3>2 DEF OneJudge, IInv, Types, WalkType, Walk, Fetches, Waits
      <4>2. contactOf[From[m]] # NoContact /\ From[m] \in Person
        BY <4>1, OptOutAssumption DEF Body, Contact, NoContact
      <4> QED
        BY <4>1, <4>2, <1>4
    <3> QED
      BY <3>1, <3>2
  <2>4. ASSUME NEW r \in Proc, NEW t \in Proc, Fetches(r, m)', Fetches(t, m)'
        PROVE  r = t
    <3>1. CASE r # q /\ t # q
      BY <1>7, <2>1, <2>4, <3>1 DEF OneJudge
    <3>2. CASE ~(r # q /\ t # q)
      <4>1. ASSUME NEW u \in Proc \ {q}, Fetches(u, m), m = s[1] PROVE FALSE
        BY <1>1, <1>8, <4>1 DEF Anew
      <4> QED
        BY <1>7, <2>4, <3>2, <4>1
    <3> QED
      BY <3>1, <3>2
  <2> QED
    BY <2>2, <2>3, <2>4
<1>9. ASSUME NEW m \in Message, fired'[m] = "once"
      PROVE  Decided(m)' /\ \A r \in Proc : ~Fetches(r, m)'
  <2>1. Decided(m) /\ (\A r \in Proc : ~Fetches(r, m)) /\ fired[m] = "once"
    BY <1>6, <1>9 DEF OnceIsDecided
  <2>2. contactOf'[From[m]] = contactOf[From[m]]
    BY <1>4, <2>1, OptOutAssumption DEF Decided, Contact, NoContact
  <2>3. Decided(m)'
    BY <1>3, <2>1, <2>2 DEF Decided, NeedsOptOutDecision
  <2>4. ASSUME NEW r \in Proc, Fetches(r, m)' PROVE FALSE
    <3>1. m = s[1] /\ NeedsOptOutDecision(s[2], contactOf'[From[m]])
      BY <1>7, <2>1, <2>4
    <3>2. s[2] = id[m]
      BY <1>2, <2>1, <3>1 DEF OneJudge
    <3> QED
      BY <2>1, <2>2, <3>1, <3>2 DEF Decided
  <2> QED
    BY <2>3, <2>4
<1> QED
  BY <1>3, <1>5, <1>8, <1>9 DEF OneJudge, OnceIsDecided

LEMMA LiftJudged ==
  ASSUME IInv, LInv, NEW q \in Proc, Waits(q),
         NEW v \in [optOut : BOOLEAN, full : BOOLEAN], Judged(q, v)
  PROVE  LInv'
<1> DEFINE b == walk[q].body
<1> USE DEF LInv
<1>1. b \in Body /\ walk[q] \in Walk /\ Fetches(q, b.message)
  BY DEF Waits, IInv, Types, WalkType, Walk, Fetches
<1>2. /\ seen' = [seen EXCEPT ![<<b.id, b.contact>>] =
                   [optOut |-> @.optOut \/ v.optOut, full |-> @.full \/ v.full, row |-> TRUE]]
      /\ fired' = IF v.optOut /\ b.contact \in drafted
                  THEN [fired EXCEPT ![b.message] =
                          CASE @ = "never" -> "once" [] @ = "anew" -> "anew" [] OTHER -> "twice"]
                  ELSE fired
      /\ walk' = [walk EXCEPT ![q].body = NoBody]
      /\ UNCHANGED <<id, contactOf>>
  BY DEF Judged, archiveVars, mailVars
<1>3. fired[b.message] \in {"never", "anew"} /\ b.message \in Message
  BY <1>1 DEF OnceIsDecided, FiredType, Body
<1>4. /\ FiredType'
      /\ \A m \in Message : fired'[m] # "anew" => fired[m] # "anew"
      /\ \A m \in Message : fired'[m] = "once" =>
           \/ fired[m] = "once"
           \/ fired[m] = "never" /\ m = b.message /\ v.optOut
  BY <1>2, <1>3 DEF FiredType
<1>5. ASSUME NEW r \in Proc, NEW m \in Message, Fetches(r, m)'
      PROVE  r # q /\ Fetches(r, m) /\ walk'[r] = walk[r]
  BY <1>1, <1>2, <1>5 DEF Fetches, Waits, IInv, Types, WalkType, Walk
<1>6. ASSUME NEW r \in Proc, walk'[r] # Nothing
      PROVE  walk[r] # Nothing /\ walk'[r].todo = walk[r].todo
  <2>1. walk[q] # Nothing
    BY DEF Waits
  <2> QED
    BY <1>1, <1>2, <1>6, <2>1 DEF IInv, Types, WalkType, Walk
<1>7. OneJudge'
  BY SMTT(30), <1>2, <1>4, <1>5, <1>6 DEF OneJudge
<1>8. \A x \in Id \X Contact : seen[x].optOut \/ seen[x].full => seen'[x].optOut \/ seen'[x].full
  BY <1>1, <1>2 DEF Body, IInv, Types, SeenType, Verdict
<1>9. ASSUME NEW m \in Message, fired'[m] = "once"
      PROVE  Decided(m)' /\ \A r \in Proc : ~Fetches(r, m)'
  <2>1. CASE fired[m] = "once"
    BY <1>2, <1>5, <1>8, <2>1 DEF OnceIsDecided, Decided, NeedsOptOutDecision
  <2>2. CASE fired[m] = "never" /\ m = b.message /\ v.optOut
    <3>1. b.id = id[m] /\ b.contact = contactOf[From[m]]
      BY <1>1, <2>2 DEF OneJudge, Body
    <3>2. seen'[<<b.id, b.contact>>].optOut
      BY <1>1, <1>2, <2>2 DEF Body, IInv, Types, SeenType, Verdict
    <3>3. \A r \in Proc : ~Fetches(r, m)'
      BY <1>1, <1>5, <2>2 DEF OneJudge
    <3> QED
      BY <1>1, <1>2, <3>1, <3>2, <3>3 DEF Decided, NeedsOptOutDecision, Body
  <2> QED
    BY <1>4, <1>9, <2>1, <2>2
<1> QED
  BY <1>4, <1>7, <1>9 DEF OnceIsDecided

LEMMA LiftWalk ==
  ASSUME IInv, LInv, NEW q \in Proc, WalkStep(q)
  PROVE  LInv'
<1>1. CASE WalkBegins(q)
  <2>1. /\ walk' = [walk EXCEPT ![q] =
               [todo |-> {<<m, id[m]>> : m \in {n \in Message : folder[n] = "inbox"}},
                body |-> NoBody]]
        /\ UNCHANGED <<id, contactOf, seen, fired>>
    BY <1>1 DEF WalkBegins, archiveVars, mailVars, crmVars
  <2>2. \A r \in Proc, m \in Message : Fetches(r, m)' => Fetches(r, m) /\ walk'[r] = walk[r]
    BY <2>1 DEF Fetches, Waits, IInv, Types, WalkType
  <2>3. \A m \in Message, i \in Id : <<m, i>> \in walk'[q].todo => i = id[m]
    BY <2>1 DEF IInv, Types, WalkType
  <2>4. \A r \in Proc \ {q} : walk'[r] = walk[r]
    BY <2>1 DEF IInv, Types, WalkType
  <2>5. FiredType' /\ OnceIsDecided'
    BY <2>1, <2>2 DEF LInv, FiredType, OnceIsDecided, Decided, NeedsOptOutDecision
  <2>6. ASSUME NEW m \in Message, fired[m] # "anew"
        PROVE  /\ \A r \in Proc, i \in Id : walk'[r] # Nothing /\ <<m, i>> \in walk'[r].todo
                                            => i = id[m]
               /\ \A r \in Proc : Fetches(r, m)' =>
                    /\ walk'[r].body.id = id[m]
                    /\ walk'[r].body.contact = contactOf[From[m]]
               /\ \A r, t \in Proc : Fetches(r, m)' /\ Fetches(t, m)' => r = t
    <3>1. \A r \in Proc, i \in Id : walk'[r] # Nothing /\ <<m, i>> \in walk'[r].todo => i = id[m]
      BY <2>3, <2>4, <2>6 DEF LInv, OneJudge
    <3> QED
      BY <2>2, <2>6, <3>1 DEF LInv, OneJudge
  <2>7. OneJudge'
    BY <2>1, <2>6 DEF OneJudge
  <2> QED
    BY <2>5, <2>7 DEF LInv
<1>2. CASE WalkThrows(q) \/ WalkEnds(q)
  <2>1. walk' = [walk EXCEPT ![q] = Nothing] /\ UNCHANGED <<id, contactOf, seen, fired>>
    BY <1>2 DEF WalkThrows, WalkEnds, archiveVars, mailVars, crmVars
  <2>2. \A r \in Proc : walk'[r] # Nothing => walk'[r] = walk[r]
    BY <2>1 DEF IInv, Types, WalkType
  <2>3. \A r \in Proc, m \in Message : Fetches(r, m)' => Fetches(r, m) /\ walk'[r] = walk[r]
    BY <2>2 DEF Fetches, Waits
  <2>4. FiredType' /\ OnceIsDecided'
    BY <2>1, <2>3 DEF LInv, FiredType, OnceIsDecided, Decided, NeedsOptOutDecision
  <2>5. OneJudge'
    BY <2>1, <2>2, <2>3 DEF LInv, OneJudge
  <2> QED
    BY <2>4, <2>5 DEF LInv
<1>3. CASE BodyRead(q)
  <2>1. Waits(q)
    BY <1>3, Zenon DEF BodyRead, Waits
  <2>2. Judged(q, [optOut |-> walk[q].body.message \in BodyStops, full |-> TRUE])
    BY <1>3, Zenon DEF BodyRead
  <2>3. [optOut |-> walk[q].body.message \in BodyStops, full |-> TRUE]
          \in [optOut : BOOLEAN, full : BOOLEAN]
    OBVIOUS
  <2> QED
    BY <2>1, <2>2, <2>3, LiftJudged, Zenon
<1>4. CASE BodyMissed(q)
  <2>1. Waits(q) /\ \E v \in [optOut : BOOLEAN, full : BOOLEAN] : Judged(q, v)
    BY <1>4 DEF BodyMissed, Waits
  <2> QED
    BY <2>1, LiftJudged
<1> QED
  BY <1>1, <1>2, <1>3, <1>4, LiftLooks DEF WalkStep

LEMMA LInvStep == IInv /\ LInv /\ [Next]_allVars => LInv'
<1> SUFFICES ASSUME IInv, LInv, [Next]_allVars PROVE LInv'
  OBVIOUS
<1>1. CASE ServerDies
  <2>1. walk' = [walk EXCEPT ![Server] = Nothing] /\ UNCHANGED <<id, contactOf, seen, fired>>
    BY <1>1 DEF ServerDies, Dies, mailVars
  <2>2. \A r \in Proc : walk'[r] # Nothing => walk'[r] = walk[r]
    BY <2>1 DEF IInv, Types, WalkType
  <2>3. \A r \in Proc, m \in Message : Fetches(r, m)' => Fetches(r, m) /\ walk'[r] = walk[r]
    BY <2>2 DEF Fetches, Waits
  <2>4. FiredType' /\ OnceIsDecided'
    BY <2>1, <2>3 DEF LInv, FiredType, OnceIsDecided, Decided, NeedsOptOutDecision
  <2>5. OneJudge'
    BY <2>1, <2>2, <2>3 DEF LInv, OneJudge
  <2> QED
    BY <2>4, <2>5 DEF LInv
<1>2. ASSUME NEW p \in Person, QueueDraft(p) \/ AddSuppression(p) \/ RemoveSuppression(p)
      PROVE  LInv'
  <2>1. UNCHANGED <<id, contactOf, walk, fired, seen>>
    BY <1>2 DEF QueueDraft, AddSuppression, RemoveSuppression, archiveVars, mailVars, judgeVars
  <2> QED
    BY <2>1, NothingNew
<1>3. ASSUME NEW p \in Person, ClearOptOutFlags(p) PROVE LInv'
  <2>1. UNCHANGED <<id, contactOf, walk, fired>>
    BY <1>3 DEF ClearOptOutFlags, archiveVars, mailVars
  <2>2. \A x \in Id \X Contact : seen[x].optOut \/ seen[x].full => seen'[x].optOut \/ seen'[x].full
    BY <1>3 DEF ClearOptOutFlags, Cleared, IInv, Types, SeenType, Verdict
  <2> QED
    BY <2>1, <2>2, NothingNew
<1>4. ASSUME NEW p \in Person, ByHand(p) PROVE LInv'
  BY <1>2, <1>4, LiftContacts DEF ByHand
<1>5. CASE UNCHANGED allVars
  <2>1. UNCHANGED <<id, contactOf, walk, fired, seen>>
    BY <1>5 DEF allVars, archiveVars, mailVars, crmVars, judgeVars
  <2> QED
    BY <2>1, NothingNew
<1> QED
  BY <1>1, <1>3, <1>4, <1>5, LiftMailbox, LiftWalk DEF Next

\* The lifting of a suppression stands (crm/store.ts:768): no message suppresses
\* twice, but for the reasons that mark it "anew".
THEOREM LiftsStand == Spec => []LiftStands
<1>1. LInv => LiftStands
  BY DEF LInv, FiredType, LiftStands
<1> QED
  BY <1>1, IInvInit, IInvStep, LInvInit, LInvStep, PTL DEF Spec

-----------------------------------------------------------------------------
(* The archive log. *)

\* Rows are numbered apart, and none names an id that was not given yet.
LogInv ==
  /\ log \subseteq Row /\ lastRow \in Nat /\ clock \in 0..MaxClock
  /\ \A r \in log : r.row <= lastRow /\ r.id <= lastId
  /\ \A r, s \in log : r.row = s.row => r = s

Moved == [id : 0..MaxId, from : {"inbox", "away"}]

CallInv ==
  /\ call \in [Call -> Moved \cup {Nothing}]
  /\ \A c \in Call : call[c] # Nothing => call[c].id <= lastId

Archived(i) == \E m \in Message : folder[m] = "archive" /\ id[m] = i

\* No two messages have one name, and what the log owes a row for lies in the archive.
OwedInv ==
  /\ folder \in [Message -> {"none", "inbox", "archive", "away"}]
  /\ \A m \in Message : id[m] <= lastId
  /\ \A m, n \in Message : id[m] = id[n] /\ id[m] # NoId => m = n
  /\ \A i \in owed : Archived(i)

\* What an undo has still to do, it will do under the name in the log, if the row
\* is there still; what it is done with is owed no row any more.
UndoInv ==
  /\ undo = [k \in Click |-> undo[k]]
  /\ \A k \in Click : undo[k] # Nothing =>
       /\ undo[k].todo \subseteq Row
       /\ \A t \in undo[k].todo :
            /\ t.row <= lastRow /\ t.id <= lastId
            /\ \A r \in log : r.row = t.row => r.id = t.id
       /\ \A n \in undo[k].done :
            /\ n \in Nat /\ n <= lastRow
            /\ \A r \in log : r.row = n => r.id \notin owed

FInv == MailType /\ LogInv /\ CallInv /\ OwedInv /\ UndoInv /\ FiledIsOnRecord

LEMMA FInvInit == Init => FInv
<1> SUFFICES ASSUME Init PROVE FInv
  OBVIOUS
<1> USE ArchiveLogAssumption DEF Init, ArchiveInit, NoId
<1>1. MailType
  BY IInvInit DEF IInv, Types
<1>2. LogInv /\ CallInv /\ OwedInv /\ UndoInv
  BY DEF LogInv, CallInv, OwedInv, UndoInv
<1> QED
  BY <1>1, <1>2 DEF FInv, FiledIsOnRecord

\* A move gives m a name that no message, row or call has, and leaves the others.
LEMMA MoveNames ==
  ASSUME MailType, OwedInv, NEW m \in Message,
         NEW to \in {"none", "inbox", "archive", "away"}, Moves(m, to)
  PROVE  /\ MailType' /\ lastId' = lastId + 1 /\ lastId \in Nat
         /\ folder' \in [Message -> {"none", "inbox", "archive", "away"}]
         /\ id'[m] = lastId + 1 /\ folder'[m] = to
         /\ \A n \in Message : n # m => id'[n] = id[n] /\ folder'[n] = folder[n]
         /\ \A n \in Message : id'[n] <= lastId'
         /\ \A n, o \in Message : id'[n] = id'[o] /\ id'[n] # NoId => n = o
<1>1. MailType'
  BY MailStep
<1>2. /\ lastId' = lastId + 1 /\ lastId \in Nat /\ lastId + 1 # NoId
      /\ folder' \in [Message -> {"none", "inbox", "archive", "away"}]
      /\ id'[m] = lastId + 1 /\ folder'[m] = to
      /\ \A n \in Message : n # m => id'[n] = id[n] /\ folder'[n] = folder[n]
  BY ArchiveLogAssumption DEF Moves, MailType, OwedInv, NoId
<1>3. \A n \in Message : id[n] \in Nat /\ id[n] <= lastId
  BY ArchiveLogAssumption DEF OwedInv, MailType
<1>4. \A n \in Message : id'[n] <= lastId'
  BY <1>2, <1>3
<1>5. ASSUME NEW n \in Message, NEW o \in Message, id'[n] = id'[o], id'[n] # NoId
      PROVE  n = o
  BY <1>2, <1>3, <1>5 DEF OwedInv
<1> QED
  BY <1>1, <1>2, <1>4, <1>5

\* Rows go, new ones get new numbers, and nothing old becomes owed: what the undos
\* hold stays true.
LEMMA UndoKeeps ==
  ASSUME UndoInv, LogInv, UNCHANGED undo, lastRow' \in Nat, lastId \in Nat, lastId' \in Nat,
         lastRow <= lastRow', lastId <= lastId',
         \A r \in log' : r \in log \/ r.row > lastRow,
         \A i \in owed' : i \in owed \/ i > lastId
  PROVE  UndoInv'
<1>1. ASSUME NEW k \in Click, undo[k] # Nothing
      PROVE  /\ undo[k].todo \subseteq Row
             /\ \A t \in undo[k].todo :
                  /\ t.row <= lastRow' /\ t.id <= lastId'
                  /\ \A r \in log' : r.row = t.row => r.id = t.id
             /\ \A n \in undo[k].done :
                  /\ n \in Nat /\ n <= lastRow'
                  /\ \A r \in log' : r.row = n => r.id \notin owed'
  <2>1. undo[k].todo \subseteq Row
    BY <1>1 DEF UndoInv
  <2>2. ASSUME NEW t \in undo[k].todo
        PROVE  /\ t.row <= lastRow' /\ t.id <= lastId'
               /\ \A r \in log' : r.row = t.row => r.id = t.id
    <3>1. t.row \in Nat /\ t.id \in Nat /\ t.row <= lastRow /\ t.id <= lastId
      BY <1>1, <2>1, <2>2, ArchiveLogAssumption DEF UndoInv, Row, Id, NoId
    <3>2. \A r \in log : r.row = t.row => r.id = t.id
      BY <1>1, <2>2 DEF UndoInv
    <3> QED
      BY <3>1, <3>2 DEF LogInv
  <2>3. ASSUME NEW n \in undo[k].done
        PROVE  /\ n \in Nat /\ n <= lastRow'
               /\ \A r \in log' : r.row = n => r.id \notin owed'
    <3>1. n \in Nat /\ n <= lastRow /\ \A r \in log : r.row = n => r.id \notin owed
      BY <1>1, <2>3 DEF UndoInv
    <3>2. \A r \in log : r.id \in Nat /\ r.id <= lastId
      BY ArchiveLogAssumption DEF LogInv, Row, Id, NoId
    <3>3. n <= lastRow'
      BY <3>1 DEF LogInv
    <3>4. ASSUME NEW r \in log', r.row = n PROVE r \in log
      BY <3>1, <3>4 DEF LogInv
    <3> QED
      BY <3>1, <3>2, <3>3, <3>4
  <2> QED
    BY <2>1, <2>2, <2>3
<1> QED
  BY <1>1 DEF UndoInv

-----------------------------------------------------------------------------
(* The agent, other clients, arriving mail. *)

LEMMA FiledArrives ==
  ASSUME FInv, NEW m \in Message,
         Arrive(m) \/ \E to \in {"inbox", "away"} : OutsideMoves(m, to)
  PROVE  FInv'
<1> USE DEF FInv
<1>1. PICK to \in {"none", "inbox", "archive", "away"} : Moves(m, to)
  BY DEF Arrive, OutsideMoves
<1>2. /\ MailType' /\ lastId' = lastId + 1 /\ lastId \in Nat
      /\ folder' \in [Message -> {"none", "inbox", "archive", "away"}]
      /\ \A n \in Message : n # m => id'[n] = id[n] /\ folder'[n] = folder[n]
      /\ \A n \in Message : id'[n] <= lastId'
      /\ \A n, o \in Message : id'[n] = id'[o] /\ id'[n] # NoId => n = o
  BY <1>1, MoveNames
<1>3. /\ UNCHANGED <<log, lastRow, clock, call, undo>>
      /\ owed' \subseteq owed
      /\ folder[m] = "archive" => id[m] \notin owed'
  BY DEF Arrive, OutsideMoves, logVars
<1>4. \A i \in owed' : Archived(i)'
  BY <1>2, <1>3 DEF OwedInv, Archived
<1>5. OwedInv'
  BY <1>2, <1>4 DEF OwedInv
<1>6. LogInv'
  BY <1>2, <1>3, ArchiveLogAssumption DEF LogInv, Row, Id, NoId
<1>7. CallInv'
  BY <1>2, <1>3, ArchiveLogAssumption DEF CallInv, Moved
<1>8. UndoInv'
  BY <1>2, <1>3, UndoKeeps DEF LogInv
<1>9. FiledIsOnRecord'
  BY <1>3 DEF FiledIsOnRecord, IdsOf
<1> QED
  BY <1>2, <1>5, <1>6, <1>7, <1>8, <1>9

LEMMA FiledArchives ==
  ASSUME FInv, NEW c \in Call, NEW m \in Message, NEW named \in BOOLEAN,
         ArchiveOnServer(c, m, named)
  PROVE  FInv'
<1> USE DEF FInv
<1> DEFINE new == [id |-> IF named THEN id'[m] ELSE NoId, from |-> folder[m]]
<1>1. /\ MailType' /\ lastId' = lastId + 1 /\ lastId \in Nat /\ id'[m] = lastId + 1
      /\ folder' \in [Message -> {"none", "inbox", "archive", "away"}]
      /\ folder'[m] = "archive"
      /\ \A n \in Message : n # m => id'[n] = id[n] /\ folder'[n] = folder[n]
      /\ \A n \in Message : id'[n] <= lastId'
      /\ \A n, o \in Message : id'[n] = id'[o] /\ id'[n] # NoId => n = o
  BY MoveNames DEF ArchiveOnServer
<1>2. /\ UNCHANGED <<log, lastRow, clock, undo>>
      /\ call[c] = Nothing /\ call' = [call EXCEPT ![c] = new]
      /\ owed' = IF named THEN owed \cup {lastId + 1} ELSE owed
      /\ folder[m] \in {"inbox", "away"}
  BY <1>1 DEF ArchiveOnServer, logVars
<1>3. new \in Moved /\ new # Nothing /\ new.id <= lastId'
  BY <1>1, <1>2, ArchiveLogAssumption DEF Moved, NoId, MailType
<1>4. ASSUME NEW i \in owed' PROVE Archived(i)'
  <2>1. CASE i \in owed
    <3>1. PICK n \in Message : folder[n] = "archive" /\ id[n] = i
      BY <2>1 DEF OwedInv, Archived
    <3> QED
      BY <1>1, <1>2, <3>1 DEF Archived
  <2>2. CASE i = lastId + 1
    BY <1>1, <2>2 DEF Archived
  <2> QED
    BY <1>2, <1>4, <2>1, <2>2
<1>5. OwedInv'
  BY <1>1, <1>4 DEF OwedInv
<1>6. LogInv'
  BY <1>1, <1>2, ArchiveLogAssumption DEF LogInv, Row, Id, NoId
<1>7. CallInv'
  <2>1. call' \in [Call -> Moved \cup {Nothing}]
    BY <1>2, <1>3 DEF CallInv
  <2>2. ASSUME NEW d \in Call, call'[d] # Nothing PROVE call'[d].id <= lastId'
    <3>1. CASE d = c
      BY <1>2, <1>3, <3>1 DEF CallInv
    <3>2. CASE d # c
      BY <1>1, <1>2, <2>2, <3>2, ArchiveLogAssumption DEF CallInv, Moved
    <3> QED
      BY <3>1, <3>2
  <2> QED
    BY <2>1, <2>2 DEF CallInv
<1>8. UndoInv'
  BY <1>1, <1>2, UndoKeeps DEF LogInv
<1>9. ASSUME NEW i \in owed'
      PROVE  i \in IdsOf(log') \/ \E d \in Call : call'[d] # Nothing /\ call'[d].id = i
  <2>1. CASE i \in owed
    BY <1>2, <2>1 DEF FiledIsOnRecord, CallInv
  <2>2. CASE i \notin owed
    <3>1. named /\ i = lastId + 1
      BY <1>2, <1>9, <2>2
    <3>2. call'[c] = new
      BY <1>2 DEF CallInv
    <3> QED
      BY <1>1, <1>3, <3>1, <3>2
  <2> QED
    BY <2>1, <2>2
<1> QED
  BY <1>1, <1>5, <1>6, <1>7, <1>8, <1>9 DEF FiledIsOnRecord

LEMMA FiledRecords ==
  ASSUME FInv, NEW c \in Call, NEW who \in Who, ArchiveRecorded(c, who)
  PROVE  FInv'
<1> USE DEF FInv
<1> DEFINE new == [row |-> lastRow + 1, id |-> call[c].id, from |-> call[c].from,
                   who |-> who, at |-> clock']
<1>1. /\ UNCHANGED <<folder, id, lastId, undo, owed>>
      /\ lastRow' = lastRow + 1 /\ log' = log \cup {new} /\ clock' \in clock..MaxClock
      /\ call' = [call EXCEPT ![c] = Nothing] /\ call[c] # Nothing
  BY DEF ArchiveRecorded, mailVars
<1>2. call[c] \in Moved /\ call[c].id <= lastId
  BY <1>1 DEF CallInv
<1>3. clock' \in 0..MaxClock
  BY <1>1, ArchiveLogAssumption DEF LogInv
<1>4. new \in Row /\ new.row = lastRow + 1 /\ new.id = call[c].id
  BY <1>2, <1>3, ArchiveLogAssumption DEF Row, Moved, Id, NoId, LogInv
<1>5. LogInv'
  <2>1. \A r \in log : r.row \in Nat /\ r.row <= lastRow /\ lastRow \in Nat
    BY DEF LogInv, Row
  <2> HIDE DEF new
  <2>2. log' \subseteq Row /\ lastRow' \in Nat
    BY <1>1, <1>4 DEF LogInv
  <2>3. \A r \in log' : r.row <= lastRow' /\ r.id <= lastId'
    BY <1>1, <1>2, <1>4, <2>1 DEF LogInv
  <2>4. \A r, s \in log' : r.row = s.row => r = s
    BY <1>1, <1>4, <2>1 DEF LogInv
  <2> QED
    BY <1>3, <2>2, <2>3, <2>4 DEF LogInv
<1>6. MailType' /\ OwedInv'
  BY <1>1 DEF MailType, OwedInv, Archived
<1>7. CallInv'
  BY <1>1 DEF CallInv
<1>8. UndoInv'
  <2>1. \A r \in log' : r \in log \/ r.row > lastRow
    BY <1>1, <1>4 DEF LogInv
  <2>2. lastId \in Nat
    BY ArchiveLogAssumption DEF MailType
  <2> QED
    BY <1>1, <2>1, <2>2, UndoKeeps DEF LogInv
<1>9. FiledIsOnRecord'
  BY <1>1, <1>4 DEF FiledIsOnRecord, IdsOf, CallInv
<1> QED
  BY <1>5, <1>6, <1>7, <1>8, <1>9

\* A lost answer, or a death: what is no longer in a call is no longer owed.
LEMMA FiledForgotten ==
  ASSUME FInv, UNCHANGED <<mailVars, logVars>>, UNCHANGED undo \/ undo' = [k \in Click |-> Nothing],
         owed' \subseteq owed, call' \in [Call -> Moved \cup {Nothing}],
         \A c \in Call : call'[c] # Nothing => call'[c] = call[c],
         \A c \in Call : call'[c] = Nothing => call[c] = Nothing \/ call[c].id \notin owed'
  PROVE  FInv'
<1> USE DEF FInv, mailVars, logVars
<1>1. MailType' /\ LogInv' /\ OwedInv'
  BY DEF MailType, LogInv, OwedInv, Archived
<1>2. CallInv'
  BY DEF CallInv
<1>3. UndoInv'
  <2>1. CASE UNCHANGED undo
    BY <2>1, ArchiveLogAssumption, UndoKeeps DEF LogInv, MailType
  <2>2. CASE undo' = [k \in Click |-> Nothing]
    BY <2>2 DEF UndoInv
  <2> QED
    BY <2>1, <2>2
<1>4. FiledIsOnRecord'
  BY DEF FiledIsOnRecord, IdsOf
<1> QED
  BY <1>1, <1>2, <1>3, <1>4

-----------------------------------------------------------------------------
(* The card. *)

\* Rows are deleted and expire; what is still owed keeps its row, when nothing owed
\* has one of the numbers deleted.
LEMMA ForgetKeeps ==
  ASSUME FInv, NEW numbers, NEW excused, Forget(numbers, excused),
         UNCHANGED <<mailVars, lastRow, call>>,
         \A r \in log : r.row \in numbers => r.id \notin owed \ excused
  PROVE  /\ MailType' /\ LogInv' /\ CallInv' /\ OwedInv' /\ FiledIsOnRecord'
         /\ log' \subseteq log /\ owed' \subseteq owed
<1> USE DEF FInv, mailVars
<1>1. PICK now \in clock..MaxClock :
        /\ clock' = now
        /\ log' = {r \in log : r.row \notin numbers \cup RowsOf(Expired(now))}
        /\ owed' = owed \ (excused \cup IdsOf(Expired(now)))
  BY DEF Forget
<1>2. log' \subseteq log /\ owed' \subseteq owed /\ now \in 0..MaxClock
  BY <1>1, ArchiveLogAssumption DEF LogInv
<1>3. MailType' /\ CallInv' /\ OwedInv'
  BY <1>2 DEF MailType, CallInv, OwedInv, Archived
<1>4. LogInv'
  BY <1>1, <1>2 DEF LogInv
<1>5. ASSUME NEW r \in log, r.id \in owed' PROVE r \in log'
  <2>1. r.id \in owed \ excused /\ r.id \notin IdsOf(Expired(now))
    BY <1>1, <1>5
  <2>2. r.row \notin numbers
    BY <2>1
  <2>3. r.row \notin RowsOf(Expired(now))
    BY <2>1 DEF RowsOf, IdsOf, Expired, LogInv
  <2> QED
    BY <1>1, <2>2, <2>3
<1>6. FiledIsOnRecord'
  BY <1>2, <1>5 DEF FiledIsOnRecord, IdsOf
<1> QED
  BY <1>2, <1>3, <1>4, <1>6

LEMMA FiledCard ==
  ASSUME FInv, CardStep
  PROVE  FInv'
<1> USE DEF FInv
<1>1. ASSUME NEW first \in Listed, Dismiss(first) PROVE FInv'
  <2>1. \A r \in log : r.row \in RowsOf(Sweep(first)) => r.id \notin owed \ IdsOf(Sweep(first))
    BY DEF RowsOf, IdsOf, Sweep, Listed, LogInv
  <2>2. Forget(RowsOf(Sweep(first)), IdsOf(Sweep(first))) /\ UNCHANGED <<mailVars, lastRow, call, undo>>
    BY <1>1 DEF Dismiss
  <2>3. /\ MailType' /\ LogInv' /\ CallInv' /\ OwedInv' /\ FiledIsOnRecord'
        /\ log' \subseteq log /\ owed' \subseteq owed
    BY <2>1, <2>2, ForgetKeeps
  <2>4. UndoInv'
    BY <2>2, <2>3, ArchiveLogAssumption, UndoKeeps DEF LogInv, MailType, mailVars
  <2> QED
    BY <2>3, <2>4
<1>2. ASSUME NEW first \in Listed, NEW k \in Click, UndoBegins(k, first) PROVE FInv'
  <2>1. /\ UNCHANGED <<mailVars, logVars, call, owed>>
        /\ undo' = [undo EXCEPT ![k] = [todo |-> Sweep(first), done |-> {}]]
    BY <1>2 DEF UndoBegins
  <2>2. MailType' /\ LogInv' /\ CallInv' /\ OwedInv' /\ FiledIsOnRecord'
    BY <2>1 DEF MailType, LogInv, CallInv, OwedInv, FiledIsOnRecord, Archived, IdsOf, mailVars, logVars
  <2>3. Sweep(first) \subseteq log
    BY DEF Sweep, Listed
  <2>4. UndoInv'
    BY ZenonT(30), <2>1, <2>3 DEF UndoInv, LogInv, mailVars, logVars
  <2> QED
    BY <2>2, <2>4
<1>3. CASE ListSweeps
  <2>1. Forget({}, {}) /\ UNCHANGED <<mailVars, lastRow, call, undo>>
    BY <1>3 DEF ListSweeps
  <2>2. /\ MailType' /\ LogInv' /\ CallInv' /\ OwedInv' /\ FiledIsOnRecord'
        /\ log' \subseteq log /\ owed' \subseteq owed
    BY <2>1, ForgetKeeps
  <2>3. UndoInv'
    BY <2>1, <2>2, ArchiveLogAssumption, UndoKeeps DEF LogInv, MailType, mailVars
  <2> QED
    BY <2>2, <2>3
<1> QED
  BY <1>1, <1>2, <1>3 DEF CardStep

-----------------------------------------------------------------------------
(* An undo. *)

LEMMA NextRowIsTodo ==
  ASSUME UndoInv, NEW k \in Click, undo[k] # Nothing, undo[k].todo # {}
  PROVE  NextRow(k) \in undo[k].todo
<1> DEFINE numbers == {r.row : r \in undo[k].todo}
<1>1. numbers \in SUBSET Nat /\ numbers # {}
  BY DEF UndoInv, Row
<1> HIDE DEF numbers
<1>2. \E x \in numbers : \A y \in numbers : ~ (<<y, x>> \in OpToRel(<, Nat))
  BY <1>1, NatLessThanWellFounded, WFMin
<1>3. PICK x \in numbers : \A y \in numbers : ~ (y < x)
  BY <1>1, <1>2 DEF OpToRel
<1>4. \A y \in numbers : x <= y
  BY <1>1, <1>3
<1>5. \E r \in undo[k].todo : \A s \in undo[k].todo : r.row <= s.row
  BY <1>3, <1>4 DEF numbers
<1> QED
  BY <1>5 DEF NextRow

\* An undo that is done with the rows numbered "finished", which owe nothing any more.
LEMMA UndoAdvances ==
  ASSUME UndoInv, LogInv, NEW k \in Click, undo[k] # Nothing, NEW finished, UndoGoesOn(k, finished),
         UNCHANGED <<log, lastRow>>, lastId \in Nat, lastId' \in Nat, lastId <= lastId',
         owed' \subseteq owed,
         \A n \in finished : /\ n \in Nat /\ n <= lastRow
                             /\ \A r \in log : r.row = n => r.id \notin owed'
  PROVE  UndoInv'
<1>1. undo'[k] = [todo |-> undo[k].todo \ {NextRow(k)}, done |-> undo[k].done \cup finished]
  BY DEF UndoGoesOn, UndoInv
<1>2. undo' = [j \in Click |-> undo'[j]] /\ \A j \in Click : j # k => undo'[j] = undo[j]
  BY DEF UndoGoesOn, UndoInv
<1>3. ASSUME NEW j \in Click, undo'[j] # Nothing
      PROVE  /\ undo[j] # Nothing /\ undo'[j].todo \subseteq undo[j].todo
             /\ undo'[j].done \subseteq undo[j].done \cup finished
  BY <1>1, <1>2, <1>3
<1>4. ASSUME NEW j \in Click, undo'[j] # Nothing
      PROVE  /\ undo'[j].todo \subseteq Row
             /\ \A t \in undo'[j].todo :
                  /\ t.row <= lastRow' /\ t.id <= lastId'
                  /\ \A r \in log' : r.row = t.row => r.id = t.id
             /\ \A n \in undo'[j].done :
                  /\ n \in Nat /\ n <= lastRow'
                  /\ \A r \in log' : r.row = n => r.id \notin owed'
  <2>1. undo[j] # Nothing
    BY <1>3, <1>4
  <2>2. undo'[j].todo \subseteq Row
    BY <1>3, <1>4 DEF UndoInv
  <2>3. ASSUME NEW t \in undo'[j].todo
        PROVE  /\ t.row <= lastRow' /\ t.id <= lastId'
               /\ \A r \in log' : r.row = t.row => r.id = t.id
    <3>1. t \in undo[j].todo /\ t \in Row
      BY <1>3, <1>4, <2>3 DEF UndoInv
    <3>2. t.row <= lastRow /\ t.id <= lastId /\ \A r \in log : r.row = t.row => r.id = t.id
      BY <2>1, <3>1 DEF UndoInv
    <3>3. t.id \in Nat
      BY <3>1, ArchiveLogAssumption DEF Row, Id, NoId
    <3> QED
      BY <3>2, <3>3
  <2>4. ASSUME NEW n \in undo'[j].done
        PROVE  /\ n \in Nat /\ n <= lastRow'
               /\ \A r \in log' : r.row = n => r.id \notin owed'
    <3>1. CASE n \in finished
      BY <3>1
    <3>2. CASE n \in undo[j].done
      BY <2>1, <3>2 DEF UndoInv
    <3> QED
      BY <1>3, <1>4, <2>4, <3>1, <3>2
  <2> QED
    BY <2>2, <2>3, <2>4
<1> QED
  BY <1>2, <1>4 DEF UndoInv

LEMMA FiledUndone ==
  ASSUME FInv, NEW k \in Click, UndoStep(k)
  PROVE  FInv'
<1> USE DEF FInv
<1> DEFINE next == NextRow(k)
<1>1. lastId \in Nat /\ lastRow \in Nat
  BY ArchiveLogAssumption DEF MailType, LogInv
<1>2. ASSUME undo[k] # Nothing, undo[k].todo # {}
      PROVE  /\ next.row \in Nat /\ next.row <= lastRow
             /\ \A r \in log : r.row = next.row => r.id = next.id
  <2>1. next \in undo[k].todo
    BY <1>2, NextRowIsTodo
  <2>2. next \in Row
    BY <1>2, <2>1 DEF UndoInv
  <2> HIDE DEF next
  <2>3. next.row <= lastRow /\ \A r \in log : r.row = next.row => r.id = next.id
    BY <1>2, <2>1 DEF UndoInv
  <2> QED
    BY <2>2, <2>3 DEF Row
<1>3. ASSUME NEW m \in Message, UndoMoves(k, m) PROVE FInv'
  <2>1. /\ undo[k] # Nothing /\ undo[k].todo # {} /\ UndoGoesOn(k, {next.row})
        /\ UNCHANGED <<log, lastRow, clock, call>> /\ owed' = owed \ {id[m]}
        /\ folder[m] = "archive" /\ next.id = id[m] /\ Moves(m, next.from)
    BY <1>3 DEF UndoMoves, logVars
  <2>2. next.from \in {"none", "inbox", "archive", "away"}
    BY <2>1, NextRowIsTodo DEF UndoInv, Row
  <2>3. /\ MailType' /\ lastId' = lastId + 1
        /\ folder' \in [Message -> {"none", "inbox", "archive", "away"}]
        /\ \A n \in Message : n # m => id'[n] = id[n] /\ folder'[n] = folder[n]
        /\ \A n \in Message : id'[n] <= lastId'
        /\ \A n, o \in Message : id'[n] = id'[o] /\ id'[n] # NoId => n = o
    BY <2>1, <2>2, MoveNames
  <2>4. OwedInv'
    BY <2>1, <2>3 DEF OwedInv, Archived
  <2>5. LogInv'
    BY <2>1, <2>3, ArchiveLogAssumption DEF LogInv, Row, Id, NoId, MailType
  <2>6. CallInv'
    BY <1>1, <2>1, <2>3, ArchiveLogAssumption DEF CallInv, Moved
  <2>7. \A n \in {next.row} : /\ n \in Nat /\ n <= lastRow
                              /\ \A r \in log : r.row = n => r.id \notin owed'
    BY <1>2, <2>1
  <2>8. UndoInv'
    BY <1>1, <2>1, <2>3, <2>7, UndoAdvances
  <2>9. FiledIsOnRecord'
    BY <2>1 DEF FiledIsOnRecord, IdsOf
  <2> QED
    BY <2>3, <2>4, <2>5, <2>6, <2>8, <2>9
<1>4. ASSUME NEW finished, undo[k] # Nothing, UndoGoesOn(k, finished),
             UNCHANGED <<mailVars, logVars, call>>, owed' \subseteq owed,
             \A n \in finished : /\ n \in Nat /\ n <= lastRow
                                 /\ \A r \in log : r.row = n => r.id \notin owed'
      PROVE  FInv'
  <2>1. MailType' /\ LogInv' /\ CallInv' /\ OwedInv' /\ FiledIsOnRecord'
    BY <1>4 DEF MailType, LogInv, CallInv, OwedInv, FiledIsOnRecord, Archived, IdsOf, mailVars, logVars
  <2>2. UndoInv'
    BY <1>1, <1>4, UndoAdvances DEF mailVars, logVars
  <2> QED
    BY <2>1, <2>2
<1>5. CASE UndoFindsNothing(k)
  <2>1. /\ undo[k] # Nothing /\ undo[k].todo # {} /\ UndoGoesOn(k, {next.row})
        /\ UNCHANGED <<mailVars, logVars, call, owed>>
        /\ next.id \notin owed
    BY <1>5 DEF UndoFindsNothing, OwedInv, Archived
  <2> QED
    BY <1>2, <1>4, <2>1
<1>6. CASE UndoRefused(k)
  <2>1. /\ undo[k] # Nothing /\ undo[k].todo # {} /\ UndoGoesOn(k, {next.row})
        /\ UNCHANGED <<mailVars, logVars, call>>
        /\ owed' = owed \ {next.id}
    BY <1>6 DEF UndoRefused
  <2> QED
    BY <1>2, <1>4, <2>1
<1>7. CASE UndoThrows(k)
  <2>1. undo[k] # Nothing /\ UndoGoesOn(k, {}) /\ UNCHANGED <<mailVars, logVars, call, owed>>
    BY <1>7 DEF UndoThrows
  <2> QED
    BY <1>4, <2>1
<1>8. CASE UndoEnds(k)
  <2>1. /\ undo[k] # Nothing /\ Forget(undo[k].done, {})
        /\ undo' = [undo EXCEPT ![k] = Nothing] /\ UNCHANGED <<mailVars, lastRow, call>>
    BY <1>8 DEF UndoEnds
  <2>2. \A r \in log : r.row \in undo[k].done => r.id \notin owed \ {}
    BY <2>1 DEF UndoInv
  <2>3. /\ MailType' /\ LogInv' /\ CallInv' /\ OwedInv' /\ FiledIsOnRecord'
        /\ log' \subseteq log /\ owed' \subseteq owed
    BY <2>1, <2>2, ForgetKeeps
  <2>4. undo' = [j \in Click |-> undo'[j]]
        /\ \A j \in Click : undo'[j] # Nothing => undo'[j] = undo[j]
    BY <2>1 DEF UndoInv
  <2>5. UndoInv'
    BY <2>1, <2>3, <2>4 DEF UndoInv, mailVars
  <2> QED
    BY <2>3, <2>5
<1> QED
  BY <1>3, <1>5, <1>6, <1>7, <1>8 DEF UndoStep

-----------------------------------------------------------------------------
LEMMA FInvStep == FInv /\ [Next]_allVars => FInv'
<1> SUFFICES ASSUME FInv, [Next]_allVars PROVE FInv'
  OBVIOUS
<1>1. ASSUME NEW c \in Call, ArchiveUnrecorded(c) PROVE FInv'
  <2>1. /\ UNCHANGED <<mailVars, logVars, undo>> /\ owed' = owed \ {call[c].id}
        /\ call' = [call EXCEPT ![c] = Nothing]
    BY <1>1 DEF ArchiveUnrecorded
  <2>2. /\ call' \in [Call -> Moved \cup {Nothing}]
        /\ \A d \in Call : call'[d] # Nothing => call'[d] = call[d]
        /\ \A d \in Call : call'[d] = Nothing => call[d] = Nothing \/ call[d].id \notin owed'
    BY <2>1 DEF FInv, CallInv
  <2> QED
    BY <2>1, <2>2, FiledForgotten
<1>2. CASE ServerDies
  <2>1. /\ UNCHANGED <<mailVars, logVars>> /\ undo' = [k \in Click |-> Nothing]
        /\ owed' = owed \ {call[c].id : c \in {d \in Call : call[d] # Nothing}}
        /\ call' = [c \in Call |-> Nothing]
    BY <1>2 DEF ServerDies, Dies
  <2>2. /\ call' \in [Call -> Moved \cup {Nothing}]
        /\ \A d \in Call : call'[d] # Nothing => call'[d] = call[d]
        /\ \A d \in Call : call'[d] = Nothing => call[d] = Nothing \/ call[d].id \notin owed'
    BY <2>1
  <2> QED
    BY <2>1, <2>2, FiledForgotten
<1>3. CASE Mailbox
  BY <1>1, <1>3, FiledArrives, FiledArchives, FiledRecords, FiledUndone, FiledCard DEF Mailbox
<1>4. CASE UNCHANGED archiveVars
  BY <1>4 DEF FInv, MailType, LogInv, CallInv, OwedInv, UndoInv, FiledIsOnRecord, Archived, IdsOf,
              archiveVars, mailVars, logVars
<1>5. ASSUME NEW p \in Person, ByHand(p) \/ ClearOptOutFlags(p) PROVE UNCHANGED archiveVars
  BY <1>5 DEF ByHand, ClearOptOutFlags, AddContact, DeleteContact, QueueDraft, AddSuppression,
              RemoveSuppression
<1>6. ASSUME NEW q \in Proc, WalkStep(q) PROVE UNCHANGED archiveVars
  BY <1>6 DEF WalkStep, WalkBegins, WalkLooks, WalkEnds, BodyRead, BodyMissed, WalkThrows, Judged
<1> QED
  BY <1>2, <1>3, <1>4, <1>5, <1>6 DEF Next, allVars

\* The log, its calls and its undos are well typed.
THEOREM ArchiveTypeCorrect == Spec => []ArchiveTypeOK
<1>1. FInv => ArchiveTypeOK
  BY DEF FInv, MailType, LogInv, CallInv, OwedInv, UndoInv, Moved, ArchiveTypeOK
<1> QED
  BY <1>1, FInvInit, FInvStep, PTL DEF Spec

\* What an agent archived can be undone (agent/archive-log.ts:131-192): a message
\* that lies where an archive left it keeps its row, for any number of calls and
\* undos at once, any sweeps, and whatever other clients, dismissals and throws
\* come between, until one of the named faults or the person takes it.
THEOREM FiledStaysOnRecord == Spec => []FiledIsOnRecord
  BY FInvInit, FInvStep, PTL DEF Spec, FInv
=============================================================================
