-------------------------------- MODULE OptOut --------------------------------
(***************************************************************************)
(* A person writes "stop": the walk of the CRM sync                        *)
(* (src/src/crm/service.ts, src/src/crm/store.ts) judges the mail, the     *)
(* sink of src/src/platform.ts suppresses the address, and a human may     *)
(* lift the suppression again (src/src/outreach/routes.ts).                *)
(*                                                                         *)
(* The walk remembers what it judged by message id and contact id, and     *)
(* both change under it: ArchiveLog moves messages, contacts are deleted   *)
(* and derived anew.  `boxaide mcp` serves the sync too, so every process  *)
(* has a walk of its own.                                                  *)
(***************************************************************************)
EXTENDS ArchiveLog

CONSTANTS
  Proc,            \* processes over one data directory
  Server,          \* the one whose timer syncs
  Person,
  From,            \* who wrote each message
  BodyStops,       \* messages whose body asks to stop
  SnippetStops,    \* messages whose snippet or subject reads as if it did
  NoBody,          \* a walk that waits for no body
  MaxContact,      \* bound: contact rows ever made
  MaxActs          \* bound: contacts, drafts and suppressions made or unmade by hand

Contact == 1..MaxContact
NoContact == 0

ASSUME OptOutAssumption ==
  /\ Server \in Proc
  /\ From \in [Message -> Person]
  /\ BodyStops \subseteq Message /\ SnippetStops \subseteq Message
  /\ MaxContact \in Nat /\ MaxActs \in Nat

VARIABLES
  contactOf,       \* contacts, by address
  lastContact,
  seen,            \* interactions: the verdict on a message under a contact
  drafted,         \* the contacts an outbox row names
  suppressed,      \* suppression
  lifting,         \* the address whose suppression is gone, its flags not yet
  acts,            \* spent of MaxActs
  walk,            \* per process: messages still to look at, and the one fetched
  fired,           \* history: how often each message suppressed its sender, or
                   \* "anew": it came to be judged again for a named reason
  unscoped         \* history: flags set when no outbox row named the contact, and those
                   \* a death left behind in the middle of a lift

crmVars == <<contactOf, lastContact, seen, drafted, suppressed, lifting>>
judgeVars == <<walk, fired, unscoped>>
allVars == <<archiveVars, crmVars, acts, judgeVars>>

\* opt_out and opt_out_full of a row, if there is one
Verdict == [optOut : BOOLEAN, full : BOOLEAN, row : BOOLEAN]
Unseen == [optOut |-> FALSE, full |-> FALSE, row |-> FALSE]

Init ==
  /\ ArchiveInit
  /\ contactOf = [p \in Person |-> NoContact]
  /\ lastContact = 0
  /\ seen = [x \in Id \X Contact |-> Unseen]
  /\ drafted = {} /\ suppressed = {} /\ lifting = {}
  /\ acts = 0
  /\ walk = [q \in Proc |-> Nothing]
  /\ fired = [m \in Message |-> "never"]
  /\ unscoped = {}

Anew(messages) == [m \in Message |-> IF m \in messages THEN "anew" ELSE fired[m]]

-----------------------------------------------------------------------------
(* Contacts and drafts *)

\* upsertContact
Upsert(p) ==
  IF contactOf[p] # NoContact
  THEN UNCHANGED <<contactOf, lastContact>>
  ELSE /\ lastContact < MaxContact
       /\ lastContact' = lastContact + 1
       /\ contactOf' = [contactOf EXCEPT ![p] = lastContact + 1]

\* crm_contact_upsert, an import, or a mail the user sent.
AddContact(p) ==
  /\ contactOf[p] = NoContact
  /\ Upsert(p)
  /\ UNCHANGED <<archiveVars, seen, drafted, suppressed, lifting, judgeVars>>

\* Its interactions go with it; outbox rows keep its id.
DeleteContact(p) ==
  /\ contactOf[p] # NoContact
  /\ lastContact < MaxContact
  /\ seen' = [x \in Id \X Contact |-> IF x[2] = contactOf[p] THEN Unseen ELSE seen[x]]
  /\ contactOf' = [contactOf EXCEPT ![p] = NoContact]
  /\ fired' = Anew({m \in Message : From[m] = p})
  /\ unscoped' = {u \in unscoped : u[2] # contactOf[p]}
  /\ UNCHANGED <<archiveVars, lastContact, drafted, suppressed, lifting, walk>>

\* A draft that names its contact.  One queued with an address alone leaves no
\* trace hasOutreachHistory could see.
QueueDraft(p) ==
  /\ contactOf[p] \notin {NoContact} \cup drafted
  /\ drafted' = drafted \cup {contactOf[p]}
  /\ UNCHANGED <<archiveVars, contactOf, lastContact, seen, suppressed, lifting, judgeVars>>

-----------------------------------------------------------------------------
(* Suppression *)

AddSuppression(p) ==
  /\ p \notin suppressed
  /\ suppressed' = suppressed \cup {p}
  /\ UNCHANGED <<archiveVars, contactOf, lastContact, seen, drafted, lifting, judgeVars>>

\* DELETE .../suppression/:email: two statements of one handler.
RemoveSuppression(p) ==
  /\ p \in suppressed /\ lifting = {}
  /\ suppressed' = suppressed \ {p}
  /\ lifting' = {p}
  /\ UNCHANGED <<archiveVars, contactOf, lastContact, seen, drafted, judgeVars>>

\* Mutant of Cleared: a flag raised on a snippet stays to be judged again.
ClearedOnly(v) == [v EXCEPT !.optOut = FALSE]

\* The human has ruled: no later walk fetches the message for a better verdict.
Cleared(v) == [v EXCEPT !.optOut = FALSE, !.full = TRUE]

\* Mutant of ClearOptOutFlags: the flags outlive the suppression.
ClearNothing(p) ==
  /\ p \in lifting
  /\ lifting' = {}
  /\ UNCHANGED <<archiveVars, contactOf, lastContact, seen, drafted, suppressed, acts, judgeVars>>

ClearOptOutFlags(p) ==
  /\ p \in lifting
  /\ seen' = [x \in Id \X Contact |->
                IF x[2] = contactOf[p] /\ seen[x].optOut THEN Cleared(seen[x])
                ELSE seen[x]]
  /\ lifting' = {}
  /\ unscoped' = {u \in unscoped : u[2] # contactOf[p]}
  /\ UNCHANGED <<archiveVars, contactOf, lastContact, drafted, suppressed, acts, walk, fired>>

-----------------------------------------------------------------------------
(* The walk *)

\* syncFromMail: one walk per process, over INBOX as it is listed now.
WalkBegins(q) ==
  /\ walk[q] = Nothing
  /\ walk' = [walk EXCEPT ![q] =
               [todo |-> {<<m, id[m]>> : m \in {n \in Message : folder[n] = "inbox"}},
                body |-> NoBody]]
  /\ UNCHANGED <<archiveVars, crmVars, acts, fired, unscoped>>

\* Mutant of NeedsOptOutDecision: any row is a judgement.
NeedsFirst(i, c) == ~seen[<<i, c>>].row

\* needsOptOutDecision: a verdict on a snippet that found nothing is none.
NeedsOptOutDecision(i, c) == ~seen[<<i, c>>].optOut /\ ~seen[<<i, c>>].full

\* The newest message left: its sender is a contact from now on, and its body is
\* asked for if its verdict is open.
WalkLooks(q) ==
  /\ walk[q] # Nothing /\ walk[q].body = NoBody
  /\ \E s \in walk[q].todo :
       LET m == s[1]  c == contactOf'[From[m]] IN
       /\ \A t \in walk[q].todo : t[1] <= m
       /\ Upsert(From[m])
       /\ walk' = [walk EXCEPT ![q] =
                    [todo |-> @.todo \ {s},
                     body |-> IF NeedsOptOutDecision(s[2], c)
                              THEN [message |-> m, id |-> s[2], contact |-> c]
                              ELSE NoBody]]
       /\ fired' = IF \E r \in Proc \ {q} : /\ walk[r] # Nothing /\ walk[r].body # NoBody
                                            /\ walk[r].body.message = m
                   THEN Anew({m}) ELSE fired
  /\ UNCHANGED <<archiveVars, seen, drafted, suppressed, lifting, acts, unscoped>>

\* addInteraction, and the sink, for what the walk waited for: a flag is never
\* taken back, and only contacts outreach wrote to are suppressed.
Judged(q, v) ==
  LET b == walk[q].body
      in == b.contact \in drafted
  IN
  /\ seen' = [seen EXCEPT ![<<b.id, b.contact>>] =
               [optOut |-> @.optOut \/ v.optOut, full |-> @.full \/ v.full, row |-> TRUE]]
  /\ suppressed' = IF v.optOut /\ in THEN suppressed \cup {From[b.message]} ELSE suppressed
  /\ fired' = IF v.optOut /\ in
              THEN [fired EXCEPT ![b.message] =
                      CASE @ = "never" -> "once" [] @ = "anew" -> "anew" [] OTHER -> "twice"]
              ELSE fired
  /\ unscoped' = IF v.optOut /\ ~in THEN unscoped \cup {<<b.id, b.contact>>} ELSE unscoped
  /\ walk' = [walk EXCEPT ![q].body = NoBody]
  /\ UNCHANGED <<archiveVars, contactOf, lastContact, drafted, lifting, acts>>

\* detectOptOut: the body, if the message is still where it was listed ...
BodyRead(q) ==
  /\ walk[q] # Nothing /\ walk[q].body # NoBody
  /\ LET b == walk[q].body
     IN  /\ folder[b.message] = "inbox" /\ id[b.message] = b.id
         /\ Judged(q, [optOut |-> b.message \in BodyStops, full |-> TRUE])

\* ... or what the list showed of it: its snippet, if that could be fetched.
BodyMissed(q) ==
  /\ walk[q] # Nothing /\ walk[q].body # NoBody
  /\ \E shown \in BOOLEAN :
       Judged(q, [optOut |-> shown /\ walk[q].body.message \in SnippetStops, full |-> FALSE])

\* The contact was deleted meanwhile: where foreign keys are enforced (the code
\* leaves the driver's default) the INSERT throws, and the walk is over.
WalkThrows(q) ==
  /\ walk[q] # Nothing /\ walk[q].body # NoBody
  /\ \A p \in Person : contactOf[p] # walk[q].body.contact
  /\ walk' = [walk EXCEPT ![q] = Nothing]
  /\ UNCHANGED <<archiveVars, crmVars, acts, fired, unscoped>>

WalkEnds(q) ==
  /\ walk[q] # Nothing /\ walk[q].body = NoBody /\ walk[q].todo = {}
  /\ walk' = [walk EXCEPT ![q] = Nothing]
  /\ UNCHANGED <<archiveVars, crmVars, acts, fired, unscoped>>

-----------------------------------------------------------------------------
\* A message that moves is one the walk has never seen.
Mailbox ==
  /\ \/ \E m \in Message : Arrive(m) \/ \E to \in {"inbox", "away"} : OutsideMoves(m, to)
     \/ \E c \in Call : \E m \in Message : \E named \in BOOLEAN : ArchiveOnServer(c, m, named)
     \/ \E c \in Call : ArchiveUnrecorded(c) \/ \E w \in Who : ArchiveRecorded(c, w)
     \/ \E k \in Click : UndoStep(k)
     \/ CardStep
  /\ fired' = Anew({m \in Message : id[m] # NoId /\ id'[m] # id[m]})
  /\ UNCHANGED <<crmVars, acts, walk, unscoped>>

\* The server dies, its walk with it, a lift perhaps half done.
ServerDies ==
  /\ Dies
  /\ walk' = [walk EXCEPT ![Server] = Nothing]
  /\ lifting' = {}
  /\ unscoped' = unscoped \cup {<<i, contactOf[p]>> : i \in Id, p \in lifting}
  /\ UNCHANGED <<contactOf, lastContact, seen, drafted, suppressed, acts, fired>>

\* The user, at the web UI or through an agent's tools.
ByHand(p) ==
  /\ acts < MaxActs
  /\ acts' = acts + 1
  /\ \/ AddContact(p) \/ DeleteContact(p) \/ QueueDraft(p)
     \/ AddSuppression(p) \/ RemoveSuppression(p)

\* The server's walk does not come between the two statements of a lift; that of
\* another process may.
WalkStep(q) ==
  /\ q = Server => lifting = {}
  /\ \/ WalkBegins(q) \/ WalkLooks(q) \/ WalkEnds(q)
     \/ BodyRead(q) \/ BodyMissed(q) \/ WalkThrows(q)

Next ==
  \/ Mailbox \/ ServerDies
  \/ \E p \in Person : ByHand(p) \/ ClearOptOutFlags(p)
  \/ \E q \in Proc : WalkStep(q)

Spec == Init /\ [][Next]_allVars

\* The timer runs, commands are answered or fail, a handler ends, and when bodies
\* are asked for again and again one is read in the end.
FairSpec ==
  /\ Spec
  /\ WF_allVars(WalkStep(Server)) /\ SF_allVars(BodyRead(Server))
  /\ \A p \in Person : WF_allVars(ClearOptOutFlags(p))

-----------------------------------------------------------------------------
(* Properties *)

TypeOK ==
  /\ ArchiveTypeOK
  /\ contactOf \in [Person -> 0..MaxContact] /\ lastContact \in 0..MaxContact
  /\ seen \in [Id \X Contact -> Verdict]
  /\ drafted \subseteq Contact /\ suppressed \subseteq Person /\ lifting \subseteq Person

\* The flag and the suppression list agree (contact state reads one, the send
\* guard the other): who is flagged is suppressed, or a lift is about to clear the
\* flag, or nothing was ever drafted to that contact when the flag was set, or the
\* process died between the two statements of a lift.
FlaggedIsSuppressed ==
  \A p \in Person : contactOf[p] # NoContact =>
    \A i \in Id : seen[<<i, contactOf[p]>>].optOut /\ <<i, contactOf[p]>> \notin unscoped
                  => p \in suppressed \cup lifting

\* A message suppresses once, so the lifting of a suppression stands until the
\* person says stop again - also one judged by its snippet first - unless the
\* message came back under another id, the contact was derived anew or two
\* processes judged it at once.
LiftStands == \A m \in Message : fired[m] # "twice"

Judgement(m) == \E c \in Contact : seen[<<id[m], c>>].full \/ seen[<<id[m], c>>].optOut

\* Every message that stays in the inbox is judged by its body in the end, or
\* flagged before, however often the server could not be reached.
StopIsJudged ==
  \A m \in Message : folder[m] = "inbox" ~> folder[m] # "inbox" \/ Judgement(m)

=============================================================================
