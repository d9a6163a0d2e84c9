--------------------------- MODULE OutreachProofs ---------------------------
(***************************************************************************)
(* Proofs about the outreach engine, for every number of rows, set of      *)
(* accounts and drafts, cap, pass limit and number of faults: the state is *)
(* well typed, the daily cap holds, and the engine keeps the outbox's      *)
(* promise.                                                                *)
(***************************************************************************)
EXTENDS Outreach, FiniteSetTheorems, TLAPS

-----------------------------------------------------------------------------
(* Type correctness. *)

\* Starting a pass, or asking for another one, keeps the engine's types.
LEMMA KickType ==
  ASSUME TypeOK, NEW st, Kick(st)
  PROVE  /\ pc' \in Phase
         /\ todo' \subseteq Row
         /\ counted' \in [Account -> Nat \cup {Unread}]
         /\ rerun' \in BOOLEAN
         /\ sinceSend' = sinceSend
         /\ beyond' \subseteq Row
BY DEF TypeOK, Kick, StartPass, OldestApproved, InStatus, Phase, Unread

\* The count the loop reads is a number: SentToday is a finite set of rows.
LEMMA SentSoFarType ==
  ASSUME TypeOK, NEW a \in Account
  PROVE  /\ SentSoFar(a) \in Nat
         /\ IsFiniteSet(SentToday(a))
         /\ Cardinality(SentToday(a)) \in Nat
<1>1. IsFiniteSet(Row)
  BY FS_Interval, OutreachAssumption DEF Row
<1>2. SentToday(a) \subseteq Row
  BY DEF SentToday
<1>3. IsFiniteSet(SentToday(a))
  BY <1>1, <1>2, FS_Subset
<1>4. Cardinality(SentToday(a)) \in Nat
  BY <1>3, FS_CardinalityType
<1>5. QED
  BY <1>3, <1>4 DEF SentSoFar, TypeOK, Unread

\* Every row the agent queued says something.
RowsHaveDrafts == \A r \in Row : status[r] # "none" => draft[r] \in Draft

\* The rows a pass still holds are approved: only the engine closes them.
TodoApproved == \A r \in todo : status[r] = "approved"

\* The type invariant, with the two facts it needs about the rows of a pass.
TInv == TypeOK /\ RowsHaveDrafts /\ TodoApproved

LEMMA InitTInv == Init => TInv
<1>1. Gap \in 0..Gap /\ 0 \in 0..MaxFaults
  BY OutreachAssumption
<1> SUFFICES ASSUME Init
             PROVE  TInv
  OBVIOUS
<1>2. TypeOK
  BY <1>1 DEF Init, TypeOK, Status, Phase, Unread, Forgotten
<1>3. RowsHaveDrafts /\ TodoApproved
  BY DEF Init, RowsHaveDrafts, TodoApproved
<1>4. QED
  BY <1>2, <1>3 DEF TInv

\* The account of a row in hand is one of the accounts.
LEMMA InHandAccount ==
  ASSUME TInv, NEW r \in Row, InHand(r)
  PROVE  AccountOf[draft[r]] \in Account /\ draft[r] \in Draft /\ status[r] = "approved"
BY OutreachAssumption DEF TInv, RowsHaveDrafts, TodoApproved, InHand

LEMMA NextTInv ==
  ASSUME TInv, [Next]_vars
  PROVE  TInv'
<1> USE DEF TInv, TypeOK, RowsHaveDrafts, TodoApproved, outboxVars, engineVars, historyVars
<1>1. CASE UNCHANGED vars
  BY <1>1 DEF vars
<1>2. ASSUME NEW d \in Draft, QueueDraft(d)
      PROVE  TInv'
  BY <1>2 DEF QueueDraft, InStatus, Status
<1>3. ASSUME NEW r \in Row, Approve(r)
      PROVE  TInv'
  <2>1. /\ pc' \in Phase /\ todo' \subseteq Row /\ rerun' \in BOOLEAN
        /\ counted' \in [Account -> Nat \cup {Unread}] /\ sinceSend' = sinceSend
        /\ beyond' \subseteq Row
    BY <1>3, KickType DEF Approve
  <2>2. TodoApproved'
    BY <1>3 DEF Approve, Kick, StartPass, OldestApproved, InStatus
  <2>3. QED
    BY <1>3, <2>1, <2>2 DEF Approve, Status
<1>4. ASSUME NEW r \in Row, Reject(r)
      PROVE  TInv'
  BY <1>4 DEF Reject, Status
<1>5. ASSUME NEW a \in Recipient, AddSuppression(a)
      PROVE  TInv'
  BY <1>5 DEF AddSuppression
<1>6. ASSUME NEW a \in Recipient, RemoveSuppression(a)
      PROVE  TInv'
  <2>1. /\ pc' \in Phase /\ todo' \subseteq Row /\ rerun' \in BOOLEAN
        /\ counted' \in [Account -> Nat \cup {Unread}] /\ sinceSend' = sinceSend
        /\ beyond' \subseteq Row
    BY <1>6, KickType DEF RemoveSuppression
  <2>2. TodoApproved'
    BY <1>6 DEF RemoveSuppression, Kick, StartPass, OldestApproved, InStatus
  <2>3. QED
    BY <1>6, <2>1, <2>2 DEF RemoveSuppression
<1>7. CASE HourlyTick
  <2>1. /\ pc' \in Phase /\ todo' \subseteq Row /\ rerun' \in BOOLEAN
        /\ counted' \in [Account -> Nat \cup {Unread}] /\ sinceSend' = sinceSend
        /\ beyond' \subseteq Row
    BY <1>7, KickType DEF HourlyTick
  <2>2. TodoApproved'
    BY <1>7 DEF HourlyTick, Kick, StartPass, OldestApproved, InStatus
  <2>3. QED
    BY <1>7, <2>1, <2>2 DEF HourlyTick
<1>8. ASSUME NEW r \in Row,
             SkipOverCap(r) \/ FailSuppressed(r) \/ AskVerifier(r)
      PROVE  TInv'
  <2>1. InHand(r)
    BY <1>8 DEF SkipOverCap, FailSuppressed, AskVerifier
  <2>2. AccountOf[draft[r]] \in Account
    BY <2>1, InHandAccount
  <2>3. SentSoFar(AccountOf[draft[r]]) \in Nat
    BY <2>2, SentSoFarType
  <2>4. counted' \in [Account -> Nat \cup {Unread}]
    BY <1>8, <2>2, <2>3 DEF SkipOverCap, FailSuppressed, AskVerifier, ReadCount
  <2>5. CASE SkipOverCap(r)
    BY <2>4, <2>5 DEF SkipOverCap, NextRow, Phase
  <2>6. CASE FailSuppressed(r)
    BY <2>4, <2>6 DEF FailSuppressed, NextRow, MarkFailed, Phase, Status
  <2>7. CASE AskVerifier(r)
    BY <2>4, <2>7 DEF AskVerifier, Phase
  <2>8. QED
    BY <1>8, <2>5, <2>6, <2>7
<1>9. ASSUME NEW r \in Row, FailInvalid(r)
      PROVE  TInv'
  BY <1>9 DEF FailInvalid, NextRow, MarkFailed, Phase, Status
<1>10. CASE PassVerifier
  BY <1>10 DEF PassVerifier, Phase
<1>11. ASSUME NEW r \in Row, GuardRefuses(r)
       PROVE  TInv'
  BY <1>11, OutreachAssumption DEF GuardRefuses, NextRow, MarkFailed, Phase, Status
<1>12. ASSUME NEW r \in Row, HandOff(r)
       PROVE  TInv'
  BY <1>12 DEF HandOff, Phase
<1>13. ASSUME NEW r \in Row, ServerAccepts(r)
       PROVE  TInv'
  BY <1>13, OutreachAssumption DEF ServerAccepts, Phase
<1>14. ASSUME NEW r \in Row, RecordSent(r)
       PROVE  TInv'
  <2>1. AccountOf[draft[r]] \in Account
    BY <1>14, InHandAccount DEF RecordSent
  <2>2. counted' \in [Account -> Nat \cup {Unread}]
    BY <1>14, <2>1 DEF RecordSent, Unread
  <2>3. QED
    BY <1>14, <2>2, OutreachAssumption DEF RecordSent, NextRow, Phase, Status
<1>15. ASSUME NEW r \in Row, RecordFailed(r)
       PROVE  TInv'
  BY <1>15, OutreachAssumption DEF RecordFailed, NextRow, MarkFailed, Phase, Status
<1>16. CASE Rerun
  BY <1>16 DEF Rerun, StartPass, OldestApproved, InStatus, Phase, Unread
<1>17. CASE FinishPass
  BY <1>17 DEF FinishPass, Phase
<1>18. CASE PassThrows
  BY <1>18, OutreachAssumption DEF PassThrows, Phase
<1>19. CASE Restart
  <2>1. faults' \in 0..MaxFaults
    BY <1>19, OutreachAssumption DEF Restart
  <2>2. QED
    BY <1>19, <2>1 DEF Restart, Phase, Unread, Forgotten
<1>20. CASE Elapse
  <2>1. sinceCopy' \in 0..Gap /\ sinceSend' \in (0..Gap) \cup {Forgotten}
    BY <1>20, OutreachAssumption DEF Elapse, Forgotten
  <2>2. QED
    BY <1>20, <2>1 DEF Elapse
<1>21. CASE Midnight
  BY <1>21 DEF Midnight
<1>22. QED
  BY <1>1, <1>2, <1>3, <1>4, <1>5, <1>6, <1>7, <1>8, <1>9, <1>10, <1>11, <1>12,
     <1>13, <1>14, <1>15, <1>16, <1>17, <1>18, <1>19, <1>20, <1>21
     DEF Next, EngineStep

\* Every reachable state of the engine is well typed.
THEOREM TypeCorrect == Spec => []TypeOK
<1>1. Init => TInv
  BY InitTInv
<1>2. TInv /\ [Next]_vars => TInv'
  BY NextTInv
<1>3. TInv => TypeOK
  BY DEF TInv
<1>4. QED
  BY <1>1, <1>2, <1>3, PTL DEF Spec

-----------------------------------------------------------------------------
(* The daily cap.  DailyCap is not inductive: the loop tests a count it read *)
(* when the pass first met the account.  What carries it is that this count *)
(* never falls below the table's, and that a row past the test still has    *)
(* room when it is recorded.                                                *)

\* The phases in which a row has passed the test of the loop.
Past == {"verify", "gap", "smtp", "accepted"}

\* A count the pass has read bounds the table's count from above.
CountsCover ==
  \A a \in Account : counted[a] # Unread => Cardinality(SentToday(a)) <= counted[a]

\* A row past the test leaves room for itself under the cap.
RoomForRowInHand ==
  \A r \in Row : pc \in Past /\ InHand(r) =>
    /\ counted[AccountOf[draft[r]]] # Unread
    /\ counted[AccountOf[draft[r]]] < Cap

\* A row that counts for today says from which account it was sent.
SentRowsSent == \A r \in Row : sentOn[r] = "today" => status[r] = "sent"

CapInv == TInv /\ CountsCover /\ RoomForRowInHand /\ SentRowsSent /\ DailyCap

\* Fewer rows counted, counts unchanged or forgotten: the two bounds stay.
LEMMA CountsOnlyForgotten ==
  ASSUME CapInv,
         \A a \in Account : SentToday(a)' \subseteq SentToday(a),
         \A a \in Account : counted'[a] \in {counted[a], Unread}
  PROVE  CountsCover' /\ DailyCap'
<1>1. ASSUME NEW a \in Account
      PROVE  /\ Cardinality(SentToday(a)') <= Cardinality(SentToday(a))
             /\ Cardinality(SentToday(a)') \in Nat
             /\ Cardinality(SentToday(a)) \in Nat
  <2>1. IsFiniteSet(SentToday(a)) /\ Cardinality(SentToday(a)) \in Nat
    BY SentSoFarType DEF CapInv, TInv
  <2>2. QED
    BY <2>1, FS_Subset, FS_CardinalityType
<1>2. CountsCover'
  BY <1>1 DEF CountsCover, CapInv, TInv, TypeOK, Unread
<1>3. DailyCap'
  BY <1>1, OutreachAssumption DEF DailyCap, CapInv
<1>4. QED
  BY <1>2, <1>3

\* Reading the count of one account, its rows unchanged, keeps both bounds.
LEMMA ReadKeepsCover ==
  ASSUME CapInv, TInv', NEW r \in Row, InHand(r), ReadCount(r), UNCHANGED <<draft, sentOn>>
  PROVE  CountsCover' /\ DailyCap' /\ counted'[AccountOf[draft[r]]] = SentSoFar(AccountOf[draft[r]])
<1>1. AccountOf[draft[r]] \in Account
  BY InHandAccount DEF CapInv
<1>2. counted' = [counted EXCEPT ![AccountOf[draft[r]]] = SentSoFar(AccountOf[draft[r]])]
  BY DEF ReadCount
<1>3. \A a \in Account : SentToday(a)' = SentToday(a)
  BY DEF SentToday
<1>4. CountsCover'
  <2> SUFFICES ASSUME NEW a \in Account, counted'[a] # Unread
               PROVE  Cardinality(SentToday(a)) <= counted'[a]
    BY <1>3 DEF CountsCover
  <2>1. Cardinality(SentToday(a)) \in Nat
    BY SentSoFarType DEF CapInv, TInv
  <2>2. CASE a = AccountOf[draft[r]]
    BY <1>1, <1>2, <2>1, <2>2 DEF CapInv, TInv, TypeOK, SentSoFar, CountsCover
  <2>3. CASE a # AccountOf[draft[r]]
    BY <1>1, <1>2, <2>3 DEF CapInv, TInv, TypeOK, CountsCover
  <2>4. QED
    BY <2>2, <2>3
<1>5. DailyCap'
  BY <1>3 DEF DailyCap, CapInv
<1>6. QED
  BY <1>1, <1>2, <1>4, <1>5 DEF CapInv, TInv, TypeOK

\* The row in hand is recorded: one more row today, one more in the count.
LEMMA RecordKeepsCap ==
  ASSUME CapInv, TInv', NEW r \in Row, RecordSent(r)
  PROVE  CapInv'
<1>1. PICK a \in Account : a = AccountOf[draft[r]] /\ InHand(r)
  BY InHandAccount DEF RecordSent, CapInv
<1>2. counted[a] \in Nat /\ counted[a] < Cap /\ counted' = [counted EXCEPT ![a] = @ + 1]
  BY <1>1 DEF RecordSent, CapInv, RoomForRowInHand, Past, TInv, TypeOK
<1>3. SentToday(a)' = SentToday(a) \cup {r}
  BY <1>1 DEF RecordSent, SentToday, CapInv, TInv, TypeOK
<1>4. ASSUME NEW b \in Account, b # a
      PROVE  SentToday(b)' = SentToday(b)
  BY <1>1, <1>4 DEF RecordSent, SentToday, CapInv, TInv, TypeOK
<1>5. /\ Cardinality(SentToday(a)') <= Cardinality(SentToday(a)) + 1
      /\ Cardinality(SentToday(a)') \in Nat
      /\ Cardinality(SentToday(a)) \in Nat
  <2>1. IsFiniteSet(SentToday(a)) /\ Cardinality(SentToday(a)) \in Nat
    BY <1>1, SentSoFarType DEF CapInv, TInv
  <2>2. /\ IsFiniteSet(SentToday(a) \cup {r})
        /\ \/ Cardinality(SentToday(a) \cup {r}) = Cardinality(SentToday(a))
           \/ Cardinality(SentToday(a) \cup {r}) = Cardinality(SentToday(a)) + 1
    BY <2>1, FS_AddElement
  <2>3. QED
    BY <1>3, <2>1, <2>2
<1>7. Cardinality(SentToday(a)) <= counted[a]
  BY <1>1, <1>2 DEF CapInv, CountsCover, Unread
<1>8. CountsCover'
  <2> SUFFICES ASSUME NEW b \in Account, counted'[b] # Unread
               PROVE  Cardinality(SentToday(b)') <= counted'[b]
    BY DEF CountsCover
  <2>1. CASE b = a
    <3>1. counted'[b] = counted[a] + 1
      BY <1>1, <1>2, <2>1 DEF CapInv, TInv, TypeOK
    <3>2. QED
      BY <1>2, <1>5, <1>7, <2>1, <3>1
  <2>2. CASE b # a
    <3>1. counted'[b] = counted[b]
      BY <1>1, <1>2, <2>2 DEF CapInv, TInv, TypeOK
    <3>2. QED
      BY <1>4, <2>2, <3>1 DEF CapInv, CountsCover
  <2>3. QED
    BY <2>1, <2>2
<1>9. DailyCap'
  <2> SUFFICES ASSUME NEW b \in Account
               PROVE  Cardinality(SentToday(b)') <= Cap
    BY DEF DailyCap
  <2>1. CASE b = a
    BY <1>2, <1>5, <1>7, <2>1, OutreachAssumption
  <2>2. CASE b # a
    BY <1>4, <2>2 DEF CapInv, DailyCap
  <2>3. QED
    BY <2>1, <2>2
<1>10. RoomForRowInHand' /\ SentRowsSent'
  BY DEF RecordSent, NextRow, RoomForRowInHand, SentRowsSent, Past, CapInv, TInv, TypeOK
<1>11. QED
  BY <1>8, <1>9, <1>10 DEF CapInv

LEMMA InitCapInv == Init => CapInv
<1> SUFFICES ASSUME Init
             PROVE  CapInv
  OBVIOUS
<1>1. TInv
  BY InitTInv
<1>2. ASSUME NEW a \in Account
      PROVE  Cardinality(SentToday(a)) = 0
  <2>1. SentToday(a) = {}
    BY DEF Init, SentToday
  <2>2. QED
    BY <2>1, FS_EmptySet
<1>3. CountsCover /\ DailyCap
  BY <1>2, OutreachAssumption DEF Init, CountsCover, DailyCap
<1>4. RoomForRowInHand /\ SentRowsSent
  BY DEF Init, RoomForRowInHand, SentRowsSent, Past
<1>5. QED
  BY <1>1, <1>3, <1>4 DEF CapInv

\* A step that leaves the sent rows, the counts and the pass alone.
LEMMA QuietKeepsCap ==
  ASSUME CapInv, TInv', SentRowsSent', UNCHANGED <<draft, sentOn, todo, counted>>,
         pc' \in Past => pc \in Past
  PROVE  CapInv'
<1>1. \A a \in Account : SentToday(a)' = SentToday(a)
  BY DEF SentToday
<1>2. CountsCover' /\ DailyCap'
  BY <1>1 DEF CapInv, CountsCover, DailyCap
<1>3. RoomForRowInHand'
  BY DEF CapInv, RoomForRowInHand, InHand
<1>4. QED
  BY <1>2, <1>3 DEF CapInv

\* A step after which no row is past the test, whatever it did to the pass.
LEMMA TopOfLoopKeepsCap ==
  ASSUME CapInv, TInv', SentRowsSent', UNCHANGED <<draft, sentOn>>,
         \A a \in Account : counted'[a] \in {counted[a], Unread},
         pc' \notin Past
  PROVE  CapInv'
<1>1. \A a \in Account : SentToday(a)' = SentToday(a)
  BY DEF SentToday
<1>2. CountsCover' /\ DailyCap'
  BY <1>1, CountsOnlyForgotten
<1>3. RoomForRowInHand'
  BY DEF RoomForRowInHand
<1>4. QED
  BY <1>2, <1>3 DEF CapInv

\* A tick starts a pass or leaves the running one alone.
LEMMA KickKeepsCap ==
  ASSUME CapInv, TInv', SentRowsSent', UNCHANGED <<draft, sentOn>>, NEW st, Kick(st)
  PROVE  CapInv'
<1>1. CASE pc = "idle"
  <2>1. pc' \notin Past /\ \A a \in Account : counted'[a] \in {counted[a], Unread}
    BY <1>1 DEF Kick, StartPass, Past
  <2>2. QED
    BY <2>1, TopOfLoopKeepsCap
<1>2. CASE pc # "idle"
  BY <1>2, QuietKeepsCap DEF Kick
<1>3. QED
  BY <1>1, <1>2

LEMMA NextCapInv ==
  ASSUME CapInv, [Next]_vars
  PROVE  CapInv'
<1> USE DEF outboxVars, engineVars, historyVars
<1>1. TInv'
  BY NextTInv DEF CapInv
<1>2. TypeOK /\ SentRowsSent
  BY DEF CapInv, TInv
<1>3. SentRowsSent'
  BY <1>2 DEF SentRowsSent, TypeOK, Next, EngineStep, vars, QueueDraft, InStatus,
              Approve, Reject, AddSuppression, RemoveSuppression, HourlyTick,
              SkipOverCap, FailSuppressed, AskVerifier, FailInvalid, PassVerifier,
              GuardRefuses, HandOff, ServerAccepts, RecordSent, RecordFailed,
              MarkFailed, Rerun, FinishPass, PassThrows, Restart, Elapse, Midnight
<1>4. CASE UNCHANGED vars
  BY <1>1, <1>3, <1>4, QuietKeepsCap DEF vars
<1>5. ASSUME NEW d \in Draft, QueueDraft(d)
      PROVE  CapInv'
  <2>1. \A a \in Account : SentToday(a)' = SentToday(a)
    BY <1>2, <1>5 DEF QueueDraft, InStatus, SentToday, SentRowsSent, TypeOK
  <2>2. CountsCover' /\ DailyCap'
    BY <1>5, <2>1 DEF QueueDraft, CapInv, CountsCover, DailyCap
  <2>3. \A q \in todo : draft'[q] = draft[q]
    BY <1>5 DEF QueueDraft, InStatus, CapInv, TInv, TypeOK, TodoApproved
  <2>4. RoomForRowInHand'
    BY <1>5, <2>3 DEF QueueDraft, CapInv, RoomForRowInHand, InHand
  <2>5. QED
    BY <1>1, <1>3, <2>2, <2>4 DEF CapInv
<1>6. ASSUME NEW r \in Row, Approve(r)
      PROVE  CapInv'
  BY <1>1, <1>3, <1>6, KickKeepsCap DEF Approve
<1>7. ASSUME NEW r \in Row, Reject(r)
      PROVE  CapInv'
  BY <1>1, <1>3, <1>7, QuietKeepsCap DEF Reject
<1>8. ASSUME NEW a \in Recipient, AddSuppression(a)
      PROVE  CapInv'
  BY <1>1, <1>3, <1>8, QuietKeepsCap DEF AddSuppression
<1>9. ASSUME NEW a \in Recipient, RemoveSuppression(a)
      PROVE  CapInv'
  BY <1>1, <1>3, <1>9, KickKeepsCap DEF RemoveSuppression
<1>10. CASE HourlyTick
  BY <1>1, <1>3, <1>10, KickKeepsCap DEF HourlyTick
<1>11. ASSUME NEW r \in Row,
              SkipOverCap(r) \/ FailSuppressed(r) \/ AskVerifier(r)
       PROVE  CapInv'
  <2>1. InHand(r) /\ ReadCount(r) /\ UNCHANGED <<draft, sentOn>>
    BY <1>11 DEF SkipOverCap, FailSuppressed, AskVerifier
  <2>2. /\ CountsCover' /\ DailyCap'
        /\ counted'[AccountOf[draft[r]]] = SentSoFar(AccountOf[draft[r]])
    BY <1>1, <2>1, ReadKeepsCover
  <2>3. AccountOf[draft[r]] \in Account
    BY <2>1, InHandAccount DEF CapInv
  <2>4. SentSoFar(AccountOf[draft[r]]) \in Nat
    BY <1>2, <2>3, SentSoFarType
  <2>5. RoomForRowInHand'
    <3>1. CASE SkipOverCap(r) \/ FailSuppressed(r)
      BY <3>1 DEF SkipOverCap, FailSuppressed, NextRow, RoomForRowInHand, Past
    <3>2. CASE AskVerifier(r)
      <4>1. \A q \in Row : InHand(q)' => q = r
        BY <2>1, <3>2 DEF AskVerifier, InHand, Row
      <4>2. QED
        BY <2>1, <2>2, <2>4, <3>2, <4>1 DEF AskVerifier, RoomForRowInHand, Unread
    <3>3. QED
      BY <1>11, <3>1, <3>2
  <2>6. QED
    BY <1>1, <1>3, <2>2, <2>5 DEF CapInv
<1>12. ASSUME NEW r \in Row, FailInvalid(r) \/ GuardRefuses(r) \/ RecordFailed(r)
       PROVE  CapInv'
  BY <1>1, <1>3, <1>12, TopOfLoopKeepsCap
     DEF FailInvalid, GuardRefuses, RecordFailed, NextRow, Past
<1>13. CASE PassVerifier
  BY <1>1, <1>3, <1>13, QuietKeepsCap DEF PassVerifier, Past
<1>14. ASSUME NEW r \in Row, HandOff(r) \/ ServerAccepts(r)
       PROVE  CapInv'
  BY <1>1, <1>3, <1>14, QuietKeepsCap DEF HandOff, GapOver, ServerAccepts, Past
<1>15. ASSUME NEW r \in Row, RecordSent(r)
       PROVE  CapInv'
  BY <1>1, <1>15, RecordKeepsCap
<1>16. CASE Rerun
  BY <1>1, <1>3, <1>16, TopOfLoopKeepsCap DEF Rerun, StartPass, Past
<1>17. CASE FinishPass \/ PassThrows
  BY <1>1, <1>3, <1>17, TopOfLoopKeepsCap DEF FinishPass, PassThrows, Past
<1>18. CASE Restart
  BY <1>1, <1>3, <1>18, TopOfLoopKeepsCap DEF Restart, Past
<1>19. CASE Elapse
  BY <1>1, <1>3, <1>19, QuietKeepsCap DEF Elapse
<1>20. CASE Midnight
  <2>1. \A a \in Account : SentToday(a)' \subseteq SentToday(a)
    BY <1>2, <1>20 DEF Midnight, SentToday, TypeOK
  <2>2. CountsCover' /\ DailyCap'
    BY <1>20, <2>1, CountsOnlyForgotten DEF Midnight
  <2>3. RoomForRowInHand'
    BY <1>20 DEF Midnight, CapInv, RoomForRowInHand, InHand
  <2>4. QED
    BY <1>1, <1>3, <2>2, <2>3 DEF CapInv
<1>21. QED
  BY <1>4, <1>5, <1>6, <1>7, <1>8, <1>9, <1>10, <1>11, <1>12, <1>13, <1>14, <1>15,
     <1>16, <1>17, <1>18, <1>19, <1>20
     DEF Next, EngineStep

\* In no UTC day does an account have more rows recorded as sent than the cap.
THEOREM DailyCapHolds == Spec => []DailyCap
<1>1. Init => CapInv
  BY InitCapInv
<1>2. CapInv /\ [Next]_vars => CapInv'
  BY NextCapInv
<1>3. CapInv => DailyCap
  BY DEF CapInv
<1>4. QED
  BY <1>1, <1>2, <1>3, PTL DEF Spec

-----------------------------------------------------------------------------
(* The outbox's promise: Outreach implements Outbox. *)

\* A row the engine is about to record has left a copy with a server.
AcceptedLeftCopy == \A r \in Row : pc = "accepted" /\ InHand(r) => copies[r] > 0

PInv == TInv /\ AcceptedLeftCopy

LEMMA NextPInv ==
  ASSUME PInv, [Next]_vars
  PROVE  PInv'
<1>1. TInv'
  BY NextTInv DEF PInv
<1>2. AcceptedLeftCopy'
  <2>1. ASSUME NEW r \in Row, ServerAccepts(r)
        PROVE  AcceptedLeftCopy'
    <3>1. \A q \in Row : InHand(q)' => q = r
      BY <2>1 DEF ServerAccepts, InHand, Row
    <3>2. copies'[r] > 0
      BY <2>1 DEF ServerAccepts, PInv, TInv, TypeOK
    <3>3. QED
      BY <3>1, <3>2 DEF AcceptedLeftCopy
  <2>2. CASE pc' # "accepted"
    BY <2>2 DEF AcceptedLeftCopy
  <2>3. CASE UNCHANGED <<pc, todo, copies>>
    BY <2>3 DEF PInv, AcceptedLeftCopy, InHand
  <2>4. QED
    BY <2>1, <2>2, <2>3
       DEF Next, EngineStep, vars, outboxVars, engineVars, historyVars, Kick,
           StartPass, QueueDraft, Approve, Reject, AddSuppression,
           RemoveSuppression, HourlyTick, SkipOverCap, FailSuppressed, AskVerifier,
           FailInvalid, PassVerifier, GuardRefuses, HandOff, RecordSent,
           RecordFailed, NextRow, Rerun, FinishPass, PassThrows, Restart, Elapse,
           Midnight
<1>3. QED
  BY <1>1, <1>2 DEF PInv

\* Closing the row in hand as failed is what Outbox calls CloseFailed.
LEMMA FailedIsClosed ==
  ASSUME PInv, NEW r \in Row, InHand(r), MarkFailed(r), UNCHANGED copies
  PROVE  Promise!CloseFailed(r)
<1>1. status[r] = "approved"
  BY InHandAccount DEF PInv
<1>2. QED
  BY <1>1 DEF MarkFailed, Promise!CloseFailed, PInv, TInv, TypeOK

\* Every step of the engine is a step of the promise, or leaves it unmoved.
LEMMA StepKeepsPromise ==
  ASSUME PInv, [Next]_vars
  PROVE  [Promise!Next]_(Promise!vars)
<1> USE DEF outboxVars, engineVars, historyVars, Promise!vars
<1>1. ASSUME NEW d \in Draft, QueueDraft(d)
      PROVE  Promise!Next
  <2>1. PICK r \in Row : status[r] = "none" /\ status' = [status EXCEPT ![r] = "pending"]
    BY <1>1 DEF QueueDraft, InStatus
  <2>2. Promise!Queue(r)
    BY <1>1, <2>1 DEF QueueDraft, Promise!Queue
  <2>3. QED
    BY <2>2 DEF Promise!Next
<1>2. ASSUME NEW r \in Row, Approve(r)
      PROVE  Promise!Next
  <2>1. Promise!Decide(r, "approved")
    BY <1>2 DEF Approve, Promise!Decide
  <2>2. QED
    BY <2>1 DEF Promise!Next
<1>3. ASSUME NEW r \in Row, Reject(r)
      PROVE  Promise!Next
  <2>1. Promise!Decide(r, "rejected")
    BY <1>3 DEF Reject, Promise!Decide
  <2>2. QED
    BY <2>1 DEF Promise!Next
<1>4. ASSUME NEW r \in Row, ServerAccepts(r)
      PROVE  Promise!Next
  <2>1. status[r] = "approved"
    BY <1>4, InHandAccount DEF ServerAccepts, PInv
  <2>2. Promise!Deliver(r)
    BY <1>4, <2>1 DEF ServerAccepts, Promise!Deliver
  <2>3. QED
    BY <2>2 DEF Promise!Next
<1>5. ASSUME NEW r \in Row, RecordSent(r)
      PROVE  Promise!Next
  <2>1. Promise!CloseSent(r)
    BY <1>5 DEF RecordSent, Promise!CloseSent, PInv, AcceptedLeftCopy
  <2>2. QED
    BY <2>1 DEF Promise!Next
<1>6. ASSUME NEW r \in Row,
             FailSuppressed(r) \/ FailInvalid(r) \/ GuardRefuses(r) \/ RecordFailed(r)
      PROVE  Promise!Next
  <2>1. InHand(r) /\ MarkFailed(r) /\ UNCHANGED copies
    BY <1>6 DEF FailSuppressed, FailInvalid, GuardRefuses, RecordFailed
  <2>2. Promise!CloseFailed(r)
    BY <2>1, FailedIsClosed
  <2>3. QED
    BY <2>2 DEF Promise!Next
<1>7. CASE UNCHANGED <<status, copies>>
  BY <1>7
<1>8. QED
  BY <1>1, <1>2, <1>3, <1>4, <1>5, <1>6, <1>7
     DEF Next, EngineStep, vars, AddSuppression, RemoveSuppression, HourlyTick,
         SkipOverCap, AskVerifier, PassVerifier, HandOff, Rerun, FinishPass,
         PassThrows, Restart, Elapse, Midnight

\* The engine implements Outbox: mail leaves only for rows a human approved, a
\* row is closed once, and only one whose mail left is recorded as sent.
THEOREM EngineKeepsPromise == Spec => KeepsPromise
<1>1. Init => PInv /\ Promise!Init
  BY InitTInv DEF Init, PInv, AcceptedLeftCopy, Promise!Init
<1>2. PInv /\ [Next]_vars => PInv'
  BY NextPInv
<1>3. PInv /\ [Next]_vars => [Promise!Next]_(Promise!vars)
  BY StepKeepsPromise
<1>4. QED
  BY <1>1, <1>2, <1>3, PTL DEF Spec, KeepsPromise, Promise!Spec

\* No row is handed to the mail server while its recipient is suppressed, even
\* when the stop arrived while the row waited.
THEOREM StopIsHonoured == Spec => NoHandOffWhileSuppressed
<1>1. ASSUME TInv, [Next]_vars, NEW r \in Row, OnTheWire(r)', ~ OnTheWire(r)
      PROVE  ~ Blocked(r)'
  <2> USE DEF outboxVars, engineVars, historyVars
  <2>1. pc' = "smtp" /\ InHand(r)'
    BY <1>1 DEF OnTheWire
  <2>2. pc # "smtp" \/ todo' # todo
    BY <1>1 DEF OnTheWire, InHand
  <2>3. PICK q \in Row : HandOff(q)
    BY <1>1, <2>1, <2>2
       DEF Next, EngineStep, vars, Kick, StartPass, QueueDraft, Approve, Reject,
           AddSuppression, RemoveSuppression, HourlyTick, SkipOverCap,
           FailSuppressed, AskVerifier, FailInvalid, PassVerifier, GuardRefuses,
           ServerAccepts, RecordSent, RecordFailed, NextRow, Rerun, FinishPass,
           PassThrows, Restart, Elapse, Midnight
  <2>4. q = r
    BY <2>1, <2>3 DEF HandOff, InHand, Row
  <2>5. QED
    BY <2>3, <2>4 DEF HandOff, Blocked
<1>2. TInv /\ [Next]_vars => [\A r \in Row : OnTheWire(r)' /\ ~ OnTheWire(r) => ~ Blocked(r)']_vars
  BY <1>1
<1>3. QED
  BY InitTInv, NextTInv, <1>2, PTL DEF Spec, NoHandOffWhileSuppressed

-----------------------------------------------------------------------------
(* What holds as long as the process lives and its database answers: with no *)
(* fault, no row is mailed twice and the gap is kept.  (With one fault, TLC  *)
(* shows a row mailed twice.)                                                *)

\* A row whose copy left is closed, or is about to be.
CopyAccountedFor ==
  \A r \in Row :
    \/ copies[r] = 0
    \/ /\ copies[r] = 1
       /\ status[r] \in {"sent", "failed"} \/ (pc = "accepted" /\ InHand(r))

\* lastSendMs is never older than the last mail handed over.
LastSendKnown ==
  /\ pc \notin {"smtp", "accepted"} =>
       /\ sinceSend = Forgotten => sinceCopy = Gap
       /\ sinceSend # Forgotten => sinceSend <= sinceCopy

CalmInv == TInv /\ CopyAccountedFor /\ LastSendKnown

LEMMA NextCopyAccountedFor ==
  ASSUME faults' = 0, CalmInv, [Next]_vars
  PROVE  CopyAccountedFor'
<1> USE DEF outboxVars, engineVars, historyVars
<1>1. TInv /\ TypeOK /\ CopyAccountedFor
  BY DEF CalmInv, TInv
<1>2. ~ PassThrows /\ ~ Restart
  BY <1>1 DEF TypeOK, PassThrows, Restart
<1>3. ASSUME NEW r \in Row, ServerAccepts(r)
      PROVE  CopyAccountedFor'
  <2>1. copies[r] = 0
    BY <1>1, <1>3, InHandAccount DEF ServerAccepts, CopyAccountedFor
  <2>2. QED
    BY <1>1, <1>3, <2>1 DEF ServerAccepts, CopyAccountedFor, InHand, TypeOK
<1>4. ASSUME NEW r \in Row, RecordSent(r) \/ RecordFailed(r)
      PROVE  CopyAccountedFor'
  <2>1. /\ status[r] = "approved" /\ InHand(r)
        /\ status'[r] \in {"sent", "failed"} /\ copies' = copies
        /\ \A q \in Row : q # r => status'[q] = status[q]
    BY <1>1, <1>4, InHandAccount DEF RecordSent, RecordFailed, MarkFailed, TypeOK
  <2>2. \A q \in Row : InHand(q) => q = r
    BY <2>1 DEF InHand, Row
  <2>3. QED
    BY <1>1, <2>1, <2>2 DEF CopyAccountedFor
<1>5. ASSUME NEW r \in Row, FailSuppressed(r) \/ FailInvalid(r) \/ GuardRefuses(r)
      PROVE  CopyAccountedFor'
  BY <1>1, <1>5 DEF FailSuppressed, FailInvalid, GuardRefuses, GapOver, MarkFailed,
                    CopyAccountedFor, TypeOK
<1>7. ASSUME pc # "accepted" \/ UNCHANGED <<pc, todo>>, UNCHANGED copies,
             \A q \in Row : status[q] \in {"sent", "failed"} => status'[q] = status[q]
      PROVE  CopyAccountedFor'
  BY <1>1, <1>7 DEF CopyAccountedFor, InHand
<1>8. ASSUME NEW d \in Draft, QueueDraft(d)
      PROVE  CopyAccountedFor'
  BY <1>1, <1>7, <1>8 DEF QueueDraft, InStatus, TypeOK
<1>9. ASSUME NEW r \in Row, Approve(r) \/ Reject(r)
      PROVE  CopyAccountedFor'
  BY <1>1, <1>7, <1>9 DEF Approve, Reject, Kick, StartPass, TypeOK
<1>10. CASE UNCHANGED vars
  BY <1>7, <1>10 DEF vars
<1>11. QED
  BY <1>2, <1>3, <1>4, <1>5, <1>7, <1>8, <1>9, <1>10
     DEF Next, EngineStep, Kick, StartPass, AddSuppression, RemoveSuppression,
         HourlyTick, SkipOverCap, AskVerifier, PassVerifier, HandOff, GapOver, Rerun,
         FinishPass, Elapse, Midnight

LEMMA NextLastSendKnown ==
  ASSUME faults' = 0, CalmInv, [Next]_vars
  PROVE  LastSendKnown'
<1> USE DEF outboxVars, engineVars, historyVars
<1>1. TypeOK /\ LastSendKnown
  BY DEF CalmInv, TInv
<1>2. ~ PassThrows /\ ~ Restart
  BY <1>1 DEF TypeOK, PassThrows, Restart
<1>3. CASE Elapse
  BY <1>1, <1>3, OutreachAssumption DEF Elapse, LastSendKnown, TypeOK, Forgotten
<1>4. ASSUME NEW r \in Row, HandOff(r) \/ ServerAccepts(r)
      PROVE  LastSendKnown'
  BY <1>4 DEF HandOff, ServerAccepts, LastSendKnown
<1>5. ASSUME sinceSend' = 0, sinceCopy' = sinceCopy
      PROVE  LastSendKnown'
  BY <1>1, <1>5 DEF LastSendKnown, Forgotten, TypeOK
<1>6. ASSUME pc \notin {"smtp", "accepted"} \/ pc' \in {"smtp", "accepted"},
             UNCHANGED <<sinceSend, sinceCopy>>
      PROVE  LastSendKnown'
  BY <1>1, <1>6 DEF LastSendKnown
<1>7. ASSUME NEW r \in Row, GuardRefuses(r) \/ RecordSent(r) \/ RecordFailed(r)
      PROVE  LastSendKnown'
  BY <1>5, <1>7 DEF GuardRefuses, RecordSent, RecordFailed
<1>8. QED
  BY <1>2, <1>3, <1>4, <1>6, <1>7
     DEF Next, EngineStep, vars, Kick, StartPass, QueueDraft, Approve, Reject,
         AddSuppression, RemoveSuppression, HourlyTick, SkipOverCap, FailSuppressed,
         AskVerifier, FailInvalid, PassVerifier, Rerun, FinishPass, Midnight

\* No step takes a fault back.
LEMMA FaultsStay ==
  ASSUME TInv, [Next]_vars, faults' = 0
  PROVE  faults = 0
<1> USE DEF outboxVars, engineVars, historyVars
<1>1. faults \in Nat
  BY OutreachAssumption DEF TInv, TypeOK
<1>2. ~ PassThrows /\ ~ Restart
  BY <1>1 DEF PassThrows, Restart
<1>3. QED
  BY <1>2 DEF Next, EngineStep, vars, QueueDraft, Approve, Reject, AddSuppression,
        RemoveSuppression, HourlyTick, SkipOverCap, FailSuppressed, AskVerifier,
        FailInvalid, PassVerifier, GuardRefuses, HandOff, ServerAccepts, RecordSent,
        RecordFailed, Rerun, FinishPass, Elapse, Midnight

CalmUntilFault == TInv /\ (faults = 0 => CopyAccountedFor /\ LastSendKnown)

LEMMA InitCalm == Init => CalmUntilFault
BY InitTInv DEF Init, CalmUntilFault, CopyAccountedFor, LastSendKnown, Forgotten

LEMMA NextCalm == CalmUntilFault /\ [Next]_vars => CalmUntilFault'
<1> SUFFICES ASSUME CalmUntilFault, [Next]_vars
             PROVE  CalmUntilFault'
  OBVIOUS
<1>1. TInv'
  BY NextTInv DEF CalmUntilFault
<1>2. ASSUME faults' = 0
      PROVE  (CopyAccountedFor /\ LastSendKnown)'
  <2>1. CalmInv
    BY <1>2, FaultsStay DEF CalmUntilFault, CalmInv
  <2>2. QED
    BY <1>2, <2>1, NextCopyAccountedFor, NextLastSendKnown
<1>3. QED
  BY <1>1, <1>2 DEF CalmUntilFault

\* While the process lives and its database answers, no row is mailed twice.
THEOREM NoFaultNoRepeat == Spec => []NoRepeatWithoutFault
<1>1. CalmUntilFault => NoRepeatWithoutFault
  BY DEF CalmUntilFault, CopyAccountedFor, AtMostOneCopy, NoRepeatWithoutFault
<1>2. QED
  BY <1>1, InitCalm, NextCalm, PTL DEF Spec

\* While the process lives and its database answers, two mails of the engine
\* are never closer than the gap.
THEOREM NoFaultGapKept == Spec => GapKeptWithoutFault
<1>1. ASSUME CalmInv, [Next]_vars, NEW r \in Row, OnTheWire(r)', ~ OnTheWire(r)
      PROVE  sinceCopy >= Gap
  <2> USE DEF outboxVars, engineVars, historyVars
  <2>1. pc' = "smtp" /\ (pc # "smtp" \/ todo' # todo)
    BY <1>1 DEF OnTheWire, InHand
  <2>2. \E q \in Row : HandOff(q)
    BY <1>1, <2>1
       DEF Next, EngineStep, vars, Kick, StartPass, QueueDraft, Approve, Reject,
           AddSuppression, RemoveSuppression, HourlyTick, SkipOverCap,
           FailSuppressed, AskVerifier, FailInvalid, PassVerifier, GuardRefuses,
           ServerAccepts, RecordSent, RecordFailed, NextRow, Rerun, FinishPass,
           PassThrows, Restart, Elapse, Midnight
  <2>3. QED
    BY <1>1, <2>2, OutreachAssumption
       DEF HandOff, GapOver, CalmInv, LastSendKnown, TInv, TypeOK, Forgotten
<1>2. CalmUntilFault /\ [Next]_vars =>
        [\A r \in Row :
           OnTheWire(r)' /\ ~ OnTheWire(r) /\ faults = 0 => sinceCopy >= Gap]_vars
  BY <1>1 DEF CalmUntilFault, CalmInv
<1>3. QED
  BY <1>2, InitCalm, NextCalm, PTL DEF Spec, GapKeptWithoutFault

-----------------------------------------------------------------------------
(* Approvals are not overlooked.  A tick that finds a pass running leaves    *)
(* rerun behind; without it, the rows approved now are those the pass read,  *)
(* and what it has dealt with is closed or over the cap.                     *)

Settled(r) == counted[AccountOf[draft[r]]] >= Cap

PassCovers ==
  pc # "idle" /\ ~ rerun =>
    \A r \in InStatus(status, "approved") : r \in todo \cup beyond \/ Settled(r)

OverlookInv == TInv /\ PassCovers /\ NothingOverlooked

\* A pass begins with every approved row, or there is a pass that will be repeated.
LEMMA KickCovers ==
  ASSUME NEW st, Kick(st), status' = st
  PROVE  PassCovers' /\ NothingOverlooked'
<1>1. CASE pc = "idle"
  BY <1>1 DEF Kick, StartPass, PassCovers, NothingOverlooked, InStatus
<1>2. CASE pc # "idle"
  BY <1>2 DEF Kick, PassCovers, NothingOverlooked
<1> QED
  BY <1>1, <1>2

\* The row in hand leaves the pass closed, or counted over the cap; no count of a
\* pass falls.
LEMMA RowLeavesCovered ==
  ASSUME OverlookInv, NEW r \in Row, InHand(r), pc # "idle", pc' = "head",
         UNCHANGED <<draft, rerun, beyond>>, todo' = todo \ {r},
         \A q \in Row : status'[q] = "approved" => status[q] = "approved",
         status'[r] # "approved" \/ Settled(r)',
         \A q \in Row : status[q] = "approved" /\ Settled(q) => Settled(q)'
  PROVE  PassCovers' /\ NothingOverlooked'
BY DEF OverlookInv, PassCovers, NothingOverlooked, InStatus

\* A count that was read does not fall when it is read again.
LEMMA ReadKeepsSettled ==
  ASSUME TInv, NEW r \in Row, InHand(r), ReadCount(r), UNCHANGED draft
  PROVE  /\ \A q \in Row : status[q] = "approved" /\ Settled(q) => Settled(q)'
         /\ SentSoFar(AccountOf[draft[r]]) >= Cap => Settled(r)'
<1>1. PICK a \in Account : a = AccountOf[draft[r]]
  BY InHandAccount
<1>2. counted'[a] = SentSoFar(a) /\ \A b \in Account : b # a => counted'[b] = counted[b]
  BY <1>1 DEF ReadCount, TInv, TypeOK
<1>3. ASSUME NEW q \in Row, status[q] = "approved", Settled(q) PROVE Settled(q)'
  <2>1. PICK b \in Account : b = AccountOf[draft[q]]
    BY <1>3, OutreachAssumption DEF TInv, RowsHaveDrafts
  <2>2. counted[b] >= Cap
    BY <1>3, <2>1 DEF Settled
  <2>3. counted[b] # Unread
    BY <2>2, OutreachAssumption DEF Unread
  <2>4. counted'[b] = counted[b]
    BY <1>2, <2>3 DEF SentSoFar
  <2> QED
    BY <2>1, <2>2, <2>4 DEF Settled
<1> QED
  BY <1>1, <1>2, <1>3 DEF Settled

LEMMA OverlookStep ==
  ASSUME OverlookInv, [Next]_vars
  PROVE  OverlookInv'
<1> USE DEF outboxVars, engineVars, historyVars
<1>1. TInv /\ TInv' /\ TypeOK
  BY NextTInv DEF OverlookInv, TInv
<1>2. ASSUME UNCHANGED <<draft, counted, rerun, beyond, interrupted, todo>>,
             \A q \in Row : status'[q] = "approved" => status[q] = "approved",
             (pc = "idle") <=> (pc' = "idle")
      PROVE  PassCovers' /\ NothingOverlooked'
  BY <1>2 DEF OverlookInv, PassCovers, NothingOverlooked, InStatus, Settled
<1>3. ASSUME NEW d \in Draft, QueueDraft(d)
      PROVE  PassCovers' /\ NothingOverlooked'
  <2>1. PICK r \in Row : /\ status[r] = "none" /\ draft' = [draft EXCEPT ![r] = d]
                         /\ status' = [status EXCEPT ![r] = "pending"]
    BY <1>3 DEF QueueDraft, InStatus
  <2>2. \A q \in Row : status'[q] = "approved" => status[q] = "approved" /\ draft'[q] = draft[q]
    BY <1>1, <2>1 DEF TypeOK
  <2> QED
    BY <1>3, <2>2 DEF QueueDraft, OverlookInv, PassCovers, NothingOverlooked, InStatus, Settled
<1>4. ASSUME NEW r \in Row, Approve(r)
      PROVE  PassCovers' /\ NothingOverlooked'
  BY <1>4, KickCovers DEF Approve
<1>5. ASSUME NEW r \in Row, Reject(r)
      PROVE  PassCovers' /\ NothingOverlooked'
  BY <1>1, <1>2, <1>5 DEF Reject, TypeOK
<1>6. ASSUME NEW a \in Recipient, AddSuppression(a)
      PROVE  PassCovers' /\ NothingOverlooked'
  BY <1>2, <1>6 DEF AddSuppression
<1>7. ASSUME HourlyTick \/ \E a \in Recipient : RemoveSuppression(a)
      PROVE  PassCovers' /\ NothingOverlooked'
  <2>1. Kick(status) /\ UNCHANGED status
    BY <1>7 DEF HourlyTick, RemoveSuppression
  <2> QED
    BY <2>1, KickCovers
<1>8. ASSUME NEW r \in Row, SkipOverCap(r) \/ FailSuppressed(r)
      PROVE  PassCovers' /\ NothingOverlooked'
  <2>1. /\ InHand(r) /\ ReadCount(r) /\ pc = "head" /\ pc' = "head" /\ todo' = todo \ {r}
        /\ UNCHANGED <<draft, rerun, beyond>>
        /\ \/ status' = status /\ SentSoFar(AccountOf[draft[r]]) >= Cap
           \/ MarkFailed(r)
    BY <1>8 DEF SkipOverCap, FailSuppressed, NextRow
  <2>2. \A q \in Row : status'[q] = "approved" => status[q] = "approved"
    BY <1>1, <2>1 DEF MarkFailed, TypeOK
  <2>3. MarkFailed(r) => status'[r] # "approved"
    BY <1>1 DEF MarkFailed, TypeOK
  <2>4. /\ \A q \in Row : status[q] = "approved" /\ Settled(q) => Settled(q)'
        /\ SentSoFar(AccountOf[draft[r]]) >= Cap => Settled(r)'
    BY <1>1, <2>1, ReadKeepsSettled
  <2> QED
    BY <2>1, <2>2, <2>3, <2>4, RowLeavesCovered
<1>9. ASSUME NEW r \in Row, AskVerifier(r)
      PROVE  PassCovers' /\ NothingOverlooked'
  <2>1. \A q \in Row : status[q] = "approved" /\ Settled(q) => Settled(q)'
    BY <1>1, <1>9, ReadKeepsSettled DEF AskVerifier
  <2> QED
    BY <1>9, <2>1 DEF AskVerifier, OverlookInv, PassCovers, NothingOverlooked, InStatus
<1>10. ASSUME NEW r \in Row, FailInvalid(r) \/ GuardRefuses(r) \/ RecordFailed(r)
       PROVE  PassCovers' /\ NothingOverlooked'
  <2>1. /\ InHand(r) /\ MarkFailed(r) /\ pc # "idle" /\ pc' = "head" /\ todo' = todo \ {r}
        /\ UNCHANGED <<draft, rerun, beyond, counted>>
    BY <1>10 DEF FailInvalid, GuardRefuses, GapOver, RecordFailed, NextRow
  <2>2. status'[r] # "approved" /\ \A q \in Row : status'[q] = "approved" => status[q] = "approved"
    BY <1>1, <2>1 DEF MarkFailed, TypeOK
  <2>3. \A q \in Row : Settled(q) => Settled(q)'
    BY <2>1 DEF Settled
  <2> QED
    BY <2>1, <2>2, <2>3, RowLeavesCovered
<1>11. ASSUME NEW r \in Row, HandOff(r) \/ ServerAccepts(r)
       PROVE  PassCovers' /\ NothingOverlooked'
  BY <1>2, <1>11 DEF HandOff, GapOver, ServerAccepts
<1>12. ASSUME NEW r \in Row, RecordSent(r)
       PROVE  PassCovers' /\ NothingOverlooked'
  <2>1. /\ InHand(r) /\ pc = "accepted" /\ pc' = "head" /\ todo' = todo \ {r}
        /\ UNCHANGED <<draft, rerun, beyond>>
        /\ status' = [status EXCEPT ![r] = "sent"]
        /\ counted' = [counted EXCEPT ![AccountOf[draft[r]]] = @ + 1]
    BY <1>12 DEF RecordSent, NextRow
  <2>2. status'[r] # "approved" /\ \A q \in Row : status'[q] = "approved" => status[q] = "approved"
    BY <1>1, <2>1 DEF TypeOK
  <2>3. ASSUME NEW q \in Row, status[q] = "approved", Settled(q) PROVE Settled(q)'
    <3>1. PICK b \in Account : b = AccountOf[draft[q]]
      BY <1>1, <2>3, OutreachAssumption DEF TInv, RowsHaveDrafts
    <3>2. counted[b] >= Cap /\ counted[b] \in Nat
      BY <1>1, <2>3, <3>1, OutreachAssumption DEF Settled, TypeOK, Unread
    <3>3. counted'[b] \in {counted[b], counted[b] + 1}
      BY <1>1, <2>1 DEF TypeOK
    <3>4. counted'[b] >= Cap
      BY <3>2, <3>3, OutreachAssumption
    <3> QED
      BY <2>1, <3>1, <3>4 DEF Settled
  <2> QED
    BY <2>1, <2>2, <2>3, RowLeavesCovered
<1>13. ASSUME Rerun
       PROVE  PassCovers' /\ NothingOverlooked'
  BY <1>13 DEF Rerun, StartPass, PassCovers, NothingOverlooked, InStatus
<1>14. ASSUME FinishPass
       PROVE  PassCovers' /\ NothingOverlooked'
  BY <1>14 DEF FinishPass, OverlookInv, PassCovers, NothingOverlooked, InStatus, Settled
<1>15. ASSUME PassThrows \/ Restart
       PROVE  PassCovers' /\ NothingOverlooked'
  BY <1>15 DEF PassThrows, Restart, PassCovers, NothingOverlooked
<1>16. ASSUME Elapse \/ Midnight \/ UNCHANGED vars
       PROVE  PassCovers' /\ NothingOverlooked'
  BY <1>2, <1>16 DEF Elapse, Midnight, vars
<1>17. ASSUME PassVerifier
       PROVE  PassCovers' /\ NothingOverlooked'
  BY <1>2, <1>17 DEF PassVerifier
<1>18. PassCovers' /\ NothingOverlooked'
  BY <1>3, <1>4, <1>5, <1>6, <1>7, <1>8, <1>9, <1>10, <1>11, <1>12, <1>13, <1>14, <1>15,
     <1>16, <1>17 DEF Next, EngineStep
<1> QED
  BY <1>1, <1>18 DEF OverlookInv

\* Once the engine rests after a pass that was not cut short, every row a human
\* approved is closed, over its account's cap, or beyond the rows one pass reads
\* (outreach/routes.ts:70, engine.ts:96), for any rows, cap and pass limit.
THEOREM ApprovalsAreNotOverlooked == Spec => []NothingOverlooked
<1>1. Init => OverlookInv
  BY InitTInv DEF Init, OverlookInv, PassCovers, NothingOverlooked, InStatus
<1>2. OverlookInv /\ [Next]_vars => OverlookInv'
  BY OverlookStep
<1> QED
  BY <1>1, <1>2, PTL DEF Spec, OverlookInv
=============================================================================
