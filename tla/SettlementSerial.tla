-------------------------- MODULE SettlementSerial --------------------------
(***************************************************************************)
(* Settlement with one operation in progress at a time: requests, sweeps   *)
(* and jobs still find intents created, deadlines passed, payments         *)
(* captured, rejected and restored between their read and their write, and *)
(* the process may still die there, but no two of them overlap.            *)
(* Everything the interleavings of settle, contended and reversals_race    *)
(* break then holds, for every operation: it is broken by races alone.     *)
(***************************************************************************)
EXTENDS SettlementProofs

OneAtATime == \A s, t \in Sessions : s = t

-----------------------------------------------------------------------------
(* What an operation read still holds when it writes *)

RowInHand(s) ==
    session[s].pc \in {"reverse", "reversing"} =>
        \E r \in orderPayments : /\ r.payment = session[s].payment
                                 /\ r.intent = session[s].intent
                                 /\ r.reversals = 0

TotalInHand(s) ==
    session[s].pc = "reversing" =>
        session[s].total = LivePayments(session[s].intent) \ {session[s].payment}

SwitchInHand(s) ==
    session[s].pc = "switch" => LiveRows(session[s].intent) = {}

ExpiryInHand(s) ==
    session[s].pc = "expire" => session[s].intent \in overdue

ApplyInHand(s) ==
    session[s].pc = "apply" /\ session[s].by # "admin" =>
        account[session[s].intent] = LandedOn[session[s].payment]

InHand(s) ==
    /\ RowInHand(s)
    /\ TotalInHand(s)
    /\ SwitchInHand(s)
    /\ ExpiryInHand(s)
    /\ ApplyInHand(s)

ReadsHold == \A s \in Sessions : InHand(s)

\* The steps of nobody's session.
Beside ==
    \/ \E i \in Intents : CreateIntent(i) \/ DeadlinePasses(i) \/ CancelIntent(i)
    \/ \E p \in Payments : \/ CapturePayment(p)
                           \/ RetryOrphan(p)
                           \/ MatchNothing(p)
                           \/ RejectFromQueue(p)
                           \/ RestoreToQueue(p)
    \/ UNCHANGED vars

Begins(s) ==
    \/ \E p \in Payments, i \in Intents :
          MatchFound(s, p, i) \/ SubmitTrxId(s, p, i) \/ ApproveFromQueue(s, p, i)
    \/ \E r \in orderPayments : ReverseRead(s, r)
    \/ \E i \in Intents : ExtendRead(s, i) \/ ExpireRead(s, i)
    \/ \E i \in Intents, a \in Accounts : SwitchRead(s, i, a)

\* With one session there are four kinds of steps.
LEMMA SerialStep ==
  ASSUME OneAtATime, TypeOK, [Next]_vars, NEW s \in Sessions
  PROVE  Beside \/ Begins(s) \/ ReverseMark(s) \/ session'[s] = Idle
<1>1. ASSUME NEW t \in Sessions, Resume(t)
      PROVE  ReverseMark(s) \/ session'[s] = Idle
  <2>1. t = s
    BY DEF OneAtATime
  <2>2. Finish(s) => session'[s] = Idle
    BY DEF Finish, TypeOK
  <2> QED BY <1>1, <2>1, <2>2
          DEF Resume, ApplyPayment, ApplyRefused, ReverseCommit, ExtendWrite, ExpireOne,
              SwitchWrite
<1>2. CASE Crash
  BY <1>2 DEF Crash
<1>3. ASSUME NEW t \in Sessions, Begins(t) PROVE Begins(s)
  <2>1. t = s
    BY DEF OneAtATime
  <2> QED BY <1>3, <2>1
<1>4. Beside \/ (\E t \in Sessions : Begins(t) \/ Resume(t)) \/ Crash
  BY DEF Next, Beside, Begins
<1> QED BY <1>1, <1>2, <1>3, <1>4

LEMMA BesideKeeps ==
  ASSUME TypeOK, Beside
  PROVE  /\ UNCHANGED <<session, orderPayments, account, counted>>
         /\ overdue \subseteq overdue'
<1>1. CASE UNCHANGED vars
  BY <1>1 DEF vars, intentVars
<1>2. ASSUME NEW i \in Intents, CreateIntent(i) \/ DeadlinePasses(i) \/ CancelIntent(i)
      PROVE  UNCHANGED <<session, orderPayments, account, counted>>
             /\ overdue \subseteq overdue'
  BY <1>2 DEF CreateIntent, DeadlinePasses, CancelIntent
<1>3. ASSUME NEW p \in Payments, \/ CapturePayment(p) \/ RetryOrphan(p) \/ MatchNothing(p)
                                  \/ RejectFromQueue(p) \/ RestoreToQueue(p)
      PROVE  UNCHANGED <<session, orderPayments, account, counted, overdue>>
  BY <1>3 DEF CapturePayment, RetryOrphan, MatchNothing, RejectFromQueue, RestoreToQueue,
     intentVars
<1> QED BY <1>1, <1>2, <1>3 DEF Beside

LEMMA ReadsHoldStep ==
  ASSUME OneAtATime, TypeOK, ReadsHold, [Next]_vars
  PROVE  ReadsHold'
<1> SUFFICES ASSUME NEW s \in Sessions PROVE InHand(s)'
  BY DEF ReadsHold
<1> USE DEF RowInHand, TotalInHand, SwitchInHand, ExpiryInHand, ApplyInHand
<1>1. CASE Beside
  <2>1. InHand(s)
    BY DEF ReadsHold
  <2> QED BY <1>1, <2>1, BesideKeeps DEF InHand, LivePayments, LiveRows
<1>2. CASE session'[s] = Idle
  BY <1>2 DEF InHand, Idle
<1>3. CASE ReverseMark(s)
  <2>1. InHand(s) /\ UNCHANGED orderPayments
    BY <1>3 DEF ReadsHold, ReverseMark
  <2>2. session'[s] = [pc |-> "reversing", payment |-> session[s].payment,
                       intent |-> session[s].intent,
                       total |-> TotalWithout(session[s].intent, session[s].payment)]
        /\ session[s].pc = "reverse"
    BY <1>3 DEF ReverseMark, TypeOK
  <2> QED BY <2>1, <2>2 DEF InHand, TotalWithout, LivePayments, LiveRows
<1>4. CASE Begins(s)
  <2>1. ASSUME NEW p \in Payments, NEW i \in Intents,
               MatchFound(s, p, i) \/ SubmitTrxId(s, p, i) \/ ApproveFromQueue(s, p, i)
        PROVE  InHand(s)'
    <3>1. PICK b \in MatchedBy :
             /\ session'[s] = [pc |-> "apply", payment |-> p, intent |-> i, by |-> b]
             /\ b # "admin" => account[i] = LandedOn[p]
             /\ account' = account
      BY <2>1 DEF MatchFound, SubmitTrxId, ApproveFromQueue, Start, MatchedBy, Claims, TypeOK,
         intentVars
    <3> QED BY <3>1 DEF InHand
  <2>2. ASSUME NEW r \in orderPayments, ReverseRead(s, r) PROVE InHand(s)'
    <3>1. /\ session'[s] = [pc |-> "reverse", payment |-> r.payment, intent |-> r.intent]
          /\ r.reversals = 0
          /\ orderPayments' = orderPayments
      BY <2>2 DEF ReverseRead, Start, TypeOK
    <3> QED BY <3>1 DEF InHand
  <2>3. ASSUME NEW i \in Intents, ExtendRead(s, i) PROVE InHand(s)'
    <3>1. session'[s].pc = "extend"
      BY <2>3 DEF ExtendRead, Start, TypeOK
    <3> QED BY <3>1 DEF InHand
  <2>4. ASSUME NEW i \in Intents, ExpireRead(s, i) PROVE InHand(s)'
    <3>1. session'[s] = [pc |-> "expire", intent |-> i] /\ i \in overdue /\ overdue' = overdue
      BY <2>4 DEF ExpireRead, Due, Start, TypeOK, intentVars
    <3> QED BY <3>1 DEF InHand
  <2>5. ASSUME NEW i \in Intents, NEW a \in Accounts, SwitchRead(s, i, a) PROVE InHand(s)'
    <3>1. /\ session'[s] = [pc |-> "switch", intent |-> i, to |-> a]
          /\ LiveRows(i) = {}
          /\ orderPayments' = orderPayments
      BY <2>5 DEF SwitchRead, Start, TypeOK
    <3> QED BY <3>1 DEF InHand, LiveRows
  <2> QED BY <1>4, <2>1, <2>2, <2>3, <2>4, <2>5 DEF Begins
<1> QED BY <1>1, <1>2, <1>3, <1>4, SerialStep

\* A reversal takes its payment from its intent and no other, when it found the
\* row it reverses.
LEMMA ReversalTakesLivePayment ==
  ASSUME TypeOK, SpentOnce, NEW s \in Sessions, ReverseCommit(s), RowInHand(s)
  PROVE  /\ session[s].payment \in LivePayments(session[s].intent)
         /\ \A j \in Intents : LivePayments(j)' =
               IF j = session[s].intent THEN LivePayments(j) \ {session[s].payment}
               ELSE LivePayments(j)
<1> DEFINE p == session[s].payment
           i == session[s].intent
<1>1. PICK r \in orderPayments : r.payment = p /\ r.intent = i /\ r.reversals = 0
  BY DEF ReverseCommit, RowInHand
<1>2. p \in LivePayments(i)
  BY <1>1 DEF LivePayments, LiveRows
<1>3. \A j \in Intents : j # i => p \notin LivePayments(j)
  BY <1>1 DEF SpentOnce, LivePayments, LiveRows
<1>4. ASSUME NEW j \in Intents PROVE LivePayments(j)' = LivePayments(j) \ {p}
  <2>1. ASSUME NEW r1 \in orderPayments', r1.intent = j, r1.reversals = 0
        PROVE  r1.payment \in LivePayments(j) \ {p}
    <3>1. PICK r0 \in orderPayments : /\ r1.payment = r0.payment
                                      /\ r0.payment = p => r1.reversals = r0.reversals + 1
                                      /\ r0.payment # p => r1 = r0
      BY ReversalKeepsRows
    <3>2. r0.reversals \in Nat
      BY DEF TypeOK, OrderPayment
    <3>3. r0.payment # p /\ r1 = r0
      BY <2>1, <3>1, <3>2
    <3> QED BY <2>1, <3>3 DEF LivePayments, LiveRows
  <2>2. ASSUME NEW r0 \in orderPayments, r0.intent = j, r0.reversals = 0, r0.payment # p
        PROVE  r0 \in orderPayments'
    BY <2>2, ReversalKeepsRows
  <2>3. LivePayments(j)' \subseteq LivePayments(j) \ {p}
    BY <2>1 DEF LivePayments, LiveRows
  <2>4. LivePayments(j) \ {p} \subseteq LivePayments(j)'
    BY <2>2 DEF LivePayments, LiveRows
  <2> QED BY <2>3, <2>4
<1>5. ASSUME NEW j \in Intents
      PROVE  LivePayments(j)' = IF j = i THEN LivePayments(j) \ {p} ELSE LivePayments(j)
  BY <1>3, <1>4
<1> QED BY <1>2, <1>5

-----------------------------------------------------------------------------
(* What races alone can break *)

LEMMA SerialReceivedIsSumStep ==
  ASSUME TypeOK, SpentOnce, ReadsHold, ReceivedIsSum, [Next]_vars
  PROVE  ReceivedIsSum'
<1>1. CASE UNCHANGED <<counted, orderPayments>>
  BY <1>1 DEF ReceivedIsSum, LivePayments, LiveRows
<1>2. ASSUME NEW s \in Sessions, ApplyPayment(s) PROVE ReceivedIsSum'
  <2>1. session[s].intent \in Intents
    BY <1>2, SessionShape DEF ApplyPayment
  <2>2. counted' = [counted EXCEPT ![session[s].intent] =
                      LivePayments(session[s].intent) \cup {session[s].payment}]
    BY <1>2 DEF ApplyPayment, TotalWith
  <2> QED BY <1>2, <2>1, <2>2, ApplyAddsLivePayment DEF ReceivedIsSum, TypeOK
<1>3. ASSUME NEW s \in Sessions, ReverseCommit(s) PROVE ReceivedIsSum'
  <2>1. session[s].intent \in Intents
    BY <1>3, SessionShape DEF ReverseCommit
  <2>2. counted' = [counted EXCEPT ![session[s].intent] =
                      LivePayments(session[s].intent) \ {session[s].payment}]
    BY <1>3 DEF ReverseCommit, ReadsHold, InHand, TotalInHand
  <2>3. RowInHand(s)
    BY DEF ReadsHold, InHand
  <2> QED BY <1>3, <2>1, <2>2, <2>3, ReversalTakesLivePayment DEF ReceivedIsSum, TypeOK
<1> QED BY <1>1, <1>2, <1>3, CountedWriters

LEMMA SerialMoneyStep ==
  ASSUME TypeOK, ReadsHold, MoneyIsOnTheAccount, [Next]_vars
  PROVE  MoneyIsOnTheAccount'
<1>1. CASE UNCHANGED account
  BY <1>1, MoneyStep DEF ReadsHold, InHand, ApplyInHand, AppliesOnAccount
<1>2. ASSUME NEW s \in Sessions, SwitchWrite(s) PROVE MoneyIsOnTheAccount'
  <2>1. PICK i \in Intents, a \in Accounts :
           /\ i = session[s].intent
           /\ account' = [account EXCEPT ![i] = a]
           /\ orderPayments' = orderPayments
           /\ LiveRows(i) = {}
    BY <1>2, SessionShape DEF SwitchWrite, ReadsHold, InHand, SwitchInHand
  <2>2. \A r \in orderPayments : r.reversals = 0 => r.intent # i
    BY <2>1 DEF LiveRows
  <2>3. \A r \in orderPayments : r.intent \in Intents
    BY DEF TypeOK, OrderPayment
  <2> QED BY <2>1, <2>2, <2>3 DEF MoneyIsOnTheAccount, TypeOK
<1> QED BY <1>1, <1>2, AccountWriters

LEMMA ReadsHoldInit == Init => ReadsHold
<1> SUFFICES ASSUME Init, NEW s \in Sessions PROVE InHand(s)
  BY DEF ReadsHold
<1>1. session[s].pc = "idle"
  BY DEF Init, Idle
<1> QED BY <1>1 DEF InHand, RowInHand, TotalInHand, SwitchInHand, ExpiryInHand,
                ApplyInHand

\* One operation at a time, received_amount_cents is the sum of the live rows -
\* reversals included: what reversals_race shows is a race and nothing else.
THEOREM SerialReceivedIsSum ==
  ASSUME OneAtATime
  PROVE  Spec => []ReceivedIsSum
<1>1. Init => ReceivedIsSum /\ ReadsHold
  BY ReadsHoldInit DEF Init, ReceivedIsSum, LivePayments, LiveRows
<1>2. TypeOK /\ SpentOnce /\ ReceivedIsSum /\ ReadsHold /\ [Next]_vars
        => ReceivedIsSum' /\ ReadsHold'
  BY SerialReceivedIsSumStep, ReadsHoldStep
<1> QED BY <1>1, <1>2, TypeCorrect, SpentOnceHolds, PTL DEF Spec

\* One operation at a time, money applied automatically pins the account - method
\* switches included: the switch reads the live rows and updates unconditionally.
THEOREM SerialMoneyIsOnTheAccount ==
  ASSUME OneAtATime
  PROVE  Spec => []MoneyIsOnTheAccount
<1>1. Init => MoneyIsOnTheAccount /\ ReadsHold
  BY ReadsHoldInit DEF Init, MoneyIsOnTheAccount
<1>2. TypeOK /\ MoneyIsOnTheAccount /\ ReadsHold /\ [Next]_vars
        => MoneyIsOnTheAccount' /\ ReadsHold'
  BY SerialMoneyStep, ReadsHoldStep
<1> QED BY <1>1, <1>2, TypeCorrect, PTL DEF Spec

\* One operation at a time, an intent expires with its deadline behind it -
\* extensions included.
THEOREM SerialExpiredWasOverdue ==
  ASSUME OneAtATime
  PROVE  Spec => ExpiredWasOverdue
<1> DEFINE Step == \A i \in Intents :
                      status[i] # "expired" /\ status'[i] = "expired" => i \in overdue
<1>1. Init => ReadsHold
  BY ReadsHoldInit
<1>2. TypeOK /\ ReadsHold /\ [Next]_vars => ReadsHold'
  BY ReadsHoldStep
<1>3. TypeOK /\ ReadsHold /\ [Next]_vars => [Step]_vars
  BY ExpiryStep DEF ReadsHold, InHand, ExpiryInHand, ExpiriesAreDue
<1> QED BY <1>1, <1>2, <1>3, TypeCorrect, PTL DEF Spec, ExpiredWasOverdue

-----------------------------------------------------------------------------
(* The atomic ledger *)

\* An extension writes the status the intent still has.
ExtendsWhatItSaw ==
    \A s \in Sessions : session[s].pc = "extend" => status[session[s].intent] = session[s].seen

LEMMA ExtendsStep ==
  ASSUME OneAtATime, "cancel" \notin Operations, TypeOK, ExtendsWhatItSaw, [Next]_vars
  PROVE  ExtendsWhatItSaw'
<1> SUFFICES ASSUME NEW s \in Sessions, session'[s].pc = "extend"
             PROVE  status'[session'[s].intent] = session'[s].seen
  BY DEF ExtendsWhatItSaw
<1>1. CASE Beside
  <2>1. session' = session
    BY <1>1, BesideKeeps
  <2>2. /\ session[s].intent \in Intents
        /\ status[session[s].intent] = session[s].seen
        /\ session[s].seen # "absent"
    BY <2>1, SessionShape DEF ExtendsWhatItSaw
  <2>3. status'[session[s].intent] = status[session[s].intent]
    <3>1. ASSUME NEW i \in Intents, CreateIntent(i)
          PROVE  status'[session[s].intent] = status[session[s].intent]
      BY <2>2, <3>1 DEF CreateIntent, TypeOK
    <3>2. ASSUME NEW i \in Intents, CancelIntent(i) PROVE FALSE
      BY <3>2 DEF CancelIntent
    <3>3. ASSUME NEW i \in Intents, DeadlinePasses(i) PROVE status' = status
      BY <3>3 DEF DeadlinePasses
    <3>4. ASSUME NEW p \in Payments, \/ CapturePayment(p) \/ RetryOrphan(p)
                                     \/ MatchNothing(p) \/ RejectFromQueue(p)
                                     \/ RestoreToQueue(p)
          PROVE  status' = status
      BY <3>4 DEF CapturePayment, RetryOrphan, MatchNothing, RejectFromQueue, RestoreToQueue,
         intentVars
    <3>5. CASE UNCHANGED vars
      BY <3>5 DEF vars, intentVars
    <3> QED BY <1>1, <3>1, <3>2, <3>3, <3>4, <3>5 DEF Beside
  <2> QED BY <2>1, <2>2, <2>3
<1>2. CASE ReverseMark(s)
  BY <1>2 DEF ReverseMark, TypeOK
<1>3. CASE session'[s] = Idle
  BY <1>3 DEF Idle
<1>4. CASE Begins(s)
  <2>1. ASSUME NEW i \in Intents, ExtendRead(s, i)
        PROVE  status'[session'[s].intent] = session'[s].seen
    BY <2>1 DEF ExtendRead, Start, TypeOK, intentVars
  <2>2. ASSUME NEW p \in Payments, NEW i \in Intents,
               MatchFound(s, p, i) \/ SubmitTrxId(s, p, i) \/ ApproveFromQueue(s, p, i)
        PROVE  FALSE
    BY <2>2 DEF MatchFound, SubmitTrxId, ApproveFromQueue, Start, TypeOK
  <2>3. ASSUME NEW r \in orderPayments, ReverseRead(s, r) PROVE FALSE
    BY <2>3 DEF ReverseRead, Start, TypeOK
  <2>4. ASSUME NEW i \in Intents, ExpireRead(s, i) PROVE FALSE
    BY <2>4 DEF ExpireRead, Start, TypeOK
  <2>5. ASSUME NEW i \in Intents, NEW a \in Accounts, SwitchRead(s, i, a) PROVE FALSE
    BY <2>5 DEF SwitchRead, Start, TypeOK
  <2> QED BY <1>4, <2>1, <2>2, <2>3, <2>4, <2>5 DEF Begins
<1> QED BY <1>1, <1>2, <1>3, <1>4, SerialStep

LEMMA ReversalIsDebit ==
  ASSUME TypeOK, SpentOnce, ReadsHold, ReceivedIsSum, NEW s \in Sessions, ReverseCommit(s)
  PROVE  LedgerPromise!Next
<1>1. PICK p \in Payments, i \in Intents : p = session[s].payment /\ i = session[s].intent
  BY SessionShape DEF ReverseCommit
<1> DEFINE left == counted[i] \ {p}
<1>2. session[s].total = left
  BY <1>1 DEF ReverseCommit, ReadsHold, InHand, TotalInHand, ReceivedIsSum
<1>3. p \in counted[i]
  <2>1. RowInHand(s)
    BY DEF ReadsHold, InHand
  <2> QED BY <1>1, <2>1, ReversalTakesLivePayment DEF ReceivedIsSum
<1>4. left \in SUBSET Payments
  BY DEF TypeOK
<1>5. counted' = [counted EXCEPT ![i] = left] /\ counted'[i] = left
  BY <1>1, <1>2 DEF ReverseCommit, TypeOK
<1>6. status' = [status EXCEPT ![i] =
         IF left = {} THEN "open" ELSE StatusFor(Money(left), Asked[i])]
  <2>1. Money(left) = 0 <=> left = {}
    BY <1>4, MoneyZero
  <2> QED BY <1>1, <1>2, <2>1 DEF ReverseCommit
<1>7. LedgerPromise!Earned(i, left) = StatusFor(Money(left), Asked[i])
  BY DEF LedgerPromise!Earned, StatusFor
<1> HIDE DEF left
<1>8. LedgerPromise!Debit(i, p)
  BY <1>3, <1>5, <1>6, <1>7 DEF LedgerPromise!Debit, left
<1> QED BY <1>8 DEF LedgerPromise!Next

LEMMA ExtensionReopens ==
  ASSUME TypeOK, ExtendsWhatItSaw, NEW s \in Sessions, ExtendWrite(s)
  PROVE  LedgerPromise!Next \/ UNCHANGED <<counted, status>>
<1>1. PICK i \in Intents : i = session[s].intent /\ status[i] = session[s].seen
                           /\ session[s].seen \in {"open", "partial", "expired"}
  BY SessionShape DEF ExtendWrite, ExtendsWhatItSaw
<1>2. status' = [status EXCEPT ![i] = Revived(status[i])] /\ counted' = counted
  BY <1>1 DEF ExtendWrite
<1>3. CASE status[i] = "expired"
  <2>1. LedgerPromise!Open(i)
    BY <1>2, <1>3 DEF LedgerPromise!Open, Revived
  <2> QED BY <2>1 DEF LedgerPromise!Next
<1>4. CASE status[i] # "expired"
  BY <1>2, <1>4 DEF Revived, TypeOK
<1> QED BY <1>3, <1>4

\* One operation at a time, settlement is the atomic ledger with reversals and
\* extensions too: totals and statuses move by one credit, debit, closing or
\* reopening at a time.  A cancel is no session of its own and may fall between
\* an extension's read and write, so it is left out.
THEOREM SerialLedger ==
  ASSUME OneAtATime, "cancel" \notin Operations
  PROVE  Spec => ImplementsLedger
<1> DEFINE Inv == ReceivedIsSum /\ ReadsHold /\ ExtendsWhatItSaw /\ ApplyTargetExists
<1>1. Init => Inv /\ LedgerPromise!Init
  BY ReadsHoldInit
  DEF Init, ReceivedIsSum, LivePayments, LiveRows, ExtendsWhatItSaw, Idle,
      ApplyTargetExists, LedgerPromise!Init
<1>2. TypeOK /\ SpentOnce /\ Inv /\ [Next]_vars => Inv'
  BY SerialReceivedIsSumStep, ReadsHoldStep, ExtendsStep, ApplyTargetStep
<1>3. TypeOK /\ SpentOnce /\ Inv /\ [Next]_vars => [LedgerPromise!Next]_<<counted, status>>
  BY LedgerStep, ReversalIsDebit, ExtensionReopens
<1> QED BY <1>1, <1>2, <1>3, TypeCorrect, SpentOnceHolds, PTL
    DEF Spec, ImplementsLedger, LedgerPromise!Spec
=============================================================================
