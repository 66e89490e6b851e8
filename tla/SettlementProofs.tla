-------------------------- MODULE SettlementProofs --------------------------
(***************************************************************************)
(* Theorems about Settlement, for every set of intents, payments, sessions *)
(* and every choice of operations.                                         *)
(***************************************************************************)
EXTENDS Settlement, SumTheorems, TLAPS

-----------------------------------------------------------------------------
(* Type correctness *)

LEMMA InitType == Init => TypeOK
  BY SettlementAssumption
  DEF Init, TypeOK, SettlementAssumption, IntentStatus, PaymentStatus, Session, Idle

\* The locals a session carries in each of its states.
LEMMA SessionShape ==
  ASSUME TypeOK, NEW s \in Sessions
  PROVE  /\ session[s].pc = "apply" =>
              /\ session[s].payment \in Payments
              /\ session[s].intent \in Intents
              /\ session[s].by \in MatchedBy
         /\ session[s].pc = "reverse" =>
              /\ session[s].payment \in Payments
              /\ session[s].intent \in Intents
         /\ session[s].pc = "reversing" =>
              /\ session[s].payment \in Payments
              /\ session[s].intent \in Intents
              /\ session[s].total \in SUBSET Payments
         /\ session[s].pc = "extend" =>
              /\ session[s].intent \in Intents
              /\ session[s].seen \in {"open", "partial", "expired"}
         /\ session[s].pc = "expire" => session[s].intent \in Intents
         /\ session[s].pc = "switch" =>
              /\ session[s].intent \in Intents
              /\ session[s].to \in Accounts
  BY DEF TypeOK, Session, Idle

LEMMA LivePaymentsType ==
  ASSUME TypeOK, NEW i \in Intents
  PROVE  LivePayments(i) \subseteq Payments
  BY DEF TypeOK, LivePayments, LiveRows, OrderPayment

LEMMA StatusForType ==
  ASSUME NEW a, NEW b
  PROVE  StatusFor(a, b) \in {"over", "matched", "partial"}
  BY DEF StatusFor

LEMMA NextType ==
  ASSUME TypeOK, [Next]_vars
  PROVE  TypeOK'
<1> USE DEF intentVars, paymentVars
<1>1. ASSUME NEW i \in Intents, CreateIntent(i) PROVE TypeOK'
  BY <1>1 DEF TypeOK, CreateIntent, IntentStatus
<1>2. ASSUME NEW i \in Intents, DeadlinePasses(i) PROVE TypeOK'
  BY <1>2 DEF TypeOK, DeadlinePasses
<1>3. ASSUME NEW i \in Intents, CancelIntent(i) PROVE TypeOK'
  BY <1>3 DEF TypeOK, CancelIntent, SettleRefCode, IntentStatus
<1>4. ASSUME NEW p \in Payments, CapturePayment(p) PROVE TypeOK'
  BY <1>4 DEF TypeOK, CapturePayment, PaymentStatus
<1>5. ASSUME NEW p \in Payments, RetryOrphan(p) PROVE TypeOK'
  BY <1>5 DEF TypeOK, RetryOrphan
<1>6. ASSUME NEW p \in Payments, MatchNothing(p) PROVE TypeOK'
  BY <1>6, SettlementAssumption DEF TypeOK, MatchNothing, CountAttempt, SettlementAssumption
<1>7. ASSUME NEW p \in Payments, RejectFromQueue(p) PROVE TypeOK'
  BY <1>7 DEF TypeOK, RejectFromQueue, PaymentStatus
<1>8. ASSUME NEW s \in Sessions, NEW p \in Payments, NEW i \in Intents, MatchFound(s, p, i)
      PROVE TypeOK'
  <2>1. session' \in [Sessions -> Session]
    BY <1>8 DEF TypeOK, MatchFound, Start, Session, MatchedBy
  <2>2. attempts' \in [Payments -> 0 .. MaxAttempts]
    BY <1>8, SettlementAssumption DEF TypeOK, MatchFound, CountAttempt, SettlementAssumption
  <2> QED BY <1>8, <2>1, <2>2 DEF TypeOK, MatchFound
<1>9. ASSUME NEW s \in Sessions, NEW p \in Payments, NEW i \in Intents, SubmitTrxId(s, p, i)
      PROVE TypeOK'
  <2>1. session' \in [Sessions -> Session]
    BY <1>9 DEF TypeOK, SubmitTrxId, Start, Session, MatchedBy
  <2> QED BY <1>9, <2>1 DEF TypeOK, SubmitTrxId
<1>10. ASSUME NEW s \in Sessions, NEW p \in Payments, NEW i \in Intents,
              ApproveFromQueue(s, p, i)
       PROVE TypeOK'
  <2>1. session' \in [Sessions -> Session]
    BY <1>10 DEF TypeOK, ApproveFromQueue, Start, Session, MatchedBy
  <2> QED BY <1>10, <2>1 DEF TypeOK, ApproveFromQueue
<1>11. ASSUME NEW s \in Sessions, NEW r \in orderPayments, ReverseRead(s, r) PROVE TypeOK'
  <2>1. r.payment \in Payments /\ r.intent \in Intents
    BY DEF TypeOK, OrderPayment
  <2>2. session' \in [Sessions -> Session]
    BY <1>11, <2>1 DEF TypeOK, ReverseRead, Start, Session
  <2> QED BY <1>11, <2>2 DEF TypeOK, ReverseRead
<1>12. ASSUME NEW s \in Sessions, NEW i \in Intents, ExtendRead(s, i) PROVE TypeOK'
  <2>1. session' \in [Sessions -> Session]
    BY <1>12 DEF TypeOK, ExtendRead, Start, Session
  <2> QED BY <1>12, <2>1 DEF TypeOK, ExtendRead
<1>13. ASSUME NEW s \in Sessions, NEW i \in Intents, ExpireRead(s, i) PROVE TypeOK'
  <2>1. session' \in [Sessions -> Session]
    BY <1>13 DEF TypeOK, ExpireRead, Start, Session
  <2> QED BY <1>13, <2>1 DEF TypeOK, ExpireRead
<1>14. ASSUME NEW s \in Sessions, NEW i \in Intents, NEW a \in Accounts, SwitchRead(s, i, a)
       PROVE TypeOK'
  <2>1. session' \in [Sessions -> Session]
    BY <1>14 DEF TypeOK, SwitchRead, Start, Session
  <2> QED BY <1>14, <2>1 DEF TypeOK, SwitchRead
<1>15. ASSUME NEW p \in Payments, RestoreToQueue(p) PROVE TypeOK'
  BY <1>15, SettlementAssumption DEF TypeOK, RestoreToQueue, PaymentStatus, SettlementAssumption
<1>16. ASSUME NEW s \in Sessions, Resume(s) PROVE TypeOK'
  <2> USE SessionShape
  <2>1. CASE ApplyPayment(s)
    <3> DEFINE p == session[s].payment
               i == session[s].intent
               total == TotalWith(i, p)
               next == StatusFor(Money(total), Asked[i])
    <3>1. p \in Payments /\ i \in Intents /\ session[s].by \in MatchedBy
      BY <2>1 DEF ApplyPayment
    <3>2. total \in SUBSET Payments
      BY <3>1, LivePaymentsType DEF TotalWith
    <3>3. next \in {"over", "matched", "partial"}
      BY StatusForType
    <3>4. orderPayments' \subseteq OrderPayment
      BY <2>1, <3>1 DEF ApplyPayment, TypeOK, OrderPayment
    <3>5. status' \in [Intents -> IntentStatus]
      BY <2>1, <3>1, <3>3 DEF ApplyPayment, TypeOK, IntentStatus
    <3>6. counted' \in [Intents -> SUBSET Payments]
      BY <2>1, <3>1, <3>2 DEF ApplyPayment, TypeOK
    <3>7. refCode' \in [Intents -> {"absent", "open", "consumed", "expired"}]
      BY <2>1, <3>1 DEF ApplyPayment, TypeOK, SettleRefCode
    <3>8. told' \in [Intents -> {"nothing", "payment.succeeded", "payment.partial",
                                 "payment.overpaid", "payment.reversed",
                                 "payment.cancelled", "payment.expired"}]
      BY <2>1, <3>1 DEF ApplyPayment, TypeOK, EventFor
    <3>9. payment' \in [Payments -> PaymentStatus]
      BY <2>1, <3>1 DEF ApplyPayment, TypeOK, PaymentStatus
    <3> HIDE DEF p, i, total, next
    <3> QED BY <2>1, <3>4, <3>5, <3>6, <3>7, <3>8, <3>9
            DEF ApplyPayment, TypeOK, Finish, Session
  <2>2. CASE ApplyRefused(s)
    BY <2>2 DEF ApplyRefused, TypeOK, Finish, Session
  <2>3. CASE ReverseMark(s)
    <3>1. session[s].payment \in Payments /\ session[s].intent \in Intents
      BY <2>3 DEF ReverseMark
    <3>2. TotalWithout(session[s].intent, session[s].payment) \in SUBSET Payments
      BY <3>1, LivePaymentsType DEF TotalWithout
    <3>3. session' \in [Sessions -> Session]
      BY <2>3, <3>1, <3>2 DEF ReverseMark, TypeOK, Session
    <3> QED BY <2>3, <3>3 DEF ReverseMark, TypeOK
  <2>4. CASE ReverseCommit(s)
    <3> DEFINE p == session[s].payment
               i == session[s].intent
               total == session[s].total
    <3>1. p \in Payments /\ i \in Intents /\ total \in SUBSET Payments
      BY <2>4 DEF ReverseCommit
    <3>2. orderPayments' \subseteq OrderPayment
      <4>1. ASSUME NEW r \in orderPayments
            PROVE  (IF r.payment = p THEN [r EXCEPT !.reversals = @ + 1] ELSE r)
                     \in OrderPayment
        BY DEF TypeOK, OrderPayment
      <4> QED BY <2>4, <4>1 DEF ReverseCommit
    <3>3. status' \in [Intents -> IntentStatus]
      <4>1. (IF Money(total) = 0 THEN "open" ELSE StatusFor(Money(total), Asked[i]))
              \in IntentStatus
        BY StatusForType DEF IntentStatus
      <4> QED BY <2>4, <3>1, <4>1 DEF ReverseCommit, TypeOK
    <3>4. counted' \in [Intents -> SUBSET Payments]
      BY <2>4, <3>1 DEF ReverseCommit, TypeOK
    <3>5. payment' \in [Payments -> PaymentStatus]
      BY <2>4, <3>1 DEF ReverseCommit, TypeOK, PaymentStatus
    <3>6. told' \in [Intents -> {"nothing", "payment.succeeded", "payment.partial",
                                 "payment.overpaid", "payment.reversed",
                                 "payment.cancelled", "payment.expired"}]
      BY <2>4, <3>1 DEF ReverseCommit, TypeOK
    <3> HIDE DEF p, i, total
    <3> QED BY <2>4, <3>2, <3>3, <3>4, <3>5, <3>6
            DEF ReverseCommit, TypeOK, Finish, Session
  <2>5. CASE ExtendWrite(s)
    <3>1. Revived(session[s].seen) \in IntentStatus
      BY <2>5 DEF ExtendWrite, Revived, IntentStatus
    <3> QED BY <2>5, <3>1 DEF ExtendWrite, TypeOK, Finish, Session
  <2>6. CASE ExpireOne(s)
    BY <2>6 DEF ExpireOne, TypeOK, Finish, Session, SettleRefCode, IntentStatus
  <2>7. CASE SwitchWrite(s)
    BY <2>7 DEF SwitchWrite, TypeOK, Finish, Session
  <2> QED BY <1>16, <2>1, <2>2, <2>3, <2>4, <2>5, <2>6, <2>7 DEF Resume
<1>17. CASE Crash
  BY <1>17, SettlementAssumption DEF Crash, TypeOK, Session, SettlementAssumption
<1>18. CASE UNCHANGED vars
  BY <1>18 DEF vars, TypeOK
<1> QED
  BY <1>1, <1>2, <1>3, <1>4, <1>5, <1>6, <1>7, <1>8, <1>9, <1>10, <1>11, <1>12, <1>13,
     <1>14, <1>15, <1>16, <1>17, <1>18 DEF Next

\* Every reachable state has the types of the schema, whatever the instance.
THEOREM TypeCorrect == Spec => []TypeOK
<1>1. Init => TypeOK
  BY InitType
<1>2. TypeOK /\ [Next]_vars => TypeOK'
  BY NextType
<1> QED BY <1>1, <1>2, PTL DEF Spec

-----------------------------------------------------------------------------
(* One application per payment, and its refinement of SpendOnce *)

\* Steps that leave order_payments alone.
LEMMA OnlyTwoStepsWriteRows ==
  ASSUME [Next]_vars
  PROVE  \/ UNCHANGED orderPayments
         \/ \E s \in Sessions : ApplyPayment(s)
         \/ \E s \in Sessions : ReverseCommit(s)
  BY DEF Next, Resume, vars, CreateIntent, DeadlinePasses, CancelIntent, CapturePayment,
     RetryOrphan, MatchNothing, RejectFromQueue, MatchFound, SubmitTrxId, ApproveFromQueue,
     ReverseRead, ExtendRead, ExpireRead, SwitchRead, ApplyRefused, ReverseMark,
     ExtendWrite, ExpireOne, SwitchWrite, RestoreToQueue, Crash

\* A reversal touches nothing of a row but its count of reversals.
LEMMA ReversalKeepsRows ==
  ASSUME TypeOK, NEW s \in Sessions, ReverseCommit(s)
  PROVE  /\ \A r1 \in orderPayments' : \E r \in orderPayments :
              /\ r1.payment = r.payment
              /\ r1.intent = r.intent
              /\ r.payment = session[s].payment => r1.reversals = r.reversals + 1
              /\ r.payment # session[s].payment => r1 = r
         /\ \A r \in orderPayments : \E r1 \in orderPayments' :
              /\ r1.payment = r.payment
              /\ r1.intent = r.intent
              /\ r.payment = session[s].payment => r1.reversals = r.reversals + 1
              /\ r.payment # session[s].payment => r1 = r
<1> DEFINE p == session[s].payment
           mark(r) == IF r.payment = p THEN [r EXCEPT !.reversals = @ + 1] ELSE r
<1>1. orderPayments' = {mark(r) : r \in orderPayments}
  BY DEF ReverseCommit
<1>2. \A r \in orderPayments :
         /\ mark(r).payment = r.payment
         /\ mark(r).intent = r.intent
         /\ r.payment = p => mark(r).reversals = r.reversals + 1
         /\ r.payment # p => mark(r) = r
  BY DEF TypeOK, OrderPayment
<1> HIDE DEF mark, p
<1>3. \A r1 \in orderPayments' : \E r \in orderPayments : r1 = mark(r)
  BY <1>1
<1>4. \A r \in orderPayments : mark(r) \in orderPayments'
  BY <1>1
<1> QED BY <1>2, <1>3, <1>4 DEF p

LEMMA NextSpentOnce ==
  ASSUME TypeOK, SpentOnce, [Next]_vars
  PROVE  SpentOnce'
<1>1. CASE UNCHANGED orderPayments
  BY <1>1 DEF SpentOnce
<1>2. ASSUME NEW s \in Sessions, ApplyPayment(s) PROVE SpentOnce'
  BY <1>2 DEF ApplyPayment, Unspent, SpentOnce
<1>3. ASSUME NEW s \in Sessions, ReverseCommit(s) PROVE SpentOnce'
  <2> DEFINE p == session[s].payment
             mark(r) == IF r.payment = p THEN [r EXCEPT !.reversals = @ + 1] ELSE r
  <2>1. orderPayments' = {mark(r) : r \in orderPayments}
    BY <1>3 DEF ReverseCommit
  <2>2. \A r \in orderPayments : mark(r).payment = r.payment
    BY DEF TypeOK, OrderPayment
  <2> HIDE DEF mark
  <2> QED BY <2>1, <2>2 DEF SpentOnce
<1> QED BY <1>1, <1>2, <1>3, OnlyTwoStepsWriteRows

\* However operations interleave, a payment is applied to one intent, once.
THEOREM SpentOnceHolds == Spec => []SpentOnce
<1>1. Init => SpentOnce
  BY DEF Init, SpentOnce
<1>2. TypeOK /\ SpentOnce /\ [Next]_vars => SpentOnce'
  BY NextSpentOnce
<1> QED BY <1>1, <1>2, TypeCorrect, PTL DEF Spec

LEMMA SpendOfRow ==
  ASSUME SpentOnce, NEW r \in orderPayments
  PROVE  Spend(r.payment) = [state |-> IF r.reversals = 0 THEN "spent" ELSE "retracted",
                             intent |-> r.intent]
<1> DEFINE c == CHOOSE r1 \in orderPayments : r1.payment = r.payment
<1>1. c \in orderPayments /\ c.payment = r.payment
  OBVIOUS
<1>2. c = r
  BY <1>1 DEF SpentOnce
<1> QED BY <1>2 DEF Spend

LEMMA SpendOfFresh ==
  ASSUME NEW p, Unspent(p)
  PROVE  Spend(p) = [state |-> "fresh"]
  BY DEF Spend, Unspent

LEMMA SpendStep ==
  ASSUME TypeOK, SpentOnce, SpentOnce', TypeOK', [Next]_vars
  PROVE  [SpendOncePromise!Next]_([p \in Payments |-> Spend(p)])
<1> DEFINE spend == [p \in Payments |-> Spend(p)]
<1>1. CASE UNCHANGED orderPayments
  BY <1>1 DEF Spend
<1>2. ASSUME NEW s \in Sessions, ApplyPayment(s) PROVE SpendOncePromise!Next
  <2>1. PICK p \in Payments, i \in Intents, b \in MatchedBy :
           p = session[s].payment /\ i = session[s].intent /\ b = session[s].by
    BY <1>2, SessionShape DEF ApplyPayment
  <2> DEFINE row == [payment |-> p, intent |-> i, by |-> b, reversals |-> 0]
  <2>2. Unspent(p) /\ orderPayments' = orderPayments \cup {row}
    BY <1>2, <2>1 DEF ApplyPayment
  <2>3. Spend(p) = [state |-> "fresh"]
    BY <2>2, SpendOfFresh
  <2>4. Spend(p)' = [state |-> "spent", intent |-> i]
    <3>1. row \in orderPayments' /\ row.payment = p /\ row.intent = i /\ row.reversals = 0
      BY <2>2
    <3> HIDE DEF row
    <3>2. \A r \in orderPayments' : r.payment = p => r = row
      BY <3>1 DEF SpentOnce
    <3>3. (CHOOSE r \in orderPayments' : r.payment = p) = row
      BY <3>1, <3>2
    <3> QED BY <3>1, <3>3 DEF Spend
  <2>5. \A q \in Payments \ {p} : Spend(q)' = Spend(q)
    <3> TAKE q \in Payments \ {p}
    <3>1. (\E r \in orderPayments' : r.payment = q) <=> (\E r \in orderPayments : r.payment = q)
      BY <2>2
    <3>2. ASSUME NEW r \in orderPayments, r.payment = q PROVE Spend(q)' = Spend(q)
      <4>1. r \in orderPayments'
        BY <2>2
      <4>2. \A t \in orderPayments' : t.payment = q => t = r
        BY <3>2, <4>1 DEF SpentOnce
      <4>3. (CHOOSE t \in orderPayments' : t.payment = q) = r
        BY <3>2, <4>1, <4>2
      <4> QED BY <3>2, <4>1, <4>3, SpendOfRow DEF Spend
    <3>3. CASE ~ \E r \in orderPayments : r.payment = q
      BY <3>1, <3>3 DEF Spend
    <3> QED BY <3>2, <3>3
  <2>6. spend' = [spend EXCEPT ![p] = [state |-> "spent", intent |-> i]]
    BY <2>1, <2>4, <2>5
  <2>7. SpendOncePromise!Spend(p, i)
    BY <2>1, <2>3, <2>6 DEF SpendOncePromise!Spend, SpendOncePromise!Fresh,
       SpendOncePromise!SpentOn
  <2> QED BY <2>1, <2>7 DEF SpendOncePromise!Next
<1>3. ASSUME NEW s \in Sessions, ReverseCommit(s)
      PROVE  SpendOncePromise!Next \/ UNCHANGED spend
  <2>1. PICK p \in Payments : p = session[s].payment
    BY <1>3, SessionShape DEF ReverseCommit
  <2>2. \A r \in orderPayments' : Spend(r.payment)' =
              [state |-> IF r.reversals = 0 THEN "spent" ELSE "retracted",
               intent |-> r.intent]
    <3> TAKE r \in orderPayments'
    <3>1. \A t \in orderPayments' : t.payment = r.payment => t = r
      BY DEF SpentOnce
    <3>2. (CHOOSE t \in orderPayments' : t.payment = r.payment) = r
      BY <3>1
    <3> QED BY <3>2 DEF Spend
  <2>3. \A q \in Payments \ {p} : Spend(q)' = Spend(q)
    <3> TAKE q \in Payments \ {p}
    <3>1. ASSUME NEW r \in orderPayments, r.payment = q PROVE Spend(q)' = Spend(q)
      <4>1. r \in orderPayments'
        BY <1>3, <2>1, <3>1, ReversalKeepsRows
      <4> QED BY <2>2, <3>1, <4>1, SpendOfRow
    <3>2. CASE ~ \E r \in orderPayments : r.payment = q
      <4>1. ~ \E r \in orderPayments' : r.payment = q
        BY <1>3, <2>1, <3>2, ReversalKeepsRows
      <4> QED BY <3>2, <4>1 DEF Spend
    <3> QED BY <3>1, <3>2
  <2>4. ASSUME NEW r \in orderPayments, r.payment = p
        PROVE  SpendOncePromise!Next \/ UNCHANGED spend
    <3>1. PICK r1 \in orderPayments' : /\ r1.payment = p
                                       /\ r1.intent = r.intent
                                       /\ r1.reversals = r.reversals + 1
      BY <1>3, <2>1, <2>4, ReversalKeepsRows
    <3>2. r.reversals \in Nat /\ r.intent \in Intents
      BY DEF TypeOK, OrderPayment
    <3>3. Spend(p)' = [state |-> "retracted", intent |-> r.intent]
      <4>1. Spend(r1.payment)' = [state |-> IF r1.reversals = 0 THEN "spent" ELSE "retracted",
                                  intent |-> r1.intent]
        BY <2>2
      <4>2. r1.reversals # 0
        BY <3>1, <3>2
      <4> QED BY <3>1, <4>1, <4>2
    <3>4. CASE r.reversals = 0
      <4>1. Spend(p) = [state |-> "spent", intent |-> r.intent]
        BY <2>4, <3>4, SpendOfRow
      <4>2. spend' = [spend EXCEPT ![p] = [state |-> "retracted", intent |-> r.intent]]
        BY <2>1, <2>3, <3>3
      <4>3. SpendOncePromise!Retract(p, r.intent)
        BY <2>1, <4>1, <4>2 DEF SpendOncePromise!Retract, SpendOncePromise!SpentOn,
           SpendOncePromise!Retracted
      <4> QED BY <2>1, <3>2, <4>3 DEF SpendOncePromise!Next
    <3>5. CASE r.reversals # 0
      <4>1. Spend(p) = [state |-> "retracted", intent |-> r.intent]
        BY <2>4, <3>5, SpendOfRow
      <4> QED BY <2>3, <3>3, <4>1
    <3> QED BY <3>4, <3>5
  <2>5. CASE ~ \E r \in orderPayments : r.payment = p
    <3>1. ~ \E r \in orderPayments' : r.payment = p
      BY <1>3, <2>1, <2>5, ReversalKeepsRows
    <3>2. Spend(p)' = Spend(p)
      BY <2>5, <3>1 DEF Spend
    <3> QED BY <2>3, <3>2
  <2> QED BY <2>4, <2>5
<1> QED BY <1>1, <1>2, <1>3, OnlyTwoStepsWriteRows

\* Every payment goes from fresh to spent to retracted and never back: the table
\* implements SpendOnce under every interleaving of every operation.
THEOREM SpendRefinement == Spec => SpentAndRetractedOnce
<1>1. Init => SpendOncePromise!Init
  BY DEF Init, SpendOncePromise!Init, SpendOncePromise!Fresh, Spend
<1>2. TypeOK /\ TypeOK' /\ SpentOnce /\ SpentOnce' /\ [Next]_vars
        => [SpendOncePromise!Next]_([p \in Payments |-> Spend(p)])
  BY SpendStep
<1> QED BY <1>1, <1>2, TypeCorrect, SpentOnceHolds, PTL
    DEF Spec, SpentAndRetractedOnce, SpendOncePromise!Spec

-----------------------------------------------------------------------------
(* The payment's status, while nothing is restored *)

\* No session is in a state of an operation the deployment does not use.
NoSession(pc) == \A s \in Sessions : session[s].pc # pc

\* What a step does to the sessions: nothing, all of them end, one ends or enters
\* an operation, or one goes on with its reversal.
LEMMA SessionWriters ==
  ASSUME [Next]_vars
  PROVE  \/ UNCHANGED session
         \/ session' = [s \in Sessions |-> Idle]
         \/ \E s \in Sessions : Finish(s) \/ ReverseMark(s)
         \/ \E s \in Sessions, p \in Payments, i \in Intents :
               MatchFound(s, p, i) \/ SubmitTrxId(s, p, i) \/ ApproveFromQueue(s, p, i)
         \/ \E s \in Sessions, r \in orderPayments : ReverseRead(s, r)
         \/ \E s \in Sessions, i \in Intents : ExtendRead(s, i) \/ ExpireRead(s, i)
         \/ \E s \in Sessions, i \in Intents, a \in Accounts : SwitchRead(s, i, a)
<1>1. ASSUME NEW i \in Intents, CreateIntent(i) \/ DeadlinePasses(i) \/ CancelIntent(i)
      PROVE  UNCHANGED session
  BY <1>1 DEF CreateIntent, DeadlinePasses, CancelIntent
<1>2. ASSUME NEW p \in Payments, \/ CapturePayment(p) \/ RetryOrphan(p) \/ MatchNothing(p)
                                  \/ RejectFromQueue(p) \/ RestoreToQueue(p)
      PROVE  UNCHANGED session
  BY <1>2 DEF CapturePayment, RetryOrphan, MatchNothing, RejectFromQueue, RestoreToQueue
<1>3. ASSUME NEW s \in Sessions, Resume(s)
      PROVE  Finish(s) \/ ReverseMark(s)
  BY <1>3 DEF Resume, ApplyPayment, ApplyRefused, ReverseCommit, ExtendWrite, ExpireOne,
     SwitchWrite
<1>4. CASE Crash
  BY <1>4 DEF Crash
<1>5. CASE UNCHANGED vars
  BY <1>5 DEF vars
<1> QED BY <1>1, <1>2, <1>3, <1>4, <1>5 DEF Next

\* Steps that leave payment alone.
LEMMA PaymentWriters ==
  ASSUME [Next]_vars
  PROVE  \/ UNCHANGED payment
         \/ \E p \in Payments : CapturePayment(p) \/ RejectFromQueue(p) \/ RestoreToQueue(p)
         \/ \E s \in Sessions : ApplyPayment(s) \/ ReverseCommit(s)
  BY DEF Next, Resume, vars, paymentVars, CreateIntent, DeadlinePasses, CancelIntent,
     RetryOrphan, MatchNothing, MatchFound, SubmitTrxId, ApproveFromQueue, ReverseRead,
     ExtendRead, ExpireRead, SwitchRead, ApplyRefused, ReverseMark, ExtendWrite,
     ExpireOne, SwitchWrite, Crash

LEMMA NextMatchedIsSpent ==
  ASSUME "restore" \notin Operations, TypeOK, SpentOnce, MatchedIsSpent, [Next]_vars
  PROVE  MatchedIsSpent'
<1>1. CASE UNCHANGED <<payment, orderPayments>>
  BY <1>1 DEF MatchedIsSpent, HasLiveRow
<1>2. ASSUME NEW p \in Payments, CapturePayment(p) \/ RejectFromQueue(p)
      PROVE  MatchedIsSpent'
  BY <1>2 DEF CapturePayment, RejectFromQueue, Rejectable, MatchedIsSpent, HasLiveRow, TypeOK
<1>3. ASSUME NEW s \in Sessions, ApplyPayment(s) PROVE MatchedIsSpent'
  <2>1. PICK p \in Payments, i \in Intents, b \in MatchedBy :
           p = session[s].payment /\ i = session[s].intent /\ b = session[s].by
    BY <1>3, SessionShape DEF ApplyPayment
  <2> DEFINE row == [payment |-> p, intent |-> i, by |-> b, reversals |-> 0]
  <2>2. orderPayments' = orderPayments \cup {row} /\ payment' = [payment EXCEPT ![p] = "matched"]
    BY <1>3, <2>1 DEF ApplyPayment
  <2>3. row.payment = p /\ row.reversals = 0
    OBVIOUS
  <2> HIDE DEF row
  <2>4. \A q \in Payments : HasLiveRow(q)' <=> (q = p \/ HasLiveRow(q))
    BY <2>2, <2>3 DEF HasLiveRow
  <2> QED BY <2>2, <2>4 DEF MatchedIsSpent, TypeOK
<1>4. ASSUME NEW s \in Sessions, ReverseCommit(s) PROVE MatchedIsSpent'
  <2>1. PICK p \in Payments : p = session[s].payment
    BY <1>4, SessionShape DEF ReverseCommit
  <2>2. payment' = [payment EXCEPT ![p] = "unmatched"]
    BY <1>4, <2>1 DEF ReverseCommit
  <2>3. ~ HasLiveRow(p)'
    <3>1. ASSUME NEW r1 \in orderPayments', r1.payment = p PROVE r1.reversals # 0
      <4>1. PICK r \in orderPayments : r1.payment = r.payment /\ r1.reversals = r.reversals + 1
        BY <1>4, <2>1, <3>1, ReversalKeepsRows
      <4>2. r.reversals \in Nat
        BY DEF TypeOK, OrderPayment
      <4> QED BY <4>1, <4>2
    <3> QED BY <3>1 DEF HasLiveRow
  <2>4. \A q \in Payments \ {p} : HasLiveRow(q)' <=> HasLiveRow(q)
    <3> TAKE q \in Payments \ {p}
    <3>1. \A r \in orderPayments : r.payment = q => r \in orderPayments'
      BY <1>4, <2>1, ReversalKeepsRows
    <3>2. \A r \in orderPayments' : r.payment = q => r \in orderPayments
      BY <1>4, <2>1, ReversalKeepsRows
    <3> QED BY <3>1, <3>2 DEF HasLiveRow
  <2> QED BY <2>2, <2>3, <2>4 DEF MatchedIsSpent, TypeOK
<1>5. ASSUME NEW p \in Payments, RestoreToQueue(p) PROVE FALSE
  BY <1>5 DEF RestoreToQueue
<1> QED BY <1>1, <1>2, <1>3, <1>4, <1>5, PaymentWriters, OnlyTwoStepsWriteRows

\* Without restores, and whatever reversals, rejections, matches and approvals
\* interleave, a payment is matched exactly while its money is applied.
THEOREM MatchedIsSpentHolds ==
  ASSUME "restore" \notin Operations
  PROVE  Spec => []MatchedIsSpent
<1>1. Init => MatchedIsSpent
  BY DEF Init, MatchedIsSpent, HasLiveRow
<1>2. TypeOK /\ SpentOnce /\ MatchedIsSpent /\ [Next]_vars => MatchedIsSpent'
  BY NextMatchedIsSpent
<1> QED BY <1>1, <1>2, TypeCorrect, SpentOnceHolds, PTL DEF Spec

-----------------------------------------------------------------------------
(* The running total, while nothing is reversed *)

NoReversal == NoSession("reverse") /\ NoSession("reversing")

LEMMA NoReversalStep ==
  ASSUME "reverse" \notin Operations, TypeOK, NoReversal, [Next]_vars
  PROVE  NoReversal'
<1>1. CASE UNCHANGED session \/ session' = [s \in Sessions |-> Idle]
  BY <1>1 DEF NoReversal, NoSession, Idle
<1>2. ASSUME NEW s \in Sessions, Finish(s) PROVE NoReversal'
  BY <1>2 DEF Finish, NoReversal, NoSession, Idle, TypeOK
<1>3. ASSUME NEW s \in Sessions, ReverseMark(s) PROVE FALSE
  BY <1>3 DEF ReverseMark, NoReversal, NoSession
<1>4. ASSUME NEW s \in Sessions, NEW p \in Payments, NEW i \in Intents,
             MatchFound(s, p, i) \/ SubmitTrxId(s, p, i) \/ ApproveFromQueue(s, p, i)
      PROVE  NoReversal'
  BY <1>4 DEF MatchFound, SubmitTrxId, ApproveFromQueue, Start, NoReversal, NoSession, TypeOK
<1>5. ASSUME NEW s \in Sessions, NEW r \in orderPayments, ReverseRead(s, r) PROVE FALSE
  BY <1>5 DEF ReverseRead, Start
<1>6. ASSUME NEW s \in Sessions, NEW i \in Intents, ExtendRead(s, i) \/ ExpireRead(s, i)
      PROVE  NoReversal'
  BY <1>6 DEF ExtendRead, ExpireRead, Start, NoReversal, NoSession, TypeOK
<1>7. ASSUME NEW s \in Sessions, NEW i \in Intents, NEW a \in Accounts, SwitchRead(s, i, a)
      PROVE  NoReversal'
  BY <1>7 DEF SwitchRead, Start, NoReversal, NoSession, TypeOK
<1> QED BY <1>1, <1>2, <1>3, <1>4, <1>5, <1>6, <1>7, SessionWriters

\* Steps that leave the total alone.
LEMMA CountedWriters ==
  ASSUME [Next]_vars
  PROVE  \/ UNCHANGED <<counted, orderPayments>>
         \/ \E s \in Sessions : ApplyPayment(s) \/ ReverseCommit(s)
  BY DEF Next, Resume, vars, intentVars, CreateIntent, DeadlinePasses, CancelIntent,
     CapturePayment, RetryOrphan, MatchNothing, RejectFromQueue, MatchFound, SubmitTrxId,
     ApproveFromQueue, ReverseRead, ExtendRead, ExpireRead, SwitchRead,
     ApplyRefused, ReverseMark, ExtendWrite, ExpireOne, SwitchWrite, RestoreToQueue, Crash

\* Applying adds the payment to its intent's live payments and to no other's.
LEMMA ApplyAddsLivePayment ==
  ASSUME TypeOK, NEW s \in Sessions, ApplyPayment(s)
  PROVE  \A j \in Intents : LivePayments(j)' =
             IF j = session[s].intent THEN LivePayments(j) \cup {session[s].payment}
             ELSE LivePayments(j)
<1>1. PICK p \in Payments, i \in Intents, b \in MatchedBy :
         p = session[s].payment /\ i = session[s].intent /\ b = session[s].by
  BY SessionShape DEF ApplyPayment
<1> DEFINE row == [payment |-> p, intent |-> i, by |-> b, reversals |-> 0]
<1>2. orderPayments' = orderPayments \cup {row}
  BY <1>1 DEF ApplyPayment
<1>3. row.payment = p /\ row.reversals = 0 /\ row.intent = i
  OBVIOUS
<1> HIDE DEF row
<1> TAKE j \in Intents
<1>4. LiveRows(j)' = IF j = i THEN LiveRows(j) \cup {row} ELSE LiveRows(j)
  BY <1>2, <1>3 DEF LiveRows
<1> QED BY <1>1, <1>3, <1>4 DEF LivePayments

LEMMA NextReceivedIsSum ==
  ASSUME TypeOK, ReceivedIsSum, NoReversal, [Next]_vars
  PROVE  ReceivedIsSum'
<1>1. CASE UNCHANGED <<counted, orderPayments>>
  BY <1>1 DEF ReceivedIsSum, LivePayments, LiveRows
<1>2. ASSUME NEW s \in Sessions, ApplyPayment(s) PROVE ReceivedIsSum'
  <2>1. session[s].intent \in Intents
    BY <1>2, SessionShape DEF ApplyPayment
  <2>2. counted' = [counted EXCEPT ![session[s].intent] =
                      LivePayments(session[s].intent) \cup {session[s].payment}]
    BY <1>2 DEF ApplyPayment, TotalWith
  <2> QED BY <1>2, <2>1, <2>2, ApplyAddsLivePayment DEF ReceivedIsSum, TypeOK
<1>3. ASSUME NEW s \in Sessions, ReverseCommit(s) PROVE FALSE
  BY <1>3 DEF ReverseCommit, NoReversal, NoSession
<1> QED BY <1>1, <1>2, <1>3, CountedWriters

\* Matches, submissions and approvals racing on one intent lose no payment from
\* its total: the row lock of applyPayment does what its comment claims.
THEOREM ReceivedIsSumHolds ==
  ASSUME "reverse" \notin Operations
  PROVE  Spec => []ReceivedIsSum
<1>1. Init => ReceivedIsSum /\ NoReversal
  BY DEF Init, ReceivedIsSum, LivePayments, LiveRows, NoReversal, NoSession, Idle
<1>2. TypeOK /\ ReceivedIsSum /\ NoReversal /\ [Next]_vars => ReceivedIsSum' /\ NoReversal'
  BY NextReceivedIsSum, NoReversalStep
<1> QED BY <1>1, <1>2, TypeCorrect, PTL DEF Spec

-----------------------------------------------------------------------------
(* The atomic ledger, while nothing is reversed or extended                 *)

NoExtension == NoSession("extend")

LEMMA NoExtensionStep ==
  ASSUME "extend" \notin Operations, TypeOK, NoExtension, [Next]_vars
  PROVE  NoExtension'
<1>1. CASE UNCHANGED session \/ session' = [s \in Sessions |-> Idle]
  BY <1>1 DEF NoExtension, NoSession, Idle
<1>2. ASSUME NEW s \in Sessions, Finish(s) \/ ReverseMark(s) PROVE NoExtension'
  BY <1>2 DEF Finish, ReverseMark, NoExtension, NoSession, Idle, TypeOK
<1>3. ASSUME NEW s \in Sessions, NEW p \in Payments, NEW i \in Intents,
             MatchFound(s, p, i) \/ SubmitTrxId(s, p, i) \/ ApproveFromQueue(s, p, i)
      PROVE  NoExtension'
  BY <1>3 DEF MatchFound, SubmitTrxId, ApproveFromQueue, Start, NoExtension, NoSession, TypeOK
<1>4. ASSUME NEW s \in Sessions, NEW r \in orderPayments, ReverseRead(s, r) PROVE NoExtension'
  BY <1>4 DEF ReverseRead, Start, NoExtension, NoSession, TypeOK
<1>5. ASSUME NEW s \in Sessions, NEW i \in Intents, ExtendRead(s, i) PROVE FALSE
  BY <1>5 DEF ExtendRead, Start
<1>6. ASSUME NEW s \in Sessions, NEW i \in Intents, ExpireRead(s, i) PROVE NoExtension'
  BY <1>6 DEF ExpireRead, Start, NoExtension, NoSession, TypeOK
<1>7. ASSUME NEW s \in Sessions, NEW i \in Intents, NEW a \in Accounts, SwitchRead(s, i, a)
      PROVE  NoExtension'
  BY <1>7 DEF SwitchRead, Start, NoExtension, NoSession, TypeOK
<1> QED BY <1>1, <1>2, <1>3, <1>4, <1>5, <1>6, <1>7, SessionWriters

\* Steps that leave the status alone.
LEMMA StatusWriters ==
  ASSUME [Next]_vars
  PROVE  \/ UNCHANGED <<status, counted>>
         \/ \E i \in Intents : CreateIntent(i) \/ CancelIntent(i)
         \/ \E s \in Sessions : \/ ApplyPayment(s)
                                 \/ ReverseCommit(s)
                                 \/ ExtendWrite(s)
                                 \/ ExpireOne(s)
  BY DEF Next, Resume, vars, intentVars, DeadlinePasses, CapturePayment, RetryOrphan,
     MatchNothing, RejectFromQueue, MatchFound, SubmitTrxId, ApproveFromQueue, ReverseRead,
     ExtendRead, ExpireRead, SwitchRead, ApplyRefused, ReverseMark, SwitchWrite,
     RestoreToQueue, Crash

\* The intent an application is on its way to exists.
ApplyTargetExists ==
  \A s \in Sessions : session[s].pc = "apply" => status[session[s].intent] # "absent"

\* Status writers never write absent.
LEMMA IntentsStay ==
  ASSUME TypeOK, [Next]_vars
  PROVE  \A i \in Intents : status[i] # "absent" => status'[i] # "absent"
<1>1. \A a, b : StatusFor(a, b) # "absent"
  BY StatusForType
<1>2. ASSUME NEW i \in Intents, CreateIntent(i) \/ CancelIntent(i)
      PROVE  \A j \in Intents : status[j] # "absent" => status'[j] # "absent"
  BY <1>2 DEF CreateIntent, CancelIntent, TypeOK
<1>3. ASSUME NEW s \in Sessions, ApplyPayment(s)
      PROVE  \A j \in Intents : status[j] # "absent" => status'[j] # "absent"
  BY <1>1, <1>3 DEF ApplyPayment, TypeOK
<1>4. ASSUME NEW s \in Sessions, ReverseCommit(s)
      PROVE  \A j \in Intents : status[j] # "absent" => status'[j] # "absent"
  BY <1>1, <1>4 DEF ReverseCommit, TypeOK
<1>5. ASSUME NEW s \in Sessions, ExtendWrite(s)
      PROVE  \A j \in Intents : status[j] # "absent" => status'[j] # "absent"
  <2>1. Revived(session[s].seen) # "absent"
    BY <1>5, SessionShape DEF ExtendWrite, Revived
  <2> QED BY <1>5, <2>1 DEF ExtendWrite, TypeOK
<1>6. ASSUME NEW s \in Sessions, ExpireOne(s)
      PROVE  \A j \in Intents : status[j] # "absent" => status'[j] # "absent"
  BY <1>6 DEF ExpireOne, TypeOK
<1> QED BY <1>2, <1>3, <1>4, <1>5, <1>6, StatusWriters

\* A session enters the apply state by one of three reads.
LEMMA ApplyStarters ==
  ASSUME TypeOK, [Next]_vars
  PROVE  \/ \E s \in Sessions, p \in Payments, i \in Intents :
               MatchFound(s, p, i) \/ SubmitTrxId(s, p, i) \/ ApproveFromQueue(s, p, i)
         \/ \A s \in Sessions : session'[s].pc = "apply" => session'[s] = session[s]
<1> DEFINE Unstarted ==
             \A s \in Sessions : session'[s].pc = "apply" => session'[s] = session[s]
<1>1. CASE UNCHANGED session \/ session' = [s \in Sessions |-> Idle]
  BY <1>1 DEF Idle
<1>2. ASSUME NEW s \in Sessions, Finish(s) \/ ReverseMark(s) PROVE Unstarted
  BY <1>2 DEF Finish, ReverseMark, Idle, TypeOK
<1>3. ASSUME NEW s \in Sessions, NEW r \in orderPayments, ReverseRead(s, r) PROVE Unstarted
  BY <1>3 DEF ReverseRead, Start, TypeOK
<1>4. ASSUME NEW s \in Sessions, NEW i \in Intents, ExtendRead(s, i) \/ ExpireRead(s, i)
      PROVE  Unstarted
  BY <1>4 DEF ExtendRead, ExpireRead, Start, TypeOK
<1>5. ASSUME NEW s \in Sessions, NEW i \in Intents, NEW a \in Accounts, SwitchRead(s, i, a)
      PROVE  Unstarted
  BY <1>5 DEF SwitchRead, Start, TypeOK
<1> QED BY <1>1, <1>2, <1>3, <1>4, <1>5, SessionWriters

LEMMA ApplyTargetStep ==
  ASSUME TypeOK, ApplyTargetExists, [Next]_vars
  PROVE  ApplyTargetExists'
<1>1. CASE \A s \in Sessions : session'[s].pc = "apply" => session'[s] = session[s]
  BY <1>1, IntentsStay, SessionShape DEF ApplyTargetExists
<1>2. ASSUME NEW s \in Sessions, NEW p \in Payments, NEW i \in Intents,
             MatchFound(s, p, i) \/ SubmitTrxId(s, p, i) \/ ApproveFromQueue(s, p, i)
      PROVE  ApplyTargetExists'
  <2>1. status[i] # "absent" /\ status' = status
    BY <1>2 DEF MatchFound, SubmitTrxId, ApproveFromQueue, Claims, intentVars
  <2>2. \E b \in MatchedBy : session' = [session EXCEPT ![s] =
            [pc |-> "apply", payment |-> p, intent |-> i, by |-> b]]
    BY <1>2 DEF MatchFound, SubmitTrxId, ApproveFromQueue, Start, MatchedBy
  <2> QED BY <2>1, <2>2 DEF ApplyTargetExists, TypeOK
<1> QED BY <1>1, <1>2, ApplyStarters

\* Every step but a reversal's and an extension's is one of the ledger's.
LEMMA LedgerStep ==
  ASSUME TypeOK, ReceivedIsSum, ApplyTargetExists, [Next]_vars,
         \A s \in Sessions : ~ReverseCommit(s) /\ ~ExtendWrite(s)
  PROVE  [LedgerPromise!Next]_<<counted, status>>
<1>1. ASSUME NEW i \in Intents, CreateIntent(i) PROVE LedgerPromise!Open(i)
  BY <1>1 DEF CreateIntent, LedgerPromise!Open
<1>2. ASSUME NEW i \in Intents, CancelIntent(i) PROVE LedgerPromise!Close(i)
  BY <1>2 DEF CancelIntent, LedgerPromise!Close
<1>3. ASSUME NEW s \in Sessions, ExpireOne(s)
      PROVE  \/ \E i \in Intents : LedgerPromise!Close(i)
             \/ UNCHANGED <<counted, status>>
  <2>1. session[s].intent \in Intents
    BY <1>3, SessionShape DEF ExpireOne
  <2> QED BY <1>3, <2>1 DEF ExpireOne, LedgerPromise!Close
<1>4. ASSUME NEW s \in Sessions, ApplyPayment(s) PROVE LedgerPromise!Next
  <2>1. PICK p \in Payments, i \in Intents : p = session[s].payment /\ i = session[s].intent
    BY <1>4, SessionShape DEF ApplyPayment
  <2>2. status[i] # "absent"
    BY <1>4, <2>1 DEF ApplyPayment, ApplyTargetExists
  <2>3. \A j \in Intents : p \notin counted[j]
    BY <1>4, <2>1 DEF ApplyPayment, Unspent, ReceivedIsSum, LivePayments, LiveRows
  <2> DEFINE total == counted[i] \cup {p}
  <2>4. TotalWith(i, p) = total
    BY DEF TotalWith, ReceivedIsSum
  <2>5. counted' = [counted EXCEPT ![i] = total]
    BY <1>4, <2>1, <2>4 DEF ApplyPayment
  <2>6. status' = [status EXCEPT ![i] = StatusFor(Money(total), Asked[i])]
    BY <1>4, <2>1, <2>4 DEF ApplyPayment
  <2>7. LedgerPromise!Earned(i, total) = StatusFor(Money(total), Asked[i])
    BY DEF LedgerPromise!Earned, StatusFor
  <2>8. counted'[i] = total
    BY <2>5 DEF TypeOK
  <2>9. LedgerPromise!Credit(i, p)
    <3> HIDE DEF total
    <3> QED BY <2>2, <2>3, <2>5, <2>6, <2>7, <2>8 DEF LedgerPromise!Credit, total
  <2> QED BY <2>9 DEF LedgerPromise!Next
<1> QED BY <1>1, <1>2, <1>3, <1>4, StatusWriters DEF LedgerPromise!Next

\* Any interleaving of matching, submissions, approvals, cancels, expiry sweeps
\* and crashes amounts to one-at-a-time operations on the abstract ledger.
THEOREM LedgerRefinement ==
  ASSUME "reverse" \notin Operations, "extend" \notin Operations
  PROVE  Spec => ImplementsLedger
<1> DEFINE Inv == ReceivedIsSum /\ NoReversal /\ NoExtension /\ ApplyTargetExists
<1>1. Init => Inv /\ LedgerPromise!Init
  BY DEF Init, ReceivedIsSum, LivePayments, LiveRows, NoReversal, NoExtension, NoSession, Idle,
     ApplyTargetExists, LedgerPromise!Init
<1>2. TypeOK /\ TypeOK' /\ Inv /\ [Next]_vars => Inv'
  BY NextReceivedIsSum, NoReversalStep, NoExtensionStep, ApplyTargetStep
<1>3. TypeOK /\ Inv /\ [Next]_vars => [LedgerPromise!Next]_<<counted, status>>
  BY LedgerStep DEF ReverseCommit, ExtendWrite, NoReversal, NoExtension, NoSession
<1> QED BY <1>1, <1>2, <1>3, TypeCorrect, PTL DEF Spec, ImplementsLedger, LedgerPromise!Spec

-----------------------------------------------------------------------------
(* Amounts *)

LEMMA MoneyNat ==
  ASSUME NEW P \in SUBSET Payments
  PROVE  Money(P) \in Nat
<1>1. IsFiniteSet(P) /\ \A p \in P : Paid[p] \in Nat
  BY SettlementAssumption, FS_Subset DEF SettlementAssumption
<1> QED BY <1>1, SumNat DEF Money

LEMMA MoneyMonotone ==
  ASSUME NEW P \in SUBSET Payments, NEW Q \in SUBSET P
  PROVE  Money(Q) <= Money(P)
<1>1. IsFiniteSet(P) /\ \A p \in P : Paid[p] \in Nat
  BY SettlementAssumption, FS_Subset DEF SettlementAssumption
<1> QED BY <1>1, SumMonotone DEF Money

\* Only nothing adds up to zero: every payment is of a positive amount.
LEMMA MoneyZero ==
  ASSUME NEW P \in SUBSET Payments
  PROVE  Money(P) = 0 <=> P = {}
<1>1. Money({}) = 0
  BY SumEmpty DEF Money
<1>2. ASSUME NEW p \in P PROVE Money(P) # 0
  <2>1. Paid[p] \in Nat \ {0}
    BY SettlementAssumption DEF SettlementAssumption
  <2>2. IsFiniteSet(P) /\ \A q \in P : Paid[q] \in Int
    BY SettlementAssumption, FS_Subset DEF SettlementAssumption
  <2>3. Money(P) = Paid[p] + Money(P \ {p})
    BY <2>2, SumRemove DEF Money
  <2>4. Money(P \ {p}) \in Nat
    BY MoneyNat
  <2> QED BY <2>1, <2>3, <2>4
<1> QED BY <1>1, <1>2

-----------------------------------------------------------------------------
(* Open codes are unpaid, under every interleaving of every operation *)

\* Everything that names an intent names one whose code was issued with it.
Known(i) == refCode[i] # "absent"

CodeComesWithIntent == \A i \in Intents : status[i] # "absent" <=> Known(i)

Named(s) == session[s].pc \in {"apply", "reverse", "reversing", "extend"}

OnlyKnownNamed ==
    /\ \A s \in Sessions : Named(s) => Known(session[s].intent)
    /\ \A r \in orderPayments : Known(r.intent)

\* While the code is open, the money applied falls short of the amount, and so
\* does the total a reversal computed and has still to write.
OpenCodesAwait ==
    \A i \in Intents : refCode[i] = "open" => Money(LivePayments(i)) < Asked[i]

StaleTotalsAwait ==
    \A s \in Sessions :
        session[s].pc = "reversing" /\ refCode[session[s].intent] = "open"
          => Money(session[s].total) < Asked[session[s].intent]

CodeInv ==
    /\ CodeComesWithIntent
    /\ OnlyKnownNamed
    /\ OpenCodesAwait
    /\ StaleTotalsAwait
    /\ OpenCodeIsUnpaid

\* Steps that leave the code alone, and what the others make of it.
LEMMA CodeWriters ==
  ASSUME [Next]_vars
  PROVE  \/ UNCHANGED refCode
         \/ \E i \in Intents : CreateIntent(i) \/ CancelIntent(i)
         \/ \E s \in Sessions : ApplyPayment(s) \/ ExpireOne(s)
  BY DEF Next, Resume, vars, intentVars, DeadlinePasses, CapturePayment, RetryOrphan,
     MatchNothing, RejectFromQueue, MatchFound, SubmitTrxId, ApproveFromQueue, ReverseRead,
     ExtendRead, ExpireRead, SwitchRead, ApplyRefused, ReverseMark, ReverseCommit,
     ExtendWrite, SwitchWrite, RestoreToQueue, Crash

\* A code is issued once and is open only from then on.
LEMMA CodeStep ==
  ASSUME TypeOK, [Next]_vars
  PROVE  \A i \in Intents :
            /\ Known(i) => Known(i)'
            /\ refCode'[i] = "open" => refCode[i] = "open" \/ CreateIntent(i)
<1>1. ASSUME NEW j \in Intents, CreateIntent(j)
      PROVE  \A i \in Intents :
                /\ Known(i) => Known(i)'
                /\ refCode'[i] = "open" => refCode[i] = "open" \/ i = j
  BY <1>1 DEF CreateIntent, Known, TypeOK
<1>2. ASSUME NEW j \in Intents, CancelIntent(j)
      PROVE  \A i \in Intents :
                /\ Known(i) => Known(i)'
                /\ refCode'[i] = "open" => refCode[i] = "open"
  BY <1>2 DEF CancelIntent, SettleRefCode, Known, TypeOK
<1>3. ASSUME NEW s \in Sessions, ApplyPayment(s)
      PROVE  \A i \in Intents :
                /\ Known(i) => Known(i)'
                /\ refCode'[i] = "open" => refCode[i] = "open"
  BY <1>3 DEF ApplyPayment, SettleRefCode, Known, TypeOK
<1>4. ASSUME NEW s \in Sessions, ExpireOne(s)
      PROVE  \A i \in Intents :
                /\ Known(i) => Known(i)'
                /\ refCode'[i] = "open" => refCode[i] = "open"
  BY <1>4 DEF ExpireOne, SettleRefCode, Known, TypeOK
<1> QED BY <1>1, <1>2, <1>3, <1>4, CodeWriters DEF Known

\* What a step makes of a session that names an intent.
LEMMA NamedOrigin ==
  ASSUME TypeOK, [Next]_vars, NEW s \in Sessions, Named(s)'
  PROVE  \/ Named(s) /\ session'[s].intent = session[s].intent
         \/ status[session'[s].intent] # "absent"
         \/ \E r \in orderPayments : session'[s].intent = r.intent
<1>1. CASE UNCHANGED session \/ session' = [t \in Sessions |-> Idle]
  BY <1>1 DEF Named, Idle
<1>2. ASSUME NEW t \in Sessions, Finish(t)
      PROVE  Named(s) /\ session'[s].intent = session[s].intent
  BY <1>2 DEF Finish, Named, Idle, TypeOK
<1>3. ASSUME NEW t \in Sessions, ReverseMark(t)
      PROVE  Named(s) /\ session'[s].intent = session[s].intent
  BY <1>3 DEF ReverseMark, Named, TypeOK
<1>4. ASSUME NEW t \in Sessions, NEW p \in Payments, NEW i \in Intents,
             MatchFound(t, p, i) \/ SubmitTrxId(t, p, i) \/ ApproveFromQueue(t, p, i)
      PROVE  \/ Named(s) /\ session'[s].intent = session[s].intent
             \/ status[session'[s].intent] # "absent"
  <2>1. status[i] # "absent"
    BY <1>4 DEF MatchFound, SubmitTrxId, ApproveFromQueue, Claims
  <2>2. \E b \in MatchedBy : session' = [session EXCEPT ![t] =
            [pc |-> "apply", payment |-> p, intent |-> i, by |-> b]]
    BY <1>4 DEF MatchFound, SubmitTrxId, ApproveFromQueue, Start, MatchedBy
  <2> QED BY <2>1, <2>2 DEF Named, TypeOK
<1>5. ASSUME NEW t \in Sessions, NEW r \in orderPayments, ReverseRead(t, r)
      PROVE  \/ Named(s) /\ session'[s].intent = session[s].intent
             \/ session'[s].intent = r.intent
  BY <1>5 DEF ReverseRead, Start, Named, TypeOK
<1>6. ASSUME NEW t \in Sessions, NEW i \in Intents, ExtendRead(t, i)
      PROVE  \/ Named(s) /\ session'[s].intent = session[s].intent
             \/ status[session'[s].intent] # "absent"
  BY <1>6 DEF ExtendRead, Start, Named, TypeOK
<1>7. ASSUME NEW t \in Sessions, NEW i \in Intents, ExpireRead(t, i)
      PROVE  Named(s) /\ session'[s].intent = session[s].intent
  BY <1>7 DEF ExpireRead, Start, Named, TypeOK
<1>8. ASSUME NEW t \in Sessions, NEW i \in Intents, NEW a \in Accounts, SwitchRead(t, i, a)
      PROVE  Named(s) /\ session'[s].intent = session[s].intent
  BY <1>8 DEF SwitchRead, Start, Named, TypeOK
<1> QED BY <1>1, <1>2, <1>3, <1>4, <1>5, <1>6, <1>7, <1>8, SessionWriters

LEMMA NamedIsIntent ==
  ASSUME TypeOK, NEW s \in Sessions, Named(s)
  PROVE  session[s].intent \in Intents
  BY SessionShape DEF Named

LEMMA OnlyKnownStep ==
  ASSUME TypeOK, TypeOK', CodeComesWithIntent, OnlyKnownNamed, [Next]_vars
  PROVE  OnlyKnownNamed'
<1>1. ASSUME NEW s \in Sessions, Named(s)' PROVE Known(session[s].intent)'
  <2>1. session'[s].intent \in Intents
    BY <1>1, SessionShape DEF Named, TypeOK, Session, Idle
  <2>2. Known(session'[s].intent)
    <3>1. CASE Named(s) /\ session'[s].intent = session[s].intent
      BY <3>1 DEF OnlyKnownNamed
    <3>2. CASE status[session'[s].intent] # "absent"
      BY <2>1, <3>2 DEF CodeComesWithIntent
    <3>3. CASE \E r \in orderPayments : session'[s].intent = r.intent
      BY <3>3 DEF OnlyKnownNamed
    <3> QED BY <1>1, <3>1, <3>2, <3>3, NamedOrigin
  <2> QED BY <2>1, <2>2, CodeStep DEF Known
<1>2. ASSUME NEW r \in orderPayments' PROVE Known(r.intent)'
  <2>1. r.intent \in Intents
    BY DEF TypeOK, OrderPayment
  <2>2. Known(r.intent)
    <3>1. CASE UNCHANGED orderPayments
      BY <3>1 DEF OnlyKnownNamed
    <3>2. ASSUME NEW s \in Sessions, ApplyPayment(s) PROVE Known(r.intent)
      BY <3>2 DEF ApplyPayment, OnlyKnownNamed, Named
    <3>3. ASSUME NEW s \in Sessions, ReverseCommit(s) PROVE Known(r.intent)
      BY <3>3, ReversalKeepsRows DEF OnlyKnownNamed
    <3> QED BY <3>1, <3>2, <3>3, OnlyTwoStepsWriteRows
  <2> QED BY <2>1, <2>2, CodeStep DEF Known
<1> QED BY <1>1, <1>2 DEF OnlyKnownNamed

\* Steps that leave the intent's status, its code and its last event alone.
LEMMA IntentWriters ==
  ASSUME [Next]_vars
  PROVE  \/ UNCHANGED <<status, refCode, told>>
         \/ \E i \in Intents : CreateIntent(i) \/ CancelIntent(i)
         \/ \E s \in Sessions : \/ ApplyPayment(s)
                                 \/ ReverseCommit(s)
                                 \/ ExtendWrite(s)
                                 \/ ExpireOne(s)
  BY DEF Next, Resume, vars, intentVars, DeadlinePasses, CapturePayment, RetryOrphan,
     MatchNothing, RejectFromQueue, MatchFound, SubmitTrxId, ApproveFromQueue, ReverseRead,
     ExtendRead, ExpireRead, SwitchRead, ApplyRefused, ReverseMark, SwitchWrite,
     RestoreToQueue, Crash

LEMMA CodeComesStep ==
  ASSUME TypeOK, CodeComesWithIntent, OnlyKnownNamed, [Next]_vars
  PROVE  CodeComesWithIntent'
<1>1. CASE UNCHANGED <<status, refCode, told>>
  BY <1>1 DEF CodeComesWithIntent, Known
<1>2. ASSUME NEW i \in Intents, CreateIntent(i) \/ CancelIntent(i)
      PROVE  CodeComesWithIntent'
  BY <1>2 DEF CreateIntent, CancelIntent, SettleRefCode, CodeComesWithIntent, Known, TypeOK
<1>3. ASSUME NEW s \in Sessions, ApplyPayment(s) PROVE CodeComesWithIntent'
  <2>1. PICK i \in Intents : i = session[s].intent /\ Known(i)
    BY <1>3, SessionShape DEF ApplyPayment, OnlyKnownNamed, Named
  <2>2. \E next \in {"over", "matched", "partial"} : status' = [status EXCEPT ![i] = next]
    BY <1>3, <2>1, StatusForType DEF ApplyPayment
  <2>3. refCode' = refCode \/ refCode' = SettleRefCode(i, "consumed")
    BY <1>3, <2>1 DEF ApplyPayment
  <2> QED BY <2>1, <2>2, <2>3 DEF SettleRefCode, CodeComesWithIntent, Known, TypeOK
<1>4. ASSUME NEW s \in Sessions, ReverseCommit(s) PROVE CodeComesWithIntent'
  <2>1. PICK i \in Intents : i = session[s].intent /\ Known(i)
    BY <1>4, SessionShape DEF ReverseCommit, OnlyKnownNamed, Named
  <2>2. \E next \in {"open", "over", "matched", "partial"} :
           status' = [status EXCEPT ![i] = next]
    BY <1>4, <2>1, StatusForType DEF ReverseCommit
  <2>3. refCode' = refCode
    BY <1>4 DEF ReverseCommit
  <2> QED BY <2>1, <2>2, <2>3 DEF CodeComesWithIntent, Known, TypeOK
<1>5. ASSUME NEW s \in Sessions, ExtendWrite(s) PROVE CodeComesWithIntent'
  <2>1. PICK i \in Intents : i = session[s].intent /\ Known(i)
    BY <1>5, SessionShape DEF ExtendWrite, OnlyKnownNamed, Named
  <2>2. \E next \in {"open", "partial"} : status' = [status EXCEPT ![i] = next]
    BY <1>5, <2>1, SessionShape DEF ExtendWrite, Revived
  <2>3. refCode' = refCode
    BY <1>5 DEF ExtendWrite
  <2> QED BY <2>1, <2>2, <2>3 DEF CodeComesWithIntent, Known, TypeOK
<1>6. ASSUME NEW s \in Sessions, ExpireOne(s) PROVE CodeComesWithIntent'
  BY <1>6 DEF ExpireOne, SettleRefCode, CodeComesWithIntent, Known, TypeOK
<1> QED BY <1>1, <1>2, <1>3, <1>4, <1>5, <1>6, IntentWriters

\* A reversal takes money away and adds none.
LEMMA ReversalDropsLivePayments ==
  ASSUME TypeOK, NEW s \in Sessions, ReverseCommit(s)
  PROVE  \A i \in Intents : LivePayments(i)' \subseteq LivePayments(i)
<1> SUFFICES ASSUME NEW i \in Intents, NEW r1 \in orderPayments',
                    r1.intent = i, r1.reversals = 0
             PROVE  r1 \in LiveRows(i)
  BY DEF LivePayments, LiveRows
<1>1. PICK r \in orderPayments : /\ r1.intent = r.intent
                                 /\ r.payment = session[s].payment
                                       => r1.reversals = r.reversals + 1
                                 /\ r.payment # session[s].payment => r1 = r
  BY ReversalKeepsRows
<1>2. r.reversals \in Nat
  BY DEF TypeOK, OrderPayment
<1> QED BY <1>1, <1>2 DEF LiveRows

LEMMA OpenCodesStep ==
  ASSUME TypeOK, TypeOK', CodeComesWithIntent, OnlyKnownNamed, OpenCodesAwait, [Next]_vars
  PROVE  OpenCodesAwait'
<1> SUFFICES ASSUME NEW i \in Intents, refCode'[i] = "open"
             PROVE  Money(LivePayments(i)') < Asked[i]
  BY DEF OpenCodesAwait, Money
<1>1. Asked[i] \in Nat \ {0}
  BY SettlementAssumption DEF SettlementAssumption
<1>2. CASE CreateIntent(i)
  <2>1. ~Known(i) /\ orderPayments' = orderPayments
    BY <1>2 DEF CreateIntent, CodeComesWithIntent
  <2>2. LivePayments(i)' = {}
    BY <2>1 DEF LivePayments, LiveRows, OnlyKnownNamed
  <2>3. Money({}) = 0
    BY MoneyZero
  <2> QED BY <1>1, <2>2, <2>3
<1>3. CASE refCode[i] = "open"
  <2>1. Money(LivePayments(i)) < Asked[i] /\ LivePayments(i) \in SUBSET Payments
    BY <1>3, LivePaymentsType DEF OpenCodesAwait
  <2>2. CASE UNCHANGED orderPayments
    BY <2>1, <2>2 DEF LivePayments, LiveRows
  <2>3. ASSUME NEW s \in Sessions, ApplyPayment(s)
        PROVE  Money(LivePayments(i)') < Asked[i]
    <3>1. CASE session[s].intent = i
      <4> DEFINE total == TotalWith(i, session[s].payment)
      <4>1. session[s].payment \in Payments
        BY <2>3, SessionShape DEF ApplyPayment
      <4>2. total \in SUBSET Payments /\ LivePayments(i)' = total
        BY <2>1, <2>3, <3>1, <4>1, ApplyAddsLivePayment DEF TotalWith
      <4>3. StatusFor(Money(total), Asked[i]) = "partial"
        <5>1. CASE StatusFor(Money(total), Asked[i]) # "partial"
          <6>1. refCode' = SettleRefCode(i, "consumed")
            BY <2>3, <3>1, <5>1 DEF ApplyPayment
          <6>2. refCode'[i] = "consumed"
            BY <1>3, <6>1 DEF SettleRefCode, TypeOK
          <6> QED BY <6>2
        <5> QED BY <5>1
      <4>4. Money(total) \in Nat
        BY <4>2, MoneyNat
      <4>5. Money(total) < Asked[i]
        <5> HIDE DEF total
        <5> QED BY <1>1, <4>3, <4>4 DEF StatusFor
      <4> QED BY <4>2, <4>5
    <3>2. CASE session[s].intent # i
      BY <2>1, <2>3, <3>2, ApplyAddsLivePayment
    <3> QED BY <3>1, <3>2
  <2>4. ASSUME NEW s \in Sessions, ReverseCommit(s)
        PROVE  Money(LivePayments(i)') < Asked[i]
    <3>1. LivePayments(i)' \in SUBSET LivePayments(i)
      BY <2>4, ReversalDropsLivePayments
    <3>2. Money(LivePayments(i)') <= Money(LivePayments(i))
      BY <2>1, <3>1, MoneyMonotone
    <3>3. Money(LivePayments(i)') \in Nat /\ Money(LivePayments(i)) \in Nat
      BY <2>1, <3>1, MoneyNat
    <3> QED BY <1>1, <2>1, <3>2, <3>3
  <2> QED BY <2>2, <2>3, <2>4, OnlyTwoStepsWriteRows
<1> QED BY <1>2, <1>3, CodeStep

\* A session is in its reversal's transaction from its mark on.
LEMMA ReversingOrigin ==
  ASSUME TypeOK, [Next]_vars, NEW s \in Sessions, session'[s].pc = "reversing"
  PROVE  \/ session'[s] = session[s]
         \/ ReverseMark(s)
<1>1. CASE UNCHANGED session \/ session' = [t \in Sessions |-> Idle]
  BY <1>1 DEF Idle
<1>2. ASSUME NEW t \in Sessions, Finish(t) PROVE session'[s] = session[s]
  BY <1>2 DEF Finish, Idle, TypeOK
<1>3. ASSUME NEW t \in Sessions, ReverseMark(t)
      PROVE  session'[s] = session[s] \/ s = t
  BY <1>3 DEF ReverseMark, TypeOK
<1>4. ASSUME NEW t \in Sessions, NEW p \in Payments, NEW i \in Intents,
             MatchFound(t, p, i) \/ SubmitTrxId(t, p, i) \/ ApproveFromQueue(t, p, i)
      PROVE  session'[s] = session[s]
  BY <1>4 DEF MatchFound, SubmitTrxId, ApproveFromQueue, Start, TypeOK
<1>5. ASSUME NEW t \in Sessions, NEW r \in orderPayments, ReverseRead(t, r)
      PROVE  session'[s] = session[s]
  BY <1>5 DEF ReverseRead, Start, TypeOK
<1>6. ASSUME NEW t \in Sessions, NEW i \in Intents, ExtendRead(t, i) \/ ExpireRead(t, i)
      PROVE  session'[s] = session[s]
  BY <1>6 DEF ExtendRead, ExpireRead, Start, TypeOK
<1>7. ASSUME NEW t \in Sessions, NEW i \in Intents, NEW a \in Accounts, SwitchRead(t, i, a)
      PROVE  session'[s] = session[s]
  BY <1>7 DEF SwitchRead, Start, TypeOK
<1> QED BY <1>1, <1>2, <1>3, <1>4, <1>5, <1>6, <1>7, SessionWriters

LEMMA StaleTotalsStep ==
  ASSUME TypeOK, TypeOK', CodeComesWithIntent, OnlyKnownNamed, OpenCodesAwait,
         StaleTotalsAwait, [Next]_vars
  PROVE  StaleTotalsAwait'
<1> SUFFICES ASSUME NEW s \in Sessions, session'[s].pc = "reversing",
                    refCode'[session'[s].intent] = "open"
             PROVE  Money(session'[s].total) < Asked[session'[s].intent]
  BY DEF StaleTotalsAwait, Money
<1>1. CASE session'[s] = session[s]
  <2>1. PICK i \in Intents : i = session[s].intent /\ Known(i)
    BY <1>1, SessionShape DEF OnlyKnownNamed, Named
  <2>2. refCode[i] = "open"
    BY <1>1, <2>1, CodeStep DEF CodeComesWithIntent, CreateIntent
  <2> QED BY <1>1, <2>1, <2>2 DEF StaleTotalsAwait
<1>2. CASE ReverseMark(s)
  <2>1. PICK p \in Payments, i \in Intents : p = session[s].payment /\ i = session[s].intent
    BY <1>2, SessionShape DEF ReverseMark
  <2> DEFINE left == LivePayments(i) \ {p}
  <2>2. session'[s].intent = i /\ session'[s].total = left /\ refCode' = refCode
    BY <1>2, <2>1 DEF ReverseMark, TotalWithout, TypeOK, intentVars
  <2>3. LivePayments(i) \in SUBSET Payments /\ left \in SUBSET LivePayments(i)
    BY LivePaymentsType
  <2>4. Money(LivePayments(i)) < Asked[i]
    BY <2>2 DEF OpenCodesAwait
  <2> HIDE DEF left
  <2>5. Money(left) <= Money(LivePayments(i)) /\ Money(left) \in Nat
        /\ Money(LivePayments(i)) \in Nat
    BY <2>3, MoneyMonotone, MoneyNat
  <2>6. Asked[i] \in Nat
    BY SettlementAssumption DEF SettlementAssumption
  <2> QED BY <2>2, <2>4, <2>5, <2>6
<1> QED BY <1>1, <1>2, ReversingOrigin

LEMMA OpenUnpaidStep ==
  ASSUME TypeOK, TypeOK', OnlyKnownNamed, StaleTotalsAwait, OpenCodeIsUnpaid, [Next]_vars
  PROVE  OpenCodeIsUnpaid'
<1>1. CASE UNCHANGED <<status, refCode, told>>
  BY <1>1 DEF OpenCodeIsUnpaid
<1>2. ASSUME NEW i \in Intents, CreateIntent(i) \/ CancelIntent(i)
      PROVE  OpenCodeIsUnpaid'
  BY <1>2 DEF CreateIntent, CancelIntent, SettleRefCode, OpenCodeIsUnpaid, TypeOK
<1>3. ASSUME NEW s \in Sessions, ApplyPayment(s) PROVE OpenCodeIsUnpaid'
  <2>1. PICK i \in Intents : i = session[s].intent
    BY <1>3, SessionShape DEF ApplyPayment
  <2>2. PICK next \in {"over", "matched", "partial"} :
           /\ status' = [status EXCEPT ![i] = next]
           /\ refCode' = IF next = "partial" THEN refCode ELSE SettleRefCode(i, "consumed")
    BY <1>3, <2>1, StatusForType DEF ApplyPayment
  <2> QED BY <2>1, <2>2 DEF SettleRefCode, OpenCodeIsUnpaid, TypeOK
<1>4. ASSUME NEW s \in Sessions, ReverseCommit(s) PROVE OpenCodeIsUnpaid'
  <2>1. PICK i \in Intents : i = session[s].intent
    BY <1>4, SessionShape DEF ReverseCommit
  <2> DEFINE left == Money(session[s].total)
             next == IF left = 0 THEN "open" ELSE StatusFor(left, Asked[i])
  <2>2. status' = [status EXCEPT ![i] = next] /\ refCode' = refCode
    BY <1>4, <2>1 DEF ReverseCommit
  <2>3. refCode[i] = "open" => next \in {"open", "partial"}
    <3>1. Asked[i] \in Nat /\ left \in Nat
      BY <1>4, MoneyNat, SessionShape, SettlementAssumption
      DEF ReverseCommit, SettlementAssumption
    <3>2. refCode[i] = "open" => left < Asked[i]
      BY <1>4, <2>1 DEF StaleTotalsAwait, ReverseCommit
    <3> HIDE DEF left
    <3> QED BY <3>1, <3>2 DEF StatusFor
  <2> HIDE DEF next
  <2> QED BY <2>1, <2>2, <2>3 DEF OpenCodeIsUnpaid, TypeOK
<1>5. ASSUME NEW s \in Sessions, ExtendWrite(s) PROVE OpenCodeIsUnpaid'
  <2>1. PICK i \in Intents : i = session[s].intent
    BY <1>5, SessionShape DEF ExtendWrite
  <2>2. \E next \in {"open", "partial"} : status' = [status EXCEPT ![i] = next]
    BY <1>5, <2>1, SessionShape DEF ExtendWrite, Revived
  <2>3. refCode' = refCode
    BY <1>5 DEF ExtendWrite
  <2> QED BY <2>1, <2>2, <2>3 DEF OpenCodeIsUnpaid, TypeOK
<1>6. ASSUME NEW s \in Sessions, ExpireOne(s) PROVE OpenCodeIsUnpaid'
  BY <1>6 DEF ExpireOne, SettleRefCode, OpenCodeIsUnpaid, TypeOK
<1> QED BY <1>1, <1>2, <1>3, <1>4, <1>5, <1>6, IntentWriters

\* A reference code never matches for an intent that is paid or closed, however
\* extensions, expiries, reversals - the one that writes a total it computed
\* before another's commit among them - and applications interleave.
THEOREM OpenCodeIsUnpaidHolds == Spec => []OpenCodeIsUnpaid
<1>1. Init => CodeInv
  <2> SUFFICES ASSUME Init PROVE CodeInv
    OBVIOUS
  <2> QED BY DEF Init, CodeInv, CodeComesWithIntent, Known, OnlyKnownNamed, Named, Idle,
             OpenCodesAwait, StaleTotalsAwait, OpenCodeIsUnpaid
<1>2. TypeOK /\ TypeOK' /\ CodeInv /\ [Next]_vars => CodeInv'
  BY CodeComesStep, OnlyKnownStep, OpenCodesStep, StaleTotalsStep, OpenUnpaidStep DEF CodeInv
<1>3. CodeInv => OpenCodeIsUnpaid
  BY DEF CodeInv
<1> QED BY <1>1, <1>2, <1>3, TypeCorrect, PTL DEF Spec

-----------------------------------------------------------------------------
(* The account an automatic application lands on, while no buyer switches *)

\* An application decided by the matcher or a submission is for the account the
\* intent points at.
AppliesOnAccount ==
    \A s \in Sessions :
        session[s].pc = "apply" /\ session[s].by # "admin"
          => account[session[s].intent] = LandedOn[session[s].payment]

LEMMA AppliesOnAccountStep ==
  ASSUME TypeOK, AppliesOnAccount, UNCHANGED account, [Next]_vars
  PROVE  AppliesOnAccount'
<1>1. CASE \A s \in Sessions : session'[s].pc = "apply" => session'[s] = session[s]
  BY <1>1 DEF AppliesOnAccount
<1>2. ASSUME NEW s \in Sessions, NEW p \in Payments, NEW i \in Intents,
             MatchFound(s, p, i) \/ SubmitTrxId(s, p, i) \/ ApproveFromQueue(s, p, i)
      PROVE  AppliesOnAccount'
  <2>1. PICK b \in MatchedBy :
           /\ session' = [session EXCEPT ![s] =
                             [pc |-> "apply", payment |-> p, intent |-> i, by |-> b]]
           /\ b # "admin" => account[i] = LandedOn[p]
    BY <1>2 DEF MatchFound, SubmitTrxId, ApproveFromQueue, Start, MatchedBy, Claims
  <2> QED BY <2>1 DEF AppliesOnAccount, TypeOK
<1> QED BY <1>1, <1>2, ApplyStarters

\* Only a switch moves an intent to another account.
LEMMA AccountWriters ==
  ASSUME [Next]_vars
  PROVE  UNCHANGED account \/ \E s \in Sessions : SwitchWrite(s)
  BY DEF Next, Resume, vars, intentVars, CreateIntent, DeadlinePasses, CancelIntent,
     CapturePayment, RetryOrphan, MatchNothing, RejectFromQueue, MatchFound, SubmitTrxId,
     ApproveFromQueue, ReverseRead, ExtendRead, ExpireRead, SwitchRead,
     ApplyPayment, ApplyRefused, ReverseMark, ReverseCommit, ExtendWrite, ExpireOne,
     RestoreToQueue, Crash

LEMMA MoneyStep ==
  ASSUME TypeOK, MoneyIsOnTheAccount, AppliesOnAccount, UNCHANGED account, [Next]_vars
  PROVE  MoneyIsOnTheAccount'
<1>1. CASE UNCHANGED orderPayments
  BY <1>1 DEF MoneyIsOnTheAccount
<1>2. ASSUME NEW s \in Sessions, ApplyPayment(s) PROVE MoneyIsOnTheAccount'
  BY <1>2 DEF ApplyPayment, MoneyIsOnTheAccount, AppliesOnAccount
<1>3. ASSUME NEW s \in Sessions, ReverseCommit(s) PROVE MoneyIsOnTheAccount'
  <2> SUFFICES ASSUME NEW r1 \in orderPayments', r1.reversals = 0, r1.by # "admin"
               PROVE  account[r1.intent] = LandedOn[r1.payment]
    BY DEF MoneyIsOnTheAccount
  <2>1. PICK r \in orderPayments :
           /\ r.payment = session[s].payment => r1.reversals = r.reversals + 1
           /\ r.payment # session[s].payment => r1 = r
    BY <1>3, ReversalKeepsRows
  <2>2. r.reversals \in Nat
    BY DEF TypeOK, OrderPayment
  <2> QED BY <2>1, <2>2 DEF MoneyIsOnTheAccount
<1> QED BY <1>1, <1>2, <1>3, OnlyTwoStepsWriteRows

LEMMA NoSwitchStep ==
  ASSUME "switch" \notin Operations, TypeOK, NoSession("switch"), [Next]_vars
  PROVE  NoSession("switch")'
<1>1. CASE UNCHANGED session \/ session' = [s \in Sessions |-> Idle]
  BY <1>1 DEF NoSession, Idle
<1>2. ASSUME NEW s \in Sessions, Finish(s) \/ ReverseMark(s) PROVE NoSession("switch")'
  BY <1>2 DEF Finish, ReverseMark, NoSession, Idle, TypeOK
<1>3. ASSUME NEW s \in Sessions, NEW p \in Payments, NEW i \in Intents,
             MatchFound(s, p, i) \/ SubmitTrxId(s, p, i) \/ ApproveFromQueue(s, p, i)
      PROVE  NoSession("switch")'
  BY <1>3 DEF MatchFound, SubmitTrxId, ApproveFromQueue, Start, NoSession, TypeOK
<1>4. ASSUME NEW s \in Sessions, NEW r \in orderPayments, ReverseRead(s, r)
      PROVE  NoSession("switch")'
  BY <1>4 DEF ReverseRead, Start, NoSession, TypeOK
<1>5. ASSUME NEW s \in Sessions, NEW i \in Intents, ExtendRead(s, i) \/ ExpireRead(s, i)
      PROVE  NoSession("switch")'
  BY <1>5 DEF ExtendRead, ExpireRead, Start, NoSession, TypeOK
<1>6. ASSUME NEW s \in Sessions, NEW i \in Intents, NEW a \in Accounts, SwitchRead(s, i, a)
      PROVE  FALSE
  BY <1>6 DEF SwitchRead, Start
<1> QED BY <1>1, <1>2, <1>3, <1>4, <1>5, <1>6, SessionWriters

\* Money the matcher or a submission applied is on the intent's account, however
\* they interleave with each other, reversals and the rest, as long as no buyer
\* switches the method.
THEOREM MoneyIsOnTheAccountHolds ==
  ASSUME "switch" \notin Operations
  PROVE  Spec => []MoneyIsOnTheAccount
<1> DEFINE Inv == MoneyIsOnTheAccount /\ AppliesOnAccount /\ NoSession("switch")
<1>1. Init => Inv
  BY DEF Init, MoneyIsOnTheAccount, AppliesOnAccount, NoSession, Idle
<1>2. TypeOK /\ Inv /\ [Next]_vars => Inv'
  <2> SUFFICES ASSUME TypeOK, Inv, [Next]_vars PROVE Inv'
    OBVIOUS
  <2>1. UNCHANGED account
    BY AccountWriters DEF SwitchWrite, NoSession
  <2> QED BY <2>1, MoneyStep, AppliesOnAccountStep, NoSwitchStep
<1> QED BY <1>1, <1>2, TypeCorrect, PTL DEF Spec

-----------------------------------------------------------------------------
(* Expiry, while nobody extends *)

ExpiriesAreDue ==
    \A s \in Sessions : session[s].pc = "expire" => session[s].intent \in overdue

\* Only the passing of the deadline and an extension move it.
LEMMA DeadlineWriters ==
  ASSUME [Next]_vars
  PROVE  overdue \subseteq overdue' \/ \E s \in Sessions : ExtendWrite(s)
  BY DEF Next, Resume, vars, intentVars, CreateIntent, DeadlinePasses, CancelIntent,
     CapturePayment, RetryOrphan, MatchNothing, RejectFromQueue, MatchFound, SubmitTrxId,
     ApproveFromQueue, ReverseRead, ExtendRead, ExpireRead, SwitchRead,
     ApplyPayment, ApplyRefused, ReverseMark, ReverseCommit, ExpireOne, SwitchWrite,
     RestoreToQueue, Crash

\* A session enters the expire state by the sweep's read.
LEMMA ExpireOrigin ==
  ASSUME TypeOK, [Next]_vars, NEW s \in Sessions, session'[s].pc = "expire"
  PROVE  \/ session'[s] = session[s]
         \/ session'[s].intent \in overdue
<1>1. CASE UNCHANGED session \/ session' = [t \in Sessions |-> Idle]
  BY <1>1 DEF Idle
<1>2. ASSUME NEW t \in Sessions, Finish(t) \/ ReverseMark(t) PROVE session'[s] = session[s]
  BY <1>2 DEF Finish, ReverseMark, Idle, TypeOK
<1>3. ASSUME NEW t \in Sessions, NEW p \in Payments, NEW i \in Intents,
             MatchFound(t, p, i) \/ SubmitTrxId(t, p, i) \/ ApproveFromQueue(t, p, i)
      PROVE  session'[s] = session[s]
  BY <1>3 DEF MatchFound, SubmitTrxId, ApproveFromQueue, Start, TypeOK
<1>4. ASSUME NEW t \in Sessions, NEW r \in orderPayments, ReverseRead(t, r)
      PROVE  session'[s] = session[s]
  BY <1>4 DEF ReverseRead, Start, TypeOK
<1>5. ASSUME NEW t \in Sessions, NEW i \in Intents, ExtendRead(t, i)
      PROVE  session'[s] = session[s]
  BY <1>5 DEF ExtendRead, Start, TypeOK
<1>6. ASSUME NEW t \in Sessions, NEW i \in Intents, ExpireRead(t, i)
      PROVE  session'[s] = session[s] \/ session'[s].intent \in overdue
  BY <1>6 DEF ExpireRead, Due, Start, TypeOK
<1>7. ASSUME NEW t \in Sessions, NEW i \in Intents, NEW a \in Accounts, SwitchRead(t, i, a)
      PROVE  session'[s] = session[s]
  BY <1>7 DEF SwitchRead, Start, TypeOK
<1> QED BY <1>1, <1>2, <1>3, <1>4, <1>5, <1>6, <1>7, SessionWriters

\* Only an expiry that was due writes expired.
LEMMA ExpiryStep ==
  ASSUME TypeOK, ExpiriesAreDue, [Next]_vars,
         NEW i \in Intents, status[i] # "expired", status'[i] = "expired"
  PROVE  i \in overdue
<1>1. \A a, b : StatusFor(a, b) # "expired"
  BY StatusForType
<1>2. ASSUME NEW j \in Intents, CreateIntent(j) \/ CancelIntent(j) PROVE FALSE
  BY <1>2 DEF CreateIntent, CancelIntent, TypeOK
<1>3. ASSUME NEW s \in Sessions, ApplyPayment(s) PROVE FALSE
  BY <1>1, <1>3 DEF ApplyPayment, TypeOK
<1>4. ASSUME NEW s \in Sessions, ReverseCommit(s) PROVE FALSE
  BY <1>1, <1>4 DEF ReverseCommit, TypeOK
<1>5. ASSUME NEW s \in Sessions, ExtendWrite(s) PROVE FALSE
  <2>1. Revived(session[s].seen) # "expired"
    BY <1>5, SessionShape DEF ExtendWrite, Revived
  <2> QED BY <1>5, <2>1 DEF ExtendWrite, TypeOK
<1>6. ASSUME NEW s \in Sessions, ExpireOne(s) PROVE i \in overdue
  BY <1>6, SessionShape DEF ExpireOne, ExpiriesAreDue, TypeOK
<1> QED BY <1>2, <1>3, <1>4, <1>5, <1>6, StatusWriters

\* However sweeps and page views race, an intent expires with its deadline
\* behind it as long as no admin extends it: expireOne tests the status alone,
\* and a deadline that has passed stays passed.
THEOREM ExpiredWasOverdueHolds ==
  ASSUME "extend" \notin Operations
  PROVE  Spec => ExpiredWasOverdue
<1> DEFINE Inv == ExpiriesAreDue /\ NoExtension
           Step == \A i \in Intents :
                      status[i] # "expired" /\ status'[i] = "expired" => i \in overdue
<1>1. Init => Inv
  BY DEF Init, ExpiriesAreDue, NoExtension, NoSession, Idle
<1>2. TypeOK /\ Inv /\ [Next]_vars => Inv'
  <2> SUFFICES ASSUME TypeOK, Inv, [Next]_vars PROVE Inv'
    OBVIOUS
  <2>1. overdue \subseteq overdue'
    BY DeadlineWriters DEF ExtendWrite, NoExtension, NoSession
  <2>2. ExpiriesAreDue'
    BY <2>1, ExpireOrigin DEF ExpiriesAreDue
  <2> QED BY <2>2, NoExtensionStep
<1>3. TypeOK /\ Inv /\ [Next]_vars => [Step]_vars
  BY ExpiryStep
<1> QED BY <1>1, <1>2, <1>3, TypeCorrect, PTL DEF Spec, ExpiredWasOverdue

-----------------------------------------------------------------------------
(* The last event, while nothing is reversed or extended *)

\* Nothing is queued for an intent before it exists.
TellsNothingYet == \A i \in Intents : status[i] = "absent" => told[i] = "nothing"

LEMMA ToldStep ==
  ASSUME TypeOK, ToldTheTruth, TellsNothingYet, NoReversal, NoExtension, [Next]_vars
  PROVE  ToldTheTruth' /\ TellsNothingYet'
<1>1. CASE UNCHANGED <<status, refCode, told>>
  BY <1>1 DEF ToldTheTruth, TellsNothingYet
<1>2. ASSUME NEW i \in Intents, CreateIntent(i) \/ CancelIntent(i)
      PROVE  ToldTheTruth' /\ TellsNothingYet'
  BY <1>2 DEF CreateIntent, CancelIntent, ToldTheTruth, TellsNothingYet, TypeOK
<1>3. ASSUME NEW s \in Sessions, ApplyPayment(s)
      PROVE  ToldTheTruth' /\ TellsNothingYet'
  <2>1. PICK i \in Intents : i = session[s].intent
    BY <1>3, SessionShape DEF ApplyPayment
  <2>2. PICK next \in {"over", "matched", "partial"} :
           /\ status' = [status EXCEPT ![i] = next]
           /\ told' = [told EXCEPT ![i] = EventFor(next)]
    BY <1>3, <2>1, StatusForType DEF ApplyPayment
  <2> QED BY <2>2 DEF EventFor, ToldTheTruth, TellsNothingYet, TypeOK
<1>4. ASSUME NEW s \in Sessions, ReverseCommit(s) PROVE FALSE
  BY <1>4 DEF ReverseCommit, NoReversal, NoSession
<1>5. ASSUME NEW s \in Sessions, ExtendWrite(s) PROVE FALSE
  BY <1>5 DEF ExtendWrite, NoExtension, NoSession
<1>6. ASSUME NEW s \in Sessions, ExpireOne(s)
      PROVE  ToldTheTruth' /\ TellsNothingYet'
  BY <1>6 DEF ExpireOne, ToldTheTruth, TellsNothingYet, TypeOK
<1> QED BY <1>1, <1>2, <1>3, <1>4, <1>5, <1>6, IntentWriters

\* The last event queued for a merchant agrees with the intent it can fetch,
\* however applications, cancels, expiries, switches and restores interleave.
THEOREM ToldTheTruthHolds ==
  ASSUME "reverse" \notin Operations, "extend" \notin Operations
  PROVE  Spec => []ToldTheTruth
<1> DEFINE Inv == ToldTheTruth /\ TellsNothingYet /\ NoReversal /\ NoExtension
<1>1. Init => Inv
  BY DEF Init, ToldTheTruth, TellsNothingYet, NoReversal, NoExtension, NoSession, Idle
<1>2. TypeOK /\ Inv /\ [Next]_vars => Inv'
  BY ToldStep, NoReversalStep, NoExtensionStep
<1> QED BY <1>1, <1>2, TypeCorrect, PTL DEF Spec
=============================================================================
