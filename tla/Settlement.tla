----------------------------- MODULE Settlement -----------------------------
(***************************************************************************)
(* How observed money settles payment intents: the matcher, the buyer's    *)
(* TrxID submission and the queue approval, which all end in applyPayment; *)
(* reversal; and the operations that move an intent or a payment under     *)
(* them (cancel, extend, expiry sweep, method switch, reject, restore).    *)
(*                                                                         *)
(* The database runs at READ COMMITTED, so an operation is cut where       *)
(* another can slip in: a plain SELECT is a step of its own whenever what  *)
(* it read is used by a later statement, and the statements of one         *)
(* transaction are a single step as long as the first lock they take       *)
(* covers everything they read.  A session is one request, sweep or job    *)
(* between its first read and its commit; its fields are the locals the    *)
(* code carries across that gap.                                           *)
(*                                                                         *)
(* Data is abstracted to what the properties tell apart.  A total is kept  *)
(* as the set of payments it adds up (Money gives the amount), because two *)
(* totals may agree by accident.  A quoted reference is the intent whose   *)
(* code it spells.  The clock is the set of intents past their deadline;   *)
(* every payment is taken to fall inside the matcher's time window.        *)
(***************************************************************************)
EXTENDS Integers, FiniteSets, Functions

CONSTANTS
    Intents,      \* payment_intents rows
    Payments,     \* incoming_payments rows, one per TrxID
    Accounts,     \* receiving_accounts rows
    Sessions,     \* operations in progress at one time
    NoIntent,     \* what a payment without a legible reference quotes
    NoNumber,     \* the number of nobody: undeclared, or not legible
    Asked,        \* amount_cents of an intent
    Paid,         \* amount_cents of a payment
    Quoted,       \* the intent whose code the payment quotes, or NoIntent
    Sender,       \* sender_msisdn of a payment, or NoNumber
    Declared,     \* payer_msisdn of an intent, or NoNumber
    LandedOn,     \* the account a payment arrived on
    MaxAttempts,  \* the retry loop's bound (20 in the code)
    MaxCrashes,   \* bound on server crashes
    Operations    \* which of the optional operations the deployment sees

ASSUME SettlementAssumption ==
    /\ IsFiniteSet(Payments)
    /\ NoIntent \notin Intents
    /\ Asked \in [Intents -> Nat \ {0}]
    /\ Paid \in [Payments -> Nat \ {0}]
    /\ Quoted \in [Payments -> Intents \cup {NoIntent}]
    /\ LandedOn \in [Payments -> Accounts]
    /\ MaxAttempts \in Nat \ {0}
    /\ MaxCrashes \in Nat

VARIABLES
    status,        \* payment_intents.status, "absent" before the insert
    account,       \* payment_intents.receiving_account_id
    counted,       \* the payments received_amount_cents adds up
    overdue,       \* intents whose expires_at has passed
    refCode,       \* payment_refs.status of the intent's one code
    payment,       \* incoming_payments.status, "absent" before the capture
    attempts,      \* incoming_payments.match_attempts, up to MaxAttempts
    orderPayments, \* order_payments rows
    toMatch,       \* payments a capture or a sweep holds to pass to runMatcher
    told,          \* type of the last event queued for the intent's merchant
    session,       \* operations in progress and their locals
    crashes        \* server crashes so far

intentVars  == <<status, account, counted, overdue, refCode>>
paymentVars == <<payment, attempts>>
vars == <<intentVars, paymentVars, orderPayments, toMatch, told, session, crashes>>

-----------------------------------------------------------------------------
(* Types *)

IntentStatus  == {"absent", "open", "partial", "matched", "over", "cancelled", "expired"}
PaymentStatus == {"absent", "unmatched", "matched", "orphaned"}
MatchedBy     == {"automatic", "submission", "admin"}

\* reversals counts the payment.reversed events queued for the row: the row is
\* live, its reversed_at null, while it is 0.
OrderPayment == [payment : Payments, intent : Intents, by : MatchedBy, reversals : Nat]

Idle == [pc |-> "idle"]

Session ==
    {Idle}
    \cup [pc : {"apply"}, payment : Payments, intent : Intents, by : MatchedBy]
    \cup [pc : {"reverse"}, payment : Payments, intent : Intents]
    \cup [pc : {"reversing"}, payment : Payments, intent : Intents, total : SUBSET Payments]
    \cup [pc : {"extend"}, intent : Intents, seen : {"open", "partial", "expired"}]
    \cup [pc : {"expire"}, intent : Intents]
    \cup [pc : {"switch"}, intent : Intents, to : Accounts]

-----------------------------------------------------------------------------
(* Helpers *)

Money(P) == SumFunctionOnSet(Paid, P)

StatusFor_AtLeast(received, asked) ==
    IF received >= asked THEN "over" ELSE "partial"

StatusFor(received, asked) ==
    IF received > asked THEN "over" ELSE IF received = asked THEN "matched" ELSE "partial"

LiveRows(i)     == {r \in orderPayments : r.intent = i /\ r.reversals = 0}
LivePayments(i) == {r.payment : r \in LiveRows(i)}
HasLiveRow(p)   == \E r \in orderPayments : r.payment = p /\ r.reversals = 0

\* applyPayment's sum after its insert, and reversePayment's after its update.
TotalWith_Replaced(i, p)  == {p}
TotalWith(i, p)           == LivePayments(i) \cup {p}
TotalWithout_TooEarly(i, p) == LivePayments(i)
TotalWithout(i, p)        == LivePayments(i) \ {p}

\* ux_order_payments_incoming is total: a reversed row still holds its key.
Unspent_PartialIndex(p) == ~HasLiveRow(p)
Unspent(p) == \A r \in orderPayments : r.payment # p

\* consumeRefCode and expireRefCode touch open codes only.
SettleRefCode_PaidOnly(i, to) ==
    [refCode EXCEPT ![i] = IF @ = "open" /\ to = "consumed" THEN to ELSE @]
SettleRefCode(i, to) == [refCode EXCEPT ![i] = IF @ = "open" THEN to ELSE @]

EventFor_Raw(s)     == s
EventFor_NoExcess(s) == IF s = "partial" THEN "payment.partial" ELSE "payment.succeeded"
EventFor(s) == CASE s = "over"    -> "payment.overpaid"
                 [] s = "partial" -> "payment.partial"
                 [] OTHER         -> "payment.succeeded"

\* sameMsisdn: two unknown numbers are not the same.
SameNumber(a, b) == a = b /\ a # NoNumber

\* What loadCandidates and admits leave of the intents: same account, an open
\* code spelled exactly, the declared sender.
Claims_AnyAccount(p, i) ==
    /\ status[i] \in {"open", "partial"}
    /\ refCode[i] = "open"
    /\ Quoted[p] = i
    /\ SameNumber(Sender[p], Declared[i])

Claims(p, i) ==
    /\ status[i] \in {"open", "partial"}
    /\ account[i] = LandedOn[p]
    /\ refCode[i] = "open"
    /\ Quoted[p] = i
    /\ SameNumber(Sender[p], Declared[i])

\* A reversal between its first write and its commit holds the row lock on the
\* application and on the payment.
LockedByReversal(p) ==
    \E s \in Sessions : session[s].pc = "reversing" /\ session[s].payment = p

Start(s, op, rec) ==
    /\ op \in Operations
    /\ session[s] = Idle
    /\ session' = [session EXCEPT ![s] = rec]

Finish(s) == session' = [session EXCEPT ![s] = Idle]

Init ==
    /\ status = [i \in Intents |-> "absent"]
    /\ account \in [Intents -> Accounts]
    /\ counted = [i \in Intents |-> {}]
    /\ overdue = {}
    /\ refCode = [i \in Intents |-> "absent"]
    /\ payment = [p \in Payments |-> "absent"]
    /\ attempts = [p \in Payments |-> 0]
    /\ orderPayments = {}
    /\ toMatch = {}
    /\ told = [i \in Intents |-> "nothing"]
    /\ session = [s \in Sessions |-> Idle]
    /\ crashes = 0

-----------------------------------------------------------------------------
(* Intents and payments come into being *)

\* createIntent: the row and its reference code in one transaction, on the
\* account routing chose.
CreateIntent(i) ==
    /\ status[i] = "absent"
    /\ status' = [status EXCEPT ![i] = "open"]
    /\ refCode' = [refCode EXCEPT ![i] = "open"]
    /\ UNCHANGED <<account, counted, overdue, paymentVars, orderPayments, toMatch,
                   told, session, crashes>>

\* ingestCaptures: the row is inserted and committed, runMatcher comes after.
CapturePayment(p) ==
    /\ payment[p] = "absent"
    /\ payment' = [payment EXCEPT ![p] = "unmatched"]
    /\ toMatch' = toMatch \cup {p}
    /\ UNCHANGED <<intentVars, attempts, orderPayments, told, session, crashes>>

\* The rows retryOrphans selects.
RetryDue_NeverTried(p) == payment[p] = "unmatched" /\ attempts[p] = 0
RetryDue(p)            == payment[p] = "unmatched" /\ attempts[p] < MaxAttempts

\* retryOrphans selects a row; its loop then calls runMatcher for it.
RetryOrphan(p) ==
    /\ RetryDue(p)
    /\ p \notin toMatch
    /\ toMatch' = toMatch \cup {p}
    /\ UNCHANGED <<intentVars, paymentVars, orderPayments, told, session, crashes>>

-----------------------------------------------------------------------------
(* The three ways to applyPayment: each reads, and decides, before it       *)

CountAttempt(p) ==
    attempts' = [attempts EXCEPT ![p] = IF @ < MaxAttempts THEN @ + 1 ELSE @]

\* runMatcher up to its transaction.  An orphaned payment is not turned away.
MatchFound(s, p, i) ==
    /\ p \in toMatch
    /\ payment[p] # "matched"
    /\ Claims(p, i)
    /\ Start(s, "match", [pc |-> "apply", payment |-> p, intent |-> i, by |-> "automatic"])
    /\ CountAttempt(p)
    /\ toMatch' = toMatch \ {p}
    /\ UNCHANGED <<intentVars, payment, orderPayments, told, crashes>>

\* runMatcher finds nothing to apply, or the payment already matched.
MatchNothing(p) ==
    /\ p \in toMatch
    /\ payment[p] = "matched" \/ \A i \in Intents : ~Claims(p, i)
    /\ IF payment[p] = "matched" THEN UNCHANGED attempts ELSE CountAttempt(p)
    /\ toMatch' = toMatch \ {p}
    /\ UNCHANGED <<intentVars, payment, orderPayments, told, session, crashes>>

\* resolveSubmission up to its transaction, for a TrxID it decides to apply.
\* Matched and overpaid intents are not turned away; where the intent names no
\* payer, the number the submitter types is held against the sender's.
SubmitTrxId(s, p, i) ==
    /\ payment[p] # "absent"
    /\ account[i] = LandedOn[p]
    /\ ~HasLiveRow(p)
    /\ status[i] \notin {"absent", "expired", "cancelled"}
    /\ \E typed \in {Sender[p], NoNumber} :
          SameNumber(Sender[p], IF Declared[i] = NoNumber THEN typed ELSE Declared[i])
    /\ Start(s, "submit", [pc |-> "apply", payment |-> p, intent |-> i, by |-> "submission"])
    /\ UNCHANGED <<intentVars, paymentVars, orderPayments, toMatch, told, crashes>>

\* approveFromQueue up to its transaction: any intent the admin names.
ApproveFromQueue(s, p, i) ==
    /\ payment[p] \notin {"absent", "matched"}
    /\ status[i] # "absent"
    /\ Start(s, "approve", [pc |-> "apply", payment |-> p, intent |-> i, by |-> "admin"])
    /\ UNCHANGED <<intentVars, paymentVars, orderPayments, toMatch, told, crashes>>

-----------------------------------------------------------------------------
(* applyPayment and reversePayment *)

\* The whole transaction: the intent row is locked by its first statement, so
\* the total it sums is the total at commit.  The status is not looked at.
ApplyPayment(s) ==
    LET p     == session[s].payment
        i     == session[s].intent
        total == TotalWith(i, p)
        next  == StatusFor(Money(total), Asked[i])
    IN  /\ session[s].pc = "apply"
        /\ Unspent(p)
        /\ orderPayments' = orderPayments \cup
             {[payment |-> p, intent |-> i, by |-> session[s].by, reversals |-> 0]}
        /\ payment' = [payment EXCEPT ![p] = "matched"]
        /\ counted' = [counted EXCEPT ![i] = total]
        /\ status' = [status EXCEPT ![i] = next]
        /\ refCode' = IF next = "partial" THEN refCode ELSE SettleRefCode(i, "consumed")
        /\ told' = [told EXCEPT ![i] = EventFor(next)]
        /\ Finish(s)
        /\ UNCHANGED <<account, overdue, attempts, toMatch, crashes>>

\* AlreadyAppliedError: the insert hit the unique index and all is rolled back.
ApplyRefused(s) ==
    /\ session[s].pc = "apply"
    /\ ~Unspent(session[s].payment)
    /\ Finish(s)
    /\ UNCHANGED <<intentVars, paymentVars, orderPayments, toMatch, told, crashes>>

\* reversePayment's first read: a live row, read without a lock.
ReverseRead(s, r) ==
    /\ r.reversals = 0
    /\ Start(s, "reverse", [pc |-> "reverse", payment |-> r.payment, intent |-> r.intent])
    /\ UNCHANGED <<intentVars, paymentVars, orderPayments, toMatch, told, crashes>>

\* It marks the row and the payment, by id alone, and sums what is left; none
\* of it is visible to the others before the commit.
ReverseMark(s) ==
    /\ session[s].pc = "reverse"
    /\ ~LockedByReversal(session[s].payment)
    /\ session' = [session EXCEPT ![s] =
           [pc |-> "reversing", payment |-> @.payment, intent |-> @.intent,
            total |-> TotalWithout(@.intent, @.payment)]]
    /\ UNCHANGED <<intentVars, paymentVars, orderPayments, toMatch, told, crashes>>

\* It writes the sum and the status derived from it to the intent, and commits.
ReverseCommit(s) ==
    LET p == session[s].payment
        i == session[s].intent
        total == session[s].total
    IN  /\ session[s].pc = "reversing"
        /\ orderPayments' = {IF r.payment = p THEN [r EXCEPT !.reversals = @ + 1] ELSE r
                               : r \in orderPayments}
        /\ payment' = [payment EXCEPT ![p] = "unmatched"]
        /\ counted' = [counted EXCEPT ![i] = total]
        /\ status' = [status EXCEPT ![i] =
               IF Money(total) = 0 THEN "open" ELSE StatusFor(Money(total), Asked[i])]
        /\ told' = [told EXCEPT ![i] = "payment.reversed"]
        /\ Finish(s)
        /\ UNCHANGED <<account, overdue, refCode, attempts, toMatch, crashes>>

-----------------------------------------------------------------------------
(* The intent's life: deadline, cancel, extend, expiry, method switch *)

\* expires_at passes.  Only an open intent's deadline is ever tested.
DeadlinePasses(i) ==
    /\ "expire" \in Operations
    /\ status[i] = "open"
    /\ i \notin overdue
    /\ overdue' = overdue \cup {i}
    /\ UNCHANGED <<status, account, counted, refCode, paymentVars, orderPayments,
                   toMatch, told, session, crashes>>

\* cancelIntent: a conditional update, atomic.
CancelIntent(i) ==
    /\ "cancel" \in Operations
    /\ status[i] = "open"
    /\ status' = [status EXCEPT ![i] = "cancelled"]
    /\ refCode' = SettleRefCode(i, "expired")
    /\ told' = [told EXCEPT ![i] = "payment.cancelled"]
    /\ UNCHANGED <<account, counted, overdue, paymentVars, orderPayments, toMatch,
                   session, crashes>>

\* extendIntent's read.
ExtendRead(s, i) ==
    /\ status[i] \in {"open", "partial", "expired"}
    /\ Start(s, "extend", [pc |-> "extend", intent |-> i, seen |-> status[i]])
    /\ UNCHANGED <<intentVars, paymentVars, orderPayments, toMatch, told, crashes>>

\* The status it writes is the one it read, whatever the status is now.
Revived_Always(seen) == "open"
Revived(seen)        == IF seen = "expired" THEN "open" ELSE seen

ExtendWrite(s) ==
    LET i == session[s].intent
    IN  /\ session[s].pc = "extend"
        /\ status' = [status EXCEPT ![i] = Revived(session[s].seen)]
        /\ overdue' = overdue \ {i}
        /\ Finish(s)
        /\ UNCHANGED <<account, counted, refCode, paymentVars, orderPayments, toMatch,
                       told, crashes>>

\* The rows expireDueIntents and expireIntentIfDue select.
Due_Any(i)     == status[i] = "open"
Due_Partial(i) == status[i] = "partial" /\ i \in overdue
Due(i)         == status[i] = "open" /\ i \in overdue

ExpireRead(s, i) ==
    /\ Due(i)
    /\ Start(s, "expire", [pc |-> "expire", intent |-> i])
    /\ UNCHANGED <<intentVars, paymentVars, orderPayments, toMatch, told, crashes>>

\* expireOne: conditional on the status, not on the deadline.
ExpireOne(s) ==
    LET i == session[s].intent
    IN  /\ session[s].pc = "expire"
        /\ IF status[i] = "open"
           THEN /\ status' = [status EXCEPT ![i] = "expired"]
                /\ refCode' = SettleRefCode(i, "expired")
                /\ told' = [told EXCEPT ![i] = "payment.expired"]
           ELSE UNCHANGED <<status, refCode, told>>
        /\ Finish(s)
        /\ UNCHANGED <<account, counted, overdue, paymentVars, orderPayments, toMatch,
                       crashes>>

\* switchCheckoutMethod's reads: still open, no live money.
SwitchRead(s, i, a) ==
    /\ status[i] = "open"
    /\ account[i] # a
    /\ LiveRows(i) = {}
    /\ Start(s, "switch", [pc |-> "switch", intent |-> i, to |-> a])
    /\ UNCHANGED <<intentVars, paymentVars, orderPayments, toMatch, told, crashes>>

\* Its unconditional update.
SwitchWrite(s) ==
    /\ session[s].pc = "switch"
    /\ account' = [account EXCEPT ![session[s].intent] = session[s].to]
    /\ Finish(s)
    /\ UNCHANGED <<status, counted, overdue, refCode, paymentVars, orderPayments,
                   toMatch, told, crashes>>

-----------------------------------------------------------------------------
(* The queue's other two buttons, and the server dying *)

\* Any payment whose money is not applied.
Rejectable_Any(p) == payment[p] # "absent"
Rejectable(p)     == payment[p] \notin {"absent", "matched"}

\* rejectFromQueue: a conditional update, behind the payment's row lock.
RejectFromQueue(p) ==
    /\ "reject" \in Operations
    /\ Rejectable(p)
    /\ ~LockedByReversal(p)
    /\ payment' = [payment EXCEPT ![p] = "orphaned"]
    /\ UNCHANGED <<intentVars, attempts, orderPayments, toMatch, told, session, crashes>>

\* restoreToQueue: by id alone, whatever has become of the payment.
RestoreToQueue(p) ==
    /\ "restore" \in Operations
    /\ payment[p] # "absent"
    /\ ~LockedByReversal(p)
    /\ payment' = [payment EXCEPT ![p] = "unmatched"]
    /\ attempts' = [attempts EXCEPT ![p] = 0]
    /\ UNCHANGED <<intentVars, orderPayments, toMatch, told, session, crashes>>

\* The process dies: open transactions roll back, in-memory work is gone.
Crash ==
    /\ crashes < MaxCrashes
    /\ crashes' = crashes + 1
    /\ session' = [s \in Sessions |-> Idle]
    /\ toMatch' = {}
    /\ UNCHANGED <<intentVars, paymentVars, orderPayments, told>>

-----------------------------------------------------------------------------

\* A session that has read and goes on to its writes.
Resume(s) ==
    \/ ApplyPayment(s)
    \/ ApplyRefused(s)
    \/ ReverseMark(s)
    \/ ReverseCommit(s)
    \/ ExtendWrite(s)
    \/ ExpireOne(s)
    \/ SwitchWrite(s)

Next ==
    \/ \E i \in Intents :
          \/ CreateIntent(i)
          \/ DeadlinePasses(i)
          \/ CancelIntent(i)
    \/ \E p \in Payments :
          \/ CapturePayment(p)
          \/ RetryOrphan(p)
          \/ MatchNothing(p)
          \/ RejectFromQueue(p)
          \/ RestoreToQueue(p)
    \/ \E s \in Sessions, p \in Payments, i \in Intents :
          \/ MatchFound(s, p, i)
          \/ SubmitTrxId(s, p, i)
          \/ ApproveFromQueue(s, p, i)
    \/ \E s \in Sessions, r \in orderPayments : ReverseRead(s, r)
    \/ \E s \in Sessions, i \in Intents :
          \/ ExtendRead(s, i)
          \/ ExpireRead(s, i)
    \/ \E s \in Sessions, i \in Intents, a \in Accounts : SwitchRead(s, i, a)
    \/ \E s \in Sessions : Resume(s)
    \/ Crash

Spec == Init /\ [][Next]_vars

\* Requests and jobs that are under way run on; the worker's cadence brings
\* each sweep round again.  Strong fairness where a step needs a free session:
\* the pool of sessions is a bound of the model, the server has no such pool.
FairSpec ==
    /\ Spec
    /\ \A s \in Sessions : WF_vars(Resume(s))
    /\ \A p \in Payments :
          /\ WF_vars(RetryOrphan(p))
          /\ WF_vars(MatchNothing(p))
          /\ SF_vars(\E s \in Sessions, i \in Intents : MatchFound(s, p, i))
    /\ \A i \in Intents : SF_vars(\E s \in Sessions : ExpireRead(s, i))

-----------------------------------------------------------------------------
(* Properties *)

\* Every variable keeps the shape the schema gives it.
TypeOK ==
    /\ status \in [Intents -> IntentStatus]
    /\ account \in [Intents -> Accounts]
    /\ counted \in [Intents -> SUBSET Payments]
    /\ overdue \subseteq Intents
    /\ refCode \in [Intents -> {"absent", "open", "consumed", "expired"}]
    /\ payment \in [Payments -> PaymentStatus]
    /\ attempts \in [Payments -> 0 .. MaxAttempts]
    /\ orderPayments \subseteq OrderPayment
    /\ toMatch \subseteq Payments
    /\ told \in [Intents -> {"nothing", "payment.succeeded", "payment.partial",
                             "payment.overpaid", "payment.reversed",
                             "payment.cancelled", "payment.expired"}]
    /\ session \in [Sessions -> Session]
    /\ crashes \in 0 .. MaxCrashes

\* A TrxID is spent once: however the matcher, submissions and approvals race,
\* applyPayment's insert leaves one application row per payment.
SpentOnce ==
    \A r1, r2 \in orderPayments : r1.payment = r2.payment => r1 = r2

\* received_amount_cents is the sum of the intent's live rows: the row lock
\* applyPayment opens with loses no payment (apply.ts, race guard 1).
ReceivedIsSum ==
    \A i \in Intents : counted[i] = LivePayments(i)

\* incoming_payments.status tells the truth about the money: matched exactly
\* while a live application row exists, while nothing is restored to the queue.
MatchedIsSpent ==
    \A p \in Payments : payment[p] = "matched" <=> HasLiveRow(p)

\* An open reference code belongs to an intent still waiting for money: no
\* interleaving of extension, expiry, reversal and application leaves a code
\* matching for an intent that is paid or closed (refs.ts, consume and expire).
OpenCodeIsUnpaid ==
    \A i \in Intents : refCode[i] = "open" => status[i] \in {"open", "partial"}

\* Money the matcher or a submission applied sits on the account the intent
\* points at: the account gate of score.ts and submissions.ts, and "received
\* money pins the account" of checkout.ts.
MoneyIsOnTheAccount ==
    \A r \in orderPayments :
        r.reversals = 0 /\ r.by # "admin" => account[r.intent] = LandedOn[r.payment]

\* An intent expires with its deadline behind it, whatever was paid, reversed
\* and extended before ("TTL elapsed with no payment", api.md).  One request at
\* a time: expireOne tests the status and not the deadline.
ExpiredWasOverdue ==
    [][\A i \in Intents :
          status[i] # "expired" /\ status'[i] = "expired" => i \in overdue]_vars

\* The last event queued for a merchant agrees with the intent it can fetch.
ToldTheTruth ==
    \A i \in Intents :
        /\ status[i] = "matched" => told[i] = "payment.succeeded"
        /\ status[i] = "partial" => told[i] = "payment.partial"
        /\ status[i] = "over" => told[i] = "payment.overpaid"
        /\ status[i] = "cancelled" => told[i] = "payment.cancelled"
        /\ status[i] = "expired" => told[i] = "payment.expired"
        /\ status[i] = "open" => told[i] = "nothing"

\* The abstract specifications this one implements.
Spend(p) ==
    IF \E r \in orderPayments : r.payment = p
    THEN LET r == CHOOSE r \in orderPayments : r.payment = p
         IN  [state |-> IF r.reversals = 0 THEN "spent" ELSE "retracted",
              intent |-> r.intent]
    ELSE [state |-> "fresh"]

SpendOncePromise == INSTANCE SpendOnce WITH spend <- [p \in Payments |-> Spend(p)]
LedgerPromise    == INSTANCE Ledger WITH credit <- counted, state <- status, Received <- Money

\* Each payment goes from fresh to spent on one intent to retracted, never back:
\* what the schema's unique index keeps ("One payment can only ever be applied
\* once, to one intent", payments.ts).  The comments of reversePayment and of
\* reverseMatchAction promise the opposite of a reversed payment.
SpentAndRetractedOnce == SpendOncePromise!Spec

\* The interleaved reads and writes amount to the atomic ledger: statuses and
\* totals move only as one-at-a-time credits, debits, closings and reopenings.
ImplementsLedger == LedgerPromise!Spec

\* Liveness, under FairSpec.

\* What the retry loop is for: a payment its intent would claim, that arrived
\* before the intent committed or was dropped by a crash, is not left waiting.
Claimable(p) ==
    /\ payment[p] = "unmatched"
    /\ Unspent(p)
    /\ attempts[p] < MaxAttempts
    /\ \E i \in Intents : Claims(p, i)

ClaimableIsApplied == \A p \in Payments : []<>~Claimable(p)

\* An open intent past its deadline is closed by the sweep, unless it is paid,
\* cancelled or extended first.
OverdueCloses ==
    \A i \in Intents :
        (status[i] = "open" /\ i \in overdue) ~> ~(status[i] = "open" /\ i \in overdue)
=============================================================================
