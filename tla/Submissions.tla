---------------------------- MODULE Submissions ----------------------------
(***************************************************************************)
(* What a buyer can ask of one intent: to look for the TrxID they type, and *)
(* for money back.  Each is checked against the rows that are there, a      *)
(* limit, a count, an open request, before the transaction that adds one,   *)
(* and requests overlap.  What happens to the money is in Settlement.       *)
(***************************************************************************)
EXTENDS Naturals, FiniteSets

CONSTANTS
    Buyers,         \* requests that may be under way at once
    HourlyLimit,    \* MAX_SUBMISSIONS_PER_INTENT_PER_HOUR
    EscalateAfter,  \* ESCALATE_AFTER_ATTEMPTS
    Reasons,        \* for a refund
    MaxMisses       \* bound on the submissions that find nothing

ASSUME SubmissionAssumption ==
    /\ IsFiniteSet(Buyers) /\ Buyers # {}
    /\ HourlyLimit \in Nat \ {0} /\ EscalateAfter \in Nat \ {0, 1} /\ MaxMisses \in Nat

VARIABLES
    paid,     \* the intent: "open" or "closed" without money, "received" once it came
    recent,   \* whether it is under ten minutes old
    payment,  \* the payment whose TrxID the buyer has: see Payments
    hour,     \* payment_submissions of the last hour
    misses,   \* those of all time that found nothing on an older intent
    unheard,  \* those of them that no admin is asked about
    refunds,  \* open refund_requests by reason
    form      \* each request: where it is, and the row it is about to insert

submissionVars == <<paid, recent, payment, hour, misses, unheard, refunds, form>>

\* No row on the intent's account; one of a wrong type, without an amount or of
\* another sender; the buyer's, unspent; spent on this intent or another;
\* reversed, which nothing can spend again.
Payments == {"absent", "doubtful", "theirs", "here", "elsewhere", "reversed"}

Rows  == {"none", "miss", "escalated", "other"} \cup Reasons
NoForm == [at |-> "idle", row |-> "none"]

-----------------------------------------------------------------------------
(* Initial state: an intent just created *)

SubmissionInit ==
    /\ paid = "open" /\ recent = TRUE /\ payment = "absent"
    /\ hour = 0 /\ misses = 0 /\ unheard = 0
    /\ refunds = [reason \in Reasons |-> 0]
    /\ form = [b \in Buyers |-> NoForm]

-----------------------------------------------------------------------------
(* Helpers *)

Turns(b, at, row) == form' = [form EXCEPT ![b] = [at |-> at, row |-> row]]

\* Whose money it then is.
SpentHere == payment' = "here" /\ paid' = "received"

-----------------------------------------------------------------------------
(* The capture, the matcher, the admins and the clock *)

PaymentMoves ==
    /\ \/ payment = "absent" /\ payment' \in {"doubtful", "theirs"} /\ UNCHANGED paid
       \/ payment \in {"doubtful", "theirs"} /\ payment' = "elsewhere" /\ UNCHANGED paid
       \/ payment \in {"doubtful", "theirs"} /\ SpentHere
       \/ payment = "elsewhere" /\ payment' = "reversed" /\ UNCHANGED paid
       \/ payment = "here" /\ payment' = "reversed" /\ paid' \in {"open", "received"}
    /\ UNCHANGED <<recent, hour, misses, unheard, refunds, form>>

\* Cancelled or expired, and extended.
IntentTurns ==
    /\ \/ paid = "open" /\ paid' = "closed"
       \/ paid = "closed" /\ paid' = "open"
    /\ UNCHANGED <<recent, payment, hour, misses, unheard, refunds, form>>

IntentAges ==
    /\ recent
    /\ recent' = FALSE
    /\ UNCHANGED <<paid, payment, hour, misses, unheard, refunds, form>>

\* An hour goes by for the oldest row.
RowAges ==
    /\ hour > 0
    /\ hour' = hour - 1
    /\ UNCHANGED <<paid, recent, payment, misses, unheard, refunds, form>>

-----------------------------------------------------------------------------
(* resolveSubmission *)

\* enforcePerIntentLimit.
Submit_OffByOne(b) ==
    /\ form[b] = NoForm
    /\ hour <= HourlyLimit
    /\ Turns(b, "looking", "none")
    /\ UNCHANGED <<paid, recent, payment, hour, misses, unheard, refunds>>
Submit(b) ==
    /\ form[b] = NoForm
    /\ hour < HourlyLimit
    /\ Turns(b, "looking", "none")
    /\ UNCHANGED <<paid, recent, payment, hour, misses, unheard, refunds>>

\* The TrxID as typed, which may not be the payment's, on the intent's account.
FindNothing(b) ==
    /\ form[b].at = "looking"
    /\ IF recent THEN Turns(b, "recording", "other") ELSE Turns(b, "counting", "none")
    /\ UNCHANGED <<paid, recent, payment, hour, misses, unheard, refunds>>

\* The live application first, then the payment, then the intent (one that money
\* came for may be over too), then the sender.
FindPayment(b) ==
    /\ form[b].at = "looking"
    /\ payment # "absent"
    /\ \/ payment \in {"theirs", "reversed"} /\ paid # "closed" /\ Turns(b, "applying", "none")
       \/ (payment # "theirs" \/ paid # "open") /\ Turns(b, "recording", "other")
    /\ UNCHANGED <<paid, recent, payment, hour, misses, unheard, refunds>>

\* applyPayment: what was spent since, or ever, ends the request without a row.
Apply(b) ==
    /\ form[b].at = "applying"
    /\ IF payment = "theirs"
       THEN SpentHere /\ Turns(b, "recording", "other")
       ELSE UNCHANGED <<paid, payment>> /\ Turns(b, "idle", "none")
    /\ UNCHANGED <<recent, hour, misses, unheard, refunds>>

\* The attempt in hand counts, the ones in other requests do not yet.
CountMisses_Others(b) ==
    /\ form[b].at = "counting"
    /\ Turns(b, "recording", IF misses > EscalateAfter THEN "escalated" ELSE "miss")
    /\ UNCHANGED <<paid, recent, payment, hour, misses, unheard, refunds>>
CountMisses(b) ==
    /\ form[b].at = "counting"
    /\ Turns(b, "recording", IF misses + 1 >= EscalateAfter THEN "escalated" ELSE "miss")
    /\ UNCHANGED <<paid, recent, payment, hour, misses, unheard, refunds>>

Record(b) ==
    LET row == form[b].row
    IN  /\ form[b].at = "recording"
        /\ row \in {"miss", "escalated"} => misses < MaxMisses
        /\ hour' = hour + 1
        /\ misses' = IF row = "other" THEN misses ELSE misses + 1
        /\ unheard' = IF row = "miss" THEN unheard + 1 ELSE unheard
        /\ Turns(b, "idle", "none")
        /\ UNCHANGED <<paid, recent, payment, refunds>>

-----------------------------------------------------------------------------
(* requestRefund: only for money that came, and one open request a reason.  *)
(* Nothing in the code ever closes one.                                     *)

AskForRefund(b, reason) ==
    /\ form[b] = NoForm
    /\ paid = "received"
    /\ refunds[reason] = 0
    /\ Turns(b, "asking", reason)
    /\ UNCHANGED <<paid, recent, payment, hour, misses, unheard, refunds>>

RecordRefund(b) ==
    /\ form[b].at = "asking"
    /\ refunds' = [refunds EXCEPT ![form[b].row] = @ + 1]
    /\ Turns(b, "idle", "none")
    /\ UNCHANGED <<paid, recent, payment, hour, misses, unheard>>

\* A request is lost with the process that served it.
RequestDies(b) ==
    /\ form[b] # NoForm
    /\ Turns(b, "idle", "none")
    /\ UNCHANGED <<paid, recent, payment, hour, misses, unheard, refunds>>

-----------------------------------------------------------------------------
(* Next-state relation *)

SubmissionNext ==
    \/ PaymentMoves
    \/ IntentTurns
    \/ IntentAges
    \/ RowAges
    \/ \E b \in Buyers :
          \/ Submit(b) \/ FindNothing(b) \/ FindPayment(b)
          \/ Apply(b) \/ CountMisses(b) \/ Record(b)
          \/ RecordRefund(b) \/ RequestDies(b)
    \/ \E b \in Buyers, reason \in Reasons : AskForRefund(b, reason)

-----------------------------------------------------------------------------
(* Properties *)

\* Types.
SubmissionTypeOK ==
    /\ paid \in {"open", "received", "closed"}
    /\ recent \in BOOLEAN
    /\ payment \in Payments
    /\ hour \in Nat /\ misses \in 0 .. MaxMisses /\ unheard \in 0 .. misses
    /\ refunds \in [Reasons -> Nat]
    /\ form \in [Buyers -> [at : {"idle", "looking", "applying", "counting", "recording", "asking"},
                            row : Rows]]

\* The three checks are made before the rows they count are inserted, and yet
\* hold but for the requests that overlap: five attempts an hour, a human after
\* three that found nothing, one open refund request a reason.  Attempts of one
\* request at a time overshoot none of them.
OvershootIsBounded ==
    /\ hour < HourlyLimit + Cardinality(Buyers)
    /\ unheard + 1 < EscalateAfter + Cardinality(Buyers)
    /\ \A reason \in Reasons : refunds[reason] <= Cardinality(Buyers)
=============================================================================
