------------------------------ MODULE Matching ------------------------------
(***************************************************************************)
(* The automatic decision: which intent, if any, a wallet message pays.     *)
(* Candidates are loaded by number, status and either amount or code, each  *)
(* is admitted or refused and scored, and the scores are compared.  The     *)
(* intents it decides between are created, named a payer, rerouted,        *)
(* extended, closed and paid meanwhile.                                     *)
(***************************************************************************)
EXTENDS Integers, FiniteSets

CONSTANTS
    Orders,            \* intents; an intent also names its reference code
    Receivers,         \* receiving numbers
    Payers,            \* numbers a buyer may pay from
    Nobody,            \* no number
    NoCodeQuoted,      \* a reference that is empty or no intent's code
    Price,             \* amount_cents of each intent
    Sums,              \* what a message may say was paid; 0: nothing readable, or nothing
    MaxTime,           \* bound on the clock
    Lifetime,          \* ttl_seconds
    Grace,             \* WINDOW_GRACE_MS
    RecencyWindow,     \* DEFAULT_WINDOW_MINUTES
    ApproveThreshold,  \* MATCH_APPROVE_THRESHOLD
    AmbiguityMargin    \* MATCH_AMBIGUITY_MARGIN

ASSUME MatchingAssumption ==
    /\ IsFiniteSet(Orders) /\ NoCodeQuoted \notin Orders /\ Nobody \notin Payers
    /\ Receivers # {}
    /\ Price \in [Orders -> Nat \ {0}] /\ Sums \subseteq Nat
    /\ MaxTime \in Nat /\ Lifetime \in Nat /\ Grace \in Nat /\ RecencyWindow \in Nat
    \* The deployment asks for no more than code and sender give.
    /\ ApproveThreshold \in Nat /\ ApproveThreshold <= 160
    /\ AmbiguityMargin \in Nat

VARIABLES
    time,    \* the server's clock
    order    \* each intent: see OrderType

orderVars == <<time, order>>

Times == 0 .. MaxTime

\* to: receiving_account_id; got: received_amount_cents; by: payer_msisdn;
\* code: whether its payment_refs row is open.
OrderType ==
    [status : {"none", "open", "partial", "settled", "expired", "cancelled"},
     to : Receivers, got : Nat, by : Payers \cup {Nobody}, answered : BOOLEAN,
     code : BOOLEAN, clicked : Nat, expires : Nat]

\* What the matcher is shown of a transfer: at is when it happened, by its own
\* clock if that could be read; seen is when the server first saw it.  A message of
\* another type is left to a human whatever else it says.
Messages ==
    [to : Receivers, sum : Sums, from : Payers \cup {Nobody},
     quoted : Orders \cup {NoCodeQuoted}, at : Times, seen : Times]

-----------------------------------------------------------------------------
(* The decision: lib/matching *)

Waiting == {o \in Orders : order[o].status \in {"open", "partial"}}

Outstanding(o) == Price[o] - order[o].got

\* loadCandidates: an intent whose code is not open is loaded without one.
Loaded_ByAmount(m) ==
    {o \in Waiting :
        /\ order[o].to = m.to
        /\ m.sum \in {Price[o], Outstanding(o)}}

Loaded(m) ==
    {o \in Waiting :
        /\ order[o].to = m.to
        /\ \/ m.sum \in {Price[o], Outstanding(o)}
           \/ order[o].code /\ m.quoted = o}

\* admits: nothing refuses the candidate.
Admits(m, o) ==
    /\ m.sum > 0
    /\ m.to = order[o].to
    /\ order[o].code /\ m.quoted = o
    /\ order[o].by # Nobody /\ m.from = order[o].by
    /\ m.at >= order[o].clicked - Grace
    /\ m.at <= order[o].expires + Grace

Apart(s, t) == IF s > t THEN s - t ELSE t - s

\* score: an admitted candidate has the exact code and the declared sender.
Score(m, o) ==
    100 + 60 + (IF Apart(order[o].clicked, m.seen) <= RecencyWindow THEN 20 ELSE 0)

Scored(m) == {o \in Loaded(m) : Admits(m, o)}

\* resolveMatch: the intents it may name, none when it leaves the message to a
\* human.  Those admitted that the threshold lets through must stand clear of
\* the runner-up.
Resolved(m) ==
    {o \in Scored(m) :
        /\ Score(m, o) >= ApproveThreshold
        /\ \A other \in Scored(m) \ {o} :
              Score(m, other) >= ApproveThreshold => Score(m, o) - Score(m, other) >= AmbiguityMargin}

-----------------------------------------------------------------------------
(* The intents *)

NoOrder ==
    [status |-> "none", to |-> CHOOSE n \in Receivers : TRUE, got |-> 0, by |-> Nobody,
     answered |-> FALSE, code |-> FALSE, clicked |-> 0, expires |-> 0]

OrderInit == time = 0 /\ order = [o \in Orders |-> NoOrder]

Write(o, changes) ==
    order' = [order EXCEPT ![o] =
        [field \in DOMAIN @ |-> IF field \in DOMAIN changes THEN changes[field] ELSE @[field]]]

\* createIntent
OpenOrder(o, n, m) ==
    /\ order[o].status = "none"
    /\ Write(o, [status |-> "open", to |-> n, by |-> m, code |-> TRUE,
                 clicked |-> time, expires |-> time + Lifetime])
    /\ UNCHANGED time

\* The buyer's answer, over the store's guess and not over an answer.
NamePayer(o, m) ==
    /\ order[o].status = "open" /\ ~order[o].answered
    /\ Write(o, [by |-> m, answered |-> TRUE])
    /\ UNCHANGED time

\* switchCheckoutMethod: nothing may have been received.
Reroute(o, n) ==
    /\ order[o].status = "open" /\ order[o].got = 0
    /\ Write(o, [to |-> n])
    /\ UNCHANGED time

\* extendIntent: the code of an expired intent stays closed.
Extend(o) ==
    /\ order[o].status \in {"open", "partial", "expired"}
    /\ Write(o, [expires |-> time + Lifetime,
                 status |-> IF order[o].status = "expired" THEN "open" ELSE order[o].status])
    /\ UNCHANGED time

Expire(o) ==
    /\ order[o].status = "open" /\ order[o].expires <= time
    /\ Write(o, [status |-> "expired", code |-> FALSE])
    /\ UNCHANGED time

Cancel(o) ==
    /\ order[o].status = "open"
    /\ Write(o, [status |-> "cancelled", code |-> FALSE])
    /\ UNCHANGED time

\* runMatcher, and applyPayment for the one it names.
Match(m, o) ==
    /\ o \in Resolved(m)
    /\ LET got == order[o].got + m.sum IN
       Write(o, IF got < Price[o] THEN [got |-> got, status |-> "partial"]
                ELSE [got |-> got, status |-> "settled", code |-> FALSE])
    /\ UNCHANGED time

Pass ==
    /\ time < MaxTime
    /\ time' = time + 1
    /\ UNCHANGED order

MatchingNext ==
    \/ \E o \in Orders, n \in Receivers, m \in Payers \cup {Nobody} : OpenOrder(o, n, m)
    \/ \E o \in Orders, m \in Payers : NamePayer(o, m)
    \/ \E o \in Orders, n \in Receivers : Reroute(o, n)
    \/ \E o \in Orders : Extend(o) \/ Expire(o) \/ Cancel(o)
    \/ \E m \in Messages : \E o \in Orders : Match(m, o)
    \/ Pass

-----------------------------------------------------------------------------
(* Properties *)

MatchingTypeOK == time \in Nat /\ order \in [Orders -> OrderType]

\* Never a guess and never a miss: what loading, scoring and comparing name for a
\* transfer is what waits for money and is claimed by it, and that is one intent
\* at most, whatever else is open on the number at the same price.
DecisionIsExact ==
    Waiting # {} =>
        \A m \in Messages :
            LET claimants == {o \in Waiting : Admits(m, o)} IN
            Resolved(m) = claimants /\ Cardinality(claimants) <= 1
=============================================================================
