-------------------------- MODULE SettlementClaims --------------------------
(***************************************************************************)
(* What the repository says of settlement and the code does not keep:      *)
(* because its own operations interleave, or because one of them leaves    *)
(* behind what keeps the next one out.                                     *)
(***************************************************************************)
EXTENDS SettlementMC

\* matching.md: "Orders marked paid with no order_payments row. This must always
\* be empty" - the integrity check of the reconcile page.
PaidHasMoney ==
    \A i \in Intents : status[i] = "matched" => LiveRows(i) # {}

\* reversePayment and reverseMatchAction: "the payment goes back to `unmatched`
\* so it can be re-matched".  Of a payment whose application was reversed, the
\* next application is turned away only while another one holds its money.
ReversedCanBeMatched ==
    [][\A s \in Sessions :
          ApplyRefused(s) => HasLiveRow(session[s].payment)]_vars
=============================================================================
