------------------------------ MODULE SpendOnce ------------------------------
(***************************************************************************)
(* What the order_payments table promises of one observed payment: it is   *)
(* spent on at most one intent, once; the only thing that may happen after *)
(* is that the spend is retracted; and nothing happens after that.  The    *)
(* last clause is the table's alone: its unique index is total (schema,    *)
(* payments.ts:265), while apply.ts:208-209 sends a reversed payment back  *)
(* to be matched again.                                                    *)
(***************************************************************************)
CONSTANTS Payments, Intents

VARIABLE spend

Fresh        == [state |-> "fresh"]
SpentOn(i)   == [state |-> "spent", intent |-> i]
Retracted(i) == [state |-> "retracted", intent |-> i]

Init == spend = [p \in Payments |-> Fresh]

Spend(p, i) ==
    /\ spend[p] = Fresh
    /\ spend' = [spend EXCEPT ![p] = SpentOn(i)]

Retract(p, i) ==
    /\ spend[p] = SpentOn(i)
    /\ spend' = [spend EXCEPT ![p] = Retracted(i)]

Next == \E p \in Payments, i \in Intents : Spend(p, i) \/ Retract(p, i)

Spec == Init /\ [][Next]_spend
=============================================================================
