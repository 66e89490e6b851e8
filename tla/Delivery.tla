------------------------------ MODULE Delivery ------------------------------
(***************************************************************************)
(* What the merchant is promised of a queued event: it stays pending until *)
(* it is delivered or given up, a 2xx ends it for good, and one that was   *)
(* given up waits for somebody to replay it.                               *)
(***************************************************************************)
CONSTANT Deliveries

VARIABLE outcome

Init == outcome = [d \in Deliveries |-> "absent"]

Queue(d) ==
    /\ outcome[d] = "absent"
    /\ outcome' = [outcome EXCEPT ![d] = "pending"]

Settle(d) ==
    /\ outcome[d] = "pending"
    /\ \E o \in {"delivered", "failed"} : outcome' = [outcome EXCEPT ![d] = o]

\* Replaying puts any of the failed deliveries back at once.
Replay ==
    \E D \in SUBSET {d \in Deliveries : outcome[d] = "failed"} :
        outcome' = [d \in Deliveries |-> IF d \in D THEN "pending" ELSE outcome[d]]

Next == Replay \/ \E d \in Deliveries : Queue(d) \/ Settle(d)

Spec == Init /\ [][Next]_outcome
=============================================================================
