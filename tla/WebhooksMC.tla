----------------------------- MODULE WebhooksMC -----------------------------
(***************************************************************************)
(* Instances of Webhooks for TLC: a few deliveries to one endpoint, two    *)
(* workers with batches of two, a short ladder.                            *)
(***************************************************************************)
EXTENDS Webhooks, TLC

CONSTANTS d1, d2, d3, w1, w2, web

MCEndpointOf == [d \in Deliveries |-> CHOOSE e \in Endpoints : TRUE]

Symmetry == Permutations(Workers) \cup Permutations(Deliveries)
=============================================================================
