----------------------------- MODULE Credential -----------------------------
(***************************************************************************)
(* What the pairing of phones promises a merchant: a code is redeemed by   *)
(* one handset, once; a credential works only after somebody vouched for   *)
(* it, or its code was made for a handset somebody vouched for before; and *)
(* a withdrawn credential never comes back.                                *)
(***************************************************************************)
CONSTANTS Credentials, Handsets, Nobody

VARIABLES
    state,    \* "none", "offered", "claimed", "trusted" or "dead"
    holder,   \* the handset the code was made for, then the one that redeemed it
    vouched   \* handsets somebody has approved

Init ==
    /\ state = [c \in Credentials |-> "none"]
    /\ holder = [c \in Credentials |-> Nobody]
    /\ vouched = {}

Offer(c, h) ==
    /\ state[c] = "none"
    /\ state' = [state EXCEPT ![c] = "offered"]
    /\ holder' = [holder EXCEPT ![c] = h]
    /\ UNCHANGED vouched

\* A second claim of one handset takes the place of the ones still waiting.
Redeem(c, h, earlier) ==
    /\ state[c] = "offered"
    /\ \A e \in earlier : state[e] = "claimed" /\ holder[e] = h
    /\ \E s \in {"claimed"} \cup {"trusted" : v \in vouched \cap {h} \cap {holder[c]}} :
           state' = [e \in Credentials |-> IF e = c THEN s
                                           ELSE IF e \in earlier THEN "dead" ELSE state[e]]
    /\ holder' = [e \in Credentials |-> IF e = c THEN h
                                        ELSE IF e \in earlier THEN Nobody ELSE holder[e]]
    /\ UNCHANGED vouched

Vouch(c) ==
    /\ state[c] = "claimed"
    /\ state' = [state EXCEPT ![c] = "trusted"]
    /\ vouched' = vouched \cup {holder[c]}
    /\ UNCHANGED holder

Withdraw(c) ==
    /\ state[c] # "none"
    /\ state' = [state EXCEPT ![c] = "dead"]
    /\ holder' = [holder EXCEPT ![c] = Nobody]
    /\ UNCHANGED vouched

Next ==
    \E c \in Credentials :
        \/ \E h \in Handsets \cup {Nobody} : Offer(c, h)
        \/ \E h \in Handsets, earlier \in SUBSET (Credentials \ {c}) : Redeem(c, h, earlier)
        \/ Vouch(c)
        \/ Withdraw(c)

Spec == Init /\ [][Next]_<<state, holder, vouched>>
=============================================================================
