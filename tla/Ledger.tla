------------------------------- MODULE Ledger -------------------------------
(***************************************************************************)
(* What an intent promises its merchant, with every operation atomic: the  *)
(* credited payments and the status move together, money is never dropped  *)
(* from a total except by retracting it, a paid intent stays paid until    *)
(* then, and only an intent nobody has paid may be closed or reopened.     *)
(***************************************************************************)
EXTENDS Integers

CONSTANTS
    Intents, Payments,
    Asked,         \* the amount an intent asks for
    Received(_)    \* the amount a set of payments adds up to

VARIABLES
    credit,   \* the payments credited to an intent
    state     \* its status

\* The status a non-empty total earns.
Earned(i, P) ==
    IF Received(P) > Asked[i] THEN "over"
    ELSE IF Received(P) = Asked[i] THEN "matched"
    ELSE "partial"

Init ==
    /\ credit = [i \in Intents |-> {}]
    /\ state = [i \in Intents |-> "absent"]

Open(i) ==
    /\ state[i] \in {"absent", "expired"}
    /\ state' = [state EXCEPT ![i] = "open"]
    /\ UNCHANGED credit

Close(i) ==
    /\ state[i] = "open"
    /\ \E s \in {"cancelled", "expired"} : state' = [state EXCEPT ![i] = s]
    /\ UNCHANGED credit

Credit(i, p) ==
    /\ state[i] # "absent"
    /\ \A j \in Intents : p \notin credit[j]
    /\ credit' = [credit EXCEPT ![i] = @ \cup {p}]
    /\ state' = [state EXCEPT ![i] = Earned(i, credit'[i])]

Debit(i, p) ==
    /\ p \in credit[i]
    /\ credit' = [credit EXCEPT ![i] = @ \ {p}]
    /\ state' = [state EXCEPT ![i] =
           IF credit'[i] = {} THEN "open" ELSE Earned(i, credit'[i])]

Next ==
    \E i \in Intents :
        \/ Open(i)
        \/ Close(i)
        \/ \E p \in Payments : Credit(i, p) \/ Debit(i, p)

Spec == Init /\ [][Next]_<<credit, state>>
=============================================================================
