---------------------------- MODULE SettlementMC ----------------------------
(***************************************************************************)
(* Instances of Settlement for TLC.  Two buyers with the same number, the  *)
(* second of whom has not told it; the first intent can be paid short,     *)
(* exactly and over by the two payments that quote it, the second can only *)
(* be paid by a submission or an admin.                                    *)
(***************************************************************************)
EXTENDS Settlement, TLC

CONSTANTS i1, i2, p1, p2, s1, s2, bkash, nagad

MCAsked    == [i \in Intents |-> IF i = i1 THEN 2 ELSE 1]
MCPaid     == p1 :> 1 @@ p2 :> 2
MCQuoted   == p1 :> i1 @@ p2 :> i1
MCSender   == p1 :> "017" @@ p2 :> "017"
MCDeclared == [i \in Intents |-> IF i = i1 THEN "017" ELSE NoNumber]
MCLandedOn == p1 :> bkash @@ p2 :> bkash

\* Sessions are interchangeable.
Symmetry == Permutations(Sessions)
=============================================================================
