--------------------------- MODULE NotifierClaims ---------------------------
(***************************************************************************)
(* What the repository says of pairing and rotation, and a lost answer (or *)
(* two wallets on one SIM) breaks.                                         *)
(***************************************************************************)
EXTENDS NotifierMC

\* "The old token stays valid right up until this succeeds, so a failed
\* rotation leaves the device working rather than locked out" (JommaApi.kt:86).
\* When the answer is lost the rotation has failed for the phone and succeeded
\* for the server, and the next beat's 401 gives an active credential up for
\* good.  With two tasks and no loss, a batch under the old token does it too.
RotationLocksNobodyOut ==
    \A d \in Devices : rowStatus[d] = "active" => ~pairing[d].revoked

\* "A number already on bKash is still a perfectly good Nagad number"
\* (sim-accounts.ts:96).  The phone redeems the code of the second wallet and
\* drops the credential, because it compares the msisdn alone.
AddedNumberIsWatched ==
    \A w \in Wallets :
        rowStatus[w] = "active" /\ install[w] = "ours" => OnItsWay(w) \/ Paired(w)
=============================================================================
