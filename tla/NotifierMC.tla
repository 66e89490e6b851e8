----------------------------- MODULE NotifierMC -----------------------------
(***************************************************************************)
(* Instances of Notifier for TLC.                                          *)
(***************************************************************************)
EXTENDS Notifier, TLC

CONSTANTS hub, wallet, second, bkash, nagad, sim1, sim2, sms, push, trx, a, b

OneWallet    == wallet :> bkash
TwoWallets   == wallet :> bkash @@ second :> nagad
TwoNumbers   == bkash :> sim1 @@ nagad :> sim2
OneNumber    == bkash :> sim1 @@ nagad :> sim1
AllAboutIt   == [m \in Messages |-> bkash]
OnePayment   == [m \in Messages |-> trx]
=============================================================================
