------------------------------- MODULE SiteMC -------------------------------
(***************************************************************************)
(* The instance of Site for TLC.                                           *)
(***************************************************************************)
EXTENDS Site, TLC

CONSTANTS callOne, callTwo, orderOne, orderTwo

MCMovements == <<1, -1, 1, 2>>
MCBodyOf    == callOne :> "one body" @@ callTwo :> "another"
MCPrice     == orderOne :> 1 @@ orderTwo :> 2
MCShopNames == {<<90>>, <<90, 3>>}     \* "Shop" and "Shop 3"
MCDefault   == <<91>>
=============================================================================
