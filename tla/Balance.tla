------------------------------ MODULE Balance ------------------------------
(***************************************************************************)
(* Balance continuity: every wallet message shows the balance after its     *)
(* movement, and each one recorded is checked against the last anchor and   *)
(* the rows received since.  Money that arrived and has no row shows up as  *)
(* a balance higher than expected, and stops the number.                   *)
(***************************************************************************)
EXTENDS AccountHealth, Integers, Sequences, Functions, FiniteSetsExt

CONSTANTS
    Movements,  \* the wallet's movements in their order: amounts, negative when it pays
    Ingests,    \* requests that may be ingesting messages at once
    MaxClock,   \* bound on the server's clock: on what is ingested and imported
    Happens     \* "late": rows are recorded in another order than they are received in

ASSUME BalanceAssumption ==
    /\ Movements \in Seq(Int \ {0})
    /\ IsFiniteSet(Ingests) /\ MaxClock \in Nat
    /\ Happens \subseteq {"late"}

VARIABLES
    moved,       \* how many of the movements have happened
    receivedAt,  \* received_at of each movement's row, 0 while it has none
    clock,       \* the server's clock
    ingest,      \* the message each request is ingesting, and its received_at
    anchor,      \* last_known_balance_cents and balance_checked_at
    opening,     \* what the wallet held beyond the rows when it was first anchored
    reported     \* the sum of the drifts reported

balanceVars == <<moved, receivedAt, clock, ingest, anchor, opening, reported>>

Moves     == DOMAIN Movements
NoMessage == [move |-> 0, at |-> 0]
NoAnchor  == [balance |-> 0, at |-> 0]

-----------------------------------------------------------------------------
(* Helpers *)

Total(moves) == SumFunctionOnSet(Movements, moves)

\* What a movement's message says: the balance right after it.
BalanceAfter(k) == Total(1 .. k)

Ingesting == {ingest[r].move : r \in Ingests} \ {0}
Recorded == {k \in Moves : receivedAt[k] # 0}

\* received_at > balance_checked_at, among rows as they are about to be.
Since_Inclusive(rows, at) == {k \in Moves : rows[k] # 0 /\ rows[k] >= at}
Since(rows, at) == {k \in Moves : rows[k] > at}

-----------------------------------------------------------------------------
(* Initial state: a wallet nobody has read a message of *)

BalanceInit ==
    /\ moved = 0 /\ clock = 0
    /\ receivedAt = [k \in Moves |-> 0]
    /\ ingest = [r \in Ingests |-> NoMessage]
    /\ anchor = NoAnchor
    /\ opening = 0 /\ reported = 0

-----------------------------------------------------------------------------
(* Actions *)

WalletMoves ==
    /\ moved < Len(Movements)
    /\ moved' = moved + 1
    /\ UNCHANGED <<receivedAt, clock, ingest, anchor, opening, reported, accountVars>>

\* ingestCaptures and ingestManualEntry take received_at before they open
\* their transaction.
ReceiveMessage(r, k) ==
    /\ ingest[r] = NoMessage
    /\ k <= moved
    /\ k \notin Ingesting
    /\ "late" \in Happens \/ (Ingesting = {} /\ \A j \in Recorded : j <= k)
    /\ clock < MaxClock
    /\ clock' = clock + 1
    /\ ingest' = [ingest EXCEPT ![r] = [move |-> k, at |-> clock']]
    /\ UNCHANGED <<moved, receivedAt, anchor, opening, reported, accountVars>>

\* checkBalanceContinuity, for a message that shows its balance: the anchor
\* always moves to it, and money nobody recorded stops the number.
CheckBalance(k, at) ==
    LET off == BalanceAfter(k) - (anchor.balance + Total(Since(receivedAt', anchor.at)))
    IN  /\ anchor' = [balance |-> BalanceAfter(k), at |-> at]
        /\ \/ /\ anchor = NoAnchor
              /\ opening' = BalanceAfter(k) - Total(Recorded \cup {k})
              /\ UNCHANGED <<reported, drift, standing>>
           \/ /\ anchor # NoAnchor
              /\ reported' = reported + off
              /\ IF off > 0 THEN Stop ELSE UNCHANGED <<drift, standing>>
              /\ UNCHANGED opening

\* The transaction: nothing for a TrxID that has its row; else the row, the
\* capture clock and the check, unless the message shows no balance.  A message
\* that does not parse touches the clock alone: its row counts for nothing.
RecordMessage(r) ==
    LET k == ingest[r].move
        at == ingest[r].at
    IN  /\ ingest[r] # NoMessage
        /\ ingest' = [ingest EXCEPT ![r] = NoMessage]
        /\ \/ /\ receivedAt[k] # 0
              /\ UNCHANGED <<standing, drift, capture, receivedAt, anchor, opening, reported>>
           \/ /\ receivedAt[k] = 0
              /\ capture' = "recent"
              /\ receivedAt' = [receivedAt EXCEPT ![k] = at]
              /\ CheckBalance(k, at) \/ UNCHANGED <<standing, drift, anchor, opening, reported>>
           \/ /\ receivedAt[k] = 0
              /\ capture' = "recent"
              /\ UNCHANGED <<standing, drift, receivedAt, anchor, opening, reported>>
    /\ UNCHANGED <<moved, clock, beat, jobs>>

\* importStatement: money in that has no row, received now and not checked.
ImportRow(k) ==
    /\ k <= moved
    /\ receivedAt[k] = 0
    /\ Movements[k] > 0
    /\ "late" \in Happens \/ Ingesting = {}
    /\ clock < MaxClock
    /\ clock' = clock + 1
    /\ receivedAt' = [receivedAt EXCEPT ![k] = clock']
    /\ UNCHANGED <<moved, ingest, anchor, opening, reported, accountVars>>

BalanceNext ==
    \/ WalletMoves
    \/ \E r \in Ingests, k \in Moves : ReceiveMessage(r, k)
    \/ \E r \in Ingests : RecordMessage(r)
    \/ \E k \in Moves : ImportRow(k)
    \/ (Enable \/ Disable) /\ UNCHANGED balanceVars

-----------------------------------------------------------------------------
(* Properties *)

\* Types.
BalanceTypeOK ==
    /\ moved \in 0 .. Len(Movements)
    /\ clock \in 0 .. MaxClock
    /\ receivedAt \in [Moves -> 0 .. clock]
    /\ ingest \in [Ingests -> [move : 0 .. moved, at : 0 .. clock]]
    /\ anchor \in [balance : Int, at : 0 .. clock]
    /\ opening \in Int /\ reported \in Int

\* Every poisha of the anchor is accounted for: what the wallet held at first,
\* the rows received up to the anchor, and the drifts that were reported.  No
\* discrepancy is lost between two checks and none is reported twice.
EveryPoishaIsAccounted ==
    anchor # NoAnchor =>
        anchor.balance = opening + reported
            + Total({k \in Recorded : receivedAt[k] <= anchor.at})

\* "Balance HIGHER than expected: money ARRIVED that we never saw."  An
\* anchored number is stopped for a drift only when money in has no row.
AlarmIsMissedMoney ==
    [][anchor' # NoAnchor /\ drift' /\ ~drift => \E k \in 1 .. moved : Movements[k] > 0 /\ receivedAt'[k] = 0]_<<balanceVars, accountVars>>
=============================================================================
