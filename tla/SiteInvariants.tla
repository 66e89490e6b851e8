--------------------------- MODULE SiteInvariants ---------------------------
(***************************************************************************)
(* More theorems about Site: what balance continuity promises of a wallet   *)
(* whose messages are recorded in the order they are received in, what a    *)
(* scanned page promises a buyer who has one tab, and the types of all ten  *)
(* parts.                                                                  *)
(***************************************************************************)
EXTENDS SiteProofs, SumTheorems

-----------------------------------------------------------------------------
(* Totals of movements *)

LEMMA MovesAreFinite ==
  /\ Moves = 1 .. Len(Movements) /\ Len(Movements) \in Nat
  /\ \A k \in Moves : k \in Nat /\ Movements[k] \in Int /\ Movements[k] # 0
  /\ \A S \in SUBSET Moves : IsFiniteSet(S) /\ Total(S) \in Int
<1>1. Movements \in Seq(Int \ {0})
  BY BalanceAssumption DEF BalanceAssumption
<1>2. /\ Moves = 1 .. Len(Movements) /\ Len(Movements) \in Nat
      /\ \A k \in Moves : k \in Nat /\ Movements[k] \in Int /\ Movements[k] # 0
  BY <1>1 DEF Moves
<1>3. ASSUME NEW S \in SUBSET Moves PROVE IsFiniteSet(S) /\ Total(S) \in Int
  <2>1. IsFiniteSet(S)
    <3>1. IsFiniteSet(1 .. Len(Movements))
      BY <1>2, FS_Interval
    <3> QED BY <1>2, <3>1, FS_Subset
  <2>2. \A k \in S : Movements[k] \in Int
    BY <1>2
  <2> QED BY <2>1, <2>2, SumInt DEF Total
<1> QED BY <1>2, <1>3

LEMMA TotalOfBoth ==
  ASSUME NEW S \in SUBSET Moves, NEW T \in SUBSET Moves, S \cap T = {}
  PROVE  Total(S \cup T) = Total(S) + Total(T)
<1>1. IsFiniteSet(S) /\ IsFiniteSet(T) /\ \A k \in S \cup T : Movements[k] \in Int
  BY MovesAreFinite
<1> QED BY <1>1, SumUnion DEF Total

-----------------------------------------------------------------------------
(* What holds of a wallet at every moment *)

\* The rows an anchor has behind it.
RowsBehind == {k \in Recorded : receivedAt[k] <= anchor.at}

\* One message is ingested at a time: it is the last thing the clock stamped,
\* and no row of a later movement is there.
InOrder ==
  \A r \in Ingests : ingest[r] # NoMessage =>
    /\ ingest[r].move \in 1 .. moved /\ ingest[r].at = clock
    /\ anchor.at < clock
    /\ \A k \in Recorded : receivedAt[k] < clock /\ k <= ingest[r].move
    /\ \A s \in Ingests : ingest[s] # NoMessage => s = r

\* An anchor is the balance of a message with a row: the rows behind it are of
\* movements up to that one, and the others up to it are imported, money in.
AnchoredTo(k) ==
  /\ anchor.balance = BalanceAfter(k)
  /\ k \in Recorded /\ receivedAt[k] = anchor.at
  /\ \A j \in Recorded : receivedAt[j] <= anchor.at => j <= k
  /\ \A j \in Recorded : receivedAt[j] > anchor.at /\ j <= k => Movements[j] > 0

BalanceInv ==
  /\ BalanceTypeOK /\ InOrder /\ EveryPoishaIsAccounted
  /\ anchor.at = 0 => anchor = NoAnchor
  /\ anchor = NoAnchor => reported = 0
  /\ anchor # NoAnchor => \E k \in Moves : AnchoredTo(k)
  /\ part # "balance" => anchor = NoAnchor

LEMMA Kept ==
  ASSUME BalanceInv, UNCHANGED balanceVars, part' = part
  PROVE  BalanceInv'
  BY DEF BalanceInv, balanceVars, BalanceTypeOK, InOrder, EveryPoishaIsAccounted, AnchoredTo,
         Recorded, NoAnchor

LEMMA BalanceStarts == SiteInit => BalanceInv
<1> SUFFICES ASSUME SiteInit PROVE BalanceInv
  OBVIOUS
<1>1. /\ moved = 0 /\ clock = 0 /\ anchor = NoAnchor /\ opening = 0 /\ reported = 0
      /\ receivedAt = [k \in Moves |-> 0] /\ ingest = [r \in Ingests |-> NoMessage]
  BY DEF SiteInit, BalanceInit
<1>2. Len(Movements) \in Nat /\ MaxClock \in Nat
  BY MovesAreFinite, BalanceAssumption DEF BalanceAssumption
<1>3. BalanceTypeOK
  BY <1>1, <1>2 DEF BalanceTypeOK, NoMessage, NoAnchor
<1> QED BY <1>1, <1>3 DEF BalanceInv, InOrder, EveryPoishaIsAccounted

\* Types, taken apart.
LEMMA BalanceTypes ==
  ASSUME BalanceTypeOK
  PROVE  /\ moved \in Nat /\ moved <= Len(Movements) /\ clock \in Nat /\ clock <= MaxClock
         /\ \A k \in Moves : receivedAt[k] \in Nat /\ receivedAt[k] <= clock
         /\ \A r \in Ingests : /\ ingest[r].move \in Nat /\ ingest[r].at \in Nat
                               /\ ingest[r].move <= moved /\ ingest[r].at <= clock
         /\ anchor.balance \in Int /\ anchor.at \in Nat /\ anchor.at <= clock
         /\ opening \in Int /\ reported \in Int
         /\ Len(Movements) \in Nat /\ MaxClock \in Nat
<1>1. Len(Movements) \in Nat /\ MaxClock \in Nat
  BY MovesAreFinite, BalanceAssumption DEF BalanceAssumption
<1> QED BY <1>1 DEF BalanceTypeOK

\* The clock and the wallet go on.
LEMMA TypesGrow ==
  ASSUME BalanceTypeOK, moved' \in moved .. Len(Movements), clock' \in clock .. MaxClock,
         UNCHANGED <<anchor, opening, reported>>,
         receivedAt' \in [Moves -> 0 .. clock'],
         ingest' \in [Ingests -> [move : 0 .. moved', at : 0 .. clock']]
  PROVE  BalanceTypeOK'
<1>1. moved' \in 0 .. Len(Movements) /\ clock' \in 0 .. MaxClock
  BY BalanceTypes
<1>2. anchor \in [balance : Int, at : 0 .. clock']
  BY BalanceTypes DEF BalanceTypeOK
<1> QED BY <1>1, <1>2 DEF BalanceTypeOK

\* Wider ranges.
LEMMA RangesGrow ==
  ASSUME BalanceTypeOK, moved' \in moved .. Len(Movements), clock' \in clock .. MaxClock
  PROVE  /\ receivedAt \in [Moves -> 0 .. clock']
         /\ ingest \in [Ingests -> [move : 0 .. moved', at : 0 .. clock']]
<1>1. 0 .. clock \subseteq 0 .. clock' /\ 0 .. moved \subseteq 0 .. moved'
  BY BalanceTypes
<1> QED BY <1>1 DEF BalanceTypeOK

LEMMA WalletMovesKeeps ==
  ASSUME BalanceInv, part' = part, WalletMoves
  PROVE  BalanceInv'
<1>1. /\ moved < Len(Movements) /\ moved' = moved + 1
      /\ UNCHANGED <<receivedAt, clock, ingest, anchor, opening, reported>>
  BY DEF WalletMoves
<1>0. BalanceTypeOK
  BY DEF BalanceInv
<1>2. moved' \in moved .. Len(Movements) /\ clock' \in clock .. MaxClock
  BY <1>0, <1>1, BalanceTypes
<1>3. BalanceTypeOK'
  BY <1>0, <1>1, <1>2, RangesGrow, TypesGrow
<1>4. 1 .. moved \subseteq 1 .. moved'
  BY <1>0, <1>1, BalanceTypes
<1>5. InOrder'
  BY <1>1, <1>4 DEF BalanceInv, InOrder, Recorded
<1> QED
  BY <1>1, <1>3, <1>5 DEF BalanceInv, EveryPoishaIsAccounted, AnchoredTo, Recorded

LEMMA ReceiveMessageKeeps ==
  ASSUME BalanceInv, part' = part, "late" \notin Happens,
         NEW r \in Ingests, NEW k \in Moves, ReceiveMessage(r, k)
  PROVE  BalanceInv'
<1> DEFINE m == [move |-> k, at |-> clock']
<1>1. /\ ingest[r] = NoMessage /\ k <= moved
      /\ Ingesting = {} /\ \A j \in Recorded : j <= k
      /\ clock < MaxClock /\ clock' = clock + 1
      /\ ingest' = [ingest EXCEPT ![r] = m]
      /\ UNCHANGED <<moved, receivedAt, anchor, opening, reported>>
  BY DEF ReceiveMessage
<1>0. BalanceTypeOK
  BY DEF BalanceInv
<1>2. moved' \in moved .. Len(Movements) /\ clock' \in clock .. MaxClock
  BY <1>0, <1>1, BalanceTypes
<1>3. k \in 1 .. moved /\ m \in [move : 0 .. moved', at : 0 .. clock']
  BY <1>0, <1>1, BalanceTypes, MovesAreFinite
<1>4. BalanceTypeOK'
  <2> HIDE DEF m
  <2>1. receivedAt' \in [Moves -> 0 .. clock']
    BY <1>0, <1>1, <1>2, RangesGrow
  <2>2. ingest \in [Ingests -> [move : 0 .. moved', at : 0 .. clock']]
    BY <1>0, <1>2, RangesGrow
  <2>3. ingest' \in [Ingests -> [move : 0 .. moved', at : 0 .. clock']]
    BY <1>1, <1>3, <2>2
  <2> QED BY <1>0, <1>1, <1>2, <2>1, <2>3, TypesGrow
<1>5. ASSUME NEW q \in Ingests, ingest'[q] # NoMessage PROVE q = r
  <2> SUFFICES ASSUME q # r PROVE FALSE
    OBVIOUS
  <2>1. ingest[q] # NoMessage
    BY <1>0, <1>1, <1>5 DEF BalanceTypeOK
  <2>2. ingest[q].move \in Ingesting
    BY <1>0, <2>1, BalanceTypes DEF BalanceInv, InOrder, Ingesting
  <2> QED BY <1>1, <2>2
<1>6. InOrder'
  <2>1. ingest'[r] = m /\ m.move = k /\ m.at = clock'
    BY <1>0, <1>1 DEF BalanceTypeOK
  <2>2. anchor.at < clock' /\ \A j \in Recorded : receivedAt[j] < clock'
    BY <1>0, <1>1, BalanceTypes DEF Recorded
  <2>3. Recorded' = Recorded
    BY <1>1 DEF Recorded
  <2> HIDE DEF m
  <2> QED BY <1>1, <1>3, <1>5, <2>1, <2>2, <2>3 DEF InOrder
<1> QED
  BY <1>1, <1>4, <1>6 DEF BalanceInv, EveryPoishaIsAccounted, AnchoredTo, Recorded

\* A row that was received after the anchor is not behind it.
LEMMA NewRow ==
  ASSUME BalanceTypeOK, NEW k \in Moves, receivedAt[k] = 0,
         NEW at \in Nat, anchor.at < at, at <= clock', clock' \in clock .. MaxClock,
         receivedAt' = [receivedAt EXCEPT ![k] = at]
  PROVE  /\ receivedAt' \in [Moves -> 0 .. clock']
         /\ receivedAt'[k] = at /\ \A j \in Moves : j # k => receivedAt'[j] = receivedAt[j]
         /\ Recorded' = Recorded \cup {k} /\ k \notin Recorded
         /\ {j \in Recorded' : receivedAt'[j] <= anchor.at} = RowsBehind
<1>1. receivedAt \in [Moves -> 0 .. clock'] /\ at \in 0 .. clock'
  BY RangesGrow, BalanceTypes DEF BalanceTypeOK
<1>2. /\ receivedAt' \in [Moves -> 0 .. clock']
      /\ receivedAt'[k] = at /\ \A j \in Moves : j # k => receivedAt'[j] = receivedAt[j]
  BY <1>1
<1>3. at # 0 /\ anchor.at \in Nat
  BY BalanceTypes
<1>4. Recorded' = Recorded \cup {k} /\ k \notin Recorded
  BY <1>2, <1>3 DEF Recorded
<1>5. {j \in Recorded' : receivedAt'[j] <= anchor.at} = RowsBehind
  BY <1>2, <1>3, <1>4 DEF RowsBehind, Recorded
<1> QED BY <1>2, <1>4, <1>5

\* A row nobody checks changes nothing an anchor says: it is imported, or of the
\* latest movement there is a row of.
LEMMA UncheckedRow ==
  ASSUME BalanceInv, NEW k \in Moves, receivedAt[k] = 0,
         NEW at \in Nat, anchor.at < at, at <= clock', clock' \in clock .. MaxClock,
         receivedAt' = [receivedAt EXCEPT ![k] = at],
         Movements[k] > 0 \/ \A j \in Recorded : j <= k,
         UNCHANGED <<anchor, opening, reported>>
  PROVE  /\ EveryPoishaIsAccounted'
         /\ anchor' # NoAnchor => \E j \in Moves : AnchoredTo(j)'
<1>0. BalanceTypeOK
  BY DEF BalanceInv
<1>1. /\ receivedAt'[k] = at /\ \A j \in Moves : j # k => receivedAt'[j] = receivedAt[j]
      /\ Recorded' = Recorded \cup {k} /\ k \notin Recorded
      /\ {j \in Recorded' : receivedAt'[j] <= anchor.at} = RowsBehind
  BY <1>0, NewRow
<1>2. EveryPoishaIsAccounted'
  <2>1. {j \in Recorded' : receivedAt'[j] <= anchor'.at} = RowsBehind
    BY <1>1
  <2>2. Total({j \in Recorded' : receivedAt'[j] <= anchor'.at}) = Total(RowsBehind)
    BY <2>1, Zenon
  <2> QED BY <2>2 DEF BalanceInv, EveryPoishaIsAccounted, RowsBehind
<1>3. ASSUME anchor' # NoAnchor PROVE \E j \in Moves : AnchoredTo(j)'
  <2>1. PICK j \in Moves : AnchoredTo(j)
    BY <1>3 DEF BalanceInv
  <2>2. anchor.balance = BalanceAfter(j) /\ anchor' = anchor
    BY <2>1 DEF AnchoredTo
  <2>3. j \in Recorded' /\ receivedAt'[j] = anchor.at
    BY <1>1, <2>1 DEF AnchoredTo
  <2>4. k <= j => Movements[k] > 0
    BY <1>1, <2>1, MovesAreFinite DEF AnchoredTo
  <2>5. ASSUME NEW i \in Recorded', receivedAt'[i] <= anchor.at PROVE i <= j
    BY <1>1, <2>1, <2>5 DEF AnchoredTo, RowsBehind
  <2>6. ASSUME NEW i \in Recorded', receivedAt'[i] > anchor.at, i <= j PROVE Movements[i] > 0
    BY <1>1, <2>1, <2>4, <2>6 DEF AnchoredTo, Recorded
  <2>7. AnchoredTo(j)'
    BY <2>2, <2>3, <2>5, <2>6 DEF AnchoredTo
  <2> QED BY <2>7
<1> QED BY <1>2, <1>3

LEMMA ImportRowKeeps ==
  ASSUME BalanceInv, part' = part, part = "balance", "late" \notin Happens,
         NEW k \in Moves, ImportRow(k)
  PROVE  BalanceInv'
<1>0. BalanceTypeOK
  BY DEF BalanceInv
<1> DEFINE at == clock + 1
<1>1. /\ receivedAt[k] = 0 /\ Movements[k] > 0 /\ Ingesting = {}
      /\ clock < MaxClock /\ clock' = at
      /\ receivedAt' = [receivedAt EXCEPT ![k] = at]
      /\ UNCHANGED <<moved, ingest, anchor, opening, reported>>
  BY DEF ImportRow
<1>2. /\ moved' \in moved .. Len(Movements) /\ clock' \in clock .. MaxClock
      /\ at \in Nat /\ anchor.at < at /\ at <= clock'
  BY <1>0, <1>1, BalanceTypes
<1> HIDE DEF at
<1>3. BalanceTypeOK'
  <2>1. receivedAt' \in [Moves -> 0 .. clock']
    BY <1>0, <1>1, <1>2, NewRow
  <2>2. ingest' \in [Ingests -> [move : 0 .. moved', at : 0 .. clock']]
    BY <1>0, <1>1, <1>2, RangesGrow
  <2> QED BY <1>0, <1>1, <1>2, <2>1, <2>2, TypesGrow
<1>4. InOrder'
  <2> SUFFICES ASSUME NEW r \in Ingests, ingest[r] # NoMessage PROVE FALSE
    BY <1>1 DEF InOrder
  <2>1. ingest[r].move \in Ingesting
    BY <1>0, BalanceTypes DEF BalanceInv, InOrder, Ingesting
  <2> QED BY <1>1, <2>1
<1>5. /\ EveryPoishaIsAccounted'
      /\ anchor' # NoAnchor => \E j \in Moves : AnchoredTo(j)'
  BY <1>1, <1>2, UncheckedRow
<1> QED
  BY <1>1, <1>3, <1>4, <1>5 DEF BalanceInv, NoAnchor

\* The check nets out: the rows behind the new anchor are those behind the last
\* one and those since.
LEMMA CheckedRow ==
  ASSUME BalanceInv, NEW k \in Moves, receivedAt[k] = 0, clock' = clock,
         anchor.at < clock, \A j \in Recorded : receivedAt[j] < clock /\ j <= k,
         receivedAt' = [receivedAt EXCEPT ![k] = clock],
         CheckBalance(k, clock)
  PROVE  /\ anchor' = [balance |-> BalanceAfter(k), at |-> clock]
         /\ opening' \in Int /\ reported' \in Int
         /\ EveryPoishaIsAccounted' /\ AnchoredTo(k)'
<1>0. BalanceTypeOK
  BY DEF BalanceInv
<1>1. /\ clock \in Nat /\ clock' \in clock .. MaxClock /\ clock > 0 /\ clock <= clock'
      /\ anchor.at \in Nat /\ anchor.balance \in Int /\ opening \in Int /\ reported \in Int
  BY <1>0, BalanceTypes
<1>2. /\ receivedAt'[k] = clock /\ \A j \in Moves : j # k => receivedAt'[j] = receivedAt[j]
      /\ Recorded' = Recorded \cup {k} /\ k \notin Recorded
      /\ {j \in Recorded' : receivedAt'[j] <= anchor.at} = RowsBehind
  BY <1>0, <1>1, NewRow
<1> DEFINE S == Since(receivedAt', anchor.at)
           A == RowsBehind
<1>3. A \cap S = {} /\ A \cup S = Recorded' /\ A \in SUBSET Moves /\ S \in SUBSET Moves
  <2>1. \A j \in Recorded' : receivedAt'[j] \in Nat /\ receivedAt'[j] # 0 /\ j \in Moves
    BY <1>0, <1>1, <1>2, BalanceTypes DEF Recorded
  <2>2. \A j \in Moves : j \in Recorded' <=> receivedAt'[j] # 0
    BY <1>1, <1>2 DEF Recorded
  <2> QED BY <1>1, <1>2, <2>1, <2>2 DEF Since
<1>4. PICK a \in Int, s \in Int, b \in Int, t \in Int :
        a = Total(A) /\ s = Total(S) /\ b = BalanceAfter(k) /\ t = Total(Recorded') /\ t = a + s
  <2> HIDE DEF A, S
  <2>1. Total(A) \in Int /\ Total(S) \in Int /\ Total(Recorded') \in Int
    BY <1>3, MovesAreFinite
  <2>2. Total(Recorded') = Total(A) + Total(S)
    <3>1. Total(A \cup S) = Total(A) + Total(S)
      BY <1>3, TotalOfBoth
    <3> QED BY <1>3, <3>1, Zenon
  <2>3. BalanceAfter(k) \in Int
    <3>1. 1 .. k \in SUBSET Moves
      BY MovesAreFinite
    <3> QED BY <3>1, MovesAreFinite DEF BalanceAfter
  <2> QED BY <2>1, <2>2, <2>3
<1>5. /\ anchor' = [balance |-> BalanceAfter(k), at |-> clock]
      /\ \/ /\ anchor = NoAnchor
            /\ opening' = BalanceAfter(k) - Total(Recorded \cup {k})
            /\ reported' = reported
         \/ /\ anchor # NoAnchor
            /\ reported' = reported + (BalanceAfter(k) - (anchor.balance + Total(S)))
            /\ opening' = opening
  <2> HIDE DEF A
  <2> QED BY DEF CheckBalance
<1>6. Recorded' = {j \in Recorded' : receivedAt'[j] <= anchor'.at}
  BY <1>0, <1>1, <1>2, <1>5, BalanceTypes DEF Recorded
<1>7. t = Total({j \in Recorded' : receivedAt'[j] <= anchor'.at})
  <2>1. t = Total(Recorded')
    BY <1>4
  <2> QED BY <1>6, <2>1, Zenon
<1>8. anchor'.balance = b /\ anchor'.at = clock
  BY <1>4, <1>5
<1>9. AnchoredTo(k)'
  <2>1. \A j \in Recorded' : j <= k /\ ~(receivedAt'[j] > clock)
    BY <1>0, <1>1, <1>2, BalanceTypes, MovesAreFinite DEF Recorded
  <2> QED BY <1>2, <1>5, <2>1 DEF AnchoredTo, BalanceAfter
<1>10. opening' \in Int /\ reported' \in Int /\ b = opening' + reported' + t
  <2> HIDE DEF A, S
  <2>1. CASE anchor = NoAnchor
    <3>1. Total(Recorded \cup {k}) = t
      <4>1. Total(Recorded') = t
        BY <1>4
      <4> QED BY <1>2, <4>1, Zenon
    <3>2. reported = 0
      BY <2>1 DEF BalanceInv
    <3>3. opening' = b - t /\ reported' = 0
      BY <1>4, <1>5, <2>1, <3>1, <3>2
    <3> QED BY <3>3
  <2>2. CASE anchor # NoAnchor
    <3>1. anchor.balance = opening + reported + a /\ t = a + s
      BY <1>4, <2>2 DEF A, BalanceInv, EveryPoishaIsAccounted, RowsBehind
    <3>2. opening' = opening /\ reported' = reported + (b - (anchor.balance + s))
      BY <1>4, <1>5, <2>2
    <3> QED BY <1>1, <3>1, <3>2
  <2> QED BY <2>1, <2>2
<1>11. EveryPoishaIsAccounted'
  <2> HIDE DEF A, S
  <2> QED BY <1>7, <1>8, <1>10 DEF EveryPoishaIsAccounted
<1> QED BY <1>5, <1>9, <1>10, <1>11

\* A balance that is higher than expected is one of a movement after the anchor's,
\* with money in among them that has no row: were there none, the rows since
\* would hold all the money in, and as much money out at most.
LEMMA HigherIsMissed ==
  ASSUME BalanceInv, NEW k \in Moves, receivedAt[k] = 0, clock' = clock, k <= moved,
         anchor.at < clock, \A j \in Recorded : receivedAt[j] < clock /\ j <= k,
         receivedAt' = [receivedAt EXCEPT ![k] = clock],
         anchor # NoAnchor,
         BalanceAfter(k) - (anchor.balance + Total(Since(receivedAt', anchor.at))) > 0
  PROVE  \E j \in 1 .. moved : Movements[j] > 0 /\ receivedAt'[j] = 0
<1> SUFFICES ASSUME \A j \in 1 .. moved : ~(Movements[j] > 0 /\ receivedAt'[j] = 0)
             PROVE  FALSE
  OBVIOUS
<1>0. BalanceTypeOK
  BY DEF BalanceInv
<1>1. /\ clock \in Nat /\ clock' \in clock .. MaxClock /\ clock > 0 /\ clock <= clock'
      /\ anchor.at \in Nat /\ anchor.balance \in Int /\ moved \in Nat
  BY <1>0, BalanceTypes
<1>2. /\ receivedAt'[k] = clock /\ \A j \in Moves : j # k => receivedAt'[j] = receivedAt[j]
  BY <1>0, <1>1, NewRow
<1>3. PICK k0 \in Moves : AnchoredTo(k0)
  BY DEF BalanceInv
<1>4. k0 \in Nat /\ k \in Nat /\ k0 < k /\ anchor.balance = BalanceAfter(k0)
  <2>1. k0 \in Nat /\ k \in Nat
    BY MovesAreFinite
  <2>2. k0 <= k /\ receivedAt[k0] # 0
    BY <1>3 DEF AnchoredTo, Recorded
  <2> QED BY <1>3, <2>1, <2>2 DEF AnchoredTo
<1> DEFINE N == k0 + 1 .. k
           S == Since(receivedAt', anchor.at)
<1>5. N \in SUBSET Moves /\ S \in SUBSET Moves /\ 1 .. k0 \in SUBSET Moves
  BY <1>4, MovesAreFinite DEF Since
<1>6. \A j \in N \ S : Movements[j] <= 0
  <2> SUFFICES ASSUME NEW j \in N, j \notin S PROVE Movements[j] <= 0
    OBVIOUS
  <2>1. j \in Moves /\ j \in Nat /\ k0 < j /\ j <= k /\ Movements[j] \in Int
    BY <1>4, <1>5, MovesAreFinite
  <2>2. j # k /\ receivedAt'[j] = receivedAt[j] /\ ~(receivedAt[j] > anchor.at)
    BY <1>2, <2>1 DEF Since
  <2>3. receivedAt[j] = 0
    <3> SUFFICES ASSUME receivedAt[j] # 0 PROVE FALSE
      OBVIOUS
    <3>1. j \in Recorded /\ receivedAt[j] <= anchor.at
      BY <1>0, <1>1, <2>1, <2>2, BalanceTypes DEF Recorded
    <3> QED BY <1>3, <1>4, <2>1, <3>1 DEF AnchoredTo
  <2>4. j \in 1 .. moved
    BY <1>1, <1>4, <2>1
  <2> QED BY <2>1, <2>2, <2>3, <2>4
<1>7. \A j \in S \ N : Movements[j] >= 0
  <2> SUFFICES ASSUME NEW j \in S, j \notin N PROVE Movements[j] >= 0
    OBVIOUS
  <2>1. j \in Moves /\ j \in Nat /\ Movements[j] \in Int /\ receivedAt'[j] > anchor.at
    BY MovesAreFinite DEF Since
  <2>2. j # k
    BY <1>4
  <2>3. receivedAt[j] > anchor.at /\ j \in Recorded
    BY <1>0, <1>1, <1>2, <2>1, <2>2, BalanceTypes DEF Recorded
  <2>4. j <= k0
    BY <1>4, <2>1, <2>3
  <2> QED BY <1>3, <2>1, <2>3, <2>4 DEF AnchoredTo
<1>8. Total(N) <= Total(S) /\ Total(N) \in Int /\ Total(S) \in Int
  <2> HIDE DEF N, S
  <2>1. IsFiniteSet(N) /\ IsFiniteSet(S) /\ \A j \in N \cup S : Movements[j] \in Int
    BY <1>5, MovesAreFinite
  <2> QED BY <1>5, <1>6, <1>7, <2>1, MovesAreFinite, SumTrade DEF Total
<1>9. BalanceAfter(k) = BalanceAfter(k0) + Total(N) /\ BalanceAfter(k0) \in Int
  <2>1. 1 .. k = (1 .. k0) \cup N /\ (1 .. k0) \cap N = {}
    BY <1>4
  <2> HIDE DEF N
  <2>2. Total((1 .. k0) \cup N) = Total(1 .. k0) + Total(N)
    BY <1>5, <2>1, TotalOfBoth
  <2>3. Total(1 .. k) = Total(1 .. k0) + Total(N)
    BY <2>1, <2>2, Zenon
  <2> QED BY <1>5, <2>3, MovesAreFinite DEF BalanceAfter
<1>10. BalanceAfter(k) - (BalanceAfter(k0) + Total(S)) > 0
  BY <1>4
<1> HIDE DEF N, S
<1> QED BY <1>8, <1>9, <1>10

LEMMA RecordMessageKeeps ==
  ASSUME BalanceInv, part' = part, part = "balance",
         NEW r \in Ingests, RecordMessage(r)
  PROVE  BalanceInv'
<1>0. BalanceTypeOK
  BY DEF BalanceInv
<1>1. ingest[r] # NoMessage /\ ingest' = [ingest EXCEPT ![r] = NoMessage]
      /\ UNCHANGED <<moved, clock>>
  BY DEF RecordMessage
<1>2. PICK k \in 1 .. moved :
      /\ k = ingest[r].move /\ k \in Moves /\ ingest[r].at = clock /\ anchor.at < clock
      /\ \A j \in Recorded : receivedAt[j] < clock /\ j <= k
      /\ \A s \in Ingests : ingest[s] # NoMessage => s = r
  <2>1. 1 .. moved \subseteq Moves
    BY <1>0, BalanceTypes, MovesAreFinite
  <2> QED BY <1>1, <2>1 DEF BalanceInv, InOrder
<1>3. /\ moved' \in moved .. Len(Movements) /\ clock' \in clock .. MaxClock
      /\ clock \in Nat /\ clock <= clock'
  BY <1>0, <1>1, BalanceTypes
<1>4. ingest' \in [Ingests -> [move : 0 .. moved', at : 0 .. clock']]
  <2>1. NoMessage \in [move : 0 .. moved', at : 0 .. clock']
    BY <1>0, <1>1, BalanceTypes DEF NoMessage
  <2>2. ingest \in [Ingests -> [move : 0 .. moved', at : 0 .. clock']]
    BY <1>0, <1>1 DEF BalanceTypeOK
  <2> QED BY <1>1, <2>1, <2>2
<1>5. InOrder'
  BY <1>0, <1>1, <1>2 DEF InOrder, BalanceTypeOK
<1>6. \/ UNCHANGED <<receivedAt, anchor, opening, reported>>
      \/ /\ receivedAt[k] = 0
         /\ receivedAt' = [receivedAt EXCEPT ![k] = clock]
         /\ CheckBalance(k, clock) \/ UNCHANGED <<anchor, opening, reported>>
  BY <1>2 DEF RecordMessage
<1>7. CASE UNCHANGED <<receivedAt, anchor, opening, reported>>
  <2>1. receivedAt' \in [Moves -> 0 .. clock']
    BY <1>0, <1>1, <1>7 DEF BalanceTypeOK
  <2>2. BalanceTypeOK'
    BY <1>0, <1>3, <1>4, <1>7, <2>1, TypesGrow
  <2> QED
    BY <1>5, <1>7, <2>2 DEF BalanceInv, EveryPoishaIsAccounted, AnchoredTo, Recorded
<1>8. CASE /\ receivedAt[k] = 0
           /\ receivedAt' = [receivedAt EXCEPT ![k] = clock]
           /\ UNCHANGED <<anchor, opening, reported>>
  <2>1. receivedAt' \in [Moves -> 0 .. clock']
    BY <1>0, <1>2, <1>3, <1>8, NewRow
  <2>2. BalanceTypeOK'
    BY <1>0, <1>3, <1>4, <1>8, <2>1, TypesGrow
  <2>3. /\ EveryPoishaIsAccounted'
        /\ anchor' # NoAnchor => \E j \in Moves : AnchoredTo(j)'
    BY <1>2, <1>3, <1>8, UncheckedRow
  <2> QED
    BY <1>5, <1>8, <2>2, <2>3 DEF BalanceInv, NoAnchor
<1>9. CASE /\ receivedAt[k] = 0
           /\ receivedAt' = [receivedAt EXCEPT ![k] = clock]
           /\ CheckBalance(k, clock)
  <2>1. receivedAt' \in [Moves -> 0 .. clock']
    BY <1>0, <1>2, <1>3, <1>9, NewRow
  <2>2. /\ anchor' = [balance |-> BalanceAfter(k), at |-> clock]
        /\ opening' \in Int /\ reported' \in Int
        /\ EveryPoishaIsAccounted' /\ AnchoredTo(k)'
    BY <1>1, <1>2, <1>9, CheckedRow
  <2>3. BalanceAfter(k) \in Int
    <3>1. 1 .. k \in SUBSET Moves
      BY <1>2, MovesAreFinite
    <3> QED BY <3>1, MovesAreFinite DEF BalanceAfter
  <2>4. clock # 0 /\ clock \in 0 .. clock' /\ anchor'.at = clock /\ NoAnchor.at = 0
    BY <1>0, <1>2, <1>3, <2>2, BalanceTypes DEF NoAnchor
  <2>5. anchor' \in [balance : Int, at : 0 .. clock']
    BY <2>2, <2>3, <2>4
  <2>6. BalanceTypeOK'
    BY <1>0, <1>1, <1>4, <2>1, <2>2, <2>5 DEF BalanceTypeOK
  <2>7. anchor' # NoAnchor
    BY <2>4
  <2> QED
    BY <1>2, <1>5, <2>2, <2>4, <2>6, <2>7 DEF BalanceInv
<1> QED BY <1>6, <1>7, <1>8, <1>9

-----------------------------------------------------------------------------
(* The two promises *)

LEMMA BalanceKeeps ==
  ASSUME "late" \notin Happens, BalanceInv, part' = part, part = "balance", BalanceNext
  PROVE  BalanceInv'
<1>1. CASE (Enable \/ Disable) /\ UNCHANGED balanceVars
  BY <1>1, Kept
<1> QED
  BY <1>1, WalletMovesKeeps, ReceiveMessageKeeps, RecordMessageKeeps, ImportRowKeeps
  DEF BalanceNext

LEMMA BalanceHolds == ASSUME "late" \notin Happens PROVE SiteSpec => []BalanceInv
<1>1. BalanceInv /\ [SiteNext]_siteVars => BalanceInv'
  <2> SUFFICES ASSUME BalanceInv, [SiteNext]_siteVars PROVE BalanceInv'
    OBVIOUS
  <2>1. CASE OnlyBalance /\ BalanceNext
    BY <2>1, BalanceKeeps DEF OnlyBalance
  <2>2. CASE UNCHANGED <<part, balanceVars>>
    BY <2>2, Kept
  <2> QED
    BY <2>1, <2>2 DEF SiteNext, siteVars, OnlyAccount, OnlyBridge, OnlyMatching, OnlyPage,
       OnlyRequest, OnlySetup, OnlySubmission, OnlyTenancy, OnlyUpdater
<1> QED BY <1>1, BalanceStarts, PTL DEF SiteSpec

\* No discrepancy is lost between two checks and none is reported twice, for any
\* wallet and any choice of messages that come, are lost or show no balance.
THEOREM EveryPoishaIsAccountedHolds ==
  ASSUME "late" \notin Happens PROVE SiteSpec => []EveryPoishaIsAccounted
<1>1. BalanceInv => EveryPoishaIsAccounted
  BY DEF BalanceInv
<1> QED BY <1>1, BalanceHolds, PTL

LEMMA AlarmStep ==
  ASSUME BalanceInv, BalanceInv', SiteNext, anchor' # NoAnchor, drift', ~drift
  PROVE  \E k \in 1 .. moved : Movements[k] > 0 /\ receivedAt'[k] = 0
<1>1. part' = "balance"
  BY DEF BalanceInv
<1>2. BalanceNext
  BY <1>1 DEF SiteNext, OnlyAccount, OnlyBridge, OnlyMatching, OnlyPage, OnlyRequest,
     OnlySetup, OnlySubmission, OnlyTenancy, OnlyUpdater
<1>3. PICK r \in Ingests : RecordMessage(r)
  <2>1. CASE WalletMoves
    BY <2>1 DEF WalletMoves, accountVars, status
  <2>2. ASSUME NEW r \in Ingests, NEW k \in Moves, ReceiveMessage(r, k) PROVE FALSE
    BY <2>2 DEF ReceiveMessage, accountVars, status
  <2>3. ASSUME NEW k \in Moves, ImportRow(k) PROVE FALSE
    BY <2>3 DEF ImportRow, accountVars, status
  <2>4. CASE Enable \/ Disable
    BY <2>4 DEF Enable, Disable
  <2> QED BY <1>2, <2>1, <2>2, <2>3, <2>4 DEF BalanceNext
<1> DEFINE k == ingest[r].move
<1>4. /\ ingest[r] # NoMessage /\ clock' = clock
      /\ receivedAt[k] = 0
      /\ receivedAt' = [receivedAt EXCEPT ![k] = ingest[r].at]
      /\ CheckBalance(k, ingest[r].at)
  <2>1. drift' # drift
    OBVIOUS
  <2> QED BY <1>3, <2>1 DEF RecordMessage
<1>5. /\ k \in 1 .. moved /\ k \in Moves /\ ingest[r].at = clock /\ anchor.at < clock
      /\ \A j \in Recorded : receivedAt[j] < clock /\ j <= k
  <2>1. 1 .. moved \subseteq Moves
    BY BalanceTypes, MovesAreFinite DEF BalanceInv
  <2> QED BY <1>4, <2>1 DEF BalanceInv, InOrder
<1>6. k <= moved
  BY <1>5, BalanceTypes DEF BalanceInv
<1> HIDE DEF k
<1>7. /\ anchor # NoAnchor
      /\ BalanceAfter(k) - (anchor.balance + Total(Since(receivedAt', anchor.at))) > 0
  BY <1>4 DEF CheckBalance
<1> QED BY <1>4, <1>5, <1>6, <1>7, HigherIsMissed

\* A number is stopped for its balance only when money in has no row, for any
\* wallet and any choice of messages that come, are lost or show no balance.
THEOREM AlarmIsMissedMoneyHolds ==
  ASSUME "late" \notin Happens PROVE SiteSpec => AlarmIsMissedMoney
<1>1. BalanceInv /\ BalanceInv' /\ [SiteNext]_siteVars =>
        [anchor' # NoAnchor /\ drift' /\ ~drift =>
           \E k \in 1 .. moved : Movements[k] > 0 /\ receivedAt'[k] = 0]_<<balanceVars, accountVars>>
  <2> SUFFICES ASSUME BalanceInv, BalanceInv', [SiteNext]_siteVars,
                      anchor' # NoAnchor, drift', ~drift
               PROVE  \E k \in 1 .. moved : Movements[k] > 0 /\ receivedAt'[k] = 0
    OBVIOUS
  <2>1. SiteNext
    BY DEF siteVars, accountVars, status
  <2> QED BY <2>1, AlarmStep
<1> QED BY <1>1, BalanceHolds, PTL DEF SiteSpec, AlarmIsMissedMoney

-----------------------------------------------------------------------------
(* What the pages of an intent hold *)

PageSteps   == {"unopened", "method", "confirm", "payer", "pay"}
Vouchers == {"nobody", "store", "buyer"}
PollAnswers == [over : BOOLEAN, number : Wallets, valid : {"unread", "true", "false"}]
MintStates   == [at : {"none", "asked", "served"}, token : 0 .. minted]

PageShape ==
  /\ PageTypeOK
  /\ polls \in [Phones -> SUBSET PollAnswers]
  /\ \A f \in Phones : IsFiniteSet(polls[f])
  /\ \A t \in Tabs : mint[t].at = "served" => mint[t].token # 0

\* What a tab does to its own page.
LEMMA TabMoves ==
  ASSUME PageTypeOK, NEW t \in Tabs, NEW to \in PageSteps, GoTo(t, to)
  PROVE  /\ step' = [step EXCEPT ![t] = to]
         /\ step' \in [Pages -> PageSteps]
         /\ mint' \in [Tabs -> MintStates]
         /\ strays' \subseteq Tabs
         /\ \A u \in Tabs : mint'[u].at = "served" => mint'[u] = mint[u]
<1>1. step \in [Pages -> PageSteps] /\ mint \in [Tabs -> MintStates] /\ strays \subseteq Tabs /\ t \in Pages
  BY DEF PageTypeOK, PageSteps, MintStates, Pages
<1>2. minted \in Nat
  BY PayPageAssumption DEF PayPageAssumption, PageTypeOK
<1>3. Asked \in MintStates /\ NoMint \in MintStates /\ Asked.at # "served" /\ NoMint.at # "served"
  BY <1>2 DEF Asked, NoMint, MintStates
<1>4. PICK m \in MintStates : m.at # "served" /\ mint' = [mint EXCEPT ![t] = m]
  BY <1>3 DEF GoTo
<1>5. mint' \in [Tabs -> MintStates] /\ \A u \in Tabs : mint'[u].at = "served" => mint'[u] = mint[u]
  BY <1>1, <1>4
<1> QED BY <1>1, <1>5 DEF GoTo

\* A token that is handed out is one of those minted, and they only grow.
LEMMA HandsOut ==
  ASSUME PageTypeOK, IssueHandoff
  PROVE  /\ minted' \in 0 .. MaxTokens /\ token' \in 1 .. minted'
         /\ 0 .. minted \subseteq 0 .. minted' /\ 1 .. minted \subseteq 1 .. minted'
         /\ token # 0 => token' = token /\ minted' = minted
         /\ token = 0 => token' = minted + 1
<1>1. minted \in Nat /\ MaxTokens \in Nat /\ token \in 0 .. minted /\ minted <= MaxTokens
  BY PayPageAssumption DEF PayPageAssumption, PageTypeOK
<1> QED BY <1>1 DEF IssueHandoff

\* What one tab does leaves the phones' pages and the tokens' ranges alone.
LEMMA TabKeepsShape ==
  ASSUME PageShape, NEW t \in Tabs, Buyer(t)
  PROVE  PageShape'
<1>0. PageTypeOK
  BY DEF PageShape
<1> USE DEF PageShape, PageTypeOK, PageSteps, MintStates, Vouchers, PollAnswers, serverVars, screenVars
<1>1. ASSUME NEW to \in PageSteps, GoTo(t, to)
      PROVE  /\ step' \in [Pages -> PageSteps]
             /\ mint' \in [Tabs -> MintStates]
             /\ strays' \subseteq Tabs
             /\ \A u \in Tabs : mint'[u].at = "served" => mint'[u].token # 0
  <2> QED BY <1>1, TabMoves
<1>2. FirstAfterMethod(t) \in PageSteps /\ "pay" \in PageSteps /\ "method" \in PageSteps /\ "payer" \in PageSteps
      /\ FirstAfterMethod(t)' \in PageSteps
  BY DEF FirstAfterMethod
<1>3. CASE LoadTab(t)
  <2>1. choice' \in [Tabs -> BOOLEAN] /\ vouched' \in [Tabs -> Vouchers]
    BY <1>3 DEF LoadTab, IsOpen
  <2>2. /\ step' \in [Pages -> PageSteps] /\ mint' \in [Tabs -> MintStates] /\ strays' \subseteq Tabs
        /\ \A u \in Tabs : mint'[u].at = "served" => mint'[u].token # 0
    BY <1>1, <1>2, <1>3 DEF LoadTab
  <2>3. /\ qr' \in [Tabs -> 0 .. minted]
        /\ request' \in [Tabs -> {"none", "switch", "vouch", "confirm", "leave"}]
    BY <1>3, PayPageAssumption DEF LoadTab, PayPageAssumption
  <2> QED BY <1>3, <2>1, <2>2, <2>3 DEF LoadTab
<1>4. CASE Continue(t) \/ UseDifferentNumber(t)
  <2>1. /\ step' \in [Pages -> PageSteps] /\ mint' \in [Tabs -> MintStates] /\ strays' \subseteq Tabs
        /\ \A u \in Tabs : mint'[u].at = "served" => mint'[u].token # 0
    BY <1>1, <1>2, <1>4 DEF Continue, UseDifferentNumber
  <2> QED BY <1>4, <2>1 DEF Continue, UseDifferentNumber
<1>5. CASE Back(t)
  <2>1. /\ step' \in [Pages -> PageSteps] /\ mint' \in [Tabs -> MintStates] /\ strays' \subseteq Tabs
        /\ \A u \in Tabs : mint'[u].at = "served" => mint'[u].token # 0
    BY <1>1, <1>2, <1>5 DEF Back, BackToMethod
  <2>2. qr' \in [Tabs -> 0 .. minted]
    BY <1>5, PayPageAssumption DEF Back, BackToMethod, PayPageAssumption
  <2> QED BY <1>5, <2>1, <2>2 DEF Back, BackToMethod
<1>6. ASSUME NEW at, NEW what \in {"switch", "vouch", "confirm", "leave"}, Ask(t, at, what)
      PROVE  /\ request' \in [Tabs -> {"none", "switch", "vouch", "confirm", "leave"}]
             /\ UNCHANGED <<screenVars, mint, strays, polls>>
  BY <1>6 DEF Ask
<1>7. ASSUME NEW w \in Wallets, Switch(t, w) PROVE PageShape'
  BY <1>6, <1>7 DEF Switch
<1>8. CASE Vouch(t) \/ ConfirmSuggestion(t)
  <2>1. payer' \in Vouchers
    BY <1>8 DEF Vouch, ConfirmSuggestion
  <2> QED BY <1>6, <1>8, <2>1 DEF Vouch, ConfirmSuggestion
<1>9. CASE Leave(t)
  <2>1. token' \in 0 .. minted
    BY <1>9, PayPageAssumption DEF Leave, PayPageAssumption
  <2> QED BY <1>6, <1>9, <2>1 DEF Leave
<1>10. CASE AnswerArrives(t)
  <2>1. /\ step' \in [Pages -> PageSteps] /\ mint' \in [Tabs -> MintStates] /\ strays' \subseteq Tabs
        /\ \A u \in Tabs : mint'[u].at = "served" => mint'[u].token # 0
    BY <1>1, <1>2, <1>10 DEF AnswerArrives, BackToMethod
  <2>2. qr' \in [Tabs -> 0 .. minted] /\ vouched' \in [Tabs -> Vouchers]
    BY <1>10, PayPageAssumption DEF AnswerArrives, BackToMethod, PayPageAssumption
  <2> QED BY <1>10, <2>1, <2>2 DEF AnswerArrives
<1>11. CASE RequestEnds(t)
  BY <1>11 DEF RequestEnds
<1>12. CASE ServeMint(t) \/ ServeStray(t)
  <2>1. IssueHandoff
    BY <1>12 DEF ServeMint, ServeStray
  <2>2. /\ minted' \in 0 .. MaxTokens /\ token' \in 1 .. minted'
        /\ 0 .. minted \subseteq 0 .. minted' /\ 1 .. minted \subseteq 1 .. minted'
    BY <2>1, HandsOut
  <2>3. token' \in 0 .. minted'
    BY <2>2
  <2>4. /\ crossed' \subseteq 1 .. minted' /\ strays' \subseteq Tabs
        /\ UNCHANGED <<route, intent, payer, screenVars, request, polls>>
    BY <1>12, <2>2 DEF ServeMint, ServeStray
  <2>5. PICK m \in [at : {"none", "asked", "served"}, token : 0 .. minted'] :
          /\ mint' = [mint EXCEPT ![t] = m]
          /\ m.at = "served" => m.token # 0
    <3>1. CASE ServeMint(t)
      <4>1. PICK m : m = [at |-> "served", token |-> token']
        OBVIOUS
      <4>2. m \in [at : {"none", "asked", "served"}, token : 0 .. minted'] /\ m.token # 0
        BY <2>2, <2>3, <4>1
      <4>3. mint' = [mint EXCEPT ![t] = m]
        BY <3>1, <4>1 DEF ServeMint
      <4> QED BY <4>2, <4>3
    <3>2. CASE ServeStray(t)
      <4>1. mint' = [mint EXCEPT ![t] = mint[t]]
        BY <3>2 DEF ServeStray
      <4>2. mint[t] \in [at : {"none", "asked", "served"}, token : 0 .. minted']
        BY <2>2
      <4> QED BY <4>1, <4>2
    <3> QED BY <1>12, <3>1, <3>2
  <2>6. mint \in [Tabs -> [at : {"none", "asked", "served"}, token : 0 .. minted']]
    BY <2>2
  <2>7. /\ mint' \in [Tabs -> [at : {"none", "asked", "served"}, token : 0 .. minted']]
        /\ \A u \in Tabs : mint'[u].at = "served" => mint'[u].token # 0
    BY <2>5, <2>6
  <2>8. /\ arrived' \in [Phones -> 0 .. minted'] /\ qr' \in [Tabs -> 0 .. minted']
        /\ printed' \subseteq 1 .. minted'
    BY <2>2, <2>4
  <2> QED BY <2>2, <2>3, <2>4, <2>7, <2>8
<1>13. CASE MintAnswered(t) \/ MintFails(t)
  <2>1. /\ mint' \in [Tabs -> MintStates]
        /\ \A u \in Tabs : mint'[u].at = "served" => mint'[u].token # 0
    <3>1. NoMint \in MintStates /\ NoMint.at = "none"
      BY PayPageAssumption DEF NoMint, PayPageAssumption
    <3>2. mint' = [mint EXCEPT ![t] = NoMint]
      BY <1>13 DEF MintAnswered, MintFails
    <3>3. mint \in [Tabs -> MintStates]
      OBVIOUS
    <3>4. \A u \in Tabs : mint'[u] = IF u = t THEN NoMint ELSE mint[u]
      BY <3>2, <3>3
    <3>5. mint' \in [Tabs -> MintStates]
      BY <3>1, <3>2, <3>3
    <3> QED BY <3>1, <3>4, <3>5
  <2>2. printed' \subseteq 1 .. minted /\ qr' \in [Tabs -> 0 .. minted]
    <3>1. CASE MintAnswered(t)
      <4>1. /\ mint[t].at = "served"
            /\ qr' = [qr EXCEPT ![t] = mint[t].token] /\ printed' = printed \cup {mint[t].token}
        BY <3>1 DEF MintAnswered
      <4>2. mint[t].token \in 0 .. minted /\ mint[t].token # 0 /\ minted \in Nat
        BY <4>1, PayPageAssumption DEF PayPageAssumption
      <4>3. mint[t].token \in 1 .. minted
        BY <4>2
      <4> QED BY <4>1, <4>2, <4>3
    <3> QED BY <1>13, <3>1 DEF MintFails
  <2> QED BY <1>13, <2>1, <2>2 DEF MintAnswered, MintFails
<1> QED
  BY <1>3, <1>4, <1>5, <1>7, <1>8, <1>9, <1>10, <1>11, <1>12, <1>13 DEF Buyer

\* What phones do leaves the tabs alone.
LEMMA PhoneKeepsShape ==
  ASSUME PageShape, NEW f \in Phones,
         (\E k \in printed : Scan(f, k)) \/ PhonePoll(f)
  PROVE  PageShape'
<1> USE DEF PageShape, PageTypeOK, serverVars, screenVars
<1>1. ASSUME NEW k \in printed, Scan(f, k) PROVE PageShape'
  <2>1. f \in Pages /\ k \in 0 .. minted
    BY PayPageAssumption DEF Pages, PayPageAssumption
  <2>2. /\ step' \in [Pages -> {"unopened", "method", "confirm", "payer", "pay"}]
        /\ number' \in [Phones -> Wallets] /\ settled' \in [Phones -> BOOLEAN]
        /\ arrived' \in [Phones -> 0 .. minted] /\ cancelled' \in [Phones -> BOOLEAN]
    BY <1>1, <2>1 DEF Scan, IsOver
  <2>3. /\ polls' \in [Phones -> SUBSET PollAnswers]
        /\ \A g \in Phones : IsFiniteSet(polls'[g]) /\ Cardinality(polls'[g]) <= MaxPolls
    <3>1. polls' = [polls EXCEPT ![f] = {}]
      BY <1>1 DEF Scan
    <3>2. IsFiniteSet({}) /\ Cardinality({}) <= MaxPolls
      BY FS_EmptySet, PayPageAssumption DEF PayPageAssumption
    <3> QED BY <3>1, <3>2
  <2> QED BY <1>1, <2>2, <2>3 DEF Scan
<1>2. CASE ReadIntent(f)
  <2> DEFINE a == [over |-> IsOver, number |-> route, valid |-> Unread]
  <2>1. a \in PollAnswers
    BY DEF PollAnswers, IsOver, Unread
  <2>2. /\ IsFiniteSet(polls[f] \cup {a})
        /\ Cardinality(polls[f] \cup {a}) <= MaxPolls
    <3>1. Cardinality(polls[f]) \in Nat /\ Cardinality(polls[f]) < MaxPolls
      BY <1>2, FS_CardinalityType DEF ReadIntent
    <3>2. /\ IsFiniteSet(polls[f] \cup {a})
          /\ Cardinality(polls[f] \cup {a}) \in {Cardinality(polls[f]), Cardinality(polls[f]) + 1}
      <4> HIDE DEF a
      <4> QED BY FS_AddElement
    <3> HIDE DEF a
    <3> QED BY <3>1, <3>2, PayPageAssumption DEF PayPageAssumption
  <2>3. polls' = [polls EXCEPT ![f] = @ \cup {a}]
    BY <1>2 DEF ReadIntent
  <2> HIDE DEF a
  <2>4. /\ polls' \in [Phones -> SUBSET PollAnswers]
        /\ \A g \in Phones : IsFiniteSet(polls'[g]) /\ Cardinality(polls'[g]) <= MaxPolls
    BY <2>1, <2>2, <2>3
  <2> QED BY <1>2, <2>4 DEF ReadIntent
<1>3. ASSUME NEW a \in polls[f] PROVE ReadToken(f, a) \/ Refresh(f, a) \/ PollLost(f, a) => PageShape'
  <2>1. a \in PollAnswers
    OBVIOUS
  <2>2. /\ IsFiniteSet(polls[f] \ {a})
        /\ Cardinality(polls[f]) \in Nat
        /\ Cardinality(polls[f] \ {a}) = Cardinality(polls[f]) - 1
    BY FS_CardinalityType, FS_RemoveElement
  <2>3. CASE ReadToken(f, a)
    <3> DEFINE b == [a EXCEPT !.valid = HandoffValid(f)]
    <3>1. b \in PollAnswers
      BY <2>1 DEF PollAnswers, HandoffValid
    <3>2. polls' = [polls EXCEPT ![f] = (@ \ {a}) \cup {b}]
      BY <2>3 DEF ReadToken
    <3> HIDE DEF b
    <3>3. /\ IsFiniteSet((polls[f] \ {a}) \cup {b})
          /\ Cardinality((polls[f] \ {a}) \cup {b})
               \in {Cardinality(polls[f] \ {a}), Cardinality(polls[f] \ {a}) + 1}
      BY <2>2, FS_AddElement
    <3>4. Cardinality((polls[f] \ {a}) \cup {b}) <= MaxPolls
      BY <2>2, <3>3, PayPageAssumption DEF PayPageAssumption
    <3>5. /\ polls' \in [Phones -> SUBSET PollAnswers]
          /\ \A g \in Phones : IsFiniteSet(polls'[g]) /\ Cardinality(polls'[g]) <= MaxPolls
      BY <3>1, <3>2, <3>3, <3>4
    <3> QED BY <2>3, <3>5 DEF ReadToken
  <2>4. CASE Refresh(f, a) \/ PollLost(f, a)
    <3>1. polls' = [polls EXCEPT ![f] = @ \ {a}]
      BY <2>4 DEF Refresh, PollLost
    <3>2. Cardinality(polls[f] \ {a}) <= MaxPolls
      BY <2>2, PayPageAssumption DEF PayPageAssumption
    <3>3. /\ polls' \in [Phones -> SUBSET PollAnswers]
          /\ \A g \in Phones : IsFiniteSet(polls'[g]) /\ Cardinality(polls'[g]) <= MaxPolls
      BY <2>2, <3>1, <3>2
    <3>4. number' \in [Phones -> Wallets] /\ settled' \in [Phones -> BOOLEAN] /\ cancelled' \in [Phones -> BOOLEAN]
      BY <2>1, <2>4 DEF Refresh, PollLost, PollAnswers
    <3> QED BY <2>4, <3>3, <3>4 DEF Refresh, PollLost
  <2> QED BY <2>3, <2>4
<1> QED
  BY <1>1, <1>2, <1>3 DEF PhonePoll

LEMMA PageHolds == SiteSpec => []PageShape
<1>1. SiteInit => PageShape
  <2> SUFFICES ASSUME SiteInit PROVE PageShape
    OBVIOUS
  <2>1. PageInit
    BY DEF SiteInit
  <2>2. IsFiniteSet({}) /\ Cardinality({}) = 0
    BY FS_EmptySet
  <2> QED
    BY <2>1, <2>2, PayPageAssumption DEF PageInit, PageShape, PageTypeOK, PayPageAssumption, NoMint
<1>2. PageShape /\ [SiteNext]_siteVars => PageShape'
  <2> SUFFICES ASSUME PageShape, [SiteNext]_siteVars PROVE PageShape'
    OBVIOUS
  <2>1. CASE OnlyPage /\ PageNext
    <3>1. CASE IntentMoves
      BY <3>1 DEF IntentMoves, PageShape, PageTypeOK, screenVars, wireVars
    <3> QED BY <2>1, <3>1, TabKeepsShape, PhoneKeepsShape DEF PageNext
  <2>2. CASE UNCHANGED pageVars
    BY <2>2 DEF pageVars, serverVars, screenVars, wireVars, PageShape, PageTypeOK
  <2> QED
    BY <2>1, <2>2 DEF SiteNext, siteVars, OnlyAccount, OnlyBalance, OnlyBridge, OnlyMatching,
       OnlyRequest, OnlySetup, OnlySubmission, OnlyTenancy, OnlyUpdater
<1> QED BY <1>1, <1>2, PTL DEF SiteSpec

-----------------------------------------------------------------------------
(* The number a scanned page shows *)

\* A token somebody can have scanned, and that a revocation preceding it did not
\* miss, is the one of a tab at its instructions that is not leaving them.
TokenIsGuarded ==
  \A t \in Tabs :
    /\ mint[t] # NoMint => step[t] = "pay"
    /\ /\ token \notin crossed
       /\ token \in printed \/ (mint[t].at = "served" /\ mint[t].token = token)
       => step[t] = "pay" /\ request[t] # "leave"

\* What a scanned page shows is what its polls that found its token say; while
\* the token lives, it is where the intent is routed to.
ShowsRight(f) ==
  /\ arrived[f] \in printed
  /\ \A a \in polls[f] : a.valid = "true" => a.number = number[f]
  /\ arrived[f] = token => number[f] = route /\ \A a \in polls[f] : a.number = route

NumberIsRouted ==
  \A f \in Phones :
    step[f] = "pay" /\ ~cancelled[f] /\ arrived[f] \notin crossed => ShowsRight(f)

PageInv == PageShape /\ TokenIsGuarded /\ NumberIsRouted

LEMMA PageTypes ==
  ASSUME PageShape
  PROVE  /\ Tabs \subseteq Pages /\ Phones \subseteq Pages /\ Tabs \cap Phones = {}
         /\ step \in [Pages -> PageSteps] /\ mint \in [Tabs -> MintStates]
         /\ minted \in Nat /\ token \in Nat /\ token <= minted
         /\ printed \subseteq 1 .. minted /\ crossed \subseteq 1 .. minted
         /\ \A t \in Tabs : mint[t].token \in Nat /\ mint[t].token <= minted
         /\ polls \in [Phones -> SUBSET PollAnswers]
<1>1. minted \in Nat
  BY PayPageAssumption DEF PayPageAssumption, PageShape, PageTypeOK
<1> QED
  BY <1>1, PayPageAssumption
  DEF PayPageAssumption, PageShape, PageTypeOK, Pages, PageSteps, MintStates

\* A tab that moves is at the step it moves to, and waits for no token unless
\* that is the instructions.
LEMMA TabArrives ==
  ASSUME PageShape, NEW t \in Tabs, NEW to \in PageSteps, GoTo(t, to)
  PROVE  /\ step'[t] = to /\ \A f \in Phones : step'[f] = step[f]
         /\ mint'[t] # NoMint => to = "pay"
         /\ mint'[t].at # "served"
<1>1. step' = [step EXCEPT ![t] = to] /\ t \in Pages /\ \A f \in Phones : f # t /\ f \in Pages
  BY PageTypes DEF GoTo
<1>2. mint'[t] = IF to = "pay" THEN Asked ELSE NoMint
  BY PageTypes DEF GoTo
<1> QED BY <1>1, <1>2, PageTypes DEF Asked, NoMint

\* The number of a phone stays right when its page stays, and its token, if it was
\* gone, does not come back.
LEMMA RoutedStays ==
  ASSUME NumberIsRouted, UNCHANGED <<route, number, cancelled, arrived, polls>>,
         \A f \in Phones : step'[f] = step[f],
         printed \subseteq printed', crossed \subseteq crossed',
         \A k \in printed : k = token' => k = token
  PROVE  NumberIsRouted'
<1> SUFFICES ASSUME NEW f \in Phones,
                    step[f] = "pay", ~cancelled[f], arrived[f] \notin crossed'
             PROVE  ShowsRight(f)'
  BY DEF NumberIsRouted
<1>1. ShowsRight(f)
  BY DEF NumberIsRouted
<1> QED BY <1>1 DEF ShowsRight

\* The one tab: nobody changes the wallet behind its back.
LEMMA TabKeepsNumber ==
  ASSUME \A t, u \in Tabs : t = u, PageInv, NEW t \in Tabs, Buyer(t)
  PROVE  TokenIsGuarded' /\ NumberIsRouted'
<1> DEFINE Scannable == /\ token \notin crossed
                        /\ token \in printed \/ (mint[t].at = "served" /\ mint[t].token = token)
<1>0. /\ PageShape /\ NumberIsRouted
      /\ mint[t] # NoMint => step[t] = "pay"
      /\ Scannable => step[t] = "pay" /\ request[t] # "leave"
  BY DEF PageInv, TokenIsGuarded
<1>1. SUFFICES /\ mint'[t] # NoMint => step'[t] = "pay"
               /\ Scannable' => step'[t] = "pay" /\ request'[t] # "leave"
               /\ NumberIsRouted'
  BY DEF TokenIsGuarded
<1>2. /\ request \in [Tabs -> {"none", "switch", "vouch", "confirm", "leave"}]
      /\ PageTypeOK
  BY <1>0 DEF PageShape, PageTypeOK
<1>3. FirstAfterMethod(t) \in PageSteps /\ {"pay", "method", "payer"} \subseteq PageSteps
      /\ FirstAfterMethod(t)' \in PageSteps
  BY DEF FirstAfterMethod, PageSteps
<1>4. CASE LoadTab(t)
  <2>1. PICK to \in PageSteps : GoTo(t, to) /\ (step[t] = "pay" => to = "pay")
    BY <1>3, <1>4 DEF LoadTab
  <2>2. request'[t] = "none" /\ UNCHANGED <<serverVars, number, arrived, cancelled, printed, polls>>
    BY <1>2, <1>4 DEF LoadTab
  <2>3. NumberIsRouted'
    BY <1>0, <2>1, <2>2, TabArrives, RoutedStays DEF serverVars
  <2> QED BY <1>0, <2>1, <2>2, <2>3, TabArrives DEF serverVars
<1>5. CASE Continue(t) \/ UseDifferentNumber(t) \/ Back(t)
  <2>1. PICK to \in PageSteps : GoTo(t, to)
    BY <1>3, <1>5 DEF Continue, UseDifferentNumber, Back, BackToMethod
  <2>2. step[t] # "pay" /\ UNCHANGED <<serverVars, number, arrived, cancelled, printed, polls>>
    BY <1>5 DEF Continue, UseDifferentNumber, Back
  <2>3. NumberIsRouted'
    BY <1>0, <2>1, <2>2, TabArrives, RoutedStays DEF serverVars
  <2> QED BY <1>0, <2>1, <2>2, <2>3, TabArrives DEF serverVars
<1>6. CASE AnswerArrives(t)
  <2>1. PICK to \in PageSteps : GoTo(t, to) /\ (request[t] = "leave" \/ to = "pay")
    BY <1>3, <1>6 DEF AnswerArrives, BackToMethod
  <2>2. request'[t] = "none" /\ UNCHANGED <<serverVars, number, arrived, cancelled, printed, polls>>
    BY <1>2, <1>6 DEF AnswerArrives
  <2>3. NumberIsRouted'
    BY <1>0, <2>1, <2>2, TabArrives, RoutedStays DEF serverVars
  <2> QED BY <1>0, <2>1, <2>2, <2>3, TabArrives DEF serverVars
<1>7. CASE Vouch(t) \/ ConfirmSuggestion(t) \/ RequestEnds(t)
  <2>1. UNCHANGED <<route, token, crossed, screenVars, mint, polls>>
    BY <1>7 DEF Vouch, ConfirmSuggestion, RequestEnds, Ask, serverVars
  <2>2. step[t] # "pay" \/ request'[t] = "none"
    BY <1>2, <1>7 DEF Vouch, ConfirmSuggestion, RequestEnds, Ask
  <2>3. NumberIsRouted'
    BY <1>0, <2>1, RoutedStays DEF screenVars
  <2> QED BY <1>0, <2>1, <2>2, <2>3 DEF screenVars
<1>8. ASSUME NEW w \in Wallets, Switch(t, w)
      PROVE  /\ mint'[t] # NoMint => step'[t] = "pay"
             /\ Scannable' => step'[t] = "pay" /\ request'[t] # "leave"
             /\ NumberIsRouted'
  <2>1. step[t] = "method" /\ UNCHANGED <<token, crossed, screenVars, mint, polls>>
    BY <1>8 DEF Switch, Ask
  <2>2. ASSUME NEW f \in Phones, step[f] = "pay", ~cancelled[f], arrived[f] \notin crossed
        PROVE  ShowsRight(f)'
    <3>1. ShowsRight(f)
      BY <1>0, <2>2 DEF NumberIsRouted
    <3>2. arrived[f] # token
      BY <1>0, <2>1, <2>2, <3>1 DEF ShowsRight
    <3> QED BY <2>1, <3>1, <3>2 DEF ShowsRight, screenVars
  <2>3. NumberIsRouted'
    BY <2>1, <2>2 DEF NumberIsRouted, screenVars
  <2> QED BY <1>0, <2>1, <2>3 DEF screenVars
<1>9. CASE Leave(t)
  <2>1. token' = 0 /\ step[t] = "pay" /\ UNCHANGED <<route, crossed, screenVars, mint, polls>>
    BY <1>9 DEF Leave, Ask
  <2>2. 0 \notin printed /\ (mint[t].at = "served" => mint[t].token # 0)
    BY <1>0, PageTypes DEF PageShape
  <2>3. NumberIsRouted'
    BY <1>0, <2>1, <2>2, RoutedStays DEF screenVars
  <2> QED BY <1>0, <2>1, <2>2, <2>3 DEF screenVars
<1>10. CASE ServeMint(t)
  <2>1. /\ mint[t] # NoMint /\ IssueHandoff
        /\ UNCHANGED <<route, screenVars, request, polls>>
        /\ crossed' = IF request[t] = "leave" THEN crossed \cup {token'} ELSE crossed
    BY <1>10 DEF ServeMint, Asked, NoMint
  <2>2. \A k \in printed : k = token' => k = token
    BY <1>0, <1>2, <2>1, HandsOut, PageTypes
  <2>3. NumberIsRouted'
    BY <1>0, <2>1, <2>2, RoutedStays DEF screenVars
  <2> QED BY <1>0, <2>1, <2>3 DEF screenVars
<1>11. CASE ServeStray(t)
  <2>1. IssueHandoff /\ UNCHANGED <<route, crossed, screenVars, request, mint, polls>>
    BY <1>11 DEF ServeStray
  <2>2. \A k \in printed \cup {mint[t].token} : k = token' /\ k # 0 => k = token
    BY <1>0, <1>2, <2>1, HandsOut, PageTypes
  <2>3. 0 \notin printed /\ (mint[t].at = "served" => mint[t].token # 0)
    BY <1>0, PageTypes DEF PageShape
  <2>4. NumberIsRouted'
    BY <1>0, <2>1, <2>2, <2>3, RoutedStays DEF screenVars
  <2> QED BY <1>0, <2>1, <2>2, <2>3, <2>4 DEF screenVars
<1>12. CASE MintAnswered(t) \/ MintFails(t)
  <2>1. /\ mint'[t] = NoMint
        /\ \/ printed' = printed
           \/ mint[t].at = "served" /\ printed' = printed \cup {mint[t].token}
        /\ UNCHANGED <<serverVars, step, number, arrived, cancelled, request, polls>>
    BY <1>0, <1>12, PageTypes DEF MintAnswered, MintFails, screenVars
  <2>2. NoMint.at # "served"
    BY DEF NoMint
  <2>3. NumberIsRouted'
    BY <1>0, <2>1, RoutedStays DEF serverVars
  <2> QED BY <1>0, <2>1, <2>2, <2>3 DEF serverVars
<1> QED
  BY <1>4, <1>5, <1>6, <1>7, <1>8, <1>9, <1>10, <1>11, <1>12 DEF Buyer

LEMMA PhoneKeepsNumber ==
  ASSUME PageInv, NEW f \in Phones,
         (\E k \in printed : Scan(f, k)) \/ PhonePoll(f)
  PROVE  TokenIsGuarded' /\ NumberIsRouted'
<1>0. /\ PageShape /\ NumberIsRouted /\ TokenIsGuarded /\ PageTypeOK
  BY DEF PageInv, PageShape
<1>1. TokenIsGuarded'
  <2>1. UNCHANGED <<serverVars, printed, mint, request>>
    BY DEF Scan, PhonePoll, ReadIntent, ReadToken, Refresh, PollLost, screenVars
  <2>2. \A t \in Tabs : step'[t] = step[t]
    <3>1. \A t \in Tabs : t # f /\ t \in Pages
      BY <1>0, PageTypes
    <3> QED BY <1>0, <3>1, PageTypes
         DEF Scan, PhonePoll, ReadIntent, ReadToken, Refresh, PollLost, screenVars
  <2> QED BY <1>0, <2>1, <2>2 DEF TokenIsGuarded, serverVars
<1>2. SUFFICES ASSUME NEW g \in Phones,
                      step'[g] = "pay", ~cancelled'[g], arrived'[g] \notin crossed'
               PROVE  ShowsRight(g)'
  BY <1>1 DEF NumberIsRouted
<1>3. ASSUME NEW k \in printed, Scan(f, k) PROVE ShowsRight(g)'
  <2>1. UNCHANGED <<serverVars, printed>>
    BY <1>3 DEF Scan
  <2>2. CASE g = f
    <3>1. arrived'[f] = k /\ polls'[f] = {} /\ number'[f] = route /\ cancelled'[f] = (token # k)
      BY <1>0, <1>3, PageTypes DEF Scan, PageTypeOK
    <3> QED BY <1>2, <2>1, <2>2, <3>1 DEF ShowsRight, serverVars
  <2>3. CASE g # f
    <3>1. /\ step'[g] = step[g] /\ arrived'[g] = arrived[g] /\ polls'[g] = polls[g]
          /\ number'[g] = number[g] /\ cancelled'[g] = cancelled[g]
      BY <1>0, <1>3, <2>3, PageTypes DEF Scan, PageTypeOK
    <3>2. ShowsRight(g)
      BY <1>0, <1>2, <2>1, <3>1 DEF NumberIsRouted, serverVars
    <3> QED BY <2>1, <3>1, <3>2 DEF ShowsRight, serverVars
  <2> QED BY <2>2, <2>3
<1>4. ASSUME PhonePoll(f) PROVE ShowsRight(g)'
  <2>1. UNCHANGED <<serverVars, printed, step, arrived>>
    BY <1>4 DEF PhonePoll, ReadIntent, ReadToken, Refresh, PollLost, screenVars
  <2>2. cancelled[g] => cancelled'[g]
    BY <1>0, <1>4 DEF PhonePoll, ReadIntent, ReadToken, Refresh, PollLost, screenVars, PageTypeOK
  <2>3. ShowsRight(g)
    BY <1>0, <1>2, <2>1, <2>2 DEF NumberIsRouted, serverVars
  <2>4. number'[g] = number[g] /\ (g # f => polls'[g] = polls[g])
    <3>1. CASE ReadIntent(f) \/ \E a \in polls[f] : ReadToken(f, a) \/ PollLost(f, a)
      BY <1>0, <3>1, PageTypes DEF ReadIntent, ReadToken, PollLost, screenVars
    <3>2. ASSUME NEW a \in polls[f], Refresh(f, a) PROVE number'[g] = number[g] /\ (g # f => polls'[g] = polls[g])
      <4>1. a.valid \in {"unread", "true", "false"} /\ a.valid # "unread"
        BY <1>0, <3>2, PageTypes DEF Refresh, Unread, PollAnswers
      <4>2. g = f => a.valid = "true"
        BY <1>0, <1>2, <3>2, <4>1 DEF Refresh, PageTypeOK
      <4>3. g = f => a.number = number[f]
        BY <2>3, <4>2 DEF ShowsRight
      <4> QED BY <1>0, <3>2, <4>3, PageTypes DEF Refresh, PageTypeOK
    <3> QED BY <1>4, <3>1, <3>2 DEF PhonePoll
  <2>5. ASSUME NEW b \in polls'[g]
        PROVE  /\ b.valid = "true" => b.number = number[g]
               /\ arrived[g] = token => b.number = route
    <3>1. CASE b \in polls[g]
      BY <2>3, <3>1 DEF ShowsRight
    <3>2. CASE b \notin polls[g]
      <4>1. g = f
        BY <2>4, <2>5, <3>2
      <4>2. CASE ReadIntent(f)
        BY <1>0, <2>5, <3>2, <4>1, <4>2, PageTypes DEF ReadIntent, Unread
      <4>3. ASSUME NEW a \in polls[f], ReadToken(f, a)
            PROVE  b.number = a.number /\ (b.valid = "true" => arrived[f] = token)
        <5>1. b = [a EXCEPT !.valid = HandoffValid(f)]
          BY <1>0, <2>5, <3>2, <4>1, <4>3, PageTypes DEF ReadToken
        <5>2. a \in PollAnswers
          BY <1>0, PageTypes
        <5> QED BY <5>1, <5>2 DEF HandoffValid, PollAnswers
      <4>4. ASSUME NEW a \in polls[f], Refresh(f, a) \/ PollLost(f, a) PROVE FALSE
        BY <1>0, <2>5, <3>2, <4>1, <4>4, PageTypes DEF Refresh, PollLost
      <4> QED BY <1>4, <2>3, <4>1, <4>2, <4>3, <4>4 DEF PhonePoll, ShowsRight
    <3> QED BY <3>1, <3>2
  <2> QED BY <2>1, <2>3, <2>4, <2>5 DEF ShowsRight, serverVars
<1> QED BY <1>3, <1>4

LEMMA PageInvHolds ==
  ASSUME \A t, u \in Tabs : t = u PROVE SiteSpec => []PageInv
<1>1. SiteInit => TokenIsGuarded /\ NumberIsRouted
  BY DEF SiteInit, PageInit, TokenIsGuarded, NumberIsRouted, NoMint, Pages
<1>2. PageInv /\ [SiteNext]_siteVars => TokenIsGuarded' /\ NumberIsRouted'
  <2> SUFFICES ASSUME PageInv, [SiteNext]_siteVars PROVE TokenIsGuarded' /\ NumberIsRouted'
    OBVIOUS
  <2>1. CASE OnlyPage /\ PageNext
    <3>1. CASE IntentMoves
      BY <3>1 DEF IntentMoves, PageInv, TokenIsGuarded, NumberIsRouted, ShowsRight, screenVars, wireVars
    <3> QED BY <2>1, <3>1, TabKeepsNumber, PhoneKeepsNumber DEF PageNext
  <2>2. CASE UNCHANGED pageVars
    BY <2>2 DEF pageVars, serverVars, screenVars, wireVars, PageInv, TokenIsGuarded, NumberIsRouted,
       ShowsRight
  <2> QED
    BY <2>1, <2>2 DEF SiteNext, siteVars, OnlyAccount, OnlyBalance, OnlyBridge, OnlyMatching,
       OnlyRequest, OnlySetup, OnlySubmission, OnlyTenancy, OnlyUpdater
<1>3. PageInv <=> PageShape /\ TokenIsGuarded /\ NumberIsRouted
  BY DEF PageInv
<1> QED BY <1>1, <1>2, <1>3, PageHolds, PTL DEF SiteSpec

LEMMA NumberStays ==
  ASSUME PageInv, PageNext, NEW f \in Phones, Shown(f), Shown(f)',
         arrived'[f] = arrived[f], arrived[f] \notin crossed
  PROVE  number'[f] = number[f]
<1>0. PageShape /\ PageTypeOK /\ ShowsRight(f)
  BY DEF PageInv, PageShape, NumberIsRouted, Shown
<1>1. CASE IntentMoves \/ \E t \in Tabs : Buyer(t)
  BY <1>1 DEF IntentMoves, Buyer, LoadTab, Continue, UseDifferentNumber, Back, Switch, Vouch,
     ConfirmSuggestion, Leave, AnswerArrives, RequestEnds, ServeMint, ServeStray, MintAnswered,
     MintFails, Ask, screenVars
<1>2. ASSUME NEW g \in Phones, NEW k \in printed, Scan(g, k) PROVE number'[f] = number[f]
  <2>1. CASE g # f
    BY <1>0, <1>2, <2>1 DEF Scan, PageTypeOK
  <2>2. CASE g = f
    BY <1>0, <1>2, <2>2 DEF Scan, PageTypeOK, Shown, ShowsRight
  <2> QED BY <2>1, <2>2
<1>3. ASSUME NEW g \in Phones, PhonePoll(g) PROVE number'[f] = number[f]
  <2>1. CASE ReadIntent(g) \/ \E a \in polls[g] : ReadToken(g, a) \/ PollLost(g, a)
    BY <2>1 DEF ReadIntent, ReadToken, PollLost, screenVars
  <2>2. ASSUME NEW a \in polls[g], Refresh(g, a) PROVE number'[f] = number[f]
    <3>1. CASE g # f
      BY <1>0, <2>2, <3>1 DEF Refresh, PageTypeOK
    <3>2. CASE g = f
      <4>1. a.valid = "true"
        BY <1>0, <2>2, <3>2, PageTypes DEF Refresh, PageTypeOK, Shown, Unread, PollAnswers
      <4> QED BY <1>0, <2>2, <3>2, <4>1 DEF Refresh, PageTypeOK, ShowsRight
    <3> QED BY <3>1, <3>2
  <2> QED BY <1>3, <2>1, <2>2 DEF PhonePoll
<1> QED BY <1>1, <1>2, <1>3 DEF PageNext

\* A scanned page never swaps the number under somebody who is sending to it, for
\* any wallets, any number of phones, of tokens and of overlapping polls, while
\* the buyer has one tab.
THEOREM NumberIsNotSwappedHolds ==
  ASSUME \A t, u \in Tabs : t = u PROVE SiteSpec => NumberIsNotSwapped
<1>1. PageInv /\ [SiteNext]_siteVars =>
        [\A f \in Phones :
           Shown(f) /\ Shown(f)' /\ arrived'[f] = arrived[f] /\ arrived[f] \notin crossed
             => number'[f] = number[f]]_pageVars
  <2> SUFFICES ASSUME PageInv, [SiteNext]_siteVars, pageVars' # pageVars, NEW f \in Phones,
                      Shown(f), Shown(f)', arrived'[f] = arrived[f], arrived[f] \notin crossed
               PROVE  number'[f] = number[f]
    OBVIOUS
  <2>1. PageNext
    BY DEF SiteNext, siteVars, OnlyAccount, OnlyBalance, OnlyBridge, OnlyMatching,
       OnlyRequest, OnlySetup, OnlySubmission, OnlyTenancy, OnlyUpdater
  <2> QED BY <2>1, NumberStays
<1> QED BY <1>1, PageInvHolds, PTL DEF SiteSpec, NumberIsNotSwapped

-----------------------------------------------------------------------------
(* The types of the parts: a number and its jobs, a balance *)

\* The number's state, whoever moves it.
LEMMA NumberKeepsTypes ==
  ASSUME AccountTypeOK,
         \/ Enable \/ Disable \/ BeatArrives
         \/ UNCHANGED <<status, beat, jobs>> /\ capture' \in {"recent", capture}
         \/ standing' = "degraded" /\ drift' \in {TRUE, drift} /\ capture' \in {"recent", capture}
            /\ UNCHANGED <<beat, jobs>>
  PROVE  AccountTypeOK'
  BY DEF AccountTypeOK, Enable, Disable, BeatArrives, status, watch, jobs

LEMMA JobsKeepTypes ==
  ASSUME AccountTypeOK, NEW s \in Sweeps, NEW kind \in Kinds, NEW from,
         NEW to \in {"idle", "listed", "alerting", "degrading"},
         Advance(s, kind, from, to) \/ job' = [job EXCEPT ![s][kind] = to]
  PROVE  job' \in [Sweeps -> [Kinds -> {"idle", "listed", "alerting", "degrading"}]]
<1>1. job' = [job EXCEPT ![s] = [job[s] EXCEPT ![kind] = to]]
  BY DEF Advance
<1>2. job[s] \in [Kinds -> {"idle", "listed", "alerting", "degrading"}]
  BY DEF AccountTypeOK
<1> QED BY <1>1, <1>2 DEF AccountTypeOK

LEMMA AccountKeepsTypes ==
  ASSUME AccountTypeOK, AccountNext
  PROVE  AccountTypeOK'
<1>1. CASE Enable \/ Disable \/ BeatArrives \/ MessageRecorded \/ DriftFound
  BY <1>1, NumberKeepsTypes DEF MessageRecorded, DriftFound, Stop
<1>2. CASE BeatAges \/ CaptureAges
  BY <1>2 DEF AccountTypeOK, BeatAges, CaptureAges, status, jobs
<1>3. ASSUME NEW kind \in Kinds, AcknowledgeAlert(kind) PROVE AccountTypeOK'
  <2>1. alerts[kind] > 0 /\ alerts' = [alerts EXCEPT ![kind] = alerts[kind] - 1] /\ UNCHANGED <<status, watch, job>>
    BY <1>3 DEF AcknowledgeAlert
  <2>2. alerts' \in [Kinds -> Nat]
    BY <2>1 DEF AccountTypeOK
  <2> QED BY <2>1, <2>2 DEF AccountTypeOK, status, watch
<1>4. ASSUME NEW s \in Sweeps, Degrade(s) PROVE AccountTypeOK'
  <2>1. "heartbeat_gap" \in Kinds
    BY DEF Kinds
  <2>2. job' \in [Sweeps -> [Kinds -> {"idle", "listed", "alerting", "degrading"}]]
    BY <1>4, <2>1, JobsKeepTypes DEF Degrade
  <2> QED BY <1>4, <2>2 DEF AccountTypeOK, Degrade, watch
<1>5. ASSUME NEW s \in Sweeps, NEW kind \in Kinds, Check(s, kind) \/ JobDies(s, kind)
      PROVE  AccountTypeOK'
  <2>1. PICK to \in {"idle", "listed", "alerting", "degrading"} : job' = [job EXCEPT ![s][kind] = to]
    BY <1>5 DEF Check, ListOverdue, LookForAlert, RaiseAlert, JobDies, Advance
  <2>2. job' \in [Sweeps -> [Kinds -> {"idle", "listed", "alerting", "degrading"}]]
    BY <2>1, JobsKeepTypes
  <2>3. alerts' \in [Kinds -> Nat]
    <3>1. alerts' = alerts \/ alerts' = [alerts EXCEPT ![kind] = alerts[kind] + 1]
      BY <1>5 DEF Check, ListOverdue, LookForAlert, RaiseAlert, JobDies
    <3> QED BY <3>1 DEF AccountTypeOK
  <2>4. UNCHANGED <<status, watch>>
    BY <1>5 DEF Check, ListOverdue, LookForAlert, RaiseAlert, JobDies
  <2> QED BY <2>2, <2>3, <2>4 DEF AccountTypeOK, status, watch
<1> QED BY <1>1, <1>2, <1>3, <1>4, <1>5 DEF AccountNext

LEMMA AccountHolds == SiteSpec => []AccountTypeOK
<1>1. SiteInit => AccountTypeOK
  <2> SUFFICES ASSUME AccountInit PROVE AccountTypeOK
    BY DEF SiteInit
  <2> QED BY DEF AccountInit, AccountTypeOK
<1>2. AccountTypeOK /\ [SiteNext]_siteVars => AccountTypeOK'
  <2> SUFFICES ASSUME AccountTypeOK, [SiteNext]_siteVars PROVE AccountTypeOK'
    OBVIOUS
  <2>1. CASE BalanceNext
    BY <2>1, NumberKeepsTypes DEF BalanceNext, WalletMoves, ReceiveMessage, RecordMessage,
       CheckBalance, ImportRow, Stop, accountVars, status, watch
  <2>2. CASE BridgeNext
    BY <2>2, NumberKeepsTypes DEF BridgeNext, BridgePoll, TextArrives, PageBreaks, SomebodyRepairs,
       ItemsChange, Start, End, StartPoll, FindFault, ReadPage, SavePoll, Forward, Beat,
       accountVars, status, watch
  <2>3. CASE UNCHANGED accountVars
    BY <2>3 DEF AccountTypeOK, accountVars, status, watch, jobs
  <2> QED
    BY <2>1, <2>2, <2>3, AccountKeepsTypes DEF SiteNext, siteVars, OnlyMatching, OnlyPage,
       OnlyRequest, OnlySetup, OnlySubmission, OnlyTenancy, OnlyUpdater
<1> QED BY <1>1, <1>2, PTL DEF SiteSpec

\* A balance that is read is a whole amount: the message in hand is of a movement.
BalanceShape ==
  /\ BalanceTypeOK
  /\ \A r \in Ingests : ingest[r] # NoMessage => ingest[r].move \in Moves

LEMMA BalanceKeepsTypes ==
  ASSUME BalanceShape, BalanceNext
  PROVE  BalanceShape'
<1>0. BalanceTypeOK
  BY DEF BalanceShape
<1>1. CASE WalletMoves
  <2>1. moved' \in moved .. Len(Movements) /\ clock' \in clock .. MaxClock
    BY <1>0, <1>1, BalanceTypes DEF WalletMoves
  <2>2. BalanceTypeOK'
    BY <1>0, <1>1, <2>1, RangesGrow, TypesGrow DEF WalletMoves
  <2> QED BY <1>1, <2>2 DEF BalanceShape, WalletMoves
<1>2. ASSUME NEW r \in Ingests, NEW k \in Moves, ReceiveMessage(r, k) PROVE BalanceShape'
  <2>1. PICK m : m = [move |-> k, at |-> clock']
    OBVIOUS
  <2>2. /\ k <= moved /\ clock < MaxClock /\ clock' = clock + 1
        /\ ingest' = [ingest EXCEPT ![r] = m]
        /\ UNCHANGED <<moved, receivedAt, anchor, opening, reported>>
    BY <1>2, <2>1 DEF ReceiveMessage
  <2>3. moved' \in moved .. Len(Movements) /\ clock' \in clock .. MaxClock
    BY <1>0, <2>2, BalanceTypes
  <2>4. m \in [move : 0 .. moved', at : 0 .. clock'] /\ m.move \in Moves
    BY <1>0, <2>1, <2>2, BalanceTypes, MovesAreFinite
  <2>5. /\ receivedAt' \in [Moves -> 0 .. clock']
        /\ ingest \in [Ingests -> [move : 0 .. moved', at : 0 .. clock']]
    BY <1>0, <2>2, <2>3, RangesGrow
  <2>6. ingest' \in [Ingests -> [move : 0 .. moved', at : 0 .. clock']]
    BY <2>2, <2>4, <2>5
  <2>7. BalanceTypeOK'
    BY <1>0, <2>2, <2>3, <2>5, <2>6, TypesGrow
  <2> QED BY <2>2, <2>4, <2>5, <2>7 DEF BalanceShape
<1>3. ASSUME NEW r \in Ingests, RecordMessage(r) PROVE BalanceShape'
  <2>1. PICK k \in Moves, at \in 0 .. clock : k = ingest[r].move /\ at = ingest[r].at
    BY <1>3 DEF RecordMessage, BalanceShape, BalanceTypeOK
  <2>2. /\ UNCHANGED <<moved, clock>> /\ ingest' = [ingest EXCEPT ![r] = NoMessage]
        /\ receivedAt' = receivedAt \/ receivedAt' = [receivedAt EXCEPT ![k] = at]
        /\ CheckBalance(k, at) \/ UNCHANGED <<anchor, opening, reported>>
    BY <1>3, <2>1 DEF RecordMessage
  <2>3. receivedAt' \in [Moves -> 0 .. clock]
    BY <1>0, <2>2 DEF BalanceTypeOK
  <2>4. /\ ingest' \in [Ingests -> [move : 0 .. moved, at : 0 .. clock]]
        /\ \A q \in Ingests : ingest'[q] # NoMessage => ingest'[q] = ingest[q]
    <3>1. NoMessage \in [move : 0 .. moved, at : 0 .. clock]
      BY <1>0, BalanceTypes DEF NoMessage
    <3> QED BY <1>0, <2>2, <3>1 DEF BalanceTypeOK
  <2>5. anchor' \in [balance : Int, at : 0 .. clock] /\ opening' \in Int /\ reported' \in Int
    <3>1. CASE UNCHANGED <<anchor, opening, reported>>
      BY <1>0, <3>1 DEF BalanceTypeOK
    <3>2. CASE CheckBalance(k, at)
      <4> DEFINE S == Since(receivedAt', anchor.at)
      <4>1. S \in SUBSET Moves /\ Recorded \cup {k} \in SUBSET Moves /\ 1 .. k \in SUBSET Moves
        BY MovesAreFinite DEF Since, Recorded
      <4>2. PICK b \in Int, s \in Int, t \in Int :
              b = BalanceAfter(k) /\ s = Total(S) /\ t = Total(Recorded \cup {k})
        <5> HIDE DEF S
        <5> QED BY <4>1, MovesAreFinite DEF BalanceAfter
      <4>3. /\ anchor' = [balance |-> b, at |-> at]
            /\ \/ opening' = b - t /\ reported' = reported
               \/ opening' = opening /\ reported' = reported + (b - (anchor.balance + s))
        BY <3>2, <4>2 DEF CheckBalance
      <4> HIDE DEF S
      <4> QED BY <1>0, <4>3, BalanceTypes
    <3> QED BY <2>2, <3>1, <3>2
  <2> QED BY <1>0, <2>2, <2>3, <2>4, <2>5 DEF BalanceShape, BalanceTypeOK
<1>4. ASSUME NEW k \in Moves, ImportRow(k) PROVE BalanceShape'
  <2>1. /\ clock < MaxClock /\ clock' = clock + 1
        /\ receivedAt' = [receivedAt EXCEPT ![k] = clock']
        /\ UNCHANGED <<moved, ingest, anchor, opening, reported>>
    BY <1>4 DEF ImportRow
  <2>2. moved' \in moved .. Len(Movements) /\ clock' \in clock .. MaxClock /\ clock' \in 0 .. clock'
    BY <1>0, <2>1, BalanceTypes
  <2>3. /\ receivedAt \in [Moves -> 0 .. clock']
        /\ ingest' \in [Ingests -> [move : 0 .. moved', at : 0 .. clock']]
    BY <1>0, <2>1, <2>2, RangesGrow
  <2>4. receivedAt' \in [Moves -> 0 .. clock']
    BY <2>1, <2>2, <2>3
  <2>5. BalanceTypeOK'
    BY <1>0, <2>1, <2>2, <2>3, <2>4, TypesGrow
  <2> QED BY <2>1, <2>5 DEF BalanceShape
<1>5. CASE UNCHANGED balanceVars
  BY <1>5 DEF balanceVars, BalanceShape, BalanceTypeOK
<1> QED BY <1>1, <1>2, <1>3, <1>4, <1>5 DEF BalanceNext

LEMMA BalanceTypesHold == SiteSpec => []BalanceShape
<1>1. SiteInit => BalanceShape
  BY BalanceStarts DEF BalanceInv, BalanceShape, SiteInit, BalanceInit
<1>2. BalanceShape /\ [SiteNext]_siteVars => BalanceShape'
  <2> SUFFICES ASSUME BalanceShape, [SiteNext]_siteVars PROVE BalanceShape'
    OBVIOUS
  <2>1. CASE UNCHANGED balanceVars
    BY <2>1 DEF balanceVars, BalanceShape, BalanceTypeOK
  <2> QED
    BY <2>1, BalanceKeepsTypes DEF SiteNext, siteVars, OnlyAccount, OnlyBridge, OnlyMatching, OnlyPage,
       OnlyRequest, OnlySetup, OnlySubmission, OnlyTenancy, OnlyUpdater
<1> QED BY <1>1, <1>2, PTL DEF SiteSpec

-----------------------------------------------------------------------------
(* Types: the bridge and the updater *)

LEMMA BridgeKeepsTypes ==
  ASSUME BridgeTypeOK, BridgeNext
  PROVE  BridgeTypeOK'
<1> DEFINE PollType == [at : {"idle", "checking", "forwarding"}, left : SUBSET Texts]
<1> USE DEF BridgeTypeOK
<1>0. texts \in Nat /\ MaxTexts \in Nat /\ NoPoll \in PollType
  BY BridgeAssumption DEF BridgeAssumption, NoPoll
<1>1. CASE TextArrives \/ PageBreaks \/ SomebodyRepairs \/ ItemsChange
  <2>1. texts' \in 0 .. MaxTexts
    BY <1>0, <1>1 DEF TextArrives, PageBreaks, SomebodyRepairs, ItemsChange
  <2>2. page' \in {"ok"} \cup Faults /\ findable' \in BOOLEAN
        /\ UNCHANGED <<running, health, seen, saved, poll, stored>>
    BY <1>1 DEF TextArrives, PageBreaks, SomebodyRepairs, ItemsChange
  <2> QED BY <2>1, <2>2
<1>2. CASE Start
  BY <1>2 DEF Start
<1>3. CASE End
  BY <1>0, <1>3 DEF End
<1>4. ASSUME NEW q \in Polls, StartPoll(q) \/ FindFault(q) \/ ReadPage(q) \/ SavePoll(q)
      PROVE  BridgeTypeOK'
  <2>1. poll[q] \in PollType
    OBVIOUS
  <2>2. PICK p \in PollType : poll' = [poll EXCEPT ![q] = p]
    <3>1. CASE StartPoll(q)
      <4>1. poll' = [poll EXCEPT ![q] = [poll[q] EXCEPT !.at = "checking"]]
        BY <3>1 DEF StartPoll
      <4> QED BY <2>1, <4>1
    <3>2. CASE FindFault(q) \/ SavePoll(q)
      BY <1>0, <3>2 DEF FindFault, SavePoll
    <3>3. CASE ReadPage(q)
      <4>1. Visible \subseteq Texts
        BY <1>0 DEF Visible, Texts
      <4>2. [at |-> "forwarding", left |-> IF findable THEN Visible \ seen ELSE {}] \in PollType
        BY <4>1
      <4> QED BY <3>3, <4>2 DEF ReadPage
    <3> QED BY <1>4, <3>1, <3>2, <3>3
  <2> HIDE DEF PollType
  <2>3. poll' \in [Polls -> PollType]
    BY <2>2 DEF PollType
  <2>4. /\ page' \in {"ok"} \cup Faults /\ health' \in {"ok", "starting"} \cup Faults
        /\ saved' \subseteq Texts
        /\ UNCHANGED <<texts, findable, running, seen, stored>>
    BY <1>4 DEF StartPoll, FindFault, ReadPage, SavePoll, Faults
  <2> QED BY <2>3, <2>4 DEF PollType
<1>5. ASSUME NEW q \in Polls, NEW taken \in BOOLEAN, NEW answered \in BOOLEAN,
             Forward(q, taken, answered)
      PROVE  BridgeTypeOK'
  <2>1. PICK t \in Texts :
          /\ t = Min(poll[q].left)
          /\ poll' = [poll EXCEPT ![q] = [poll[q] EXCEPT !.left = @ \ {t}]]
          /\ stored' \subseteq stored \cup {t} /\ seen' \subseteq seen \cup {t}
    <3>1. poll[q].left # {} /\ poll[q].left \in SUBSET Texts /\ Texts \subseteq Nat
      BY <1>0, <1>5 DEF Forward, Texts
    <3>2. Min(poll[q].left) \in Texts
      BY <3>1, MinIsIn
    <3>3. /\ poll' = [poll EXCEPT ![q] = [poll[q] EXCEPT !.left = @ \ {Min(poll[q].left)}]]
          /\ stored' \subseteq stored \cup {Min(poll[q].left)}
          /\ seen' \subseteq seen \cup {Min(poll[q].left)}
      BY <1>5 DEF Forward
    <3> QED BY <3>2, <3>3
  <2>2. [poll[q] EXCEPT !.left = @ \ {t}] \in PollType
    OBVIOUS
  <2>3. poll' \in [Polls -> PollType]
    BY <2>1, <2>2
  <2>4. UNCHANGED <<texts, page, findable, running, health, saved>>
    BY <1>5 DEF Forward
  <2> QED BY <2>1, <2>3, <2>4
<1>6. CASE UNCHANGED bridgeVars
  BY <1>6 DEF bridgeVars
<1> QED
  BY <1>1, <1>2, <1>3, <1>4, <1>5, <1>6 DEF BridgeNext, BridgePoll, Beat

LEMMA BridgeTypesHold == SiteSpec => []BridgeTypeOK
<1>1. SiteInit => BridgeTypeOK
  <2> SUFFICES ASSUME BridgeInit PROVE BridgeTypeOK
    BY DEF SiteInit
  <2>1. 0 \in 0 .. MaxTexts
    BY BridgeAssumption DEF BridgeAssumption
  <2>2. poll \in [Polls -> [at : {"idle", "checking", "forwarding"}, left : SUBSET Texts]]
    BY DEF BridgeInit, NoPoll
  <2> QED BY <2>1, <2>2 DEF BridgeInit, BridgeTypeOK
<1>2. BridgeTypeOK /\ [SiteNext]_siteVars => BridgeTypeOK'
  <2> SUFFICES ASSUME BridgeTypeOK, [SiteNext]_siteVars PROVE BridgeTypeOK'
    OBVIOUS
  <2>1. CASE UNCHANGED bridgeVars
    BY <2>1 DEF bridgeVars, BridgeTypeOK
  <2> QED
    BY <2>1, BridgeKeepsTypes DEF SiteNext, siteVars, OnlyAccount, OnlyBalance, OnlyMatching, OnlyPage,
       OnlyRequest, OnlySetup, OnlySubmission, OnlyTenancy, OnlyUpdater
<1> QED BY <1>1, <1>2, PTL DEF SiteSpec

-----------------------------------------------------------------------------

DownloadType(v) == [of : 0 .. v, by : {"screen", "worker", "nobody"}, linked : BOOLEAN]

\* What is at the releases' paths and what is written there.
LEMMA FilesKeepTypes ==
  ASSUME UpdaterTypeOK,
         \/ UNCHANGED <<cache, download>>
         \/ \E versions : Delete(versions)
         \/ \E v \in 1 .. latest, who \in {"screen", "worker"} : Begin(v, who)
         \/ cache' = cache /\ (\E who : Abandon(who))
  PROVE  /\ cache' \in [Versions -> {"none", "partial", "whole"}]
         /\ download' \in [Downloads -> DownloadType(latest)]
<1>0. /\ download \in [Downloads -> DownloadType(latest)]
      /\ cache \in [Versions -> {"none", "partial", "whole"}]
      /\ Empty \in [Versions -> {"none", "partial", "whole"}]
      /\ latest \in Versions /\ MaxVersion \in Nat
  BY UpdaterAssumption DEF UpdaterTypeOK, DownloadType, Empty, UpdaterAssumption
<1>1. CASE UNCHANGED <<cache, download>>
  BY <1>0, <1>1
<1>2. ASSUME NEW versions, Delete(versions)
      PROVE  /\ cache' \in [Versions -> {"none", "partial", "whole"}]
             /\ download' \in [Downloads -> DownloadType(latest)]
  <2>1. cache' \in [Versions -> {"none", "partial", "whole"}]
    BY <1>0, <1>2 DEF Delete
  <2>2. ASSUME NEW x \in Downloads
        PROVE  [download[x] EXCEPT !.linked = @ /\ download[x].of \notin versions] \in DownloadType(latest)
    <3>1. download[x] \in DownloadType(latest)
      BY <1>0
    <3>2. (download[x].linked /\ download[x].of \notin versions) \in BOOLEAN
      OBVIOUS
    <3> QED BY <3>1, <3>2 DEF DownloadType
  <2>3. download' \in [Downloads -> DownloadType(latest)]
    BY <1>2, <2>2 DEF Delete
  <2> QED BY <2>1, <2>3
<1>3. ASSUME NEW v \in 1 .. latest, NEW who \in {"screen", "worker"}, Begin(v, who)
      PROVE  /\ cache' \in [Versions -> {"none", "partial", "whole"}]
             /\ download' \in [Downloads -> DownloadType(latest)]
  <2>1. PICK x \in Downloads :
          /\ cache' = [Empty EXCEPT ![v] = "partial"]
          /\ download' = [y \in Downloads |->
                            IF y = x THEN [of |-> v, by |-> who, linked |-> TRUE]
                            ELSE [download[y] EXCEPT !.linked = FALSE]]
    BY <1>3 DEF Begin
  <2>2. cache' \in [Versions -> {"none", "partial", "whole"}]
    BY <1>0, <2>1
  <2>3. [of |-> v, by |-> who, linked |-> TRUE] \in DownloadType(latest)
    BY <1>0 DEF DownloadType, Versions
  <2>4. \A y \in Downloads : [download[y] EXCEPT !.linked = FALSE] \in DownloadType(latest)
    BY <1>0 DEF DownloadType
  <2>5. download' \in [Downloads -> DownloadType(latest)]
    BY <2>1, <2>3, <2>4
  <2> QED BY <2>2, <2>5
<1>4. ASSUME NEW who, cache' = cache, Abandon(who)
      PROVE  /\ cache' \in [Versions -> {"none", "partial", "whole"}]
             /\ download' \in [Downloads -> DownloadType(latest)]
  <2>1. \A x \in Downloads : [download[x] EXCEPT !.by = "nobody"] \in DownloadType(latest)
    BY <1>0 DEF DownloadType
  <2>2. download' \in [Downloads -> DownloadType(latest)]
    BY <1>0, <1>4, <2>1 DEF Abandon
  <2> QED BY <1>0, <1>4, <2>2
<1> QED BY <1>1, <1>2, <1>3, <1>4

LEMMA UpdaterKeepsTypes ==
  ASSUME UpdaterTypeOK, UpdaterNext
  PROVE  UpdaterTypeOK'
<1> USE DEF UpdaterTypeOK, versionVars, shownVars, Versions
<1>0. /\ download \in [Downloads -> DownloadType(latest)]
      /\ latest \in Nat /\ installed \in Nat /\ MaxVersion \in Nat
      /\ NoDownload \in DownloadType(latest)
      /\ Empty \in [Versions -> {"none", "partial", "whole"}]
  BY UpdaterAssumption DEF DownloadType, Empty, UpdaterAssumption, NoDownload
<1>1. CASE Publish
  <2>1. latest' \in Versions /\ installed <= latest' /\ 0 .. latest \subseteq 0 .. latest'
    BY <1>0, <1>1 DEF Publish
  <2>2. UNCHANGED <<installed, auto, due, cache, download, shownVars>>
    BY <1>1 DEF Publish
  <2>3. download' \in [Downloads -> DownloadType(latest')]
    BY <1>0, <2>1, <2>2 DEF DownloadType
  <2> QED BY <2>1, <2>2, <2>3 DEF DownloadType
<1>2. CASE IntervalPasses \/ AllowDownloads
  BY <1>2 DEF IntervalPasses, AllowDownloads
<1>3. ASSUME NEW x \in Downloads, DownloadEnds(x) PROVE UpdaterTypeOK'
  <2>1. download[x] \in DownloadType(latest) /\ download[x].of # 0 /\ download[x].of \in 0 .. latest
    BY <1>0, <1>3 DEF DownloadEnds, EndDownload, FailDownload, RefuseDownload, DownloadType
  <2>2. UNCHANGED <<versionVars, auto, due, screen, found>> /\ ready' \in 0 .. latest
    BY <1>0, <1>3, <2>1 DEF DownloadEnds, EndDownload, FailDownload, RefuseDownload
  <2>3. cache' \in [Versions -> {"none", "partial", "whole"}]
    BY <1>3 DEF DownloadEnds, EndDownload, FailDownload, RefuseDownload
  <2>4. download' \in [Downloads -> DownloadType(latest)]
    <3>1. CASE EndDownload(x) \/ RefuseDownload(x)
      BY <1>0, <3>1 DEF EndDownload, RefuseDownload
    <3>2. CASE FailDownload(x)
      <4>1. ASSUME NEW y \in Downloads
            PROVE  [download[y] EXCEPT !.linked = @ /\ download[y].of # download[x].of] \in DownloadType(latest)
        <5>1. download[y] \in DownloadType(latest)
          BY <1>0
        <5>2. (download[y].linked /\ download[y].of # download[x].of) \in BOOLEAN
          OBVIOUS
        <5> QED BY <5>1, <5>2 DEF DownloadType
      <4> QED BY <1>0, <3>2, <4>1 DEF FailDownload
    <3> QED BY <1>3, <3>1, <3>2 DEF DownloadEnds
  <2> QED BY <2>2, <2>3, <2>4 DEF DownloadType
<1>4. CASE WorkerChecks \/ WorkerDownloads \/ WorkerStops \/ DownloadOnScreen \/ DeleteDownload \/ Close
           \/ Launch \/ CheckOnScreen
  <2>1. UNCHANGED versionVars /\ auto' \in BOOLEAN /\ due' \in BOOLEAN /\ screen' \in BOOLEAN
    BY <1>4 DEF WorkerChecks, WorkerDownloads, WorkerStops, DownloadOnScreen, DeleteDownload, Close,
       Launch, CheckOnScreen
  <2>2. found' \in 0 .. latest /\ ready' \in 0 .. latest
    <3>1. 0 \in 0 .. latest /\ latest \in 0 .. latest
      BY <1>0
    <3>2. CASE CheckOnScreen \/ Launch
      BY <3>1, <3>2 DEF CheckOnScreen, Launch
    <3>3. CASE WorkerChecks \/ WorkerDownloads \/ WorkerStops \/ DownloadOnScreen \/ DeleteDownload \/ Close
      BY <3>1, <3>3 DEF WorkerChecks, WorkerDownloads, WorkerStops, DownloadOnScreen, DeleteDownload, Close
    <3> QED BY <1>4, <3>2, <3>3
  <2>3. \/ UNCHANGED <<cache, download>>
        \/ \E versions : Delete(versions)
        \/ \E v \in 1 .. latest, who \in {"screen", "worker"} : Begin(v, who)
        \/ cache' = cache /\ (\E who : Abandon(who))
    <3>1. CASE WorkerChecks \/ DeleteDownload \/ Launch
      BY <3>1 DEF WorkerChecks, DeleteDownload, Launch
    <3>2. CASE WorkerDownloads \/ DownloadOnScreen \/ CheckOnScreen
      <4>1. latest \in 1 .. latest /\ (found # 0 => found \in 1 .. latest)
        BY <1>0
      <4> QED BY <3>2, <4>1 DEF WorkerDownloads, DownloadOnScreen, CheckOnScreen
    <3>3. CASE WorkerStops \/ Close
      BY <3>3 DEF WorkerStops, Close
    <3> QED BY <1>4, <3>1, <3>2, <3>3
  <2>4. /\ cache' \in [Versions -> {"none", "partial", "whole"}]
        /\ download' \in [Downloads -> DownloadType(latest)]
    BY <2>3, FilesKeepTypes
  <2> QED BY <2>1, <2>2, <2>4 DEF DownloadType
<1>5. CASE Install \/ ProcessDies
  <2>1. /\ installed' \in Versions /\ latest' = latest /\ installed' <= latest
        /\ found' = 0 /\ ready' = 0 /\ UNCHANGED <<auto, due>>
        /\ cache' \in [Versions -> {"none", "partial", "whole"}]
    BY <1>0, <1>5 DEF Install, ProcessDies
  <2>4. screen' \in BOOLEAN
    BY <1>5, Zenon DEF Install, ProcessDies
  <2>2. download' \in [Downloads -> DownloadType(latest)]
    BY <1>0, <1>5 DEF Install, ProcessDies
  <2>3. found' \in 0 .. latest' /\ ready' \in 0 .. latest'
    BY <1>0, <2>1
  <2> QED BY <2>1, <2>2, <2>3, <2>4 DEF DownloadType
<1> QED BY <1>1, <1>2, <1>3, <1>4, <1>5 DEF UpdaterNext

LEMMA UpdaterHolds == SiteSpec => []UpdaterTypeOK
<1>1. SiteInit => UpdaterTypeOK
  <2> SUFFICES ASSUME UpdaterInit PROVE UpdaterTypeOK
    BY DEF SiteInit
  <2>1. installed = 1 /\ latest = 1 /\ 1 \in Versions /\ found = 0 /\ ready = 0
    BY UpdaterAssumption DEF UpdaterInit, UpdaterAssumption, Versions
  <2>4. auto \in BOOLEAN /\ due \in BOOLEAN /\ screen \in BOOLEAN
    BY Zenon DEF UpdaterInit
  <2>2. cache \in [Versions -> {"none", "partial", "whole"}]
    BY DEF UpdaterInit, Empty
  <2>3. download \in [Downloads -> [of : 0 .. 1, by : {"screen", "worker", "nobody"}, linked : BOOLEAN]]
    BY DEF UpdaterInit, NoDownload
  <2> QED BY <2>1, <2>2, <2>3, <2>4 DEF UpdaterTypeOK
<1>2. UpdaterTypeOK /\ [SiteNext]_siteVars => UpdaterTypeOK'
  <2> SUFFICES ASSUME UpdaterTypeOK, [SiteNext]_siteVars PROVE UpdaterTypeOK'
    OBVIOUS
  <2>1. CASE UNCHANGED updaterVars
    BY <2>1 DEF updaterVars, versionVars, shownVars, UpdaterTypeOK
  <2> QED
    BY <2>1, UpdaterKeepsTypes DEF SiteNext, siteVars, OnlyAccount, OnlyBalance, OnlyBridge,
       OnlyMatching, OnlyPage, OnlyRequest, OnlySetup, OnlySubmission, OnlyTenancy
<1> QED BY <1>1, <1>2, PTL DEF SiteSpec

-----------------------------------------------------------------------------
(* Types: orders *)

OrderFields == {"status", "to", "got", "by", "answered", "code", "clicked", "expires"}

LEMMA WriteKeepsTypes ==
  ASSUME MatchingTypeOK, NEW o \in Orders, NEW changes, Write(o, changes),
         "status" \in DOMAIN changes =>
           changes["status"] \in {"none", "open", "partial", "settled", "expired", "cancelled"},
         "to" \in DOMAIN changes => changes["to"] \in Receivers,
         "got" \in DOMAIN changes => changes["got"] \in Nat,
         "by" \in DOMAIN changes => changes["by"] \in Payers \cup {Nobody},
         "answered" \in DOMAIN changes => changes["answered"] \in BOOLEAN,
         "code" \in DOMAIN changes => changes["code"] \in BOOLEAN,
         "clicked" \in DOMAIN changes => changes["clicked"] \in Nat,
         "expires" \in DOMAIN changes => changes["expires"] \in Nat
  PROVE  order' \in [Orders -> OrderType]
<1> DEFINE w == [field \in DOMAIN order[o] |->
                   IF field \in DOMAIN changes THEN changes[field] ELSE order[o][field]]
<1>1. order[o] \in OrderType
  BY DEF MatchingTypeOK
<1>2. DOMAIN order[o] = OrderFields
  BY <1>1 DEF OrderType, OrderFields
<1>3. w = [field \in OrderFields |-> IF field \in DOMAIN changes THEN changes[field] ELSE order[o][field]]
  BY <1>2
<1>4. w \in OrderType
  BY <1>1, <1>3 DEF OrderType, OrderFields
<1>5. order' = [order EXCEPT ![o] = w]
  BY DEF Write
<1> HIDE DEF w
<1> QED BY <1>4, <1>5 DEF MatchingTypeOK

LEMMA MatchingKeepsTypes ==
  ASSUME MatchingTypeOK, MatchingNext
  PROVE  MatchingTypeOK'
<1>0. time + Lifetime \in Nat /\ time \in Nat /\ time + 1 \in Nat
  BY MatchingAssumption DEF MatchingAssumption, MatchingTypeOK
<1>1. ASSUME NEW o \in Orders, NEW n \in Receivers, NEW m \in Payers \cup {Nobody}, OpenOrder(o, n, m)
      PROVE  MatchingTypeOK'
  BY <1>0, <1>1, WriteKeepsTypes DEF OpenOrder, MatchingTypeOK
<1>2. ASSUME NEW o \in Orders, NEW m \in Payers, NamePayer(o, m) PROVE MatchingTypeOK'
  BY <1>0, <1>2, WriteKeepsTypes DEF NamePayer, MatchingTypeOK
<1>3. ASSUME NEW o \in Orders, NEW n \in Receivers, Reroute(o, n) PROVE MatchingTypeOK'
  BY <1>0, <1>3, WriteKeepsTypes DEF Reroute, MatchingTypeOK
<1>4. ASSUME NEW o \in Orders, Extend(o) PROVE MatchingTypeOK'
  <2>1. order[o].status \in {"none", "open", "partial", "settled", "expired", "cancelled"}
    BY DEF MatchingTypeOK, OrderType
  <2> QED BY <1>0, <1>4, <2>1, WriteKeepsTypes DEF Extend, MatchingTypeOK
<1>5. ASSUME NEW o \in Orders, Expire(o) \/ Cancel(o) PROVE MatchingTypeOK'
  BY <1>0, <1>5, WriteKeepsTypes DEF Expire, Cancel, MatchingTypeOK
<1>6. ASSUME NEW m \in Messages, NEW o \in Orders, Match(m, o) PROVE MatchingTypeOK'
  <2>1. order[o].got \in Nat
    BY DEF MatchingTypeOK, OrderType
  <2>2. m.sum \in Nat
    BY MatchingAssumption DEF MatchingAssumption, Messages
  <2>3. order[o].got + m.sum \in Nat
    BY <2>1, <2>2
  <2> QED BY <1>0, <1>6, <2>3, WriteKeepsTypes DEF Match, MatchingTypeOK
<1>7. CASE Pass
  BY <1>0, <1>7 DEF Pass, MatchingTypeOK
<1> QED BY <1>1, <1>2, <1>3, <1>4, <1>5, <1>6, <1>7 DEF MatchingNext

LEMMA MatchingHolds == SiteSpec => []MatchingTypeOK
<1>1. SiteInit => MatchingTypeOK
  <2> SUFFICES ASSUME OrderInit PROVE MatchingTypeOK
    BY DEF SiteInit
  <2>1. (CHOOSE n \in Receivers : TRUE) \in Receivers
    BY MatchingAssumption DEF MatchingAssumption
  <2>2. NoOrder \in OrderType
    BY <2>1 DEF NoOrder, OrderType
  <2> QED BY <2>2 DEF OrderInit, MatchingTypeOK
<1>2. MatchingTypeOK /\ [SiteNext]_siteVars => MatchingTypeOK'
  <2> SUFFICES ASSUME MatchingTypeOK, [SiteNext]_siteVars PROVE MatchingTypeOK'
    OBVIOUS
  <2>1. CASE UNCHANGED orderVars
    BY <2>1 DEF orderVars, MatchingTypeOK
  <2> QED
    BY <2>1, MatchingKeepsTypes DEF SiteNext, siteVars, OnlyAccount, OnlyBalance, OnlyBridge,
       OnlyPage, OnlyRequest, OnlySetup, OnlySubmission, OnlyTenancy, OnlyUpdater
<1> QED BY <1>1, <1>2, PTL DEF SiteSpec

-----------------------------------------------------------------------------
(* Types: submissions and refunds *)

\* A form about to record an attempt says what it found.
SubmissionShape ==
  /\ SubmissionTypeOK
  /\ \A b \in Buyers : form[b].at = "recording" => form[b].row \in {"miss", "escalated", "other"}

LEMMA TurnKeepsShape ==
  ASSUME SubmissionShape, NEW b \in Buyers, NEW at \in Ats, NEW row \in Rows, Turns(b, at, row),
         at = "recording" => row \in {"miss", "escalated", "other"},
         paid' \in {"open", "received", "closed"}, payment' \in Payments, recent' = recent,
         hour' \in Nat, misses' \in 0 .. MaxMisses, unheard' \in 0 .. misses',
         refunds' \in [Reasons -> Nat]
  PROVE  SubmissionShape'
<1>1. form' = [form EXCEPT ![b] = [at |-> at, row |-> row]]
  BY DEF Turns
<1>2. [at |-> at, row |-> row] \in [at : Ats, row : Rows]
  OBVIOUS
<1>3. form \in [Buyers -> [at : Ats, row : Rows]]
  BY DEF SubmissionShape, SubmissionTypeOK, Ats
<1>4. form' \in [Buyers -> [at : Ats, row : Rows]]
  BY <1>1, <1>2, <1>3
<1>5. \A c \in Buyers : form'[c].at = "recording" => form'[c].row \in {"miss", "escalated", "other"}
  BY <1>1, <1>3 DEF SubmissionShape
<1>6. recent' \in BOOLEAN
  BY Zenon DEF SubmissionShape, SubmissionTypeOK
<1> QED BY <1>4, <1>5, <1>6 DEF SubmissionShape, SubmissionTypeOK, Ats

LEMMA SubmissionKeepsTypes ==
  ASSUME SubmissionShape, SubmissionNext
  PROVE  SubmissionShape'
<1> DEFINE rest == /\ paid' \in {"open", "received", "closed"} /\ payment' \in Payments
                   /\ recent' = recent /\ hour' \in Nat /\ misses' \in 0 .. MaxMisses
                   /\ unheard' \in 0 .. misses' /\ refunds' \in [Reasons -> Nat]
<1>0. /\ paid \in {"open", "received", "closed"} /\ payment \in Payments /\ recent \in BOOLEAN
      /\ hour \in Nat /\ misses \in 0 .. MaxMisses /\ unheard \in 0 .. misses
      /\ refunds \in [Reasons -> Nat] /\ form \in [Buyers -> [at : Ats, row : Rows]]
      /\ MaxMisses \in Nat
  BY SubmissionAssumption DEF SubmissionAssumption, SubmissionShape, SubmissionTypeOK, Ats
<1>1. CASE PaymentMoves \/ IntentTurns
  <2>1. payment' \in Payments /\ paid' \in {"open", "received", "closed"}
    BY <1>0, <1>1 DEF PaymentMoves, IntentTurns, SpentHere, Payments
  <2>2. UNCHANGED <<recent, hour, misses, unheard, refunds, form>>
    BY <1>1 DEF PaymentMoves, IntentTurns
  <2> QED BY <2>1, <2>2 DEF SubmissionShape, SubmissionTypeOK
<1>2. CASE IntentAges
  <2>1. recent' = FALSE
    BY <1>2 DEF IntentAges
  <2>2. recent' \in BOOLEAN
    BY <2>1, Zenon
  <2> QED BY <1>2, <2>2 DEF IntentAges, SubmissionShape, SubmissionTypeOK
<1>3. CASE RowAges
  BY <1>0, <1>3 DEF RowAges, SubmissionShape, SubmissionTypeOK
<1>4. ASSUME NEW b \in Buyers, Submit(b) \/ FindNothing(b) \/ FindPayment(b) \/ CountMisses(b) \/ RequestDies(b)
      PROVE  SubmissionShape'
  <2>1. rest
    BY <1>0, <1>4 DEF Submit, FindNothing, FindPayment, CountMisses, RequestDies
  <2>2. PICK at \in Ats, row \in Rows :
          Turns(b, at, row) /\ (at = "recording" => row \in {"miss", "escalated", "other"})
    BY <1>4 DEF Submit, FindNothing, FindPayment, CountMisses, RequestDies, Ats, Rows
  <2> QED BY <2>1, <2>2, TurnKeepsShape
<1>5. ASSUME NEW b \in Buyers, Apply(b) PROVE SubmissionShape'
  <2>1. rest
    BY <1>0, <1>5 DEF Apply, SpentHere, Payments
  <2>2. PICK at \in Ats, row \in Rows :
          Turns(b, at, row) /\ (at = "recording" => row \in {"miss", "escalated", "other"})
    BY <1>5 DEF Apply, Ats, Rows
  <2> QED BY <2>1, <2>2, TurnKeepsShape
<1>6. ASSUME NEW b \in Buyers, Record(b) PROVE SubmissionShape'
  <2>1. form[b].row \in {"miss", "escalated", "other"}
    BY <1>6 DEF Record, SubmissionShape
  <2>2. /\ UNCHANGED <<paid, recent, payment, refunds>> /\ hour' = hour + 1
        /\ Turns(b, "idle", "none")
    BY <1>6 DEF Record
  <2>3. misses' \in 0 .. MaxMisses /\ unheard' \in 0 .. misses'
    <3>1. CASE form[b].row = "other"
      BY <1>0, <1>6, <3>1 DEF Record
    <3>2. CASE form[b].row \in {"miss", "escalated"}
      BY <1>0, <1>6, <3>2 DEF Record
    <3> QED BY <2>1, <3>1, <3>2
  <2>4. rest
    BY <1>0, <2>2, <2>3
  <2> QED BY <2>2, <2>4, TurnKeepsShape DEF Ats, Rows
<1>7. ASSUME NEW b \in Buyers, RecordRefund(b) PROVE SubmissionShape'
  <2>1. refunds' = [refunds EXCEPT ![form[b].row] = @ + 1] /\ Turns(b, "idle", "none")
        /\ UNCHANGED <<paid, recent, payment, hour, misses, unheard>>
    BY <1>7 DEF RecordRefund
  <2>2. refunds' \in [Reasons -> Nat]
    <3> DEFINE r == form[b].row
    <3>1. refunds' = [refunds EXCEPT ![r] = refunds[r] + 1]
      BY <2>1
    <3> HIDE DEF r
    <3>2. CASE r \in Reasons
      BY <1>0, <3>1, <3>2
    <3>3. CASE r \notin Reasons
      BY <1>0, <3>1, <3>3
    <3> QED BY <3>2, <3>3
  <2>3. rest
    BY <1>0, <2>1, <2>2
  <2> QED BY <2>1, <2>3, TurnKeepsShape DEF Ats, Rows
<1>8. ASSUME NEW b \in Buyers, NEW reason \in Reasons, AskForRefund(b, reason) PROVE SubmissionShape'
  <2>1. rest /\ Turns(b, "asking", reason)
    BY <1>0, <1>8 DEF AskForRefund
  <2> QED BY <2>1, TurnKeepsShape DEF Ats, Rows
<1> QED BY <1>1, <1>2, <1>3, <1>4, <1>5, <1>6, <1>7, <1>8 DEF SubmissionNext

LEMMA SubmissionTypesHold == SiteSpec => []SubmissionTypeOK
<1>1. SiteInit => SubmissionShape
  <2> SUFFICES ASSUME SubmissionInit PROVE SubmissionShape
    BY DEF SiteInit
  <2>1. NoForm \in [at : {"idle", "looking", "applying", "counting", "recording", "asking"}, row : Rows]
    BY DEF NoForm, Rows
  <2>2. NoForm.at # "recording"
    BY DEF NoForm
  <2> QED
    BY <2>1, <2>2, SubmissionAssumption
    DEF SubmissionAssumption, SubmissionInit, SubmissionShape, SubmissionTypeOK, Payments
<1>2. SubmissionShape /\ [SiteNext]_siteVars => SubmissionShape'
  <2> SUFFICES ASSUME SubmissionShape, [SiteNext]_siteVars PROVE SubmissionShape'
    OBVIOUS
  <2>1. CASE UNCHANGED submissionVars
    BY <2>1 DEF submissionVars, SubmissionShape, SubmissionTypeOK
  <2> QED
    BY <2>1, SubmissionKeepsTypes DEF SiteNext, siteVars, OnlyAccount, OnlyBalance, OnlyBridge,
       OnlyMatching, OnlyPage, OnlyRequest, OnlySetup, OnlyTenancy, OnlyUpdater
<1>3. SubmissionShape => SubmissionTypeOK
  BY DEF SubmissionShape
<1> QED BY <1>1, <1>2, <1>3, PTL DEF SiteSpec

-----------------------------------------------------------------------------
(* Types: requests and tenancy *)

\* The row outlives its window only while there are windows left, and whoever
\* tries a number has one left.
RequestTypes ==
  /\ RequestTypeOK
  /\ keyRow # NoKey /\ ~keyRow.fresh => window < MaxWindows
  /\ \A c \in Calls : call[c].at = "trying" => call[c].left > 0

CallType == [at : {"quiet", "looking", "routing", "trying", "conflicted"},
             left : 0 .. MaxNumbers, answer : Codes \cup {NoCode}]

LEMMA BodiesAreSent == ASSUME NEW c \in Calls PROVE BodyOf[c] \in Range(BodyOf)
  BY RequestAssumption DEF RequestAssumption, Range

\* One call moves and neither the key's row nor the intents change.
LEMMA CallKeepsTypes ==
  ASSUME RequestTypes, NEW c \in Calls, NEW r \in CallType, call' = [call EXCEPT ![c] = r],
         r.at = "trying" => r.left > 0, UNCHANGED <<intents, keyRow, window, offered>>
  PROVE  RequestTypes'
<1>1. call' \in [Calls -> CallType]
  BY DEF RequestTypes, RequestTypeOK, CallType
<1>2. \A b \in Calls : call'[b].at = "trying" => call'[b].left > 0
  BY DEF RequestTypes, RequestTypeOK
<1>3. Drawn' = Drawn
  BY DEF Drawn
<1> QED BY <1>1, <1>2, <1>3 DEF RequestTypes, RequestTypeOK, CallType

LEMMA RequestKeepsTypes ==
  ASSUME RequestTypes, RequestNext
  PROVE  RequestTypes'
<1>0. /\ MaxNumbers \in Nat /\ MaxWindows \in Nat /\ offered \in 0 .. MaxNumbers
      /\ window \in 0 .. MaxWindows /\ call \in [Calls -> CallType]
      /\ keyRow = NoKey \/ keyRow \in [code : Drawn, body : Range(BodyOf), fresh : BOOLEAN]
      /\ Drawn \subseteq Codes
      /\ intents \subseteq [code : Codes, body : Range(BodyOf), window : 0 .. MaxWindows]
  BY RequestAssumption
  DEF RequestAssumption, RequestTypes, RequestTypeOK, CallType, Drawn
<1>1. ASSUME NEW c \in Calls, NEW code \in Codes \cup {NoCode}, Answer(c, code),
             UNCHANGED <<intents, keyRow, window, offered>>
      PROVE  RequestTypes'
  <2>1. [at |-> "quiet", left |-> 0, answer |-> code] \in CallType
    BY <1>0 DEF CallType
  <2> QED BY <1>1, <2>1, CallKeepsTypes DEF Answer
<1>2. ASSUME NEW c \in Calls, NEW from,
             NEW to \in {"routing", "trying"}, Goes(c, from, to), to = "trying" => call[c].left > 0,
             UNCHANGED <<intents, keyRow, window, offered>>
      PROVE  RequestTypes'
  <2> DEFINE r == [call[c] EXCEPT !.at = to]
  <2>1. r \in CallType /\ r.at = to /\ r.left = call[c].left
    BY <1>0 DEF CallType
  <2>2. call' = [call EXCEPT ![c] = r]
    BY <1>2 DEF Goes
  <2> HIDE DEF r
  <2> QED BY <1>2, <2>1, <2>2, CallKeepsTypes
<1>3. ASSUME NEW c \in Calls, Post(c) PROVE RequestTypes'
  <2> DEFINE r == [Quiet EXCEPT !.at = "looking"]
  <2>1. r \in CallType /\ r.at = "looking"
    BY <1>0 DEF Quiet, CallType
  <2>2. call' = [call EXCEPT ![c] = r] /\ UNCHANGED <<intents, keyRow, window, offered>>
    BY <1>3 DEF Post
  <2> HIDE DEF r
  <2> QED BY <2>1, <2>2, CallKeepsTypes
<1>4. ASSUME NEW c \in Calls, Replay(c) PROVE RequestTypes'
  <2> DEFINE told == IF keyRow.body = BodyOf[c] THEN keyRow.code ELSE NoCode
  <2>1. keyRow # NoKey /\ Answer(c, told) /\ UNCHANGED <<intents, keyRow, window, offered>>
    BY <1>4 DEF Replay
  <2>2. told \in Codes \cup {NoCode}
    BY <1>0, <2>1
  <2> HIDE DEF told
  <2> QED BY <1>1, <2>1, <2>2
<1>5. ASSUME NEW c \in Calls, NothingToReplay(c) PROVE RequestTypes'
  BY <1>1, <1>2, <1>5 DEF NothingToReplay
<1>6. ASSUME NEW c \in Calls, ChooseNumbers(c) PROVE RequestTypes'
  <2>1. CASE offered = 0
    BY <1>1, <1>6, <2>1 DEF ChooseNumbers
  <2>2. CASE offered # 0
    <3> DEFINE r == [at |-> "trying", left |-> offered, answer |-> NoCode]
    <3>1. r \in CallType /\ r.left > 0
      BY <1>0, <2>2 DEF CallType
    <3>2. call' = [call EXCEPT ![c] = r] /\ UNCHANGED <<intents, keyRow, window, offered>>
      BY <1>6, <2>2 DEF ChooseNumbers
    <3> HIDE DEF r
    <3> QED BY <3>1, <3>2, CallKeepsTypes
  <2> QED BY <2>1, <2>2
<1>7. ASSUME NEW c \in Calls, NEW code \in Codes, CreateIntent(c, code) PROVE RequestTypes'
  <2> DEFINE i == [code |-> code, body |-> BodyOf[c], window |-> window]
             k == [code |-> code, body |-> BodyOf[c], fresh |-> TRUE]
             r == [at |-> "quiet", left |-> 0, answer |-> code]
  <2>1. /\ intents' = intents \cup {i} /\ keyRow' = k
        /\ call' = [call EXCEPT ![c] = r] /\ UNCHANGED <<window, offered>>
    BY <1>7 DEF CreateIntent, Answer
  <2>2. i \in [code : Codes, body : Range(BodyOf), window : 0 .. MaxWindows] /\ i.code = code
    BY <1>0, BodiesAreSent
  <2>3. r \in CallType /\ r.at # "trying"
    BY <1>0 DEF CallType
  <2>4. code \in Drawn'
    <3> HIDE DEF i, k, r
    <3> QED BY <2>1, <2>2 DEF Drawn
  <2>5. k \in [code : Drawn', body : Range(BodyOf), fresh : BOOLEAN]
    BY <2>4, BodiesAreSent
  <2>6. k.fresh = TRUE
    OBVIOUS
  <2> HIDE DEF i, k, r
  <2>7. call' \in [Calls -> CallType] /\ \A b \in Calls : call'[b].at = "trying" => call'[b].left > 0
    BY <1>0, <2>1, <2>3 DEF RequestTypes
  <2>8. keyRow' \in [code : Drawn', body : Range(BodyOf), fresh : BOOLEAN] /\ keyRow'.fresh
    BY <2>1, <2>5, <2>6
  <2>9. intents' \subseteq [code : Codes, body : Range(BodyOf), window : 0 .. MaxWindows]
        /\ window' \in 0 .. MaxWindows /\ offered' \in 0 .. MaxNumbers
    BY <1>0, <2>1, <2>2
  <2> QED BY <2>7, <2>8, <2>9 DEF RequestTypes, RequestTypeOK, CallType
<1>8. ASSUME NEW c \in Calls, KeyConflicts(c) PROVE RequestTypes'
  <2> DEFINE r == [call[c] EXCEPT !.at = "conflicted", !.left = @ - 1]
  <2>1. call[c] \in CallType /\ call[c].left > 0
    BY <1>0, <1>8 DEF KeyConflicts, RequestTypes
  <2>2. r \in CallType /\ r.at = "conflicted"
    <3>1. call[c].left - 1 \in 0 .. MaxNumbers
      BY <1>0, <2>1 DEF CallType
    <3> QED BY <2>1, <3>1 DEF CallType
  <2>3. call' = [call EXCEPT ![c] = r] /\ UNCHANGED <<intents, keyRow, window, offered>>
    BY <1>8 DEF KeyConflicts
  <2> HIDE DEF r
  <2> QED BY <2>2, <2>3, CallKeepsTypes
<1>9. ASSUME NEW c \in Calls, CodeConflicts(c) PROVE RequestTypes'
  BY <1>1, <1>9 DEF CodeConflicts
<1>10. CASE KeyExpires
  <2>1. /\ keyRow.fresh /\ window < MaxWindows
        /\ keyRow' = [keyRow EXCEPT !.fresh = FALSE]
        /\ UNCHANGED <<intents, window, offered, call>>
    BY <1>10 DEF KeyExpires
  <2>2. keyRow \in [code : Drawn, body : Range(BodyOf), fresh : BOOLEAN]
    BY <1>0, <2>1 DEF NoKey
  <2>3. keyRow' \in [code : Drawn, body : Range(BodyOf), fresh : BOOLEAN]
    BY <2>1, <2>2
  <2>4. Drawn' = Drawn
    BY <2>1 DEF Drawn
  <2> QED BY <2>1, <2>3, <2>4 DEF RequestTypes, RequestTypeOK
<1>11. CASE PruneKey
  <2>1. keyRow' = NoKey /\ window < MaxWindows /\ window' = window + 1
        /\ UNCHANGED <<intents, offered, call>>
    BY <1>11 DEF PruneKey, RequestTypes
  <2>2. window' \in 0 .. MaxWindows
    BY <1>0, <2>1
  <2> QED BY <2>1, <2>2 DEF RequestTypes, RequestTypeOK
<1>12. CASE NumbersChange
  <2>1. Drawn' = Drawn
    BY <1>12 DEF NumbersChange, Drawn
  <2> QED BY <1>12, <2>1 DEF NumbersChange, RequestTypes, RequestTypeOK
<1> QED
  BY <1>3, <1>4, <1>5, <1>6, <1>7, <1>8, <1>9, <1>10, <1>11, <1>12 DEF RequestNext, Serve

LEMMA RequestTypesHold == SiteSpec => []RequestTypeOK
<1>1. SiteInit => RequestTypes
  <2> SUFFICES ASSUME RequestInit PROVE RequestTypes
    BY DEF SiteInit
  <2>1. Quiet \in [at : {"quiet", "looking", "routing", "trying", "conflicted"},
                   left : 0 .. MaxNumbers, answer : Codes \cup {NoCode}] /\ Quiet.at = "quiet"
    BY RequestAssumption DEF Quiet, RequestAssumption
  <2> QED
    BY <2>1, RequestAssumption DEF RequestInit, RequestTypes, RequestTypeOK, RequestAssumption
<1>2. RequestTypes /\ [SiteNext]_siteVars => RequestTypes'
  <2> SUFFICES ASSUME RequestTypes, [SiteNext]_siteVars PROVE RequestTypes'
    OBVIOUS
  <2>1. CASE UNCHANGED requestVars
    BY <2>1 DEF requestVars, RequestTypes, RequestTypeOK, Drawn
  <2> QED
    BY <2>1, RequestKeepsTypes DEF SiteNext, siteVars, OnlyAccount, OnlyBalance, OnlyBridge,
       OnlyMatching, OnlyPage, OnlySetup, OnlySubmission, OnlyTenancy, OnlyUpdater
<1>3. RequestTypes => RequestTypeOK
  BY DEF RequestTypes
<1> QED BY <1>1, <1>2, <1>3, PTL DEF SiteSpec

-----------------------------------------------------------------------------
LEMMA TenancyTypesHold == SiteSpec => []TenancyTypeOK
<1> DEFINE Own == owners \subseteq Visitors
<1>1. SiteInit => Own
  BY DEF SiteInit, TenancyInit
<1>2. Own /\ [SiteNext]_siteVars => Own'
  <2> SUFFICES ASSUME Own, [SiteNext]_siteVars PROVE Own'
    OBVIOUS
  <2>1. CASE UNCHANGED tenancyVars
    BY <2>1 DEF tenancyVars
  <2>2. CASE OnlyTenancy /\ TenancyNext
    BY <2>2 DEF TenancyNext, Register, ChooseSlug, InsertShop, SlugCollides, Arrive, FindShop,
       InsertDefault, Reread, Join, VisitDies
  <2> QED
    BY <2>1, <2>2 DEF SiteNext, siteVars, OnlyAccount, OnlyBalance, OnlyBridge, OnlyMatching,
       OnlyPage, OnlyRequest, OnlySetup, OnlySubmission, OnlyUpdater
<1>3. TenancyInv /\ Own => TenancyTypeOK
  BY DEF TenancyInv, TenancyTypeOK
<1> QED BY <1>1, <1>2, <1>3, TenancyHolds, PTL DEF SiteSpec

-----------------------------------------------------------------------------
(* Types: setup *)

Views == [connected : SUBSET Handsets, waiting : SUBSET Handsets,
          wallet : {"none", "off", "on"}, made : SUBSET {"app", "key", "endpoint"}]

Secrets == {"none", "live code", "expired code", "api key", "signing secret"} \cup Handsets

LEMMA WizardIs ==
  /\ WizardType = [at : {"away", "open", "broken"}, pinned : BOOLEAN, sees : Views, secret : Secrets]
  /\ Away \in WizardType
<1>1. Nothing \in Views
  BY DEF Nothing, Views
<1> QED BY <1>1 DEF WizardType, Views, Secrets, Away

\* What the page becomes in a step that only touches the page.
LEMMA WizardTurns ==
  ASSUME NEW w \in WizardType
  PROVE  /\ \A at \in {"away", "open", "broken"} : [w EXCEPT !.at = at] \in WizardType
         /\ \A secret \in Secrets : [w EXCEPT !.secret = secret] \in WizardType
         /\ \A pinned \in BOOLEAN : [w EXCEPT !.pinned = pinned] \in WizardType
         /\ Stay(w) \in WizardType
         /\ \A view \in Views : Shows(w, view) \in WizardType
<1>1. w \in [at : {"away", "open", "broken"}, pinned : BOOLEAN, sees : Views, secret : Secrets]
  BY WizardIs
<1>2. \A at \in {"away", "open", "broken"} : [w EXCEPT !.at = at] \in WizardType
  BY <1>1, WizardIs
<1>3. \A secret \in Secrets : [w EXCEPT !.secret = secret] \in WizardType
  BY <1>1, WizardIs
<1>4. \A pinned \in BOOLEAN : [w EXCEPT !.pinned = pinned] \in WizardType
  BY <1>1, WizardIs
<1>5. Stay(w) \in WizardType
  BY <1>4 DEF Stay
<1>6. ASSUME NEW view \in Views PROVE Shows(w, view) \in WizardType
  <2> DEFINE shown == IF w.secret \in view.connected \cup view.waiting THEN "none" ELSE w.secret
  <2>1. shown \in Secrets
    BY <1>1 DEF Secrets
  <2>2. Shows(w, view) = IF Undone(view) = {} THEN Away
                         ELSE [w EXCEPT !.sees = view, !.secret = shown]
    BY DEF Shows
  <2> HIDE DEF shown
  <2> QED BY <1>1, <2>1, <2>2, WizardIs
<1> QED BY <1>2, <1>3, <1>4, <1>5, <1>6

LEMMA ViewIsTyped ==
  ASSUME wallet' \in {"none", "off", "on"}, made' \subseteq {"app", "key", "endpoint"}
  PROVE  View' \in Views
  BY DEF View, Views

LEMMA AnswersKeepTypes ==
  ASSUME SetupTypeOK, NEW w \in WizardType, Answers(w),
         handset' \in [Handsets -> {"none", "waiting", "active", "reporting"}],
         wallet' \in {"none", "off", "on"}, made' \subseteq {"app", "key", "endpoint"}
  PROVE  SetupTypeOK'
<1>1. View' \in Views
  BY ViewIsTyped
<1>2. wizard' \in WizardType
  <2>1. CASE Reply(w)
    BY <1>1, <2>1, WizardTurns DEF Reply
  <2>2. CASE NoReply
    BY <2>2, WizardTurns DEF NoReply, SetupTypeOK
  <2> QED BY <2>1, <2>2 DEF Answers
<1>3. stamped' \in BOOLEAN
  <2>1. stamped \in BOOLEAN
    BY Zenon DEF SetupTypeOK
  <2>2. (stamped' = (stamped \/ Complete(View'))) \/ stamped' \in {stamped, stamped \/ Complete(View')}
    BY Zenon DEF Answers, Reply, NoReply
  <2>3. (stamped \/ Complete(View')) \in BOOLEAN
    BY Zenon
  <2> QED BY <2>1, <2>2, <2>3, Zenon
<1> QED BY <1>2, <1>3 DEF SetupTypeOK, Answers

LEMMA SetupKeepsTypes ==
  ASSUME SetupTypeOK, SetupNext
  PROVE  SetupTypeOK'
<1>0. /\ handset \in [Handsets -> {"none", "waiting", "active", "reporting"}]
      /\ wallet \in {"none", "off", "on"} /\ made \subseteq {"app", "key", "endpoint"}
      /\ wizard \in WizardType /\ elsewhere \in 0 .. MaxElsewhere
  BY DEF SetupTypeOK
<1>s. stamped \in BOOLEAN
  BY Zenon DEF SetupTypeOK
<1>1. CASE LoadSetup
  <2>1. View \in Views
    BY <1>0 DEF View, Views
  <2>2. wizard' \in WizardType
    <3> DEFINE w == [Away EXCEPT !.at = "open"]
    <3>1. w \in WizardType
      BY WizardIs, WizardTurns
    <3>2. wizard' = Shows(w, View)
      BY <1>1 DEF LoadSetup
    <3> HIDE DEF w
    <3> QED BY <2>1, <3>1, <3>2, WizardTurns
  <2>3. stamped' \in BOOLEAN
    BY <1>1, Zenon DEF LoadSetup
  <2> QED BY <1>1, <2>2, <2>3 DEF LoadSetup, SetupTypeOK
<1>2. ASSUME wizard' \in WizardType, UNCHANGED <<handset, wallet, made, stamped, elsewhere>>
      PROVE  SetupTypeOK'
  BY <1>2 DEF SetupTypeOK
<1>3. CASE CallFails
  BY <1>0, <1>2, <1>3, WizardTurns DEF CallFails
<1>4. CASE Poll
  BY <1>0, <1>4, AnswersKeepTypes DEF Poll
<1>5. CASE ShowPairingCode
  <2>1. Stay(wizard) \in WizardType /\ "live code" \in Secrets
    BY <1>0, WizardTurns DEF Secrets
  <2>2. [Stay(wizard) EXCEPT !.secret = "live code"] \in WizardType
    BY <2>1, WizardTurns
  <2> QED BY <1>0, <1>5, <2>2, AnswersKeepTypes DEF ShowPairingCode
<1>6. ASSUME NEW h \in Handsets, Approve(h) \/ Decline(h) PROVE SetupTypeOK'
  <2>1. Stay(wizard) \in WizardType
    BY <1>0, WizardTurns
  <2>2. handset' \in [Handsets -> {"none", "waiting", "active", "reporting"}]
        /\ wallet' = wallet /\ made' = made /\ Answers(Stay(wizard))
    BY <1>0, <1>6 DEF Approve, Decline
  <2> QED BY <1>0, <2>1, <2>2, AnswersKeepTypes
<1>7. CASE MoveOn
  <2>1. [wizard EXCEPT !.pinned = FALSE] \in WizardType
    BY <1>0, WizardTurns
  <2> QED BY <1>2, <1>7, <2>1 DEF MoveOn
<1>8. CASE ChooseSim
  <2>1. wallet' \in {"none", "off", "on"}
    BY <1>0, <1>8 DEF ChooseSim
  <2> QED BY <1>0, <1>8, <2>1, AnswersKeepTypes DEF ChooseSim
<1>9. CASE EnableAccount
  BY <1>0, <1>9, AnswersKeepTypes DEF EnableAccount
<1>10. CASE CreateApp
  BY <1>0, <1>10, AnswersKeepTypes DEF CreateApp
<1>11. CASE CreateKey \/ SaveEndpoint
  <2>1. [wizard EXCEPT !.secret = "api key"] \in WizardType
        /\ [wizard EXCEPT !.secret = "signing secret"] \in WizardType
    BY <1>0, WizardTurns DEF Secrets
  <2>2. made' \subseteq {"app", "key", "endpoint"} /\ handset' = handset /\ wallet' = wallet
    BY <1>0, <1>11 DEF CreateKey, SaveEndpoint
  <2> QED BY <1>0, <1>11, <2>1, <2>2, AnswersKeepTypes DEF CreateKey, SaveEndpoint
<1>12. CASE DismissSecret
  BY <1>0, <1>2, <1>12, WizardTurns DEF DismissSecret, Secrets
<1>13. ASSUME NEW h \in Handsets, ScanCode(h) PROVE SetupTypeOK'
  <2>1. wizard' \in WizardType
    BY <1>0, <1>13, WizardTurns DEF ScanCode, Secrets
  <2> QED BY <1>0, <1>13, <2>1 DEF ScanCode, SetupTypeOK
<1>14. CASE CodeExpires
  BY <1>0, <1>2, <1>14, WizardTurns DEF CodeExpires, Secrets
<1>15. ASSUME NEW h \in Handsets, ReportSims(h) PROVE SetupTypeOK'
  BY <1>0, <1>15 DEF ReportSims, SetupTypeOK
<1>16. CASE ChangeElsewhere
  <2>1. handset' \in [Handsets -> {"none", "waiting", "active", "reporting"}]
    BY <1>0, <1>16 DEF ChangeElsewhere, Becomes
  <2>2. wallet' \in {"none", "off", "on"} /\ made' \subseteq {"app", "key", "endpoint"}
    BY <1>0, <1>16 DEF ChangeElsewhere
  <2>3. elsewhere' \in 0 .. MaxElsewhere
    BY <1>0, <1>16, SetupAssumption DEF ChangeElsewhere, SetupAssumption
  <2> QED BY <1>16, <2>1, <2>2, <2>3 DEF ChangeElsewhere, SetupTypeOK
<1> QED
  BY <1>1, <1>3, <1>4, <1>5, <1>6, <1>7, <1>8, <1>9, <1>10, <1>11, <1>12, <1>13, <1>14, <1>15, <1>16
  DEF SetupNext, Progress

LEMMA SetupTypesHold == SiteSpec => []SetupTypeOK
<1>1. SiteInit => SetupTypeOK
  <2> SUFFICES ASSUME SetupInit PROVE SetupTypeOK
    BY DEF SiteInit
  <2>1. stamped \in BOOLEAN
    BY Zenon DEF SetupInit
  <2> QED
    BY <2>1, WizardIs, SetupAssumption DEF SetupInit, SetupTypeOK, SetupAssumption
<1>2. SetupTypeOK /\ [SiteNext]_siteVars => SetupTypeOK'
  <2> SUFFICES ASSUME SetupTypeOK, [SiteNext]_siteVars PROVE SetupTypeOK'
    OBVIOUS
  <2>1. CASE UNCHANGED setupVars
    BY <2>1 DEF setupVars, SetupTypeOK
  <2> QED
    BY <2>1, SetupKeepsTypes DEF SiteNext, siteVars, OnlyAccount, OnlyBalance, OnlyBridge,
       OnlyMatching, OnlyPage, OnlyRequest, OnlySubmission, OnlyTenancy, OnlyUpdater
<1> QED BY <1>1, <1>2, PTL DEF SiteSpec

-----------------------------------------------------------------------------
(* The types of all parts *)

\* Whatever part a behaviour is of, and whatever the instance, every variable of
\* every part keeps its type.
THEOREM SiteTypeCorrect == SiteSpec => []SiteTypeOK
<1>1. PageShape => PageTypeOK
  BY DEF PageShape
<1>2. BalanceShape => BalanceTypeOK
  BY DEF BalanceShape
<1>3. /\ AccountTypeOK /\ BalanceTypeOK /\ BridgeTypeOK /\ MatchingTypeOK /\ PageTypeOK
      /\ RequestTypeOK /\ SetupTypeOK /\ SubmissionTypeOK /\ TenancyTypeOK /\ UpdaterTypeOK
      => SiteTypeOK
  BY DEF SiteTypeOK
<1> QED
  BY <1>1, <1>2, <1>3, AccountHolds, BalanceTypesHold, BridgeTypesHold, MatchingHolds, PageHolds,
     RequestTypesHold, SetupTypesHold, SubmissionTypesHold, TenancyTypesHold, UpdaterHolds, PTL
=============================================================================
