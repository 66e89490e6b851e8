----------------------------- MODULE SiteProofs -----------------------------
(***************************************************************************)
(* Theorems about Site, for any number of sweeps, polls, tabs, phones,      *)
(* calls and buyers, and any limits.  What a part does the others do not    *)
(* see, so a fact of one part is an invariant of the whole.                *)
(***************************************************************************)
EXTENDS Site, FiniteSetTheorems, SequenceTheorems, TLAPS

-----------------------------------------------------------------------------
(* A drift stays off route *)

\* Nothing the messages of a wallet do puts its number back.
LEMMA BalanceKeepsDrift ==
  ASSUME DriftIsOffRoute, BalanceNext
  PROVE  DriftIsOffRoute'
<1> USE DEF DriftIsOffRoute, accountVars, status
<1>1. CASE WalletMoves
  BY <1>1 DEF WalletMoves
<1>2. ASSUME NEW r \in Ingests, NEW k \in Moves, ReceiveMessage(r, k) PROVE DriftIsOffRoute'
  BY <1>2 DEF ReceiveMessage
<1>3. ASSUME NEW r \in Ingests, RecordMessage(r) PROVE DriftIsOffRoute'
  <2>1. ASSUME NEW k, NEW at, CheckBalance(k, at) PROVE DriftIsOffRoute'
    BY <2>1 DEF CheckBalance, Stop
  <2> QED BY <1>3, <2>1 DEF RecordMessage
<1>4. ASSUME NEW k \in Moves, ImportRow(k) PROVE DriftIsOffRoute'
  BY <1>4 DEF ImportRow
<1>5. CASE Enable \/ Disable
  BY <1>5 DEF Enable, Disable
<1> QED BY <1>1, <1>2, <1>3, <1>4, <1>5 DEF BalanceNext

LEMMA AccountKeepsDrift ==
  ASSUME DriftIsOffRoute, AccountNext
  PROVE  DriftIsOffRoute'
  BY DEF AccountNext, DriftIsOffRoute, status, Enable, Disable, BeatArrives, BeatAges,
         CaptureAges, MessageRecorded, Stop, DriftFound, AcknowledgeAlert, Check,
         ListOverdue, LookForAlert, RaiseAlert, Degrade, JobDies

\* The bridge beats and forwards, and somebody enables and disables the number.
LEMMA BridgeKeepsDrift ==
  ASSUME DriftIsOffRoute, BridgeNext
  PROVE  DriftIsOffRoute'
  BY DEF BridgeNext, BridgePoll, DriftIsOffRoute, accountVars, status, TextArrives, PageBreaks,
         SomebodyRepairs, ItemsChange, Start, End, StartPoll, FindFault, ReadPage, SavePoll,
         Forward, Beat, BeatArrives, Enable, Disable

\* A number with a drift stays out of the rotation until somebody enables it
\* again, in any interleaving of admins, beats, messages, imports, sweeps and the
\* bridge.
THEOREM DriftIsOffRouteHolds == SiteSpec => []DriftIsOffRoute
<1>1. SiteInit => DriftIsOffRoute
  BY DEF SiteInit, AccountInit, DriftIsOffRoute
<1>2. DriftIsOffRoute /\ [SiteNext]_siteVars => DriftIsOffRoute'
  <2> SUFFICES ASSUME DriftIsOffRoute, [SiteNext]_siteVars PROVE DriftIsOffRoute'
    OBVIOUS
  <2>1. CASE OnlyMatching \/ OnlyPage \/ OnlyRequest \/ OnlySetup \/ OnlySubmission \/ OnlyTenancy
               \/ OnlyUpdater \/ UNCHANGED siteVars
    BY <2>1 DEF OnlyMatching, OnlyPage, OnlyRequest, OnlySetup, OnlySubmission,
         OnlyTenancy, OnlyUpdater, siteVars, accountVars, status, DriftIsOffRoute
  <2> QED
    BY <2>1, AccountKeepsDrift, BalanceKeepsDrift, BridgeKeepsDrift DEF SiteNext
<1> QED BY <1>1, <1>2, PTL DEF SiteSpec

-----------------------------------------------------------------------------
(* The bridge gives up only what the server has *)

LEMMA BridgeKeepsStored ==
  ASSUME SeenIsStored, BridgeNext
  PROVE  SeenIsStored'
<1> USE DEF SeenIsStored, bridgeVars
<1>1. ASSUME NEW q \in Polls, NEW taken \in BOOLEAN, NEW answered \in BOOLEAN,
             Forward(q, taken, answered)
      PROVE  SeenIsStored'
  <2> DEFINE t == Min(poll[q].left)
  <2>1. /\ stored' = IF taken THEN stored \cup {t} ELSE stored
        /\ seen' = IF taken /\ answered THEN seen \cup {t} ELSE seen
        /\ saved' = saved
    BY <1>1 DEF Forward
  <2> QED BY <2>1
<1>2. ASSUME NEW q \in Polls, SavePoll(q) PROVE SeenIsStored'
  BY <1>2 DEF SavePoll
<1>3. ASSUME NEW q \in Polls, StartPoll(q) \/ FindFault(q) \/ ReadPage(q) PROVE SeenIsStored'
  <2>1. UNCHANGED <<seen, saved, stored>>
    BY <1>3 DEF StartPoll, FindFault, ReadPage
  <2> QED BY <2>1
<1>4. CASE Start \/ End
  BY <1>4 DEF Start, End
<1>5. CASE TextArrives \/ PageBreaks \/ SomebodyRepairs \/ ItemsChange \/ Beat
  BY <1>5 DEF TextArrives, PageBreaks, SomebodyRepairs, ItemsChange, Beat
<1>6. CASE UNCHANGED bridgeVars
  BY <1>6
<1> QED BY <1>1, <1>2, <1>3, <1>4, <1>5, <1>6 DEF BridgeNext, BridgePoll

\* A text is given up only when the server has it, for any number of overlapping
\* polls, any length of page and any loss, crash or fault.
THEOREM SeenIsStoredHolds == SiteSpec => []SeenIsStored
<1>1. SiteInit => SeenIsStored
  BY DEF SiteInit, BridgeInit, SeenIsStored
<1>2. SeenIsStored /\ [SiteNext]_siteVars => SeenIsStored'
  <2> SUFFICES ASSUME SeenIsStored, [SiteNext]_siteVars PROVE SeenIsStored'
    OBVIOUS
  <2>1. CASE UNCHANGED bridgeVars
    BY <2>1 DEF bridgeVars, SeenIsStored
  <2>2. CASE OnlyBridge /\ BridgeNext
    BY <2>2, BridgeKeepsStored
  <2> QED
    BY <2>1, <2>2 DEF SiteNext, siteVars, OnlyAccount, OnlyBalance, OnlyMatching, OnlyPage,
         OnlyRequest, OnlySetup, OnlySubmission, OnlyTenancy, OnlyUpdater
<1> QED BY <1>1, <1>2, PTL DEF SiteSpec

-----------------------------------------------------------------------------
(* One intent a key: the window of a key has an intent only while its row is  *)
(* there, so the one who finds no row is the first of the window.            *)

KeyRows == [code : Codes, body : {BodyOf[c] : c \in Calls}, fresh : BOOLEAN]

CallRecords == [at : {"quiet", "looking", "routing", "trying", "conflicted"},
                left : Int, answer : Codes \cup {NoCode}]

\* The shape of what calls and the key's row hold.
RequestShape ==
  /\ window \in Nat /\ offered \in Nat
  /\ \A i \in intents : i.window \in Nat /\ i.window <= window /\ i.code \in Codes
  /\ keyRow = NoKey \/ keyRow \in KeyRows
  /\ call \in [Calls -> CallRecords]

\* No row, no intent of this window; a row, its intent.
RowIsIntent ==
  /\ keyRow = NoKey => \A i \in intents : i.window # window
  /\ keyRow # NoKey => \E i \in intents : i.code = keyRow.code /\ i.body = keyRow.body

KeyInv == RequestShape /\ RowIsIntent /\ OneIntentPerKey

LEMMA RowIsNotNone == ASSUME NEW r \in KeyRows PROVE r # NoKey
  BY RequestAssumption DEF KeyRows, NoKey, RequestAssumption

\* A call ends, with its answer.
LEMMA Ends ==
  ASSUME RequestShape, NEW c \in Calls, NEW code \in Codes \cup {NoCode}, Answer(c, code)
  PROVE  /\ call' \in [Calls -> CallRecords]
         /\ \A b \in Calls : call'[b].answer = IF b = c THEN code ELSE call[b].answer
<1>1. [at |-> "quiet", left |-> 0, answer |-> code] \in CallRecords
  BY DEF CallRecords
<1> QED BY <1>1 DEF RequestShape, Answer

\* What a call is told is nothing, or an intent of its body.
LEMMA Told ==
  ASSUME KeyInv, NEW c \in Calls, NEW code, Answer(c, code),
         code # NoCode => code \in Codes /\ \E i \in intents : i.code = code /\ i.body = BodyOf[c],
         UNCHANGED <<intents, keyRow, window, offered>>
  PROVE  KeyInv'
<1>1. code \in Codes \cup {NoCode}
  OBVIOUS
<1>2. /\ call' \in [Calls -> CallRecords]
      /\ \A b \in Calls : call'[b].answer = IF b = c THEN code ELSE call[b].answer
  BY <1>1, Ends DEF KeyInv
<1>3. RequestShape' /\ RowIsIntent'
  BY <1>2 DEF KeyInv, RequestShape, RowIsIntent
<1>4. OneIntentPerKey'
  BY <1>2 DEF KeyInv, OneIntentPerKey
<1> QED BY <1>3, <1>4 DEF KeyInv

\* A call goes on, or is made again, and has no new answer.
LEMMA GoesOn ==
  ASSUME KeyInv, UNCHANGED <<intents, keyRow, window, offered>>,
         call' \in [Calls -> CallRecords],
         \A b \in Calls : call'[b].answer \in {call[b].answer, NoCode}
  PROVE  KeyInv'
  BY DEF KeyInv, RequestShape, RowIsIntent, OneIntentPerKey

LEMMA CreatesFirst ==
  ASSUME KeyInv, NEW c \in Calls, NEW code \in Codes, CreateIntent(c, code)
  PROVE  KeyInv'
<1> DEFINE i == [code |-> code, body |-> BodyOf[c], window |-> window]
           r == [code |-> code, body |-> BodyOf[c], fresh |-> TRUE]
<1>1. /\ intents' = intents \cup {i}
      /\ keyRow' = r
      /\ window' = window /\ offered' = offered
      /\ keyRow = NoKey
  BY DEF CreateIntent
<1>2. r \in KeyRows /\ r # NoKey
  BY RowIsNotNone DEF KeyRows
<1>0. /\ i.code = code /\ i.body = BodyOf[c] /\ i.window = window
      /\ r.code = code /\ r.body = BodyOf[c]
  OBVIOUS
<1> HIDE DEF i, r
<1>3. /\ call' \in [Calls -> CallRecords]
      /\ \A b \in Calls : call'[b].answer = IF b = c THEN code ELSE call[b].answer
  BY Ends DEF KeyInv, CreateIntent
<1>4. RequestShape'
  BY <1>0, <1>1, <1>2, <1>3 DEF KeyInv, RequestShape
<1>5. RowIsIntent'
  BY <1>0, <1>1, <1>2 DEF RowIsIntent
<1>6. \A j, k \in intents' : j.window = k.window => j = k
  <2>1. \A j \in intents : j.window # i.window
    BY <1>0, <1>1 DEF KeyInv, RowIsIntent
  <2> QED BY <1>1, <2>1 DEF KeyInv, OneIntentPerKey
<1>7. \A b \in Calls : call'[b].answer # NoCode =>
         \E j \in intents' : j.code = call'[b].answer /\ j.body = BodyOf[b]
  BY <1>0, <1>1, <1>3 DEF KeyInv, OneIntentPerKey
<1> QED BY <1>4, <1>5, <1>6, <1>7 DEF KeyInv, OneIntentPerKey

\* A call in hand goes to another place and keeps what it was told.
LEMMA GoesKeepsShape ==
  ASSUME RequestShape, NEW c \in Calls, NEW from,
         NEW to \in {"quiet", "looking", "routing", "trying", "conflicted"}, Goes(c, from, to)
  PROVE  call' \in [Calls -> CallRecords] /\ \A b \in Calls : call'[b].answer = call[b].answer
  BY DEF RequestShape, CallRecords, Goes

LEMMA ServeKeepsKey ==
  ASSUME KeyInv, NEW c \in Calls, Serve(c)
  PROVE  KeyInv'
<1> USE RequestAssumption DEF RequestAssumption
<1>1. RequestShape
  BY DEF KeyInv
<1>2. CASE Replay(c)
  <2> DEFINE code == IF keyRow.body = BodyOf[c] THEN keyRow.code ELSE NoCode
  <2>1. code # NoCode => code \in Codes /\ \E i \in intents : i.code = code /\ i.body = BodyOf[c]
    BY <1>2 DEF Replay, KeyInv, RowIsIntent, RequestShape
  <2>2. Answer(c, code) /\ UNCHANGED <<intents, keyRow, window, offered>>
    BY <1>2 DEF Replay
  <2> HIDE DEF code
  <2> QED BY <2>1, <2>2, Told
<1>3. CASE NothingToReplay(c)
  <2>1. CASE Goes(c, "looking", "routing") \/ Goes(c, "conflicted", "trying")
    BY <1>1, <1>3, <2>1, GoesKeepsShape, GoesOn DEF NothingToReplay
  <2>2. CASE Answer(c, NoCode)
    BY <1>3, <2>2, Told DEF NothingToReplay
  <2> QED BY <1>3, <2>1, <2>2 DEF NothingToReplay
<1>4. CASE ChooseNumbers(c)
  <2>1. CASE offered = 0
    BY <1>4, <2>1, Told DEF ChooseNumbers
  <2>2. CASE offered # 0
    <3>1. [at |-> "trying", left |-> offered, answer |-> NoCode] \in CallRecords
      BY <1>1 DEF RequestShape, CallRecords
    <3>2. call' = [call EXCEPT ![c] = [at |-> "trying", left |-> offered, answer |-> NoCode]]
      BY <1>4, <2>2 DEF ChooseNumbers
    <3>3. call' \in [Calls -> CallRecords] /\ \A b \in Calls : call'[b].answer \in {call[b].answer, NoCode}
      BY <1>1, <3>1, <3>2 DEF RequestShape
    <3> QED BY <1>4, <3>3, GoesOn DEF ChooseNumbers
  <2> QED BY <2>1, <2>2
<1>5. CASE KeyConflicts(c)
  <2>1. call' = [call EXCEPT ![c].at = "conflicted", ![c].left = @ - 1]
    BY <1>5 DEF KeyConflicts
  <2>2. call' \in [Calls -> CallRecords] /\ \A b \in Calls : call'[b].answer = call[b].answer
    BY <1>1, <2>1 DEF RequestShape, CallRecords
  <2> QED BY <1>5, <2>2, GoesOn DEF KeyConflicts
<1>6. CASE CodeConflicts(c)
  BY <1>6, Told DEF CodeConflicts
<1> QED BY <1>2, <1>3, <1>4, <1>5, <1>6, CreatesFirst DEF Serve

LEMMA RequestKeepsKey ==
  ASSUME KeyInv, RequestNext
  PROVE  KeyInv'
<1> USE RequestAssumption DEF RequestAssumption
<1>1. ASSUME NEW c \in Calls, Post(c) PROVE KeyInv'
  <2>1. [Quiet EXCEPT !.at = "looking"] = [at |-> "looking", left |-> 0, answer |-> NoCode]
    BY DEF Quiet
  <2>2. call' = [call EXCEPT ![c] = [at |-> "looking", left |-> 0, answer |-> NoCode]]
    BY <1>1, <2>1 DEF Post
  <2>3. /\ call' \in [Calls -> CallRecords]
        /\ \A b \in Calls : call'[b].answer \in {call[b].answer, NoCode}
    BY <2>2 DEF KeyInv, RequestShape, CallRecords
  <2> QED BY <1>1, <2>3, GoesOn DEF Post
<1>2. CASE KeyExpires
  <2>1. /\ keyRow.fresh
        /\ keyRow' = [keyRow EXCEPT !.fresh = FALSE]
        /\ UNCHANGED <<intents, window, offered, call>>
    BY <1>2 DEF KeyExpires
  <2>2. keyRow \in KeyRows /\ keyRow # NoKey
    BY <2>1, RowIsNotNone DEF KeyInv, RequestShape, NoKey
  <2>3. keyRow' \in KeyRows /\ keyRow'.code = keyRow.code /\ keyRow'.body = keyRow.body
    BY <2>1, <2>2 DEF KeyRows
  <2>4. keyRow' # NoKey
    BY <2>3, RowIsNotNone
  <2> QED BY <2>1, <2>2, <2>3, <2>4 DEF KeyInv, RequestShape, RowIsIntent, OneIntentPerKey
<1>3. CASE PruneKey
  <2>1. keyRow' = NoKey /\ window' = window + 1 /\ UNCHANGED <<intents, offered, call>>
    BY <1>3 DEF PruneKey
  <2>2. RequestShape'
    BY <2>1 DEF KeyInv, RequestShape
  <2>3. RowIsIntent'
    BY <2>1 DEF KeyInv, RequestShape, RowIsIntent
  <2> QED BY <2>1, <2>2, <2>3 DEF KeyInv, OneIntentPerKey
<1>4. CASE NumbersChange
  BY <1>4 DEF NumbersChange, KeyInv, RequestShape, RowIsIntent, OneIntentPerKey
<1> QED BY <1>1, <1>2, <1>3, <1>4, ServeKeepsKey DEF RequestNext

\* A key makes one intent in its window and a call is answered with an intent
\* of its body, for any number of calls, codes, numbers and windows.
THEOREM OneIntentPerKeyHolds == SiteSpec => []OneIntentPerKey
<1>1. SiteInit => KeyInv
  <2> SUFFICES ASSUME RequestInit PROVE KeyInv
    BY DEF SiteInit
  <2>1. call \in [Calls -> CallRecords] /\ \A c \in Calls : call[c].answer = NoCode
    BY DEF RequestInit, Quiet, CallRecords
  <2> QED
    BY <2>1, RequestAssumption DEF RequestInit, KeyInv, RequestShape, RowIsIntent,
       OneIntentPerKey, RequestAssumption
<1>2. KeyInv /\ [SiteNext]_siteVars => KeyInv'
  <2> SUFFICES ASSUME KeyInv, [SiteNext]_siteVars PROVE KeyInv'
    OBVIOUS
  <2>1. CASE UNCHANGED requestVars
    BY <2>1 DEF requestVars, KeyInv, RequestShape, RowIsIntent, OneIntentPerKey
  <2>2. CASE OnlyRequest /\ RequestNext
    BY <2>2, RequestKeepsKey
  <2> QED
    BY <2>1, <2>2 DEF SiteNext, siteVars, OnlyAccount, OnlyBalance, OnlyBridge, OnlyMatching,
       OnlyPage, OnlySetup, OnlySubmission, OnlyTenancy, OnlyUpdater
<1>3. KeyInv => OneIntentPerKey
  BY DEF KeyInv
<1> QED BY <1>1, <1>2, <1>3, PTL DEF SiteSpec


-----------------------------------------------------------------------------
(* Checks made before what they count: who has passed the check and not yet  *)
(* counted is added to what is counted, and the sum is bounded.              *)

LEMMA Subsets ==
  ASSUME NEW T, IsFiniteSet(T), NEW S \in SUBSET T
  PROVE  /\ IsFiniteSet(S) /\ Cardinality(S) \in Nat /\ Cardinality(T) \in Nat
         /\ Cardinality(S) <= Cardinality(T)
  BY FS_Subset, FS_CardinalityType

LEMMA Leaving ==
  ASSUME NEW T, IsFiniteSet(T), NEW S \in SUBSET T, NEW e \in S
  PROVE  Cardinality(S \ {e}) = Cardinality(S) - 1
  BY FS_Subset, FS_RemoveElement

-----------------------------------------------------------------------------
(* One alert a gap *)

Alerting(kind) == {s \in Sweeps : job[s][kind] = "alerting"}

AlertInv ==
  /\ alerts \in [Kinds -> Nat]
  /\ job \in [Sweeps -> [Kinds -> {"idle", "listed", "alerting", "degrading"}]]
  /\ \A kind \in Kinds : alerts[kind] + Cardinality(Alerting(kind)) <= Cardinality(Sweeps)

\* A sweep that goes on is where it goes to, and the others are where they were.
LEMMA Advances ==
  ASSUME AlertInv, NEW s \in Sweeps, NEW kind \in Kinds,
         NEW to \in {"idle", "listed", "alerting", "degrading"},
         job' = [job EXCEPT ![s][kind] = to]
  PROVE  /\ job' \in [Sweeps -> [Kinds -> {"idle", "listed", "alerting", "degrading"}]]
         /\ \A k \in Kinds : k # kind => Alerting(k)' = Alerting(k)
         /\ to # "alerting" => Alerting(kind)' = Alerting(kind) \ {s}
<1>1. job[s] \in [Kinds -> {"idle", "listed", "alerting", "degrading"}]
  BY DEF AlertInv
<1>2. job' = [job EXCEPT ![s] = [job[s] EXCEPT ![kind] = to]]
  OBVIOUS
<1>3. /\ \A r \in Sweeps : job'[r] = IF r = s THEN [job[s] EXCEPT ![kind] = to] ELSE job[r]
      /\ job' \in [Sweeps -> [Kinds -> {"idle", "listed", "alerting", "degrading"}]]
  BY <1>1, <1>2 DEF AlertInv
<1>4. \A r \in Sweeps, k \in Kinds : job'[r][k] = IF r = s /\ k = kind THEN to ELSE job[r][k]
  BY <1>1, <1>3
<1> QED BY <1>3, <1>4 DEF Alerting

\* A sweep that goes on without an alert, or dies, leaves the sum no higher.
LEMMA GoesOnQuietly ==
  ASSUME AlertInv, NEW s \in Sweeps, NEW kind \in Kinds,
         NEW to \in {"idle", "listed", "degrading"},
         job' = [job EXCEPT ![s][kind] = to], alerts' = alerts
  PROVE  AlertInv'
<1> USE AccountAssumption DEF AccountAssumption
<1>1. \A k \in Kinds : Alerting(k)' \in SUBSET Alerting(k) /\ Alerting(k) \in SUBSET Sweeps
  BY Advances DEF Alerting
<1>2. \A k \in Kinds : /\ Cardinality(Alerting(k)') <= Cardinality(Alerting(k))
                       /\ Cardinality(Alerting(k)') \in Nat /\ Cardinality(Alerting(k)) \in Nat
                       /\ Cardinality(Sweeps) \in Nat
  BY <1>1, Subsets
<1>3. alerts \in [Kinds -> Nat]
  BY DEF AlertInv
<1>4. \A k \in Kinds : alerts[k] + Cardinality(Alerting(k)) <= Cardinality(Sweeps)
  BY DEF AlertInv
<1>5. \A k \in Kinds : alerts'[k] + Cardinality(Alerting(k)') <= Cardinality(Sweeps)
  BY <1>2, <1>3, <1>4
<1> QED BY <1>3, <1>5, Advances DEF AlertInv

LEMMA LooksForAlert ==
  ASSUME AlertInv, NEW s \in Sweeps, NEW kind \in Kinds, LookForAlert(s, kind)
  PROVE  AlertInv'
<1> USE AccountAssumption DEF AccountAssumption
<1>1. CASE alerts[kind] > 0
  BY <1>1, GoesOnQuietly DEF LookForAlert, Advance
<1>2. CASE ~(alerts[kind] > 0)
  <2>1. alerts' = alerts /\ job' = [job EXCEPT ![s][kind] = "alerting"]
    BY <1>2 DEF LookForAlert, Advance
  <2>2. alerts[kind] = 0
    BY <1>2 DEF AlertInv
  <2>3. Alerting(kind)' \in SUBSET Sweeps
    BY DEF Alerting
  <2>4. alerts'[kind] + Cardinality(Alerting(kind)') <= Cardinality(Sweeps)
    BY <2>1, <2>2, <2>3, Subsets
  <2> QED BY <2>1, <2>4, Advances DEF AlertInv
<1> QED BY <1>1, <1>2

LEMMA RaisesAlert ==
  ASSUME AlertInv, NEW s \in Sweeps, NEW kind \in Kinds, RaiseAlert(s, kind)
  PROVE  AlertInv'
<1> USE AccountAssumption DEF AccountAssumption
<1> DEFINE to == IF kind = "heartbeat_gap" THEN "degrading" ELSE "idle"
<1>1. /\ job[s][kind] = "alerting"
      /\ job' = [job EXCEPT ![s][kind] = to]
      /\ alerts' = [alerts EXCEPT ![kind] = @ + 1]
  BY DEF RaiseAlert, Advance
<1>2. to \in {"idle", "degrading"}
  OBVIOUS
<1> HIDE DEF to
<1>3. /\ job' \in [Sweeps -> [Kinds -> {"idle", "listed", "alerting", "degrading"}]]
      /\ \A k \in Kinds : k # kind => Alerting(k)' = Alerting(k)
      /\ Alerting(kind)' = Alerting(kind) \ {s}
  BY <1>1, <1>2, Advances
<1>4. s \in Alerting(kind) /\ Alerting(kind) \in SUBSET Sweeps
  BY <1>1 DEF Alerting
<1>5. /\ Cardinality(Alerting(kind)') = Cardinality(Alerting(kind)) - 1
      /\ Cardinality(Alerting(kind)) \in Nat
  BY <1>3, <1>4, Leaving, Subsets
<1>6. alerts' \in [Kinds -> Nat] /\ \A k \in Kinds : alerts'[k] = IF k = kind THEN alerts[k] + 1 ELSE alerts[k]
  BY <1>1 DEF AlertInv
<1>7. \A k \in Kinds : alerts[k] + Cardinality(Alerting(k)) <= Cardinality(Sweeps) /\ alerts[k] \in Nat
  BY DEF AlertInv
<1>8. Cardinality(Sweeps) \in Nat
  BY <1>4, Subsets
<1>9. \A k \in Kinds : alerts'[k] + Cardinality(Alerting(k)') <= Cardinality(Sweeps)
  <2> TAKE k \in Kinds
  <2>1. CASE k = kind
    BY <2>1, <1>5, <1>6, <1>7, <1>8
  <2>2. CASE k # kind
    BY <2>2, <1>3, <1>6, <1>7
  <2> QED BY <2>1, <2>2
<1> QED BY <1>3, <1>6, <1>9 DEF AlertInv

LEMMA Acknowledges ==
  ASSUME AlertInv, NEW kind \in Kinds, AcknowledgeAlert(kind)
  PROVE  AlertInv'
<1> USE AccountAssumption DEF AccountAssumption
<1>1. alerts[kind] > 0 /\ alerts' = [alerts EXCEPT ![kind] = @ - 1] /\ job' = job
  BY DEF AcknowledgeAlert
<1>2. /\ alerts' \in [Kinds -> Nat]
      /\ \A k \in Kinds : alerts'[k] <= alerts[k] /\ alerts[k] \in Nat /\ alerts'[k] \in Nat
  BY <1>1 DEF AlertInv
<1>3. \A k \in Kinds : Alerting(k)' = Alerting(k) /\ Alerting(k) \in SUBSET Sweeps
  BY <1>1 DEF Alerting
<1>4. \A k \in Kinds : Cardinality(Alerting(k)) \in Nat /\ Cardinality(Sweeps) \in Nat
  BY <1>3, Subsets
<1>5. \A k \in Kinds : alerts'[k] + Cardinality(Alerting(k)') <= Cardinality(Sweeps)
  BY <1>2, <1>3, <1>4 DEF AlertInv
<1> QED BY <1>1, <1>2, <1>5 DEF AlertInv

LEMMA JobsStay ==
  ASSUME AlertInv, UNCHANGED jobs
  PROVE  AlertInv'
  BY DEF AlertInv, Alerting, jobs

LEMMA AccountKeepsAlerts ==
  ASSUME AlertInv, AccountNext
  PROVE  AlertInv'
<1>1. CASE Enable \/ Disable \/ BeatArrives \/ BeatAges \/ CaptureAges \/ MessageRecorded \/ DriftFound
  BY <1>1, JobsStay DEF Enable, Disable, BeatArrives, BeatAges, CaptureAges, MessageRecorded, DriftFound
<1>2. ASSUME NEW s \in Sweeps, Degrade(s) PROVE AlertInv'
  <2>1. "heartbeat_gap" \in Kinds
    BY DEF Kinds
  <2> QED BY <1>2, <2>1, GoesOnQuietly DEF Degrade, Advance
<1>3. ASSUME NEW s \in Sweeps, NEW kind \in Kinds, ListOverdue(s, kind) \/ JobDies(s, kind)
      PROVE  AlertInv'
  BY <1>3, GoesOnQuietly DEF ListOverdue, JobDies, Advance
<1> QED BY <1>1, <1>2, <1>3, Acknowledges, LooksForAlert, RaisesAlert DEF AccountNext, Check

\* As many alerts of a gap are open as sweeps overlap, for any number of sweeps
\* and whatever beats, messages, admins and crashes come between their statements.
THEOREM OneAlertPerGapHolds == SiteSpec => []OneAlertPerGap
<1> USE AccountAssumption DEF AccountAssumption
<1>1. SiteInit => AlertInv
  <2> SUFFICES ASSUME AccountInit PROVE AlertInv
    BY DEF SiteInit
  <2>1. \A kind \in Kinds : Alerting(kind) = {} /\ alerts[kind] = 0
    BY DEF AccountInit, Alerting
  <2>2. Cardinality({}) = 0 /\ Cardinality(Sweeps) \in Nat
    BY FS_EmptySet, FS_CardinalityType
  <2>3. \A kind \in Kinds : alerts[kind] + Cardinality(Alerting(kind)) <= Cardinality(Sweeps)
    BY <2>1, <2>2
  <2>4. alerts \in [Kinds -> Nat] /\ job \in [Sweeps -> [Kinds -> {"idle", "listed", "alerting", "degrading"}]]
    BY DEF AccountInit
  <2> QED BY <2>3, <2>4 DEF AlertInv
<1>2. AlertInv /\ [SiteNext]_siteVars => AlertInv'
  <2> SUFFICES ASSUME AlertInv, [SiteNext]_siteVars PROVE AlertInv'
    OBVIOUS
  <2>1. CASE OnlyBalance /\ BalanceNext
    <3>1. UNCHANGED jobs
      BY <2>1 DEF BalanceNext, WalletMoves, ReceiveMessage, RecordMessage, ImportRow, CheckBalance, Enable,
         Disable, accountVars, jobs
    <3> QED BY <3>1, JobsStay
  <2>2. CASE OnlyBridge /\ BridgeNext
    <3>1. UNCHANGED jobs
      BY <2>2 DEF BridgeNext, BridgePoll, accountVars, jobs, TextArrives, PageBreaks, SomebodyRepairs,
         ItemsChange, Start, End, StartPoll, FindFault, ReadPage, SavePoll, Forward, Beat, BeatArrives,
         Enable, Disable
    <3> QED BY <3>1, JobsStay
  <2>3. CASE UNCHANGED accountVars
    BY <2>3, JobsStay DEF accountVars
  <2> QED
    BY <2>1, <2>2, <2>3, AccountKeepsAlerts DEF SiteNext, siteVars, OnlyAccount, OnlyMatching, OnlyPage,
       OnlyRequest, OnlySetup, OnlySubmission, OnlyTenancy, OnlyUpdater
<1>3. AlertInv => OneAlertPerGap
  <2> SUFFICES ASSUME AlertInv, NEW kind \in Kinds PROVE alerts[kind] <= Cardinality(Sweeps)
    BY DEF OneAlertPerGap
  <2>1. Alerting(kind) \in SUBSET Sweeps
    BY DEF Alerting
  <2>2. Cardinality(Alerting(kind)) \in Nat /\ Cardinality(Sweeps) \in Nat
    BY <2>1, Subsets
  <2> QED BY <2>2 DEF AlertInv
<1> QED BY <1>1, <1>2, <1>3, PTL DEF SiteSpec


-----------------------------------------------------------------------------
(* Overshooting a limit by no more than what overlaps *)

Ats == {"idle", "looking", "applying", "counting", "recording", "asking"}
Forms == [at : Ats, row : Rows]

\* Attempts past the limit and not in the rows yet, misses no admin will hear
\* of, and refunds about to be asked for.
Pending == {b \in Buyers : form[b].at \notin {"idle", "asking"}}
Missing == {b \in Buyers : form[b].at = "recording" /\ form[b].row = "miss"}
Asking(reason) == {b \in Buyers : form[b].at = "asking" /\ form[b].row = reason}

FormShape ==
  /\ form \in [Buyers -> Forms]
  /\ hour \in Nat /\ misses \in Nat /\ unheard \in Nat /\ unheard <= misses
  /\ refunds \in [Reasons -> Nat]
  /\ \A b \in Buyers : form[b].at = "asking" => form[b].row \in Reasons

FormInv ==
  /\ FormShape
  /\ hour + Cardinality(Pending) < HourlyLimit + Cardinality(Buyers)
  /\ unheard + Cardinality(Missing) + 1 < EscalateAfter + Cardinality(Buyers)
  /\ \A reason \in Reasons : refunds[reason] + Cardinality(Asking(reason)) <= Cardinality(Buyers)

LEMMA Counts ==
  /\ Cardinality(Buyers) \in Nat /\ Cardinality(Pending) \in Nat /\ Cardinality(Missing) \in Nat
  /\ \A reason \in Reasons : Cardinality(Asking(reason)) \in Nat
  /\ Cardinality(Pending) <= Cardinality(Buyers)
  /\ Cardinality(Missing) <= Cardinality(Buyers)
  /\ \A reason \in Reasons : Cardinality(Asking(reason)) <= Cardinality(Buyers)
<1> USE SubmissionAssumption DEF SubmissionAssumption
<1>1. Pending \in SUBSET Buyers /\ Missing \in SUBSET Buyers
  BY DEF Pending, Missing
<1>2. \A reason \in Reasons : Asking(reason) \in SUBSET Buyers
  BY DEF Asking
<1> QED BY <1>1, <1>2, Subsets

\* A request goes to a place with the row it is about to insert.
LEMMA Turning ==
  ASSUME FormShape, NEW b \in Buyers, NEW at \in Ats, NEW row \in Rows, Turns(b, at, row)
  PROVE  /\ form' \in [Buyers -> Forms]
         /\ form'[b].at = at /\ form'[b].row = row
         /\ \A d \in Buyers : d # b => form'[d] = form[d]
<1> DEFINE f == [at |-> at, row |-> row]
<1>1. f \in Forms /\ f.at = at /\ f.row = row
  BY DEF Forms
<1>2. form' = [form EXCEPT ![b] = f]
  BY DEF Turns
<1> HIDE DEF f
<1> QED BY <1>1, <1>2 DEF FormShape

\* Nothing new is counted, and no request is about to insert more than it was.
LEMMA NothingCounted ==
  ASSUME FormInv, NEW b \in Buyers, NEW at \in Ats, NEW row \in Rows, Turns(b, at, row),
         UNCHANGED <<hour, misses, unheard, refunds>>,
         at \in {"idle", "asking"} \/ form[b].at \notin {"idle", "asking"},
         at = "recording" => row # "miss",
         at # "asking"
  PROVE  FormInv'
<1> USE SubmissionAssumption DEF SubmissionAssumption
<1>1. /\ form' \in [Buyers -> Forms]
      /\ form'[b].at = at /\ form'[b].row = row
      /\ \A d \in Buyers : d # b => form'[d] = form[d]
  BY Turning DEF FormInv
<1>2. /\ Pending' \in SUBSET Pending /\ Missing' \in SUBSET Missing
      /\ \A reason \in Reasons : Asking(reason)' \in SUBSET Asking(reason)
  BY <1>1 DEF Pending, Missing, Asking
<1>3. /\ IsFiniteSet(Pending) /\ IsFiniteSet(Missing)
      /\ \A reason \in Reasons : IsFiniteSet(Asking(reason))
  <2>1. /\ Pending \in SUBSET Buyers /\ Missing \in SUBSET Buyers
        /\ \A reason \in Reasons : Asking(reason) \in SUBSET Buyers
    BY DEF Pending, Missing, Asking
  <2> QED BY <2>1, Subsets
<1>4. /\ Cardinality(Pending') <= Cardinality(Pending) /\ Cardinality(Pending') \in Nat
      /\ Cardinality(Missing') <= Cardinality(Missing) /\ Cardinality(Missing') \in Nat
      /\ \A reason \in Reasons : /\ Cardinality(Asking(reason)') <= Cardinality(Asking(reason))
                                 /\ Cardinality(Asking(reason)') \in Nat
  BY <1>2, <1>3, Subsets
<1>5. FormShape'
  BY <1>1 DEF FormInv, FormShape
<1>6. hour' + Cardinality(Pending') < HourlyLimit + Cardinality(Buyers)
  BY <1>4, Counts DEF FormInv, FormShape
<1>7. unheard' + Cardinality(Missing') + 1 < EscalateAfter + Cardinality(Buyers)
  BY <1>4, Counts DEF FormInv, FormShape
<1>8. \A reason \in Reasons : refunds'[reason] + Cardinality(Asking(reason)') <= Cardinality(Buyers)
  <2> TAKE reason \in Reasons
  <2>1. refunds[reason] \in Nat /\ refunds[reason] + Cardinality(Asking(reason)) <= Cardinality(Buyers)
    BY DEF FormInv, FormShape
  <2> QED BY <2>1, <1>4, Counts
<1> QED BY <1>5, <1>6, <1>7, <1>8 DEF FormInv


\* An attempt passes the limit: whatever overlaps it, the limit was not reached.
LEMMA SubmitKeeps ==
  ASSUME FormInv, NEW b \in Buyers, Submit(b)
  PROVE  FormInv'
<1> USE SubmissionAssumption DEF SubmissionAssumption
<1>1. /\ hour < HourlyLimit
      /\ UNCHANGED <<hour, misses, unheard, refunds>>
      /\ form[b].at = "idle"
      /\ Turns(b, "looking", "none")
  BY DEF Submit, NoForm
<1>2. /\ form' \in [Buyers -> Forms]
      /\ form'[b].at = "looking"
      /\ \A d \in Buyers : d # b => form'[d] = form[d]
  BY <1>1, Turning DEF FormInv, Ats, Rows
<1>3. /\ Missing' = Missing /\ \A reason \in Reasons : Asking(reason)' = Asking(reason)
      /\ Pending' \in SUBSET Buyers
  BY <1>1, <1>2 DEF Missing, Asking, Pending
<1>4. Cardinality(Pending') <= Cardinality(Buyers) /\ Cardinality(Pending') \in Nat
  BY <1>3, Subsets
<1>5. FormShape'
  BY <1>1, <1>2 DEF FormInv, FormShape
<1>6. hour' + Cardinality(Pending') < HourlyLimit + Cardinality(Buyers)
  BY <1>1, <1>4, Counts DEF FormInv, FormShape
<1> QED BY <1>1, <1>3, <1>5, <1>6 DEF FormInv

\* An attempt that is the last no admin hears of: there are few enough before it.
LEMMA CountMissesKeeps ==
  ASSUME FormInv, NEW b \in Buyers, CountMisses(b)
  PROVE  FormInv'
<1> USE SubmissionAssumption DEF SubmissionAssumption
<1>1. /\ form[b].at = "counting"
      /\ UNCHANGED <<hour, misses, unheard, refunds>>
  BY DEF CountMisses
<1>2. CASE misses + 1 >= EscalateAfter
  <2>1. Turns(b, "recording", "escalated")
    BY <1>2 DEF CountMisses
  <2> QED BY <1>1, <2>1, NothingCounted DEF Ats, Rows
<1>3. CASE ~(misses + 1 >= EscalateAfter)
  <2>1. Turns(b, "recording", "miss")
    BY <1>3 DEF CountMisses
  <2>2. /\ form' \in [Buyers -> Forms]
        /\ form'[b].at = "recording"
        /\ \A d \in Buyers : d # b => form'[d] = form[d]
    BY <2>1, Turning DEF FormInv, Ats, Rows
  <2>3. /\ Pending' = Pending /\ \A reason \in Reasons : Asking(reason)' = Asking(reason)
        /\ Missing' \in SUBSET Buyers
    BY <1>1, <2>2 DEF Missing, Asking, Pending
  <2>4. Cardinality(Missing') <= Cardinality(Buyers) /\ Cardinality(Missing') \in Nat
    BY <2>3, Subsets
  <2>5. FormShape'
    BY <1>1, <2>2 DEF FormInv, FormShape
  <2>6. unheard' + Cardinality(Missing') + 1 < EscalateAfter + Cardinality(Buyers)
    BY <1>1, <1>3, <2>4, Counts DEF FormInv, FormShape
  <2> QED BY <1>1, <2>3, <2>5, <2>6 DEF FormInv
<1> QED BY <1>2, <1>3

\* A row goes in, and what waited for it is over.
LEMMA RecordKeeps ==
  ASSUME FormInv, NEW b \in Buyers, Record(b)
  PROVE  FormInv'
<1> USE SubmissionAssumption DEF SubmissionAssumption
<1>1. /\ form[b].at = "recording"
      /\ hour' = hour + 1 /\ refunds' = refunds
      /\ misses' = IF form[b].row = "other" THEN misses ELSE misses + 1
      /\ unheard' = IF form[b].row = "miss" THEN unheard + 1 ELSE unheard
      /\ Turns(b, "idle", "none")
  BY DEF Record
<1>2. /\ form' \in [Buyers -> Forms]
      /\ form'[b].at = "idle"
      /\ \A d \in Buyers : d # b => form'[d] = form[d]
  BY <1>1, Turning DEF FormInv, Ats, Rows
<1>3. /\ \A reason \in Reasons : Asking(reason)' = Asking(reason)
      /\ Pending' = Pending \ {b} /\ Missing' = Missing \ {b}
      /\ b \in Pending /\ (b \in Missing <=> form[b].row = "miss")
      /\ Pending \in SUBSET Buyers /\ Missing \in SUBSET Buyers
  BY <1>1, <1>2 DEF Missing, Asking, Pending
<1>4. Cardinality(Pending') = Cardinality(Pending) - 1
  BY <1>3, Leaving
<1>5. Cardinality(Missing') = IF form[b].row = "miss" THEN Cardinality(Missing) - 1 ELSE Cardinality(Missing)
  <2>1. CASE form[b].row = "miss"
    BY <1>3, <2>1, Leaving
  <2>2. CASE form[b].row # "miss"
    <3>1. Missing' = Missing
      BY <1>3, <2>2
    <3> QED BY <2>2, <3>1
  <2> QED BY <2>1, <2>2
<1>6. /\ hour' \in Nat /\ misses' \in Nat /\ unheard' \in Nat /\ unheard' <= misses'
  BY <1>1 DEF FormInv, FormShape
<1>7. FormShape'
  BY <1>1, <1>2, <1>6 DEF FormInv, FormShape
<1>8. hour' + Cardinality(Pending') < HourlyLimit + Cardinality(Buyers)
  BY <1>1, <1>4, Counts DEF FormInv, FormShape
<1>9. unheard' + Cardinality(Missing') + 1 < EscalateAfter + Cardinality(Buyers)
  BY <1>1, <1>5, Counts DEF FormInv, FormShape
<1> QED BY <1>1, <1>3, <1>7, <1>8, <1>9 DEF FormInv

\* The check of a refund is made while nobody has one open, and overlaps others.
LEMMA AskForRefundKeeps ==
  ASSUME FormInv, NEW b \in Buyers, NEW reason \in Reasons, AskForRefund(b, reason)
  PROVE  FormInv'
<1> USE SubmissionAssumption DEF SubmissionAssumption
<1>1. /\ form[b].at = "idle" /\ refunds[reason] = 0
      /\ UNCHANGED <<hour, misses, unheard, refunds>>
      /\ Turns(b, "asking", reason)
  BY DEF AskForRefund, NoForm
<1>2. /\ form' \in [Buyers -> Forms]
      /\ form'[b].at = "asking" /\ form'[b].row = reason
      /\ \A d \in Buyers : d # b => form'[d] = form[d]
  BY <1>1, Turning DEF FormInv, Ats, Rows
<1>3. /\ Pending' = Pending /\ Missing' = Missing
      /\ \A r \in Reasons : r # reason => Asking(r)' = Asking(r)
      /\ Asking(reason)' \in SUBSET Buyers
  BY <1>1, <1>2 DEF Missing, Asking, Pending
<1>4. Cardinality(Asking(reason)') <= Cardinality(Buyers) /\ Cardinality(Asking(reason)') \in Nat
  BY <1>3, Subsets
<1>5. FormShape'
  BY <1>1, <1>2 DEF FormInv, FormShape
<1>6. \A r \in Reasons : refunds'[r] + Cardinality(Asking(r)') <= Cardinality(Buyers)
  <2> TAKE r \in Reasons
  <2>1. CASE r = reason
    BY <2>1, <1>1, <1>4, Counts
  <2>2. CASE r # reason
    BY <2>2, <1>1, <1>3 DEF FormInv
  <2> QED BY <2>1, <2>2
<1> QED BY <1>1, <1>3, <1>5, <1>6 DEF FormInv

LEMMA RecordRefundKeeps ==
  ASSUME FormInv, NEW b \in Buyers, RecordRefund(b)
  PROVE  FormInv'
<1> USE SubmissionAssumption DEF SubmissionAssumption
<1> DEFINE reason == form[b].row
<1>1. /\ form[b].at = "asking" /\ reason \in Reasons
      /\ UNCHANGED <<hour, misses, unheard>>
      /\ refunds' = [refunds EXCEPT ![reason] = @ + 1]
      /\ Turns(b, "idle", "none")
  BY DEF RecordRefund, FormInv, FormShape
<1>2. /\ form' \in [Buyers -> Forms]
      /\ form'[b].at = "idle"
      /\ \A d \in Buyers : d # b => form'[d] = form[d]
  BY <1>1, Turning DEF FormInv, Ats, Rows
<1>3. /\ Pending' = Pending /\ Missing' = Missing
      /\ \A r \in Reasons : Asking(r)' = IF r = reason THEN Asking(r) \ {b} ELSE Asking(r)
      /\ b \in Asking(reason) /\ Asking(reason) \in SUBSET Buyers
  BY <1>1, <1>2 DEF Missing, Asking, Pending
<1> HIDE DEF reason
<1>4. \A r \in Reasons : r = reason => Cardinality(Asking(r)') = Cardinality(Asking(r)) - 1
  <2> SUFFICES ASSUME NEW r \in Reasons, r = reason
               PROVE  Cardinality(Asking(r)') = Cardinality(Asking(r)) - 1
    OBVIOUS
  <2>1. Asking(r)' = Asking(r) \ {b} /\ b \in Asking(r) /\ Asking(r) \in SUBSET Buyers
    BY <1>3
  <2>2. Cardinality(Asking(r) \ {b}) = Cardinality(Asking(r)) - 1
    BY <2>1, Leaving
  <2> QED BY <2>1, <2>2
<1>5. /\ refunds' \in [Reasons -> Nat]
      /\ \A r \in Reasons : refunds'[r] = IF r = reason THEN refunds[r] + 1 ELSE refunds[r]
  BY <1>1 DEF FormInv, FormShape
<1>6. FormShape'
  BY <1>1, <1>2, <1>5 DEF FormInv, FormShape
<1>7. \A r \in Reasons : refunds'[r] + Cardinality(Asking(r)') <= Cardinality(Buyers)
  <2> TAKE r \in Reasons
  <2>1. refunds[r] \in Nat /\ refunds[r] + Cardinality(Asking(r)) <= Cardinality(Buyers)
    BY DEF FormInv, FormShape
  <2>2. CASE r = reason
    BY <2>1, <2>2, <1>4, <1>5, Counts
  <2>3. CASE r # reason
    BY <2>1, <2>3, <1>3, <1>5
  <2> QED BY <2>2, <2>3
<1> QED BY <1>1, <1>3, <1>6, <1>7 DEF FormInv

LEMMA SubmissionKeeps ==
  ASSUME FormInv, SubmissionNext
  PROVE  FormInv'
<1> USE SubmissionAssumption DEF SubmissionAssumption
<1>1. CASE PaymentMoves \/ IntentTurns \/ IntentAges
  BY <1>1 DEF PaymentMoves, IntentTurns, IntentAges, FormInv, FormShape, Pending, Missing, Asking
<1>2. CASE RowAges
  <2>1. /\ hour' = hour - 1 /\ hour > 0 /\ hour' \in Nat
        /\ UNCHANGED <<misses, unheard, refunds, form>>
    BY <1>2 DEF RowAges, FormInv, FormShape
  <2>2. Pending' = Pending /\ Missing' = Missing /\ \A r \in Reasons : Asking(r)' = Asking(r)
    BY <2>1 DEF Pending, Missing, Asking
  <2>3. FormShape'
    BY <2>1 DEF FormInv, FormShape
  <2>4. hour' + Cardinality(Pending') < HourlyLimit + Cardinality(Buyers)
    BY <2>1, <2>2, Counts DEF FormInv, FormShape
  <2> QED BY <2>1, <2>2, <2>3, <2>4 DEF FormInv
<1>3. ASSUME NEW b \in Buyers, FindNothing(b) PROVE FormInv'
  BY <1>3, NothingCounted DEF FindNothing, Ats, Rows
<1>4. ASSUME NEW b \in Buyers, FindPayment(b) PROVE FormInv'
  BY <1>4, NothingCounted DEF FindPayment, Ats, Rows
<1>5. ASSUME NEW b \in Buyers, Apply(b) PROVE FormInv'
  BY <1>5, NothingCounted DEF Apply, Ats, Rows
<1>6. ASSUME NEW b \in Buyers, RequestDies(b) PROVE FormInv'
  BY <1>6, NothingCounted DEF RequestDies, Ats, Rows
<1> QED
  BY <1>1, <1>2, <1>3, <1>4, <1>5, <1>6, SubmitKeeps, CountMissesKeeps, RecordKeeps,
     AskForRefundKeeps, RecordRefundKeeps DEF SubmissionNext

\* However many requests overlap, and whichever of them die, no limit is
\* overshot by more than what overlaps.
THEOREM OvershootIsBoundedHolds == SiteSpec => []OvershootIsBounded
<1> USE SubmissionAssumption DEF SubmissionAssumption
<1>1. SiteInit => FormInv
  <2> SUFFICES ASSUME SubmissionInit PROVE FormInv
    BY DEF SiteInit
  <2>1. /\ Pending = {} /\ Missing = {} /\ \A r \in Reasons : Asking(r) = {} /\ refunds[r] = 0
    BY DEF SubmissionInit, NoForm, Pending, Missing, Asking
  <2>2. Cardinality({}) = 0 /\ Cardinality(Buyers) \in Nat /\ Cardinality(Buyers) # 0
    BY FS_EmptySet, FS_CardinalityType
  <2>3. NoForm \in Forms
    BY DEF NoForm, Forms, Ats, Rows
  <2>4. FormShape
    BY <2>3 DEF SubmissionInit, FormShape, NoForm
  <2>5. \A r \in Reasons : refunds[r] + Cardinality(Asking(r)) <= Cardinality(Buyers)
    BY <2>1, <2>2
  <2>6. /\ hour + Cardinality(Pending) < HourlyLimit + Cardinality(Buyers)
        /\ unheard + Cardinality(Missing) + 1 < EscalateAfter + Cardinality(Buyers)
    BY <2>1, <2>2 DEF SubmissionInit
  <2> QED BY <2>4, <2>5, <2>6 DEF FormInv
<1>2. FormInv /\ [SiteNext]_siteVars => FormInv'
  <2> SUFFICES ASSUME FormInv, [SiteNext]_siteVars PROVE FormInv'
    OBVIOUS
  <2>1. CASE UNCHANGED submissionVars
    BY <2>1 DEF submissionVars, FormInv, FormShape, Pending, Missing, Asking
  <2>2. CASE OnlySubmission /\ SubmissionNext
    BY <2>2, SubmissionKeeps
  <2> QED
    BY <2>1, <2>2 DEF SiteNext, siteVars, OnlyAccount, OnlyBalance, OnlyBridge, OnlyMatching,
       OnlyPage, OnlyRequest, OnlySetup, OnlyTenancy, OnlyUpdater
<1>3. FormInv => OvershootIsBounded
  <2> SUFFICES ASSUME FormInv PROVE OvershootIsBounded
    OBVIOUS
  <2>1. \A r \in Reasons : refunds[r] <= Cardinality(Buyers)
    <3> TAKE r \in Reasons
    <3>1. refunds[r] \in Nat /\ refunds[r] + Cardinality(Asking(r)) <= Cardinality(Buyers)
      BY DEF FormInv, FormShape
    <3> QED BY <3>1, Counts
  <2>2. hour < HourlyLimit + Cardinality(Buyers) /\ unheard + 1 < EscalateAfter + Cardinality(Buyers)
    BY Counts DEF FormInv, FormShape
  <2> QED BY <2>1, <2>2 DEF OvershootIsBounded
<1> QED BY <1>1, <1>2, <1>3, PTL DEF SiteSpec

-----------------------------------------------------------------------------
(* The automatic decision: Matching *)

\* What is admitted was loaded, and quotes the code of one order: every other
\* candidate is refused, so the margin has nothing to compare and the score of the
\* one there is reaches the threshold.
LEMMA ScoreReaches ==
  ASSUME NEW m \in Messages, NEW o \in Orders
  PROVE Score(m, o) >= ApproveThreshold
<1>1. ApproveThreshold \in Nat /\ ApproveThreshold <= 160
  BY MatchingAssumption
<1>2. Score(m, o) \in {160, 180}
  BY DEF Score
<1> QED
  BY <1>1, <1>2

LEMMA AdmittedIsQuoted ==
  ASSUME NEW m \in Messages, NEW o \in Waiting, Admits(m, o)
  PROVE o \in Loaded(m) /\ o = m.quoted
BY DEF Loaded, Admits, Waiting

LEMMA LoadedWaits == ASSUME NEW m \in Messages PROVE Loaded(m) \subseteq Waiting
BY DEF Loaded

LEMMA DecidesExactly ==
  ASSUME NEW m \in Messages
  PROVE /\ Resolved(m) = {o \in Waiting : Admits(m, o)}
        /\ Cardinality({o \in Waiting : Admits(m, o)}) <= 1
<1> DEFINE claimants == {o \in Waiting : Admits(m, o)}
<1>1. Scored(m) = claimants
  BY AdmittedIsQuoted, LoadedWaits DEF Scored
<1>2. \A o \in claimants : o = m.quoted
  BY AdmittedIsQuoted
<1>3. \A o \in claimants : o \in Orders /\ Score(m, o) >= ApproveThreshold
  BY ScoreReaches DEF Waiting
<1>4. Resolved(m) = claimants
  <2> HIDE DEF claimants
  <2> QED
    BY <1>1, <1>2, <1>3 DEF Resolved
<1>5. Cardinality(claimants) <= 1
  <2>1. CASE claimants = {}
    BY <2>1, FS_EmptySet
  <2>2. CASE claimants # {}
    <3>1. claimants = {m.quoted}
      BY <1>2, <2>2
    <3>2. Cardinality({m.quoted}) = 1
      BY FS_Singleton
    <3> HIDE DEF claimants
    <3> QED
      BY <3>1, <3>2
  <2> QED
    BY <2>1, <2>2
<1> QED
  BY <1>4, <1>5

\* The decision is exact for every number of orders, prices, clocks, windows and
\* margins, as long as the threshold asks no more than code and sender give.
THEOREM DecisionIsExactHolds == SiteSpec => []DecisionIsExact
<1>1. DecisionIsExact
  BY DecidesExactly DEF DecisionIsExact
<1> QED
  BY <1>1, PTL

-----------------------------------------------------------------------------
(* One business, and a free handle for every other: Tenancy *)

LEMMA HandlesAreFinite ==
  ASSUME shops \in Seq(Seq(Nat)), NEW base
  PROVE IsFiniteSet(Like(base)) /\ Cardinality(Like(base)) \in Nat /\ Like(base) \subseteq ToSet(shops)
<1>1. shops \in Surjection(1 .. Len(shops), ToSet(shops))
  <2>1. DOMAIN shops = 1 .. Len(shops) /\ shops \in [1 .. Len(shops) -> Seq(Nat)]
    OBVIOUS
  <2>2. \A i \in 1 .. Len(shops) : shops[i] \in ToSet(shops)
    BY <2>1 DEF ToSet
  <2>3. \A t \in ToSet(shops) : \E i \in 1 .. Len(shops) : shops[i] = t
    BY <2>1 DEF ToSet
  <2>4. shops \in [1 .. Len(shops) -> ToSet(shops)]
    BY <2>1, <2>2
  <2> QED
    BY <2>3, <2>4 DEF Surjection
<1>2. IsFiniteSet(1 .. Len(shops))
  BY FS_Interval
<1>3. IsFiniteSet(ToSet(shops))
  BY <1>1, <1>2, FS_Surjection
<1>4. Like(base) \subseteq ToSet(shops)
  BY DEF Like
<1> QED
  BY <1>3, <1>4, FS_Subset, FS_CardinalityType

\* A nonempty set of naturals has a least one, which is what Min chooses.
LEMMA MinIsIn == ASSUME NEW S \in SUBSET Nat, S # {} PROVE Min(S) \in S
<1>1. PICK x \in S : \A y \in S : ~ (<<y, x>> \in OpToRel(<, Nat))
  BY WFMin, NatLessThanWellFounded
<1>2. \A y \in S : ~ (y < x)
  BY <1>1 DEF OpToRel
<1>3. \A y \in S : x =< y
  BY <1>2
<1> QED
  BY <1>3 DEF Min

\* Pigeons: there is one suffix more to choose from than there are handles.
LEMMA SuffixIsFree ==
  ASSUME shops \in Seq(Seq(Nat)), NEW base \in Seq(Nat)
  PROVE \E n \in 2 .. Cardinality(Like(base)) + 2 : Append(base, n) \notin Like(base)
<1> DEFINE k == Cardinality(Like(base))
           f == [n \in 2 .. k + 2 |-> Append(base, n)]
<1> SUFFICES ASSUME \A n \in 2 .. k + 2 : Append(base, n) \in Like(base) PROVE FALSE
  OBVIOUS
<1>1. IsFiniteSet(Like(base)) /\ k \in Nat
  BY HandlesAreFinite
<1>2. \A m, n \in Nat : Append(base, m) = Append(base, n) => m = n
  <2> SUFFICES ASSUME NEW m \in Nat, NEW n \in Nat, Append(base, m) = Append(base, n)
               PROVE m = n
    OBVIOUS
  <2>1. Append(base, m)[Len(base) + 1] = m /\ Append(base, n)[Len(base) + 1] = n
    OBVIOUS
  <2> QED
    BY <2>1
<1>3. f \in Injection(2 .. k + 2, Like(base))
  <2>1. f \in [2 .. k + 2 -> Like(base)]
    OBVIOUS
  <2>2. \A m, n \in 2 .. k + 2 : m \in Nat /\ n \in Nat /\ f[m] = Append(base, m)
    BY <1>1
  <2>3. \A m, n \in DOMAIN f : f[m] = f[n] => m = n
    BY <1>2, <2>2
  <2> QED
    BY <2>1, <2>3 DEF Injection, IsInjective
<1>4. Cardinality(2 .. k + 2) <= k
  BY <1>1, <1>3, FS_Injection
<1>5. Cardinality(2 .. k + 2) = k + 1
  BY <1>1, FS_Interval
<1> QED
  BY <1>1, <1>4, <1>5

\* What uniqueSlug gives is a handle, and nobody's.
LEMMA SlugIsFree ==
  ASSUME shops \in Seq(Seq(Nat)), NEW base \in Seq(Nat)
  PROVE FreeSlug(base) \in Seq(Nat) /\ FreeSlug(base) \notin ToSet(shops)
<1> DEFINE free == {n \in 2 .. Cardinality(Like(base)) + 2 : Append(base, n) \notin Like(base)}
<1>1. CASE base \notin Like(base)
  <2>1. SubSeq(base, 1, Len(base)) = base
    BY SubSeqFull
  <2>2. base \notin ToSet(shops)
    BY <1>1, <2>1 DEF Like
  <2> QED
    BY <1>1, <2>2 DEF FreeSlug
<1>2. CASE base \in Like(base)
  <2>1. free # {} /\ free \in SUBSET Nat
    BY SuffixIsFree, HandlesAreFinite
  <2>2. Min(free) \in free
    BY <2>1, MinIsIn
  <2>3. PICK n \in Nat : n = Min(free) /\ Append(base, n) \notin Like(base)
    BY <2>1, <2>2
  <2>4. FreeSlug(base) = Append(base, n)
    BY <1>2, <2>3 DEF FreeSlug
  <2>5. SubSeq(Append(base, n), 1, Len(base)) = base
    OBVIOUS
  <2>6. Append(base, n) \in Seq(Nat) /\ Len(Append(base, n)) >= Len(base)
    OBVIOUS
  <2> QED
    BY <2>3, <2>4, <2>5, <2>6 DEF Like
<1> QED
  BY <1>1, <1>2

\* A request that registers holds a handle nobody has, or has been overtaken once
\* more than it has collided; self-hosted, nobody registers and nobody fails.
Sound(v) ==
    /\ visit[v].step = "new" \/ mode = "single" => visit[v].tries = 0
    /\ visit[v].step \in {"look", "insert"} =>
          visit[v].tries < Tries /\ Len(shops) >= visit[v].began + visit[v].tries
    /\ visit[v].step = "insert" =>
          \/ visit[v].slug \notin ToSet(shops)
          \/ Len(shops) >= visit[v].began + visit[v].tries + 1
    /\ mode = "service" =>
          /\ visit[v].step \in {"new", "look", "insert", "registered", "failed"}
          /\ visit[v].step = "failed" => Len(shops) >= visit[v].began + Tries
    /\ mode = "single" =>
          /\ visit[v].step \in {"new", "find", "create", "reread", "join", "served"}
          /\ visit[v].step \in {"reread", "join", "served"} => shops # <<>>
          /\ visit[v].step = "served" => v \in owners

TenancyInv ==
    /\ mode \in {"single", "service"}
    /\ shops \in Seq(Seq(Nat))
    /\ visit \in [Visitors -> VisitType]
    /\ mode = "single" => shops = <<>> \/ shops = <<DefaultSlug>>
    /\ owners # {} => shops # <<>>
    /\ \A v \in Visitors : Sound(v)

\* Businesses are only added, so what is so of a request that does not move stays so.
LEMMA OthersStaySound ==
  ASSUME NEW w \in Visitors, Sound(w), visit \in [Visitors -> VisitType],
         shops \in Seq(Seq(Nat)), visit'[w] = visit[w], mode' = mode, owners \subseteq owners',
         \/ shops' = shops
         \/ \E s \in Seq(Nat) : shops' = Append(shops, s)
  PROVE Sound(w)'
<1>1. visit[w] \in VisitType
  OBVIOUS
<1>2. visit[w].began \in Nat /\ visit[w].tries \in Nat /\ Len(shops) \in Nat
  BY <1>1 DEF VisitType
<1>3. CASE shops' = shops
  BY <1>3 DEF Sound
<1>4. CASE \E s \in Seq(Nat) : shops' = Append(shops, s)
  <2>1. PICK s \in Seq(Nat) : shops' = Append(shops, s)
    BY <1>4
  <2>2. Len(shops') = Len(shops) + 1
    BY <2>1
  <2>3. Len(shops') # 0 /\ Len(<<>>) = 0
    BY <1>2, <2>2
  <2>4. shops' # <<>>
    BY <2>3
  <2>5. visit'[w].step \in {"look", "insert"} =>
           visit'[w].tries < Tries /\ Len(shops') >= visit'[w].began + visit'[w].tries + 1
    BY <1>2, <2>2 DEF Sound
  <2>6. mode' = "service" /\ visit'[w].step = "failed" => Len(shops') >= visit'[w].began + Tries
    BY <1>2, <2>2, TenancyAssumption DEF Sound
  <2>7. (visit[w].step \in {"look", "insert"} =>
           visit[w].tries < Tries /\ Len(shops) >= visit[w].began + visit[w].tries)'
    BY <1>2, <2>5
  <2>8. (visit[w].step = "insert" =>
           \/ visit[w].slug \notin ToSet(shops)
           \/ Len(shops) >= visit[w].began + visit[w].tries + 1)'
    BY <2>5
  <2> QED
    BY <2>4, <2>6, <2>7, <2>8 DEF Sound
<1> QED
  BY <1>3, <1>4

\* One request moves to a sound state and the rest is kept.
LEMMA OneMoves ==
  ASSUME TenancyInv, NEW v \in Visitors, NEW r \in VisitType,
         visit' = [visit EXCEPT ![v] = r], mode' = mode, owners \subseteq owners',
         \/ shops' = shops
         \/ \E s \in Seq(Nat) : shops' = Append(shops, s),
         (mode = "single" => shops = <<>> \/ shops = <<DefaultSlug>>)',
         owners' # {} => shops' # <<>>,
         Sound(v)'
  PROVE TenancyInv'
<1>1. visit' \in [Visitors -> VisitType] /\ \A w \in Visitors \ {v} : visit'[w] = visit[w]
  BY DEF TenancyInv
<1>2. shops' \in Seq(Seq(Nat))
  <2>1. CASE shops' = shops
    BY <2>1 DEF TenancyInv
  <2>2. ASSUME NEW s \in Seq(Nat), shops' = Append(shops, s) PROVE shops' \in Seq(Seq(Nat))
    BY <2>2 DEF TenancyInv
  <2> QED
    BY <2>1, <2>2
<1>3. \A w \in Visitors \ {v} : Sound(w)'
  BY <1>1, OthersStaySound DEF TenancyInv
<1> QED
  BY <1>1, <1>2, <1>3 DEF TenancyInv

LEMMA MovesTo ==
  ASSUME TenancyInv, NEW v \in Visitors, NEW to, To(v, to),
         to \in {"new", "look", "insert", "registered", "failed",
                   "find", "create", "reread", "join", "served"}
  PROVE \E r \in VisitType :
           /\ visit' = [visit EXCEPT ![v] = r] /\ visit'[v] = r /\ r.step = to
           /\ r.slug = visit[v].slug /\ r.tries = visit[v].tries /\ r.began = visit[v].began
<1> DEFINE r == [visit[v] EXCEPT !.step = to]
<1>1. visit[v] \in VisitType
  BY DEF TenancyInv
<1>2. /\ r \in VisitType /\ r.step = to
      /\ r.slug = visit[v].slug /\ r.tries = visit[v].tries /\ r.began = visit[v].began
  BY <1>1 DEF VisitType
<1>3. visit' = [visit EXCEPT ![v] = r]
  BY DEF To
<1>4. visit'[v] = r
  BY <1>3 DEF TenancyInv
<1> HIDE DEF r
<1> QED
  BY <1>2, <1>3, <1>4

LEMMA RegisterKeeps ==
  ASSUME TenancyInv, NEW v \in Visitors, NEW name \in ShopNames, Register(v, name)
  PROVE TenancyInv'
<1> DEFINE r == [visit[v] EXCEPT !.step = "look", !.name = name, !.began = Len(shops)]
<1>1. visit[v] \in VisitType /\ visit[v].tries = 0 /\ mode = "service" /\ Len(shops) \in Nat
  BY DEF TenancyInv, Register, Sound
<1>2. /\ r \in VisitType /\ r.step = "look" /\ r.tries = 0 /\ r.began = Len(shops)
  BY <1>1 DEF VisitType
<1>3. visit' = [visit EXCEPT ![v] = r]
  BY DEF Register
<1>4. visit'[v] = r
  BY <1>3 DEF TenancyInv
<1> HIDE DEF r
<1>5. Sound(v)'
  BY <1>1, <1>2, <1>4, TenancyAssumption DEF Register, Sound
<1> QED
  BY <1>1, <1>2, <1>3, <1>5, OneMoves DEF Register, TenancyInv

LEMMA ChooseSlugKeeps ==
  ASSUME TenancyInv, NEW v \in Visitors, ChooseSlug(v)
  PROVE TenancyInv'
<1> DEFINE r == [visit[v] EXCEPT !.step = "insert", !.slug = FreeSlug(visit[v].name)]
<1>1. visit[v] \in VisitType /\ shops \in Seq(Seq(Nat)) /\ visit[v].name \in Seq(Nat)
  BY TenancyAssumption DEF TenancyInv, VisitType
<1>2. FreeSlug(visit[v].name) \in Seq(Nat) /\ FreeSlug(visit[v].name) \notin ToSet(shops)
  BY <1>1, SlugIsFree
<1>3. /\ r \in VisitType /\ r.step = "insert" /\ r.slug = FreeSlug(visit[v].name)
      /\ r.tries = visit[v].tries /\ r.began = visit[v].began
  BY <1>1, <1>2 DEF VisitType
<1>4. visit' = [visit EXCEPT ![v] = r]
  BY DEF ChooseSlug
<1>5. visit'[v] = r
  BY <1>4 DEF TenancyInv
<1> HIDE DEF r
<1>6. Sound(v)'
  BY <1>2, <1>3, <1>5 DEF TenancyInv, ChooseSlug, Sound
<1> QED
  BY <1>3, <1>4, <1>6, OneMoves DEF ChooseSlug, TenancyInv

LEMMA InsertShopKeeps ==
  ASSUME TenancyInv, NEW v \in Visitors, InsertShop(v)
  PROVE TenancyInv'
<1>1. visit[v].slug \in Seq(Nat) /\ mode' = mode
  BY DEF TenancyInv, VisitType, InsertShop
<1>2. PICK r \in VisitType :
        /\ visit' = [visit EXCEPT ![v] = r] /\ visit'[v] = r /\ r.step = "registered"
  <2>1. To(v, "registered")
    BY DEF InsertShop, To
  <2> QED
    BY <2>1, MovesTo
<1>3. mode = "service"
  BY DEF InsertShop, TenancyInv, Sound
<1>4. Sound(v)'
  BY <1>1, <1>2, <1>3 DEF Sound
<1>5. shops' # <<>>
  <2>1. Len(Append(shops, visit[v].slug)) = Len(shops) + 1 /\ Len(shops) \in Nat /\ Len(<<>>) = 0
    BY <1>1 DEF TenancyInv
  <2> QED
    BY <2>1 DEF InsertShop
<1> QED
  BY <1>1, <1>2, <1>3, <1>4, <1>5, OneMoves DEF InsertShop

LEMMA SlugCollidesKeeps ==
  ASSUME TenancyInv, NEW v \in Visitors, SlugCollides(v)
  PROVE TenancyInv'
<1> DEFINE next == IF visit[v].tries + 1 < Tries THEN "look" ELSE "failed"
           r == [visit[v] EXCEPT !.tries = visit[v].tries + 1, !.step = next]
<1>1. /\ visit[v] \in VisitType /\ visit[v].tries < Tries /\ Tries \in Nat
      /\ Len(shops) >= visit[v].began + visit[v].tries + 1 /\ mode = "service"
  BY TenancyAssumption DEF TenancyInv, SlugCollides, Sound
<1>2. /\ r \in VisitType /\ r.step = next
      /\ r.tries = visit[v].tries + 1 /\ r.began = visit[v].began
  <2>1. next \in {"look", "failed"} /\ visit[v].tries + 1 \in 0 .. Tries
    BY <1>1 DEF VisitType
  <2> HIDE DEF next
  <2> QED
    BY <1>1, <2>1 DEF VisitType
<1>3. visit' = [visit EXCEPT ![v] = r]
  BY DEF SlugCollides
<1>4. visit'[v] = r
  BY <1>3 DEF TenancyInv
<1>5. visit[v].tries \in Nat /\ visit[v].began \in Nat /\ Len(shops) \in Nat
  BY <1>1 DEF VisitType, TenancyInv
<1>6. Sound(v)'
  <2>1. mode' = mode /\ shops' = shops
    BY DEF SlugCollides
  <2> HIDE DEF r
  <2>2. CASE visit[v].tries + 1 < Tries
    BY <1>1, <1>2, <1>4, <1>5, <2>1, <2>2 DEF Sound
  <2>3. CASE visit[v].tries + 1 = Tries
    BY <1>1, <1>2, <1>4, <1>5, <2>1, <2>3 DEF Sound
  <2> QED
    BY <1>1, <1>5, <2>2, <2>3
<1> HIDE DEF r
<1> QED
  BY <1>2, <1>3, <1>6, OneMoves DEF SlugCollides, TenancyInv

LEMMA SingleKeeps ==
  ASSUME TenancyInv, NEW v \in Visitors,
         Arrive(v) \/ FindShop(v) \/ InsertDefault(v) \/ Reread(v) \/ Join(v) \/ VisitDies(v)
  PROVE TenancyInv'
<1> DEFINE Steps == {"new", "find", "create", "reread", "join", "served"}
<1>1. DefaultSlug \in Seq(Nat) /\ ToSet(<<>>) = {} /\ ToSet(<<DefaultSlug>>) = {DefaultSlug}
  BY TenancyAssumption DEF ToSet
<1>2. mode = "single" /\ mode' = mode
  BY DEF TenancyInv, Sound, Arrive, FindShop, InsertDefault, Reread, Join, VisitDies
<1>3. (shops = <<>> \/ shops = <<DefaultSlug>>) /\ <<DefaultSlug>> # <<>>
  BY <1>2 DEF TenancyInv
<1>4. visit[v].tries = 0
  BY <1>2 DEF TenancyInv, Sound
<1>5. ASSUME NEW to \in Steps, To(v, to), owners \subseteq owners',
             shops' = shops \/ (shops = <<>> /\ shops' = <<DefaultSlug>>),
             to \in {"reread", "join", "served"} => shops' # <<>>,
             to = "served" => v \in owners',
             owners' = owners \/ to = "served"
      PROVE TenancyInv'
  <2>1. PICK r \in VisitType :
          /\ visit' = [visit EXCEPT ![v] = r] /\ visit'[v] = r /\ r.step = to
          /\ r.tries = visit[v].tries
    BY <1>5, MovesTo
  <2>2. Sound(v)'
    BY <1>2, <1>4, <1>5, <2>1 DEF Sound
  <2>3. Append(<<>>, DefaultSlug) = <<DefaultSlug>>
    BY <1>1
  <2>4. shops' = shops \/ shops' = Append(shops, DefaultSlug)
    BY <1>5, <2>3
  <2>5. shops' = <<>> \/ shops' = <<DefaultSlug>>
    BY <1>3, <1>5
  <2>6. owners' # {} => shops' # <<>>
    BY <1>3, <1>5 DEF TenancyInv
  <2> QED
    BY <1>1, <1>2, <1>5, <2>1, <2>2, <2>4, <2>5, <2>6, OneMoves
<1>6. visit[v].step \in {"reread", "join"} => shops # <<>>
  BY <1>2 DEF TenancyInv, Sound
<1>7. CASE Arrive(v)
  <2>1. CASE v \in owners
    <3>1. shops # <<>>
      BY <2>1 DEF TenancyInv
    <3> QED
      BY <1>5, <1>7, <2>1, <3>1 DEF Arrive
  <2>2. CASE v \notin owners
    BY <1>5, <1>7, <2>2 DEF Arrive
  <2> QED
    BY <2>1, <2>2
<1>8. CASE FindShop(v)
  <2>1. CASE shops = <<>>
    BY <1>5, <1>8, <2>1 DEF FindShop
  <2>2. CASE shops # <<>>
    BY <1>5, <1>8, <2>2 DEF FindShop
  <2> QED
    BY <2>1, <2>2
<1>9. CASE InsertDefault(v)
  <2>1. CASE DefaultSlug \in ToSet(shops)
    <3>1. shops # <<>>
      BY <1>1, <2>1
    <3> QED
      BY <1>5, <1>9, <2>1, <3>1 DEF InsertDefault
  <2>2. CASE DefaultSlug \notin ToSet(shops)
    <3>1. shops = <<>>
      BY <1>1, <1>3, <2>2
    <3>2. Append(<<>>, DefaultSlug) = <<DefaultSlug>>
      BY <1>1
    <3>3. shops' = <<DefaultSlug>> /\ owners' = owners /\ To(v, "join")
      BY <1>9, <2>2, <3>1, <3>2 DEF InsertDefault
    <3> QED
      BY <1>3, <1>5, <3>1, <3>3
  <2> QED
    BY <2>1, <2>2
<1>10. CASE Reread(v)
  BY <1>5, <1>6, <1>10 DEF Reread
<1>11. CASE Join(v)
  BY <1>5, <1>6, <1>11 DEF Join
<1>12. CASE VisitDies(v)
  BY <1>5, <1>12 DEF VisitDies
<1> QED
  BY <1>7, <1>8, <1>9, <1>10, <1>11, <1>12

\* The invariant that both properties of Tenancy follow from.
LEMMA TenancyHolds == SiteSpec => []TenancyInv
<1>1. SiteInit => TenancyInv
  <2> SUFFICES ASSUME SiteInit PROVE TenancyInv
    OBVIOUS
  <2>1. /\ mode \in {"single", "service"} /\ shops = <<>> /\ owners = {}
        /\ visit = [v \in Visitors |->
                       [step |-> "new", name |-> CHOOSE n \in ShopNames : TRUE,
                        slug |-> <<>>, tries |-> 0, began |-> 0]]
    BY DEF SiteInit, TenancyInit
  <2>2. (CHOOSE n \in ShopNames : TRUE) \in ShopNames /\ <<>> \in Seq(Nat) /\ 0 \in 0 .. Tries
    BY TenancyAssumption
  <2>3. visit \in [Visitors -> VisitType]
    BY <2>1, <2>2 DEF VisitType
  <2>4. \A v \in Visitors : Sound(v)
    BY <2>1 DEF Sound
  <2> QED
    BY <2>1, <2>3, <2>4 DEF TenancyInv
<1>2. TenancyInv /\ [SiteNext]_siteVars => TenancyInv'
  <2> SUFFICES ASSUME TenancyInv, [SiteNext]_siteVars PROVE TenancyInv'
    OBVIOUS
  <2>1. CASE OnlyTenancy /\ TenancyNext
    <3>1. PICK v \in Visitors :
            \/ \E name \in ShopNames : Register(v, name)
            \/ ChooseSlug(v) \/ InsertShop(v) \/ SlugCollides(v)
            \/ Arrive(v) \/ FindShop(v) \/ InsertDefault(v) \/ Reread(v) \/ Join(v)
            \/ VisitDies(v)
      BY <2>1 DEF TenancyNext
    <3> QED
      BY <3>1, RegisterKeeps, ChooseSlugKeeps, InsertShopKeeps, SlugCollidesKeeps, SingleKeeps
  <2>2. CASE UNCHANGED tenancyVars
    BY <2>2 DEF tenancyVars, TenancyInv, Sound
  <2> QED
    BY <2>1, <2>2 DEF SiteNext, siteVars, OnlyAccount, OnlyBalance, OnlyBridge, OnlyMatching,
       OnlyPage, OnlyRequest, OnlySetup, OnlySubmission, OnlyUpdater
<1> QED
  BY <1>1, <1>2, PTL DEF SiteSpec

\* Whatever the names, the users and the attempts allowed, a registration fails
\* only after as many others came between.
THEOREM NamesAreRegisterableHolds == SiteSpec => []NamesAreRegisterable
<1>1. TenancyInv => NamesAreRegisterable
  BY DEF TenancyInv, Sound, NamesAreRegisterable
<1> QED
  BY <1>1, TenancyHolds, PTL

\* An instance that is one shop's has one business, however many first requests
\* look for it, make it and die at once.
THEOREM OneShopHolds == SiteSpec => []OneShop
<1>1. TenancyInv => OneShop
  <2> SUFFICES ASSUME TenancyInv, mode = "single" PROVE OneShop
    BY DEF OneShop
  <2>1. Len(<<>>) = 0 /\ Len(<<DefaultSlug>>) = 1
    OBVIOUS
  <2>2. shops = <<>> \/ shops = <<DefaultSlug>>
    BY DEF TenancyInv
  <2>3. Len(shops) <= 1 /\ (shops # <<>> => Len(shops) = 1)
    BY <2>1, <2>2
  <2>4. \A v \in Visitors :
          /\ visit[v].step \in {"reread", "join", "served"} => shops # <<>>
          /\ visit[v].step = "served" => v \in owners
          /\ visit[v].step # "failed"
    BY DEF TenancyInv, Sound
  <2> QED
    BY <2>3, <2>4 DEF OneShop
<1> QED
  BY <1>1, TenancyHolds, PTL
=============================================================================
