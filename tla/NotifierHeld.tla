---------------------------- MODULE NotifierHeld ----------------------------
(***************************************************************************)
(* Where no call was lost, nobody disconnected a number and no two wallets *)
(* share one, every credential the server honours for our handset is on    *)
(* the handset or on its way there.                                        *)
(***************************************************************************)
EXTENDS NotifierProofs

-----------------------------------------------------------------------------
(* The invariant *)

\* A row that answers, or may still answer, to its token; one nobody claimed.
Alive(d)     == rowStatus[d] \in {"awaiting_approval", "active"}
Unclaimed(d) == rowStatus[d] \in {"absent", "pending", "lapsed"}

\* A token the phone works with, wherever it keeps it.
Uses(d, k) ==
  \/ Paired(d) /\ pairing[d].token = k
  \/ \E t \in Tasks :
        \/ \E s \in task[t].todo : s.device = d /\ s.token = k
        \/ task[t].on # NoSnapshot /\ task[t].on.device = d /\ task[t].on.token = k
  \/ \E r \in requests : r.kind # "pair" /\ r.device = d /\ r.token = k

\* A new token on its way to the phone.
Fetches(t, d) == answer[t].outcome = "ok" /\ task[t].call = "pair" /\ answer[t].device = d
Renews(t, d)  == answer[t].outcome = "ok" /\ task[t].call = "rotate" /\ task[t].on.device = d
Brings(t, d)  == Fetches(t, d) \/ Renews(t, d)

\* What the phone works with it is paired for, and the server has not moved
\* back behind it.  A new token is the row's present one, nobody has it yet,
\* and only one answer brings it.
HeldFor(d) ==
  /\ Unclaimed(d) => ~Paired(d) /\ \A t \in Tasks : ~Brings(t, d)
  /\ \A k \in Nat : Uses(d, k) => Paired(d) /\ (Alive(d) => k <= token[d])
  /\ Alive(d) => \A t \in Tasks : Brings(t, d) =>
        /\ answer[t].token = token[d] /\ ~Uses(d, token[d])
        /\ \A u \in Tasks : Brings(u, d) => u = t
        /\ Fetches(t, d) => ~Paired(d)
  /\ Alive(d) /\ install[d] = "ours" =>
        (\E t \in Tasks : Brings(t, d)) \/ (Paired(d) /\ pairing[d].token = token[d])
  /\ Paired(d) => pairing[d].token # 0
  /\ \A t \in Tasks : Brings(t, d) => answer[t].token # 0

\* Somebody waits for every token the server gives our handset.
Awaited ==
  \A r \in requests : (r.kind = "pair" /\ r.install = "ours") \/ r.kind = "rotate" => r.to \in Tasks
NobodyLeaves == \A t \in Tasks : task[t].kind # "leave"

Held == Awaited /\ NobodyLeaves /\ \A d \in Devices : HeldFor(d)

-----------------------------------------------------------------------------
(* Steps that bring a row nothing new *)

\* The row answers to the token it answered to, or to none.
Settled(d) ==
  /\ Alive(d)' => Alive(d) /\ token'[d] = token[d] /\ install'[d] = install[d]
  /\ Unclaimed(d)' => Unclaimed(d)

SamePairing(d) ==
  /\ Paired(d)' <=> Paired(d)
  /\ Paired(d) => pairing'[d].token = pairing[d].token

\* The task is told what it was told, or nothing of a token.
Tokenless(t) == answer[t].outcome # "ok" \/ task[t].call \notin {"pair", "rotate"}
Untold(t) ==
  \/ answer'[t] = answer[t] /\ task'[t].call = task[t].call /\ task'[t].on = task[t].on
  \/ Tokenless(t) /\ Tokenless(t)'

\* What an answer brings a row is what it brought.
SameNews(d) ==
  \A t \in Tasks : /\ Fetches(t, d)' <=> Fetches(t, d)
                   /\ Renews(t, d)' <=> Renews(t, d)
                   /\ Brings(t, d) => answer'[t] = answer[t]

LEMMA QuietBrings ==
  ASSUME NEW d \in Devices, HeldFor(d), token \in [Devices -> Nat], Settled(d), SamePairing(d),
         SameNews(d), \A k \in Nat : Uses(d, k)' => Uses(d, k)
  PROVE  HeldFor(d)'
<1>1. \A t \in Tasks : /\ Fetches(t, d)' <=> Fetches(t, d)
                       /\ Brings(t, d)' <=> Brings(t, d)
                       /\ Brings(t, d) => answer'[t] = answer[t]
  BY DEF SameNews, Brings
<1>2. token[d] \in Nat
  OBVIOUS
<1>3. /\ Unclaimed(d)' => ~Paired(d)' /\ \A t \in Tasks : ~Brings(t, d)'
      /\ Paired(d)' => pairing'[d].token # 0
      /\ \A t \in Tasks : Brings(t, d)' => answer'[t].token # 0
  BY <1>1 DEF HeldFor, Settled, SamePairing
<1>4. \A k \in Nat : Uses(d, k)' => Paired(d)' /\ (Alive(d)' => k <= token'[d])
  BY <1>2 DEF HeldFor, Settled, SamePairing
<1>5. ASSUME Alive(d)', NEW t \in Tasks, Brings(t, d)'
      PROVE  /\ answer'[t].token = token'[d] /\ ~Uses(d, token[d])'
             /\ \A u \in Tasks : Brings(u, d)' => u = t
             /\ Fetches(t, d)' => ~Paired(d)'
  <2>1. Alive(d) /\ token'[d] = token[d] /\ Brings(t, d) /\ answer'[t] = answer[t]
    BY <1>1, <1>5 DEF Settled
  <2>2. ~Uses(d, token[d]) /\ answer[t].token = token[d]
    BY <2>1 DEF HeldFor
  <2>3. ~Uses(d, token[d])'
    <3>1. PICK k \in Nat : k = token[d]
      BY <1>2
    <3>2. ~Uses(d, k)'
      BY <2>2, <3>1
    <3>3. Uses(d, token[d])' <=> Uses(d, k)'
      BY <2>1, <3>1 DEF Uses
    <3> QED BY <3>2, <3>3
  <2> QED BY <1>1, <1>5, <2>1, <2>2, <2>3 DEF HeldFor, SamePairing
<1>6. Alive(d)' /\ install'[d] = "ours" =>
        (\E t \in Tasks : Brings(t, d)') \/ (Paired(d)' /\ pairing'[d].token = token'[d])
  BY <1>1 DEF HeldFor, Settled, SamePairing
<1> QED BY <1>3, <1>4, <1>5, <1>6 DEF HeldFor

LEMMA QuietHeld ==
  ASSUME NEW d \in Devices, HeldFor(d), token \in [Devices -> Nat], Settled(d), SamePairing(d),
         \A t \in Tasks : Untold(t), \A k \in Nat : Uses(d, k)' => Uses(d, k)
  PROVE  HeldFor(d)'
<1>1. SameNews(d)
  BY DEF SameNews, Untold, Tokenless, Fetches, Renews, Brings
<1> QED BY <1>1, QuietBrings

\* Where the phone works with nothing new.
LEMMA UsesKept ==
  ASSUME \A d \in Devices : SamePairing(d),
         \A t \in Tasks : \A s \in task'[t].todo : Uses(s.device, s.token),
         \A t \in Tasks : task'[t].on # NoSnapshot => Uses(task'[t].on.device, task'[t].on.token),
         \A r \in requests' : r.kind # "pair" => Uses(r.device, r.token)
  PROVE  \A d \in Devices, k \in Nat : Uses(d, k)' => Uses(d, k)
  BY DEF Uses, SamePairing

LEMMA UsedNow ==
  /\ \A t \in Tasks : \A s \in task[t].todo : Uses(s.device, s.token)
  /\ \A t \in Tasks : task[t].on # NoSnapshot => Uses(task[t].on.device, task[t].on.token)
  /\ \A r \in requests : r.kind # "pair" => Uses(r.device, r.token)
  BY DEF Uses

-----------------------------------------------------------------------------
(* The server *)

LEMMA OperatorHeld ==
  ASSUME Inv, Held, Operator
  PROVE  Held'
<1>1. /\ UNCHANGED <<pairing, task, answer>>
      /\ \A r \in requests' : r \in requests \/ (r.kind = "pair" /\ r.install = "other")
  BY DEF Operator, ShowCode, CodeExpires, ApproveDevice, RevokeDevice, Revoke, RequestTokenRotation,
     RequestSending, QueueCommand, AddAccountRead, AddAccountWrite, StrangerScans, wire
<1>2. /\ rowStatus \in [Devices -> RowStatus] /\ token \in [Devices -> Nat]
      /\ install \in [Devices -> Handsets \cup {"nobody"}]
  BY DEF Inv, TypeOK
<1>3. ASSUME NEW d \in Devices PROVE Settled(d)
  <2>1. CASE UNCHANGED <<rowStatus, token, install>>
    BY <2>1 DEF Settled, Alive, Unclaimed
  <2>2. ASSUME NEW e \in Devices, ShowCode(e) \/ CodeExpires(e) \/ ApproveDevice(e) \/ RevokeDevice(e)
        PROVE  Settled(d)
    BY <1>2, <2>2 DEF ShowCode, CodeExpires, ApproveDevice, Approvable, RevokeDevice, Revoke, Settled,
       Alive, Unclaimed
  <2>3. CASE AddAccountWrite
    <3>1. adding.wallet \in Wallets /\ adding.wallet \in Devices
      BY <2>3, NotifierAssumption DEF AddAccountWrite, Inv, TypeOK, NotifierAssumption
    <3>2. Addable(adding.wallet) => rowStatus[adding.wallet] = "absent"
      BY <3>1 DEF Addable
    <3> QED BY <1>2, <2>1, <2>3, <3>1, <3>2 DEF AddAccountWrite, Settled, Alive, Unclaimed
  <2>4. ASSUME NEW e \in Devices,
               \/ RequestTokenRotation(e) \/ StrangerScans(e)
               \/ \E on \in BOOLEAN : RequestSending(e, on)
               \/ \E w \in Wallets : AddAccountRead(e, w)
        PROVE  Settled(d)
    BY <2>1, <2>4 DEF RequestTokenRotation, RequestSending, QueueCommand, StrangerScans,
       AddAccountRead, rows
  <2> QED BY <2>2, <2>3, <2>4 DEF Operator
<1>4. \A d \in Devices : SamePairing(d)
  BY <1>1 DEF SamePairing, Paired
<1>5. \A d \in Devices, k \in Nat : Uses(d, k)' => Uses(d, k)
  BY <1>1 DEF Uses, Paired
<1>6. \A t \in Tasks : Untold(t)
  BY <1>1 DEF Untold
<1>7. \A d \in Devices : HeldFor(d)'
  BY <1>2, <1>3, <1>4, <1>5, <1>6, QuietHeld DEF Held
<1> QED BY <1>1, <1>7 DEF Held, Awaited, NobodyLeaves

\* An answer that brings no token.
LEMMA ReplyHeld ==
  ASSUME Inv, Held, NEW r \in requests, NEW a, Reply(r, a), UNCHANGED <<pairing, task>>,
         a.outcome = "ok" => r.kind \notin {"pair", "rotate"}, \A d \in Devices : Settled(d)
  PROVE  Held'
<1>1. /\ answer \in [Tasks -> Answer] /\ token \in [Devices -> Nat]
      /\ r.to \in Tasks => task[r.to].call = r.kind /\ answer[r.to] = NoAnswer
  BY DEF Inv, TypeOK, OneCall
<1>2. requests' \subseteq requests /\ (answer' = answer \/ answer' = [answer EXCEPT ![r.to] = a])
  BY DEF Reply
<1>3. \A t \in Tasks : Untold(t)
  BY <1>1, <1>2, NoAnswerShape DEF Untold, Tokenless
<1>4. \A d \in Devices : SamePairing(d)
  BY DEF SamePairing, Paired
<1>5. \A d \in Devices, k \in Nat : Uses(d, k)' => Uses(d, k)
  BY <1>2 DEF Uses, Paired
<1>6. \A d \in Devices : HeldFor(d)'
  BY <1>1, <1>3, <1>4, <1>5, QuietHeld DEF Held
<1> QED BY <1>2, <1>6 DEF Held, Awaited, NobodyLeaves

LEMMA AdvanceHeld ==
  ASSUME Inv, Held, NEW r \in requests, NEW s, Advance(r, s), s.kind = r.kind, s.to = r.to,
         s.device = r.device, r.kind # "pair" => s.token = r.token,
         r.kind = "pair" => s.install = r.install,
         UNCHANGED <<rows, pairing, task, answer>>
  PROVE  Held'
<1>1. requests' = (requests \ {r}) \cup {s}
  BY DEF Advance
<1>2. \A d \in Devices, k \in Nat : Uses(d, k)' => Uses(d, k)
  BY <1>1 DEF Uses, Paired
<1>3. \A d \in Devices : SamePairing(d) /\ Settled(d)
  BY DEF SamePairing, Paired, Settled, Alive, Unclaimed, rows
<1>4. \A t \in Tasks : Untold(t)
  BY DEF Untold
<1>5. \A d \in Devices : HeldFor(d)'
  BY <1>2, <1>3, <1>4, QuietHeld DEF Held, Inv, TypeOK
<1> QED BY <1>1, <1>5 DEF Held, Awaited, NobodyLeaves

\* The other rows, when a token of one is replaced.
LEMMA OthersHeld ==
  ASSUME Inv, Held, NEW r \in requests, NEW a, Reply(r, a), UNCHANGED <<pairing, task>>,
         a.outcome = "ok", r.kind = "pair" => a.device = r.device,
         NEW d \in Devices, d # r.device, Settled(d)
  PROVE  HeldFor(d)'
<1>1. /\ answer \in [Tasks -> Answer] /\ token \in [Devices -> Nat]
      /\ r.to \in Tasks => /\ task[r.to].call = r.kind /\ answer[r.to] = NoAnswer
                           /\ r.kind # "pair" => task[r.to].on.device = r.device
  BY DEF Inv, TypeOK, OneCall
<1>2. requests' \subseteq requests /\ (answer' = answer \/ answer' = [answer EXCEPT ![r.to] = a])
  BY DEF Reply
<1>3. SameNews(d)
  <2> SUFFICES ASSUME NEW t \in Tasks
               PROVE  /\ Fetches(t, d)' <=> Fetches(t, d)
                      /\ Renews(t, d)' <=> Renews(t, d)
                      /\ Brings(t, d) => answer'[t] = answer[t]
    BY DEF SameNews
  <2>1. CASE answer'[t] = answer[t]
    BY <2>1 DEF Fetches, Renews
  <2>2. CASE answer'[t] # answer[t]
    <3>1. t = r.to /\ answer'[t] = a /\ answer[t] = NoAnswer
      BY <1>1, <1>2, <2>2
    <3> QED BY <1>1, <3>1, NoAnswerShape DEF Fetches, Renews, Brings
  <2> QED BY <2>1, <2>2
<1>4. \A k \in Nat : Uses(d, k)' => Uses(d, k)
  BY <1>2 DEF Uses, Paired
<1>5. SamePairing(d) /\ HeldFor(d)
  BY DEF SamePairing, Paired, Held
<1> QED BY <1>1, <1>3, <1>4, <1>5, QuietBrings

\* A phone that is known has no newer token on its way: it gets the only one.
LEMMA RotationHeld ==
  ASSUME Inv, Held, NEW r \in requests, CompleteTokenRotation(r), rowStatus[r.device] = "active", Known(r)
  PROVE  Held'
<1> DEFINE e == r.device
           a == [outcome |-> "ok", token |-> token[r.device] + 1]
<1>1. /\ r.kind = "rotate" /\ r \in Request /\ e \in Devices /\ r.token = token[e] /\ r.token \in Nat
      /\ token \in [Devices -> Nat] /\ answer \in [Tasks -> Answer]
  BY RequestShape DEF CompleteTokenRotation, Inv, TypeOK, Known
<1>2. /\ token' = [token EXCEPT ![e] = @ + 1] /\ Reply(r, a)
      /\ UNCHANGED <<rowStatus, install, pairing, task>>
  BY DEF CompleteTokenRotation
<1>3. /\ r.to \in Tasks /\ task[r.to].call = "rotate" /\ task[r.to].on.device = e
      /\ answer' = [answer EXCEPT ![r.to] = a] /\ requests' \subseteq requests
  <2>1. r.to \in Tasks
    BY <1>1 DEF Held, Awaited
  <2> QED BY <1>1, <1>2, <2>1, NotifierAssumption DEF Inv, OneCall, Reply, NotifierAssumption
<1>4. HeldFor(e) /\ Alive(e) /\ Uses(e, token[e])
  BY <1>1 DEF Held, Alive, Uses
<1>5. Paired(e) /\ pairing[e].token # 0 /\ \A t \in Tasks : ~Brings(t, e)
  BY <1>1, <1>4 DEF HeldFor
<1>6. ASSUME NEW t \in Tasks
      PROVE  ~Fetches(t, e)' /\ (Brings(t, e)' <=> t = r.to)
  <2>1. CASE t = r.to
    BY <1>1, <1>2, <1>3, <2>1 DEF Fetches, Renews, Brings
  <2>2. CASE t # r.to
    BY <1>1, <1>2, <1>3, <1>5, <2>2 DEF Fetches, Renews, Brings
  <2> QED BY <2>1, <2>2
<1>7. ASSUME NEW k \in Nat, Uses(e, k)' PROVE k <= token[e]
  <2>1. Uses(e, k)
    BY <1>2, <1>3, <1>7 DEF Uses, Paired
  <2> QED BY <1>4, <2>1 DEF HeldFor
<1>8. PICK n \in Nat : n = token[e] + 1
  BY <1>1
<1>9. /\ token'[e] = n /\ n # 0 /\ answer'[r.to].token = n
      /\ \A k \in Nat : k <= token[e] => k <= n /\ k # n
  BY <1>1, <1>2, <1>3, <1>8
<1>10. ~Uses(e, n)' /\ (Uses(e, token[e])' <=> Uses(e, n)')
  BY <1>7, <1>8, <1>9 DEF Uses
<1>11. ~Unclaimed(e)' /\ Paired(e)' /\ pairing'[e] = pairing[e]
  BY <1>2, <1>5 DEF Unclaimed, Paired
<1>12. HeldFor(e)'
  BY <1>3, <1>5, <1>6, <1>7, <1>9, <1>10, <1>11 DEF HeldFor
<1>13. ASSUME NEW d \in Devices, d # e PROVE HeldFor(d)'
  <2>1. Settled(d)
    BY <1>1, <1>2, <1>13 DEF Settled, Alive, Unclaimed
  <2>2. a.outcome = "ok"
    OBVIOUS
  <2> HIDE DEF a
  <2> QED BY <1>1, <1>2, <1>13, <2>1, <2>2, OthersHeld
<1> QED BY <1>2, <1>3, <1>12, <1>13 DEF Held, Awaited, NobodyLeaves

\* A phone that claims a code is the first to, and the row is new to it.
LEMMA ClaimHeld ==
  ASSUME Inv, Held, NEW r \in requests, ClaimWrite(r), Burnable(r.device)
  PROVE  Held'
<1> DEFINE e == r.device
           a == [outcome |-> "ok", device |-> r.device, token |-> token[r.device] + 1,
                 awaiting |-> ~r.inherits]
<1>1. /\ r.kind = "pair" /\ r \in Request /\ e \in Devices /\ token \in [Devices -> Nat]
      /\ answer \in [Tasks -> Answer] /\ install \in [Devices -> Handsets \cup {"nobody"}]
  BY RequestShape DEF ClaimWrite, Inv, TypeOK
<1>2. /\ rowStatus' = [d \in Devices |->
             IF d = e THEN (IF r.inherits THEN "active" ELSE "awaiting_approval")
             ELSE IF Retired(r, d) THEN "revoked" ELSE rowStatus[d]]
      /\ token' = [d \in Devices |->
             IF d = e THEN token[d] + 1 ELSE IF Retired(r, d) THEN 0 ELSE token[d]]
      /\ install' = [install EXCEPT ![e] = r.install]
      /\ Reply(r, a) /\ UNCHANGED <<pairing, task>>
  BY DEF ClaimWrite
<1>3. HeldFor(e) /\ Unclaimed(e)
  BY <1>1 DEF Held, Unclaimed, Burnable
<1>4. /\ ~Paired(e) /\ \A t \in Tasks : ~Brings(t, e)
      /\ \A k \in Nat : ~Uses(e, k)
  BY <1>3 DEF HeldFor
<1>5. /\ requests' \subseteq requests
      /\ r.to \in Tasks => /\ task[r.to].call = "pair" /\ answer' = [answer EXCEPT ![r.to] = a]
      /\ r.to \notin Tasks => answer' = answer
      /\ r.install = "ours" => r.to \in Tasks
  <2>1. r.to \in Tasks \cup {NoTask}
    BY <1>1, RequestShape DEF Waiter
  <2> QED BY <1>1, <1>2, <2>1, NotifierAssumption DEF Inv, OneCall, Reply, NotifierAssumption, Held, Awaited
<1>6. \A k \in Nat : ~Uses(e, k)'
  BY <1>2, <1>4, <1>5 DEF Uses, Paired
<1>7. PICK n \in Nat : n = token[e] + 1
  BY <1>1
<1>8. token'[e] = n /\ n # 0 /\ a.token = n /\ a.outcome = "ok" /\ a.device = e
  BY <1>1, <1>2, <1>7
<1>9. ASSUME NEW t \in Tasks
      PROVE  Brings(t, e)' <=> t = r.to
  <2> HIDE DEF a
  <2>1. CASE t = r.to
    BY <1>1, <1>2, <1>5, <1>8, <2>1 DEF Fetches, Renews, Brings
  <2>2. CASE t # r.to
    BY <1>1, <1>2, <1>4, <1>5, <2>2 DEF Fetches, Renews, Brings
  <2> QED BY <2>1, <2>2
<1>10. \A t \in Tasks : Brings(t, e)' => answer'[t].token = n
  BY <1>1, <1>5, <1>8, <1>9
<1>11. ~Unclaimed(e)' /\ ~Paired(e)' /\ install'[e] = r.install
  BY <1>1, <1>2, <1>4 DEF Unclaimed, Paired
<1>12. ~Uses(e, token[e])'
  <2>1. Uses(e, token[e])' <=> Uses(e, n)'
    BY <1>8 DEF Uses
  <2> QED BY <1>6, <2>1
<1>13. HeldFor(e)'
  <2> HIDE DEF a
  <2> QED BY <1>5, <1>6, <1>8, <1>9, <1>10, <1>11, <1>12 DEF HeldFor
<1>14. ASSUME NEW d \in Devices, d # e PROVE HeldFor(d)'
  <2>1. Settled(d)
    BY <1>1, <1>2, <1>14 DEF Settled, Alive, Unclaimed
  <2> HIDE DEF a
  <2> QED BY <1>1, <1>2, <1>8, <1>14, <2>1, OthersHeld
<1> QED BY <1>2, <1>5, <1>13, <1>14 DEF Held, Awaited, NobodyLeaves

LEMMA ServeHeld ==
  ASSUME Inv, Held, NEW r \in requests, Serve(r)
  PROVE  Held'
<1>1. /\ r \in Request /\ r.device \in Devices
      /\ rowStatus \in [Devices -> RowStatus] /\ token \in [Devices -> Nat]
  BY RequestShape DEF Inv, TypeOK
<1>2. UNCHANGED <<pairing, task>>
  BY DEF Serve, Authenticate, AnswerBeat, AnswerBatch, CompleteTokenRotation, RevokeSelf, Revoke,
     ClaimRead, ClaimWrite, Ingest
<1>3. UNCHANGED <<rowStatus, token, install>> => \A d \in Devices : Settled(d)
  BY DEF Settled, Alive, Unclaimed
<1>4. CASE Authenticate(r)
  <2> DEFINE s == [r EXCEPT !.stage = "admitted"]
  <2>1. UNCHANGED rows /\ r.kind # "pair" /\ UNCHANGED <<rowStatus, token, install>>
    BY <1>4 DEF Authenticate, rows
  <2>2. s.kind = r.kind /\ s.device = r.device /\ s.token = r.token /\ s.to = r.to
    <3>1. r \in CallRequest \/ r \in BeatRequest \/ r \in BatchRequest
      BY <1>1, <2>1, RequestShape
    <3> QED BY <3>1 DEF CallRequest, BeatRequest, BatchRequest
  <2>3. CASE Advance(r, s) /\ UNCHANGED answer
    <3> HIDE DEF s
    <3> QED BY <1>2, <2>1, <2>2, <2>3, AdvanceHeld
  <2>4. CASE Reply(r, [outcome |-> "waiting"]) \/ Reply(r, [outcome |-> "unauthorized"])
    BY <1>2, <1>3, <2>1, <2>4, ReplyHeld
  <2> QED BY <1>4, <2>3, <2>4 DEF Authenticate, Refuse
<1>5. CASE AnswerBeat(r)
  BY <1>2, <1>3, <1>5, ReplyHeld DEF AnswerBeat
<1>6. CASE AnswerBatch(r)
  BY <1>2, <1>3, <1>6, ReplyHeld DEF AnswerBatch, rows
<1>7. CASE CompleteTokenRotation(r)
  <2>1. CASE rowStatus[r.device] = "active" /\ Known(r)
    BY <1>7, <2>1, RotationHeld
  <2>2. CASE ~(rowStatus[r.device] = "active" /\ Known(r))
    BY <1>2, <1>3, <1>7, <2>2, ReplyHeld DEF CompleteTokenRotation, Refuse
  <2> QED BY <2>1, <2>2
<1>8. CASE RevokeSelf(r)
  <2>1. \A d \in Devices : Settled(d)
    BY <1>1, <1>8 DEF RevokeSelf, Revoke, Settled, Alive, Unclaimed
  <2> QED BY <1>2, <1>8, <2>1, ReplyHeld DEF RevokeSelf
<1>9. CASE ClaimRead(r)
  <2> DEFINE s == [r EXCEPT !.stage = "admitted", !.inherits = Inherits(r)]
  <2>1. r \in PairingRequest /\ r.kind = "pair" /\ UNCHANGED rows /\ UNCHANGED <<rowStatus, token, install>>
    BY <1>1, <1>9, RequestShape DEF ClaimRead, rows
  <2>2. s.kind = r.kind /\ s.device = r.device /\ s.to = r.to /\ s.install = r.install
    BY <2>1 DEF PairingRequest
  <2>3. CASE Advance(r, s) /\ UNCHANGED answer
    <3> HIDE DEF s
    <3> QED BY <1>2, <2>1, <2>2, <2>3, AdvanceHeld
  <2>4. CASE Refuse(r)
    BY <1>2, <1>3, <2>1, <2>4, ReplyHeld DEF Refuse
  <2> QED BY <1>9, <2>3, <2>4 DEF ClaimRead
<1>10. CASE ClaimWrite(r)
  <2>1. CASE Burnable(r.device)
    BY <1>10, <2>1, ClaimHeld
  <2>2. CASE ~Burnable(r.device)
    BY <1>2, <1>3, <1>10, <2>2, ReplyHeld DEF ClaimWrite, Refuse
  <2> QED BY <2>1, <2>2
<1>11. ASSUME NEW m \in r.load, Ingest(r, m) PROVE Held'
  <2> DEFINE s == [r EXCEPT !.load = @ \ {m}, !.done = @ \cup {m}]
  <2>1. r \in BatchRequest
    BY <1>1, <1>11, RequestShape DEF Ingest
  <2>2. s.kind = r.kind /\ s.device = r.device /\ s.token = r.token /\ s.to = r.to /\ r.kind # "pair"
    BY <2>1 DEF BatchRequest
  <2>3. Advance(r, s) /\ UNCHANGED <<rows, answer>>
    BY <1>11 DEF Ingest
  <2> HIDE DEF s
  <2> QED BY <1>2, <2>2, <2>3, AdvanceHeld
<1> QED BY <1>4, <1>5, <1>6, <1>7, <1>8, <1>9, <1>10, <1>11 DEF Serve

-----------------------------------------------------------------------------
(* The phone *)

\* A pairing that is edited keeps its token.
LEMMA EditHeld ==
  ASSUME pairing \in [Devices -> Pairing], NEW d \in Devices, NEW p \in Pairing,
         pairing' = With(d, p), p.token = pairing[d].token, Paired(d) => pairing[d].token # 0
  PROVE  \A e \in Devices : SamePairing(e)
<1>1. CASE Paired(d)
  <2>1. pairing' = [pairing EXCEPT ![d] = p]
    BY <1>1 DEF With
  <2>2. p # NoPairing
    BY <1>1 DEF NoPairing
  <2> QED BY <1>1, <2>1, <2>2 DEF SamePairing, Paired
<1>2. CASE ~Paired(d)
  BY <1>2 DEF With, SamePairing, Paired
<1> QED BY <1>1, <1>2

LEMMA LatchHeld ==
  ASSUME pairing \in [Devices -> Pairing], Held, NEW d \in Devices, pairing' = Latch(d)
  PROVE  \A e \in Devices : SamePairing(e)
<1> DEFINE p == [pairing[d] EXCEPT !.revoked = TRUE]
<1>1. p \in Pairing /\ p.token = pairing[d].token
  BY DEF Pairing
<1>2. pairing' = With(d, p) /\ (Paired(d) => pairing[d].token # 0)
  BY DEF Latch, Held, HeldFor
<1> HIDE DEF p
<1> QED BY <1>1, <1>2, EditHeld

\* A task goes on, with pairings and tokens the phone has.
LEMMA TaskHeld ==
  ASSUME Inv, Held, NEW t \in Tasks, NEW k \in Task, k.kind # "leave",
         task' = [task EXCEPT ![t] = k], UNCHANGED rows, \A d \in Devices : SamePairing(d),
         \A u \in Tasks : Untold(u),
         \A s \in k.todo : Uses(s.device, s.token),
         k.on # NoSnapshot => Uses(k.on.device, k.on.token),
         \A r \in requests' : \/ r \in requests
                              \/ r.kind # "pair" /\ Uses(r.device, r.token) /\ r.to \in Tasks
                              \/ r.kind = "pair" /\ r.to \in Tasks
  PROVE  Held'
<1>1. task \in [Tasks -> Task] /\ token \in [Devices -> Nat]
  BY DEF Inv, TypeOK
<1>2. /\ \A u \in Tasks : \A s \in task'[u].todo : Uses(s.device, s.token)
      /\ \A u \in Tasks : task'[u].on # NoSnapshot => Uses(task'[u].on.device, task'[u].on.token)
      /\ \A r \in requests' : r.kind # "pair" => Uses(r.device, r.token)
  BY <1>1, UsedNow
<1>3. \A d \in Devices, n \in Nat : Uses(d, n)' => Uses(d, n)
  BY <1>2, UsesKept
<1>4. \A d \in Devices : Settled(d)
  BY DEF Settled, Alive, Unclaimed, rows
<1>5. \A d \in Devices : HeldFor(d)'
  BY <1>1, <1>3, <1>4, QuietHeld DEF Held
<1>6. Awaited' /\ NobodyLeaves'
  BY <1>1 DEF Held, Awaited, NobodyLeaves
<1> QED BY <1>5, <1>6 DEF Held

\* A task that waits for nothing is told nothing.
LEMMA Unspoken ==
  ASSUME Inv, NEW t \in Tasks, NEW k \in Task, task[t].call = "none",
         task' = [task EXCEPT ![t] = k], UNCHANGED answer
  PROVE  \A u \in Tasks : Untold(u)
<1>1. task \in [Tasks -> Task] /\ answer[t].outcome # "ok"
  BY NoAnswerShape DEF Inv, TypeOK, Answered
<1> QED BY <1>1 DEF Untold, Tokenless

LEMMA RestHeld ==
  ASSUME NEW k \in Task
  PROVE  /\ Rest(k) \in Task /\ Rest(k).call = "none" /\ Rest(k).todo \subseteq k.todo
         /\ Rest(k).on # NoSnapshot => Rest(k).on = k.on
         /\ k.kind # "leave" => Rest(k).kind # "leave"
<1>1. CASE k.rest # <<>>
  BY <1>1, RestType DEF Rest, Task
<1>2. CASE k.rest = <<>> /\ k.todo = {} /\ k.kind # "leave"
  BY <1>2, RestType DEF Rest, Idle
<1>3. CASE k.rest = <<>> /\ ~(k.todo = {} /\ k.kind # "leave")
  BY <1>3, RestType DEF Rest, Task
<1> QED BY <1>1, <1>2, <1>3

LEMMA SnapshotUses ==
  ASSUME NEW ds, \A d \in ds : Paired(d), NEW s \in Snapshots(ds)
  PROVE  Uses(s.device, s.token)
  BY DEF Snapshots, Uses

LEMMA StartHeld ==
  ASSUME Inv, Held, NEW t \in Tasks,
         \/ BeginBeats(t) \/ BeginFlush(t)
         \/ \E on \in BOOLEAN : SwitchSending(t, on)
         \/ \E d \in Devices : Scan(t, d)
  PROVE  Held'
<1>1. pairing \in [Devices -> Pairing] /\ task[t].call = "none" /\ UNCHANGED <<rows, answer>>
  BY IdleType DEF Inv, TypeOK, BeginBeats, BeginFlush, SwitchSending, Scan, Start
<1>2. ASSUME NEW k \in Task, k.on = NoSnapshot, k.kind # "leave", task' = [task EXCEPT ![t] = k],
             \A s \in k.todo : Uses(s.device, s.token), \A d \in Devices : SamePairing(d),
             \A r \in requests' : r \in requests \/ (r.kind = "pair" /\ r.to \in Tasks)
      PROVE  Held'
  BY <1>1, <1>2, Unspoken, TaskHeld
<1>3. UNCHANGED pairing => \A d \in Devices : SamePairing(d)
  BY DEF SamePairing, Paired
<1>4. ASSUME NEW ds \in SUBSET Devices, \A d \in ds : Paired(d), NEW kind \in {"beat", "flush"},
             Start(t, [Idle EXCEPT !.kind = kind, !.todo = Snapshots(ds)]),
             UNCHANGED <<pairing, requests>>
      PROVE  Held'
  <2> DEFINE k == [Idle EXCEPT !.kind = kind, !.todo = Snapshots(ds)]
  <2>1. k \in Task /\ k.on = NoSnapshot /\ k.kind # "leave" /\ k.todo = Snapshots(ds)
    BY <1>1, SnapshotType, IdleType DEF Idle, Task
  <2>2. task' = [task EXCEPT ![t] = k]
    BY <1>4 DEF Start
  <2> HIDE DEF k
  <2> QED BY <1>2, <1>3, <1>4, <2>1, <2>2, SnapshotUses
<1>5. CASE BeginBeats(t)
  BY <1>4, <1>5 DEF BeginBeats, Beating
<1>6. CASE BeginFlush(t)
  <2>1. Flushing \subseteq Devices /\ \A d \in Flushing : Paired(d)
    BY NotifierAssumption DEF NotifierAssumption, Flushing, Capturing, Live
  <2> QED BY <1>4, <1>6, <2>1 DEF BeginFlush
<1>7. ASSUME NEW on \in BOOLEAN, SwitchSending(t, on) PROVE Held'
  <2> DEFINE k == [Idle EXCEPT !.kind = "clear",
                        !.group = IF on THEN {} ELSE {d \in Devices : Paired(d)}]
  <2>1. k \in Task /\ k.on = NoSnapshot /\ k.kind # "leave" /\ k.todo = {}
    BY IdleType DEF Idle, Task
  <2>2. task' = [task EXCEPT ![t] = k] /\ UNCHANGED requests
    BY <1>7 DEF SwitchSending, Start
  <2>3. \A d \in Devices : SamePairing(d)
    <3> SUFFICES ASSUME NEW d \in Devices PROVE SamePairing(d)
      OBVIOUS
    <3>1. CASE Paired(d)
      <4>1. pairing'[d].token = pairing[d].token /\ pairing[d].token # 0
        BY <1>1, <1>7, <3>1 DEF SwitchSending, Pairing, Held, HeldFor
      <4>2. pairing'[d] # NoPairing
        BY <4>1 DEF NoPairing
      <4> QED BY <3>1, <4>1, <4>2 DEF SamePairing, Paired
    <3>2. CASE ~Paired(d)
      BY <1>7, <3>2 DEF SwitchSending, SamePairing, Paired
    <3> QED BY <3>1, <3>2
  <2> HIDE DEF k
  <2> QED BY <1>2, <2>1, <2>2, <2>3
<1>8. ASSUME NEW d \in Devices, Scan(t, d) PROVE Held'
  <2> DEFINE k == [Idle EXCEPT !.kind = "scan", !.call = "pair"]
  <2>1. k \in Task /\ k.on = NoSnapshot /\ k.kind # "leave" /\ k.todo = {}
    BY IdleType DEF Idle, Task
  <2>2. /\ task' = [task EXCEPT ![t] = k] /\ UNCHANGED pairing
        /\ \A r \in requests' : r \in requests \/ (r.kind = "pair" /\ r.to \in Tasks)
    BY <1>8 DEF Scan, Start, PairRequest
  <2> HIDE DEF k
  <2> QED BY <1>2, <1>3, <2>1, <2>2
<1> QED BY <1>5, <1>6, <1>7, <1>8

LEMMA StepHeld ==
  ASSUME Inv, Held, NEW t \in Tasks,
         \/ SendBeat(t) \/ SendBatch(t) \/ SendFarewell(t) \/ Forget(t) \/ ClearBacklog(t)
         \/ CarryOut(t)
  PROVE  Held'
<1> DEFINE k == task[t]
<1>1. /\ pairing \in [Devices -> Pairing] /\ k.call = "none" /\ k \in Task /\ k.kind # "leave"
      /\ UNCHANGED <<rows, answer>>
  BY DEF Inv, TypeOK, SendBeat, SendBatch, SendFarewell, Forget, ClearBacklog, CarryOut, Send,
     Between, Held, NobodyLeaves
<1>2. /\ \A s \in k.todo : s \in Snapshot /\ Uses(s.device, s.token)
      /\ k.on # NoSnapshot => Uses(k.on.device, k.on.token)
  BY <1>1, UsedNow DEF Task
<1>3. UNCHANGED pairing => \A d \in Devices : SamePairing(d)
  BY DEF SamePairing, Paired
<1>4. ASSUME NEW s \in k.todo, NEW call \in {"beat", "capture", "revoke"}, NEW r,
             Send(t, s, call, r), r.kind = call, r.device = s.device, r.token = s.token, r.to = t
      PROVE  Held'
  <2> DEFINE l == [k EXCEPT !.todo = @ \ {s}, !.on = s, !.call = call]
  <2>1. l \in Task /\ l.todo \subseteq k.todo /\ l.on = s /\ l.kind = k.kind
    BY <1>1, <1>2, <1>4 DEF Task
  <2>2. task' = [task EXCEPT ![t] = l] /\ requests' = requests \cup {r} /\ UNCHANGED pairing
    BY <1>4 DEF Send
  <2> HIDE DEF l
  <2>3. \A q \in requests' : \/ q \in requests
                             \/ q.kind # "pair" /\ Uses(q.device, q.token) /\ q.to \in Tasks
    BY <1>2, <1>4, <2>2
  <2> QED BY <1>1, <1>2, <1>3, <2>1, <2>2, <2>3, Unspoken, TaskHeld
<1>5. ASSUME NEW l \in Task, task' = [task EXCEPT ![t] = Rest(l)], requests' = requests,
             \A s \in l.todo : Uses(s.device, s.token), l.kind # "leave",
             l.on # NoSnapshot => l.on = k.on, \A d \in Devices : SamePairing(d)
      PROVE  Held'
  <2>1. /\ Rest(l) \in Task /\ Rest(l).kind # "leave"
        /\ \A s \in Rest(l).todo : Uses(s.device, s.token)
        /\ Rest(l).on # NoSnapshot => Uses(Rest(l).on.device, Rest(l).on.token)
    BY <1>2, <1>5, RestHeld
  <2> QED BY <1>1, <1>5, <2>1, Unspoken, TaskHeld
<1>6. CASE SendBeat(t)
  BY <1>4, <1>6 DEF SendBeat
<1>7. CASE SendBatch(t)
  <2>1. PICK s \in k.todo :
            IF Pending(s.device) = {}
            THEN /\ task' = [task EXCEPT ![t] = Rest([task[t] EXCEPT !.todo = @ \ {s}])]
                 /\ UNCHANGED <<rows, stored, pairing, queue, requests, answer, losses>>
            ELSE Send(t, s, "capture",
                      [kind |-> "capture", to |-> t, device |-> s.device, token |-> s.token,
                       load |-> Pending(s.device), done |-> {}, stage |-> "sent"])
    BY <1>7 DEF SendBatch
  <2>2. CASE Pending(s.device) = {}
    <3> DEFINE l == [k EXCEPT !.todo = @ \ {s}]
    <3>1. l \in Task /\ l.todo \subseteq k.todo /\ l.on = k.on /\ l.kind = k.kind
      BY <1>1 DEF Task
    <3>2. task' = [task EXCEPT ![t] = Rest(l)] /\ UNCHANGED <<requests, pairing>>
      BY <2>1, <2>2
    <3> HIDE DEF l
    <3> QED BY <1>1, <1>2, <1>3, <1>5, <3>1, <3>2
  <2>3. CASE Pending(s.device) # {}
    BY <1>4, <2>1, <2>3
  <2> QED BY <2>2, <2>3
<1>8. CASE ClearBacklog(t)
  <2> DEFINE l == [Idle EXCEPT !.kind = "beat", !.todo = Snapshots({d \in Devices : Live(d)})]
  <2>1. /\ l \in Task /\ l.on = NoSnapshot /\ l.kind # "leave"
        /\ l.todo = Snapshots({d \in Devices : Live(d)})
    BY <1>1, SnapshotType, IdleType DEF Idle, Task
  <2>2. task' = [task EXCEPT ![t] = Rest(l)] /\ UNCHANGED <<requests, pairing>>
    BY <1>8 DEF ClearBacklog
  <2>3. \A d \in {e \in Devices : Live(e)} : Paired(d)
    BY DEF Live
  <2> HIDE DEF l
  <2>4. \A s \in l.todo : Uses(s.device, s.token)
    BY <2>1, <2>3, SnapshotUses
  <2> QED BY <1>3, <1>5, <2>1, <2>2, <2>4
<1>9. CASE CarryOut(t)
  <2> DEFINE c == Head(k.rest)
             d == k.on.device
             l == [k EXCEPT !.rest = Tail(@)]
  <2>1. k.rest # <<>> /\ k.rest \in Seq(Command)
    BY <1>1, <1>9 DEF CarryOut, Task
  <2>2. k.on \in Snapshot /\ d \in Devices /\ k.on # NoSnapshot
    BY <2>1, NotPairing DEF Inv, InHand, Steady, Snapshot
  <2>3. c \in Command /\ l \in Task /\ l.on = k.on /\ l.todo = k.todo /\ l.kind = k.kind
    BY <1>1, <2>1, Taken DEF Task
  <2>4. ASSUME task' = [task EXCEPT ![t] = Rest(l)], UNCHANGED requests,
               \A e \in Devices : SamePairing(e)
        PROVE  Held'
    <3> HIDE DEF l, c
    <3> QED BY <1>1, <1>2, <1>5, <2>3, <2>4
  <2>5. ASSUME NEW call \in {"rotate", "pair"}, task' = [task EXCEPT ![t].call = call],
               UNCHANGED pairing,
               \A r \in requests' : \/ r \in requests
                                    \/ r.kind # "pair" /\ Uses(r.device, r.token) /\ r.to \in Tasks
                                    \/ r.kind = "pair" /\ r.to \in Tasks
        PROVE  Held'
    <3> DEFINE m == [k EXCEPT !.call = call]
    <3>1. m \in Task /\ m.todo = k.todo /\ m.on = k.on /\ m.kind = k.kind
      BY <1>1 DEF Task
    <3>2. task' = [task EXCEPT ![t] = m]
      BY <2>5 DEF Inv, TypeOK
    <3> HIDE DEF m
    <3>3. /\ \A u \in Tasks : Untold(u)
          /\ \A e \in Devices : SamePairing(e)
      BY <1>1, <1>3, <2>5, <3>1, <3>2, Unspoken
    <3>4. /\ \A s \in m.todo : Uses(s.device, s.token)
          /\ m.on # NoSnapshot => Uses(m.on.device, m.on.token)
          /\ m.kind # "leave" /\ UNCHANGED rows
      BY <1>1, <1>2, <3>1
    <3> QED BY <2>5, <3>1, <3>2, <3>3, <3>4, TaskHeld
  <2>6. CASE c.type = "rotate_token"
    <3>1. \A r \in requests' : r \in requests \/ (r.kind # "pair" /\ Uses(r.device, r.token) /\ r.to \in Tasks)
      BY <1>2, <1>9, <2>2, <2>6 DEF CarryOut
    <3>2. task' = [task EXCEPT ![t].call = "rotate"] /\ UNCHANGED pairing
      BY <1>9, <2>6 DEF CarryOut
    <3> QED BY <2>5, <3>1, <3>2
  <2>7. CASE c.type = "set_sending"
    <3> DEFINE p == [pairing[d] EXCEPT !.sending = c.enabled]
    <3>1. c.enabled \in BOOLEAN
      BY <2>3, <2>7 DEF Command
    <3>2. p \in Pairing /\ p.token = pairing[d].token /\ (Paired(d) => pairing[d].token # 0)
      BY <1>1, <2>2, <3>1 DEF Pairing, Held, HeldFor
    <3>3. /\ pairing' = With(d, p) /\ task' = [task EXCEPT ![t] = Rest(l)] /\ UNCHANGED requests
      BY <1>9, <2>7 DEF CarryOut, SetSending
    <3> HIDE DEF p
    <3> QED BY <1>1, <2>2, <2>4, <3>2, <3>3, EditHeld
  <2>8. CASE c.type = "stop"
    <3>1. /\ pairing' = Latch(d) /\ task' = [task EXCEPT ![t] = Rest(l)] /\ UNCHANGED requests
      BY <1>9, <2>8 DEF CarryOut
    <3> QED BY <1>1, <2>2, <2>4, <3>1, LatchHeld
  <2>9. CASE c.type = "add_account"
    <3>1. /\ task' = [task EXCEPT ![t].call = "pair"] /\ UNCHANGED pairing
          /\ \A r \in requests' : r \in requests \/ (r.kind = "pair" /\ r.to \in Tasks)
      BY <1>9, <2>9 DEF CarryOut, PairRequest
    <3> QED BY <2>5, <3>1
  <2>10. c.type \in {"rotate_token", "set_sending", "stop", "add_account"}
    BY <2>3 DEF Command
  <2> QED BY <2>6, <2>7, <2>8, <2>9, <2>10
<1> QED BY <1>1, <1>6, <1>7, <1>8, <1>9 DEF SendFarewell, Forget

\* A task that is told nothing of a token.
LEMMA ReturnHeld ==
  ASSUME Inv, Held, NEW t \in Tasks, NEW l \in Task, Return(t, l), Tokenless(t),
         l.todo = task[t].todo, l.on = task[t].on, l.kind = task[t].kind,
         \A d \in Devices : SamePairing(d)
  PROVE  Held'
<1>1. task \in [Tasks -> Task] /\ answer \in [Tasks -> Answer]
  BY DEF Inv, TypeOK
<1>2. /\ task' = [task EXCEPT ![t] = Rest(l)] /\ answer' = [answer EXCEPT ![t] = NoAnswer]
      /\ UNCHANGED <<rows, requests>>
  BY DEF Return
<1>3. /\ Rest(l) \in Task /\ Rest(l).kind # "leave"
      /\ \A s \in Rest(l).todo : Uses(s.device, s.token)
      /\ Rest(l).on # NoSnapshot => Uses(Rest(l).on.device, Rest(l).on.token)
  BY <1>1, RestHeld, UsedNow DEF Held, NobodyLeaves
<1>4. \A u \in Tasks : Untold(u)
  BY <1>1, <1>2, NoAnswerShape DEF Untold, Tokenless
<1>5. UNCHANGED rows /\ \A r \in requests' : r \in requests
  BY <1>2
<1> QED BY <1>2, <1>3, <1>4, <1>5, TaskHeld

\* A task that is told a token: what becomes of the other rows.
LEMMA TellHeld ==
  ASSUME Inv, Held, NEW t \in Tasks, NEW l \in Task, Return(t, l),
         l.todo = task[t].todo, l.on = task[t].on, l.kind = task[t].kind,
         NEW e \in Devices, \A d \in Devices : Brings(t, d) => d = e,
         \A d \in Devices \ {e} : SamePairing(d)
  PROVE  /\ Awaited' /\ NobodyLeaves' /\ \A d \in Devices \ {e} : HeldFor(d)'
         /\ \A u \in Tasks : Brings(u, e)' => Brings(u, e) /\ u # t /\ answer'[u] = answer[u]
         /\ \A k \in Nat : Uses(e, k)' => Uses(e, k) \/ (Paired(e)' /\ pairing'[e].token = k)
         /\ UNCHANGED rows
<1>1. task \in [Tasks -> Task] /\ answer \in [Tasks -> Answer] /\ token \in [Devices -> Nat]
  BY DEF Inv, TypeOK
<1>2. /\ task' = [task EXCEPT ![t] = Rest(l)] /\ answer' = [answer EXCEPT ![t] = NoAnswer]
      /\ UNCHANGED <<rows, requests>>
  BY DEF Return
<1>3. /\ Rest(l).todo \subseteq task[t].todo /\ Rest(l).kind # "leave"
      /\ Rest(l).on # NoSnapshot => Rest(l).on = task[t].on
  BY <1>1, RestHeld DEF Held, NobodyLeaves
<1>4. \A d \in Devices, k \in Nat : Uses(d, k)' => Uses(d, k) \/ (Paired(d)' /\ pairing'[d].token = k)
  <2> SUFFICES ASSUME NEW d \in Devices, NEW k \in Nat, Uses(d, k)'
               PROVE  Uses(d, k) \/ (Paired(d)' /\ pairing'[d].token = k)
    OBVIOUS
  <2>1. CASE \E r \in requests' : r.kind # "pair" /\ r.device = d /\ r.token = k
    BY <1>2, <2>1 DEF Uses
  <2>2. ASSUME NEW u \in Tasks,
               \/ \E s \in task'[u].todo : s.device = d /\ s.token = k
               \/ task'[u].on # NoSnapshot /\ task'[u].on.device = d /\ task'[u].on.token = k
        PROVE  Uses(d, k)
    <3>1. CASE u = t
      BY <1>1, <1>2, <1>3, <2>2, <3>1 DEF Uses
    <3>2. CASE u # t
      BY <1>1, <1>2, <2>2, <3>2 DEF Uses
    <3> QED BY <3>1, <3>2
  <2> QED BY <2>1, <2>2 DEF Uses
<1>5. ASSUME NEW u \in Tasks, NEW d \in Devices
      PROVE  /\ Fetches(u, d)' => Fetches(u, d) /\ u # t
             /\ Renews(u, d)' => Renews(u, d) /\ u # t
             /\ u # t => /\ Fetches(u, d)' <=> Fetches(u, d)
                         /\ Renews(u, d)' <=> Renews(u, d)
                         /\ answer'[u] = answer[u]
  <2>1. CASE u = t
    BY <1>1, <1>2, <2>1, NoAnswerShape DEF Fetches, Renews
  <2>2. CASE u # t
    BY <1>1, <1>2, <2>2 DEF Fetches, Renews
  <2> QED BY <2>1, <2>2
<1>6. ASSUME NEW d \in Devices, d # e PROVE HeldFor(d)'
  <2>1. ~Fetches(t, d) /\ ~Renews(t, d)
    BY <1>6 DEF Brings
  <2>2. SameNews(d)
    BY <1>5, <2>1 DEF SameNews, Brings
  <2>3. Settled(d)
    BY <1>2 DEF Settled, Alive, Unclaimed, rows
  <2>4. \A k \in Nat : Uses(d, k)' => Uses(d, k)
    BY <1>4, <1>6 DEF SamePairing, Uses
  <2> QED BY <1>1, <1>6, <2>2, <2>3, <2>4, QuietBrings DEF Held
<1>7. Awaited' /\ NobodyLeaves'
  BY <1>1, <1>2, <1>3 DEF Held, Awaited, NobodyLeaves
<1> QED BY <1>2, <1>4, <1>5, <1>6, <1>7 DEF Brings

\* The phone takes the present token.
LEMMA TakenHeld ==
  ASSUME Inv, Held, NEW t \in Tasks, NEW e \in Devices, Brings(t, e), UNCHANGED rows,
         Paired(e)', pairing'[e].token = answer[t].token,
         \A u \in Tasks : Brings(u, e)' => Brings(u, e) /\ u # t /\ answer'[u] = answer[u],
         \A k \in Nat : Uses(e, k)' => Uses(e, k) \/ pairing'[e].token = k
  PROVE  HeldFor(e)'
<1>1. HeldFor(e) /\ token[e] \in Nat
  BY DEF Held, Inv, TypeOK
<1>2. UNCHANGED <<rowStatus, token, install>> /\ answer[t].token # 0 /\ ~Unclaimed(e)
  BY <1>1 DEF HeldFor, rows
<1>3. ASSUME Alive(e) PROVE /\ pairing'[e].token = token[e] /\ \A u \in Tasks : ~Brings(u, e)'
                            /\ \A k \in Nat : Uses(e, k)' => k <= token[e]
  <2>1. answer[t].token = token[e] /\ \A u \in Tasks : Brings(u, e) => u = t
    BY <1>1, <1>3 DEF HeldFor
  <2>2. \A k \in Nat : Uses(e, k) => k <= token[e]
    BY <1>1, <1>3 DEF HeldFor
  <2> QED BY <1>1, <2>1, <2>2
<1>4. (Alive(e)' <=> Alive(e)) /\ (Unclaimed(e)' <=> Unclaimed(e)) /\ token'[e] = token[e]
  BY <1>2 DEF Alive, Unclaimed
<1> QED BY <1>1, <1>2, <1>3, <1>4 DEF HeldFor

\* Two wallets are two numbers.
OwnNumber == \A v, w \in Wallets : NumberOf[AccountOf[v]] = NumberOf[AccountOf[w]] => v = w

LEMMA PairingHeld ==
  ASSUME Inv, Held, OwnNumber, NEW t \in Tasks, HearPairing(t), answer[t].outcome = "ok"
  PROVE  Held'
<1> DEFINE k == task[t]
           l == IF k.kind = "scan" THEN k ELSE [k EXCEPT !.rest = Tail(@)]
           p == [token |-> answer[t].token, revoked |-> FALSE, awaiting |-> answer[t].awaiting,
                 sending |-> TRUE]
<1>1. /\ pairing \in [Devices -> Pairing] /\ k \in Task /\ k.call = "pair" /\ answer[t] # NoAnswer
      /\ Return(t, l)
  BY DEF Inv, TypeOK, HearPairing, Heard
<1>2. PICK e \in Devices : e = answer[t].device
  BY <1>1 DEF Inv, Answered, Fits, PairingAnswer
<1>3. k.kind # "scan" => k.rest # <<>>
  BY <1>1 DEF Inv, InHand, Steady
<1>4. l \in Task /\ l.todo = k.todo /\ l.on = k.on /\ l.kind = k.kind
  <2>1. CASE k.kind = "scan"
    BY <1>1, <2>1
  <2>2. CASE k.kind # "scan"
    <3>1. l = [k EXCEPT !.rest = Tail(@)]
      BY <2>2
    <3>2. l \in Task
      BY <1>1, <1>3, <2>2, <3>1, Taken
    <3> QED BY <1>1, <3>1, <3>2 DEF Task
  <2> QED BY <2>1, <2>2
<1>5. Fetches(t, e) /\ Brings(t, e) /\ \A d \in Devices : Brings(t, d) => d = e
  BY <1>1, <1>2 DEF Fetches, Renews, Brings
<1>6. pairing' = IF Wanted(e) THEN [pairing EXCEPT ![e] = p] ELSE pairing
  BY <1>2 DEF HearPairing
<1>7. \A d \in Devices \ {e} : SamePairing(d)
  BY <1>6 DEF SamePairing, Paired
<1> HIDE DEF l, p
<1>8. /\ Awaited' /\ NobodyLeaves' /\ \A d \in Devices \ {e} : HeldFor(d)'
      /\ \A u \in Tasks : Brings(u, e)' => Brings(u, e) /\ u # t /\ answer'[u] = answer[u]
      /\ \A n \in Nat : Uses(e, n)' => Uses(e, n) \/ (Paired(e)' /\ pairing'[e].token = n)
      /\ UNCHANGED rows
  BY <1>1, <1>2, <1>4, <1>5, <1>7, TellHeld
<1>9. CASE Wanted(e)
  <2>1. pairing'[e] = p
    BY <1>1, <1>2, <1>6, <1>9
  <2>2. pairing'[e].token = answer[t].token /\ pairing'[e].sending
    BY <2>1 DEF p
  <2>3. Paired(e)'
    BY <2>2 DEF Paired, NoPairing
  <2>4. HeldFor(e)'
    BY <1>2, <1>5, <1>8, <2>2, <2>3, TakenHeld
  <2> QED BY <1>8, <2>4 DEF Held
<1>10. CASE ~Wanted(e)
  <2>1. Paired(e)
    BY <1>10 DEF Wanted, Watches, OwnNumber
  <2>2. HeldFor(e) /\ ~Alive(e) /\ ~Unclaimed(e)
    BY <1>2, <1>5, <2>1 DEF Held, HeldFor
  <2>3. pairing' = pairing
    BY <1>6, <1>10
  <2>4. ~Alive(e)' /\ ~Unclaimed(e)' /\ Paired(e)' /\ pairing'[e].token # 0
    BY <1>8, <2>1, <2>2, <2>3 DEF Alive, Unclaimed, Paired, rows, HeldFor
  <2>5. HeldFor(e)'
    BY <1>8, <2>2, <2>4 DEF HeldFor
  <2> QED BY <1>8, <2>5 DEF Held
<1> QED BY <1>9, <1>10

LEMMA RenewalHeld ==
  ASSUME Inv, Held, NEW t \in Tasks, HearRotation(t), answer[t].outcome = "ok"
  PROVE  Held'
<1> DEFINE k == task[t]
           l == [k EXCEPT !.rest = Tail(@)]
<1>1. /\ pairing \in [Devices -> Pairing] /\ k \in Task /\ k.call = "rotate" /\ answer[t] # NoAnswer
      /\ Return(t, l)
  BY DEF Inv, TypeOK, HearRotation, Heard
<1>2. k.on \in Snapshot /\ k.on.device \in Devices /\ k.on.token \in Nat /\ k.rest # <<>>
  BY <1>1 DEF Inv, InHand, Steady, Snapshot
<1>3. PICK e \in Devices : e = k.on.device
  BY <1>2
<1>4. l \in Task /\ l.todo = k.todo /\ l.on = k.on /\ l.kind = k.kind
  BY <1>1, <1>2, Taken DEF Task
<1>5. Brings(t, e) /\ \A d \in Devices : Brings(t, d) => d = e
  BY <1>3, <1>1 DEF Fetches, Renews, Brings
<1>6. HeldFor(e) /\ Paired(e) /\ answer[t].token # 0
  <2>1. Uses(e, k.on.token)
    BY <1>3, <1>2, NotPairing, UsedNow
  <2> QED BY <1>2, <1>5, <2>1 DEF Held, HeldFor
<1>7. pairing' = [pairing EXCEPT ![e] = [pairing[e] EXCEPT !.token = answer[t].token]]
  BY <1>3, <1>6 DEF HearRotation, With
<1>8. \A d \in Devices \ {e} : SamePairing(d)
  BY <1>7 DEF SamePairing, Paired
<1> HIDE DEF l
<1>9. /\ Awaited' /\ NobodyLeaves' /\ \A d \in Devices \ {e} : HeldFor(d)'
      /\ \A u \in Tasks : Brings(u, e)' => Brings(u, e) /\ u # t /\ answer'[u] = answer[u]
      /\ \A n \in Nat : Uses(e, n)' => Uses(e, n) \/ (Paired(e)' /\ pairing'[e].token = n)
      /\ UNCHANGED rows
  BY <1>1, <1>2, <1>4, <1>5, <1>8, TellHeld
<1>10. pairing'[e].token = answer[t].token
  BY <1>1, <1>2, <1>7 DEF Pairing
<1>11. Paired(e)'
  BY <1>6, <1>10 DEF Paired, NoPairing
<1>12. HeldFor(e)'
  BY <1>2, <1>5, <1>9, <1>10, <1>11, TakenHeld
<1> QED BY <1>9, <1>12 DEF Held

LEMMA AnswerHeld ==
  ASSUME Inv, Held, OwnNumber, NEW t \in Tasks,
         HearBeat(t) \/ HearBatch(t) \/ HearRotation(t) \/ HearFarewell(t) \/ HearPairing(t)
  PROVE  Held'
<1> DEFINE k == task[t]
           d == k.on.device
<1>1. pairing \in [Devices -> Pairing] /\ k \in Task
  BY DEF Inv, TypeOK
<1>2. answer[t] # NoAnswer /\ k.call # "none" /\ Fits(answer[t], k.call)
  BY DEF Inv, Answered, HearBeat, HearBatch, HearRotation, HearFarewell, HearPairing, Heard
<1>3. k.call # "pair" => d \in Devices
  BY <1>1, <1>2 DEF Inv, InHand, Steady, Snapshot, Task
<1>4. UNCHANGED pairing => \A e \in Devices : SamePairing(e)
  BY DEF SamePairing, Paired
<1>5. k.call # "pair" /\ pairing' = LatchedBy(t) => \A e \in Devices : SamePairing(e)
  BY <1>1, <1>3, <1>4, LatchHeld DEF LatchedBy
<1>6. ASSUME k.rest # <<>>
      PROVE  LET l == [k EXCEPT !.rest = Tail(@)] IN
             l \in Task /\ l.todo = k.todo /\ l.on = k.on /\ l.kind = k.kind
  BY <1>1, <1>6, Taken DEF Task
<1>7. CASE HearBeat(t)
  <2>1. k.call = "beat" /\ Tokenless(t)
    BY <1>7 DEF HearBeat, Heard, Tokenless
  <2>2. ASSUME NEW b \in BOOLEAN, pairing' = With(d, [pairing[d] EXCEPT !.awaiting = b])
        PROVE  \A e \in Devices : SamePairing(e)
    <3> DEFINE p == [pairing[d] EXCEPT !.awaiting = b]
    <3>1. p \in Pairing /\ p.token = pairing[d].token /\ (Paired(d) => pairing[d].token # 0)
      BY <1>1, <1>3, <2>1 DEF Pairing, Held, HeldFor
    <3>2. pairing' = With(d, p)
      BY <2>2
    <3> HIDE DEF p
    <3> QED BY <1>1, <1>3, <2>1, <3>1, <3>2, EditHeld
  <2>3. CASE answer[t].outcome = "ok"
    <3> DEFINE l == [k EXCEPT !.rest = answer[t].commands]
    <3>1. l \in Task /\ l.todo = k.todo /\ l.on = k.on /\ l.kind = k.kind
      BY <1>1, <1>2, <2>1, <2>3 DEF Fits, BeatAnswer, Task
    <3>2. pairing' = With(d, [pairing[d] EXCEPT !.awaiting = FALSE]) /\ Return(t, l)
      BY <1>7, <2>3 DEF HearBeat
    <3> HIDE DEF l
    <3> QED BY <2>1, <2>2, <3>1, <3>2, ReturnHeld
  <2>4. CASE answer[t].outcome = "waiting"
    BY <1>1, <1>7, <2>1, <2>2, <2>4, ReturnHeld DEF HearBeat
  <2>5. CASE answer[t].outcome \in {"unauthorized", "failed"}
    BY <1>1, <1>5, <1>7, <2>1, <2>5, ReturnHeld DEF HearBeat
  <2> QED BY <1>7, <2>3, <2>4, <2>5 DEF HearBeat
<1>8. CASE HearBatch(t)
  BY <1>1, <1>5, <1>8, ReturnHeld DEF HearBatch, Heard, Tokenless
<1>9. CASE HearFarewell(t)
  BY <1>1, <1>5, <1>9, ReturnHeld DEF HearFarewell, Heard, Tokenless
<1>10. CASE HearRotation(t)
  <2>1. k.call = "rotate" /\ k.rest # <<>>
    BY <1>10 DEF HearRotation, Heard, Inv, InHand, Steady
  <2>2. CASE answer[t].outcome # "ok"
    <3> DEFINE l == [k EXCEPT !.rest = Tail(@)]
    <3>1. Return(t, l) /\ pairing' = LatchedBy(t) /\ Tokenless(t)
      BY <1>10, <2>2 DEF HearRotation, Tokenless
    <3>2. l \in Task /\ l.todo = k.todo /\ l.on = k.on /\ l.kind = k.kind
      BY <1>6, <2>1
    <3> HIDE DEF l
    <3> QED BY <1>5, <2>1, <3>1, <3>2, ReturnHeld
  <2> QED BY <1>10, <2>2, RenewalHeld
<1>11. CASE HearPairing(t)
  <2>1. CASE answer[t].outcome # "ok"
    <3> DEFINE l == IF k.kind = "scan" THEN k ELSE [k EXCEPT !.rest = Tail(@)]
    <3>1. k.call = "pair" /\ Return(t, l) /\ pairing' = pairing /\ Tokenless(t)
      BY <1>11, <2>1 DEF HearPairing, Heard, Tokenless
    <3>2. k.kind # "scan" => k.rest # <<>>
      BY <3>1 DEF Inv, InHand, Steady
    <3>3. l \in Task /\ l.todo = k.todo /\ l.on = k.on /\ l.kind = k.kind
      BY <1>1, <1>6, <3>2
    <3> HIDE DEF l
    <3> QED BY <1>4, <3>1, <3>3, ReturnHeld
  <2> QED BY <1>11, <2>1, PairingHeld
<1> QED BY <1>7, <1>8, <1>9, <1>10, <1>11

-----------------------------------------------------------------------------
(* The theorem *)

LEMMA HeldQuietly ==
  ASSUME Inv, Held, UNCHANGED <<rows, pairing, wire>>
  PROVE  Held'
<1>1. \A d \in Devices : Settled(d) /\ SamePairing(d)
  BY DEF Settled, SamePairing, Alive, Unclaimed, Paired, rows
<1>2. \A t \in Tasks : Untold(t)
  BY DEF Untold, wire
<1>3. \A d \in Devices, k \in Nat : Uses(d, k)' => Uses(d, k)
  BY DEF Uses, Paired, wire
<1>4. \A d \in Devices : HeldFor(d)'
  BY <1>1, <1>2, <1>3, QuietHeld DEF Held, Inv, TypeOK
<1> QED BY <1>4 DEF Held, Awaited, NobodyLeaves, wire

LEMMA PhoneHeld ==
  ASSUME Inv, Held, OwnNumber, Phone, "leave" \notin Operations
  PROVE  Held'
<1>1. ASSUME NEW m \in Messages, Hear(m) PROVE Held'
  BY <1>1, HeldQuietly DEF Hear
<1>2. ASSUME NEW c \in held, Enqueue(c) PROVE Held'
  BY <1>2, HeldQuietly DEF Enqueue
<1>3. ASSUME NEW t \in Tasks, Step(t) PROVE Held'
  BY <1>3, StepHeld, AnswerHeld DEF Step
<1> QED BY <1>1, <1>2, <1>3, StartHeld DEF Phone, Leave

LEMMA InitHeld == Init => Held
<1> SUFFICES ASSUME Init PROVE Held
  OBVIOUS
<1>1. /\ \A d \in Devices : ~Paired(d) /\ Unclaimed(d) /\ ~Alive(d)
      /\ \A t \in Tasks : task[t] = Idle /\ answer[t] = NoAnswer
      /\ requests = {}
  BY DEF Init, Paired, Unclaimed, Alive
<1>2. Idle.todo = {} /\ Idle.on = NoSnapshot /\ Idle.kind # "leave"
  BY DEF Idle
<1>3. /\ \A d \in Devices, k \in Nat : ~Uses(d, k)
      /\ \A t \in Tasks, d \in Devices : ~Brings(t, d)
  BY <1>1, <1>2, NoAnswerShape DEF Uses, Brings, Fetches, Renews
<1> QED BY <1>1, <1>2, <1>3 DEF Held, HeldFor, Awaited, NobodyLeaves

\* Whatever the handsets, numbers, coroutines, commands, rotations, revocations
\* and second scans, a row that is active for our handset answers to the token
\* the phone has, or to the one in an answer it is about to read: as long as no
\* call and no process was lost, where nobody disconnects a number and no two
\* wallets share one.
THEOREM ActiveIsHeldHolds ==
  ASSUME "leave" \notin Operations, OwnNumber
  PROVE  Spec => [](losses = 0 => ActiveIsHeld)
<1>1. Init => (losses = 0 => Held)
  BY InitHeld
<1>2. Inv /\ (losses = 0 => Held) /\ [Next]_vars => (losses = 0 => Held)'
  <2> SUFFICES ASSUME Inv, losses = 0 => Held, [Next]_vars, losses' = 0
               PROVE  Held'
    OBVIOUS
  <2>1. losses \in Nat
    BY DEF Inv, TypeOK
  <2>2. CASE (\E r \in requests : LoseRequest(r)) \/ (\E t \in Tasks : Timeout(t)) \/ PhoneDies
    <3>1. losses' = losses + 1
      BY <2>2 DEF LoseRequest, Timeout, PhoneDies, Lose
    <3>2. losses' # 0
      BY <2>1, <3>1
    <3> QED BY <3>2
  <2>3. CASE Operator \/ Phone \/ \E r \in requests : Serve(r)
    <3>1. UNCHANGED losses
      BY <2>3 DEF Operator, ShowCode, CodeExpires, ApproveDevice, RevokeDevice, Revoke,
         RequestTokenRotation, RequestSending, QueueCommand, AddAccountRead, AddAccountWrite,
         StrangerScans, Phone, Hear, Enqueue, BeginBeats, BeginFlush, SwitchSending, Leave, Scan, Step,
         SendBeat, SendBatch, SendFarewell, Send, Forget, ClearBacklog, CarryOut, HearBeat, HearBatch,
         HearRotation, HearFarewell, HearPairing, Return, Serve, Authenticate, AnswerBeat, AnswerBatch,
         CompleteTokenRotation, RevokeSelf, ClaimRead, ClaimWrite, Ingest
    <3>2. Held
      BY <3>1
    <3> QED BY <2>3, <3>2, OperatorHeld, PhoneHeld, ServeHeld
  <2>4. CASE UNCHANGED vars
    BY <2>4, HeldQuietly DEF vars
  <2> QED BY <2>2, <2>3, <2>4 DEF Next
<1>3. (losses = 0 => Held) => (losses = 0 => ActiveIsHeld)
  BY DEF Held, HeldFor, Alive, ActiveIsHeld, OnItsWay, Brings, Fetches, Renews
<1> QED BY <1>1, <1>2, <1>3, InitType, NextType, PTL DEF Spec
=============================================================================
