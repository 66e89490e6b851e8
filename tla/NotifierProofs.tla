--------------------------- MODULE NotifierProofs ---------------------------
(***************************************************************************)
(* Theorems about Notifier, for any devices, messages, tasks and bounds.   *)
(***************************************************************************)
EXTENDS Notifier, TLAPS

-----------------------------------------------------------------------------
(* Types, and who waits for what *)

\* An answer the handling of a call may give.
Fits(a, kind) ==
  /\ a \in Answer \ {NoAnswer}
  /\ a.outcome = "ok" =>
       /\ kind = "beat" => a \in BeatAnswer
       /\ kind = "capture" => a \in BatchAnswer
       /\ kind = "rotate" => a \in RotationAnswer
       /\ kind = "pair" => a \in PairingAnswer

\* A task has an answer only to the call it waits for.
Answered ==
  \A t \in Tasks :
      \/ answer[t] = NoAnswer
      \/ task[t].call # "none" /\ Fits(answer[t], task[t].call)

\* The only request a task waits for is the call it makes, for the pairing in
\* hand, and that has no answer yet.
OneCall ==
  \A r \in requests :
      r.to \in Tasks =>
          /\ r.kind = task[r.to].call
          /\ r.kind # "pair" => r.device = task[r.to].on.device
          /\ answer[r.to] = NoAnswer
          /\ \A s \in requests : s.to = r.to => s = r

\* A task keeps its pairing in hand until its call and its commands are done,
\* and the command that made it call until it has the answer.
Steady(k) ==
  /\ k.call \in {"beat", "capture", "rotate", "revoke"} \/ k.rest # <<>> => k.on \in Snapshot
  /\ k.call = "rotate" \/ (k.call = "pair" /\ k.kind # "scan") => k.rest # <<>>
InHand == \A t \in Tasks : Steady(task[t])

\* Whoever waits for an approval is known.
Redeemed ==
  \A d \in Devices : rowStatus[d] = "awaiting_approval" => install[d] \in Handsets

WireType == /\ task \in [Tasks -> Task]
            /\ requests \subseteq Request
            /\ answer \in [Tasks -> Answer]
Wire     == WireType /\ Answered /\ OneCall /\ InHand
Inv      == TypeOK /\ Answered /\ OneCall /\ InHand /\ Redeemed

LEMMA NoAnswerShape == NoAnswer \in Answer /\ NoAnswer.outcome = "none"
  BY DEF Answer, NoAnswer

LEMMA IdleType == Idle \in Task /\ Idle.call = "none" /\ Idle.rest = <<>>
  BY DEF Idle, Task, NoSnapshot

LEMMA NotPairing == NoSnapshot \notin Snapshot
  BY DEF NoSnapshot, Snapshot

\* The fields of a request.
LEMMA RequestShape ==
  ASSUME NEW r \in Request
  PROVE  /\ r.kind \in {"beat", "capture", "rotate", "revoke", "pair"}
         /\ r.to \in Waiter /\ r.device \in Devices /\ r.stage \in Stage
         /\ r.kind \in {"rotate", "revoke"} => r \in CallRequest
         /\ r.kind = "beat" => r \in BeatRequest
         /\ r.kind = "capture" => r \in BatchRequest
         /\ r.kind = "pair" => r \in PairingRequest
         /\ r.kind # "pair" => r.token \in Nat
  BY DEF Request, CallRequest, BeatRequest, BatchRequest, PairingRequest

LEMMA Admitted ==
  ASSUME NEW r \in Request
  PROVE  /\ [r EXCEPT !.stage = "admitted"] \in Request
         /\ [r EXCEPT !.stage = "admitted"].to = r.to
         /\ [r EXCEPT !.stage = "admitted"].kind = r.kind
         /\ [r EXCEPT !.stage = "admitted"].device = r.device
<1>1. CASE r \in CallRequest
  BY <1>1 DEF CallRequest, Stage, Request
<1>2. CASE r \in BeatRequest
  BY <1>2 DEF BeatRequest, Stage, Request
<1>3. CASE r \in BatchRequest
  BY <1>3 DEF BatchRequest, Stage, Request
<1>4. CASE r \in PairingRequest
  BY <1>4 DEF PairingRequest, Stage, Request
<1> QED BY <1>1, <1>2, <1>3, <1>4 DEF Request

LEMMA Orphan ==
  ASSUME NEW r \in Request
  PROVE  /\ [r EXCEPT !.to = NoTask] \in Request
         /\ [r EXCEPT !.to = NoTask].to = NoTask
<1>1. CASE r \in CallRequest
  BY <1>1 DEF CallRequest, Waiter, Request
<1>2. CASE r \in BeatRequest
  BY <1>2 DEF BeatRequest, Waiter, Request
<1>3. CASE r \in BatchRequest
  BY <1>3 DEF BatchRequest, Waiter, Request
<1>4. CASE r \in PairingRequest
  BY <1>4 DEF PairingRequest, Waiter, Request
<1> QED BY <1>1, <1>2, <1>3, <1>4 DEF Request

\* What is left of a task.
LEMMA RestType ==
  ASSUME NEW k \in Task
  PROVE  /\ Rest(k) \in Task /\ Rest(k).call = "none"
         /\ Rest(k).rest # <<>> => Rest(k).rest = k.rest /\ Rest(k).on = k.on
         /\ Rest(k).todo \subseteq k.todo
<1>1. CASE k.rest # <<>>
  BY <1>1 DEF Rest, Task
<1>2. CASE k.rest = <<>> /\ k.todo = {} /\ k.kind # "leave"
  BY <1>2, IdleType DEF Rest, Idle
<1>3. CASE k.rest = <<>> /\ ~(k.todo = {} /\ k.kind # "leave")
  BY <1>3 DEF Rest, Task
<1> QED BY <1>1, <1>2, <1>3

-----------------------------------------------------------------------------
(* The steps of the wire *)

\* What the server keeps, and what the phone keeps.
ServerType ==
  /\ rowStatus \in [Devices -> RowStatus]
  /\ token \in [Devices -> Nat]
  /\ install \in [Devices -> Handsets \cup {"nobody"}]
  /\ commands \in [Devices -> Seq(Command)]
  /\ reported \in [Devices -> {"never", "on", "off"}]
  /\ approved \subseteq Handsets
  /\ adding \in {NoAddition} \cup [phone : Devices, wallet : Wallets,
                                   install : Handsets \cup {"nobody"}, before : Seq(Command)]
  /\ stored \subseteq Messages
  /\ Redeemed
PhoneType ==
  /\ pairing \in [Devices -> Pairing]
  /\ heard \subseteq Messages
  /\ held \cup queued \cup sent \subseteq Messages \X Wallets

LEMMA Parts == Inv <=> Wire /\ ServerType /\ PhoneType /\ losses \in 0 .. MaxLosses
  BY DEF Inv, Wire, WireType, ServerType, PhoneType, TypeOK

LEMMA Whole ==
  ASSUME Wire', ServerType', PhoneType', losses' \in 0 .. MaxLosses
  PROVE  Inv'
  BY DEF Inv, Wire, WireType, ServerType, PhoneType, TypeOK

LEMMA ServerKept ==
  ASSUME ServerType, UNCHANGED <<rows, stored>>
  PROVE  ServerType'
  BY DEF ServerType, rows, Redeemed

LEMMA PhoneKept ==
  ASSUME PhoneType, UNCHANGED <<pairing, queue>>
  PROVE  PhoneType'
  BY DEF PhoneType, queue

LEMMA Unmoved ==
  ASSUME Wire, UNCHANGED wire
  PROVE  Wire'
  BY DEF Wire, WireType, Answered, OneCall, InHand, wire, Fits

\* The server answers a request.
LEMMA Replied ==
  ASSUME Wire, NEW r \in requests, NEW a, Fits(a, r.kind), Reply(r, a), UNCHANGED task
  PROVE  Wire'
<1>0. r \in Request /\ r.to \in Waiter
  BY RequestShape DEF Wire, WireType
<1>1. requests' \subseteq requests /\ \A q \in requests' : q # r
  BY DEF Reply
<1>2. CASE r.to \notin Tasks
  <2>1. answer' = answer
    BY <1>0, <1>2 DEF Reply, Waiter
  <2> QED BY <1>1, <2>1 DEF Wire, WireType, Answered, OneCall, InHand
<1>3. CASE r.to \in Tasks
  <2>1. answer' = [answer EXCEPT ![r.to] = a]
    BY <1>3, NotifierAssumption DEF Reply, NotifierAssumption
  <2>2. WireType'
    BY <1>1, <1>3, <2>1 DEF Wire, WireType, Fits
  <2>3. task[r.to].call # "none" /\ task[r.to].call = r.kind
    BY <1>0, <1>3, RequestShape DEF Wire, OneCall
  <2>4. Answered'
    BY <1>3, <2>1, <2>3 DEF Wire, WireType, Answered
  <2>5. \A q \in requests' : q.to # r.to
    BY <1>1, <1>3 DEF Wire, OneCall
  <2>6. OneCall'
    BY <1>1, <2>1, <2>5 DEF Wire, WireType, OneCall
  <2> QED BY <2>2, <2>4, <2>6 DEF Wire, InHand
<1> QED BY <1>2, <1>3

LEMMA Refused401 ==
  ASSUME NEW kind, NEW a \in Refusal
  PROVE  Fits(a, kind)
  BY DEF Fits, Refusal, Answer, NoAnswer

\* The server gets on with a request.
LEMMA Advanced ==
  ASSUME Wire, NEW r \in requests, NEW s \in Request, Advance(r, s),
         s.to = r.to, s.kind = r.kind, s.device = r.device, UNCHANGED <<task, answer>>
  PROVE  Wire'
<1>1. requests' = (requests \ {r}) \cup {s}
  BY DEF Advance
<1>2. OneCall'
  <2> SUFFICES ASSUME NEW q \in requests', q.to \in Tasks
               PROVE  /\ q.kind = task[q.to].call
                      /\ q.kind # "pair" => q.device = task[q.to].on.device
                      /\ answer[q.to] = NoAnswer
                      /\ \A p \in requests' : p.to = q.to => p = q
    BY DEF OneCall
  <2>1. CASE q = s
    BY <1>1, <2>1 DEF Wire, OneCall
  <2>2. CASE q # s
    BY <1>1, <2>2 DEF Wire, OneCall
  <2> QED BY <2>1, <2>2
<1> QED BY <1>1, <1>2 DEF Wire, WireType, Answered, InHand

\* A task goes on without the network.
LEMMA WentOn ==
  ASSUME Wire, NEW t \in Tasks, NEW k \in Task, task[t].call = "none", k.call = "none",
         k.rest # <<>> => k.on \in Snapshot,
         task' = [task EXCEPT ![t] = k], UNCHANGED <<requests, answer>>
  PROVE  Wire'
<1>1. WireType'
  BY DEF Wire, WireType
<1>2. \A r \in requests : r.to # t
  BY RequestShape DEF Wire, WireType, OneCall
<1>3. answer[t] = NoAnswer
  BY DEF Wire, Answered
<1>4. Answered'
  BY <1>3 DEF Wire, WireType, Answered
<1>5. OneCall'
  BY <1>2 DEF Wire, WireType, OneCall
<1>6. InHand'
  BY DEF Wire, WireType, InHand, Steady
<1> QED BY <1>1, <1>4, <1>5, <1>6 DEF Wire

\* A task makes a call.
LEMMA Called ==
  ASSUME Wire, NEW t \in Tasks, NEW k \in Task, NEW r \in Request,
         task[t].call = "none", k.call = r.kind, r.to = t,
         r.kind # "pair" => r.device = k.on.device, Steady(k),
         task' = [task EXCEPT ![t] = k], requests' = requests \cup {r}, UNCHANGED answer
  PROVE  Wire'
<1>1. WireType'
  BY DEF Wire, WireType
<1>2. \A q \in requests : q.to # t
  BY RequestShape DEF Wire, WireType, OneCall
<1>3. answer[t] = NoAnswer
  BY DEF Wire, Answered
<1>4. Answered'
  BY <1>3 DEF Wire, WireType, Answered
<1>5. OneCall'
  <2> SUFFICES ASSUME NEW q \in requests', q.to \in Tasks
               PROVE  /\ q.kind = task'[q.to].call
                      /\ q.kind # "pair" => q.device = task'[q.to].on.device
                      /\ answer[q.to] = NoAnswer
                      /\ \A p \in requests' : p.to = q.to => p = q
    BY DEF OneCall
  <2>1. CASE q = r
    BY <1>2, <1>3, <2>1 DEF Wire, WireType
  <2>2. CASE q # r
    BY <1>2, <2>2 DEF Wire, WireType, OneCall
  <2> QED BY <2>1, <2>2
<1>6. InHand'
  BY DEF Wire, WireType, InHand
<1> QED BY <1>1, <1>4, <1>5, <1>6 DEF Wire

\* A task takes the answer to its call.
LEMMA Returned ==
  ASSUME Wire, NEW t \in Tasks, NEW k \in Task, answer[t] # NoAnswer,
         k.rest # <<>> => k.on \in Snapshot, Return(t, k)
  PROVE  Wire'
<1>1. Rest(k) \in Task /\ Rest(k).call = "none"
  BY RestType
<1>2. WireType'
  BY <1>1, NoAnswerShape DEF Wire, WireType, Return
<1>3. \A r \in requests : r.to # t
  BY DEF Wire, OneCall
<1>4. Answered'
  BY DEF Wire, WireType, Answered, Return
<1>5. OneCall'
  BY <1>3 DEF Wire, WireType, OneCall, Return
<1>6. InHand'
  BY <1>1, RestType DEF Wire, WireType, InHand, Steady, Return
<1> QED BY <1>2, <1>4, <1>5, <1>6 DEF Wire

-----------------------------------------------------------------------------
(* Every step keeps the types *)

LEMMA OperatorKeeps ==
  ASSUME Inv, Operator
  PROVE  Inv'
<1> USE Parts
<1>1. ASSUME NEW d \in Devices, StrangerScans(d) PROVE Inv'
  <2> DEFINE q == [kind |-> "pair", to |-> NoTask, device |-> d, install |-> "other",
                   inherits |-> FALSE, stage |-> "sent"]
  <2>1. q \in Request /\ q.to \notin Tasks
    BY NotifierAssumption
    DEF NotifierAssumption, Request, PairingRequest, Waiter, Handsets, Stage
  <2>2. requests' = requests \cup {q} /\ UNCHANGED <<rows, stored, pairing, queue, task, answer, losses>>
    BY <1>1 DEF StrangerScans
  <2> HIDE DEF q
  <2>3. OneCall'
    BY <2>1, <2>2 DEF Wire, OneCall
  <2>4. Wire'
    BY <2>1, <2>2, <2>3 DEF Wire, WireType, Answered, InHand
  <2> QED BY <2>2, <2>4, ServerKept, PhoneKept, Whole
<1>2. CASE ~(\E d \in Devices : StrangerScans(d))
  <2>1. UNCHANGED <<stored, pairing, queue, wire, losses>>
    BY <1>2 DEF Operator, ShowCode, CodeExpires, ApproveDevice, RevokeDevice, Revoke,
        RequestTokenRotation, RequestSending, QueueCommand, AddAccountRead, AddAccountWrite
  <2>2. ASSUME NEW d \in Devices, ShowCode(d) \/ CodeExpires(d) PROVE ServerType'
    BY <2>2 DEF ServerType, Redeemed, ShowCode, CodeExpires, RowStatus
  <2>3. ASSUME NEW d \in Devices, ApproveDevice(d) PROVE ServerType'
    BY <2>3 DEF ServerType, Redeemed, ApproveDevice, Approvable, RowStatus
  <2>4. ASSUME NEW d \in Devices, RevokeDevice(d) PROVE ServerType'
    <3>1. <<[type |-> "stop"]>> \in Seq(Command)
      BY DEF Command
    <3> QED BY <2>4, <3>1 DEF ServerType, Redeemed, RevokeDevice, Revoke, RowStatus
  <2>5. ASSUME NEW d \in Devices, NEW c \in Command, QueueCommand(d, c) PROVE ServerType'
    BY <2>5 DEF ServerType, Redeemed, QueueCommand
  <2>6. ASSUME NEW d \in Devices, RequestTokenRotation(d) PROVE ServerType'
    BY <2>5, <2>6 DEF RequestTokenRotation, Command
  <2>7. ASSUME NEW d \in Devices, NEW on \in BOOLEAN, RequestSending(d, on) PROVE ServerType'
    BY <2>5, <2>7 DEF RequestSending, Command
  <2>8. ASSUME NEW d \in Devices, NEW w \in Wallets, AddAccountRead(d, w) PROVE ServerType'
    BY <2>8 DEF ServerType, Redeemed, AddAccountRead
  <2>9. ASSUME AddAccountWrite PROVE ServerType'
    <3>1. /\ adding.phone \in Devices /\ adding.wallet \in Wallets
          /\ adding.install \in Handsets \cup {"nobody"} /\ adding.before \in Seq(Command)
      BY <2>9 DEF AddAccountWrite, ServerType
    <3>2. [type |-> "add_account", device |-> adding.wallet] \in Command
      BY <3>1 DEF Command
    <3>3. Append(adding.before, [type |-> "add_account", device |-> adding.wallet]) \in Seq(Command)
      BY <3>1, <3>2
    <3>4. adding.wallet \in Devices
      BY <3>1, NotifierAssumption DEF NotifierAssumption
    <3>5. CASE Addable(adding.wallet)
      <4>1. /\ rowStatus' = [rowStatus EXCEPT ![adding.wallet] = "pending"]
            /\ install' = [install EXCEPT ![adding.wallet] = adding.install]
            /\ commands' = [commands EXCEPT ![adding.phone] = Append(adding.before,
                               [type |-> "add_account", device |-> adding.wallet])]
            /\ adding' = NoAddition /\ UNCHANGED <<token, reported, approved, stored>>
        BY <2>9, <3>5 DEF AddAccountWrite
      <4>2. rowStatus' \in [Devices -> RowStatus]
        BY <3>4, <4>1 DEF ServerType, RowStatus
      <4>3. install' \in [Devices -> Handsets \cup {"nobody"}]
        BY <3>1, <4>1 DEF ServerType
      <4>4. commands' \in [Devices -> Seq(Command)]
        BY <3>1, <3>3, <4>1 DEF ServerType
      <4>5. Redeemed'
        BY <3>4, <4>1 DEF ServerType, Redeemed
      <4> QED BY <4>1, <4>2, <4>3, <4>4, <4>5 DEF ServerType
    <3>6. CASE ~Addable(adding.wallet)
      BY <2>9, <3>6 DEF AddAccountWrite, ServerType, Redeemed
    <3> QED BY <3>5, <3>6
  <2>10. ServerType'
    BY <1>2, <2>2, <2>3, <2>4, <2>6, <2>7, <2>8, <2>9 DEF Operator
  <2> QED BY <2>1, <2>10, Unmoved, PhoneKept, Whole DEF wire
<1> QED BY <1>1, <1>2

LEMMA ServeKeeps ==
  ASSUME Inv, NEW r \in requests, Serve(r)
  PROVE  Inv'
<1> USE Parts
<1>1. r \in Request /\ r.device \in Devices
  BY RequestShape DEF Wire, WireType
<1>2. UNCHANGED <<pairing, queue, task, losses>>
  BY DEF Serve, Authenticate, AnswerBeat, AnswerBatch, CompleteTokenRotation, RevokeSelf, Revoke,
     ClaimRead, ClaimWrite, Ingest
<1>3. PhoneType'
  BY <1>2, PhoneKept
<1>4. ASSUME Refuse(r) PROVE Wire'
  BY <1>2, <1>4, Replied, Refused401 DEF Refuse, Refusal
<1>5. ASSUME Authenticate(r) PROVE Wire' /\ ServerType'
  <2>1. ASSUME Advance(r, [r EXCEPT !.stage = "admitted"]), UNCHANGED answer PROVE Wire'
    BY <1>1, <1>2, <2>1, Admitted, Advanced
  <2>2. ASSUME Reply(r, [outcome |-> "waiting"]) PROVE Wire'
    BY <1>2, <2>2, Replied, Refused401 DEF Refusal
  <2> QED BY <1>4, <1>5, <2>1, <2>2, ServerKept DEF Authenticate
<1>6. ASSUME AnswerBeat(r) PROVE Wire' /\ ServerType'
  <2>1. Fits([outcome |-> "ok", commands |-> commands[r.device]], r.kind)
    BY <1>1, <1>6 DEF ServerType, AnswerBeat, Fits, BeatAnswer, Answer, NoAnswer
  <2>2. <<>> \in Seq(Command)
    OBVIOUS
  <2> QED BY <1>1, <1>6, <2>1, <2>2, Replied DEF AnswerBeat, ServerType, Redeemed
<1>7. ASSUME NEW m \in r.load, Ingest(r, m) PROVE Wire' /\ ServerType'
  <2> DEFINE s == [r EXCEPT !.load = @ \ {m}, !.done = @ \cup {m}]
  <2>1. r \in BatchRequest
    BY <1>1, <1>7, RequestShape DEF Ingest
  <2>2. m \in Messages
    BY <2>1 DEF BatchRequest
  <2>3. s \in Request /\ s.to = r.to /\ s.kind = r.kind /\ s.device = r.device
    BY <2>1 DEF BatchRequest, Request
  <2>4. Advance(r, s) /\ UNCHANGED answer
    BY <1>7 DEF Ingest
  <2> HIDE DEF s
  <2>5. Wire'
    BY <1>2, <2>3, <2>4, Advanced
  <2> QED BY <1>7, <2>2, <2>5 DEF Ingest, rows, ServerType, Redeemed
<1>8. ASSUME AnswerBatch(r) PROVE Wire' /\ ServerType'
  <2>1. r \in BatchRequest
    BY <1>1, <1>8, RequestShape DEF AnswerBatch
  <2>2. Fits([outcome |-> "ok", acknowledged |-> Results(r)], r.kind)
    BY <1>8, <2>1 DEF AnswerBatch, Results, BatchRequest, Fits, BatchAnswer, Answer, NoAnswer
  <2> QED BY <1>8, <2>2, Replied, ServerKept DEF AnswerBatch
<1>9. ASSUME CompleteTokenRotation(r) PROVE Wire' /\ ServerType'
  <2>1. Fits([outcome |-> "ok", token |-> token[r.device] + 1], r.kind)
    BY <1>1, <1>9 DEF ServerType, CompleteTokenRotation, Fits, RotationAnswer, Answer, NoAnswer
  <2>2. Wire'
    BY <1>2, <1>4, <1>9, <2>1, Replied DEF CompleteTokenRotation
  <2>3. <<>> \in Seq(Command)
    OBVIOUS
  <2>4. \/ /\ token' = [token EXCEPT ![r.device] = @ + 1]
           /\ commands' = [commands EXCEPT ![r.device] = <<>>]
        \/ UNCHANGED <<token, commands>>
    BY <1>9 DEF CompleteTokenRotation
  <2>5. token' \in [Devices -> Nat]
    BY <2>4 DEF ServerType
  <2>6. commands' \in [Devices -> Seq(Command)]
    BY <2>3, <2>4 DEF ServerType
  <2> QED BY <1>9, <2>2, <2>5, <2>6 DEF CompleteTokenRotation, ServerType, Redeemed
<1>10. ASSUME RevokeSelf(r) PROVE Wire' /\ ServerType'
  <2>1. Fits([outcome |-> "ok"], r.kind)
    BY <1>10 DEF RevokeSelf, Fits, Farewell, Answer, NoAnswer
  <2>2. <<>> \in Seq(Command)
    OBVIOUS
  <2> QED BY <1>1, <1>2, <1>10, <2>1, <2>2, Replied
      DEF RevokeSelf, Revoke, ServerType, Redeemed, RowStatus
<1>11. ASSUME ClaimRead(r) PROVE Wire' /\ ServerType'
  <2> DEFINE s == [r EXCEPT !.stage = "admitted", !.inherits = Inherits(r)]
  <2>1. r \in PairingRequest
    BY <1>1, <1>11, RequestShape DEF ClaimRead
  <2>2. Inherits(r) \in BOOLEAN
    BY DEF Inherits
  <2>3. s \in Request /\ s.to = r.to /\ s.kind = r.kind /\ s.device = r.device
    BY <2>1, <2>2 DEF PairingRequest, Request, Stage
  <2>4. ASSUME Advance(r, s), UNCHANGED answer PROVE Wire'
    <3> HIDE DEF s
    <3> QED BY <1>2, <2>3, <2>4, Advanced
  <2> QED BY <1>4, <1>11, <2>4, ServerKept DEF ClaimRead
<1>12. ASSUME ClaimWrite(r) PROVE Wire' /\ ServerType'
  <2>1. r \in PairingRequest
    BY <1>1, <1>12, RequestShape DEF ClaimWrite
  <2>2. CASE ~Burnable(r.device)
    BY <1>4, <1>12, <2>2 DEF ClaimWrite, ServerType, Redeemed
  <2>3. CASE Burnable(r.device)
    <3>1. Fits([outcome |-> "ok", device |-> r.device, token |-> token[r.device] + 1,
                awaiting |-> ~r.inherits], r.kind)
      BY <1>12, <2>1 DEF ServerType, PairingRequest, ClaimWrite, Fits, PairingAnswer, Answer, NoAnswer
    <3>2. Wire'
      BY <1>2, <1>12, <2>3, <3>1, Replied DEF ClaimWrite
    <3>3. r.install \in Handsets
      BY <2>1 DEF PairingRequest
    <3>4. /\ rowStatus' = [d \in Devices |->
                 IF d = r.device THEN (IF r.inherits THEN "active" ELSE "awaiting_approval")
                 ELSE IF Retired(r, d) THEN "revoked" ELSE rowStatus[d]]
          /\ token' = [d \in Devices |->
                 IF d = r.device THEN token[d] + 1 ELSE IF Retired(r, d) THEN 0 ELSE token[d]]
          /\ install' = [install EXCEPT ![r.device] = r.install]
          /\ UNCHANGED <<commands, reported, approved, adding, stored>>
      BY <1>12, <2>3 DEF ClaimWrite
    <3>5. rowStatus' \in [Devices -> RowStatus]
      BY <3>4 DEF ServerType, RowStatus
    <3>6. token' \in [Devices -> Nat]
      BY <3>4 DEF ServerType
    <3>7. install' \in [Devices -> Handsets \cup {"nobody"}]
      BY <3>3, <3>4 DEF ServerType
    <3>8. Redeemed'
      BY <3>3, <3>4 DEF ServerType, Redeemed
    <3> QED BY <3>2, <3>4, <3>5, <3>6, <3>7, <3>8 DEF ServerType
  <2> QED BY <2>2, <2>3
<1> QED
  BY <1>2, <1>3, <1>5, <1>6, <1>7, <1>8, <1>9, <1>10, <1>11, <1>12, Whole DEF Serve

\* The pairings as the phone edits them.
LEMMA Edited ==
  ASSUME pairing \in [Devices -> Pairing], NEW d \in Devices, NEW p \in Pairing
  PROVE  With(d, p) \in [Devices -> Pairing]
  BY DEF With

LEMMA LatchType ==
  ASSUME pairing \in [Devices -> Pairing], NEW d \in Devices
  PROVE  Latch(d) \in [Devices -> Pairing]
<1>1. [pairing[d] EXCEPT !.revoked = TRUE] \in Pairing
  BY DEF Pairing
<1> QED BY <1>1, Edited DEF Latch

LEMMA SnapshotType ==
  ASSUME pairing \in [Devices -> Pairing], NEW ds \in SUBSET Devices
  PROVE  Snapshots(ds) \subseteq Snapshot
  BY DEF Snapshots, Snapshot, Pairing

LEMMA Taken ==
  ASSUME NEW k \in Task, k.rest # <<>>
  PROVE  /\ Head(k.rest) \in Command
         /\ [k EXCEPT !.rest = Tail(@)] \in Task
         /\ [k EXCEPT !.rest = Tail(@)].on = k.on
<1>1. Head(k.rest) \in Command /\ Tail(k.rest) \in Seq(Command)
  BY DEF Task
<1> QED BY <1>1 DEF Task

LEMMA BeginKeeps ==
  ASSUME Inv, NEW t \in Tasks, NEW k \in Task, Start(t, k), k.call = "none", k.rest = <<>>,
         pairing' \in [Devices -> Pairing],
         UNCHANGED <<rows, stored, queue, requests, answer, losses>>
  PROVE  Inv'
<1>1. task[t].call = "none" /\ task' = [task EXCEPT ![t] = k]
  BY IdleType DEF Start
<1>2. Wire'
  BY <1>1, Parts, WentOn
<1>3. PhoneType'
  BY Parts DEF PhoneType, queue
<1> QED BY <1>2, <1>3, Parts, ServerKept, Whole

LEMMA StartKeeps ==
  ASSUME Inv, NEW t \in Tasks,
         \/ BeginBeats(t) \/ BeginFlush(t)
         \/ \E on \in BOOLEAN : SwitchSending(t, on)
         \/ \E ds \in SUBSET Devices : Leave(t, ds)
         \/ \E d \in Devices : Scan(t, d)
  PROVE  Inv'
<1>1. pairing \in [Devices -> Pairing]
  BY Parts DEF PhoneType
<1>2. ASSUME NEW ds \in SUBSET Devices, NEW kind \in {"beat", "flush"},
             Start(t, [Idle EXCEPT !.kind = kind, !.todo = Snapshots(ds)]),
             UNCHANGED <<rows, stored, pairing, queue, requests, answer, losses>>
      PROVE  Inv'
  <2> DEFINE k == [Idle EXCEPT !.kind = kind, !.todo = Snapshots(ds)]
  <2>1. k \in Task /\ k.call = "none" /\ k.rest = <<>>
    BY <1>1, SnapshotType, IdleType DEF Idle, Task
  <2> HIDE DEF k
  <2> QED BY <1>1, <1>2, <2>1, BeginKeeps DEF k
<1>3. CASE BeginBeats(t)
  BY <1>2, <1>3 DEF BeginBeats, Beating
<1>4. CASE BeginFlush(t)
  <2>1. Flushing \subseteq Devices
    BY NotifierAssumption DEF NotifierAssumption, Flushing
  <2> QED BY <1>2, <1>4, <2>1 DEF BeginFlush
<1>5. ASSUME NEW on \in BOOLEAN, SwitchSending(t, on) PROVE Inv'
  <2> DEFINE k == [Idle EXCEPT !.kind = "clear",
                        !.group = IF on THEN {} ELSE {d \in Devices : Paired(d)}]
  <2>1. k \in Task /\ k.call = "none" /\ k.rest = <<>>
    BY IdleType DEF Idle, Task
  <2>2. pairing' \in [Devices -> Pairing]
    BY <1>1, <1>5 DEF SwitchSending, Pairing
  <2>3. Start(t, k) /\ UNCHANGED <<rows, stored, queue, requests, answer, losses>>
    BY <1>5 DEF SwitchSending
  <2> HIDE DEF k
  <2> QED BY <2>1, <2>2, <2>3, BeginKeeps
<1>6. ASSUME NEW ds \in SUBSET Devices, Leave(t, ds) PROVE Inv'
  <2> DEFINE k == [Idle EXCEPT !.kind = "leave", !.group = ds, !.todo = Snapshots(ds \cap Beating)]
  <2>1. k \in Task /\ k.call = "none" /\ k.rest = <<>>
    BY <1>1, SnapshotType, IdleType DEF Idle, Task
  <2>2. Start(t, k) /\ UNCHANGED <<rows, stored, pairing, queue, requests, answer, losses>>
    BY <1>6 DEF Leave
  <2> HIDE DEF k
  <2> QED BY <1>1, <2>1, <2>2, BeginKeeps
<1>7. ASSUME NEW d \in Devices, Scan(t, d) PROVE Inv'
  <2> DEFINE k == [Idle EXCEPT !.kind = "scan", !.call = "pair"]
             r == PairRequest(t, d)
  <2>1. k \in Task /\ k.call = "pair" /\ Steady(k)
    BY IdleType DEF Idle, Task, Steady
  <2>2. r \in Request /\ r.kind = "pair" /\ r.to = t
    BY DEF PairRequest, Request, PairingRequest, Waiter, Handsets, Stage
  <2>3. /\ task[t] = Idle /\ task' = [task EXCEPT ![t] = k]
        /\ requests' = requests \cup {r}
        /\ UNCHANGED <<rows, stored, pairing, queue, answer, losses>>
    BY <1>7 DEF Scan, Start
  <2> HIDE DEF k, r
  <2>4. Wire'
    BY <2>1, <2>2, <2>3, Parts, IdleType, Called
  <2> QED BY <2>3, <2>4, Parts, ServerKept, PhoneKept, Whole
<1> QED BY <1>3, <1>4, <1>5, <1>6, <1>7

\* The steps of a task that has nothing to wait for.
LEMMA StepKeeps ==
  ASSUME Inv, NEW t \in Tasks,
         \/ SendBeat(t) \/ SendBatch(t) \/ SendFarewell(t) \/ Forget(t) \/ ClearBacklog(t)
         \/ CarryOut(t)
  PROVE  Inv'
<1> DEFINE k == task[t]
<1>1. /\ Wire /\ ServerType /\ PhoneType /\ losses \in 0 .. MaxLosses
      /\ k \in Task /\ pairing \in [Devices -> Pairing]
  BY Parts DEF Wire, WireType, PhoneType
<1>2. ASSUME NEW s \in k.todo, NEW call \in {"beat", "capture", "revoke"}, NEW r \in Request,
             Between(t), Send(t, s, call, r), r.kind = call, r.to = t, r.device = s.device
      PROVE  Inv'
  <2> DEFINE l == [k EXCEPT !.todo = @ \ {s}, !.on = s, !.call = call]
  <2>1. s \in Snapshot
    BY <1>1 DEF Task
  <2>2. l \in Task /\ l.call = call /\ l.on = s /\ Steady(l)
    BY <1>1, <2>1 DEF Task, Steady
  <2>3. /\ k.call = "none" /\ task' = [task EXCEPT ![t] = l] /\ requests' = requests \cup {r}
        /\ UNCHANGED <<rows, stored, pairing, queue, answer, losses>>
    BY <1>2 DEF Between, Send
  <2> HIDE DEF l
  <2>4. Wire'
    BY <1>1, <1>2, <2>1, <2>2, <2>3, Called
  <2> QED BY <1>1, <2>3, <2>4, ServerKept, PhoneKept, Whole
<1>3. ASSUME NEW l \in Task, k.call = "none", l.call = "none", l.rest # <<>> => l.on \in Snapshot,
             task' = [task EXCEPT ![t] = l], PhoneType',
             UNCHANGED <<rows, stored, requests, answer, losses>>
      PROVE  Inv'
  BY <1>1, <1>3, WentOn, ServerKept, Whole
<1>4. CASE SendBeat(t)
  <2>1. PICK s \in k.todo :
            Send(t, s, "beat", [kind |-> "beat", to |-> t, device |-> s.device, token |-> s.token,
                                sending |-> s.sending, stage |-> "sent"])
    BY <1>4 DEF SendBeat
  <2>2. s \in Snapshot
    BY <1>1 DEF Task
  <2> DEFINE r == [kind |-> "beat", to |-> t, device |-> s.device, token |-> s.token,
                   sending |-> s.sending, stage |-> "sent"]
  <2>3. r \in Request /\ r.kind = "beat" /\ r.to = t /\ r.device = s.device
    BY <2>2 DEF Snapshot, Request, BeatRequest, Waiter, Stage
  <2> QED BY <1>2, <1>4, <2>1, <2>3 DEF SendBeat
<1>5. CASE SendBatch(t)
  <2>1. PICK s \in k.todo :
            IF Pending(s.device) = {}
            THEN /\ task' = [task EXCEPT ![t] = Rest([task[t] EXCEPT !.todo = @ \ {s}])]
                 /\ UNCHANGED <<rows, stored, pairing, queue, requests, answer, losses>>
            ELSE Send(t, s, "capture",
                      [kind |-> "capture", to |-> t, device |-> s.device, token |-> s.token,
                       load |-> Pending(s.device), done |-> {}, stage |-> "sent"])
    BY <1>5 DEF SendBatch
  <2>2. s \in Snapshot
    BY <1>1 DEF Task
  <2> DEFINE r == [kind |-> "capture", to |-> t, device |-> s.device, token |-> s.token,
                   load |-> Pending(s.device), done |-> {}, stage |-> "sent"]
             l == [k EXCEPT !.todo = @ \ {s}]
  <2>3. Pending(s.device) \in SUBSET Messages
    BY <1>1 DEF PhoneType, Pending, RowsOf
  <2>4. CASE Pending(s.device) = {}
    <3>1. l \in Task /\ l.rest = <<>> /\ k.call = "none"
      BY <1>1, <1>5 DEF SendBatch, Between, Task
    <3>2. /\ task' = [task EXCEPT ![t] = Rest(l)]
          /\ UNCHANGED <<rows, stored, pairing, queue, requests, answer, losses>>
      BY <2>1, <2>4
    <3> HIDE DEF l
    <3> QED BY <1>1, <1>3, <3>1, <3>2, RestType, PhoneKept
  <2>5. CASE Pending(s.device) # {}
    <3>1. r \in Request /\ r.kind = "capture" /\ r.to = t /\ r.device = s.device
      BY <2>2, <2>3 DEF Snapshot, Request, BatchRequest, Waiter, Stage
    <3>2. Send(t, s, "capture", r)
      BY <2>1, <2>5
    <3> HIDE DEF r
    <3> QED BY <1>2, <1>5, <3>1, <3>2 DEF SendBatch
  <2> QED BY <2>4, <2>5
<1>6. CASE SendFarewell(t)
  <2>1. PICK s \in k.todo :
            Send(t, s, "revoke", [kind |-> "revoke", to |-> t, device |-> s.device,
                                  token |-> s.token, stage |-> "sent"])
    BY <1>6 DEF SendFarewell
  <2>2. s \in Snapshot
    BY <1>1 DEF Task
  <2> DEFINE r == [kind |-> "revoke", to |-> t, device |-> s.device,
                   token |-> s.token, stage |-> "sent"]
  <2>3. r \in Request /\ r.kind = "revoke" /\ r.to = t /\ r.device = s.device
    BY <2>2 DEF Snapshot, Request, CallRequest, Waiter, Stage
  <2> QED BY <1>2, <1>6, <2>1, <2>3 DEF SendFarewell
<1>7. CASE Forget(t)
  <2>1. k.call = "none" /\ task' = [task EXCEPT ![t] = Idle]
    BY <1>7 DEF Forget, Between
  <2>2. pairing' \in [Devices -> Pairing]
    BY <1>1, <1>7 DEF Forget, NoPairing, Pairing
  <2>3. PhoneType'
    BY <1>1, <1>7, <2>2 DEF Forget, Clear, PhoneType
  <2> QED BY <1>3, <1>7, <2>1, <2>3, IdleType DEF Forget
<1>8. CASE ClearBacklog(t)
  <2> DEFINE l == [Idle EXCEPT !.kind = "beat", !.todo = Snapshots({d \in Devices : Live(d)})]
  <2>1. l \in Task /\ l.rest = <<>>
    BY <1>1, SnapshotType, IdleType DEF Idle, Task
  <2>2. task' = [task EXCEPT ![t] = Rest(l)] /\ UNCHANGED <<rows, stored, pairing, requests, answer, losses>>
    BY <1>8 DEF ClearBacklog
  <2>3. PhoneType'
    BY <1>1, <1>8, <2>2 DEF ClearBacklog, Clear, PhoneType
  <2>4. k.call = "none"
    BY <1>8 DEF ClearBacklog, Between
  <2> HIDE DEF l
  <2> QED BY <1>3, <2>1, <2>2, <2>3, <2>4, RestType
<1>9. CASE CarryOut(t)
  <2> DEFINE c == Head(k.rest)
             d == k.on.device
             l == [k EXCEPT !.rest = Tail(@)]
  <2>1. k.call = "none" /\ k.rest # <<>> /\ UNCHANGED <<rows, stored, answer, losses>>
    BY <1>9 DEF CarryOut
  <2>2. k.on \in Snapshot /\ d \in Devices
    BY <1>1, <2>1 DEF Wire, InHand, Steady, Snapshot
  <2>3. c \in Command /\ l \in Task /\ l.on = k.on
    BY <1>1, <2>1, Taken
  <2>4. ASSUME task' = [task EXCEPT ![t] = Rest(l)], PhoneType', UNCHANGED requests PROVE Inv'
    <3> HIDE DEF l
    <3>1. Rest(l) \in Task /\ Rest(l).call = "none" /\ (Rest(l).rest # <<>> => Rest(l).on \in Snapshot)
      BY <2>2, <2>3, RestType
    <3> QED BY <1>3, <2>1, <2>4, <3>1
  <2>5. ASSUME NEW call \in {"rotate", "pair"}, NEW r \in Request, r.kind = call, r.to = t,
               call = "rotate" => r.device = d,
               task' = [task EXCEPT ![t].call = call], requests' = requests \cup {r},
               UNCHANGED <<pairing, queue>>
        PROVE  Inv'
    <3> DEFINE m == [k EXCEPT !.call = call]
    <3>1. m \in Task /\ m.call = call /\ m.on = k.on /\ Steady(m)
      BY <1>1, <2>1, <2>2 DEF Task, Steady
    <3>2. task' = [task EXCEPT ![t] = m]
      BY <1>1, <2>5 DEF Wire, WireType
    <3> HIDE DEF m
    <3>3. Wire'
      BY <1>1, <2>1, <2>2, <2>5, <3>1, <3>2, Called
    <3> QED BY <1>1, <2>1, <2>5, <3>3, ServerKept, PhoneKept, Whole
  <2>6. CASE c.type = "rotate_token"
    <3> DEFINE r == [kind |-> "rotate", to |-> t, device |-> d, token |-> k.on.token, stage |-> "sent"]
    <3>1. r \in Request /\ r.kind = "rotate" /\ r.to = t /\ r.device = d
      BY <2>2 DEF Snapshot, Request, CallRequest, Waiter, Stage
    <3>2. /\ task' = [task EXCEPT ![t].call = "rotate"] /\ requests' = requests \cup {r}
          /\ UNCHANGED <<pairing, queue>>
      BY <1>9, <2>6 DEF CarryOut
    <3> HIDE DEF r
    <3> QED BY <2>5, <3>1, <3>2
  <2>7. CASE c.type = "set_sending"
    <3>1. c.enabled \in BOOLEAN
      BY <2>3, <2>7 DEF Command
    <3>2. SetSending(t, d, c.enabled)
      BY <1>9, <2>7 DEF CarryOut
    <3>3. [pairing[d] EXCEPT !.sending = c.enabled] \in Pairing
      BY <1>1, <2>2, <3>1 DEF Pairing
    <3>4. pairing' \in [Devices -> Pairing]
      BY <1>1, <2>2, <3>2, <3>3, Edited DEF SetSending
    <3>5. PhoneType'
      BY <1>1, <3>2, <3>4 DEF SetSending, Clear, queue, PhoneType
    <3> QED BY <2>4, <3>2, <3>5 DEF SetSending
  <2>8. CASE c.type = "stop"
    <3>1. /\ pairing' = Latch(d) /\ task' = [task EXCEPT ![t] = Rest(l)]
          /\ UNCHANGED <<requests, queue>>
      BY <1>9, <2>8 DEF CarryOut
    <3>2. PhoneType'
      BY <1>1, <2>2, <3>1, LatchType DEF queue, PhoneType
    <3> QED BY <2>4, <3>1, <3>2
  <2>9. CASE c.type = "add_account"
    <3> DEFINE r == PairRequest(t, c.device)
    <3>1. c.device \in Devices
      BY <2>3, <2>9, NotifierAssumption DEF Command, NotifierAssumption
    <3>2. r \in Request /\ r.kind = "pair" /\ r.to = t
      BY <3>1 DEF PairRequest, Request, PairingRequest, Waiter, Handsets, Stage
    <3>3. /\ task' = [task EXCEPT ![t].call = "pair"] /\ requests' = requests \cup {r}
          /\ UNCHANGED <<pairing, queue>>
      BY <1>9, <2>9 DEF CarryOut
    <3> HIDE DEF r
    <3> QED BY <2>5, <3>2, <3>3
  <2>10. c.type \in {"rotate_token", "set_sending", "stop", "add_account"}
    BY <2>3 DEF Command
  <2> QED BY <2>6, <2>7, <2>8, <2>9, <2>10
<1> QED BY <1>4, <1>5, <1>6, <1>7, <1>8, <1>9

\* The steps of a task that has its answer.
LEMMA AnswerKeeps ==
  ASSUME Inv, NEW t \in Tasks,
         HearBeat(t) \/ HearBatch(t) \/ HearRotation(t) \/ HearFarewell(t) \/ HearPairing(t)
  PROVE  Inv'
<1> DEFINE k == task[t]
           d == k.on.device
<1>1. /\ Wire /\ ServerType /\ PhoneType /\ losses \in 0 .. MaxLosses
      /\ k \in Task /\ pairing \in [Devices -> Pairing]
  BY Parts DEF Wire, WireType, PhoneType
<1>2. answer[t] # NoAnswer /\ k.call # "none" /\ Fits(answer[t], k.call)
  BY <1>1 DEF Wire, Answered, HearBeat, HearBatch, HearRotation, HearFarewell, HearPairing, Heard
<1>3. ASSUME NEW l \in Task, Return(t, l), l.rest # <<>> => l.on \in Snapshot, PhoneType'
      PROVE  Inv'
  <2>1. Wire'
    BY <1>1, <1>2, <1>3, Returned
  <2>2. UNCHANGED <<rows, stored, losses>>
    BY <1>3 DEF Return
  <2> QED BY <1>1, <1>3, <2>1, <2>2, ServerKept, Whole
<1>4. k.rest # <<>> => k.on \in Snapshot
  BY <1>1 DEF Wire, InHand, Steady
<1>5. k.call \in {"beat", "capture", "rotate", "revoke"} => k.on \in Snapshot /\ d \in Devices
  BY <1>1 DEF Wire, InHand, Steady, Snapshot
<1>6. k.call # "pair" => LatchedBy(t) \in [Devices -> Pairing]
  BY <1>1, <1>2, <1>5, LatchType DEF LatchedBy, Task
<1>7. ASSUME pairing' \in [Devices -> Pairing], UNCHANGED queue PROVE PhoneType'
  BY <1>1, <1>7 DEF PhoneType, queue
<1>8. CASE HearBeat(t)
  <2>1. k.call = "beat" /\ UNCHANGED queue
    BY <1>8 DEF HearBeat, Heard
  <2>2. ASSUME NEW b \in BOOLEAN PROVE With(d, [pairing[d] EXCEPT !.awaiting = b]) \in [Devices -> Pairing]
    <3>1. [pairing[d] EXCEPT !.awaiting = b] \in Pairing
      BY <1>1, <1>5, <2>1 DEF Pairing
    <3> QED BY <1>1, <1>5, <2>1, <3>1, Edited
  <2>3. CASE answer[t].outcome = "ok"
    <3> DEFINE l == [k EXCEPT !.rest = answer[t].commands]
    <3>1. l \in Task /\ l.on = k.on
      BY <1>1, <1>2, <2>1, <2>3 DEF Fits, BeatAnswer, Task
    <3>2. pairing' = With(d, [pairing[d] EXCEPT !.awaiting = FALSE]) /\ Return(t, l)
      BY <1>8, <2>3 DEF HearBeat
    <3> HIDE DEF l
    <3> QED BY <1>3, <1>5, <1>7, <2>1, <2>2, <3>1, <3>2
  <2>4. CASE answer[t].outcome = "waiting"
    <3>1. pairing' = With(d, [pairing[d] EXCEPT !.awaiting = TRUE]) /\ Return(t, k)
      BY <1>8, <2>4 DEF HearBeat
    <3> QED BY <1>1, <1>3, <1>4, <1>7, <2>1, <2>2, <3>1
  <2>5. CASE answer[t].outcome \in {"unauthorized", "failed"}
    <3>1. pairing' = LatchedBy(t) /\ Return(t, k)
      BY <1>8, <2>5 DEF HearBeat
    <3> QED BY <1>1, <1>3, <1>4, <1>6, <1>7, <2>1, <3>1
  <2> QED BY <1>8, <2>3, <2>4, <2>5 DEF HearBeat
<1>9. CASE HearBatch(t)
  <2>1. k.call = "capture" /\ pairing' = LatchedBy(t) /\ Return(t, k) /\ UNCHANGED <<heard, held>>
    BY <1>9 DEF HearBatch, Heard
  <2>2. queued' \subseteq queued /\ sent' \subseteq sent \cup queued
    BY <1>9 DEF HearBatch, Acknowledged, RowsOf
  <2>3. PhoneType'
    BY <1>1, <1>6, <2>1, <2>2 DEF PhoneType
  <2> QED BY <1>1, <1>3, <1>4, <2>1, <2>3
<1>10. ASSUME k.rest # <<>> PROVE [k EXCEPT !.rest = Tail(@)] \in Task /\ [k EXCEPT !.rest = Tail(@)].on = k.on
  BY <1>1, <1>10, Taken
<1>11. CASE HearRotation(t)
  <2> DEFINE l == [k EXCEPT !.rest = Tail(@)]
  <2>1. k.call = "rotate" /\ Return(t, l) /\ UNCHANGED queue
    BY <1>11 DEF HearRotation, Heard
  <2>2. l \in Task /\ l.on = k.on
    BY <1>1, <1>10, <2>1 DEF Wire, InHand, Steady
  <2>3. CASE answer[t].outcome = "ok"
    <3>1. [pairing[d] EXCEPT !.token = answer[t].token] \in Pairing
      BY <1>1, <1>2, <1>5, <2>1, <2>3 DEF Fits, RotationAnswer, Pairing
    <3>2. pairing' = With(d, [pairing[d] EXCEPT !.token = answer[t].token])
      BY <1>11, <2>3 DEF HearRotation
    <3> HIDE DEF l
    <3> QED BY <1>1, <1>3, <1>5, <1>7, <2>1, <2>2, <3>1, <3>2, Edited
  <2>4. CASE answer[t].outcome # "ok"
    <3>1. pairing' = LatchedBy(t)
      BY <1>11, <2>4 DEF HearRotation
    <3> HIDE DEF l
    <3> QED BY <1>3, <1>5, <1>6, <1>7, <2>1, <2>2, <3>1
  <2> QED BY <2>3, <2>4
<1>12. CASE HearFarewell(t)
  <2>1. k.call = "revoke" /\ pairing' = LatchedBy(t) /\ Return(t, k) /\ UNCHANGED queue
    BY <1>12 DEF HearFarewell, Heard
  <2> QED BY <1>1, <1>3, <1>4, <1>6, <1>7, <2>1
<1>13. CASE HearPairing(t)
  <2> DEFINE l == IF k.kind = "scan" THEN k ELSE [k EXCEPT !.rest = Tail(@)]
             p == [token |-> answer[t].token, revoked |-> FALSE,
                   awaiting |-> answer[t].awaiting, sending |-> TRUE]
  <2>1. k.call = "pair" /\ Return(t, l) /\ UNCHANGED queue
    BY <1>13 DEF HearPairing, Heard
  <2>2. l \in Task /\ (l.rest # <<>> => l.on \in Snapshot)
    BY <1>1, <1>4, <1>10, <2>1 DEF Wire, InHand, Steady
  <2>3. pairing' = pairing \/ (answer[t].outcome = "ok" /\ pairing' = [pairing EXCEPT ![answer[t].device] = p])
    BY <1>13 DEF HearPairing
  <2>4. answer[t].outcome = "ok" => p \in Pairing
    BY <1>2, <2>1 DEF Fits, PairingAnswer, Pairing
  <2>5. pairing' \in [Devices -> Pairing]
    <3> HIDE DEF p
    <3> QED BY <1>1, <2>3, <2>4
  <2> HIDE DEF l
  <2> QED BY <1>3, <1>7, <2>1, <2>2, <2>5
<1> QED BY <1>8, <1>9, <1>11, <1>12, <1>13

\* Requests that lose whoever waited for them.
LEMMA OrphanedKeeps ==
  ASSUME Inv, NEW ts \in SUBSET Tasks, requests' = Orphaned(ts), UNCHANGED <<rows, stored, pairing>>,
         PhoneType', losses' \in 0 .. MaxLosses,
         \A t \in Tasks \ ts : task'[t] = task[t] /\ answer'[t] = answer[t],
         task' \in [Tasks -> Task], answer' \in [Tasks -> Answer], Answered', InHand'
  PROVE  Inv'
<1>1. Wire /\ ServerType /\ requests \subseteq Request
  BY Parts DEF Wire, WireType
<1>2. requests' \subseteq Request
  BY <1>1, Orphan DEF Orphaned
<1>3. \A q \in requests' : q.to \in Tasks => q \in requests /\ q.to \notin ts
  BY <1>1, Orphan, NotifierAssumption DEF Orphaned, NotifierAssumption
<1>4. OneCall'
  BY <1>1, <1>3 DEF Wire, OneCall
<1> QED BY <1>1, <1>2, <1>4, ServerKept, Whole DEF Wire, WireType

LEMMA LossKeeps ==
  ASSUME Inv, \/ \E r \in requests : LoseRequest(r)
              \/ \E t \in Tasks : Timeout(t)
              \/ PhoneDies
  PROVE  Inv'
<1>1. Wire /\ WireType /\ Answered /\ InHand /\ ServerType /\ PhoneType /\ losses \in 0 .. MaxLosses
  BY Parts DEF Wire
<1>2. Lose => losses' \in 0 .. MaxLosses
  BY <1>1, NotifierAssumption DEF Lose, NotifierAssumption
<1>3. ASSUME NEW r \in requests, LoseRequest(r) PROVE Inv'
  <2>1. [outcome |-> "failed"] \in Refusal
    BY DEF Refusal
  <2>2. Wire'
    BY <1>1, <1>3, <2>1, Refused401, Replied DEF LoseRequest
  <2> QED BY <1>1, <1>2, <1>3, <2>2, ServerKept, PhoneKept, Whole DEF LoseRequest
<1>4. ASSUME NEW t \in Tasks, Timeout(t) PROVE Inv'
  <2> DEFINE a == [outcome |-> "failed"]
  <2>1. a \in Answer /\ \A kind : Fits(a, kind)
    BY Refused401 DEF Refusal, Fits
  <2>2. /\ task[t].call # "none" /\ UNCHANGED <<rows, stored, pairing, queue, task>>
        /\ requests' = Orphaned({t}) /\ answer' = [answer EXCEPT ![t] = a] /\ Lose
    BY <1>4 DEF Timeout
  <2> HIDE DEF a
  <2>3. answer' \in [Tasks -> Answer] /\ Answered'
    BY <1>1, <2>1, <2>2 DEF WireType, Answered
  <2>4. \A u \in Tasks \ {t} : task'[u] = task[u] /\ answer'[u] = answer[u]
    BY <1>1, <2>2 DEF WireType
  <2>5. task' \in [Tasks -> Task] /\ InHand'
    BY <1>1, <2>2 DEF WireType, InHand
  <2> QED BY <1>1, <1>2, <2>2, <2>3, <2>4, <2>5, PhoneKept, OrphanedKeeps
<1>5. CASE PhoneDies
  <2>1. /\ task' = [t \in Tasks |-> Idle] /\ requests' = Orphaned(Tasks)
        /\ answer' = [t \in Tasks |-> NoAnswer] /\ UNCHANGED <<rows, stored, pairing>> /\ Lose
    BY <1>5 DEF PhoneDies
  <2>2. answer' \in [Tasks -> Answer] /\ Answered'
    BY <2>1, NoAnswerShape DEF Answered
  <2>3. Steady(Idle)
    BY IdleType DEF Steady
  <2>4. task' \in [Tasks -> Task] /\ InHand'
    BY <2>1, <2>3, IdleType DEF InHand
  <2>5. PhoneType'
    BY <1>1, <1>5 DEF PhoneDies, PhoneType
  <2> QED BY <1>2, <2>1, <2>2, <2>4, <2>5, OrphanedKeeps
<1> QED BY <1>3, <1>4, <1>5

LEMMA PhoneKeeps ==
  ASSUME Inv, Phone
  PROVE  Inv'
<1>1. Wire /\ ServerType /\ PhoneType /\ losses \in 0 .. MaxLosses
  BY Parts
<1>2. ASSUME NEW m \in Messages, Hear(m) PROVE Inv'
  <2>1. PhoneType'
    BY <1>1, <1>2 DEF Hear, PhoneType, Flushing
  <2> QED BY <1>1, <1>2, <2>1, Unmoved, ServerKept, Whole DEF Hear
<1>3. ASSUME NEW c \in held, Enqueue(c) PROVE Inv'
  <2>1. PhoneType'
    BY <1>1, <1>3 DEF Enqueue, PhoneType
  <2> QED BY <1>1, <1>3, <2>1, Unmoved, ServerKept, Whole DEF Enqueue
<1>4. ASSUME NEW t \in Tasks, Step(t) PROVE Inv'
  BY <1>4, StepKeeps, AnswerKeeps DEF Step
<1>5. ASSUME NEW t \in Tasks, NEW ds \in {{d} : d \in Devices} \cup {{d \in Devices : Paired(d)}},
             Leave(t, ds)
      PROVE  Inv'
  BY <1>5, StartKeeps
<1> QED BY <1>2, <1>3, <1>4, <1>5, StartKeeps DEF Phone

LEMMA InitType == Init => Inv
<1> SUFFICES ASSUME Init PROVE Inv
  OBVIOUS
<1>1. <<>> \in Seq(Command)
  OBVIOUS
<1>2. TypeOK
  BY <1>1, NoAnswerShape, IdleType, NotifierAssumption
  DEF Init, TypeOK, NotifierAssumption, RowStatus, NoPairing, Pairing
<1>3. Answered /\ OneCall /\ Redeemed
  BY DEF Init, Answered, OneCall, Redeemed
<1>4. InHand
  BY IdleType DEF Init, InHand, Steady
<1> QED BY <1>2, <1>3, <1>4 DEF Inv

LEMMA NextType == Inv /\ [Next]_vars => Inv'
<1> SUFFICES ASSUME Inv, [Next]_vars PROVE Inv'
  OBVIOUS
<1>1. CASE UNCHANGED vars
  BY <1>1, Parts, Unmoved, ServerKept, PhoneKept, Whole DEF vars
<1> QED BY <1>1, OperatorKeeps, PhoneKeeps, ServeKeeps, LossKeeps DEF Next

\* Rows, pairings, requests and answers keep their types, and a task hears only
\* the answer to the one call it waits for.
THEOREM TypeCorrect == Spec => [](TypeOK /\ Answered /\ OneCall)
<1> QED BY InitType, NextType, PTL DEF Spec, Inv

-----------------------------------------------------------------------------
(* What the phone strikes off is in the feed *)

\* On its way back from the server: in the requests that have taken it, in the
\* answers that name it, and in the queue as sent.
Secured(m) == m \in Filtered \/ Recorded(m)
Taking     == \A r \in requests : r.kind = "capture" => \A m \in r.done : Secured(m)
Naming     == \A t \in Tasks :
                  task[t].call = "capture" /\ answer[t].outcome = "ok"
                      => \A m \in answer[t].acknowledged : Secured(m)
Confirmed  == Taking /\ Naming /\ AcknowledgedIsStored

LEMMA SecuredStays ==
  ASSUME stored \subseteq stored', NEW m, Secured(m)
  PROVE  Secured(m)'
  BY DEF Secured, Recorded

\* Steps that take, name and strike off nothing.
LEMMA Quiet ==
  ASSUME Confirmed, stored \subseteq stored', sent' \subseteq sent,
         \A r \in requests' : r.kind = "capture" =>
             r.done = {} \/ \E q \in requests : q.kind = "capture" /\ r.done = q.done,
         \A t \in Tasks : task'[t].call = "capture" /\ answer'[t].outcome = "ok" =>
             task[t].call = "capture" /\ answer'[t] = answer[t]
  PROVE  Confirmed'
<1>1. \A m : Secured(m) => Secured(m)'
  BY SecuredStays
<1>2. Taking'
  BY <1>1 DEF Confirmed, Taking
<1>3. Naming'
  BY <1>1 DEF Confirmed, Naming
<1>4. AcknowledgedIsStored'
  BY <1>1 DEF Confirmed, AcknowledgedIsStored, Secured
<1> QED BY <1>2, <1>3, <1>4 DEF Confirmed

LEMMA ReplyQuiet ==
  ASSUME Inv, Confirmed, NEW r \in requests, NEW a, Reply(r, a), r.kind # "capture" \/ a.outcome # "ok",
         UNCHANGED <<stored, sent, task>>
  PROVE  Confirmed'
<1>1. requests' \subseteq requests
  BY DEF Reply
<1>2. ASSUME NEW t \in Tasks, task'[t].call = "capture", answer'[t].outcome = "ok"
      PROVE  answer'[t] = answer[t]
  <2>1. answer \in [Tasks -> Answer] /\ (r.to \in Tasks => task[r.to].call = r.kind)
    BY DEF Inv, TypeOK, OneCall
  <2>2. answer' = answer \/ answer' = [answer EXCEPT ![r.to] = a]
    BY DEF Reply
  <2> QED BY <1>2, <2>1, <2>2
<1> QED BY <1>1, <1>2, Quiet

LEMMA ServeConfirms ==
  ASSUME Inv, Confirmed, NEW r \in requests, Serve(r)
  PROVE  Confirmed'
<1>1. r \in Request /\ UNCHANGED <<queue, task>>
  BY DEF Inv, TypeOK, Serve, Authenticate, AnswerBeat, AnswerBatch, CompleteTokenRotation,
     RevokeSelf, ClaimRead, ClaimWrite, Ingest
<1>2. UNCHANGED <<sent, task>>
  BY <1>1 DEF queue
<1>3. ASSUME Refuse(r), UNCHANGED stored PROVE Confirmed'
  BY <1>2, <1>3, ReplyQuiet DEF Refuse
<1>4. ASSUME NEW s, Advance(r, s), UNCHANGED <<answer, stored>>,
             s.kind = "capture" => r.kind = "capture" /\ s.done = r.done
      PROVE  Confirmed'
  BY <1>2, <1>4, Quiet DEF Advance
<1>5. CASE Authenticate(r)
  <2> DEFINE s == [r EXCEPT !.stage = "admitted"]
  <2>1. s.kind = "capture" => r.kind = "capture" /\ s.done = r.done
    <3>1. CASE r.kind = "capture"
      <4>1. r \in BatchRequest
        BY <1>1, <3>1, RequestShape
      <4> QED BY <3>1, <4>1 DEF BatchRequest
    <3>2. CASE r.kind # "capture"
      BY <1>1, <3>2, Admitted
    <3> QED BY <3>1, <3>2
  <2>2. \/ Advance(r, s) /\ UNCHANGED answer
        \/ Reply(r, [outcome |-> "waiting"])
        \/ Refuse(r)
    BY <1>5 DEF Authenticate
  <2>3. UNCHANGED stored
    BY <1>5 DEF Authenticate
  <2> HIDE DEF s
  <2> QED BY <1>2, <1>3, <1>4, <2>1, <2>2, <2>3, ReplyQuiet
<1>6. CASE AnswerBeat(r)
  BY <1>2, <1>6, ReplyQuiet DEF AnswerBeat
<1>7. CASE CompleteTokenRotation(r)
  BY <1>2, <1>3, <1>7, ReplyQuiet DEF CompleteTokenRotation
<1>8. CASE RevokeSelf(r)
  BY <1>2, <1>8, ReplyQuiet DEF RevokeSelf
<1>9. CASE ClaimRead(r)
  <2> DEFINE s == [r EXCEPT !.stage = "admitted", !.inherits = Inherits(r)]
  <2>1. r \in PairingRequest
    BY <1>1, <1>9, RequestShape DEF ClaimRead
  <2>2. s.kind # "capture"
    BY <2>1 DEF PairingRequest
  <2>3. (Advance(r, s) /\ UNCHANGED answer) \/ Refuse(r)
    BY <1>9 DEF ClaimRead
  <2>4. UNCHANGED stored
    BY <1>9 DEF ClaimRead
  <2> HIDE DEF s
  <2> QED BY <1>3, <1>4, <2>2, <2>3, <2>4
<1>10. CASE ClaimWrite(r)
  BY <1>2, <1>3, <1>10, ReplyQuiet DEF ClaimWrite
<1>11. ASSUME NEW m \in r.load, Ingest(r, m) PROVE Confirmed'
  <2> DEFINE s == [r EXCEPT !.load = @ \ {m}, !.done = @ \cup {m}]
  <2>1. r.kind = "capture" /\ r \in BatchRequest
    BY <1>1, <1>11, RequestShape DEF Ingest
  <2>2. s.done = r.done \cup {m}
    BY <2>1 DEF BatchRequest
  <2>3. stored \subseteq stored' /\ Secured(m)'
    BY <1>11 DEF Ingest, Secured, Recorded
  <2>4. \A n : Secured(n) => Secured(n)'
    BY <2>3, SecuredStays
  <2>5. requests' = (requests \ {r}) \cup {s} /\ UNCHANGED answer
    BY <1>11 DEF Ingest, Advance
  <2> HIDE DEF s
  <2>6. Taking'
    BY <2>1, <2>2, <2>3, <2>4, <2>5 DEF Confirmed, Taking
  <2> QED BY <1>2, <2>4, <2>5, <2>6 DEF Confirmed, Naming, AcknowledgedIsStored, Secured
<1>12. CASE AnswerBatch(r)
  <2>1. r.kind = "capture" /\ requests' \subseteq requests /\ UNCHANGED stored
    BY <1>12 DEF AnswerBatch, Reply
  <2>2. answer' = answer \/ answer' = [answer EXCEPT ![r.to] = [outcome |-> "ok", acknowledged |-> r.done]]
    BY <1>12 DEF AnswerBatch, Reply, Results
  <2>3. answer \in [Tasks -> Answer]
    BY DEF Inv, TypeOK
  <2>4. Taking'
    BY <2>1 DEF Confirmed, Taking, Secured, Recorded
  <2>5. Naming'
    BY <1>2, <2>1, <2>2, <2>3 DEF Confirmed, Taking, Naming, Secured, Recorded
  <2> QED BY <1>2, <2>1, <2>4, <2>5 DEF Confirmed, AcknowledgedIsStored, Recorded
<1> QED BY <1>5, <1>6, <1>7, <1>8, <1>9, <1>10, <1>11, <1>12 DEF Serve

\* The phone starts, sends and carries out.
LEMMA CallQuiet ==
  ASSUME Inv, Confirmed, NEW t \in Tasks, task[t].call = "none",
         \A u \in Tasks \ {t} : task'[u] = task[u],
         \A r \in requests' : r \in requests \/ (r.kind = "capture" => r.done = {}),
         sent' \subseteq sent, UNCHANGED <<stored, answer>>
  PROVE  Confirmed'
<1>1. answer[t].outcome # "ok"
  BY NoAnswerShape DEF Inv, TypeOK, Answered
<1> QED BY <1>1, Quiet

LEMMA StartConfirms ==
  ASSUME Inv, Confirmed, NEW t \in Tasks,
         \/ BeginBeats(t) \/ BeginFlush(t)
         \/ \E on \in BOOLEAN : SwitchSending(t, on)
         \/ \E ds \in SUBSET Devices : Leave(t, ds)
         \/ \E d \in Devices : Scan(t, d)
  PROVE  Confirmed'
<1>1. task[t].call = "none" /\ \A u \in Tasks \ {t} : task'[u] = task[u]
  BY IdleType DEF Inv, TypeOK, BeginBeats, BeginFlush, SwitchSending, Leave, Scan, Start
<1>2. UNCHANGED <<stored, sent, answer>>
  BY DEF BeginBeats, BeginFlush, SwitchSending, Leave, Scan, queue
<1>3. CASE \E d \in Devices : Scan(t, d)
  <2>1. PICK d \in Devices : requests' = requests \cup {PairRequest(t, d)}
    BY <1>3 DEF Scan
  <2>2. PairRequest(t, d).kind # "capture"
    BY DEF PairRequest
  <2> QED BY <1>1, <1>2, <2>1, <2>2, CallQuiet
<1>4. CASE UNCHANGED requests
  BY <1>1, <1>2, <1>4, CallQuiet
<1> QED BY <1>3, <1>4 DEF BeginBeats, BeginFlush, SwitchSending, Leave

LEMMA StepConfirms ==
  ASSUME Inv, Confirmed, NEW t \in Tasks,
         \/ SendBeat(t) \/ SendBatch(t) \/ SendFarewell(t) \/ Forget(t) \/ ClearBacklog(t)
         \/ CarryOut(t)
  PROVE  Confirmed'
<1>1. /\ task[t].call = "none" /\ UNCHANGED <<stored, answer>>
      /\ task \in [Tasks -> Task]
  BY DEF Inv, TypeOK, SendBeat, SendBatch, SendFarewell, Forget, ClearBacklog, CarryOut, Send, Between
<1>2. ASSUME NEW k, task' = [task EXCEPT ![t] = k], sent' \subseteq sent,
             \A r \in requests' : r \in requests \/ (r.kind = "capture" => r.done = {})
      PROVE  Confirmed'
  BY <1>1, <1>2, CallQuiet
<1>3. ASSUME NEW s, NEW call, NEW r, Send(t, s, call, r), r.kind = "capture" => r.done = {}
      PROVE  Confirmed'
  <2>1. /\ task' = [task EXCEPT ![t] = [task[t] EXCEPT !.todo = @ \ {s}, !.on = s, !.call = call]]
        /\ requests' = requests \cup {r} /\ sent' = sent
    BY <1>3 DEF Send, queue
  <2> QED BY <1>2, <1>3, <2>1
<1>4. CASE SendBeat(t)
  BY <1>3, <1>4 DEF SendBeat
<1>5. CASE SendBatch(t)
  <2>1. PICK s : \/ /\ task' = [task EXCEPT ![t] = Rest([task[t] EXCEPT !.todo = @ \ {s}])]
                    /\ UNCHANGED <<queue, requests>>
                 \/ Send(t, s, "capture",
                         [kind |-> "capture", to |-> t, device |-> s.device, token |-> s.token,
                          load |-> Pending(s.device), done |-> {}, stage |-> "sent"])
    BY <1>5 DEF SendBatch
  <2> QED BY <1>2, <1>3, <2>1 DEF queue
<1>6. CASE SendFarewell(t)
  BY <1>3, <1>6 DEF SendFarewell
<1>7. CASE Forget(t)
  BY <1>2, <1>7 DEF Forget, Clear
<1>8. CASE ClearBacklog(t)
  <2>1. /\ task' = [task EXCEPT ![t] = Rest([Idle EXCEPT !.kind = "beat",
                         !.todo = Snapshots({d \in Devices : Live(d)})])]
        /\ requests' = requests /\ sent' \subseteq sent
    BY <1>8 DEF ClearBacklog, Clear
  <2> QED BY <1>2, <2>1
<1>9. CASE CarryOut(t)
  <2>1. sent' \subseteq sent
    BY <1>9 DEF CarryOut, SetSending, Clear, queue
  <2>2. \A u \in Tasks \ {t} : task'[u] = task[u]
    BY <1>1, <1>9 DEF CarryOut, SetSending
  <2>3. \A r \in requests' : r \in requests \/ r.kind # "capture"
    BY <1>9 DEF CarryOut, SetSending, PairRequest
  <2> QED BY <1>1, <2>1, <2>2, <2>3, CallQuiet
<1> QED BY <1>4, <1>5, <1>6, <1>7, <1>8, <1>9

LEMMA AnswerConfirms ==
  ASSUME Inv, Confirmed, NEW t \in Tasks,
         HearBeat(t) \/ HearBatch(t) \/ HearRotation(t) \/ HearFarewell(t) \/ HearPairing(t)
  PROVE  Confirmed'
<1>1. UNCHANGED <<requests, stored>> /\ answer' = [answer EXCEPT ![t] = NoAnswer]
  BY DEF HearBeat, HearBatch, HearRotation, HearFarewell, HearPairing, Return
<1>2. PICK k : task' = [task EXCEPT ![t] = k]
  BY DEF HearBeat, HearBatch, HearRotation, HearFarewell, HearPairing, Return
<1>3. task \in [Tasks -> Task] /\ answer \in [Tasks -> Answer]
  BY DEF Inv, TypeOK
<1>4. Taking' /\ Naming'
  BY <1>1, <1>2, <1>3, NoAnswerShape DEF Confirmed, Taking, Naming, Secured, Recorded
<1>5. CASE HearBatch(t)
  <2>1. \A c \in Acknowledged(t) : Secured(c[1])
    BY <1>5 DEF HearBatch, Heard, Acknowledged, Confirmed, Naming
  <2>2. sent' = sent \cup Acknowledged(t)
    BY <1>5 DEF HearBatch
  <2>3. AcknowledgedIsStored'
    BY <1>1, <2>1, <2>2 DEF Confirmed, AcknowledgedIsStored, Secured, Recorded
  <2> QED BY <1>4, <2>3 DEF Confirmed
<1>6. CASE HearBeat(t) \/ HearRotation(t) \/ HearFarewell(t) \/ HearPairing(t)
  <2>1. UNCHANGED <<sent, stored>>
    BY <1>1, <1>6 DEF HearBeat, HearRotation, HearFarewell, HearPairing, queue
  <2> QED BY <1>4, <2>1 DEF Confirmed, AcknowledgedIsStored, Recorded
<1> QED BY <1>5, <1>6

LEMMA OrphanedQuiet ==
  ASSUME Inv, NEW ts, requests' = Orphaned(ts), NEW r \in requests', r.kind = "capture"
  PROVE  \E q \in requests : q.kind = "capture" /\ r.done = q.done
<1>1. PICK q \in requests : r = q \/ r = [q EXCEPT !.to = NoTask]
  BY DEF Orphaned
<1>2. q \in Request
  BY DEF Inv, TypeOK
<1>3. q.kind = "capture"
  BY <1>1, <1>2 DEF Request, CallRequest, BeatRequest, BatchRequest, PairingRequest
<1>4. q \in BatchRequest
  BY <1>2, <1>3, RequestShape
<1> QED BY <1>1, <1>3, <1>4 DEF BatchRequest

LEMMA LossConfirms ==
  ASSUME Inv, Confirmed, \/ \E r \in requests : LoseRequest(r)
                         \/ \E t \in Tasks : Timeout(t)
                         \/ PhoneDies
  PROVE  Confirmed'
<1>1. UNCHANGED <<stored, sent>>
  BY DEF LoseRequest, Timeout, PhoneDies, queue
<1>2. answer \in [Tasks -> Answer]
  BY DEF Inv, TypeOK
<1>3. ASSUME NEW r \in requests, LoseRequest(r) PROVE Confirmed'
  BY <1>1, <1>3, ReplyQuiet DEF LoseRequest
<1>4. ASSUME NEW t \in Tasks, Timeout(t) PROVE Confirmed'
  <2>1. /\ requests' = Orphaned({t}) /\ UNCHANGED task
        /\ answer' = [answer EXCEPT ![t] = [outcome |-> "failed"]]
    BY <1>4 DEF Timeout
  <2> QED BY <1>1, <1>2, <2>1, OrphanedQuiet, Quiet
<1>5. CASE PhoneDies
  <2>1. requests' = Orphaned(Tasks) /\ answer' = [t \in Tasks |-> NoAnswer]
    BY <1>5 DEF PhoneDies
  <2> QED BY <1>1, <2>1, NoAnswerShape, OrphanedQuiet, Quiet
<1> QED BY <1>3, <1>4, <1>5

LEMMA NextConfirms == Inv /\ Confirmed /\ [Next]_vars => Confirmed'
<1> SUFFICES ASSUME Inv, Confirmed, [Next]_vars PROVE Confirmed'
  OBVIOUS
<1>1. CASE UNCHANGED <<stored, sent, task, answer>> /\ requests' = requests
  BY <1>1, Quiet
<1>2. CASE UNCHANGED vars
  BY <1>1, <1>2 DEF vars, wire, queue
<1>3. ASSUME Operator PROVE Confirmed'
  <2>1. ASSUME NEW d \in Devices, StrangerScans(d) PROVE Confirmed'
    <3>1. \A r \in requests' : r \in requests \/ r.kind = "pair"
      BY <2>1 DEF StrangerScans
    <3>2. UNCHANGED <<stored, sent, task, answer>>
      BY <2>1 DEF StrangerScans, queue
    <3> QED BY <3>1, <3>2, Quiet
  <2>2. CASE ~(\E d \in Devices : StrangerScans(d))
    <3>1. UNCHANGED <<stored, queue, wire>>
      BY <1>3, <2>2 DEF Operator, ShowCode, CodeExpires, ApproveDevice, RevokeDevice, Revoke,
          RequestTokenRotation, RequestSending, QueueCommand, AddAccountRead, AddAccountWrite
    <3> QED BY <1>1, <3>1 DEF queue, wire
  <2> QED BY <2>1, <2>2
<1>4. ASSUME Phone PROVE Confirmed'
  <2>1. ASSUME NEW m \in Messages, Hear(m) PROVE Confirmed'
    BY <1>1, <2>1 DEF Hear, wire
  <2>2. ASSUME NEW c \in held, Enqueue(c) PROVE Confirmed'
    BY <1>1, <2>2 DEF Enqueue, wire
  <2>3. ASSUME NEW t \in Tasks, Step(t) PROVE Confirmed'
    BY <2>3, StepConfirms, AnswerConfirms DEF Step
  <2>4. ASSUME NEW t \in Tasks, NEW ds \in {{d} : d \in Devices} \cup {{d \in Devices : Paired(d)}},
               Leave(t, ds)
        PROVE  Confirmed'
    BY <2>4, StartConfirms
  <2> QED BY <1>4, <2>1, <2>2, <2>3, <2>4, StartConfirms DEF Phone
<1> QED BY <1>2, <1>3, <1>4, ServeConfirms, LossConfirms DEF Next

\* However answers are lost, requests repeated and batches overtaken, what the
\* phone strikes off its queue is in the merchant's feed or excluded from it.
THEOREM AcknowledgedIsStoredHolds == Spec => []AcknowledgedIsStored
<1>1. Init => Confirmed
  BY NoAnswerShape DEF Init, Confirmed, Taking, Naming, AcknowledgedIsStored
<1> QED BY <1>1, InitType, NextType, NextConfirms, PTL DEF Spec, Confirmed

-----------------------------------------------------------------------------
(* The pairing protocol implements Credential *)

\* What a row, and a request that was let in, owe to an approval.
Clean      == \A d \in Devices : rowStatus[d] = "absent" => install[d] = "nobody"
Backed     == \A d \in Devices : rowStatus[d] = "active" => install[d] \in approved
Existing   == \A r \in requests :
                  r.kind # "pair" /\ r.stage = "admitted" => rowStatus[r.device] # "absent"
Inheriting == \A r \in requests :
                  r.kind = "pair" /\ r.inherits =>
                      /\ r.install \in approved /\ rowStatus[r.device] # "absent"
                      /\ Burnable(r.device) => install[r.device] = r.install
Founded    == Clean /\ Backed /\ Existing /\ Inheriting

ledger     == <<rowStatus, install, approved>>
credential == <<[d \in Devices |-> Trust(d)], [d \in Devices |-> Holder(d)], approved>>

\* The part of a request the invariant reads.
Alike(r, q) ==
  /\ r.kind = q.kind /\ r.device = q.device
  /\ r.kind = "pair" => r.inherits = q.inherits /\ r.install = q.install
  /\ r.kind # "pair" => r.stage = q.stage

\* A request just sent.
Fresh(r) == IF r.kind = "pair" THEN ~r.inherits ELSE r.stage = "sent"

LEMMA LedgerKept ==
  ASSUME Founded, UNCHANGED ledger,
         \A r \in requests' : Fresh(r) \/ \E q \in requests : Alike(r, q)
  PROVE  Founded'
<1>1. Clean' /\ Backed'
  BY DEF Founded, Clean, Backed, ledger
<1>2. Existing'
  BY DEF Founded, Existing, ledger, Fresh, Alike
<1>3. Inheriting'
  BY DEF Founded, Inheriting, ledger, Fresh, Alike, Burnable
<1> QED BY <1>1, <1>2, <1>3 DEF Founded

\* A step of the ledger leaves the requests that are there with their backing.
LEMMA LedgerStep ==
  ASSUME Founded, requests' \subseteq requests, approved \subseteq approved',
         \A d \in Devices : rowStatus[d] # "absent" =>
             /\ rowStatus'[d] # "absent"
             /\ Burnable(d)' => Burnable(d) /\ install'[d] = install[d],
         \A r \in requests : r.device \in Devices,
         Clean', Backed'
  PROVE  Founded'
<1>1. Existing'
  BY DEF Founded, Existing
<1>2. Inheriting'
  BY DEF Founded, Inheriting
<1> QED BY <1>1, <1>2 DEF Founded

\* A step of the ledger is a step of Credential.
LEMMA OperatorFounds ==
  ASSUME Inv, Founded, Operator
  PROVE  Founded' /\ [Contract!Next]_credential
<1>1. /\ rowStatus \in [Devices -> RowStatus] /\ install \in [Devices -> Handsets \cup {"nobody"}]
      /\ \A r \in requests : r.device \in Devices
  BY RequestShape DEF Inv, TypeOK
<1>2. ASSUME NEW d \in Devices, ShowCode(d) PROVE Founded' /\ Contract!Next
  <2>1. /\ rowStatus[d] = "absent" /\ rowStatus' = [rowStatus EXCEPT ![d] = "pending"]
        /\ UNCHANGED <<install, approved, requests>>
    BY <1>2 DEF ShowCode, wire
  <2>2. Clean' /\ Backed'
    BY <1>1, <2>1 DEF Founded, Clean, Backed
  <2>3. Founded'
    BY <1>1, <2>1, <2>2, LedgerStep DEF Burnable
  <2>4. /\ Trust(d) = "none" /\ Trust(d)' = "offered" /\ Holder(d)' = "nobody"
        /\ \A e \in Devices \ {d} : Trust(e)' = Trust(e) /\ Holder(e)' = Holder(e)
    BY <1>1, <2>1 DEF Trust, Holder, Founded, Clean
  <2>5. Contract!Offer(d, "nobody")
    BY <2>1, <2>4 DEF Contract!Offer
  <2> QED BY <2>3, <2>5 DEF Contract!Next
<1>3. ASSUME NEW d \in Devices, CodeExpires(d) PROVE Founded' /\ UNCHANGED credential
  <2>1. /\ rowStatus[d] = "pending" /\ rowStatus' = [rowStatus EXCEPT ![d] = "lapsed"]
        /\ UNCHANGED <<install, approved, requests>>
    BY <1>3 DEF CodeExpires, wire
  <2>2. Clean' /\ Backed'
    BY <1>1, <2>1 DEF Founded, Clean, Backed
  <2>3. Founded'
    BY <1>1, <2>1, <2>2, LedgerStep DEF Burnable
  <2>4. \A e \in Devices : Trust(e)' = Trust(e) /\ Holder(e)' = Holder(e)
    BY <1>1, <2>1 DEF Trust, Holder
  <2> QED BY <2>1, <2>3, <2>4 DEF credential
<1>4. ASSUME NEW d \in Devices, ApproveDevice(d) PROVE Founded' /\ Contract!Next
  <2>1. /\ rowStatus[d] = "awaiting_approval" /\ rowStatus' = [rowStatus EXCEPT ![d] = "active"]
        /\ approved' = approved \cup {install[d]} /\ UNCHANGED <<install, requests>>
    BY <1>4 DEF ApproveDevice, Approvable, wire
  <2>2. Clean' /\ Backed'
    BY <1>1, <2>1 DEF Founded, Clean, Backed
  <2>3. Founded'
    BY <1>1, <2>1, <2>2, LedgerStep DEF Burnable
  <2>4. /\ Trust(d) = "claimed" /\ Trust(d)' = "trusted" /\ Holder(d) = install[d]
        /\ \A e \in Devices \ {d} : Trust(e)' = Trust(e)
        /\ \A e \in Devices : Holder(e)' = Holder(e)
    BY <1>1, <2>1 DEF Trust, Holder
  <2>5. Contract!Vouch(d)
    BY <2>1, <2>4 DEF Contract!Vouch
  <2> QED BY <2>3, <2>5 DEF Contract!Next
<1>5. ASSUME NEW d \in Devices, RevokeDevice(d) PROVE Founded' /\ Contract!Next
  <2>1. /\ rowStatus[d] # "absent" /\ rowStatus' = [rowStatus EXCEPT ![d] = "revoked"]
        /\ UNCHANGED <<install, approved, requests>>
    BY <1>5 DEF RevokeDevice, Revoke, wire
  <2>2. Clean' /\ Backed'
    BY <1>1, <2>1 DEF Founded, Clean, Backed
  <2>3. Founded'
    BY <1>1, <2>1, <2>2, LedgerStep DEF Burnable
  <2>4. Contract!Withdraw(d)
    BY <1>1, <2>1 DEF Contract!Withdraw, Trust, Holder, RowStatus
  <2> QED BY <2>3, <2>4 DEF Contract!Next
<1>6. ASSUME AddAccountWrite, Addable(adding.wallet) PROVE Founded' /\ Contract!Next
  <2>0. adding.wallet \in Wallets /\ adding.install \in Handsets \cup {"nobody"}
    BY <1>6 DEF AddAccountWrite, Inv, TypeOK
  <2>1. PICK d \in Devices, h \in Handsets \cup {"nobody"} :
            d = adding.wallet /\ h = adding.install /\ d \in Wallets
    BY <2>0, NotifierAssumption DEF NotifierAssumption
  <2>2. /\ rowStatus[d] = "absent" /\ rowStatus' = [rowStatus EXCEPT ![d] = "pending"]
        /\ install' = [install EXCEPT ![d] = h] /\ UNCHANGED <<approved, requests>>
    BY <1>6, <2>1 DEF AddAccountWrite, Addable, wire
  <2>3. Clean' /\ Backed'
    BY <1>1, <2>1, <2>2 DEF Founded, Clean, Backed
  <2>4. Founded'
    BY <1>1, <2>1, <2>2, <2>3, LedgerStep DEF Burnable
  <2>5. /\ Trust(d) = "none" /\ Trust(d)' = "offered" /\ Holder(d)' = h
        /\ \A e \in Devices \ {d} : Trust(e)' = Trust(e) /\ Holder(e)' = Holder(e)
    BY <1>1, <2>1, <2>2 DEF Trust, Holder
  <2>6. Contract!Offer(d, h)
    BY <2>1, <2>2, <2>5 DEF Contract!Offer
  <2> QED BY <2>1, <2>4, <2>6 DEF Contract!Next
<1>7. ASSUME UNCHANGED ledger, \A r \in requests' : Fresh(r) \/ r \in requests
      PROVE  Founded' /\ UNCHANGED credential
  BY <1>7, LedgerKept DEF Alike, ledger, credential, Trust, Holder
<1>8. ASSUME NEW d \in Devices, StrangerScans(d) PROVE Founded' /\ UNCHANGED credential
  <2>1. UNCHANGED ledger /\ \A r \in requests' : Fresh(r) \/ r \in requests
    BY <1>8 DEF StrangerScans, Fresh, rows, ledger
  <2> QED BY <1>7, <2>1
<1>9. ASSUME UNCHANGED <<rowStatus, install, approved, requests>> PROVE Founded' /\ UNCHANGED credential
  BY <1>7, <1>9 DEF ledger
<1>10. ASSUME NEW d \in Devices, RequestTokenRotation(d) PROVE Founded' /\ UNCHANGED credential
  BY <1>9, <1>10 DEF RequestTokenRotation, QueueCommand, wire
<1>11. ASSUME NEW d \in Devices, NEW on \in BOOLEAN, RequestSending(d, on)
       PROVE  Founded' /\ UNCHANGED credential
  BY <1>9, <1>11 DEF RequestSending, QueueCommand, wire
<1>12. ASSUME NEW d \in Devices, NEW w \in Wallets, AddAccountRead(d, w)
       PROVE  Founded' /\ UNCHANGED credential
  BY <1>9, <1>12 DEF AddAccountRead, wire
<1>13. ASSUME AddAccountWrite, ~Addable(adding.wallet) PROVE Founded' /\ UNCHANGED credential
  BY <1>9, <1>13 DEF AddAccountWrite, wire
<1> QED
  BY <1>2, <1>3, <1>4, <1>5, <1>6, <1>8, <1>10, <1>11, <1>12, <1>13 DEF Operator

LEMMA ServeFounds ==
  ASSUME Inv, Founded, NEW r \in requests, Serve(r)
  PROVE  Founded' /\ [Contract!Next]_credential
<1>1. /\ rowStatus \in [Devices -> RowStatus] /\ install \in [Devices -> Handsets \cup {"nobody"}]
      /\ \A q \in requests : q.device \in Devices
      /\ r \in Request
  BY RequestShape DEF Inv, TypeOK
<1>2. ASSUME UNCHANGED ledger, \A q \in requests' : q \in requests \/ Fresh(q) \/ Alike(q, r)
      PROVE  Founded' /\ UNCHANGED credential
  BY <1>2, LedgerKept DEF Alike, ledger, credential, Trust, Holder
<1>3. ASSUME NEW a, Reply(r, a), UNCHANGED ledger PROVE Founded' /\ UNCHANGED credential
  BY <1>2, <1>3 DEF Reply
<1>4. CASE Authenticate(r)
  <2> DEFINE s == [r EXCEPT !.stage = "admitted"]
  <2>1. /\ s.kind = r.kind /\ s.device = r.device /\ r.kind # "pair" /\ UNCHANGED ledger
    BY <1>1, <1>4, Admitted DEF Authenticate, rows, ledger
  <2>2. \/ requests' = (requests \ {r}) \cup {s} /\ rowStatus[r.device] = "active"
        \/ \E a : Reply(r, a)
    BY <1>4 DEF Authenticate, Advance, Refuse
  <2> HIDE DEF s
  <2>3. CASE requests' = (requests \ {r}) \cup {s} /\ rowStatus[r.device] = "active"
    <3>1. Clean' /\ Backed'
      BY <2>1 DEF ledger, Founded, Clean, Backed
    <3>2. Existing'
      BY <2>1, <2>3 DEF ledger, Founded, Existing
    <3>3. Inheriting'
      BY <2>1, <2>3 DEF ledger, Founded, Inheriting, Burnable
    <3> QED BY <2>1, <3>1, <3>2, <3>3 DEF Founded, ledger, credential, Trust, Holder
  <2> QED BY <1>3, <2>1, <2>2, <2>3
<1>5. CASE AnswerBeat(r)
  BY <1>3, <1>5 DEF AnswerBeat, ledger
<1>6. CASE AnswerBatch(r)
  BY <1>3, <1>6 DEF AnswerBatch, rows, ledger
<1>7. CASE CompleteTokenRotation(r)
  BY <1>3, <1>7 DEF CompleteTokenRotation, Refuse, ledger
<1>8. ASSUME NEW m \in r.load, Ingest(r, m) PROVE Founded' /\ UNCHANGED credential
  <2> DEFINE s == [r EXCEPT !.load = @ \ {m}, !.done = @ \cup {m}]
  <2>1. r \in BatchRequest
    BY <1>1, <1>8, RequestShape DEF Ingest
  <2>2. Alike(s, r)
    BY <2>1 DEF BatchRequest, Alike
  <2>3. requests' = (requests \ {r}) \cup {s} /\ UNCHANGED ledger
    BY <1>8 DEF Ingest, Advance, rows, ledger
  <2> HIDE DEF s
  <2> QED BY <1>2, <2>2, <2>3
<1>9. ASSUME RevokeSelf(r) PROVE Founded' /\ Contract!Next
  <2> DEFINE d == r.device
  <2>1. /\ rowStatus[d] # "absent" /\ rowStatus' = [rowStatus EXCEPT ![d] = "revoked"]
        /\ UNCHANGED <<install, approved>> /\ requests' \subseteq requests
    BY <1>9 DEF RevokeSelf, Revoke, Reply, Founded, Existing
  <2>2. Clean' /\ Backed'
    BY <1>1, <2>1 DEF Founded, Clean, Backed
  <2>3. Founded'
    BY <1>1, <2>1, <2>2, LedgerStep DEF Burnable
  <2>4. Contract!Withdraw(d)
    BY <1>1, <2>1 DEF Contract!Withdraw, Trust, Holder, RowStatus
  <2> QED BY <1>1, <2>3, <2>4 DEF Contract!Next
<1>10. CASE ClaimRead(r)
  <2> DEFINE s == [r EXCEPT !.stage = "admitted", !.inherits = Inherits(r)]
  <2>1. r \in PairingRequest /\ UNCHANGED ledger
    BY <1>1, <1>10, RequestShape DEF ClaimRead, rows, ledger
  <2>2. s.kind = "pair" /\ s.device = r.device /\ s.install = r.install /\ s.inherits = Inherits(r)
    BY <2>1 DEF PairingRequest
  <2>3. \/ requests' = (requests \ {r}) \cup {s} /\ rowStatus[r.device] = "pending"
        \/ \E a : Reply(r, a)
    BY <1>10 DEF ClaimRead, Advance, Refuse
  <2> HIDE DEF s
  <2>4. CASE requests' = (requests \ {r}) \cup {s} /\ rowStatus[r.device] = "pending"
    <3>1. Clean' /\ Backed'
      BY <2>1 DEF ledger, Founded, Clean, Backed
    <3>2. Existing'
      BY <2>1, <2>2, <2>4 DEF ledger, Founded, Existing
    <3>3. Inheriting'
      BY <2>1, <2>2, <2>4 DEF ledger, Founded, Inheriting, Inherits, Backed, Burnable
    <3> QED BY <2>1, <3>1, <3>2, <3>3 DEF Founded, ledger, credential, Trust, Holder
  <2> QED BY <1>3, <2>1, <2>3, <2>4
<1>11. CASE ClaimWrite(r) /\ ~Burnable(r.device)
  BY <1>3, <1>11 DEF ClaimWrite, Refuse, ledger
<1>12. ASSUME ClaimWrite(r), Burnable(r.device) PROVE Founded' /\ Contract!Next
  <2> DEFINE d == r.device
             h == r.install
             earlier == {e \in Devices : Retired(r, e)}
  <2>1. h \in Handsets /\ d \in Devices /\ r.kind = "pair" /\ earlier \in SUBSET (Devices \ {d})
    BY <1>1, <1>12, RequestShape DEF ClaimWrite, PairingRequest, Retired
  <2>2. /\ rowStatus' = [e \in Devices |->
               IF e = d THEN (IF r.inherits THEN "active" ELSE "awaiting_approval")
               ELSE IF e \in earlier THEN "revoked" ELSE rowStatus[e]]
        /\ install' = [install EXCEPT ![d] = h]
        /\ UNCHANGED approved /\ requests' \subseteq requests
        /\ rowStatus[d] \in {"pending", "lapsed"}
    BY <1>12 DEF ClaimWrite, Burnable, Reply
  <2>3. \A e \in earlier : rowStatus[e] = "awaiting_approval" /\ install[e] = h
    BY DEF Retired
  <2>4. r.inherits => h \in approved /\ install[d] = h
    BY <1>12, <2>1 DEF Founded, Inheriting
  <2> HIDE DEF earlier
  <2>5. Clean' /\ Backed'
    BY <1>1, <2>1, <2>2, <2>4 DEF Founded, Clean, Backed
  <2>6. \A e \in Devices : rowStatus[e] # "absent" =>
            /\ rowStatus'[e] # "absent"
            /\ Burnable(e)' => Burnable(e) /\ install'[e] = install[e]
    BY <1>1, <2>1, <2>2, <2>3 DEF Burnable
  <2>7. Founded'
    BY <1>1, <2>2, <2>5, <2>6, LedgerStep
  <2>8. /\ Trust(d) = "offered" /\ Trust(d)' \in {"claimed", "trusted"}
        /\ Trust(d)' = "trusted" => h \in approved /\ Holder(d) = h
        /\ Holder(d)' = h
    BY <1>1, <2>1, <2>2, <2>4 DEF Trust, Holder
  <2>9. \A e \in Devices \ {d} :
            /\ e \in earlier => Trust(e) = "claimed" /\ Holder(e) = h
                                /\ Trust(e)' = "dead" /\ Holder(e)' = "nobody"
            /\ e \notin earlier => Trust(e)' = Trust(e) /\ Holder(e)' = Holder(e)
    BY <1>1, <2>1, <2>2, <2>3 DEF Trust, Holder
  <2>10. Contract!Redeem(d, h, earlier)
    BY <2>1, <2>2, <2>8, <2>9 DEF Contract!Redeem
  <2> QED BY <2>1, <2>7, <2>10 DEF Contract!Next
<1> QED
  BY <1>4, <1>5, <1>6, <1>7, <1>8, <1>9, <1>10, <1>11, <1>12 DEF Serve

\* The phone and the network send and lose requests; they do not touch the rows.
LEMMA OthersFound ==
  ASSUME Inv, Founded,
         Phone \/ PhoneDies \/ (\E t \in Tasks : Timeout(t)) \/ (\E r \in requests : LoseRequest(r))
  PROVE  Founded' /\ UNCHANGED credential
<1>1. ASSUME UNCHANGED rows, \A r \in requests' : Fresh(r) \/ \E q \in requests : Alike(r, q)
      PROVE  Founded' /\ UNCHANGED credential
  BY <1>1, LedgerKept DEF rows, ledger, credential, Trust, Holder
<1>2. UNCHANGED rows
  BY DEF Phone, Hear, Enqueue, BeginBeats, BeginFlush, SwitchSending, Leave, Scan, Step, SendBeat,
     SendBatch, SendFarewell, Send, Forget, ClearBacklog, CarryOut, HearBeat, HearBatch, HearRotation,
     HearFarewell, HearPairing, Return, PhoneDies, Timeout, LoseRequest
<1>3. ASSUME NEW ts, requests' = Orphaned(ts), NEW r \in requests'
      PROVE  \E q \in requests : Alike(r, q)
  <2>1. PICK q \in requests : r = q \/ r = [q EXCEPT !.to = NoTask]
    BY <1>3 DEF Orphaned
  <2>2. q \in Request
    BY DEF Inv, TypeOK
  <2> QED BY <2>1, <2>2 DEF Alike, Request, CallRequest, BeatRequest, BatchRequest, PairingRequest
<1>4. CASE PhoneDies \/ (\E t \in Tasks : Timeout(t)) \/ (\E r \in requests : LoseRequest(r))
  BY <1>1, <1>2, <1>3, <1>4 DEF PhoneDies, Timeout, LoseRequest, Reply, Alike
<1>5. CASE Phone
  <2> DEFINE Sends == \A r \in requests' : r \in requests \/ Fresh(r)
  <2>1. ASSUME NEW t \in Tasks,
               SendBeat(t) \/ SendBatch(t) \/ SendFarewell(t) \/ Forget(t) \/ ClearBacklog(t)
        PROVE  Sends
    <3>1. ASSUME NEW s, NEW call, NEW r, Send(t, s, call, r), Fresh(r) PROVE Sends
      BY <3>1 DEF Send
    <3>2. CASE SendBeat(t)
      BY <3>1, <3>2 DEF SendBeat, Fresh
    <3>3. CASE SendBatch(t)
      BY <3>1, <3>3 DEF SendBatch, Fresh
    <3>4. CASE SendFarewell(t)
      BY <3>1, <3>4 DEF SendFarewell, Fresh
    <3> QED BY <2>1, <3>2, <3>3, <3>4 DEF Forget, ClearBacklog
  <2>2. ASSUME NEW t \in Tasks, CarryOut(t) PROVE Sends
    BY <2>2 DEF CarryOut, SetSending, PairRequest, Fresh
  <2>3. ASSUME NEW t \in Tasks,
               HearBeat(t) \/ HearBatch(t) \/ HearRotation(t) \/ HearFarewell(t) \/ HearPairing(t)
        PROVE  Sends
    BY <2>3 DEF HearBeat, HearBatch, HearRotation, HearFarewell, HearPairing, Return
  <2>4. ASSUME NEW t \in Tasks, NEW d \in Devices, Scan(t, d) PROVE Sends
    BY <2>4 DEF Scan, PairRequest, Fresh
  <2>5. ASSUME UNCHANGED requests PROVE Sends
    BY <2>5
  <2>6. Sends
    BY <1>5, <2>1, <2>2, <2>3, <2>4, <2>5
    DEF Phone, Hear, Enqueue, wire, BeginBeats, BeginFlush, SwitchSending, Leave, Step
  <2> QED BY <1>1, <1>2, <2>6 DEF Alike
<1> QED BY <1>4, <1>5

\* A code is redeemed once, a credential works only after somebody vouched for
\* the handset that holds it, and a withdrawn one never comes back: the pairing
\* of phones, over claims, approvals, revocations and added numbers in any
\* order, implements Credential.
THEOREM CredentialRefinement == Spec => ImplementsCredential
<1>1. Init => Contract!Init /\ Founded
  BY DEF Init, Contract!Init, Trust, Holder, Founded, Clean, Backed, Existing, Inheriting
<1>2. Inv /\ Founded /\ [Next]_vars => Founded' /\ [Contract!Next]_credential
  <2> SUFFICES ASSUME Inv, Founded, [Next]_vars
               PROVE  Founded' /\ [Contract!Next]_credential
    OBVIOUS
  <2>1. CASE UNCHANGED vars
    BY <2>1, LedgerKept DEF vars, rows, wire, ledger, credential, Trust, Holder, Alike
  <2> QED BY <2>1, OperatorFounds, ServeFounds, OthersFound DEF Next
<1> QED
  BY <1>1, <1>2, InitType, NextType, PTL DEF Spec, ImplementsCredential, Contract!Spec, credential

-----------------------------------------------------------------------------
(* Where nothing rotates, what a phone gives up is gone *)

\* A token the phone has, wherever it keeps it.
Key(d, k) ==
  \/ Paired(d) /\ pairing[d].token = k
  \/ \E t \in Tasks :
        \/ \E s \in task[t].todo : s.device = d /\ s.token = k
        \/ task[t].on \in Snapshot /\ task[t].on.device = d /\ task[t].on.token = k
        \/ /\ task[t].call = "pair" /\ answer[t].outcome = "ok"
           /\ answer[t].device = d /\ answer[t].token = k
  \/ \E r \in requests : r.kind # "pair" /\ r.device = d /\ r.token = k

\* A command for a row, wherever it has got to.
Says(q, c) == \E i \in DOMAIN q : q[i] = c
Order(d, c) ==
  \/ Says(commands[d], c)
  \/ adding # NoAddition /\ adding.phone = d /\ Says(adding.before, c)
  \/ \E t \in Tasks :
        /\ task[t].on \in Snapshot /\ task[t].on.device = d
        /\ \/ Says(task[t].rest, c)
           \/ task[t].call = "beat" /\ answer[t].outcome = "ok" /\ Says(answer[t].commands, c)

Gone(d)     == rowStatus[d] = "revoked"
Valid(d, k) == Gone(d) \/ (rowStatus[d] \in {"active", "awaiting_approval"} /\ token[d] = k)
Meant(d, c) == c.type # "rotate_token" /\ (c.type = "stop" => Gone(d))

Sure     == /\ \A d \in Devices, k \in Nat : Key(d, k) => Valid(d, k)
            /\ \A d \in Devices, c \in Command : Order(d, c) => Meant(d, c)
            /\ \A r \in requests : r.kind # "rotate"
            /\ \A t \in Tasks : task[t].call # "rotate"
Verdict  == \A t \in Tasks :
                answer[t].outcome = "unauthorized" /\ task[t].call # "pair"
                    => Gone(task[t].on.device)
Truthful == Sure /\ Verdict /\ LatchedIsGone

\* A row that answers goes on answering to the same token, or is withdrawn.
Firm == \A d \in Devices : /\ Gone(d) => Gone(d)'
                          /\ \A k \in Nat : Valid(d, k) => Valid(d, k)'

LEMMA SureKept ==
  ASSUME Sure, Firm,
         \A d \in Devices, k \in Nat : Key(d, k)' => Key(d, k) \/ Valid(d, k)',
         \A d \in Devices, c \in Command : Order(d, c)' => Order(d, c) \/ Meant(d, c)',
         \A r \in requests' : r.kind # "rotate",
         \A t \in Tasks : task'[t].call # "rotate"
  PROVE  Sure'
<1>1. \A d \in Devices, k \in Nat : Key(d, k)' => Valid(d, k)'
  BY DEF Sure, Firm
<1>2. \A d \in Devices, c \in Command : Order(d, c)' => Meant(d, c)'
  BY DEF Sure, Firm, Meant
<1> QED BY <1>1, <1>2 DEF Sure

\* Whoever drives the rows.
LEMMA FirmRows ==
  ASSUME Inv, UNCHANGED <<rowStatus, token>>
  PROVE  Firm
  BY DEF Firm, Gone, Valid

LEMMA FirmNext ==
  ASSUME Inv, Sure, [Next]_vars
  PROVE  Firm
<1>1. /\ rowStatus \in [Devices -> RowStatus] /\ token \in [Devices -> Nat]
      /\ \A r \in requests : r \in Request /\ r.device \in Devices
  BY RequestShape DEF Inv, TypeOK
<1>2. ASSUME NEW d \in Devices, ShowCode(d) \/ CodeExpires(d) \/ ApproveDevice(d) \/ RevokeDevice(d)
      PROVE  Firm
  BY <1>1, <1>2 DEF ShowCode, CodeExpires, ApproveDevice, Approvable, RevokeDevice, Revoke, Firm, Gone, Valid
<1>3. CASE AddAccountWrite
  <2>1. adding.wallet \in Wallets
    BY <1>3 DEF AddAccountWrite, Inv, TypeOK
  <2>2. adding.wallet \in Devices
    BY <2>1, NotifierAssumption DEF NotifierAssumption
  <2>3. CASE Addable(adding.wallet)
    <3>1. /\ rowStatus[adding.wallet] = "absent" /\ token' = token
          /\ rowStatus' = [rowStatus EXCEPT ![adding.wallet] = "pending"]
      BY <1>3, <2>1, <2>3 DEF AddAccountWrite, Addable
    <3> QED BY <1>1, <2>2, <3>1 DEF Firm, Gone, Valid
  <2>4. CASE ~Addable(adding.wallet)
    BY <1>3, <2>4, FirmRows DEF AddAccountWrite
  <2> QED BY <2>3, <2>4
<1>4. ASSUME NEW r \in requests, ClaimWrite(r) PROVE Firm
  <2>1. CASE Burnable(r.device)
    <3>1. /\ rowStatus' = [d \in Devices |->
                 IF d = r.device THEN (IF r.inherits THEN "active" ELSE "awaiting_approval")
                 ELSE IF Retired(r, d) THEN "revoked" ELSE rowStatus[d]]
          /\ token' = [d \in Devices |->
                 IF d = r.device THEN token[d] + 1 ELSE IF Retired(r, d) THEN 0 ELSE token[d]]
          /\ rowStatus[r.device] \in {"pending", "lapsed"}
      BY <1>4, <2>1 DEF ClaimWrite, Burnable
    <3> SUFFICES ASSUME NEW d \in Devices
                 PROVE  (Gone(d) => Gone(d)') /\ \A k \in Nat : Valid(d, k) => Valid(d, k)'
      BY DEF Firm
    <3>2. CASE d = r.device
      BY <3>1, <3>2 DEF Gone, Valid
    <3>3. CASE d # r.device /\ Retired(r, d)
      BY <3>1, <3>3 DEF Gone, Valid
    <3>4. CASE d # r.device /\ ~Retired(r, d)
      BY <3>1, <3>4 DEF Gone, Valid
    <3> QED BY <3>2, <3>3, <3>4
  <2>2. CASE ~Burnable(r.device)
    BY <1>4, <2>2, FirmRows DEF ClaimWrite
  <2> QED BY <2>1, <2>2
<1>5. ASSUME NEW r \in requests, RevokeSelf(r) PROVE Firm
  BY <1>1, <1>5 DEF RevokeSelf, Revoke, Firm, Gone, Valid
<1>6. ASSUME NEW r \in requests, CompleteTokenRotation(r) PROVE FALSE
  BY <1>6 DEF CompleteTokenRotation, Sure
<1>7. ASSUME NEW r \in requests,
             \/ Authenticate(r) \/ AnswerBeat(r) \/ AnswerBatch(r) \/ ClaimRead(r) \/ LoseRequest(r)
             \/ \E m \in r.load : Ingest(r, m)
      PROVE  Firm
  BY <1>7, FirmRows DEF Authenticate, AnswerBeat, AnswerBatch, ClaimRead, LoseRequest, Ingest, rows
<1>8. CASE Phone \/ PhoneDies \/ (\E t \in Tasks : Timeout(t)) \/ UNCHANGED vars
  <2>1. UNCHANGED rows
    BY <1>8 DEF vars, Phone, Hear, Enqueue, BeginBeats, BeginFlush, SwitchSending, Leave, Scan, Step,
       SendBeat, SendBatch, SendFarewell, Send, Forget, ClearBacklog, CarryOut, HearBeat, HearBatch,
       HearRotation, HearFarewell, HearPairing, Return, PhoneDies, Timeout
  <2> QED BY <2>1, FirmRows DEF rows
<1>9. CASE Operator
  <2>1. ASSUME NEW d \in Devices,
               \/ RequestTokenRotation(d) \/ StrangerScans(d)
               \/ \E on \in BOOLEAN : RequestSending(d, on)
               \/ \E w \in Wallets : AddAccountRead(d, w)
        PROVE  Firm
    BY <2>1, FirmRows DEF RequestTokenRotation, RequestSending, QueueCommand, StrangerScans, AddAccountRead, rows
  <2> QED BY <1>2, <1>3, <1>9, <2>1 DEF Operator
<1> QED BY <1>4, <1>5, <1>6, <1>7, <1>8, <1>9 DEF Next, Serve

LEMMA Saying ==
  ASSUME NEW q \in Seq(Command), NEW x \in Command, NEW c
  PROVE  /\ ~Says(<<>>, c)
         /\ Says(<<x>>, c) => c = x
         /\ Says(Append(q, x), c) => Says(q, c) \/ c = x
  BY DEF Says

LEMMA SayingRest ==
  ASSUME NEW q \in Seq(Command), q # <<>>
  PROVE  Says(q, Head(q)) /\ \A c : Says(Tail(q), c) => Says(q, c)
<1>1. 1 \in DOMAIN q /\ Head(q) = q[1]
  OBVIOUS
<1>2. \A i \in DOMAIN Tail(q) : i + 1 \in DOMAIN q /\ Tail(q)[i] = q[i + 1]
  OBVIOUS
<1> QED BY <1>1, <1>2 DEF Says

\* Who keeps the verdicts of the answers under way.
LEMMA VerdictKept ==
  ASSUME Verdict, Firm, Inv,
         \A t \in Tasks :
             answer'[t].outcome = "unauthorized" /\ task'[t].call # "pair" =>
                 \/ answer'[t] = answer[t] /\ task'[t].call = task[t].call
                    /\ task'[t].on = task[t].on
                 \/ Gone(task[t].on.device)'
  PROVE  Verdict'
<1> SUFFICES ASSUME NEW t \in Tasks, answer'[t].outcome = "unauthorized", task'[t].call # "pair"
             PROVE  Gone(task[t].on.device)'
  BY DEF Verdict
<1>1. CASE Gone(task[t].on.device)'
  BY <1>1
<1>2. CASE /\ answer'[t] = answer[t] /\ task'[t].call = task[t].call
           /\ task'[t].on = task[t].on
  <2>1. Gone(task[t].on.device)
    BY <1>2 DEF Verdict
  <2>2. task[t].call \in {"beat", "capture", "rotate", "revoke"}
    BY <1>2, NoAnswerShape DEF Inv, TypeOK, Task, Answered
  <2>3. task[t].on.device \in Devices
    BY <2>2 DEF Inv, InHand, Steady, Snapshot
  <2> QED BY <1>2, <2>1, <2>3 DEF Firm, Gone
<1> QED BY <1>1, <1>2

LEMMA OperatorSure ==
  ASSUME Inv, Truthful, Firm, Operator, "rotate" \notin Operations
  PROVE  Truthful'
<1>1. /\ UNCHANGED <<pairing, task, answer>>
      /\ \A r \in requests' : r \in requests \/ r.kind = "pair"
  BY DEF Operator, ShowCode, CodeExpires, ApproveDevice, RevokeDevice, Revoke, RequestTokenRotation,
     RequestSending, QueueCommand, AddAccountRead, AddAccountWrite, StrangerScans, wire
<1>2. commands \in [Devices -> Seq(Command)] /\ rowStatus \in [Devices -> RowStatus]
  BY DEF Inv, TypeOK
<1>3. \A d \in Devices, k \in Nat : Key(d, k)' => Key(d, k)
  BY <1>1 DEF Key, Paired
<1>4. /\ \A r \in requests' : r.kind # "rotate"
      /\ \A t \in Tasks : task'[t].call # "rotate"
  BY <1>1 DEF Truthful, Sure
<1>5. ASSUME NEW d \in Devices, NEW c \in Command, Order(d, c)'
      PROVE  Order(d, c) \/ Meant(d, c)'
  <2>1. \/ Says(commands'[d], c)
        \/ adding' # NoAddition /\ adding'.phone = d /\ Says(adding'.before, c)
        \/ Order(d, c)
    BY <1>1, <1>5 DEF Order
  <2>2. CASE UNCHANGED <<commands, adding>>
    BY <2>1, <2>2 DEF Order
  <2>3. ASSUME NEW e \in Devices, RevokeDevice(e) PROVE Order(d, c) \/ Meant(d, c)'
    <3>1. /\ commands' = [commands EXCEPT ![e] = <<[type |-> "stop"]>>] /\ UNCHANGED adding
          /\ Gone(e)'
      BY <1>2, <2>3 DEF RevokeDevice, Revoke, Gone
    <3>2. [type |-> "stop"] \in Command
      BY DEF Command
    <3>3. CASE d = e
      BY <1>2, <2>1, <3>1, <3>2, <3>3, Saying DEF Order, Meant
    <3>4. CASE d # e
      BY <1>2, <2>1, <3>1, <3>4 DEF Order
    <3> QED BY <3>3, <3>4
  <2>4. ASSUME NEW e \in Devices, NEW on \in BOOLEAN, RequestSending(e, on)
        PROVE  Order(d, c) \/ Meant(d, c)'
    <3>1. /\ commands' = [commands EXCEPT ![e] = <<[type |-> "set_sending", enabled |-> on]>>]
          /\ UNCHANGED adding
      BY <2>4 DEF RequestSending, QueueCommand
    <3>2. [type |-> "set_sending", enabled |-> on] \in Command
      BY DEF Command
    <3>3. CASE d = e
      BY <1>2, <2>1, <3>1, <3>2, <3>3, Saying DEF Order, Meant
    <3>4. CASE d # e
      BY <1>2, <2>1, <3>1, <3>4 DEF Order
    <3> QED BY <3>3, <3>4
  <2>5. ASSUME NEW e \in Devices, NEW w \in Wallets, AddAccountRead(e, w) PROVE Order(d, c)
    <3>1. adding'.phone = e /\ adding'.before = commands[e] /\ UNCHANGED commands
      BY <2>5 DEF AddAccountRead
    <3> QED BY <2>1, <3>1 DEF Order
  <2>6. ASSUME AddAccountWrite PROVE Order(d, c) \/ Meant(d, c)'
    <3>1. PICK e, x : /\ e = adding.phone /\ x = [type |-> "add_account", device |-> adding.wallet]
                      /\ adding # NoAddition /\ adding' = NoAddition
      BY <2>6 DEF AddAccountWrite
    <3>2. e \in Devices /\ x \in Command /\ adding.before \in Seq(Command) /\ x.type = "add_account"
      BY <3>1 DEF Inv, TypeOK, Command
    <3>3. UNCHANGED commands \/ commands' = [commands EXCEPT ![e] = Append(adding.before, x)]
      BY <2>6, <3>1 DEF AddAccountWrite
    <3>4. CASE UNCHANGED commands \/ d # e
      BY <1>2, <2>1, <3>1, <3>3, <3>4 DEF Order
    <3>5. CASE commands' = [commands EXCEPT ![e] = Append(adding.before, x)] /\ d = e
      <4>1. Says(adding.before, c) \/ c = x \/ Order(d, c)
        <5>1. commands'[d] = Append(adding.before, x)
          BY <1>2, <3>2, <3>5
        <5>2. Says(Append(adding.before, x), c) => Says(adding.before, c) \/ c = x
          BY <3>2, Saying
        <5> QED BY <2>1, <3>1, <5>1, <5>2
      <4> QED BY <3>1, <3>2, <3>5, <4>1 DEF Order, Meant
    <3> QED BY <3>3, <3>4, <3>5
  <2>7. ASSUME NEW e \in Devices,
               ShowCode(e) \/ CodeExpires(e) \/ ApproveDevice(e) \/ StrangerScans(e)
        PROVE  Order(d, c)
    BY <2>2, <2>7, <2>1 DEF ShowCode, CodeExpires, ApproveDevice, StrangerScans, rows, Order
  <2> QED
    BY <2>3, <2>4, <2>5, <2>6, <2>7 DEF Operator, RequestTokenRotation
<1>6. Sure'
  BY <1>3, <1>4, <1>5, SureKept DEF Truthful
<1>7. Verdict'
  BY <1>1, VerdictKept DEF Truthful
<1>8. LatchedIsGone'
  BY <1>1 DEF Truthful, LatchedIsGone, Firm, Gone
<1> QED BY <1>6, <1>7, <1>8 DEF Truthful

LEMMA ReplySure ==
  ASSUME Inv, Truthful, Firm, NEW r \in requests, NEW a, Reply(r, a),
         UNCHANGED <<pairing, task, adding>>,
         \A d \in Devices, c \in Command : Says(commands'[d], c) => Says(commands[d], c),
         r.kind = "pair" /\ a.outcome = "ok" => Valid(a.device, a.token)',
         r.kind = "beat" /\ a.outcome = "ok" => a.commands = commands[r.device],
         r.kind # "pair" /\ a.outcome = "unauthorized" => Gone(r.device)'
  PROVE  Truthful'
<1>1. /\ answer \in [Tasks -> Answer] /\ task \in [Tasks -> Task]
      /\ r.to \in Tasks => /\ task[r.to].call = r.kind
                           /\ r.kind # "pair" => task[r.to].on.device = r.device
  BY DEF Inv, TypeOK, OneCall
<1>2. requests' \subseteq requests /\ (answer' = answer \/ answer' = [answer EXCEPT ![r.to] = a])
  BY DEF Reply
<1>3. ASSUME NEW d \in Devices, NEW k \in Nat, Key(d, k)' PROVE Key(d, k) \/ Valid(d, k)'
  <2>1. CASE /\ r.to \in Tasks /\ answer' = [answer EXCEPT ![r.to] = a] /\ r.kind = "pair"
             /\ a.outcome = "ok" /\ a.device = d /\ a.token = k
    BY <2>1
  <2>2. CASE ~(/\ r.to \in Tasks /\ answer' = [answer EXCEPT ![r.to] = a] /\ r.kind = "pair"
               /\ a.outcome = "ok" /\ a.device = d /\ a.token = k)
    BY <1>1, <1>2, <1>3, <2>2 DEF Key, Paired
  <2> QED BY <2>1, <2>2
<1>4. ASSUME NEW d \in Devices, NEW c \in Command, Order(d, c)' PROVE Order(d, c)
  <2>1. CASE Says(commands[d], c)
    BY <2>1 DEF Order
  <2>2. CASE adding # NoAddition /\ adding.phone = d /\ Says(adding.before, c)
    BY <2>2 DEF Order
  <2>3. ASSUME NEW t \in Tasks, task[t].on \in Snapshot, task[t].on.device = d,
               \/ Says(task[t].rest, c)
               \/ task[t].call = "beat" /\ answer'[t].outcome = "ok" /\ Says(answer'[t].commands, c)
        PROVE  Order(d, c)
    <3>1. CASE answer'[t] = answer[t] \/ Says(task[t].rest, c)
      BY <2>3, <3>1 DEF Order
    <3>2. CASE answer'[t] # answer[t] /\ ~Says(task[t].rest, c)
      <4>1. t = r.to /\ answer'[t] = a
        BY <1>1, <1>2, <3>2
      <4>2. Says(commands[d], c)
        BY <1>1, <2>3, <3>2, <4>1
      <4> QED BY <4>2 DEF Order
    <3> QED BY <3>1, <3>2
  <2> QED BY <1>4, <2>1, <2>2, <2>3 DEF Order
<1>5. Sure'
  BY <1>2, <1>3, <1>4, SureKept DEF Truthful, Sure
<1>6. Verdict'
  <2>1. ASSUME NEW t \in Tasks, answer'[t].outcome = "unauthorized", task'[t].call # "pair",
               answer'[t] # answer[t]
        PROVE  Gone(task[t].on.device)'
    <3>1. t = r.to /\ answer'[t] = a
      BY <1>1, <1>2, <2>1
    <3> QED BY <1>1, <2>1, <3>1
  <2> QED BY <2>1, VerdictKept DEF Truthful
<1>7. LatchedIsGone'
  BY DEF Truthful, LatchedIsGone, Firm, Gone
<1> QED BY <1>5, <1>6, <1>7 DEF Truthful

LEMMA AdvanceSure ==
  ASSUME Inv, Truthful, Firm, NEW r \in requests, NEW s, Advance(r, s), s.kind = r.kind,
         s.device = r.device, r.kind # "pair" => s.token = r.token,
         UNCHANGED <<commands, adding, pairing, task, answer>>
  PROVE  Truthful'
<1>1. requests' = (requests \ {r}) \cup {s}
  BY DEF Advance
<1>2. \A d \in Devices, k \in Nat : Key(d, k)' => Key(d, k)
  BY <1>1 DEF Key, Paired
<1>3. \A d \in Devices, c \in Command : Order(d, c)' => Order(d, c)
  BY DEF Order
<1>4. Sure'
  BY <1>1, <1>2, <1>3, SureKept DEF Truthful, Sure
<1>5. Verdict'
  BY VerdictKept DEF Truthful
<1>6. LatchedIsGone'
  BY DEF Truthful, LatchedIsGone, Firm, Gone
<1> QED BY <1>4, <1>5, <1>6 DEF Truthful

LEMMA ServeSure ==
  ASSUME Inv, Truthful, Firm, NEW r \in requests, Serve(r)
  PROVE  Truthful'
<1>1. /\ r \in Request /\ r.device \in Devices /\ r.kind # "rotate"
      /\ commands \in [Devices -> Seq(Command)]
      /\ r.kind # "pair" => r.token \in Nat /\ Valid(r.device, r.token)
  <2>1. r \in Request
    BY DEF Inv, TypeOK
  <2>2. r.kind # "pair" => r.token \in Nat /\ Key(r.device, r.token)
    BY <2>1, RequestShape DEF Key
  <2> QED BY <2>1, <2>2, RequestShape DEF Inv, TypeOK, Truthful, Sure
<1>2. UNCHANGED <<pairing, task, adding>>
  BY DEF Serve, Authenticate, AnswerBeat, AnswerBatch, CompleteTokenRotation, RevokeSelf, Revoke,
     ClaimRead, ClaimWrite, Ingest, rows
<1>3. CASE Authenticate(r)
  <2> DEFINE s == [r EXCEPT !.stage = "admitted"]
  <2>1. UNCHANGED rows /\ r.kind # "pair" /\ UNCHANGED commands
    BY <1>3 DEF Authenticate, rows
  <2>2. s.kind = r.kind /\ s.device = r.device /\ s.token = r.token
    <3>1. r \in CallRequest \/ r \in BeatRequest \/ r \in BatchRequest
      BY <1>1, <2>1, RequestShape
    <3> QED BY <3>1 DEF CallRequest, BeatRequest, BatchRequest
  <2>3. CASE Advance(r, s) /\ UNCHANGED answer
    <3> HIDE DEF s
    <3> QED BY <1>2, <2>1, <2>2, <2>3, AdvanceSure
  <2>4. CASE Reply(r, [outcome |-> "waiting"])
    BY <1>2, <2>1, <2>4, ReplySure
  <2>5. CASE Refuse(r) /\ ~(Known(r) /\ rowStatus[r.device] \in {"active", "awaiting_approval"})
    <3>1. Gone(r.device)'
      BY <1>1, <2>1, <2>5 DEF Valid, Known, Gone, rows
    <3> QED BY <1>2, <2>1, <2>5, <3>1, ReplySure DEF Refuse
  <2> QED BY <1>3, <2>3, <2>4, <2>5 DEF Authenticate
<1>4. CASE AnswerBeat(r)
  <2>1. \A d \in Devices, c \in Command : Says(commands'[d], c) => Says(commands[d], c)
    BY <1>1, <1>4 DEF AnswerBeat, Says
  <2> QED BY <1>2, <1>4, <2>1, ReplySure DEF AnswerBeat
<1>5. CASE AnswerBatch(r)
  BY <1>2, <1>5, ReplySure DEF AnswerBatch, rows
<1>6. CASE RevokeSelf(r)
  <2>1. \A d \in Devices, c \in Command : Says(commands'[d], c) => Says(commands[d], c)
    BY <1>1, <1>6 DEF RevokeSelf, Revoke, Says
  <2> QED BY <1>2, <1>6, <2>1, ReplySure DEF RevokeSelf
<1>7. CASE ClaimRead(r)
  <2> DEFINE s == [r EXCEPT !.stage = "admitted", !.inherits = Inherits(r)]
  <2>1. r \in PairingRequest /\ r.kind = "pair" /\ UNCHANGED commands
    BY <1>1, <1>7, RequestShape DEF ClaimRead, rows
  <2>2. s.kind = r.kind /\ s.device = r.device
    BY <2>1 DEF PairingRequest
  <2>3. CASE Advance(r, s) /\ UNCHANGED answer
    <3> HIDE DEF s
    <3> QED BY <1>2, <2>1, <2>2, <2>3, AdvanceSure
  <2>4. CASE Refuse(r)
    BY <1>2, <2>1, <2>4, ReplySure DEF Refuse
  <2> QED BY <1>7, <2>3, <2>4 DEF ClaimRead
<1>8. CASE ClaimWrite(r)
  <2>1. r.kind = "pair" /\ UNCHANGED commands
    BY <1>8 DEF ClaimWrite
  <2>2. CASE ~Burnable(r.device)
    BY <1>2, <1>8, <2>1, <2>2, ReplySure DEF ClaimWrite, Refuse
  <2>3. CASE Burnable(r.device)
    <3> DEFINE a == [outcome |-> "ok", device |-> r.device, token |-> token[r.device] + 1,
                     awaiting |-> ~r.inherits]
    <3>1. /\ rowStatus'[r.device] \in {"active", "awaiting_approval"}
          /\ token'[r.device] = token[r.device] + 1 /\ Reply(r, a)
      BY <1>1, <1>8, <2>3 DEF ClaimWrite
    <3>2. PICK n : n = token[r.device] + 1
      OBVIOUS
    <3>3. Valid(r.device, n)'
      BY <3>1, <3>2 DEF Valid
    <3>4. a.outcome = "ok" /\ a.device = r.device /\ a.token = n
      BY <3>2
    <3> HIDE DEF a
    <3> QED BY <1>2, <2>1, <3>1, <3>3, <3>4, ReplySure
  <2> QED BY <2>2, <2>3
<1>9. ASSUME NEW m \in r.load, Ingest(r, m) PROVE Truthful'
  <2> DEFINE s == [r EXCEPT !.load = @ \ {m}, !.done = @ \cup {m}]
  <2>1. r \in BatchRequest
    BY <1>1, <1>9, RequestShape DEF Ingest
  <2>2. s.kind = r.kind /\ s.device = r.device /\ s.token = r.token
    BY <2>1 DEF BatchRequest
  <2>3. Advance(r, s) /\ UNCHANGED <<commands, answer>>
    BY <1>9 DEF Ingest, rows
  <2> HIDE DEF s
  <2> QED BY <1>2, <2>2, <2>3, AdvanceSure
<1> QED
  BY <1>1, <1>3, <1>4, <1>5, <1>6, <1>7, <1>8, <1>9 DEF Serve, CompleteTokenRotation

\* The pairings of the phone keep their tokens, or go.
Same == \A d \in Devices : Paired(d)' => Paired(d) /\ pairing'[d].token = pairing[d].token

LEMMA TaskSure ==
  ASSUME Inv, Truthful, NEW t \in Tasks, NEW k \in Task, task[t].call = "none", k.call # "rotate",
         task' = [task EXCEPT ![t] = k], UNCHANGED <<rowStatus, token, commands, adding, answer>>,
         Same, LatchedIsGone',
         \A s \in k.todo : Key(s.device, s.token),
         k.on \in Snapshot => Key(k.on.device, k.on.token),
         k.on \in Snapshot => \A c \in Command : Says(k.rest, c) => Order(k.on.device, c),
         \A r \in requests' : \/ r \in requests
                              \/ r.kind = "pair"
                              \/ r.kind # "rotate" /\ Key(r.device, r.token)
  PROVE  Truthful'
<1>1. task \in [Tasks -> Task] /\ answer[t].outcome \notin {"ok", "unauthorized"}
  BY NoAnswerShape DEF Inv, TypeOK, Answered
<1>2. ASSUME NEW d \in Devices, NEW n \in Nat, Key(d, n)' PROVE Key(d, n)
  <2>1. CASE Paired(d)' /\ pairing'[d].token = n
    BY <2>1 DEF Same, Key
  <2>2. CASE \E r \in requests' : r.kind # "pair" /\ r.device = d /\ r.token = n
    BY <2>2 DEF Key
  <2>3. ASSUME NEW u \in Tasks,
               \/ \E s \in task'[u].todo : s.device = d /\ s.token = n
               \/ task'[u].on \in Snapshot /\ task'[u].on.device = d /\ task'[u].on.token = n
               \/ /\ task'[u].call = "pair" /\ answer'[u].outcome = "ok"
                  /\ answer'[u].device = d /\ answer'[u].token = n
        PROVE  Key(d, n)
    <3>1. CASE u = t
      BY <1>1, <2>3, <3>1
    <3>2. CASE u # t
      BY <1>1, <2>3, <3>2 DEF Key
    <3> QED BY <3>1, <3>2
  <2> QED BY <1>2, <2>1, <2>2, <2>3 DEF Key
<1>3. ASSUME NEW d \in Devices, NEW c \in Command, Order(d, c)' PROVE Order(d, c)
  <2>1. CASE Says(commands[d], c) \/ (adding # NoAddition /\ adding.phone = d /\ Says(adding.before, c))
    BY <2>1 DEF Order
  <2>2. ASSUME NEW u \in Tasks, task'[u].on \in Snapshot, task'[u].on.device = d,
               \/ Says(task'[u].rest, c)
               \/ task'[u].call = "beat" /\ answer'[u].outcome = "ok" /\ Says(answer'[u].commands, c)
        PROVE  Order(d, c)
    <3>1. CASE u = t
      BY <1>1, <2>2, <3>1
    <3>2. CASE u # t
      BY <1>1, <2>2, <3>2 DEF Order
    <3> QED BY <3>1, <3>2
  <2> QED BY <1>3, <2>1, <2>2 DEF Order
<1>4. Firm
  BY FirmRows
<1>5. Sure'
  BY <1>1, <1>2, <1>3, <1>4, SureKept DEF Truthful, Sure
<1>6. Verdict'
  BY <1>1, <1>4, VerdictKept DEF Truthful
<1> QED BY <1>5, <1>6 DEF Truthful

LEMMA SnapshotKeys ==
  ASSUME NEW ds, \A d \in ds : Paired(d), NEW s \in Snapshots(ds)
  PROVE  Key(s.device, s.token)
  BY DEF Snapshots, Key

LEMMA StartSure ==
  ASSUME Inv, Truthful, NEW t \in Tasks,
         \/ BeginBeats(t) \/ BeginFlush(t)
         \/ \E on \in BOOLEAN : SwitchSending(t, on)
         \/ \E ds \in SUBSET Devices : Leave(t, ds)
         \/ \E d \in Devices : Scan(t, d)
  PROVE  Truthful'
<1>1. /\ pairing \in [Devices -> Pairing] /\ task[t].call = "none"
      /\ UNCHANGED <<rowStatus, token, commands, adding, answer>>
  BY IdleType DEF Inv, TypeOK, BeginBeats, BeginFlush, SwitchSending, Leave, Scan, Start, rows
<1>2. ASSUME NEW k \in Task, k.on = NoSnapshot, k.call # "rotate", task' = [task EXCEPT ![t] = k],
             \A s \in k.todo : Key(s.device, s.token), Same, LatchedIsGone',
             \A r \in requests' : r \in requests \/ r.kind = "pair"
      PROVE  Truthful'
  BY <1>1, <1>2, NotPairing, TaskSure
<1>3. UNCHANGED pairing => Same /\ LatchedIsGone'
  BY <1>1 DEF Same, Paired, Truthful, LatchedIsGone
<1>4. ASSUME NEW ds \in SUBSET Devices, \A d \in ds : Paired(d), NEW kind \in {"beat", "flush"},
             Start(t, [Idle EXCEPT !.kind = kind, !.todo = Snapshots(ds)]),
             UNCHANGED <<pairing, requests>>
      PROVE  Truthful'
  <2> DEFINE k == [Idle EXCEPT !.kind = kind, !.todo = Snapshots(ds)]
  <2>1. k \in Task /\ k.on = NoSnapshot /\ k.call # "rotate" /\ k.todo = Snapshots(ds)
    BY <1>1, SnapshotType, IdleType DEF Idle, Task
  <2>2. task' = [task EXCEPT ![t] = k]
    BY <1>4 DEF Start
  <2> HIDE DEF k
  <2> QED BY <1>2, <1>3, <1>4, <2>1, <2>2, SnapshotKeys
<1>5. CASE BeginBeats(t)
  BY <1>4, <1>5 DEF BeginBeats, Beating
<1>6. CASE BeginFlush(t)
  <2>1. Flushing \subseteq Devices /\ \A d \in Flushing : Paired(d)
    BY NotifierAssumption DEF NotifierAssumption, Flushing, Capturing, Live
  <2> QED BY <1>4, <1>6, <2>1 DEF BeginFlush
<1>7. ASSUME NEW on \in BOOLEAN, SwitchSending(t, on) PROVE Truthful'
  <2> DEFINE k == [Idle EXCEPT !.kind = "clear",
                        !.group = IF on THEN {} ELSE {d \in Devices : Paired(d)}]
  <2>1. k \in Task /\ k.on = NoSnapshot /\ k.call # "rotate" /\ k.todo = {}
    BY IdleType DEF Idle, Task
  <2>2. task' = [task EXCEPT ![t] = k] /\ UNCHANGED requests
    BY <1>7 DEF SwitchSending, Start
  <2>3. ASSUME NEW d \in Devices
        PROVE  \/ pairing'[d] = pairing[d]
               \/ /\ Paired(d) /\ pairing'[d].token = pairing[d].token
                  /\ pairing'[d].revoked = pairing[d].revoked
    BY <1>1, <1>7 DEF SwitchSending, Pairing
  <2>4. Same
    BY <2>3 DEF Same, Paired
  <2>5. LatchedIsGone'
    BY <1>1, <2>3 DEF Truthful, LatchedIsGone
  <2> HIDE DEF k
  <2> QED BY <1>2, <2>1, <2>2, <2>4, <2>5
<1>8. ASSUME NEW ds \in SUBSET Devices, Leave(t, ds) PROVE Truthful'
  <2> DEFINE k == [Idle EXCEPT !.kind = "leave", !.group = ds, !.todo = Snapshots(ds \cap Beating)]
  <2>1. k \in Task /\ k.on = NoSnapshot /\ k.call # "rotate" /\ k.todo = Snapshots(ds \cap Beating)
    BY <1>1, SnapshotType, IdleType DEF Idle, Task
  <2>2. task' = [task EXCEPT ![t] = k] /\ UNCHANGED <<requests, pairing>>
    BY <1>8 DEF Leave, Start
  <2>3. \A d \in ds \cap Beating : Paired(d)
    BY DEF Beating
  <2> HIDE DEF k
  <2> QED BY <1>2, <1>3, <2>1, <2>2, <2>3, SnapshotKeys
<1>9. ASSUME NEW d \in Devices, Scan(t, d) PROVE Truthful'
  <2> DEFINE k == [Idle EXCEPT !.kind = "scan", !.call = "pair"]
  <2>1. k \in Task /\ k.on = NoSnapshot /\ k.call # "rotate" /\ k.todo = {}
    BY IdleType DEF Idle, Task
  <2>2. /\ task' = [task EXCEPT ![t] = k] /\ UNCHANGED pairing
        /\ \A r \in requests' : r \in requests \/ r.kind = "pair"
    BY <1>9 DEF Scan, Start, PairRequest
  <2> HIDE DEF k
  <2> QED BY <1>2, <1>3, <2>1, <2>2
<1> QED BY <1>5, <1>6, <1>7, <1>8, <1>9

LEMMA LatchFacts ==
  ASSUME pairing \in [Devices -> Pairing], NEW d \in Devices, NEW p \in Pairing,
         pairing' = With(d, p), p.token = pairing[d].token
  PROVE  /\ Same
         /\ \A e \in Devices : pairing'[e] = pairing[e] \/ (e = d /\ pairing'[e] = p)
<1>1. \A e \in Devices : pairing'[e] = pairing[e] \/ (e = d /\ pairing'[e] = p /\ Paired(d))
  BY DEF With
<1> QED BY <1>1 DEF Same, Paired

\* A pairing is latched only when its row is gone.
LEMMA LatchGone ==
  ASSUME pairing \in [Devices -> Pairing], LatchedIsGone, UNCHANGED rowStatus,
         NEW d \in Devices, pairing' = Latch(d), Gone(d)
  PROVE  Same /\ LatchedIsGone'
<1> DEFINE p == [pairing[d] EXCEPT !.revoked = TRUE]
<1>1. p \in Pairing /\ p.token = pairing[d].token
  BY DEF Pairing
<1>2. pairing' = With(d, p)
  BY DEF Latch
<1> HIDE DEF p
<1> QED BY <1>1, <1>2, LatchFacts DEF LatchedIsGone, Gone

LEMMA EditKeeps ==
  ASSUME pairing \in [Devices -> Pairing], LatchedIsGone, UNCHANGED rowStatus,
         NEW d \in Devices, NEW p \in Pairing, pairing' = With(d, p),
         p.token = pairing[d].token, p.revoked = pairing[d].revoked
  PROVE  Same /\ LatchedIsGone'
  BY LatchFacts DEF LatchedIsGone

\* What is left of a task says nothing new.
LEMMA RestSays ==
  ASSUME NEW k \in Task
  PROVE  /\ Rest(k).todo \subseteq k.todo
         /\ Rest(k).on \in Snapshot => Rest(k).on = k.on
         /\ \A c : Says(Rest(k).rest, c) => Says(k.rest, c)
<1>1. CASE k.rest # <<>>
  BY <1>1 DEF Rest, Task
<1>2. CASE k.rest = <<>> /\ k.todo = {} /\ k.kind # "leave"
  <2>1. Rest(k) = Idle
    BY <1>2 DEF Rest
  <2> QED BY <2>1, NotPairing DEF Idle, Says
<1>3. CASE k.rest = <<>> /\ ~(k.todo = {} /\ k.kind # "leave")
  <2>1. Rest(k) = [k EXCEPT !.call = "none", !.on = NoSnapshot]
    BY <1>3 DEF Rest
  <2>2. Rest(k).todo = k.todo /\ Rest(k).on = NoSnapshot /\ Rest(k).rest = k.rest
    BY <2>1 DEF Task
  <2> QED BY <2>2, NotPairing
<1> QED BY <1>1, <1>2, <1>3

LEMMA StepSure ==
  ASSUME Inv, Truthful, NEW t \in Tasks,
         \/ SendBeat(t) \/ SendBatch(t) \/ SendFarewell(t) \/ Forget(t) \/ ClearBacklog(t)
         \/ CarryOut(t)
  PROVE  Truthful'
<1> DEFINE k == task[t]
<1>1. /\ pairing \in [Devices -> Pairing] /\ k.call = "none" /\ k \in Task
      /\ UNCHANGED <<rowStatus, token, commands, adding, answer>> /\ LatchedIsGone
  BY DEF Inv, TypeOK, SendBeat, SendBatch, SendFarewell, Forget, ClearBacklog, CarryOut, Send,
     Between, rows, Truthful
<1>2. /\ \A s \in k.todo : s \in Snapshot /\ Key(s.device, s.token)
      /\ k.on \in Snapshot => Key(k.on.device, k.on.token)
      /\ k.on \in Snapshot => \A c \in Command : Says(k.rest, c) => Order(k.on.device, c)
  BY <1>1 DEF Key, Order, Task
<1>3. UNCHANGED pairing => Same /\ LatchedIsGone'
  BY <1>1 DEF Same, Paired, LatchedIsGone
<1>4. ASSUME NEW s \in k.todo, NEW call \in {"beat", "capture", "revoke"}, NEW r,
             Send(t, s, call, r), r.kind = call, r.device = s.device, r.token = s.token, k.rest = <<>>
      PROVE  Truthful'
  <2> DEFINE l == [k EXCEPT !.todo = @ \ {s}, !.on = s, !.call = call]
  <2>1. l \in Task /\ l.todo \subseteq k.todo /\ l.on = s /\ l.rest = <<>> /\ l.call = call
    BY <1>1, <1>2, <1>4 DEF Task
  <2>2. task' = [task EXCEPT ![t] = l] /\ requests' = requests \cup {r} /\ UNCHANGED pairing
    BY <1>4 DEF Send
  <2> HIDE DEF l
  <2>3. \A c : ~Says(l.rest, c)
    BY <2>1 DEF Says
  <2>4. \A q \in requests' : q \in requests \/ (q.kind # "rotate" /\ Key(q.device, q.token))
    BY <1>2, <1>4, <2>2
  <2> QED BY <1>1, <1>2, <1>3, <2>1, <2>2, <2>3, <2>4, TaskSure
<1>5. ASSUME NEW l \in Task, task' = [task EXCEPT ![t] = Rest(l)], requests' = requests,
             \A s \in l.todo : Key(s.device, s.token),
             l.on \in Snapshot => l.on = k.on, \A c : Says(l.rest, c) => Says(k.rest, c),
             Same, LatchedIsGone'
      PROVE  Truthful'
  <2>1. Rest(l) \in Task /\ Rest(l).call = "none"
    BY RestType
  <2>2. /\ \A s \in Rest(l).todo : Key(s.device, s.token)
        /\ Rest(l).on \in Snapshot => Rest(l).on = k.on
        /\ \A c : Says(Rest(l).rest, c) => Says(k.rest, c)
    BY <1>5, RestSays
  <2> QED BY <1>1, <1>2, <1>5, <2>1, <2>2, TaskSure
<1>6. CASE SendBeat(t)
  BY <1>4, <1>6 DEF SendBeat, Between
<1>7. CASE SendBatch(t)
  <2>1. PICK s \in k.todo :
            IF Pending(s.device) = {}
            THEN /\ task' = [task EXCEPT ![t] = Rest([task[t] EXCEPT !.todo = @ \ {s}])]
                 /\ UNCHANGED <<rows, stored, pairing, queue, requests, answer, losses>>
            ELSE Send(t, s, "capture",
                      [kind |-> "capture", to |-> t, device |-> s.device, token |-> s.token,
                       load |-> Pending(s.device), done |-> {}, stage |-> "sent"])
    BY <1>7 DEF SendBatch
  <2>2. CASE Pending(s.device) = {}
    <3> DEFINE l == [k EXCEPT !.todo = @ \ {s}]
    <3>1. l \in Task /\ l.todo \subseteq k.todo /\ l.on = k.on /\ l.rest = k.rest
      BY <1>1 DEF Task
    <3>2. task' = [task EXCEPT ![t] = Rest(l)] /\ UNCHANGED <<requests, pairing>>
      BY <2>1, <2>2
    <3> HIDE DEF l
    <3> QED BY <1>2, <1>3, <1>5, <3>1, <3>2
  <2>3. CASE Pending(s.device) # {}
    BY <1>4, <1>7, <2>1, <2>3 DEF SendBatch, Between
  <2> QED BY <2>2, <2>3
<1>8. CASE SendFarewell(t)
  BY <1>4, <1>8 DEF SendFarewell, Between
<1>9. CASE Forget(t)
  <2>1. /\ task' = [task EXCEPT ![t] = Idle] /\ requests' = requests
        /\ \A d \in Devices : pairing'[d] = pairing[d] \/ pairing'[d] = NoPairing
    BY <1>9 DEF Forget
  <2>2. Same
    BY <2>1 DEF Same, Paired
  <2>3. LatchedIsGone'
    BY <1>1, <2>1 DEF LatchedIsGone, NoPairing
  <2> QED BY <1>1, <2>1, <2>2, <2>3, IdleType, NotPairing, TaskSure DEF Idle
<1>10. CASE ClearBacklog(t)
  <2> DEFINE l == [Idle EXCEPT !.kind = "beat", !.todo = Snapshots({d \in Devices : Live(d)})]
  <2>1. /\ l \in Task /\ l.on = NoSnapshot /\ l.rest = <<>>
        /\ l.todo = Snapshots({d \in Devices : Live(d)})
    BY <1>1, SnapshotType, IdleType DEF Idle, Task
  <2>2. task' = [task EXCEPT ![t] = Rest(l)] /\ UNCHANGED <<requests, pairing>>
    BY <1>10 DEF ClearBacklog
  <2>3. \A d \in {e \in Devices : Live(e)} : Paired(d)
    BY DEF Live
  <2> HIDE DEF l
  <2>4. \A s \in l.todo : Key(s.device, s.token)
    BY <2>1, <2>3, SnapshotKeys
  <2>5. \A c : ~Says(l.rest, c)
    BY <2>1 DEF Says
  <2> QED BY <1>3, <1>5, <2>1, <2>2, <2>4, <2>5, NotPairing
<1>11. CASE CarryOut(t)
  <2> DEFINE c == Head(k.rest)
             d == k.on.device
             l == [k EXCEPT !.rest = Tail(@)]
  <2>1. k.rest # <<>> /\ k.rest \in Seq(Command)
    BY <1>1, <1>11 DEF CarryOut, Task
  <2>2. k.on \in Snapshot /\ d \in Devices
    BY <2>1 DEF Inv, InHand, Steady, Snapshot
  <2>3. c \in Command /\ l \in Task /\ l.on = k.on /\ l.todo = k.todo /\ l.rest = Tail(k.rest)
    BY <1>1, <2>1, Taken DEF Task
  <2>4. Says(k.rest, c) /\ \A x : Says(l.rest, x) => Says(k.rest, x)
    BY <2>1, <2>3, SayingRest
  <2>5. Meant(d, c)
    BY <1>2, <2>2, <2>3, <2>4 DEF Truthful, Sure
  <2>6. ASSUME task' = [task EXCEPT ![t] = Rest(l)], UNCHANGED requests, Same, LatchedIsGone'
        PROVE  Truthful'
    <3> HIDE DEF l, c
    <3> QED BY <1>2, <1>5, <2>3, <2>4, <2>6
  <2>7. CASE c.type = "set_sending"
    <3> DEFINE p == [pairing[d] EXCEPT !.sending = c.enabled]
    <3>1. c.enabled \in BOOLEAN
      BY <2>3, <2>7 DEF Command
    <3>2. p \in Pairing /\ p.token = pairing[d].token /\ p.revoked = pairing[d].revoked
      BY <1>1, <2>2, <3>1 DEF Pairing
    <3>3. /\ pairing' = With(d, p) /\ task' = [task EXCEPT ![t] = Rest(l)] /\ UNCHANGED requests
      BY <1>11, <2>7 DEF CarryOut, SetSending
    <3> HIDE DEF p
    <3> QED BY <1>1, <2>2, <2>6, <3>2, <3>3, EditKeeps
  <2>8. CASE c.type = "stop"
    <3>1. /\ pairing' = Latch(d) /\ task' = [task EXCEPT ![t] = Rest(l)] /\ UNCHANGED requests
      BY <1>11, <2>8 DEF CarryOut
    <3> QED BY <1>1, <2>2, <2>5, <2>6, <2>8, <3>1, LatchGone DEF Meant
  <2>9. CASE c.type = "add_account"
    <3> DEFINE m == [k EXCEPT !.call = "pair"]
    <3>1. m \in Task /\ m.todo = k.todo /\ m.on = k.on /\ m.rest = k.rest /\ m.call = "pair"
      BY <1>1 DEF Task
    <3>2. task' = [task EXCEPT ![t] = m] /\ UNCHANGED pairing
      BY <1>11, <2>9 DEF CarryOut, Inv, TypeOK
    <3>3. \A r \in requests' : r \in requests \/ r.kind = "pair"
      BY <1>11, <2>9 DEF CarryOut, PairRequest
    <3> HIDE DEF m
    <3> QED BY <1>1, <1>2, <1>3, <3>1, <3>2, <3>3, TaskSure
  <2>10. c.type \in {"set_sending", "stop", "add_account"}
    BY <2>3, <2>5 DEF Command, Meant
  <2> QED BY <2>7, <2>8, <2>9, <2>10
<1> QED BY <1>6, <1>7, <1>8, <1>9, <1>10, <1>11

LEMMA AnswerSure ==
  ASSUME Inv, Truthful, NEW t \in Tasks,
         HearBeat(t) \/ HearBatch(t) \/ HearRotation(t) \/ HearFarewell(t) \/ HearPairing(t)
  PROVE  Truthful'
<1> DEFINE k == task[t]
           d == k.on.device
<1>1. /\ pairing \in [Devices -> Pairing] /\ k \in Task /\ LatchedIsGone
      /\ task \in [Tasks -> Task] /\ answer \in [Tasks -> Answer]
  BY DEF Inv, TypeOK, Truthful
<1>2. answer[t] # NoAnswer /\ k.call # "none" /\ Fits(answer[t], k.call)
  BY DEF Inv, Answered, HearBeat, HearBatch, HearRotation, HearFarewell, HearPairing, Heard
<1>3. /\ answer' = [answer EXCEPT ![t] = NoAnswer]
      /\ UNCHANGED <<rowStatus, token, commands, adding, requests>>
  BY DEF HearBeat, HearBatch, HearRotation, HearFarewell, HearPairing, Return, rows
<1>4. Firm
  BY <1>3, FirmRows
<1>5. k.call # "pair" => d \in Devices /\ k.on \in Snapshot
  BY <1>1, <1>2 DEF Inv, InHand, Steady, Snapshot, Task
<1>6. k.call # "pair" /\ Refused(t) => Gone(d)
  BY DEF Refused, Truthful, Verdict
<1>7. k.call # "pair" => (pairing' = LatchedBy(t) => Same /\ LatchedIsGone')
  <2>1. CASE Refused(t)
    BY <1>1, <1>3, <1>5, <1>6, <2>1, LatchGone DEF LatchedBy
  <2>2. CASE ~Refused(t)
    BY <1>1, <1>3, <2>2 DEF LatchedBy, Same, Paired, LatchedIsGone
  <2> QED BY <2>1, <2>2
<1>8. ASSUME NEW l \in Task, Return(t, l), l.todo = k.todo, l.on = k.on,
             \A c : Says(l.rest, c) => \/ Says(k.rest, c)
                                      \/ /\ k.call = "beat" /\ answer[t].outcome = "ok"
                                         /\ Says(answer[t].commands, c),
             \A e \in Devices, n \in Nat : Paired(e)' /\ pairing'[e].token = n => Key(e, n),
             LatchedIsGone'
      PROVE  Truthful'
  <2>1. task' = [task EXCEPT ![t] = Rest(l)]
    BY <1>8 DEF Return
  <2>2. /\ Rest(l).todo \subseteq k.todo /\ Rest(l).call = "none"
        /\ Rest(l).on \in Snapshot => Rest(l).on = k.on
        /\ \A c : Says(Rest(l).rest, c) => Says(l.rest, c)
    BY <1>8, RestType, RestSays
  <2>3. ASSUME NEW e \in Devices, NEW n \in Nat, Key(e, n)' PROVE Key(e, n)
    <3>1. CASE Paired(e)' /\ pairing'[e].token = n
      BY <1>8, <3>1
    <3>2. CASE \E r \in requests' : r.kind # "pair" /\ r.device = e /\ r.token = n
      BY <1>3, <3>2 DEF Key
    <3>3. ASSUME NEW u \in Tasks,
                 \/ \E s \in task'[u].todo : s.device = e /\ s.token = n
                 \/ task'[u].on \in Snapshot /\ task'[u].on.device = e /\ task'[u].on.token = n
                 \/ /\ task'[u].call = "pair" /\ answer'[u].outcome = "ok"
                    /\ answer'[u].device = e /\ answer'[u].token = n
          PROVE  Key(e, n)
      <4>1. CASE u = t
        BY <1>1, <2>1, <2>2, <3>3, <4>1 DEF Key
      <4>2. CASE u # t
        BY <1>1, <1>3, <2>1, <3>3, <4>2 DEF Key
      <4> QED BY <4>1, <4>2
    <3> QED BY <2>3, <3>1, <3>2, <3>3 DEF Key
  <2>4. ASSUME NEW e \in Devices, NEW c \in Command, Order(e, c)' PROVE Order(e, c)
    <3>1. CASE Says(commands[e], c) \/ (adding # NoAddition /\ adding.phone = e /\ Says(adding.before, c))
      BY <3>1 DEF Order
    <3>2. ASSUME NEW u \in Tasks, task'[u].on \in Snapshot, task'[u].on.device = e,
                 \/ Says(task'[u].rest, c)
                 \/ task'[u].call = "beat" /\ answer'[u].outcome = "ok" /\ Says(answer'[u].commands, c)
          PROVE  Order(e, c)
      <4>1. CASE u = t
        <5>1. k.on \in Snapshot /\ k.on.device = e /\ Says(l.rest, c)
          BY <1>1, <2>1, <2>2, <3>2, <4>1
        <5> QED BY <1>8, <5>1 DEF Order
      <4>2. CASE u # t
        BY <1>1, <1>3, <2>1, <3>2, <4>2 DEF Order
      <4> QED BY <4>1, <4>2
    <3> QED BY <1>3, <2>4, <3>1, <3>2 DEF Order
  <2>5. Sure'
    BY <1>1, <1>3, <1>4, <2>1, <2>2, <2>3, <2>4, SureKept DEF Truthful, Sure
  <2>6. Verdict'
    BY <1>1, <1>3, <1>4, <2>1, NoAnswerShape, VerdictKept DEF Truthful
  <2> QED BY <1>8, <2>5, <2>6 DEF Truthful
<1>9. Same => \A e \in Devices, n \in Nat : Paired(e)' /\ pairing'[e].token = n => Key(e, n)
  BY DEF Same, Key
<1>10. ASSUME k.rest # <<>>
       PROVE  LET l == [k EXCEPT !.rest = Tail(@)] IN
              l \in Task /\ l.todo = k.todo /\ l.on = k.on /\ \A c : Says(l.rest, c) => Says(k.rest, c)
  <2> DEFINE l == [k EXCEPT !.rest = Tail(@)]
  <2>1. k.rest \in Seq(Command)
    BY <1>1 DEF Task
  <2>2. l \in Task /\ l.todo = k.todo /\ l.on = k.on /\ l.rest = Tail(k.rest)
    BY <1>1, <1>10, Taken DEF Task
  <2>3. \A c : Says(Tail(k.rest), c) => Says(k.rest, c)
    BY <1>10, <2>1, SayingRest
  <2> QED BY <2>2, <2>3
<1>11. CASE HearBeat(t)
  <2>1. k.call = "beat"
    BY <1>11 DEF HearBeat, Heard
  <2>2. ASSUME NEW b \in BOOLEAN, pairing' = With(d, [pairing[d] EXCEPT !.awaiting = b])
        PROVE  Same /\ LatchedIsGone'
    <3> DEFINE p == [pairing[d] EXCEPT !.awaiting = b]
    <3>1. p \in Pairing /\ p.token = pairing[d].token /\ p.revoked = pairing[d].revoked
      BY <1>1, <1>5, <2>1 DEF Pairing
    <3>2. pairing' = With(d, p)
      BY <2>2
    <3> HIDE DEF p
    <3> QED BY <1>1, <1>3, <1>5, <2>1, <3>1, <3>2, EditKeeps
  <2>3. CASE answer[t].outcome = "ok"
    <3> DEFINE l == [k EXCEPT !.rest = answer[t].commands]
    <3>1. l \in Task /\ l.todo = k.todo /\ l.on = k.on /\ l.rest = answer[t].commands
      BY <1>1, <1>2, <2>1, <2>3 DEF Fits, BeatAnswer, Task
    <3>2. pairing' = With(d, [pairing[d] EXCEPT !.awaiting = FALSE]) /\ Return(t, l)
      BY <1>11, <2>3 DEF HearBeat
    <3> HIDE DEF l
    <3> QED BY <1>8, <1>9, <2>1, <2>2, <2>3, <3>1, <3>2
  <2>4. CASE answer[t].outcome = "waiting"
    BY <1>1, <1>8, <1>9, <1>11, <2>2, <2>4 DEF HearBeat
  <2>5. CASE answer[t].outcome \in {"unauthorized", "failed"}
    BY <1>1, <1>7, <1>8, <1>9, <1>11, <2>1, <2>5 DEF HearBeat
  <2> QED BY <1>11, <2>3, <2>4, <2>5 DEF HearBeat
<1>12. CASE HearBatch(t)
  BY <1>1, <1>7, <1>8, <1>9, <1>12 DEF HearBatch, Heard
<1>13. CASE HearRotation(t)
  BY <1>13 DEF HearRotation, Heard, Truthful, Sure
<1>14. CASE HearFarewell(t)
  BY <1>1, <1>7, <1>8, <1>9, <1>14 DEF HearFarewell, Heard
<1>15. CASE HearPairing(t)
  <2> DEFINE l == IF k.kind = "scan" THEN k ELSE [k EXCEPT !.rest = Tail(@)]
  <2>1. k.call = "pair" /\ Return(t, l)
    BY <1>15 DEF HearPairing, Heard
  <2>2. k.kind # "scan" => k.rest # <<>>
    BY <2>1 DEF Inv, InHand, Steady
  <2>3. l \in Task /\ l.todo = k.todo /\ l.on = k.on /\ \A c : Says(l.rest, c) => Says(k.rest, c)
    BY <1>1, <1>10, <2>2
  <2>4. CASE pairing' = pairing
    <3>1. Same /\ LatchedIsGone'
      BY <1>1, <1>3, <2>4 DEF Same, Paired, LatchedIsGone
    <3> HIDE DEF l
    <3> QED BY <1>8, <1>9, <2>1, <2>3, <3>1
  <2>5. CASE pairing' # pairing
    <3>1. PICK p, e : /\ p = [token |-> answer[t].token, revoked |-> FALSE,
                              awaiting |-> answer[t].awaiting, sending |-> TRUE]
                      /\ e = answer[t].device /\ answer[t].outcome = "ok"
                      /\ pairing' = [pairing EXCEPT ![e] = p]
      BY <1>15, <2>5 DEF HearPairing
    <3>2. e \in Devices /\ p.token = answer[t].token /\ ~p.revoked /\ Key(e, p.token)
      BY <1>2, <2>1, <3>1 DEF Fits, PairingAnswer, Key
    <3>3. LatchedIsGone'
      BY <1>1, <1>3, <3>1, <3>2 DEF LatchedIsGone
    <3>4. ASSUME NEW f \in Devices, NEW n \in Nat, Paired(f)', pairing'[f].token = n
          PROVE  Key(f, n)
      <4>1. CASE f = e
        BY <1>1, <3>1, <3>2, <3>4, <4>1
      <4>2. CASE f # e
        BY <1>1, <3>1, <3>4, <4>2 DEF Key, Paired
      <4> QED BY <4>1, <4>2
    <3> HIDE DEF l
    <3> QED BY <1>8, <2>1, <2>3, <3>3, <3>4
  <2> QED BY <2>4, <2>5
<1> QED BY <1>11, <1>12, <1>13, <1>14, <1>15

LEMMA LossSure ==
  ASSUME Inv, Truthful, \/ \E r \in requests : LoseRequest(r)
                        \/ \E t \in Tasks : Timeout(t)
                        \/ PhoneDies
  PROVE  Truthful'
<1>1. /\ UNCHANGED <<rowStatus, token, commands, adding, pairing>>
      /\ task \in [Tasks -> Task] /\ answer \in [Tasks -> Answer]
  BY DEF Inv, TypeOK, LoseRequest, Timeout, PhoneDies, rows
<1>2. Firm
  BY <1>1, FirmRows
<1>3. LatchedIsGone'
  BY <1>1 DEF Truthful, LatchedIsGone
<1>4. ASSUME NEW r \in requests, LoseRequest(r) PROVE Truthful'
  BY <1>1, <1>2, <1>4, ReplySure DEF LoseRequest
<1>5. ASSUME NEW ts \in SUBSET Tasks, requests' = Orphaned(ts),
             \A t \in Tasks : task'[t] = task[t] \/ task'[t] = Idle,
             \A t \in Tasks : \/ task'[t] = task[t] /\ answer'[t] = answer[t]
                             \/ answer'[t].outcome \notin {"ok", "unauthorized"}
      PROVE  Truthful'
  <2>1. ASSUME NEW r \in requests'
        PROVE  \E q \in requests : r.kind = q.kind /\ r.device = q.device
                                  /\ (r.kind # "pair" => r.token = q.token)
    <3>1. PICK q \in requests : r = q \/ r = [q EXCEPT !.to = NoTask]
      BY <1>5 DEF Orphaned
    <3>2. q \in Request
      BY DEF Inv, TypeOK
    <3> QED BY <3>1, <3>2 DEF Request, CallRequest, BeatRequest, BatchRequest, PairingRequest
  <2>2. Idle.todo = {} /\ Idle.on = NoSnapshot /\ Idle.call = "none" /\ Idle.on \notin Snapshot
    BY NotPairing DEF Idle
  <2>3. \A d \in Devices, n \in Nat : Key(d, n)' => Key(d, n)
    BY <1>1, <1>5, <2>1, <2>2 DEF Key, Paired
  <2>4. \A d \in Devices, c \in Command : Order(d, c)' => Order(d, c)
    BY <1>1, <1>5, <2>2 DEF Order
  <2>5. /\ \A r \in requests' : r.kind # "rotate"
        /\ \A t \in Tasks : task'[t].call # "rotate"
    BY <1>5, <2>1, <2>2 DEF Truthful, Sure
  <2>6. Sure'
    BY <1>2, <2>3, <2>4, <2>5, SureKept DEF Truthful
  <2>7. Verdict'
    BY <1>2, <1>5, VerdictKept DEF Truthful
  <2> QED BY <1>3, <2>6, <2>7 DEF Truthful
<1>6. ASSUME NEW t \in Tasks, Timeout(t) PROVE Truthful'
  <2>1. /\ requests' = Orphaned({t}) /\ UNCHANGED task
        /\ answer' = [answer EXCEPT ![t] = [outcome |-> "failed"]]
    BY <1>6 DEF Timeout
  <2> QED BY <1>1, <1>5, <2>1
<1>7. CASE PhoneDies
  <2>1. /\ requests' = Orphaned(Tasks) /\ task' = [t \in Tasks |-> Idle]
        /\ answer' = [t \in Tasks |-> NoAnswer]
    BY <1>7 DEF PhoneDies
  <2> QED BY <1>5, <2>1, NoAnswerShape
<1> QED BY <1>4, <1>6, <1>7

LEMMA PhoneSure ==
  ASSUME Inv, Truthful, Phone
  PROVE  Truthful'
<1>1. ASSUME UNCHANGED <<rows, pairing, wire>> PROVE Truthful'
  <2>1. Firm
    BY <1>1, FirmRows DEF rows
  <2>2. Sure'
    BY <1>1, <2>1, SureKept DEF rows, wire, Truthful, Sure, Key, Order, Paired
  <2> QED BY <1>1, <2>2 DEF Truthful, Verdict, Gone, LatchedIsGone, rows, wire
<1>2. ASSUME NEW m \in Messages, Hear(m) PROVE Truthful'
  BY <1>1, <1>2 DEF Hear
<1>3. ASSUME NEW c \in held, Enqueue(c) PROVE Truthful'
  BY <1>1, <1>3 DEF Enqueue
<1>4. ASSUME NEW t \in Tasks, Step(t) PROVE Truthful'
  BY <1>4, StepSure, AnswerSure DEF Step
<1>5. ASSUME NEW t \in Tasks, NEW ds \in {{d} : d \in Devices} \cup {{d \in Devices : Paired(d)}},
             Leave(t, ds)
      PROVE  Truthful'
  BY <1>5, StartSure
<1> QED BY <1>2, <1>3, <1>4, <1>5, StartSure DEF Phone

\* Where nobody rotates tokens, a phone stops for good, on a 401 to any call or
\* on a stop command, only if the server has withdrawn that credential: no lost
\* answer, repeated or overtaken call, restart or second scan latches a pairing
\* whose row still answers.
THEOREM LatchedIsGoneHolds ==
  ASSUME "rotate" \notin Operations
  PROVE  Spec => []LatchedIsGone
<1>1. Init => Truthful
  <2> SUFFICES ASSUME Init PROVE Truthful
    OBVIOUS
  <2>1. /\ \A d \in Devices : ~Paired(d) /\ ~pairing[d].revoked /\ commands[d] = <<>>
        /\ \A t \in Tasks : task[t] = Idle /\ answer[t] = NoAnswer
        /\ requests = {} /\ adding = NoAddition
    BY DEF Init, Paired, NoPairing
  <2>2. \A c : ~Says(<<>>, c)
    BY DEF Says
  <2>3. Idle.todo = {} /\ Idle.call = "none" /\ Idle.on \notin Snapshot
    BY NotPairing DEF Idle
  <2>4. \A d \in Devices, k \in Nat : ~Key(d, k)
    BY <2>1, <2>3, NoAnswerShape DEF Key
  <2>5. \A d \in Devices, c \in Command : ~Order(d, c)
    BY <2>1, <2>2, <2>3 DEF Order
  <2> QED BY <2>1, <2>3, <2>4, <2>5, NoAnswerShape DEF Truthful, Sure, Verdict, LatchedIsGone
<1>2. Inv /\ Truthful /\ [Next]_vars => Truthful'
  <2> SUFFICES ASSUME Inv, Truthful, [Next]_vars PROVE Truthful'
    OBVIOUS
  <2>1. Firm
    BY FirmNext DEF Truthful
  <2>2. CASE UNCHANGED vars
    <3>1. Sure'
      BY <2>1, <2>2, SureKept DEF vars, rows, wire, Truthful, Sure, Key, Order, Paired
    <3> QED BY <2>2, <3>1 DEF vars, rows, wire, Truthful, Verdict, Gone, LatchedIsGone
  <2> QED BY <2>1, <2>2, OperatorSure, PhoneSure, ServeSure, LossSure DEF Next
<1> QED BY <1>1, <1>2, InitType, NextType, PTL DEF Spec, Truthful
=============================================================================
