------------------------------ MODULE Notifier ------------------------------
(***************************************************************************)
(* One handset and the devices rows it holds credentials for: pairing by   *)
(* code, approval, heartbeats that drain commands, token rotation, the     *)
(* capture queue and its flush, pausing, revoking and disconnecting.       *)
(*                                                                         *)
(* The phone runs coroutines (tasks) that share the pairings and the queue *)
(* and make one HTTP call at a time.  A call is a request on the wire; the *)
(* server authenticates it in one step and handles it in another, so that  *)
(* anything may happen to the row in between.  A call that times out goes  *)
(* on without anybody waiting for its answer.                              *)
(*                                                                         *)
(* A token is the number of times its row has been given one; 0 is null.   *)
(* One business is modelled.  A notification and an SMS of one payment are *)
(* two messages with one TrxID.                                            *)
(***************************************************************************)
EXTENDS Naturals, Sequences

CONSTANTS
    Devices,       \* devices rows
    Wallets,       \* those with a receiving account; the others report SIMs
    AccountOf,     \* the receiving account of a wallet
    NumberOf,      \* the msisdn of an account; two providers may share one
    Messages,      \* payment messages the handset receives
    About,         \* the account attribution gives a message
    TrxOf,         \* the TrxID parsed from a message, NoTrx if none
    NoTrx,
    Filtered,      \* messages the account's capture settings exclude
    Tasks,         \* coroutines of the app at one time
    NoTask,        \* nobody waits for the answer
    MaxLosses,     \* bound on lost requests, timeouts and dying processes
    MaxRotations,  \* bound on rotations
    Operations     \* "rotate", "command", "revoke", "switch", "leave", "sim", "stranger"

ASSUME NotifierAssumption ==
    /\ Wallets \subseteq Devices
    /\ AccountOf \in [Wallets -> DOMAIN NumberOf]
    /\ About \in [Messages -> DOMAIN NumberOf]
    /\ Messages = DOMAIN TrxOf
    /\ Filtered \subseteq Messages
    /\ NoTask \notin Tasks
    /\ MaxLosses \in Nat
    /\ MaxRotations \in Nat

VARIABLES
    rowStatus,  \* devices.status; "absent" before, "lapsed" a pending row past its expiry
    token,      \* devices.token_hash
    install,    \* devices.install_id: "nobody", "ours" or "other"
    commands,   \* devices.pending_commands
    reported,   \* devices.sending_enabled as the last heartbeat put it, "never" before
    approved,   \* history: handsets an operator has approved
    adding,     \* addAccountFromSim between its read and its writes
    stored,     \* incoming_payments: the messages that have a row
    pairing,    \* Prefs.pairings
    heard,      \* messages the handset has received
    held,       \* captures decided on and not yet in the queue
    queued,     \* captures rows with sent = 0
    sent,       \* captures rows with sent = 1
    task,       \* the app's coroutines
    requests,   \* HTTP requests the server has not answered
    answer,     \* the answer a task has not looked at
    losses      \* requests, answers and processes lost so far

rows  == <<rowStatus, token, install, commands, reported, approved, adding>>
queue == <<heard, held, queued, sent>>
wire  == <<task, requests, answer>>
vars  == <<rows, stored, pairing, queue, wire, losses>>

Handsets  == {"ours", "other"}
RowStatus == {"absent", "pending", "lapsed", "awaiting_approval", "active", "revoked"}
Command   == [type : {"rotate_token", "stop"}]
             \cup [type : {"set_sending"}, enabled : BOOLEAN]
             \cup [type : {"add_account"}, device : Wallets]

Pairing    == [token : Nat, revoked : BOOLEAN, awaiting : BOOLEAN, sending : BOOLEAN]
NoPairing  == [token |-> 0, revoked |-> FALSE, awaiting |-> FALSE, sending |-> FALSE]
NoAddition == [phone |-> "nobody"]

\* A task: the pairings it copied and has still to deal with, the one in hand,
\* the commands it still has to carry out, and the call it waits for.
NoSnapshot == [device |-> "nobody"]
Idle       == [kind |-> "idle", todo |-> {}, group |-> {}, on |-> NoSnapshot,
               rest |-> <<>>, call |-> "none"]
NoAnswer   == [outcome |-> "none"]

-----------------------------------------------------------------------------
(* The server *)

\* createPhoneProvisioning and createDeviceWithProvisioning: a code on a screen.
ShowCode(d) ==
    /\ rowStatus[d] = "absent"
    /\ rowStatus' = [rowStatus EXCEPT ![d] = "pending"]
    /\ UNCHANGED <<token, install, commands, reported, approved, adding, stored, pairing,
                   queue, wire, losses>>

CodeExpires(d) ==
    /\ rowStatus[d] = "pending"
    /\ rowStatus' = [rowStatus EXCEPT ![d] = "lapsed"]
    /\ UNCHANGED <<token, install, commands, reported, approved, adding, stored, pairing,
                   queue, wire, losses>>

Approvable_Unclaimed(d) == rowStatus[d] \in {"pending", "awaiting_approval"}
Approvable(d)           == rowStatus[d] = "awaiting_approval"

ApproveDevice(d) ==
    /\ Approvable(d)
    /\ rowStatus' = [rowStatus EXCEPT ![d] = "active"]
    /\ approved' = approved \cup {install[d]}
    /\ UNCHANGED <<token, install, commands, reported, adding, stored, pairing, queue, wire, losses>>

\* The update both revocations share.
Revoke(d, left) ==
    /\ rowStatus' = [rowStatus EXCEPT ![d] = "revoked"]
    /\ token' = [token EXCEPT ![d] = 0]
    /\ commands' = [commands EXCEPT ![d] = left]
    /\ UNCHANGED <<install, reported, approved, adding>>

RevokeDevice(d) ==
    /\ "revoke" \in Operations
    /\ rowStatus[d] # "absent"
    /\ Revoke(d, <<[type |-> "stop"]>>)
    /\ UNCHANGED <<stored, pairing, queue, wire, losses>>

\* requestSending and requestTokenRotation assign the queue.
QueueCommand(d, c) ==
    /\ rowStatus[d] = "active"
    /\ commands' = [commands EXCEPT ![d] = <<c>>]
    /\ UNCHANGED <<rowStatus, token, install, reported, approved, adding, stored, pairing,
                   queue, wire, losses>>

RequestSending(d, on) ==
    "command" \in Operations /\ QueueCommand(d, [type |-> "set_sending", enabled |-> on])

RequestTokenRotation(d) ==
    /\ "rotate" \in Operations
    /\ token[d] <= MaxRotations
    /\ QueueCommand(d, [type |-> "rotate_token"])

\* The row is read without a lock, its pending commands included.
Addable(w) == \A v \in Wallets : AccountOf[v] = AccountOf[w] => rowStatus[v] = "absent"

AddAccountRead(h, w) ==
    /\ "sim" \in Operations
    /\ adding = NoAddition
    /\ reported[h] # "never"
    /\ Addable(w)
    /\ adding' = [phone |-> h, wallet |-> w, install |-> install[h], before |-> commands[h]]
    /\ UNCHANGED <<rowStatus, token, install, commands, reported, approved, stored, pairing,
                   queue, wire, losses>>

\* A row bound to the handset, and its code appended to the commands as read.
\* createReceivingAccount fails if the account has been created meanwhile.
AddAccountWrite ==
    /\ adding # NoAddition
    /\ IF Addable(adding.wallet)
       THEN /\ rowStatus' = [rowStatus EXCEPT ![adding.wallet] = "pending"]
            /\ install' = [install EXCEPT ![adding.wallet] = adding.install]
            /\ commands' = [commands EXCEPT ![adding.phone] =
                   Append(adding.before, [type |-> "add_account", device |-> adding.wallet])]
       ELSE UNCHANGED <<rowStatus, install, commands>>
    /\ adding' = NoAddition
    /\ UNCHANGED <<token, reported, approved, stored, pairing, queue, wire, losses>>

Advance(r, s) == requests' = (requests \ {r}) \cup {s}

Reply(r, a) ==
    /\ requests' = requests \ {r}
    /\ answer' = IF r.to = NoTask THEN answer ELSE [answer EXCEPT ![r.to] = a]

Refuse(r) == Reply(r, [outcome |-> "unauthorized"])

\* authenticateDevice; a revoked row has no token left to match.
Known(r) == r.token = token[r.device]

Authenticate(r) ==
    /\ r.kind # "pair" /\ r.stage = "sent"
    /\ \/ Known(r) /\ rowStatus[r.device] = "active"
          /\ Advance(r, [r EXCEPT !.stage = "admitted"]) /\ UNCHANGED answer
       \/ Known(r) /\ rowStatus[r.device] = "awaiting_approval"
          /\ Reply(r, [outcome |-> "waiting"])
       \/ ~(Known(r) /\ rowStatus[r.device] \in {"active", "awaiting_approval"})
          /\ Refuse(r)
    /\ UNCHANGED <<rows, stored, pairing, queue, task, losses>>

\* POST /heartbeat: the drain is by id, whatever the row has become.
AnswerBeat(r) ==
    /\ r.kind = "beat" /\ r.stage = "admitted"
    /\ reported' = [reported EXCEPT ![r.device] = IF r.sending THEN "on" ELSE "off"]
    /\ commands' = [commands EXCEPT ![r.device] = <<>>]
    /\ Reply(r, [outcome |-> "ok", commands |-> commands[r.device]])
    /\ UNCHANGED <<rowStatus, token, install, approved, adding, stored, pairing, queue, task, losses>>

Recorded(m) == m \in stored \/ (TrxOf[m] # NoTrx /\ \E n \in stored : TrxOf[n] = TrxOf[m])

\* ingestCaptures: one transaction a message, then one answer for the batch.
Ingest(r, m) ==
    /\ r.kind = "capture" /\ r.stage = "admitted" /\ m \in r.load
    /\ stored' = IF m \in Filtered \/ Recorded(m) THEN stored ELSE stored \cup {m}
    /\ Advance(r, [r EXCEPT !.load = @ \ {m}, !.done = @ \cup {m}])
    /\ UNCHANGED <<rows, pairing, queue, task, answer, losses>>

\* Every message of the batch is named, stored or not.
Results_Stored(r) == r.done \cap stored
Results(r)        == r.done

AnswerBatch(r) ==
    /\ r.kind = "capture" /\ r.stage = "admitted" /\ r.load = {}
    /\ Reply(r, [outcome |-> "ok", acknowledged |-> Results(r)])
    /\ UNCHANGED <<rows, stored, pairing, queue, task, losses>>

CompleteTokenRotation(r) ==
    /\ r.kind = "rotate" /\ r.stage = "admitted"
    /\ IF rowStatus[r.device] = "active" /\ Known(r)
       THEN /\ token' = [token EXCEPT ![r.device] = @ + 1]
            /\ commands' = [commands EXCEPT ![r.device] = <<>>]
            /\ Reply(r, [outcome |-> "ok", token |-> token[r.device] + 1])
       ELSE Refuse(r) /\ UNCHANGED <<token, commands>>
    /\ UNCHANGED <<rowStatus, install, reported, approved, adding, stored, pairing, queue, task, losses>>

RevokeSelf(r) ==
    /\ r.kind = "revoke" /\ r.stage = "admitted"
    /\ Revoke(r.device, <<>>)
    /\ Reply(r, [outcome |-> "ok"])
    /\ UNCHANGED <<stored, pairing, queue, task, losses>>

\* claimProvisioning reads the row, and whether its handset is approved already ...
Inherits_Unbound(r) == \E d \in Devices : install[d] = r.install /\ rowStatus[d] = "active"
Inherits(r) ==
    /\ install[r.device] = r.install
    /\ \E d \in Devices : install[d] = r.install /\ rowStatus[d] = "active"

ClaimRead(r) ==
    /\ r.kind = "pair" /\ r.stage = "sent"
    /\ IF rowStatus[r.device] = "pending"
       THEN Advance(r, [r EXCEPT !.stage = "admitted", !.inherits = Inherits(r)]) /\ UNCHANGED answer
       ELSE Refuse(r)
    /\ UNCHANGED <<rows, stored, pairing, queue, task, losses>>

\* ... and its transaction burns the code if the row is still pending, and
\* retires what the handset left waiting.
Burnable(d) == rowStatus[d] \in {"pending", "lapsed"}

Retired(r, d) ==
    /\ d \in Devices \ (Wallets \cup {r.device})
    /\ rowStatus[d] = "awaiting_approval"
    /\ install[d] = r.install

ClaimWrite(r) ==
    /\ r.kind = "pair" /\ r.stage = "admitted"
    /\ IF Burnable(r.device)
       THEN /\ rowStatus' = [d \in Devices |->
                   IF d = r.device THEN (IF r.inherits THEN "active" ELSE "awaiting_approval")
                   ELSE IF Retired(r, d) THEN "revoked" ELSE rowStatus[d]]
            /\ token' = [d \in Devices |->
                   IF d = r.device THEN token[d] + 1 ELSE IF Retired(r, d) THEN 0 ELSE token[d]]
            /\ install' = [install EXCEPT ![r.device] = r.install]
            /\ Reply(r, [outcome |-> "ok", device |-> r.device,
                         token |-> token[r.device] + 1, awaiting |-> ~r.inherits])
       ELSE Refuse(r) /\ UNCHANGED <<rowStatus, token, install>>
    /\ UNCHANGED <<commands, reported, approved, adding, stored, pairing, queue, task, losses>>

\* Somebody else's phone scans a code: one on a screen, or one bound to it.
StrangerScans(d) ==
    /\ "stranger" \in Operations
    /\ rowStatus[d] = "pending" /\ install[d] \in {"nobody", "other"}
    /\ requests' = requests \cup {[kind |-> "pair", to |-> NoTask, device |-> d,
                                   install |-> "other", inherits |-> FALSE, stage |-> "sent"]}
    /\ UNCHANGED <<rows, stored, pairing, queue, task, answer, losses>>

Serve(r) ==
    \/ Authenticate(r) \/ AnswerBeat(r) \/ AnswerBatch(r) \/ CompleteTokenRotation(r)
    \/ RevokeSelf(r) \/ ClaimRead(r) \/ ClaimWrite(r)
    \/ r.kind = "capture" /\ \E m \in r.load : Ingest(r, m)

-----------------------------------------------------------------------------
(* The phone: Prefs and the queue *)

Paired(d)    == pairing[d] # NoPairing
Live(d)      == Paired(d) /\ ~pairing[d].revoked /\ ~pairing[d].awaiting
Capturing(d) == d \in Wallets /\ Live(d) /\ pairing[d].sending
Watches(w)   == \E v \in Wallets : Paired(v) /\ NumberOf[AccountOf[v]] = NumberOf[AccountOf[w]]

\* beatingPairings and capturingPairings.
Beating_Live == {d \in Devices : Live(d)}
Beating_On   == {d \in Devices : Paired(d) /\ pairing[d].sending /\ ~pairing[d].revoked}
Beating      == {d \in Devices : Paired(d) /\ ~pairing[d].revoked}
Flushing     == {d \in Wallets : Capturing(d)}

\* updatePairing leaves a pairing that is gone alone.
With(d, p) == IF Paired(d) THEN [pairing EXCEPT ![d] = p] ELSE pairing
Latch(d)   == With(d, [pairing[d] EXCEPT !.revoked = TRUE])

RowsOf(ds, captures) == {c \in captures : c[2] \in ds}

\* deleteFor, for several pairings.
Clear(ds) ==
    /\ queued' = queued \ RowsOf(ds, queued)
    /\ sent' = sent \ RowsOf(ds, sent)
    /\ UNCHANGED <<heard, held>>

\* A message arrives, and which pairings it belongs to is decided then.
Hear(m) ==
    /\ m \notin heard
    /\ heard' = heard \cup {m}
    /\ held' = held \cup {<<m, w>> : w \in {v \in Flushing : AccountOf[v] = About[m]}}
    /\ UNCHANGED <<rows, stored, pairing, queued, sent, wire, losses>>

Enqueue(c) ==
    /\ c \in held
    /\ held' = held \ {c}
    /\ queued' = queued \cup {c}
    /\ UNCHANGED <<rows, stored, pairing, heard, sent, wire, losses>>

-----------------------------------------------------------------------------
(* The phone: what starts a task *)

Snapshots(ds) ==
    {[device |-> d, token |-> pairing[d].token, sending |-> pairing[d].sending] : d \in ds}

Start(t, k) ==
    /\ task[t] = Idle
    /\ task' = [task EXCEPT ![t] = k]

\* HeartbeatWorker.beatAll and CaptureRepository.flush copy the list they walk.
BeginBeats(t) ==
    /\ Beating # {}
    /\ Start(t, [Idle EXCEPT !.kind = "beat", !.todo = Snapshots(Beating)])
    /\ UNCHANGED <<rows, stored, pairing, queue, requests, answer, losses>>

BeginFlush(t) ==
    /\ Flushing # {}
    /\ Start(t, [Idle EXCEPT !.kind = "flush", !.todo = Snapshots(Flushing)])
    /\ UNCHANGED <<rows, stored, pairing, queue, requests, answer, losses>>

\* setBusinessEnabled: the flags now, the backlog and the beats in a coroutine.
SwitchSending(t, on) ==
    /\ "switch" \in Operations
    /\ \E d \in Devices : Paired(d)
    /\ pairing' = [d \in Devices |-> IF Paired(d) THEN [pairing[d] EXCEPT !.sending = on] ELSE pairing[d]]
    /\ Start(t, [Idle EXCEPT !.kind = "clear",
                             !.group = IF on THEN {} ELSE {d \in Devices : Paired(d)}])
    /\ UNCHANGED <<rows, stored, queue, requests, answer, losses>>

\* disconnectBusiness, or removePairing for one number.
Leave(t, ds) ==
    /\ "leave" \in Operations
    /\ \A d \in ds : Paired(d)
    /\ Start(t, [Idle EXCEPT !.kind = "leave", !.group = ds, !.todo = Snapshots(ds \cap Beating)])
    /\ UNCHANGED <<rows, stored, pairing, queue, requests, answer, losses>>

PairRequest(t, d) ==
    [kind |-> "pair", to |-> t, device |-> d, install |-> "ours", inherits |-> FALSE, stage |-> "sent"]

\* provision, on a code shown on a screen.
Scan(t, d) ==
    /\ rowStatus[d] \in {"pending", "lapsed"} /\ install[d] = "nobody"
    /\ Start(t, [Idle EXCEPT !.kind = "scan", !.call = "pair"])
    /\ requests' = requests \cup {PairRequest(t, d)}
    /\ UNCHANGED <<rows, stored, pairing, queue, answer, losses>>

-----------------------------------------------------------------------------
(* The phone: the steps of a task *)

\* What is left of a task; nothing, once its list and its commands are done.
Rest(k) ==
    IF k.rest # <<>> THEN [k EXCEPT !.call = "none"]
    ELSE IF k.todo = {} /\ k.kind # "leave" THEN Idle
    ELSE [k EXCEPT !.call = "none", !.on = NoSnapshot]

Between(t) == task[t].call = "none" /\ task[t].rest = <<>>

Send(t, s, call, r) ==
    /\ task' = [task EXCEPT ![t] = [task[t] EXCEPT !.todo = @ \ {s}, !.on = s, !.call = call]]
    /\ requests' = requests \cup {r}
    /\ UNCHANGED <<rows, stored, pairing, queue, answer, losses>>

SendBeat(t) ==
    /\ task[t].kind = "beat" /\ Between(t)
    /\ \E s \in task[t].todo :
           Send(t, s, "beat", [kind |-> "beat", to |-> t, device |-> s.device, token |-> s.token,
                               sending |-> s.sending, stage |-> "sent"])

Pending(d) == {c[1] : c \in RowsOf({d}, queued)}

SendBatch(t) ==
    /\ task[t].kind = "flush" /\ Between(t)
    /\ \E s \in task[t].todo :
           IF Pending(s.device) = {}
           THEN /\ task' = [task EXCEPT ![t] = Rest([task[t] EXCEPT !.todo = @ \ {s}])]
                /\ UNCHANGED <<rows, stored, pairing, queue, requests, answer, losses>>
           ELSE Send(t, s, "capture",
                     [kind |-> "capture", to |-> t, device |-> s.device, token |-> s.token,
                      load |-> Pending(s.device), done |-> {}, stage |-> "sent"])

SendFarewell(t) ==
    /\ task[t].kind = "leave" /\ Between(t)
    /\ \E s \in task[t].todo :
           Send(t, s, "revoke", [kind |-> "revoke", to |-> t, device |-> s.device,
                                 token |-> s.token, stage |-> "sent"])

Forget(t) ==
    /\ task[t].kind = "leave" /\ Between(t) /\ task[t].todo = {}
    /\ Clear(task[t].group)
    /\ pairing' = [d \in Devices |-> IF d \in task[t].group THEN NoPairing ELSE pairing[d]]
    /\ task' = [task EXCEPT ![t] = Idle]
    /\ UNCHANGED <<rows, stored, requests, answer, losses>>

\* The coroutine of setBusinessEnabled; then it beats what is live.
ClearBacklog(t) ==
    /\ task[t].kind = "clear" /\ Between(t)
    /\ Clear(task[t].group)
    /\ task' = [task EXCEPT ![t] = Rest([Idle EXCEPT !.kind = "beat",
                    !.todo = Snapshots({d \in Devices : Live(d)})])]
    /\ UNCHANGED <<rows, stored, pairing, requests, answer, losses>>

\* One command of the last beat.
SetSending(t, d, on) ==
    /\ pairing' = With(d, [pairing[d] EXCEPT !.sending = on])
    /\ IF on THEN UNCHANGED queue ELSE Clear({d})
    /\ task' = [task EXCEPT ![t] = Rest([task[t] EXCEPT !.rest = Tail(@)])]
    /\ UNCHANGED requests

CarryOut(t) ==
    /\ task[t].call = "none" /\ task[t].rest # <<>>
    /\ LET c == Head(task[t].rest)
           s == task[t].on IN
       \/ c.type = "rotate_token"
          /\ task' = [task EXCEPT ![t].call = "rotate"]
          /\ requests' = requests \cup {[kind |-> "rotate", to |-> t, device |-> s.device,
                                         token |-> s.token, stage |-> "sent"]}
          /\ UNCHANGED <<pairing, queue>>
       \/ c.type = "set_sending" /\ SetSending(t, s.device, c.enabled)
       \/ c.type = "stop"
          /\ pairing' = Latch(s.device)
          /\ task' = [task EXCEPT ![t] = Rest([task[t] EXCEPT !.rest = Tail(@)])]
          /\ UNCHANGED <<requests, queue>>
       \/ c.type = "add_account"
          /\ task' = [task EXCEPT ![t].call = "pair"]
          /\ requests' = requests \cup {PairRequest(t, c.device)}
          /\ UNCHANGED <<pairing, queue>>
    /\ UNCHANGED <<rows, stored, answer, losses>>

\* A 401 latches the pairing, whichever authenticated call it answers.
Refused_Failed(t) == answer[t].outcome \in {"unauthorized", "failed"}
Refused(t)        == answer[t].outcome = "unauthorized"

LatchedBy_Batch(t) ==
    IF Refused(t) /\ task[t].call = "capture"
    THEN Latch(task[t].on.device) ELSE pairing
LatchedBy(t) == IF Refused(t) THEN Latch(task[t].on.device) ELSE pairing

Heard(t, call) == task[t].call = call /\ answer[t] # NoAnswer

Return(t, k) ==
    /\ task' = [task EXCEPT ![t] = Rest(k)]
    /\ answer' = [answer EXCEPT ![t] = NoAnswer]
    /\ UNCHANGED <<rows, stored, requests, losses>>

HearBeat(t) ==
    /\ Heard(t, "beat")
    /\ LET d == task[t].on.device IN
       \/ /\ answer[t].outcome = "ok"
          /\ pairing' = With(d, [pairing[d] EXCEPT !.awaiting = FALSE])
          /\ Return(t, [task[t] EXCEPT !.rest = answer[t].commands])
       \/ /\ answer[t].outcome = "waiting"
          /\ pairing' = With(d, [pairing[d] EXCEPT !.awaiting = TRUE])
          /\ Return(t, task[t])
       \/ /\ answer[t].outcome \in {"unauthorized", "failed"}
          /\ pairing' = LatchedBy(t)
          /\ Return(t, task[t])
    /\ UNCHANGED queue

\* markSent: the rows the server named that are still there.
Acknowledged_All(t) == RowsOf({task[t].on.device}, queued)
Acknowledged(t) ==
    IF answer[t].outcome = "ok"
    THEN {c \in RowsOf({task[t].on.device}, queued) : c[1] \in answer[t].acknowledged}
    ELSE {}

HearBatch(t) ==
    /\ Heard(t, "capture")
    /\ queued' = queued \ Acknowledged(t)
    /\ sent' = sent \cup Acknowledged(t)
    /\ pairing' = LatchedBy(t)
    /\ Return(t, task[t])
    /\ UNCHANGED <<heard, held>>

HearRotation(t) ==
    /\ Heard(t, "rotate")
    /\ LET d == task[t].on.device IN
       pairing' = IF answer[t].outcome = "ok"
                  THEN With(d, [pairing[d] EXCEPT !.token = answer[t].token])
                  ELSE LatchedBy(t)
    /\ Return(t, [task[t] EXCEPT !.rest = Tail(@)])
    /\ UNCHANGED queue

HearFarewell(t) ==
    /\ Heard(t, "revoke")
    /\ pairing' = LatchedBy(t)
    /\ Return(t, task[t])
    /\ UNCHANGED queue

\* provision and claimAddedAccount: a number already watched is not paired twice.
Wanted_First(d) == \A e \in Devices : ~Paired(e)
Wanted(d)       == d \in Wallets => ~Watches(d)

HearPairing(t) ==
    /\ Heard(t, "pair")
    /\ pairing' = IF answer[t].outcome = "ok" /\ Wanted(answer[t].device)
                  THEN [pairing EXCEPT ![answer[t].device] =
                           [token |-> answer[t].token, revoked |-> FALSE,
                            awaiting |-> answer[t].awaiting, sending |-> TRUE]]
                  ELSE pairing
    /\ Return(t, IF task[t].kind = "scan" THEN task[t] ELSE [task[t] EXCEPT !.rest = Tail(@)])
    /\ UNCHANGED queue

Step(t) ==
    \/ SendBeat(t) \/ SendBatch(t) \/ SendFarewell(t) \/ Forget(t) \/ ClearBacklog(t) \/ CarryOut(t)
    \/ HearBeat(t) \/ HearBatch(t) \/ HearRotation(t) \/ HearFarewell(t) \/ HearPairing(t)

-----------------------------------------------------------------------------
(* Losses *)

Lose == losses < MaxLosses /\ losses' = losses + 1

\* The connection or the server goes, before or within the handling.
LoseRequest(r) ==
    /\ Lose
    /\ Reply(r, [outcome |-> "failed"])
    /\ UNCHANGED <<rows, stored, pairing, queue, task>>

Orphaned(ts) == {IF r.to \in ts THEN [r EXCEPT !.to = NoTask] ELSE r : r \in requests}

\* The phone gives up; the server may still be at it, or its answer is lost.
Timeout(t) ==
    /\ Lose
    /\ task[t].call # "none" /\ answer[t].outcome # "failed"
    /\ requests' = Orphaned({t})
    /\ answer' = [answer EXCEPT ![t] = [outcome |-> "failed"]]
    /\ UNCHANGED <<rows, stored, pairing, queue, task>>

\* What is in Prefs and in Room survives.
PhoneDies ==
    /\ Lose
    /\ held' = {}
    /\ task' = [t \in Tasks |-> Idle]
    /\ requests' = Orphaned(Tasks)
    /\ answer' = [t \in Tasks |-> NoAnswer]
    /\ UNCHANGED <<rows, stored, pairing, heard, queued, sent>>

-----------------------------------------------------------------------------
Init ==
    /\ rowStatus = [d \in Devices |-> "absent"]
    /\ token = [d \in Devices |-> 0]
    /\ install = [d \in Devices |-> "nobody"]
    /\ commands = [d \in Devices |-> <<>>]
    /\ reported = [d \in Devices |-> "never"]
    /\ approved = {}
    /\ adding = NoAddition
    /\ stored = {}
    /\ pairing = [d \in Devices |-> NoPairing]
    /\ heard = {} /\ held = {} /\ queued = {} /\ sent = {}
    /\ task = [t \in Tasks |-> Idle]
    /\ requests = {}
    /\ answer = [t \in Tasks |-> NoAnswer]
    /\ losses = 0

Operator ==
    \/ \E d \in Devices :
           \/ ShowCode(d) \/ CodeExpires(d) \/ ApproveDevice(d) \/ RevokeDevice(d)
           \/ RequestTokenRotation(d) \/ \E on \in BOOLEAN : RequestSending(d, on)
           \/ StrangerScans(d)
           \/ \E w \in Wallets : AddAccountRead(d, w)
    \/ AddAccountWrite

Phone ==
    \/ \E m \in Messages : Hear(m)
    \/ \E c \in held : Enqueue(c)
    \/ \E t \in Tasks :
           \/ BeginBeats(t) \/ BeginFlush(t) \/ Step(t)
           \/ \E on \in BOOLEAN : SwitchSending(t, on)
           \/ \E ds \in {{d} : d \in Devices} \cup {{d \in Devices : Paired(d)}} :
                  ds # {} /\ Leave(t, ds)
           \/ \E d \in Devices : Scan(t, d)

Next ==
    \/ Operator
    \/ Phone
    \/ \E r \in requests : Serve(r) \/ LoseRequest(r)
    \/ \E t \in Tasks : Timeout(t)
    \/ PhoneDies

Spec == Init /\ [][Next]_vars

\* The service's loop and WorkManager come round for ever, a coroutine that is
\* running goes on, and the server handles what reaches it.
FairSpec ==
    /\ Spec
    /\ \A t \in Tasks : WF_vars(Step(t)) /\ WF_vars(\E r \in requests : r.to = t /\ Serve(r))
    /\ SF_vars(\E t \in Tasks : BeginBeats(t))
    /\ SF_vars(\E t \in Tasks : BeginFlush(t))

-----------------------------------------------------------------------------
(* Properties *)

Snapshot == [device : Devices, token : Nat, sending : BOOLEAN]
Task ==
    [kind : {"idle", "beat", "flush", "leave", "scan", "clear"}, todo : SUBSET Snapshot,
     group : SUBSET Devices, on : Snapshot \cup {NoSnapshot}, rest : Seq(Command),
     call : {"none", "beat", "capture", "rotate", "revoke", "pair"}]

Refusal        == [outcome : {"unauthorized", "waiting", "failed"}]
BeatAnswer     == [outcome : {"ok"}, commands : Seq(Command)]
BatchAnswer    == [outcome : {"ok"}, acknowledged : SUBSET Messages]
RotationAnswer == [outcome : {"ok"}, token : Nat]
PairingAnswer  == [outcome : {"ok"}, device : Devices, token : Nat, awaiting : BOOLEAN]
Farewell       == [outcome : {"ok"}]
Answer         == {NoAnswer} \cup Refusal \cup BeatAnswer \cup BatchAnswer \cup RotationAnswer
                  \cup PairingAnswer \cup Farewell

Waiter         == Tasks \cup {NoTask}
Stage          == {"sent", "admitted"}
CallRequest    == [kind : {"rotate", "revoke"}, to : Waiter, device : Devices, token : Nat,
                   stage : Stage]
BeatRequest    == [kind : {"beat"}, to : Waiter, device : Devices, token : Nat,
                   sending : BOOLEAN, stage : Stage]
BatchRequest   == [kind : {"capture"}, to : Waiter, device : Devices, token : Nat,
                   load : SUBSET Messages, done : SUBSET Messages, stage : Stage]
PairingRequest == [kind : {"pair"}, to : Waiter, device : Devices, install : Handsets,
                   inherits : BOOLEAN, stage : Stage]
Request        == CallRequest \cup BeatRequest \cup BatchRequest \cup PairingRequest

TypeOK ==
    /\ rowStatus \in [Devices -> RowStatus]
    /\ token \in [Devices -> Nat]
    /\ install \in [Devices -> Handsets \cup {"nobody"}]
    /\ commands \in [Devices -> Seq(Command)]
    /\ reported \in [Devices -> {"never", "on", "off"}]
    /\ approved \subseteq Handsets
    /\ adding \in {NoAddition} \cup [phone : Devices, wallet : Wallets,
                                     install : Handsets \cup {"nobody"}, before : Seq(Command)]
    /\ stored \subseteq Messages
    /\ pairing \in [Devices -> Pairing]
    /\ heard \subseteq Messages
    /\ held \cup queued \cup sent \subseteq Messages \X Wallets
    /\ task \in [Tasks -> Task]
    /\ requests \subseteq Request
    /\ answer \in [Tasks -> Answer]
    /\ losses \in 0 .. MaxLosses

\* A capture the phone has struck off its queue is in the merchant's feed, in
\* its own row or in the one its TrxID already had, or is excluded by the
\* account's settings: whatever answers were lost, requests repeated and
\* captures added while a batch was under way (CaptureRepository.flushOne,
\* ingestCaptures).
AcknowledgedIsStored == \A c \in sent : c[1] \in Filtered \/ Recorded(c[1])

\* The phone gives a credential up for good, on a 401 or a stop, only when the
\* server has withdrawn it.  Where nothing rotates: RotationLocksNobodyOut in
\* NotifierClaims is about those that do (JommaApi.execute).
LatchedIsGone == \A d \in Devices : pairing[d].revoked => rowStatus[d] = "revoked"

\* What the phone will learn from an answer under way.
OnItsWay(d) ==
    \E t \in Tasks :
        /\ answer[t].outcome = "ok"
        /\ \/ task[t].call = "pair" /\ answer[t].device = d
           \/ task[t].call = "rotate" /\ task[t].on.device = d

\* Every row that is active for our handset has its token on the phone, or in
\* an answer the phone is about to read: nothing looks connected and is not
\* (ClaimWrite, CompleteTokenRotation, HearPairing).  Without lost answers.
ActiveIsHeld ==
    \A d \in Devices :
        rowStatus[d] = "active" /\ install[d] = "ours" =>
            OnItsWay(d) \/ (Paired(d) /\ pairing[d].token = token[d])

\* The pairing protocol keeps what Credential promises (devices.ts).
Trust(d) ==
    CASE rowStatus[d] = "absent" -> "none"
      [] rowStatus[d] \in {"pending", "lapsed"} -> "offered"
      [] rowStatus[d] = "awaiting_approval" -> "claimed"
      [] rowStatus[d] = "active" -> "trusted"
      [] rowStatus[d] = "revoked" -> "dead"
Holder(d) == IF rowStatus[d] = "revoked" THEN "nobody" ELSE install[d]

Contract ==
    INSTANCE Credential WITH
        Credentials <- Devices,
        Nobody <- "nobody",
        state <- [d \in Devices |-> Trust(d)],
        holder <- [d \in Devices |-> Holder(d)],
        vouched <- approved
ImplementsCredential == Contract!Spec

\* No capture waits for ever on a phone that is reporting for its number
\* (FlushWorker: an unsent capture is money the server does not know about).
NothingSlips ==
    \A m \in Messages, w \in Wallets : []<>~(<<m, w>> \in queued /\ Capturing(w))

\* A phone that waits finds out that it was approved, and one that was revoked
\* stops, however its calls were lost (HeartbeatWorker.beatAll).
Waits(d)        == rowStatus[d] = "active" /\ Paired(d) /\ pairing[d].awaiting
ApprovalArrives == \A d \in Devices : []<>~Waits(d)
RevokedStops    == \A d \in Devices : []<>~(rowStatus[d] = "revoked" /\ Live(d))

\* A phone that stays paused is shown as paused (devices.sendingEnabled) from
\* some point on, whatever beat that read the switch before it comes in late.
PauseIsReported ==
    \A d \in Devices :
        <>[](Live(d) /\ ~pairing[d].sending /\ rowStatus[d] = "active") => <>[](reported[d] = "off")
=============================================================================
