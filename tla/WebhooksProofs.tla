--------------------------- MODULE WebhooksProofs ---------------------------
(***************************************************************************)
(* Theorems about Webhooks, for every set of deliveries, endpoints and     *)
(* workers and every ladder.                                               *)
(***************************************************************************)
EXTENDS Webhooks, TLAPS

-----------------------------------------------------------------------------
(* Type correctness, in every deployment *)

\* A worker busy with a row has its id and the number of the attempt.
LEMMA JobShape ==
  ASSUME TypeOK, NEW w \in Workers
  PROVE  /\ job[w] = NoJob => job[w].step = "none"
         /\ job[w] # NoJob =>
              /\ job[w] = [step |-> job[w].step, id |-> job[w].id, attempt |-> job[w].attempt]
              /\ job[w].step \in {"refuse", "post", "succeeded", "erred"}
              /\ job[w].id \in Deliveries
              /\ job[w].attempt \in Nat \ {0}
  BY DEF TypeOK, Job, NoJob

LEMMA InitType == Init => TypeOK
  BY WebhooksAssumption DEF Init, TypeOK, Job, WebhooksAssumption

LEMMA NextType ==
  ASSUME TypeOK, [Next]_vars
  PROVE  TypeOK'
<1> USE WebhooksAssumption DEF rows, WebhooksAssumption
<1>1. ASSUME NEW d \in Deliveries, QueueEvent(d) PROVE TypeOK'
  BY <1>1 DEF TypeOK, QueueEvent
<1>2. ASSUME NEW d \in Deliveries, DelayPasses(d) PROVE TypeOK'
  BY <1>2 DEF TypeOK, DelayPasses
<1>3. ASSUME NEW d \in Deliveries, ClaimAges(d) PROVE TypeOK'
  BY <1>3 DEF TypeOK, ClaimAges
<1>4. ASSUME NEW D \in SUBSET Deliveries, Reset(D) PROVE TypeOK'
  BY <1>4 DEF TypeOK, Reset
<1>5. ASSUME NEW w \in Workers, NEW B \in SUBSET Deliveries, Claim(w, B) PROVE TypeOK'
  BY <1>5 DEF TypeOK, Claim
<1>6. ASSUME NEW w \in Workers, NEW d \in Deliveries, Take(w, d) PROVE TypeOK'
  <2>1. job' \in [Workers -> Job]
    BY <1>6 DEF TypeOK, Take, AttemptNumber, Job
  <2> QED BY <1>6, <2>1 DEF TypeOK, Take
<1>7. ASSUME NEW w \in Workers, Refuse(w) PROVE TypeOK'
  <2>1. job' \in [Workers -> Job]
    BY <1>7 DEF TypeOK, Refuse, Done, Job
  <2> QED BY <1>7, <2>1, JobShape DEF TypeOK, Refuse, NoJob
<1>8. ASSUME NEW w \in Workers, Post(w) PROVE TypeOK'
  <2>1. job[w] # NoJob /\ job[w].id \in Deliveries
    BY <1>8, JobShape DEF Post
  <2>2. \A s \in {"succeeded", "erred"} :
           [step |-> s, id |-> job[w].id, attempt |-> job[w].attempt] \in Job
    BY <2>1, JobShape DEF Job
  <2>3. job' \in [Workers -> Job]
    BY <1>8, <2>2 DEF TypeOK, Post
  <2> QED BY <1>8, <2>1, <2>3 DEF TypeOK, Post
<1>9. ASSUME NEW w \in Workers, RecordSuccess(w) PROVE TypeOK'
  <2>1. job' \in [Workers -> Job]
    BY <1>9 DEF TypeOK, RecordSuccess, Done, Job
  <2>2. job[w].id \in Deliveries /\ job[w].attempt \in Nat
    BY <1>9, JobShape DEF RecordSuccess
  <2> QED BY <1>9, <2>1, <2>2 DEF TypeOK, RecordSuccess
<1>10. ASSUME NEW w \in Workers, RecordFailure(w) PROVE TypeOK'
  <2>1. job' \in [Workers -> Job]
    BY <1>10 DEF TypeOK, RecordFailure, Done, Job
  <2>2. job[w].id \in Deliveries /\ job[w].attempt \in Nat \ {0}
    BY <1>10, JobShape DEF RecordFailure
  <2>3. (IF Exhausted(job[w].attempt) THEN 0 ELSE job[w].attempt) \in 0 .. MaxAttempts - 1
    BY <2>2 DEF Exhausted
  <2> QED BY <1>10, <2>1, <2>2, <2>3 DEF TypeOK, RecordFailure
<1>11. ASSUME NEW w \in Workers, Crash(w) PROVE TypeOK'
  BY <1>11 DEF TypeOK, Crash, Done, Job
<1>12. ASSUME NEW e \in Endpoints, ToggleEndpoint(e) PROVE TypeOK'
  BY <1>12 DEF TypeOK, ToggleEndpoint
<1>13. CASE RequeueStuck
  BY <1>13 DEF TypeOK, RequeueStuck
<1>14. CASE UNCHANGED vars
  BY <1>14 DEF vars, TypeOK
<1>15. ASSUME NEW d \in Deliveries, ReplayDelivery(d) PROVE TypeOK'
  BY <1>4, <1>15 DEF ReplayDelivery
<1>16. CASE ReplayAllFailed
  <2>1. {d \in Deliveries : status[d] = "failed"} \in SUBSET Deliveries
    OBVIOUS
  <2> QED BY <1>4, <1>16, <2>1 DEF ReplayAllFailed
<1> QED
  BY <1>1, <1>2, <1>3, <1>5, <1>6, <1>7, <1>8, <1>9, <1>10, <1>11, <1>12, <1>13, <1>14,
     <1>15, <1>16 DEF Next, Work

\* Types hold and no delay is looked up past the end of the ladder, even with
\* slow workers and replays of rows in flight.
THEOREM TypeCorrect == Spec => []TypeOK
<1>1. Init => TypeOK
  BY InitType
<1>2. TypeOK /\ [Next]_vars => TypeOK'
  BY NextType
<1> QED BY <1>1, <1>2, PTL DEF Spec

-----------------------------------------------------------------------------
(* One sender, where live batches end in time and nothing in flight is replayed *)

\* A row some worker has is in flight, and freshly claimed.
HeldIsFresh ==
  \A w \in Workers, d \in Deliveries :
      Holds(w, d) => status[d] = "delivering" /\ d \notin aged

\* The row a worker is busy with is not still to come in its batch.
JobLeftBatch ==
  \A w \in Workers : job[w] # NoJob => job[w].id \notin batch[w]

Ownership == OneSender /\ HeldIsFresh /\ JobLeftBatch

\* Steps after which nobody has a row he did not have.
LEMMA NoNewHolder ==
  ASSUME TypeOK, Ownership,
         \A w \in Workers, d \in Deliveries : Holds(w, d)' => Holds(w, d),
         \A w \in Workers, d \in Deliveries :
             Holds(w, d)' => status'[d] = status[d] /\ (d \in aged' => d \in aged),
         JobLeftBatch'
  PROVE  Ownership'
  BY DEF Ownership, OneSender, HeldIsFresh

\* When a worker writes its row off, it has that row no longer.
LEMMA DoneReleases ==
  ASSUME TypeOK, Ownership, NEW w \in Workers, job[w] # NoJob, Done(w), UNCHANGED batch
  PROVE  /\ \A v \in Workers, d \in Deliveries : Holds(v, d)' => Holds(v, d) /\ d # job[w].id
         /\ JobLeftBatch'
<1>1. \A v \in Workers \ {w} : job'[v] = job[v] /\ batch'[v] = batch[v]
  BY DEF Done, TypeOK
<1>2. job'[w] = NoJob /\ batch'[w] = batch[w]
  BY DEF Done, TypeOK
<1>3. job[w].id \in Deliveries /\ Holds(w, job[w].id) /\ job[w].id \notin batch[w]
  BY JobShape DEF Holds, Ownership, JobLeftBatch
<1>4. ASSUME NEW v \in Workers \ {w}, NEW d \in Deliveries, Holds(v, d)'
      PROVE  Holds(v, d) /\ d # job[w].id
  <2>1. Holds(v, d)
    BY <1>1, <1>4 DEF Holds
  <2> QED BY <1>3, <2>1 DEF Ownership, OneSender
<1>5. ASSUME NEW d \in Deliveries, Holds(w, d)'
      PROVE  Holds(w, d) /\ d # job[w].id
  BY <1>2, <1>3, <1>5 DEF Holds
<1>6. JobLeftBatch'
  BY <1>1, <1>2 DEF Ownership, JobLeftBatch
<1> QED BY <1>4, <1>5, <1>6

LEMMA NextOwnership ==
  ASSUME "slow" \notin Operations, "replay" \notin Operations,
         TypeOK, Ownership, [Next]_vars
  PROVE  Ownership'
<1> USE DEF rows
<1>1. ASSUME NEW d \in Deliveries, QueueEvent(d) PROVE Ownership'
  BY <1>1 DEF QueueEvent, Ownership, OneSender, HeldIsFresh, JobLeftBatch, Holds, TypeOK
<1>2. ASSUME NEW d \in Deliveries, DelayPasses(d) PROVE Ownership'
  BY <1>2 DEF DelayPasses, Ownership, OneSender, HeldIsFresh, JobLeftBatch, Holds
<1>3. ASSUME NEW d \in Deliveries, ClaimAges(d) PROVE Ownership'
  BY <1>3 DEF ClaimAges, Ownership, OneSender, HeldIsFresh, JobLeftBatch, Holds
<1>4. ASSUME NEW w \in Workers, NEW B \in SUBSET Deliveries, Claim(w, B) PROVE Ownership'
  <2>1. \A d \in B : status[d] = "pending"
    BY <1>4 DEF Claim, Claimable
  <2>2. \A v \in Workers, d \in B : ~Holds(v, d)
    BY <2>1 DEF Ownership, HeldIsFresh
  <2>3. \A v \in Workers, d \in Deliveries :
           Holds(v, d)' => Holds(v, d) \/ (v = w /\ d \in B)
    BY <1>4 DEF Claim, Holds, TypeOK
  <2>4. OneSender'
    BY <2>2, <2>3 DEF Ownership, OneSender
  <2>5. HeldIsFresh'
    BY <1>4, <2>3 DEF Claim, Ownership, HeldIsFresh, TypeOK
  <2>6. JobLeftBatch'
    BY <1>4 DEF Claim, Ownership, JobLeftBatch, TypeOK
  <2> QED BY <2>4, <2>5, <2>6 DEF Ownership
<1>5. ASSUME NEW w \in Workers, NEW d \in Deliveries, Take(w, d) PROVE Ownership'
  <2>1. \A v \in Workers, e \in Deliveries : Holds(v, e)' => Holds(v, e)
    BY <1>5 DEF Take, Holds, TypeOK
  <2>2. JobLeftBatch'
    BY <1>5 DEF Take, Ownership, JobLeftBatch, TypeOK
  <2> QED BY <1>5, <2>1, <2>2, NoNewHolder DEF Take
<1>6. ASSUME NEW w \in Workers, Refuse(w) \/ RecordSuccess(w) \/ RecordFailure(w)
      PROVE  Ownership'
  <2>1. job[w] # NoJob /\ Done(w) /\ UNCHANGED <<batch, aged>>
    BY <1>6 DEF Refuse, RecordSuccess, RecordFailure, NoJob
  <2>2. \A v \in Workers, d \in Deliveries : Holds(v, d)' => Holds(v, d) /\ d # job[w].id
    BY <2>1, DoneReleases
  <2>3. \A d \in Deliveries : d # job[w].id => status'[d] = status[d]
    BY <1>6 DEF Refuse, RecordSuccess, RecordFailure, TypeOK
  <2> QED BY <2>1, <2>2, <2>3, DoneReleases, NoNewHolder
<1>7. ASSUME NEW w \in Workers, Post(w) PROVE Ownership'
  <2>1. \A v \in Workers : /\ job'[v] # NoJob <=> job[v] # NoJob
                           /\ job[v] # NoJob => job'[v].id = job[v].id
    <3>1. job[w] # NoJob
      BY <1>7 DEF Post, NoJob
    <3>2. PICK s \in {"succeeded", "erred"} : job' =
             [job EXCEPT ![w] = [step |-> s, id |-> @.id, attempt |-> @.attempt]]
      BY <1>7 DEF Post
    <3>3. job'[w] = [step |-> s, id |-> job[w].id, attempt |-> job[w].attempt]
      BY <3>2 DEF TypeOK
    <3>4. job'[w] # NoJob
      BY <3>3 DEF NoJob
    <3> QED BY <3>1, <3>2, <3>3, <3>4 DEF TypeOK
  <2> QED BY <1>7, <2>1 DEF Post, Ownership, OneSender, HeldIsFresh, JobLeftBatch, Holds
<1>8. ASSUME NEW w \in Workers, Crash(w) PROVE Ownership'
  BY <1>8 DEF Crash, Done, Ownership, OneSender, HeldIsFresh, JobLeftBatch, Holds, TypeOK
<1>9. ASSUME NEW e \in Endpoints, ToggleEndpoint(e) PROVE Ownership'
  BY <1>9 DEF ToggleEndpoint, Ownership, OneSender, HeldIsFresh, JobLeftBatch, Holds
<1>10. CASE RequeueStuck
  BY <1>10 DEF RequeueStuck, Stuck, Ownership, OneSender, HeldIsFresh, JobLeftBatch, Holds
<1>11. CASE ReplayAllFailed
  BY <1>11 DEF ReplayAllFailed, Reset, Ownership, OneSender, HeldIsFresh, JobLeftBatch, Holds
<1>12. CASE UNCHANGED vars
  BY <1>12 DEF vars, Ownership, OneSender, HeldIsFresh, JobLeftBatch, Holds
<1>13. ASSUME NEW d \in Deliveries, ReplayDelivery(d) PROVE FALSE
  BY <1>13 DEF ReplayDelivery
<1> QED
  BY <1>1, <1>2, <1>3, <1>4, <1>5, <1>6, <1>7, <1>8, <1>9, <1>10, <1>11, <1>12, <1>13
  DEF Next, Work

LEMMA OwnershipHolds ==
  ASSUME "slow" \notin Operations, "replay" \notin Operations
  PROVE  Spec => []Ownership
<1>1. Init => Ownership
  BY DEF Init, Ownership, OneSender, HeldIsFresh, JobLeftBatch, Holds
<1>2. TypeOK /\ Ownership /\ [Next]_vars => Ownership'
  BY NextOwnership
<1> QED BY <1>1, <1>2, TypeCorrect, PTL DEF Spec

\* Crashes, requeues, disabled endpoints and replays of what has failed never
\* put one delivery into the hands of two workers.
THEOREM OneSenderHolds ==
  ASSUME "slow" \notin Operations, "replay" \notin Operations
  PROVE  Spec => []OneSender
<1>1. Ownership => OneSender
  BY DEF Ownership
<1> QED BY <1>1, OwnershipHolds, PTL

-----------------------------------------------------------------------------
(* The attempts column and the promise to the merchant                      *)

\* What the locals of a busy worker say of the row, and of the requests sent.
LadderInv ==
  /\ \A w \in Workers :
        job[w].step \in {"post", "succeeded", "erred"} =>
            job[w].attempt = attempts[job[w].id] + 1
  /\ \A w \in Workers :
        job[w].step \in {"succeeded", "erred"} => attempts[job[w].id] + 1 <= posts[job[w].id]
  /\ LadderIsHonest

LEMMA NextLadder ==
  ASSUME "slow" \notin Operations, "replay" \notin Operations,
         TypeOK, Ownership, LadderInv, [Next]_vars
  PROVE  LadderInv'
<1> USE DEF rows
<1> DEFINE Quiet == UNCHANGED <<attempts, posts, crashes, job>>
<1>1. CASE Quiet
  BY <1>1 DEF LadderInv, LadderIsHonest, InFlight
<1>2. ASSUME NEW d \in Deliveries,
             QueueEvent(d) \/ DelayPasses(d) \/ ClaimAges(d)
      PROVE  Quiet
  BY <1>2 DEF QueueEvent, DelayPasses, ClaimAges
<1>3. ASSUME NEW w \in Workers, NEW B \in SUBSET Deliveries, Claim(w, B) PROVE Quiet
  BY <1>3 DEF Claim
<1>4. ASSUME NEW e \in Endpoints, ToggleEndpoint(e) PROVE Quiet
  BY <1>4 DEF ToggleEndpoint
<1>5. CASE RequeueStuck \/ UNCHANGED vars
  BY <1>5, <1>1 DEF RequeueStuck, vars
<1>6. ASSUME NEW w \in Workers, NEW d \in Deliveries, Take(w, d) PROVE LadderInv'
  <2>1. job' = [job EXCEPT ![w] = job'[w]] /\ job[w].step = "none"
    BY <1>6, JobShape DEF Take, TypeOK
  <2>2. job'[w].id = d /\ job'[w].attempt = attempts[d] + 1
        /\ job'[w].step \in {"post", "refuse"}
    BY <1>6 DEF Take, AttemptNumber, TypeOK
  <2>3. \A e \in Deliveries : InFlight(e)' <=> InFlight(e)
    BY <2>1, <2>2 DEF InFlight, TypeOK
  <2>4. UNCHANGED <<attempts, posts, crashes>>
    BY <1>6 DEF Take
  <2> QED BY <2>1, <2>2, <2>3, <2>4 DEF LadderInv, LadderIsHonest, TypeOK
<1>7. ASSUME NEW w \in Workers, Refuse(w) \/ RecordSuccess(w) \/ RecordFailure(w)
      PROVE  LadderInv'
  <2>1. job[w] # NoJob /\ Done(w) /\ UNCHANGED <<batch, posts, crashes>>
    BY <1>7 DEF Refuse, RecordSuccess, RecordFailure, NoJob
  <2>2. PICK d \in Deliveries, n \in Nat : d = job[w].id /\ n = job[w].attempt
    BY <2>1, JobShape
  <2>3. job'[w].step = "none" /\ \A v \in Workers \ {w} : job'[v] = job[v]
    BY <2>1 DEF Done, TypeOK, NoJob
  <2>4. \A v \in Workers \ {w} : job[v].step # "none" => job[v].id \in Deliveries \ {d}
    <3>1. ASSUME NEW v \in Workers \ {w}, job[v] # NoJob PROVE job[v].id \in Deliveries \ {d}
      BY <2>1, <2>2, <3>1, JobShape DEF Ownership, OneSender, Holds
    <3> QED BY <3>1, JobShape
  <2>5. ~InFlight(d)' /\ \A e \in Deliveries \ {d} : InFlight(e)' <=> InFlight(e)
    BY <2>2, <2>3, <2>4 DEF InFlight
  <2>6. \A e \in Deliveries \ {d} : attempts'[e] = attempts[e]
    BY <1>7, <2>2 DEF Refuse, RecordSuccess, RecordFailure, TypeOK
  <2>7. attempts'[d] <= posts[d] /\ posts[d] <= attempts'[d] + crashes
    <3>1. CASE Refuse(w)
      <4>1. ~InFlight(d)
        BY <3>1, <2>2, <2>4 DEF InFlight, Refuse
      <4> QED BY <3>1, <4>1 DEF Refuse, LadderInv, LadderIsHonest, TypeOK
    <3>2. CASE RecordSuccess(w) \/ RecordFailure(w)
      <4>1. attempts'[d] = attempts[d] + 1 /\ attempts[d] + 1 <= posts[d] /\ InFlight(d)
        BY <3>2, <2>2 DEF RecordSuccess, RecordFailure, LadderInv, InFlight, TypeOK
      <4> QED BY <4>1, <2>2 DEF LadderInv, LadderIsHonest, TypeOK
    <3> QED BY <1>7, <3>1, <3>2
  <2>8. \A v \in Workers :
           job'[v].step # "none" => job'[v] = job[v] /\ job[v].id \in Deliveries \ {d}
    BY <2>3, <2>4
  <2>9. LadderIsHonest'
    <3>1. attempts' \in [Deliveries -> Nat]
      BY NextType DEF TypeOK
    <3> QED BY <2>1, <2>5, <2>6, <2>7, <3>1 DEF LadderInv, LadderIsHonest, TypeOK
  <2> QED BY <2>1, <2>6, <2>8, <2>9 DEF LadderInv
<1>8. ASSUME NEW w \in Workers, Post(w) PROVE LadderInv'
  <2>1. PICK d \in Deliveries, n \in Nat : d = job[w].id /\ n = job[w].attempt
    BY <1>8, JobShape DEF Post
  <2>2. job[w].step = "post" /\ posts' = [posts EXCEPT ![d] = @ + 1]
        /\ UNCHANGED <<attempts, crashes>>
    BY <1>8, <2>1 DEF Post
  <2>3. /\ job'[w].step \in {"succeeded", "erred"} /\ job'[w].id = d /\ job'[w].attempt = n
        /\ \A v \in Workers \ {w} : job'[v] = job[v]
    BY <1>8, <2>1 DEF Post, TypeOK
  <2>4. \A v \in Workers \ {w} : job[v].step # "none" => job[v].id \in Deliveries \ {d}
    <3>1. job[w] # NoJob
      BY <2>2 DEF NoJob
    <3>2. ASSUME NEW v \in Workers \ {w}, job[v] # NoJob PROVE job[v].id \in Deliveries \ {d}
      BY <2>1, <3>1, <3>2, JobShape DEF Ownership, OneSender, Holds
    <3> QED BY <3>2, JobShape
  <2>5. InFlight(d)' /\ ~InFlight(d) /\ \A e \in Deliveries \ {d} : InFlight(e)' <=> InFlight(e)
    BY <2>1, <2>2, <2>3, <2>4 DEF InFlight
  <2>6. posts'[d] = posts[d] + 1 /\ \A e \in Deliveries \ {d} : posts'[e] = posts[e]
    BY <2>2 DEF TypeOK
  <2>7. LadderIsHonest'
    BY <2>2, <2>5, <2>6 DEF LadderInv, LadderIsHonest, TypeOK
  <2>8. n = attempts[d] + 1 /\ attempts[d] + 1 <= posts'[d]
    BY <2>1, <2>2, <2>5, <2>6 DEF LadderInv, LadderIsHonest, TypeOK
  <2> QED BY <2>2, <2>3, <2>4, <2>6, <2>7, <2>8 DEF LadderInv
<1>9. ASSUME NEW w \in Workers, Crash(w) PROVE LadderInv'
  <2>1. job'[w].step = "none" /\ \A v \in Workers \ {w} : job'[v] = job[v]
    BY <1>9 DEF Crash, Done, TypeOK, NoJob
  <2>2. UNCHANGED <<attempts, posts>> /\ crashes' = crashes + 1
    BY <1>9 DEF Crash
  <2>3. \A d \in Deliveries : InFlight(d) /\ ~InFlight(d)' => crashes' = crashes + 1
    BY <2>2
  <2>4. \A d \in Deliveries : InFlight(d)' => InFlight(d)
    BY <2>1 DEF InFlight
  <2>5. LadderIsHonest'
    BY <2>2, <2>4 DEF LadderInv, LadderIsHonest, TypeOK
  <2> QED BY <2>1, <2>2, <2>5 DEF LadderInv
<1>10. CASE ReplayAllFailed
  <2>1. \A v \in Workers : job[v].step # "none" =>
           job[v].id \in Deliveries /\ status[job[v].id] = "delivering"
    <3>1. ASSUME NEW v \in Workers, job[v] # NoJob
          PROVE  job[v].id \in Deliveries /\ status[job[v].id] = "delivering"
      BY <3>1, JobShape DEF Ownership, HeldIsFresh, Holds
    <3> QED BY <3>1, JobShape
  <2>2. \A d \in Deliveries : status[d] # "failed" =>
           attempts'[d] = attempts[d] /\ posts'[d] = posts[d]
    BY <1>10 DEF ReplayAllFailed, Reset
  <2>3. \A d \in Deliveries : status[d] = "failed" => attempts'[d] = 0 /\ posts'[d] = 0
    BY <1>10 DEF ReplayAllFailed, Reset
  <2>4. UNCHANGED <<job, crashes>>
    BY <1>10 DEF ReplayAllFailed, Reset
  <2>5. \A d \in Deliveries : InFlight(d)' <=> InFlight(d)
    BY <2>4 DEF InFlight
  <2>6. LadderIsHonest'
    BY <2>2, <2>3, <2>4, <2>5 DEF LadderInv, LadderIsHonest, TypeOK
  <2> QED BY <2>1, <2>2, <2>4, <2>6 DEF LadderInv
<1>11. ASSUME NEW d \in Deliveries, ReplayDelivery(d) PROVE FALSE
  BY <1>11 DEF ReplayDelivery
<1> QED
  BY <1>1, <1>2, <1>3, <1>4, <1>5, <1>6, <1>7, <1>8, <1>9, <1>10, <1>11 DEF Next, Work

\* However workers die, attempts counts the requests that were made: it never
\* runs ahead of them, and falls behind by one for a death and one in flight.
THEOREM LadderIsHonestHolds ==
  ASSUME "slow" \notin Operations, "replay" \notin Operations
  PROVE  Spec => []LadderIsHonest
<1>1. Init => LadderInv
  BY DEF Init, LadderInv, LadderIsHonest, InFlight, NoJob
<1>2. TypeOK /\ Ownership /\ LadderInv /\ [Next]_vars => LadderInv'
  BY NextLadder
<1>3. LadderInv => LadderIsHonest
  BY DEF LadderInv
<1> QED BY <1>1, <1>2, <1>3, TypeCorrect, OwnershipHolds, PTL DEF Spec

-----------------------------------------------------------------------------

LEMMA DeliveryStep ==
  ASSUME "slow" \notin Operations, "replay" \notin Operations,
         TypeOK, Ownership, [Next]_vars
  PROVE  [DeliveryPromise!Next]_([d \in Deliveries |-> Outcome(d)])
<1> USE DEF rows
<1> DEFINE outcome == [d \in Deliveries |-> Outcome(d)]
<1>1. ASSUME UNCHANGED status PROVE UNCHANGED outcome
  BY <1>1 DEF Outcome
<1>2. ASSUME NEW d \in Deliveries, QueueEvent(d) PROVE DeliveryPromise!Queue(d)
  BY <1>2 DEF QueueEvent, DeliveryPromise!Queue, Outcome, TypeOK
<1>3. ASSUME NEW w \in Workers, NEW B \in SUBSET Deliveries, Claim(w, B)
      PROVE  UNCHANGED outcome
  BY <1>3 DEF Claim, Claimable, Outcome, TypeOK
<1>4. CASE RequeueStuck
  <2>1. UNCHANGED outcome
    BY <1>4 DEF RequeueStuck, Stuck, Outcome, TypeOK
  <2> QED BY <2>1
<1>5. ASSUME NEW w \in Workers, Refuse(w) \/ RecordSuccess(w) \/ RecordFailure(w)
      PROVE  \/ \E d \in Deliveries : DeliveryPromise!Settle(d)
             \/ UNCHANGED outcome
  <2>1. PICK d \in Deliveries : d = job[w].id /\ status[d] = "delivering"
    <3>1. job[w] # NoJob
      BY <1>5 DEF Refuse, RecordSuccess, RecordFailure, NoJob
    <3> QED BY <3>1, JobShape DEF Ownership, HeldIsFresh, Holds
  <2>2. PICK s \in {"delivered", "failed", "pending"} : status' = [status EXCEPT ![d] = s]
    <3>1. CASE Refuse(w)
      BY <2>1, <3>1 DEF Refuse
    <3>2. CASE RecordSuccess(w)
      BY <2>1, <3>2 DEF RecordSuccess
    <3>3. CASE RecordFailure(w)
      BY <2>1, <3>3 DEF RecordFailure
    <3> QED BY <1>5, <3>1, <3>2, <3>3
  <2>3. CASE s = "pending"
    BY <2>1, <2>2, <2>3 DEF Outcome, TypeOK
  <2>4. CASE s # "pending"
    <3>1. outcome[d] = "pending"
      BY <2>1 DEF Outcome
    <3>2. outcome' = [outcome EXCEPT ![d] = s]
      BY <2>1, <2>2, <2>4 DEF Outcome, TypeOK
    <3>3. DeliveryPromise!Settle(d)
      BY <2>4, <3>1, <3>2 DEF DeliveryPromise!Settle
    <3> QED BY <3>3
  <2> QED BY <2>3, <2>4
<1>6. CASE ReplayAllFailed
  <2> DEFINE D == {d \in Deliveries : outcome[d] = "failed"}
  <2>1. \A d \in Deliveries : d \in D <=> status[d] = "failed"
    BY DEF Outcome
  <2>2. outcome' = [d \in Deliveries |-> IF d \in D THEN "pending" ELSE outcome[d]]
    BY <1>6, <2>1 DEF ReplayAllFailed, Reset, Outcome
  <2>3. DeliveryPromise!Replay
    BY <2>2 DEF DeliveryPromise!Replay
  <2> QED BY <2>3 DEF DeliveryPromise!Next
<1>7. ASSUME NEW d \in Deliveries, ReplayDelivery(d) PROVE FALSE
  BY <1>7 DEF ReplayDelivery
<1>8. \/ \E d \in Deliveries : QueueEvent(d) \/ ReplayDelivery(d)
      \/ \E w \in Workers, B \in SUBSET Deliveries : Claim(w, B)
      \/ \E w \in Workers : Refuse(w) \/ RecordSuccess(w) \/ RecordFailure(w)
      \/ RequeueStuck
      \/ ReplayAllFailed
      \/ UNCHANGED status
  BY DEF Next, Work, vars, DelayPasses, ClaimAges, Take, Post, Crash, ToggleEndpoint
<1> QED
  BY <1>1, <1>2, <1>3, <1>4, <1>5, <1>6, <1>7, <1>8 DEF DeliveryPromise!Next

\* To the merchant a delivery is one atomic object: pending until a 2xx ends it
\* for good or it is given up, and only a replay revives it then.
THEOREM DeliveryRefinement ==
  ASSUME "slow" \notin Operations, "replay" \notin Operations
  PROVE  Spec => ImplementsDelivery
<1>1. Init => DeliveryPromise!Init
  BY DEF Init, DeliveryPromise!Init, Outcome
<1>2. TypeOK /\ Ownership /\ [Next]_vars
        => [DeliveryPromise!Next]_([d \in Deliveries |-> Outcome(d)])
  BY DeliveryStep
<1> QED
  BY <1>1, <1>2, TypeCorrect, OwnershipHolds, PTL
  DEF Spec, ImplementsDelivery, DeliveryPromise!Spec
=============================================================================
