------------------------------ MODULE Webhooks ------------------------------
(***************************************************************************)
(* Delivery of queued events: workers that claim batches of                *)
(* webhook_deliveries rows and post them, the retry ladder, the            *)
(* maintenance job that requeues rows a dead worker left in flight, and    *)
(* the dashboard's replay buttons.                                         *)
(*                                                                         *)
(* A worker is one call of deliverDueWebhooks.  The claim is one statement *)
(* (skip locked) and so one step; after it the worker holds no lock, and   *)
(* every row is read, posted and written in steps of their own.  The clock *)
(* is abstracted to two events: a rung of the ladder is waited out, and a  *)
(* claim becomes older than the ten minutes of requeueStuckDeliveries.     *)
(***************************************************************************)
EXTENDS Integers, FiniteSets

CONSTANTS
    Deliveries,   \* webhook_deliveries rows
    Endpoints,    \* webhook_endpoints rows
    EndpointOf,   \* the endpoint of a delivery
    Workers,      \* calls of deliverDueWebhooks in progress at one time
    BatchSize,    \* rows claimed at once (25 in the code)
    MaxAttempts,  \* WEBHOOK_MAX_ATTEMPTS (8 in the code)
    MaxCrashes,   \* bound on workers dying
    MaxReplays,   \* bound on replays from the dashboard
    Operations    \* "slow", "toggle", "replay", "replay all"

ASSUME WebhooksAssumption ==
    /\ EndpointOf \in [Deliveries -> Endpoints]
    /\ BatchSize \in Nat \ {0}
    /\ MaxAttempts \in Nat \ {0}
    /\ MaxCrashes \in Nat
    /\ MaxReplays \in Nat

VARIABLES
    status,    \* webhook_deliveries.status, "absent" before queueEvent
    wait,      \* next_attempt_at: 0 once it has passed, n on the n-th delay
    attempts,  \* webhook_deliveries.attempts
    aged,      \* rows whose last_attempt_at is older than the cutoff
    active,    \* endpoints with status active
    batch,     \* ids a worker claimed and has still to look at
    job,       \* the row a worker is busy with, and its locals
    posts,     \* history: requests sent since the row was queued or replayed
    crashes,   \* workers that died so far
    replays    \* replays so far

rows == <<status, wait, attempts, aged>>
vars == <<rows, active, batch, job, posts, crashes, replays>>

NoJob == [step |-> "none"]
Job   == {NoJob} \cup
         [step : {"refuse", "post", "succeeded", "erred"}, id : Deliveries, attempt : Nat \ {0}]

-----------------------------------------------------------------------------
(* Helpers *)

Claimable_Delivering(d) == status[d] \in {"pending", "delivering"} /\ wait[d] = 0
Claimable(d)            == status[d] = "pending" /\ wait[d] = 0

Exhausted_OffByOne(attempt) == attempt > MaxAttempts
Exhausted(attempt)          == attempt >= MaxAttempts

\* The rows requeueStuckDeliveries updates.
Stuck_Fresh(d) == status[d] = "delivering"
Stuck_Tried(d) == status[d] = "delivering" /\ d \in aged /\ attempts[d] > 0
Stuck(d)       == status[d] = "delivering" /\ d \in aged

AttemptNumber_Same(d) == IF attempts[d] = 0 THEN 1 ELSE attempts[d]
AttemptNumber(d)      == attempts[d] + 1

Holds(w, d) == d \in batch[w] \/ (job[w] # NoJob /\ job[w].id = d)

Done(w) == job' = [job EXCEPT ![w] = NoJob]

Init ==
    /\ status = [d \in Deliveries |-> "absent"]
    /\ wait = [d \in Deliveries |-> 0]
    /\ attempts = [d \in Deliveries |-> 0]
    /\ aged = {}
    /\ active = Endpoints
    /\ batch = [w \in Workers |-> {}]
    /\ job = [w \in Workers |-> NoJob]
    /\ posts = [d \in Deliveries |-> 0]
    /\ crashes = 0
    /\ replays = 0

-----------------------------------------------------------------------------

\* queueEvent: a row for each active endpoint, due at once.
QueueEvent(d) ==
    /\ status[d] = "absent"
    /\ EndpointOf[d] \in active
    /\ status' = [status EXCEPT ![d] = "pending"]
    /\ UNCHANGED <<wait, attempts, aged, active, batch, job, posts, crashes, replays>>

\* deliverDueWebhooks claims due rows, as many as the batch takes.
Claim(w, B) ==
    /\ batch[w] = {} /\ job[w] = NoJob
    /\ B # {}
    /\ \A d \in B : Claimable(d)
    /\ Cardinality(B) <= BatchSize
    /\ Cardinality(B) = BatchSize \/ \A d \in Deliveries : Claimable(d) => d \in B
    /\ status' = [d \in Deliveries |-> IF d \in B THEN "delivering" ELSE status[d]]
    /\ aged' = aged \ B
    /\ batch' = [batch EXCEPT ![w] = B]
    /\ UNCHANGED <<wait, attempts, active, job, posts, crashes, replays>>

\* Its loop turns to a claimed row and reads it, without looking at the status.
Take(w, d) ==
    /\ job[w] = NoJob
    /\ d \in batch[w]
    /\ batch' = [batch EXCEPT ![w] = @ \ {d}]
    /\ job' = [job EXCEPT ![w] =
           [step |-> IF EndpointOf[d] \in active THEN "post" ELSE "refuse",
            id |-> d, attempt |-> AttemptNumber(d)]]
    /\ UNCHANGED <<rows, active, posts, crashes, replays>>

\* The endpoint was disabled, or its address is one that may not be posted to.
Refuse(w) ==
    /\ job[w].step \in {"refuse", "post"}
    /\ status' = [status EXCEPT ![job[w].id] = "failed"]
    /\ wait' = IF job[w].step = "post" THEN [wait EXCEPT ![job[w].id] = 0] ELSE wait
    /\ Done(w)
    /\ UNCHANGED <<attempts, aged, active, batch, posts, crashes, replays>>

\* attemptDelivery's request: a 2xx, or another answer, an error, a timeout.
Post(w) ==
    /\ job[w].step = "post"
    /\ \E s \in {"succeeded", "erred"} :
          job' = [job EXCEPT ![w] = [step |-> s, id |-> @.id, attempt |-> @.attempt]]
    /\ posts' = [posts EXCEPT ![job[w].id] = @ + 1]
    /\ UNCHANGED <<rows, active, batch, crashes, replays>>

\* It records a success, by id alone.
RecordSuccess(w) ==
    LET d == job[w].id
    IN  /\ job[w].step = "succeeded"
        /\ status' = [status EXCEPT ![d] = "delivered"]
        /\ attempts' = [attempts EXCEPT ![d] = job[w].attempt]
        /\ wait' = [wait EXCEPT ![d] = 0]
        /\ Done(w)
        /\ UNCHANGED <<aged, active, batch, posts, crashes, replays>>

\* It records a failure, by id alone: the next rung, or the end of the ladder.
RecordFailure(w) ==
    LET d == job[w].id
        n == job[w].attempt
    IN  /\ job[w].step = "erred"
        /\ status' = [status EXCEPT ![d] = IF Exhausted(n) THEN "failed" ELSE "pending"]
        /\ attempts' = [attempts EXCEPT ![d] = n]
        /\ wait' = [wait EXCEPT ![d] = IF Exhausted(n) THEN 0 ELSE n]
        /\ Done(w)
        /\ UNCHANGED <<aged, active, batch, posts, crashes, replays>>

\* A rung of the ladder is waited out.
DelayPasses(d) ==
    /\ status[d] = "pending"
    /\ wait[d] > 0
    /\ wait' = [wait EXCEPT ![d] = 0]
    /\ UNCHANGED <<status, attempts, aged, active, batch, job, posts, crashes, replays>>

\* Ten minutes pass since the claim.  A batch is 25 posts of ten seconds at
\* most, which leaves a live worker time to spare unless it is "slow" between
\* the posts (name resolution has no limit of its own).
ClaimAges(d) ==
    /\ status[d] = "delivering"
    /\ d \notin aged
    /\ "slow" \in Operations \/ \A w \in Workers : ~Holds(w, d)
    /\ aged' = aged \cup {d}
    /\ UNCHANGED <<status, wait, attempts, active, batch, job, posts, crashes, replays>>

\* requeueStuckDeliveries: one update of all the rows it finds.
RequeueStuck ==
    /\ \E d \in Deliveries : Stuck(d)
    /\ status' = [d \in Deliveries |-> IF Stuck(d) THEN "pending" ELSE status[d]]
    /\ wait' = [d \in Deliveries |-> IF Stuck(d) THEN 0 ELSE wait[d]]
    /\ UNCHANGED <<attempts, aged, active, batch, job, posts, crashes, replays>>

\* Both replays put rows back at the foot of the ladder.
Reset(D) ==
    /\ replays < MaxReplays
    /\ replays' = replays + 1
    /\ status' = [d \in Deliveries |-> IF d \in D THEN "pending" ELSE status[d]]
    /\ wait' = [d \in Deliveries |-> IF d \in D THEN 0 ELSE wait[d]]
    /\ attempts' = [d \in Deliveries |-> IF d \in D THEN 0 ELSE attempts[d]]
    /\ posts' = [d \in Deliveries |-> IF d \in D THEN 0 ELSE posts[d]]
    /\ UNCHANGED <<aged, active, batch, job, crashes>>

\* replayDelivery, by id alone: the page offers it for every row that it showed
\* as not delivered, one in flight included.
ReplayDelivery(d) ==
    /\ "replay" \in Operations
    /\ status[d] # "absent"
    /\ Reset({d})

\* replayAllFailed: conditional on the status.
ReplayAllFailed ==
    /\ "replay all" \in Operations
    /\ \E d \in Deliveries : status[d] = "failed"
    /\ Reset({d \in Deliveries : status[d] = "failed"})

\* setEndpointStatus.
ToggleEndpoint(e) ==
    /\ "toggle" \in Operations
    /\ active' = IF e \in active THEN active \ {e} ELSE active \cup {e}
    /\ UNCHANGED <<rows, batch, job, posts, crashes, replays>>

\* A worker dies, or its loop ends in an exception, with its batch unfinished.
Crash(w) ==
    /\ crashes < MaxCrashes
    /\ batch[w] # {} \/ job[w] # NoJob
    /\ crashes' = crashes + 1
    /\ batch' = [batch EXCEPT ![w] = {}]
    /\ Done(w)
    /\ UNCHANGED <<rows, active, posts, replays>>

Work(w) ==
    \/ \E d \in Deliveries : Take(w, d)
    \/ Refuse(w)
    \/ Post(w)
    \/ RecordSuccess(w)
    \/ RecordFailure(w)

Next ==
    \/ \E d \in Deliveries :
          \/ QueueEvent(d)
          \/ DelayPasses(d)
          \/ ClaimAges(d)
          \/ ReplayDelivery(d)
    \/ \E w \in Workers, B \in SUBSET Deliveries : Claim(w, B)
    \/ \E w \in Workers : Work(w) \/ Crash(w)
    \/ \E e \in Endpoints : ToggleEndpoint(e)
    \/ RequeueStuck
    \/ ReplayAllFailed

Spec == Init /\ [][Next]_vars

\* Time passes, workers run on until they die, and the cron entries bring the
\* delivery and maintenance jobs round again.  The claim takes the oldest rows
\* first, so none is passed over for ever (strong fairness per row).
FairSpec ==
    /\ Spec
    /\ \A w \in Workers : WF_vars(Work(w))
    /\ \A d \in Deliveries :
          /\ WF_vars(DelayPasses(d))
          /\ WF_vars(ClaimAges(d))
          /\ SF_vars(\E w \in Workers, B \in SUBSET Deliveries : d \in B /\ Claim(w, B))
    /\ WF_vars(RequeueStuck)

-----------------------------------------------------------------------------
(* Properties *)

\* Types; wait stays on the ladder, so WEBHOOK_RETRY_DELAYS_SECONDS is never
\* indexed past its end.
TypeOK ==
    /\ status \in [Deliveries -> {"absent", "pending", "delivering", "delivered", "failed"}]
    /\ wait \in [Deliveries -> 0 .. MaxAttempts - 1]
    /\ attempts \in [Deliveries -> Nat]
    /\ aged \subseteq Deliveries
    /\ active \subseteq Endpoints
    /\ batch \in [Workers -> SUBSET Deliveries]
    /\ job \in [Workers -> Job]
    /\ posts \in [Deliveries -> Nat]
    /\ crashes \in 0 .. MaxCrashes
    /\ replays \in 0 .. MaxReplays

\* "Two worker processes can run this concurrently without ever sending the
\* same delivery twice": nobody else is at a row a worker is busy with.
OneSender ==
    \A v, w \in Workers, d \in Deliveries : Holds(v, d) /\ Holds(w, d) => v = w

InFlight(d) == \E w \in Workers : job[w].step \in {"succeeded", "erred"} /\ job[w].id = d

\* The attempts column counts the requests a receiver was sent: none it was not
\* sent, and it misses at most the one in flight and one for each death.
LadderIsHonest ==
    \A d \in Deliveries :
        /\ attempts[d] <= posts[d]
        /\ posts[d] <= attempts[d] + crashes + (IF InFlight(d) THEN 1 ELSE 0)

\* In flight is still pending to the merchant.
Outcome(d) == IF status[d] = "delivering" THEN "pending" ELSE status[d]

DeliveryPromise == INSTANCE Delivery WITH outcome <- [d \in Deliveries |-> Outcome(d)]

\* A 2xx ends the retries and only a replay revives a failed delivery, whatever
\* workers crash and whenever the maintenance job runs.
ImplementsDelivery == DeliveryPromise!Spec

\* Nothing is silently dropped: a queued delivery ends delivered or failed.
NothingIsDropped ==
    \A d \in Deliveries :
        status[d] \in {"pending", "delivering"} ~> status[d] \in {"delivered", "failed"}
=============================================================================
