# A TLA+ verification project for Jomma

Jomma confirms mobile-money payments for shops in Bangladesh. A phone (or a
bridge to Google Messages) forwards the provider's messages to a web app, the
web app matches the money to payment intents the shop created, and tells the
shop by webhook. There is no provider API to ask: whatever the database says
about money is what the merchant acts on, so this project is about what that
database can be made to say when requests, sweeps, admins, crashes and retries
interleave.

## 1. Inventory

The repository is a monorepo: `apps/web` (Next.js, all decisions),
`apps/worker` (pg-boss timers that call the web app), `apps/android` (the
notifier), `apps/bridge` (the Messages bridge), `packages/shared`,
`packages/sdk`.

| Component | Where | State | Operations | What makes it correct |
|---|---|---|---|---|
| Settlement | `lib/services/apply.ts` | `order_payments`; status and received total of an intent; status of a payment | applyPayment, reversePayment | a TrxID is spent once; the total is the sum of the live rows; the status follows the total |
| Intent lifecycle | `services/intents.ts`, `refs.ts` | `payment_intents`, `payment_refs`, `idempotency_keys` | create, cancel, extend, expire (lazily and by sweep) | a closed intent takes no money by its code; an overdue one closes; a key creates one intent |
| Matcher | `services/match-runner.ts`, `lib/matching/` | `match_attempts` | runMatcher, retryOrphans; pure scoring | never guesses between two intents; a payment its intent claims is applied |
| Submissions | `services/submissions.ts` | `payment_submissions` | resolveSubmission and its nine outcomes | never credits a stranger's money; five an hour |
| Review queue | `services/queue.ts` | payment status | approve, reject, restore | applied money never looks unapplied |
| Checkout switch | `services/checkout.ts` | the intent's account | switchCheckoutMethod | received money pins the account |
| Capture ingestion | `services/capture.ts` | `incoming_payments` | ingestCaptures | one row per TrxID, whatever the phone resends; nothing lost |
| Webhooks | `jobs/webhooks.ts`, `services/events.ts`, `app-admin.ts` | `webhook_deliveries`, `webhook_endpoints` | queueEvent, deliverDueWebhooks, requeueStuckDeliveries, replays, disable | nothing dropped, a 2xx is final, one sender at a time |
| Jobs and worker | `lib/jobs/index.ts`, `apps/worker` | `job_runs` | runJobs by group | one failing job does not stop another |
| Health | `jobs/health.ts`, `services/scheduler-health.ts` | `notifier_events`, account status | four checks | one alert a gap; a silent phone stops routing |
| Balance continuity | `services/balance.ts` | the account's balance anchor | checkBalanceContinuity | money that arrived unseen is noticed |
| Accounts | `services/accounts.ts`, `account-admin.ts` | `receiving_accounts` | routing, activate, disable | limits hold; only healthy numbers are shown |
| Devices | `services/devices.ts`, `sim-accounts.ts`, `api/device/v1` | `devices`: status, token, `pending_commands` | provision, claim, approve, revoke, rotate, command, heartbeat | a code is redeemed once; no phone without approval; a rotation locks nobody out |
| Updater | `update/Updater.kt`, `UpdateCheckWorker.kt` | the cache of downloads, preferences | check, download, install, delete | a release that may be downloaded arrives whole |
| Refunds, handoff, pay page | `services/refunds.ts`, `handoff.ts`, `pay-page.ts` | `refund_requests`, `handoff_token` | request, issue, revoke | one open request; a revoked token stays dead |
| Businesses | `services/businesses.ts` | businesses, memberships, invitations | create, approve, suspend, invite | an owner always remains |
| Setup | `services/onboarding.ts`, `app/setup`, `components/setup` | `instance_setup`; the page's last answer, its code | pair, approve, choose a SIM, enable, create app and key | the page shows what it waits for |
| Rate limiter | `lib/api/ratelimit.ts` | in-memory windows | consume | no more than the rule in a window |
| Android notifier | `apps/android` | Room queue, pairings | enqueue, flush, heartbeat, commands | at-least-once delivery under the right credential |
| Bridge | `apps/bridge` | seen list | poll, forward, beat | no message skipped; silent when unhealthy |
| Parsers, imports, dashboard, SDK | `lib/parsers`, `services/statement-import.ts`, ... | none of their own | text and reads | tested by fixtures |

**How they interact.** A phone posts captures; each is inserted in its own
transaction and only then matched (`capture.ts:272`). The matcher, the buyer's
TrxID submission and the admin's approval all end in `applyPayment`, in a
transaction of their own, after reads made outside it. `applyPayment`,
cancellation, expiry and reversal queue events inside their transactions; the
worker's timer later posts them. The sweep runs expiry and orphan matching in
the same process, concurrently with requests. Nothing else is shared but the
database, at READ COMMITTED, so what is hard is: a check made before the lock
that protects it, an update by id of a row that has moved on, a process that
dies between two commits, and a retry of something that was already done.

`PROJECT.json` lists every component with its status and every hazard at the
line where it bites.

## 2. The modules

### Settlement (`Settlement.tla`)

The money. State and code correspond column by column:

| Variable | Code |
|---|---|
| `status`, `account`, `counted`, `overdue` | `payment_intents.status`, `.receiving_account_id`, `.received_amount_cents`, whether `expires_at` has passed |
| `refCode` | `payment_refs.status` of the intent's one code |
| `payment`, `attempts` | `incoming_payments.status`, `.match_attempts` |
| `orderPayments` | the `order_payments` rows; `reversals = 0` is `reversed_at is null`, and more counts the `payment.reversed` events queued for the row |
| `toMatch` | ids a capture request or a sweep holds in memory to pass to `runMatcher` |
| `told` | the type of the last event queued for the intent |
| `session` | requests and jobs between their first read and their commit, with the locals they carry |

*Where the code is cut into steps.* At READ COMMITTED a plain `select` whose
result is used by a later statement is a step of its own: `MatchFound`,
`SubmitTrxId`, `ApproveFromQueue`, `ReverseRead`, `ExtendRead`, `ExpireRead`,
`SwitchRead` read, and `ApplyPayment`, `ReverseMark`,
`ReverseCommit`, `ExtendWrite`, `ExpireOne`, `SwitchWrite`
write. `applyPayment` is one step because its first statement locks the intent
(`for update`), so the sum it takes is the sum at its commit. `reversePayment`
takes no such lock: it is three steps, its marks are invisible to the others
until its commit, and only its row locks on the application and the payment
(`LockedByReversal`) hold anyone back. Single conditional updates (cancel,
reject) are one step, and so is a restore, whose page asserts who owns the
payment and whose update reads nothing (`restoreToQueue` writes by id).

*What is abstracted.* A total is the set of payments it adds up, so that two
totals that agree by accident are told apart from two that agree; `Money` gives
the amount. A quoted reference is the intent whose code it spells; phone
numbers are compared for equality, and an unknown one (`NoNumber`) equals none
(`SameNumber`); where the intent names no payer, a submission is held against the
number typed with it. The clock is the set `overdue`; payments are
taken to fall inside the matcher's time window and the retry loop's ten
minutes, and a payment that quotes an intent's code from its buyer's number to be
decided for it: `Matching` shows that it is. Audit rows and the payload of events are left out. `Operations` names
which optional operations a deployment sees, so that one module gives both the
races that are excluded and the ones that are shown.

`SpendOnce.tla` is the promise of `order_payments` for one payment: fresh,
spent on one intent, retracted, never back. That is what the schema says ("One
payment can only ever be applied once, to one intent", `schema/payments.ts:265`,
over a unique index that covers reversed rows) and `apply.ts:80-81` ("a TrxID can
only ever be spent once"). Two other comments say otherwise of a reversed payment:
that it goes back to `unmatched` "so it can be re-matched or refunded"
(`apply.ts:208-209`, `(dash)/intents/actions.ts:28-29`). The code keeps the first
promise and not the second, which `reversed_again` shows. `Ledger.tla` is the promise to the
merchant with every operation atomic. Settlement is shown to implement both.

### Webhooks (`Webhooks.tla`)

`status`, `wait`, `attempts`, `aged` are the columns of `webhook_deliveries`
(`wait` is the rung `next_attempt_at` stands on, `aged` whether
`last_attempt_at` is older than the requeueing cutoff), `active` the enabled
endpoints. `batch` and `job` are the locals of a call of `deliverDueWebhooks`.
The claim is one statement (`for update skip locked`) and one step; afterwards
the worker holds no lock, so reading a row (`Take`), posting (`Post`) and
recording (`RecordSuccess`, `RecordFailure`, `Refuse`) are steps of their own,
and the writes are by id, as in the code. `posts` is a history variable: the
requests the receiver got since the row was queued or replayed.

A batch is at most 25 posts of ten seconds, so a worker that is alive is done
within ten minutes *unless* something outside the posts takes time (resolving
an endpoint's name has no limit of its own). `ClaimAges` for a row a live
worker holds is therefore behind the operation `"slow"`.

`Delivery.tla` is the promise to the merchant: pending until delivered or given
up, a 2xx is final, a failed delivery waits for a replay.

### Notifier (`Notifier.tla`)

One handset, the devices rows it holds credentials for, and the server that
answers it.

| Variable | Code |
|---|---|
| `rowStatus`, `token`, `install`, `commands`, `reported` | `devices.status`, `.token_hash`, `.install_id`, `.pending_commands`, `.sending_enabled`; `"lapsed"` is a pending row past its `expires_at` |
| `approved` | history: the handsets somebody has approved |
| `adding` | `addAccountFromSim` between its reads and its writes |
| `stored` | the messages that have a row in `incoming_payments` |
| `pairing` | `Prefs.pairings`: token, `revoked`, `awaitingApproval`, `sendingEnabled` |
| `heard`, `held`, `queued`, `sent` | a message seen, a capture attributed but not inserted, the `captures` rows with `sent` 0 and 1 |
| `task` | a coroutine: the list of pairings it copied (`todo`), the one in hand, the commands left of its last answer, the call it waits for |
| `requests`, `answer` | HTTP requests on the wire or inside a handler; the answer a coroutine has not looked at |

*Where the code is cut into steps.* A task makes one call at a time and anything
may happen while it waits. The server authenticates a request in one step
(`Authenticate`) and handles it in another, because `authenticateDevice` and the
handler are separate statements; a claim reads (`ClaimRead`) and then burns the
code in its transaction (`ClaimWrite`); a batch is one transaction a message
(`Ingest`) and one answer (`AnswerBatch`). `BeginBeats` and `BeginFlush` copy the
list they walk, tokens and flags included, as `beatAll` and `flush` do, and later
writes go through `With`, as `updatePairing` does. A call that times out leaves
its request with the server and nobody waiting. `PhoneDies` loses the tasks and
what is held in memory, and nothing of Prefs and Room.

*What is abstracted.* A token is the number of times its row has been given one,
0 for none, so that an old token is never mistaken for a new one. One business;
every message is received once; identical requests nobody waits for are one.
`AddAccountWrite` is one step for the account, the row and the command, which
are three statements: what others do between them commutes with the rest, since
the commands it appends to were read before the first; a crash between them,
which leaves a row whose code nobody is told of, is left out.
The server's rate limits refuse a call the way a lost one fails. Battery,
permissions and SIM lists only travel.

`Credential.tla` is the promise to a merchant: a code is redeemed by one handset
once, a credential works after somebody vouched for it (or its code was made for
a handset somebody vouched for), and a withdrawn one never comes back.

### The components around the ledger (`Site.tla`)

Ten smaller modules. They share nothing with one another but the state of a
receiving number (`AccountHealth`, which `Balance` and `Bridge` extend), and
nothing with Settlement but what is said below; so `Site` puts them side by side
and a behaviour is of *one* part, from its initial state on. That keeps the
reachable states of the composition to the sum of the parts', and loses nothing
because no action of one part reads a variable of another.

**`AccountHealth`** is one row of `receiving_accounts`: `standing` and `drift`
are `status` and `balance_drift`; `beat` and `capture` are `last_heartbeat_at`
and `last_capture_at` as the health jobs see them (null, recent enough, too
old); `alerts` counts the open `notifier_events` of each kind. A job of
`jobs/health.ts` lists numbers, looks for an open alert, raises one and (for a
heartbeat gap) degrades the number: four statements without a lock, so four
steps (`ListOverdue`, `LookForAlert`, `RaiseAlert`, `Degrade`), and the worker's
run and the cron's may overlap. A beat records that it came and never changes
the status (the heartbeat route does not); only an admin's `Enable` brings a
number back, and forgets its drift.

**`Balance`** follows a wallet through its `Movements`. A message says what the
balance is right after its movement; `ReceiveMessage` is the insert's timestamp,
`RecordMessage` the row and the check of `checkBalanceContinuity` against the
anchor (`anchor`) and the rows received since, `ImportRow` a row that enters
from a statement and is not checked (an entry by hand is checked like a message:
`manual-entry.ts:103`). `opening` and `reported` are history variables:
what the wallet held that has no row when it was first anchored, and the sum of
the drifts that were reported. A surplus stops the number; a deficit is a
warning, and re-anchors.

**`Bridge`** is `apps/bridge`: `page` and `findable` belong to Google, `seen` and
`saved` are the list of texts posted, in memory and in the state file, `poll` the
polls a timer starts without waiting for the last. `Forward` posts one text; the
request or its answer may be lost and the webhook refuses a number out of
rotation.

**`Matching`** is the decision Settlement takes as given: which candidates are
loaded (`Loaded`), which are admitted (`Admits`, gate by gate), what each scores
(`Score`) and which one, if any, is named (`Resolved`), in every state that
creating, rerouting, extending, closing and paying intents can reach. References
and numbers are normalised in the code and compared here for equality; a message
of the wrong type goes to a human whatever it says, and is left out; reversals,
and what races do to the money, are Settlement's.

**`PayPage`** is the hosted page of one intent: `serverVars` are columns of
`payment_intents`, `screenVars` the component state of `pay-client.tsx` for each
tab and each phone that scanned a tab's QR, `wireVars` what is on its way. A tab
learns of the server only by answers; those of a phone's polls overlap and come
in any order. A request for a token that a tab has abandoned (`strays`) may yet be
served, and one that is served while its tab is revoking mints a token that nobody
revokes: those are in `crossed`. `Scan` takes the page's two reads, of the intent
(`page.tsx:36`) and then of the token (`:60`), as one step: a token that was revoked
between them opens a page that is cancelled from the start, and with one tab the
number changes only behind a revocation.

**`Requests`** is `createIntent` for one Idempotency-Key: `Replay`,
`NothingToReplay`, `ChooseNumbers` are the reads, `CreateIntent` the transaction
that inserts intent, code and key, `KeyConflicts` and `CodeConflicts` its two
unique violations. `KeyExpires` and `PruneKey` end a window of 24 hours.

**`Setup`** is the first-run wizard. `handset`, `wallet`, `made` and `stamped` are
rows of the database; `wizard` is what the page keeps: the state it was last sent
(`sees`), the step somebody stays on (`pinned`) and what it shows once
(`secret`). Every action of `app/setup/actions.ts` changes what it changes and
answers with the state after it (`Reply`); the answer may be lost, or the call
fail, and then the page is gone until it is loaded again. The six steps are
derived (`IsDone`), and the page stays open while any is undone. `View` takes
the five reads of `getSetupState`, which run side by side, as one: what changes
between them is in the next answer. The SIM step asks the first connected
phone only, in an order the query does not fix. A poll that is under way while a
button is pressed is not modelled: the router sends one action after another.

**`Submissions`** is what is counted before it is inserted: attempts of the last
hour, attempts that found nothing, open refund requests. Its payment is an
environment: where the money goes is Settlement's.

**`Tenancy`** is how an instance comes by its businesses: as a service
(`createBusiness`, the free handle of a name, two reads and an insert that may
collide, `Tries` times) and self-hosted (`ensureSingleBusiness`: find, insert,
reread, join). A handle is the sequence of its words, each a number, because
what matters of it is which words are suffixes.

**`Updater`** is the notifier's own update: `cache` is what stands at each
release's path, `download` the downloads that write there, which delete every
file first, each other's included. A download whose file was deleted goes on
writing to nothing that has a name (`linked`), and one that ends takes what is
at its path for its own; one that fails deletes what is at its path, and one that
is refused (no 2xx, no body) leaves it.

### Model-checking and proof modules

`SettlementMC`, `WebhooksMC`, `NotifierMC`, `SiteMC` give the constants their
values; `SettlementClaims` and `NotifierClaims` state what the repository says
and an interleaving or a lost answer breaks. Eight modules hold the theorems:
`SettlementProofs`, and `SettlementSerial` about settlement one operation at a
time; `WebhooksProofs`; `NotifierProofs`, and `NotifierHeld` about what the phone
holds while nothing is lost; `SiteProofs`, and `SiteInvariants` about balances,
the scanned page and the types of the ten parts; and `SumTheorems`, what a total
over a finite set is, which the balance proofs need.

## 3. What the runs show

Instances are chosen so that every comparison has both sides: two intents of
one number (the second does not say so), one of them payable short (1 of 2), exactly (2) and over (3) by the
two payments that quote it, the other reachable only by a submission or an
admin; `settle`, which is checked under fairness, has the first of them alone; two payments are also what it takes to race an application with a
reversal of another. Two sessions make every pair of operations overlap.
`MaxAttempts` 1 or 2 stands for the 20 retries, `MaxCrashes` bounds crashes.
Webhooks: three deliveries with batches of two leave one for the other worker,
a ladder of three attempts has a first, a middle and a last rung.
Notifier: one wallet and the row that reports the handset's SIMs are what it
takes to inherit an approval; an SMS and a notification of one payment are two
messages with one TrxID. There is one task, so what overlaps a call is a call that
timed out and is still with the server: a pause falls between the sending of a beat
that says "on" and its handling, and the beat may be handled after one that says
"off". Two tasks are out of TLC's reach with messages, and without messages (about
175,000 states, `Operations = {"switch", "command"}`) `PauseIsReported` holds too. One
loss may hit any call, and what a loss can break here it breaks the first time:
the proofs, which have no such bound, confirm it for the safety properties. One
rotation has an old token and a new one.

The parts of `site`: two sweeps (the worker's and a cron's) and two buyers are
what it takes to overshoot by one; an hourly limit of 2 and an escalation after
3 have a below, an at and an above, and four misses reach past both. The wallet's
movements are in, out, in, and one in of another amount, so that what is missed
before an anchor and after it, in both directions, is there, with a clock of 5
for four rows and an import; one request ingests at a time (see below). The
bridge has two overlapping polls and two texts, of which the page shows both. A
tab, a phone, one token and one poll are the shortest story in which a scanned
page could be misled: the token is minted, scanned, revoked, and the number
changed. Two calls with different bodies and three codes are an original, a
conflict and a retry in each of two windows of the key. Two orders cost 1 and 2,
so that what is left of one equals the price of the other; two numbers, one
payer or nobody, and a clock tick that is longer than lifetime, grace and recency window. The
proofs have none of these bounds. Three users register "Shop" and "Shop 3":
the two names take handles from each other, and two tries (three in the code)
are enough to fail. Two downloads and three releases let one
download overtake another while a third release comes out. Two handsets behind the counter, and one
change by another screen, are a phone that is revoked or approved elsewhere while
the page shows another.

Each run takes the operations its
question needs, because all of them together are out of TLC's reach. Deadlock
checking is off throughout: a deployment without requests, its bounds used up,
rightly stops.

| Run | Shows |
|---|---|
| `settle` | under fairness, matches, submissions, approvals, cancellations, expiry, restores and a crash, two at a time on one intent: `ToldTheTruth`, `ImplementsLedger`, `ClaimableIsApplied`, `OverdueCloses` |
| `serial` | matches, submissions, reversals, extensions, expiry, switches and rejections, one at a time: `ReceivedIsSum`, `MatchedIsSpent`, `MoneyIsOnTheAccount`, `ExpiredWasOverdue`, `ImplementsLedger`; what the races below break is broken by the races alone |
| `contended` | matches, approvals, reversals, extensions and cancellations, two at a time: `OpenCodeIsUnpaid`, `SpentAndRetractedOnce` |
| `deliver` | two workers, a crash, a toggled endpoint, replay of failed rows: `OneSender`, `LadderIsHonest`, `ImplementsDelivery` |
| `deliver_live` | under fairness, slow workers, two crashes, a replay of anything: `NothingIsDropped` |
| `pairing` | scanning, approving, a stranger on the same code, a SIM chosen on the dashboard, one rotation, revocation: `ActiveIsHeld`, `ImplementsCredential` |
| `notifier` | under fairness, one wallet, two messages of one payment, one loss of any kind, pauses from both sides, revocation, disconnection: `AcknowledgedIsStored`, `LatchedIsGone`, `NothingSlips`, `ApprovalArrives`, `RevokedStops`, `PauseIsReported` |
| `site` | the ten parts, each on its own, under fairness: `SiteTypeOK` and the properties below |

The type invariants of Settlement, Webhooks and Notifier are proved for every
instance and not run; `SiteTypeOK` is both. The properties of `site`:

| Property | Says | A change that breaks it |
|---|---|---|
| `DriftIsOffRoute` | a number stopped for missing money stays out of rotation until somebody enables it | a beat that puts a degraded number back |
| `OneAlertPerGap` | as many open alerts as sweeps that overlap, whatever gaps come and go | a job that does not look before it alerts |
| `AbsenceIsNoticed` | a number in rotation is heard of or somebody is told, once jobs stop being killed | a null timestamp that is older than nothing |
| `EveryPoishaIsAccounted` | no discrepancy between two checks is lost, or reported twice | an anchor boundary that counts a row twice |
| `AlarmIsMissedMoney` | a number is stopped only when money in has no row | the row at the anchor counted again |
| `SeenIsStored` | the bridge gives a text up only when the server has it | a text marked before its answer |
| `BridgeCatchesUp` | a bridge that stays up on a readable page for a number in rotation keeps catching up | a text marked before its answer |
| `DecisionIsExact` | what loading, scoring and comparing name is what waits for the money and is claimed by it | candidates loaded by price alone |
| `NumberIsNotSwapped` | a scanned page never changes the number under somebody who is sending | a page left without revoking its code; a poll that shows its number before it has asked about the token |
| `OneIntentPerKey` | one intent for a key in its window, and an answer is about the body sent | the key written apart from the intent, so that a conflict over it undoes nothing; a replay that does not compare the body |
| `KeyIsAnswered` | a client that keeps retrying is answered | a pruning that leaves expired rows |
| `OvershootIsBounded` | the three check-then-insert limits are passed by no more than the requests that overlap | the hourly limit compared off by one; the escalation compared without the attempt in hand |
| `NamesAreRegisterable` | a registration fails only because as many others came between | the suffix taken from a count |
| `OneShop` | a self-hosted instance has one business and lets everybody into it | an insert without the conflict clause |
| `ReleaseArrives` | a phone left alone gets the release it has leave to get, whole | a worker that trusts what is at the path |
| `SetupFinishes` | whoever does not decline phones for ever ends setup: no step waits for what the page does not show | phones that wait for approval left out of what the page reads |

The violation runs check what the repository says, one statement each (quoted in
`PROJECT.json` under `findings`, and above the property):

| Run | The code does |
|---|---|
| `reversals_race` | two unlocked reversals (or a reversal and a match) leave an intent paid with no live row |
| `reversed_again` | a reversed payment is `unmatched`, as `apply.ts:208-209` and `(dash)/intents/actions.ts:28-29` say, but cannot be "re-matched": the index on `order_payments.incoming_payment_id` is total, so every later application is turned away (`ReversedCanBeMatched`) |
| `lost_rotation` | the server has swapped the token when the answer is lost, so the phone's next beat is a 401 and it gives up a credential that is active |
| `second_wallet` | a phone told to add a second wallet on the same number redeems the code and drops the credential, because it compares the msisdn alone |

More races come from the same code and have no run of their own; those of the
parts of `site` are listed after the rest:

- a restore sets a payment to `unmatched` by its id alone, an applied one too
  (`queue.ts:294`): the queue (`queue.ts:84`) then lists it as money nobody claims,
  though `queue.ts:291` speaks of an orphaned payment. Adding `"restore"` to the
  `Operations` of `serial.cfg` breaks `MatchedIsSpent`. No page calls the action at
  this commit.
- an extension writes back the status it read, so that one begun before a match
  reopens a paid intent (`extend` in the operations of `settle.cfg` breaks
  `ToldTheTruth` and `ImplementsLedger`).
- the sweep expires an intent that was extended after it was selected, and a
  method switch moves an intent off the account its payment landed on: with two
  sessions, `ExpiredWasOverdue` and `MoneyIsOnTheAccount` fail.
- replaying a delivery while it is in flight lets a late failure overwrite a
  2xx, or loses the replay: the attempt it overtook writes its own outcome over
  the reset row.
- two reversals of one row that overlap both pass the status check and both
  announce `payment.reversed`: the check and the update are separate statements
  without a row lock (`apply.ts:225-242`). `SpentAndRetractedOnce` counts the
  rows it retracts, not the announcements.
- a match decided before a cancellation is applied after it: `applyPayment`
  looks at the expected amount and not at the intent's status.
- a batch, or a second beat, under the old token is refused during a rotation
  and latches the pairing, with no loss at all: two tasks in
  `lost_rotation.cfg` show it. Only a pairing of the new code brings it back.
- rows recorded in another order than they were received in (two requests that
  ingest for one number, or an older message pasted by hand) re-anchor the
  balance backwards: with `Happens = {"late"}` both `EveryPoishaIsAccounted` and
  `AlarmIsMissedMoney` fail, the second by an alarm for money that has a row.
- `Degrade` writes by id alone (`health.ts:80-86`): a number an admin disabled,
  or enabled again, after it was listed becomes degraded.
- degrading a number for a gap queues no `account.degraded` event, although
  `docs/self-hosting.html` says it does.
- items the page's selectors no longer recognise read as nothing new, although
  `scrape.ts:44-45` says the caller reads an empty page as a fault.
- a bridge and a phone of one number keep one timestamp: the beats of either hide
  the silence of the other.
- the bridge's `provision` posts to `/device/v1/provision` (`client.ts:37`), a
  route that no longer exists.
- a token whose request is overtaken by the revocation stays live (`crossed`), and
  a phone that scans it is not told when its tab changes the wallet.
- a tab whose session storage is disabled, and a second tab, switch the method
  without revoking the code of the first.
- an attempt whose `applyPayment` throws, or whose process dies, leaves no
  submission, though `submit/route.ts:47-48` says every attempt is recorded.
- the wizard shows a secret inside the open step, and leaves for the dashboard when
  no step is left: the signing secret of an endpoint saved there is never seen,
  though `setup-wizard.tsx:603-606` says it is shown once.
- the SIM step offers the SIMs of one connected phone (`firstDeviceId`): while that
  one does not beat, a second phone that has reported cannot be chosen there.
  `SetupFinishes` assumes that phones beat.
- `addAccountFromSim` looks at the phone's row and not at its status: a SIM of a
  phone revoked meanwhile is taken.
- a download killed half-way is offered as ready to install: the screen's check
  takes any file of some length (`Updater.kt:351`). `ReleaseArrives` holds
  because the worker downloads again whatever is there.
- an expired key that is not pruned is neither replayed nor insertable:
  `KeyIsAnswered` shows that this ends with the pruning.
- two first sign-ups at once can leave a self-hosted instance without a platform
  administrator: each counts the other's row (`auth.ts`).

**Fairness.** `FairSpec` of Settlement assumes that a request under way runs on
(weak fairness of `Resume`), and that the sweep, which the worker sends every
30 seconds and cron every minute, comes round to each row (weak fairness of
`RetryOrphan` and `MatchNothing`). `MatchFound` and `ExpireRead` are strongly
fair because they need a free session, and the pool of sessions is a bound of
the model: the server has no such pool. Crashes are bounded and need no
fairness; no request is ever assumed to come. `FairSpec` of Webhooks assumes
that time passes, that a worker runs until it dies, that the two cron entries
come round, and per row that a due row is not passed over for ever: the claim
takes the oldest `next_attempt_at` first. A retry window of ten minutes bounds
the real loop; `ClaimableIsApplied` is about a payment within it. `FairSpec` of
Notifier assumes that a coroutine that is running goes on, that the server
answers what reaches it, and that beats and flushes come round: the foreground
service's loop runs every five minutes (`NotifierService.kt:44-81`) and
WorkManager retries what failed. They are strongly fair because a free task is a
bound of the model. Losses are bounded, and no message, approval or command is
assumed to come. `GoOn` of Site assumes that the jobs, polls, calls and downloads
that are under way go on and that their timers come round: the cron and the worker
call the jobs, `setInterval` the polls, WorkManager the update check (for an
interval other than "never"); that the wizard's page goes on asking, or is opened
again when it broke; and that a phone, once approved, reports its SIMs at a beat.
`AttemptSucceeds` and `InTime` are strongly fair: a post, a call or a download that
is tried again and again is not refused by the network for ever, and in front of
the wizard is somebody who goes on: who does what the open step asks for, shows a
code when no phone is listed, and scans one before it expires. They are stated over
what the attempts change (`attempted`), and as disjunctions over the parts, which
is the same as strong fairness of each because a behaviour is of one part. What a job needs besides is a hypothesis of the property
(`JobsLive`), as are a page that stays readable and a number that stays in
rotation (`BridgeCatchesUp`) and somebody who does not decline every
phone (`SetupFinishes`).

## 4. What is proved

For every value of the constants that satisfies the modules' `ASSUME`s
(finitely many payments, positive amounts, every map total):

| Theorem | States | For deployments |
|---|---|---|
| `SettlementProofs!TypeCorrect` | `Spec => []TypeOK` | all |
| `SpentOnceHolds` | `[]SpentOnce` | all |
| `SpendRefinement` | Settlement implements `SpendOnce` | all |
| `MatchedIsSpentHolds` | `[]MatchedIsSpent` | without `restore` |
| `ReceivedIsSumHolds` | `[]ReceivedIsSum` | without `reverse` |
| `LedgerRefinement` | Settlement implements `Ledger` | without `reverse` and `extend` |
| `OpenCodeIsUnpaidHolds` | `[]OpenCodeIsUnpaid` | all |
| `MoneyIsOnTheAccountHolds` | `[]MoneyIsOnTheAccount` | without `switch` |
| `ExpiredWasOverdueHolds` | `ExpiredWasOverdue` | without `extend` |
| `ToldTheTruthHolds` | `[]ToldTheTruth` | without `reverse` and `extend` |
| `SettlementSerial!SerialReceivedIsSum` | `[]ReceivedIsSum` | all, one operation at a time |
| `SerialMoneyIsOnTheAccount` | `[]MoneyIsOnTheAccount` | all, one operation at a time |
| `SerialExpiredWasOverdue` | `ExpiredWasOverdue` | all, one operation at a time |
| `SerialLedger` | Settlement implements `Ledger` | without `cancel`, one operation at a time |
| `WebhooksProofs!TypeCorrect` | `Spec => []TypeOK` | all |
| `OneSenderHolds` | `[]OneSender` | without `slow` and `replay` |
| `LadderIsHonestHolds` | `[]LadderIsHonest` | without `slow` and `replay` |
| `DeliveryRefinement` | Webhooks implements `Delivery` | without `slow` and `replay` |
| `NotifierProofs!TypeCorrect` | `Spec => [](TypeOK /\ Answered /\ OneCall)` | all |
| `AcknowledgedIsStoredHolds` | `[]AcknowledgedIsStored` | all |
| `CredentialRefinement` | Notifier implements `Credential` | all |
| `LatchedIsGoneHolds` | `[]LatchedIsGone` | without `rotate` |
| `NotifierHeld!ActiveIsHeldHolds` | `[](losses = 0 => ActiveIsHeld)` | without `leave`, no number shared by two wallets |
| `SiteProofs!DriftIsOffRouteHolds` | `[]DriftIsOffRoute` | all |
| `OneAlertPerGapHolds` | `[]OneAlertPerGap` | all |
| `SeenIsStoredHolds` | `[]SeenIsStored` | all |
| `OneIntentPerKeyHolds` | `[]OneIntentPerKey` | all |
| `OvershootIsBoundedHolds` | `[]OvershootIsBounded` | all |
| `DecisionIsExactHolds` | `[]DecisionIsExact` | all thresholds up to 160 |
| `NamesAreRegisterableHolds` | `[]NamesAreRegisterable` | all |
| `OneShopHolds` | `[]OneShop` | all |
| `SiteInvariants!EveryPoishaIsAccountedHolds` | `[]EveryPoishaIsAccounted` | messages recorded in the order received (without `late`) |
| `AlarmIsMissedMoneyHolds` | `AlarmIsMissedMoney` | without `late` |
| `NumberIsNotSwappedHolds` | `NumberIsNotSwapped` | one tab; any phones, wallets, tokens and polls |
| `SiteTypeCorrect` | `[]SiteTypeOK` | all |
| `SumTheorems!SumDef`, `SumRemove`, `SumMonotone`, `SumUnion`, `SumTrade` | totals over finite sets | |

The excluded operations are the ones with a race, and `restore`, which needs none: the
violation runs show what `reverse`, `restore` and `rotate` do, section 3 describes the races of `extend` and
`replay`, and `slow` is a worker that outlives the requeue of `delivering` rows (listed under
`hazards`). That reversals, extensions and switches do no harm on their own is what the theorems
of `SettlementSerial` say, and `serial` checks. The assumptions of the others
are ones under which the code is right and without which it is
not: section 3 says what a method switch, an extension, a lost call, a second
wallet on one number, messages recorded out of order and a second tab do.

*The argument for settlement.* `SpentOnce` is inductive by itself: the only
action that adds a row is `ApplyPayment`, behind the unique index. The
refinement of `SpendOnce` adds that a row's payment and intent never change.
`MatchedIsSpent` needs to know what a session in the middle of a reversal will
write, `ReceivedIsSum` that `counted` and the rows move together, and the
ledger refinement that an expiry or cancellation only ever hits an open intent,
which has no live row, so that closing never drops money.

`OpenCodeIsUnpaid` holds for every deployment although totals do not: a reversal
computes its total (`ReverseMark`) and writes it later (`ReverseCommit`), over
whatever was applied in between. `CodeInv` therefore says of the *stale* total in
a session's hands what it says of the rows: while a code is open, the live rows of
its intent are short of the price (`OpenCodesAwait`), and so is any total about to
be written to it (`StaleTotalsAwait`). `ToldTheTruth` is nearly inductive: without
reversals and extensions every status but the first is written in the transaction
that queues its event.

*The argument for one operation at a time.* `OneAtATime` says there is one
session. Creations, deadlines, captures, rejections and cancellations are single
statements and still fall between its read and its write (`Beside`), and it may
die there. `ReadsHold` says what an operation read is still so when it writes:
the row a reversal marked is live, the total it computed is the one of the rows,
an intent to move has no money, an intent to expire is overdue. Each of these is what a race breaks, so the
theorems say that nothing but races breaks the ledger. `SerialLedger` leaves out
`cancel`: it is the one statement beside a session that an extension can
overwrite (it reopens what was cancelled after its read).

*The argument for webhooks.* `OneSender` is not inductive. The invariant
`Ownership` adds that a row somebody holds is `delivering` and not aged
(`HeldIsFresh`), so it can neither be claimed nor requeued, and that the row a
worker is busy with has left its batch (`JobLeftBatch`). `LadderInv` then
relates `attempts` and `posts` through the locals of the one worker that holds
the row: its `attempt` is still one more than the column, because nobody else
writes it. `slow` breaks the first part of `HeldIsFresh`, `replay` the second.

*The argument for the notifier.* `TypeOK` already needs to know which answer
belongs to which call: `Answered` says an answer has the shape of the call its
task waits for, `OneCall` that a task has one request on the wire or one answer,
and `InHand` and `Steady` that a task that waits has a pairing in hand and a
command to strike off. `AcknowledgedIsStored` follows the batch through its
life: what a request lists as done is secured (`Taking`), what an answer names
is (`Naming`), and so is what was struck off. The refinement rests on
`Founded`: only handsets somebody approved have an active row or an inherited
claim (`Backed`, `Inheriting`), and rows that were never offered have nothing.
`LatchedIsGone` is the deepest: `Sure` relates every copy of a token, in the
phone's pairing, in a task's list, in a request, to the row. A copy is the
row's token or the row is revoked, and a `stop` is only ever queued for, carried
by an answer about, or in the hands of a task for a revoked row; `Verdict` says
that a 401 on its way to a task is about a revoked row. A rotation
breaks the first of these, and `lost_rotation` shows what follows.

`ActiveIsHeld` goes the other way, from the row to the phone. `Held` follows a
token on its way: `Uses` says which tokens the phone works with wherever it keeps
a copy (a pairing, a list a task walks, a request), `Brings` which answer brings
a new one. While a row is alive no copy is newer than the row's token, an answer
that brings one brings that token, only one answer does, and nobody uses it yet;
so the row's token is in the pairing or in that answer. Losing a call is what
breaks it, hence `losses = 0`; `leave` drops a pairing by the phone's own
decision, and two wallets of one number make the phone take one for the other
(`second_wallet`).

*The arguments for the site.* Each theorem is about one part, and starts from
the fact that the other parts leave its variables alone. `OneAlertPerGap` counts
the sweeps that are past their look as if they had alerted already: open alerts
and such sweeps together are at most the sweeps, because a look that finds an
alert goes back. `OvershootIsBounded` is the same for three counters at once: a
request in the middle is one of the row it is about to insert (`Counts`,
`Turning`), and there are no more of those than requests. `OneIntentPerKey` needs
that the key's row names the intent of its window for as long as it is there,
fresh or not, so that the unique index excludes a second. `SeenIsStored` adds
nothing but the text in hand. `DecisionIsExact` rests on arithmetic: a candidate
that passes the gates has quoted its code and named its payer, which scores 160
at least, so no admitted candidate stays under the threshold; and a code is one
intent's, so there is never a second to be ambiguous with. The branch of the
score that rewards a similar reference is out of reach for whoever is admitted.
`NamesAreRegisterable` says, for each visit that holds a handle, that the handle
is nobody's yet or the visit has been overtaken once more than it has collided
(`Sound`); that the handle was free when it was chosen is the pigeonhole
principle: among the numbers 2 to n + 2 one is the suffix of none of n handles
(`SuffixIsFree`). `OneShop` follows from the same invariant's self-hosted half:
a visit that has inserted, or lost the conflict, finds the one business.

*The argument for balances.* A total is the community modules' fold
`SumFunctionOnSet`, whose value is defined through a `CHOOSE` of a recursive
function. Induction over data is out of the prover's reach; what replaces it in
`SumTheorems` is a smallest counterexample: of the subsets for which a statement
fails, finite and so with a smallest (`SmallestSubset`), take one element away
and the statement holds. `SumDef` is the recursion, the rest follows from it.
`BalanceInv` then says what the anchor stands for. With one message at a time
the rows behind the anchor are of movements up to the anchored one (`AnchoredTo`),
and what is up to it and not behind it was imported later and is money in. What
the anchor's balance adds up to, the opening, the rows behind it and the drifts
reported, is moved on exactly by each check. For the alarm: were every movement
of money in recorded, trading the rows that were counted for the movements that
happened would take only money in away and add only money out (`SumTrade`), so
the balance could not be higher than expected.

*The argument for the scanned page.* `PageInv` has two parts. `TokenIsGuarded`:
a token that can have been scanned, and that no revocation preceding it missed,
is the one of a tab that stands at its instructions and has not begun to leave
them. `NumberIsRouted`: a phone that believes its token is live shows the number
the intent is routed to, and so does every answer on its way; when the token is
dead, the answers still on their way that found it alive agree with what the
phone shows. With one tab nothing but that tab changes the route, and it does so
after its revocation. A second tab changes it without, and the property is then
false: TLC shows it with two tabs.

*Types.* `SiteTypeCorrect` puts one invariant per part together. Most are
inductive; the others need a fact more: that a key which outlived its window
leaves a window to go on in (`RequestTypes`), that whoever tries a number has one
left, that a form about to record an attempt says what it found
(`SubmissionShape`), that a message in hand is of a movement (`BalanceShape`),
that a minted token is not the zeroth (`PageShape`).

Model-checked only: everything under fairness (`ClaimableIsApplied`, `OverdueCloses`, `NothingIsDropped`,
`NothingSlips`, `ApprovalArrives`, `RevokedStops`, `PauseIsReported`,
`AbsenceIsNoticed`, `BridgeCatchesUp`, `KeyIsAnswered`, `ReleaseArrives`, `SetupFinishes`), which
the prover does not reach. Every safety property the runs check is also a theorem,
under the assumptions of the table.

## 5. What is not modelled

- *Text.* Parsing messages and statements, CSV, normalising numbers and
  references, formatting: values in, values out, tested by fixtures.
- *Reads.* Dashboard queries, the review queue's list, scheduler health: derived
  from one snapshot, they change nothing. The dashboard's views, the design
  system, the marketing and documentation pages, which are most of the
  implementation's lines, keep no state but what is being typed.
- *Sign-in of people*, sessions and passwords, which a library keeps.
- *Forms.* Members and invitations, review and suspension of a business, apps and
  their keys: one conditional statement or one transaction each. `setMemberRole` looks for the last owner and
  then writes, without a lock, and only tests call it.
- *The rate limiter*: a fixed window in memory, read and written by one
  synchronous call in one process, so nothing interleaves.
- *An account's limits* (`accounts.ts:129`): the code checks what was received and
  leaves out what is pending, and promises no bound that could be violated.
- *Android's keeping alive*: alarms, the battery exemption, the foreground
  service; the platform's behaviour. What they keep alive is in Notifier.
- *The SDK*: its retries with one key are the calls of Requests.
- In what is modelled: audit rows, event payloads, wording; the clock as a set of
  deadlines that have passed; files that cannot be deleted and metered
  connections (Updater); calls without a key (Requests); the provider's
  suspension, and an intent that a reversal opens again (PayPage); two
  transactions that net against one balance anchor (`balance.ts:73`); the command
  queue of a device when two writers read it at once. The last two are hazards
  without a property.

## 6. Plan

Done: Settlement, SpendOnce, Ledger; Webhooks, Delivery; Notifier, Credential;
Matching; Balance; Requests, Submissions, PayPage; AccountHealth, Bridge;
Updater; Tenancy; Setup; their runs and proofs. Left, in order of what a mistake would
cost:

1. The command queue (commands assigned over each other, a drain whose answer is
   lost) and the pause against a message that is being attributed.
2. Concurrent transactions against one balance anchor.
3. Proofs: weaker assumptions where the code justifies them, `SerialLedger` with
   cancellations outside an extension first; `ActiveIsHeld` with losses that hit
   other calls than claims and rotations.
4. Members and invitations; the platform administrator of a new instance.
