# TLA+ models of the rw-sys reward system

rw-sys turns customers' activities into rewards. A portal publishes campaigns; the
realtime activity-processing service (RAP) evaluates activities against them and grants
rewards under budgets; the reward-redemption service (RRS) redeems each granted reward
with an external system; a promo-code service issues codes; a reward-tracking service
keeps a ledger. This directory models the protocols inside and between those services,
checks them with TLC on small instances, and proves the most important results with TLAPS
for every instance.

Paths below are relative to `src/`; `RAP/` stands for
`realtime-activity-processing-service/src/modules/` and `RRS/` for
`reward-redemption-service/src/modules/`.

## 1. Inventory

| Component | State it keeps | Operations | What is hard | What makes it correct |
|---|---|---|---|---|
| Activity ingestion (`RAP/activity-mapping`) | `activity_logs`, one row per component an activity fans out to | `ingest`: one multi-row `INSERT .. ON CONFLICT DO NOTHING` | redelivery, partial duplicates | every activity gets each of its rows once |
| Claim lanes and stale sweep (`RAP/processing/activity-log-claim.*`, `stale-processing-sweep`) | `activity_logs.status` | claim the oldest pending row (`SKIP LOCKED`), hand it to the handler, sweep rows stuck in `processing` | several lanes and instances, crashes, handlers slower than the stale timeout | a row takes effect once; every row settles |
| Row handler (`RAP/processing/rule-evaluation-row-handler`) | `customer_tracker_component_progress`, `customer_tracker_status` | one transaction: advisory lock, sibling gating, rules, progress, tracker status, rewards, final status | two activities of one customer, sibling rows claimed in any order, retries | no advance lost or counted twice; one sibling per activity; the tracker tally equals the completions |
| Caps (`RAP/budget`) | `budget_consumption`, `customer_reward_limit_consumption` | lock or create, check ceiling, increment | pooled budgets shared by customers, crossed lock orders, breach after a partial check | no ceiling exceeded; counters equal the entries they govern |
| Reward entry, outbox (`RAP/reward-entry`) | `reward_entry`, `reward_entry_outbox` | insert with the domain transaction | unique index collisions | an entry for every grant, an outbox row for every entry |
| Reward dispatch (`RAP/dispatch`) | outbox status and attempts, `reward_dispatch_retry` | publish (primary, then fallback channel), hand over to tier 3, retry with back-off, exhaust | crash between two autocommitted statements, accepted sends whose answer is lost, several instances, rows that cannot be read | at-least-once delivery; nothing marked delivered that was not |
| Campaign cache (`RAP/campaign-cache`, `RAP/invalidation`) | in-memory campaigns, two indexes, snapshot and code tables, one watch stream per tenant | bootstrap, watch stream, reconnect and re-warm, reconciliation, vanish | three writers that await an answer and apply whole configurations out of order; crashes between the durable and the in-memory write | the index agrees with the entry; nothing never approved matches; one stream; the cache converges to an active campaign |
| Redemption (`RRS/reward-ingestion`, `RRS/processing`, `RRS/redemption`) | `reward_redemption_entry` and its tracking outbox | ingest once by id, claim, call the connector, state machine, completion sweep | external call between two transactions, duplicate completions, retries, crashes after the claim | one external redemption per reward; terminal states stay |
| Tracking dispatch (`RRS/dispatch`) | tracking outbox, dispatch retries | publish, fall back, escalate to the retry table, poison a row that cannot be sent, retry, exhaust | each statement may fail into the catch block; old rows that can never be sent fill the batch | no announcement is forgotten; a settled row stays; every entry settles |
| Promo codes (`promo-code-service`) | codes, generation requests, outbox | generate, bind, publish | duplicate requests, unique code collisions, pool exhaustion | one code per request, each code issued once |
| Reward tracking (`reward-tracking-service`) | event log, facts, customer ledger, sharded campaign counters, balance rows, consumer offset | one transaction of four writes behind a unique key, over Kafka, gRPC and REST; balances filled by the requests that read them | the same event on two channels at once, upserts of one row, NULLs in a conflict key, an offset ahead of its transaction | each event counted once; totals equal facts; what is answered is tracked and readable |
| Portal campaigns and approvals (`portal/back-end/src/modules/campaigns`, `approvals`) | campaign status and content, approval requests, audit trail | edit, submit, approve/reject/return, expire, pause, resume, pause by the runtime, announce | unlocked status checks, two checkers, a sweep racing a decision, audit rows that fail inside a transaction | what is live was reviewed by another person; a decision moves request, campaign and audit row together |
| Portal identity, catalogue, configuration CRUD (rest of `portal/back-end`) | users, sessions, roles, rules, rewards, templates | CRUD over one database | - | - |
| Front end, shared packages, e2e, test-app | none of the protocol's | user interface, tooling | - | - |

Interaction: the portal's published campaigns reach RAP through a gRPC watch stream and a
reconciliation poller; RAP pauses a campaign whose budget is breached through the portal. RAP's ingest transports write `activity_logs`; lanes turn rows into
progress, counters, `reward_entry` and outbox rows in one transaction; publishers deliver
outbox rows to RRS over Kafka, REST or gRPC; RRS redeems through connectors (core banking,
promo codes) and dispatches the outcome to reward tracking.

`PROJECT.json` lists every component with its status and every hazard with the line where
it bites and the properties aimed at it.

## 2. Plan

Done:

1. **ActivityProcessing**, with RewardRules (pure rules) and AtomicProcessing (what handling
   a row promises, which ActivityProcessing implements).
2. **RewardDispatch**: delivery of the rewards the core grants.
3. **Redemption**: ingestion by id, claim, external call, state machine, completion sweep.
   It leaves open what a connector answers, and so is the abstract specification of
4. **PromoRedemption**, which composes Redemption with the promo-code connector and
   **PromoCode**, the service behind it.

5. **CampaignLifecycle** (the portal's transition table as a state machine), **CampaignApproval**
   (the calls that move a campaign along it, shown to implement it) and **CampaignCache** (how the
   activity service follows it).
6. **TrackedRewards** (what reward tracking promises), **RewardTracking** (the service, shown to
   implement it) and **TrackingDispatch** (the redemption service's outbox, which announces to
   TrackedRewards rather than to the detailed service).

Left, in this order:

7. **RewardJourney**: RewardDispatch composed with Redemption's ingestion. Promise: at-least-once
   delivery into an idempotent receiver gives one redemption entry per reward.
8. Period buckets as pure operators, checked against the interval each key stands for; the promo
   outbox statement by statement; a configuration that changes inside a transaction.

Theorems left: every invariant and action property of the passing runs but one, and every refinement,
is a theorem now (section 5). What remains is what they leave open:

- ActivityProcessing without `~MayOvertake`: which conjuncts of `RewardOrBreach` and of the
  refinement survive a handler that outlives the stale timeout (ceilings, counters, progress and
  tallies do already).
- RewardDispatch: how often a reward can be delivered twice, as a bound in its mishaps, beside
  `NeverDeliveredTwice`, which says what it takes.
- CampaignApproval: which steps outside the published table an overtaken maker's write can cause,
  beside `FollowsLifecycle`, which says that nothing else causes any.
- The ends of section 2's modules 7 and 8, once they exist.

## 3. Modules

### RewardRules
Configuration constants (components, trackers, rewards, caps) and the pure functions of the
handler: `AfterPass` (a passing activity's effect on the component's cycles),
`SiblingTargets` (which sibling component an activity advances), `AfterCompletion` (the
tracker's tally and cycle), `DueRewards`, `MatchedCaps`, `RecordedValue`, `Breaches`, `KeyOf`.
Two assignments may carry the same reward code; a cap with a zero limit is unlimited, as in
`checkCeiling`. A counter is keyed by the cap's index: the portal makes a campaign's cap
discriminators unique (`uq_cc_unique`), so the digest of `deriveCapKey` separates them.

### ActivityProcessing
| TLA+ | Code |
|---|---|
| `rowStatus`, `reachedAt` | `activity_logs.status`, `activity_reached_date` |
| `progress`, `tracker` | `customer_tracker_component_progress`, `customer_tracker_status` |
| `used` | `budget_consumption`, `customer_reward_limit_consumption` |
| `entries` | `reward_entry` and its outbox row, inserted together |
| `txn[l]` | lane l's uncommitted writes; `pc`, `job` its progress |
| `advisoryLock`, `counterLock` | `pg_advisory_xact_lock`, `SELECT .. FOR UPDATE` on counters |
| `Ingest`, `Claim`, `SweepStale` | `ingest`, `claimNextPendingRow`, `sweepStaleProcessingRows` |
| `SkipRow`, `AdvanceRow` | `handle` when it ends early, or grants nothing: one step, for nothing else can wait or be seen inside |
| `OpenReservation`, `CheckCap`, `DenyReward`, `GrantReward`, `Commit` | `handle` when rewards fall due: one step per counter row it locks, then the commit |
| `RejectConfig`, `HandlerFails`, `DeadlockAbort` | the ways `handle` throws: unsupported logic; lost connection, lock timeout or crash; Postgres' deadlock detector |

`AtomicProcessing` is the same service without lanes: one step accepts an activity, one
handles a row completely: it skips the row (`Skip`) or counts it (`Count`). It does not enforce
caps one assignment after another but says what enforcement comes to: the set granted is the one in
which a due reward is granted exactly when those granted before it leave it room (`Enforced`), each
counter gains what that set charges it (`Charge`), and the row ends in error if a due reward was
denied. `ImplementsAtomic` maps the lanes onto it: pending and processing rows are both `open`, and
the committed tables are mapped to themselves.

`DenyReward` leaves out one call of `handleBreach`: the REST request that asks the portal to pause the
campaign. Its failure is caught and nothing of this service depends on its answer; CampaignApproval
has the portal's side of it. `day` is the calendar period of daily caps; only lifetime and daily caps are modelled. The
transaction isolation is Postgres' READ COMMITTED: reads see committed state plus the
transaction's own writes, and `FOR UPDATE` waits.

### RewardDispatch
`entryStatus`, `outbox` and `retries` are the three tables; `batch`/`step` and `due`/`wstep`
are what a poller holds in memory: rows as they were when read, and the statement it executes
next. Each statement is its own step because each commits by itself. `Send` covers
`processRow` and `dispatchViaChannel` (accepted, refused, or accepted with the answer lost),
`MarkingFails` the fall from the try block into the catch block, when a statement failed or only its
answer was lost, `AbandonBatch` and `AbandonDue` a statement that fails outside it, or a crash.
`mishaps` is history: which rewards two instances held at once, which lost an answer, and which a
fault struck between the first and the last of their statements. No guard reads it; the properties
that exactly-once delivery would need say which of these it takes to break them. `CannotRead` is `processRow`
throwing ahead of its try block.

### Redemption
| TLA+ | Code (`RRS/`) |
|---|---|
| `row` | `reward_redemption_entry`: status, retry_count, next_attempt_at (`due`), external reference |
| `failed`, `report` | `reward_redemption_failed`, `reward_tracking_dispatch_outbox`: how many rows an entry has |
| `calls`, `granted` | not stored: connector calls begun, and answered SUCCESS, outside the service |
| `hand[w]`, `step[w]` | a claim worker's copy of the row it claimed and the answer it got; what it does next |
| `sweep[s]` | a completion sweep's list of stale ids and how far it is with the current one |
| `Ingest`, `Claim` | `insertOrGetExisting`; `claimNext` with `pollLoop` |
| `BeginCall`, `EndCall` | `processClaimedEntry` around `connector.redeem`, outside any transaction |
| `MarkDispatchedExternal`, `MarkFailed`, `MarkRetrying` | the state machine's transactions, each behind `lockRow` |
| `CompleteDirect`, `ReportDirect` | `markCompletedDirect` for a reward system without a connector, its side effects after the commit |
| `Scan`, `PreCheck`, `ReportSwept`, `Flip` | `sweepOnce` and `completeDispatched`: an unlocked read, the report, the locked flip |
| `ProcessingFails`, `SweepFails` | an exception the loops log, or a crash: a worker's row stays `processing` |

A call timed out is a call answered RETRYABLE_FAILURE: each connector puts a deadline on it. The
answer of `EndCall` is any `RedemptionResult`; a connector's module restricts it.

### PromoCode, PromoRedemption
`PromoCode` is promo-code-service: `issued` is `promo_code` (one code per correlation id, two
unique indexes), `outbox` its outbox, `requests` and `results` the two Kafka topics, `job[h]` what
one handler (consumer or synchronous request) is doing. `Check` and `Insert` are `generateCode`
before and in its transaction, so two requests for one correlation id race as in the code. The
topics deliver at least once, in any order; a reply may go to a process that is not waiting.

`PromoRedemption` extends Redemption and instantiates PromoCode. `call[w]` is where a worker's
connector call stands: the channel it takes, whether it is registered as awaiting a reply, whether
the service has read its request. `PublishRequest`, `ResolveResult`, `ServeCall`, `AnswerCall`,
`FallBack`, `TimeOut` and `Rejected` are the connector and its registry; the actions that end a
call conjoin Redemption's `EndCall`, so the pipeline's own steps are the same definitions.

### CampaignLifecycle, CampaignApproval
`CampaignLifecycle` is the transition table of `campaign-state-machine.ts` and nothing else:
`Permits(from, verb, to)`. `CampaignApproval` is one campaign and the calls concurrently made on it.

| TLA+ | Code (`portal/back-end/src/modules/`) |
|---|---|
| `status`, `content` | `tenant_campaigns.status`; the journey, rules, rewards and caps, as one value that is complete or not |
| `requests`, `trail` | `portal_approval_requests`; decisions in `portal_campaign_audit_trail` |
| `calls[u]` | what a caller's call in flight read: its verb, the target status, the payload, the locked request |
| `published`, `reached` | change types handed to the runtime's stream; history of the statuses committed |
| `EditLoad`, `EditWrite` | `loadEditableCampaign` and the write of the journey, binding and cap routes |
| `SubmitLoad`, `SubmitReview`, `SubmitCommit` | `submit`: the unlocked status check, the structural and ceiling checks, the commit |
| `DecideLock`, `DecideCommit` | `decide`: `FOR UPDATE` of the request and its refusals; the three writes in one commit |
| `TransitionLoad`, `TransitionWrite`, `AuditSwallowed` | `runTransition` and `pauseFromRuntime`; an ordinary audit row whose failed insert is swallowed inside an aborted transaction |
| `Publish` | the change event, after the commit |
| `Deadline`, `Sweep`, `Abandon` | `expires_at`, `markExpired`; a failed statement, a refusal under lock, or a crash |

Only `decide` locks. `submit` says "Load and lock the campaign ... Two submits racing must not both
create an approval request" (`campaigns.service.ts:631-632`), and loads it without a lock: two makers
who submit one draft at once leave two open requests, and the later write may put
`pending_approval` back over a campaign approved in between. `finding_double_submit` shows it.
`overtaken` is history: has a maker's write landed on a campaign that is no longer what the call
read? `ReviewStands` and `FollowsLifecycle` hold until then, with any number of makers at work; the
other properties hold throughout.

### CampaignCache
One campaign at the portal (`status`, `version`; its verbs are CampaignLifecycle's) and one activity
service. A configuration stands for its etag, a hash of served content that includes the status.

| TLA+ | Code (`RAP/`) |
|---|---|
| `entry`, `index`, `codeIndex` | `campaignIndex`, `activityIndex`, `externalCodeIndex`, in memory |
| `row`, `codeRow` | `campaign_config_snapshot`, `activity_external_code_map` |
| `current`, `opened`, `timer` | `streamsByTenant`, the streams of this process, a scheduled reconnect |
| `subscribed`, `events`, `closing` | the portal's side of a stream, events in flight, `'error'` and `'end'` callbacks still to run |
| `job[p]` | how far an event handler, a `warmTenant` call or the reconciliation cycle has got |
| `Start`, `Serve`, `FailCall` | bootstrap from local snapshots, then the portal; a start without either is refused |
| `Receive`, `AnswerGet` | `handleEvent` up to its first await, and the answer judged by the etag held then |
| `Reconnect`, `AnswerList`, `WarmApply`, `Vanish`, `Forget` | `warmTenant`, unconditional, and `markCampaignVanished` |
| `PollTick`, `Reconcile` | `reconcileTenant`, by etag |
| `Save`, `SaveCode`, `Swap` | `applyCampaignConfig`: snapshot row, external code, in-memory swap |
| `Break`, `OnClosed` | a broken stream whose two close callbacks schedule one reconnect |

`Save` and `Swap` of two writers interleave, so the snapshot row and the entry can hold different
configurations: nothing in the code compares them, and no property says that they agree.

### TrackedRewards, RewardTracking
`TrackedRewards` is the promise: `TrackNew(e)` adds a fact, a ledger unit and a counter unit in one
step, once. `RewardTracking` is the service.

| TLA+ | Code (`reward-tracking-service`) |
|---|---|
| `log`, `facts`, `ledger` and `rows`, `counter` | `inbound_event_log`, `reward_fact`, `customer_reward_ledger` (total and rows of a grain), `campaign_reward_counter_shard` |
| `tx[w]` | the open transaction of a handler or the consumer: the stage it has reached and what its upserts read |
| `topic`, `committed`, `dlq` | the partition, the group's offset, the dead-letter topic |
| `balance`, `reading` | `customer_reward_balance`; a `GET expiring` request |
| `InsertLog`, `UpsertLedger`, `UpsertShard`, `Commit`, `FindFact` | `applyRewardTrackingEvent`, each statement that can wait being a step |
| `Consume`, `BuryMessage`, `CommitOffset` | `eachMessage`: validation, dead letter, commit of the offset after `processMessage` |
| `StartFill`, `FinishFill`, `Respond` | `populateMissing`, its snapshot and its commit, then `findExpiring` |

A key or row written by an open transaction makes the others wait (`LogFree`, `LedgerFree`,
`ShardFree`); a grain with a NULL column conflicts with nothing, so its upserts neither wait nor
share a row. The campaign hierarchy cache only labels a fact and is left out.

### TrackingDispatch
| TLA+ | Code (`RRS/`) |
|---|---|
| `outbox`, `retries` | `reward_tracking_dispatch_outbox` by `created_at`, `reward_tracking_dispatch_retry` |
| `topic`, `late` | messages not consumed yet; calls given up on that tracking may still serve |
| `pub` | `OutboxPublisherService`: the batch as read, the row in hand, what it does next |
| `worker` | `RewardTrackingDispatchRetryWorker`: the row in hand and the channels left to try |
| `Poll`, `Resolve`, `ResolveThrows` | `findPendingBatch`; configuration and decryption, before any attempt |
| `PrimaryDelivers`, `PrimaryFails`, `FallbackDelivers`, `FallbackFails` | `attemptChannel`, `attemptFallbackOrEscalate` |
| `MarkPublished`, `IncrementAttempts`, `CreateRetry`, `MarkFailed` | the autocommitted statements |
| `StatementFails`, `RecordFailure`, `RecordFails` | a statement that rejects, whether or not it took effect, `processRowSafely`'s catch and `recordPreDispatchFailure` |
| `TakeDue`, `RetryDelivers`, `RetryFails`, `DeleteRetry`, `RecordRetry`, `WorkerThrows` | the retry worker's cycle |

A statement may have committed although its promise rejects. The catch then updates by id a row that
has left PENDING, counts an attempt and may poison it: `SettledStays` says that this is all that can
still happen to such a row. There is one publisher: `reward-tracking-outbox.repository.ts` relies on "only ever one
OutboxPublisherService instance polling". `throws` is history, for one hand-run finding.

### Proofs
Eight modules hold the theorems of section 5: `ActivityProcessingProofs`, `RewardDispatchProofs`,
`RedemptionProofs`, `PromoRedemptionProofs`, `CampaignApprovalProofs`, `CampaignCacheProofs`,
`RewardTrackingProofs` and `TrackingDispatchProofs`.

### Conventions
`X_Something` next to an operator `X` is `X` with one plausible bug; nothing uses it. The
`mutants` of PROJECT.json substitute it to show that a property notices. `*Props` modules hold
the properties, `MC*` modules the instances' constants; the `.cfg` files choose among them.

## 4. What TLC checks

| Run | Question | Instance and bounds |
|---|---|---|
| activity_siblings | does one sibling advance per activity, once, and does the tally stay right? | 1 customer, 4 activities, 2 sibling components and one of a tracker with unsupported logic, 2 lanes, 1 fault |
| activity_pooled | do ceilings and counters hold when customers race, and do lanes implement atomic handling? | 2 customers, 3 activities, 3 caps, 2 days, 2 lanes, 1 fault |
| activity_slow | does progress account for every counted row, and does every row settle, when two completions lock two budgets in opposite orders and a handler outlives the stale timeout? | 2 customers, 3 activities, 2 lanes, 1 overtaking sweep, fairness |
| dispatch | with two publishers, stale snapshots, lost answers and faults: is nothing marked that was not delivered, is tier 3 the last resort, what does it take to deliver twice or to make the tables disagree, does every reward within reach of the polls settle? | 2 rewards, the younger unreadable, 2 publishers, 1 worker, 2 attempts, 1 fault, fairness |
| finding_stranded | is a reward both tiers failed to deliver always retried? (violated) | 2 rewards, 1 publisher, 1 worker, 1 attempt, 1 fault |
| redemption | are reward systems called within the retry budget and granted once, do the tables tell the truth, does everything settle? | 3 entries, one without a connector, 2 workers, 2 sweepers, 2 attempts, 1 fault, fairness |
| promo_redemption | does a redemption record its own code, is the composition a Redemption? | 2 entries of different activities (one over Kafka with 2 attempts, one over gRPC with 1, both falling back to REST), 1 worker, 2 handlers, 2 codes, 2 generation attempts, 1 publish attempt, 1 worker fault, symmetry of codes and handlers |
| campaign_approval | is what runs reviewed by another person, does a decision move as one, does the status follow the published lifecycle? | two users who both make and check, an admin, the runtime, 3 contents, 2 requests, audit rows that may fail, symmetry of users and contents |
| finding_double_submit | do racing submits create one request? (violated) | 2 makers, a checker, an admin, 2 requests |
| campaign_cache | does the index agree with the entry, does nothing unapproved match, is one stream listened to, does the cache converge? | 2 versions, 3 changes, 1 event handler, 1 warmer, 1 poller, 2 streams, 1 fault, fairness |
| reward_tracking | is each event counted once, atomically, and is what was answered readable? | 4 entries, one malformed, 2 grains, one with a NULL column, 1 shard, 1 handler, the consumer, 1 reader, 2 messages, 1 fault, fairness |
| tracking_dispatch | is no announcement forgotten, and does every entry settle behind rows that cannot be sent? | 3 entries, the two oldest unreadable, 3 channel configurations, batch 2, budget 2, 3 throws to poison, 2 retries, 2 faults, fairness |

The bounds are enough for the cases they aim at. Two lanes are what any of the lock and claim
races needs; three activities of one customer complete a component, open a second cycle and race
a third row; two caps suffice for a breach after a passed check and for crossed lock orders. Two
attempts put a row through primary, fallback and tier 3 with a non-final and a final retry, and a
redemption through a retry and a last attempt. Two sweepers overlap on one entry, and two entries
let one worker call again while a handler still works for a caller that hung up. Two codes for
two correlation ids collide; with two generation attempts a collision is retried and exhausts.
One fault lands between any two statements. Handler deaths in promo_redemption are unbounded.
Two requests and two makers let a campaign be returned and approved, expire, or be submitted twice. Three changes approve, pause and
resume a campaign, or revise it under a stale answer, and the second stream is opened while the first
one's callbacks still run. A handler and the consumer meet on one event, on one grain and on one
shard. Two unreadable rows fill a batch of two, so only poisoning lets the third row through.

Two runs show where the code departs from what the repository says of it; each is described, with
the line it contradicts, under `findings` in PROJECT.json. `finding_stranded`: a crash while handing a
reward over to tier 3 strands it. `finding_double_submit`: two makers who submit one draft at once
create two requests. With `PROPERTY TableHolds` in place of its invariant, the latter's configuration also
shows a step from active to pending_approval, which no verb of the table has. More configurations are
kept to be run by hand (`tlc -config X.cfg M`), each violating its one property:

| Configuration, module | What it shows |
|---|---|
| FindingAllLogic, MCActivityProcessing | a tracker with logic `all` counts completions, not components |
| FindingSiblingTwice, MCActivityProcessing | with a required count above one, one activity can advance two siblings |
| FindingSharedCode, MCPromoRedemption | two rewards of one activity share its correlation id and get one code |
| FindingNoRepublish, MCPromoRedemption | a repeated request whose code exists is acknowledged without a reply |
| FindingUnreachedEvent, MCCampaignApproval | after a swallowed audit failure the runtime is told of a status the database never held |
| FindingResumedUnmatched, MCCampaignCache | an entry marked vanished keeps its etag, so a resumed campaign is not matched again |
| FindingPauseOverwritten, MCCampaignCache | an older answer applied after a pause keeps the campaign accruing |
| FindingPoisonedEarly, MCTrackingDispatch | attempts of earlier dispatches count towards poisoning |
| FindingBalanceTwice, MCRewardTracking | two requests that fill at once insert two balance rows for one fact |

Two more checks were made by hand because they take too long for a run or need a configuration of
their own. `EveryRowSettles` holds in ActivitySlow with `MaxFaults = 1` (46,493 states, five minutes).
`OneSiblingRemembers` holds in FindingSiblingTwice's configuration with three submissions, a fault and
overtaking sweeps (`MayOvertake = TRUE`, `MaxFaults = 1`, `MaxSweeps = 2`; 184,858 states).

**Fairness.** Lanes, pollers, workers and sweeps reschedule themselves for ever: weak fairness of
each loop, and of the clock that ends a back-off. A connector call ends because every connector
sets a timeout. For a statement waiting on a counter row, strong fairness: Postgres grants a
released row lock to its waiter, and a competing transaction's retry cannot overtake it
for ever. In campaign_cache timers fire and what is awaited resolves: an answer that never comes
is `FailCall`, which has a budget. In reward_tracking a handler runs to its end and the consumer
polls; in tracking_dispatch both pollers run on intervals and tracking consumes its topic, but a
call given up on need not end. Calls of the portal are not fair, and nothing is claimed to happen
there. Faults and deadlocks are not fair: they may never happen.

Liveness is stated as far as it holds. `EveryRowSettles` is about rows of trackers whose logic
the evaluator supports; `EveryRewardSettles` is about rewards ahead of the oldest unreadable row, which
ends every poll, and gives up on one that a fault struck half-way; `EverythingSettles` gives up when a fault has struck, because the code
has no way back from `processing` after a worker died; a redeemed entry needs no such excuse, since
the sweep looks again. `ActiveConverges` is about campaigns that stay active: for paused and resumed
ones the corresponding claims are two of the findings above. `EveryMessageLands` and
`EveryEntrySettles` say "again and again", for messages keep coming.

Deadlock checking is off for RewardDispatch, Redemption, PromoRedemption and TrackingDispatch, whose
pollers idle once everything has settled, and for CampaignApproval, where a campaign whose last
request expired stays where it is.

## 5. What TLAPS proves

**ActivityProcessingProofs.** `TypeCorrect`: `Spec => []TypeOK`, for any finite or infinite
sets of customers, components, caps and lanes. `CeilingsHold`: `Spec => []CeilingsRespected`.
The ceiling is not inductive by itself: between `CheckCap` and `Commit` what keeps the headroom
is the row lock. The inductive invariant `CapInv` therefore says, per lane: what is committed
plus what the lane has added fits (`SeenFits`), every counter it has added to is locked by it
(`SpentIsLocked`), every cap it has checked for its next reward is locked and still has
headroom (`CheckedIsLocked`), and outside a transaction it has nothing in flight
(`EmptyOutside`). Two lanes never hold one counter, so one lane's commit disturbs no other's.

Progress, tallies and entries. A handler decides by its customer's progress and tracker rows and
writes them at `Commit`, so `LockInv` says that a lane in `reserving` holds its customer's advisory
lock and that what it computed (the new cycles, the new status, the rewards due) is still what the
rules give for the committed rows (`Held`). On it rest `ProgressAccounts` (`ProgressInv`: the counts
of a component's cycles sum to the advances of its rows), `TallyMatches` (`TallyInv`: the tally
accounts for the completed cycles, and a status row is complete exactly when its tally is) and
`CompletionIsRewarded` (`RewardInv`). The last needs `EntryInv`: entries are for completed cycles
only, and a cycle's last writer is a row of its own customer and component; and `RowsHeld`: unless a handler may
outlive the stale timeout, a row in a lane's hands is `processing` and in no other lane's, so that a
row, once settled, stays so. `CountersMatch` adds to `EntryInv` that what a lane has spent but not
committed is what its granted rewards charge (`SpendsForGranted`). Sums over finite sets are counted
unit by unit (`Total`), so the lemmas about them are facts about cardinalities and need no induction.

Once. `RowAdvancesOnce`: a row that has advanced is settled (`OnceInv`). `SiblingMemoryIsSingle`: at most
one of an activity's sibling components remembers it in `last_activity_log_id` (`OneSiblingRemembers`),
for every configuration and with every hazard: a handler that advances a component has looked, under
the advisory lock, for a sibling that remembers. It is the part of "only one sibling can ever advance"
that the code keeps. The whole of it, `OneSiblingPerSubmission`, needs that the memory is never
overwritten: it is model-checked with required count 1, where it holds, and refuted with required
count 2 (FindingSiblingTwice). No theorem claims it.

Refinement. `RowsAreAtomic`: `Spec => ImplementsAtomic` if no handler may outlive the stale timeout
(`~MayOvertake`; a row handled twice is not handled in one step). Every step of a lane is a stutter
of AtomicProcessing except `Ingest`, `NextDay`, `SkipRow`, `AdvanceRow` and `Commit`. At `Commit`
the whole enforcement has to be justified by the counters as they are then, although rewards were
checked earlier, one cap at a time, while other lanes committed. `AtomicInv` says, per lane, that
enforcement so far is the enforcement of a prefix of the due rewards (`EnforcedSoFar`): handled
rewards precede unhandled ones (`InOrder`), a granted one had room with those granted before it
(`GrantsStand`), a denied one had none in some counter (`DenialsStand`), and the lane holds every
counter those decisions rest on, so `CountersStay`.

**RewardDispatchProofs.** `TypeCorrect`; `MarkedIsDelivered`:
`Spec => []MarkedMeansDelivered`. The invariant adds that a poller about to record a success
has an accepted send for the row in hand (`PublisherKnows`, `WorkerKnows`) and that retry rows
never disappear (`RowsExist`).
`RetryIsLastResort` holds for any number of instances, each
deciding by attempts it read earlier: attempts only grow, so a stale read (`ReadsAreOld`) errs
towards the primary channel, and an instance past its last attempt has used up both tiers
(`TiersUsedUp`). `DeliveredOnce` and `TablesAgree` hold for any publishers, workers, faults and lost answers, and
make their exceptions per reward, by its `mishaps`: a second delivery takes an answer that was
lost, two instances that held the reward at once, or a fault between its send and its statements;
tables that disagree at rest take one of the last two. `StoryInv` says of each reward that no
other instance and no fault disturbed (`Undisturbed`) where it is: at rest, at one statement of
the publisher that holds it, or in its one retry row, at rest or at one statement of the worker,
and what the three tables hold at each of those points.

**RedemptionProofs.** `TypeCorrect`; `CallsAreBounded`, `GrantsAreSingle`, `RecordsAreTrue`
(`RecordsAgree`); `FinalIsKept`:
`Spec => FinalStays`. None of these is inductive: a worker decides by the copy of `retry_count`
it took when it claimed, calls outside any transaction, and records later. The invariant `IInv`
says that no row is in two hands (`Exclusive`), that what a worker knows of its row is still so
(`HandTrue`), that begun calls never run ahead of `retry_count` by more than one (`RowTrue`),
and that a sweeper past its unlocked pre-check works on a redeemed row and flips what it has
reported (`SweepTrue`).

**PromoRedemptionProofs.** `Implements`: `PromoSpec => IsARedemption`, the refinement for every
number of workers, handlers, codes and correlation ids. It needs that a result message carries
an issued code (`Issuing`), or a late reply could hand a worker something no connector answers.
`PromoKeepsGuarantees` carries Redemption's bounds over. `PromoTypeCorrect` types the composition. `ReferenceIsOwn`: a handler that outlives its caller
must not answer the worker's next call, so `CodeInv` says that a handler keeps a caller only while
that caller waits for this correlation id (`CallersWait`), that one handler serves a call
(`OneHandlerEach`), and that answers, result messages and what a worker is about to record are the
code issued (`AnswersTrue`, `ResultsTrue`, `RecordsTrue`). It assumes that no code is also an error
answer (`ConnectorAssumption`): in the code they are fields of different message shapes.

**CampaignApprovalProofs.** `TypeCorrect`; `LiveIsReviewed`, `DecisionsMoveTogether`,
`OutcomesAreFinal`, for any makers, checkers and admins, acting together at will. The campaign's
status may move while a call holds what it read, so `CallsAreTrue` says what a call in flight still
knows: a decision is about a request its caller did not make, a transition leads to a live status.
`ReviewedFirst` adds that it was live, and so reviewed, when the transition read it: that an approval
once given stays (`ReviewedStays`) carries the transition over the submissions in between. `ReviewIsSingle` and
`TableIsFollowed` (the step-wise refinement to CampaignLifecycle) assume nothing about who acts: as long
as no maker's write was overtaken, one request at most is open, an approved campaign is live with the
content its checker saw (`ReviewHolds`), and whatever transition is in flight is on a live campaign
(`TransitionIsLive`), so `Stands` is inductive relative to `overtaken`.

**CampaignCacheProofs.** `TypeCorrect`; `IndexAgrees`, `OnlyApprovedMatches`,
`StreamIsSingle`. Every configuration in flight must be accounted for: `ContentInv` says that
whatever active configuration an answer, a snapshot or an entry holds, the portal held it while active
(`Provenance`), and that the index is the entry's (`EntryMatches`). `StreamInv` adds that whatever the portal publishes to is the current stream, and not closing.

**RewardTrackingProofs.** `TypeCorrect`, `TotalsAreRight`, `TrackingIsAtomic` (the refinement to
TrackedRewards), `DeliveriesAreTracked`, `ReadsFollowAnswers`. An upsert adds to what it read, so the
commit is right only if nobody else committed in between: `TrackInv` says that two open transactions
never hold one log key, one typed grain or one shard (`Held`), and that what each read of those is
still committed. `TellInv` and `ShownInv` carry that over to answers, offsets and balances.

**TrackingDispatchProofs.** `TypeCorrect`, `NothingIsForgotten`, `SettledRowsStay`. The publisher
decides by rows it read earlier: `BaseInv` says the rows in hand are pending and distinct, and
`KeepInv` that a publisher about to mark a row published has handed it over, that one about to mark
it failed has written its retry row, and that a worker about to delete has handed over. Only
after a statement that failed, at `record`, may the row in hand have left PENDING already.

The assumptions are the named ASSUMEs of the modules (well-formed configuration, distinct
`created_at`); TLC evaluates them on every run.

**Model-checked only.** Liveness (`EveryRowSettles`, `EveryRewardSettles`, `EverythingSettles`,
`ActiveConverges`, `EveryMessageLands`, `EveryEntrySettles`), which is beyond the prover. So is
`OneSiblingPerSubmission`, true only where siblings complete on their first activity, which the code
does not enforce. Every other property of the passing runs is a theorem, some under the hypotheses named
above, each of which the run that checks the property satisfies.

## 6. What is not modelled

Formatting, validation of wire messages, encryption, metrics and logging; rule operators
(whether a row passes is a constant); rolling, monthly and time-of-day periods; `max_customers`
and `is_mandatory`, which the enforcement code never reads; configuration changes during a
transaction; everything listed as `not_modelled` in PROJECT.json, with the reason there.

Most of the repository by size is the portal's configuration screens and their CRUD back end: schemas
of forms, list and detail queries, catalogue rows written by one statement, role scopes compiled into
SQL. It has no protocol to explore; what it decides enters as constants (`Content`, `Complete`, the
configuration of RewardRules). Login, sessions and role checks are left out too. So are customer
notifications of the redemption service, which are switched off as shipped and best effort; the read-only
query APIs; and the tracking service's cache of the campaign hierarchy. The portal is one process, as its in-process
`ChangeEventPublisher` assumes.

Of what is modelled, some behaviour is in the models but under no property, because it is neither
promised nor harmful enough to be one: two sweepers that both pass the pre-check report one
completion twice; a crash between `markCompletedDirect` and its side effects loses the report of
an unconnected entry; a reply can be consumed by a process of the shared consumer group that does
not wait for it, and the worker that does times out; the oldest unreadable outbox rows of
RewardDispatch keep younger ones out of a full batch.

One publish attempt of the promo-code outbox is one step, so two publishers of one row are not
told apart. Promo-code recipes, their versions and bindings are a choice in `Check`.
