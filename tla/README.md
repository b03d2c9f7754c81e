# Brevitas: verification of the parts that move money, jobs and requests

Brevitas is a gateway in front of LLM providers. It rewrites requests so that the provider's
prompt cache helps, meters what was saved, and bills a share of the savings through Stripe.
Around that it keeps a durable job queue, a fee ledger with a recovery worker, a writer of weekly
settlements, a provider circuit breaker, a distributed limiter, a response cache with a consent
policy, a cache-warming scheduler and a Stripe webhook inbox.

This directory holds TLA+ specifications of the protocols in and among those parts, the TLC
configurations that check them on small instances, and TLAPS proofs, for every instance, of
all the safety properties the runs check. `PROJECT.json` is the index: it maps each definition to
the source lines it stands for and lists runs, mutants (the way each property is shown to
depend on the code), findings, hazards and theorems. All paths below are relative to `src/`.

| module | what it is |
|---|---|
| `JobLifecycle` | what the job service promises a tenant and the provider bill, without slots and leases |
| `JobQueue`, `MCJobQueue`, `JobQueueProofs` | the durable job queue: clients, store, worker slots |
| `BillingRecovery`, `MCBillingRecovery`, `BillingRecoveryProofs` | fee ledgers, billing workers and Stripe |
| `SettlementWriter`, `MCSettlementWriter`, `SettlementWriterProofs` | the writer, promoter and sweep that fill the settlement ledger |
| `WebhookInbox`, `MCWebhookInbox`, `WebhookInboxProofs` | Stripe's deliveries and the subscription state they bring |
| `LimitLeases` | the limiter's Redis scripts: the abstract specification of a place in a limit |
| `Gateway`, `MCGateway`, `GatewayProofs` | one proxied call from admission to its last byte, on top of `LimitLeases`; the proofs of both |
| `ResponseCache`, `MCResponseCache`, `ResponseCacheProofs` | the response cache and the consent it depends on |
| `CacheWarming`, `MCCacheWarming`, `CacheWarmingProofs` | keep-alive pings under a daily budget |
| `ProviderCircuit`, `MCProviderCircuit`, `ProviderCircuitProofs` | the circuit breaker |

To run: `tlc -config queue.cfg MCJobQueue`, `tlapm JobQueueProofs.tla`; each `.cfg` belongs to the
MC module whose name `PROJECT.json` gives.

## 1. Inventory

For each part: its state (S), its operations (O), whom it talks to (I), what is hard (H), and
what makes it correct (C).

**Durable job queue** - `api/jobs.py`, `api/worker.py` (`_process_job`), SQL `claim_ai_job`,
`mark_ai_job_provider_outbound_started`. S: rows of `ai_jobs` (status, lease owner and expiry,
attempts, back-off, retention, cancel flag, outbound marker). O: submit, cancel, claim, renew,
mark, update, quarantine, purge. I: HTTP requests write by read-then-write; worker slots write
through a fence on owner, status and lease; the provider is called between marker and settlement.
H: crashes and lease losses anywhere, lost replies, cancel racing claim, three sweeps in one claim.
C: one accepted provider request per job, final outcomes stay, expired or cancelled jobs do
not run, every job ends.

**Billing recovery** - `api/billing_recovery.py` and the functions of `billing_ledger` and
`period_settlement_ledger`. S: fee rows (status, marker, lease, attempts), Stripe's meter events.
O: claim (sweeps, cap, expected total), reconcile, validate, begin_send, send, complete, release,
operator resolution. I: several workers, Stripe over HTTP, the settlement writer that adds rows.
H: an answer lost after Stripe took the event, identifiers Stripe remembers for 24 h only, 429,
lapsed leases, a lapsing account. C: no fee counted twice, none lost, cap kept, every row leaves the queue.

**Period settlement writer** - SQL `settle_billing_period` (202607280031), `promote_billing_period_settlement` (202607280013),
the row latches (202607280010), `api/billing_settlement_sweep.py`. S: drafts and revisions of a week's fee, the week's evidence
(receipts and warm spend). O: settle, promote, retract, the sweep's cycle. I: serialized with the claim by an advisory lock;
the processor of Billing recovery sends. H: late receipts, revisions, promotion racing a claim, an anchor that moves.
C: no usage is billed twice, and what becomes money is covered by the evidence of that moment.

**Stripe webhook inbox** - `src/app/api/billing/webhook/route.ts`, `src/lib/billing/webhook-inbox.mjs`,
`stripe-canonical-state.mjs`, SQL of 202607200001 and 202607200012. S: an inbox row per event with its lease, the revision of the
billing account. O: claim, renew, fenced compare-and-set, completion, failure. I: Stripe delivers until it gets a 2xx; serverless invocations.
H: duplicate and reordered deliveries, suspended invocations. C: the account ends up with Stripe's state; an older snapshot is never the last word.

**Distributed limiter** - `api/distributed_limits.py`, `api/server.py`. S: rate counters and four
sorted sets of leases in Redis. O: acquire, renew, release (atomic scripts). H: lost replies, replicas
whose clocks differ, a stream outliving its lease, a renewal that arrives late. C: concurrency within each limit, places come back.

**Proxy and request path** - `api/server.py` (`_protect_model_proxy`, `_lease_guarded_body_iterator`), `brevitas/proxy.py`,
`token_efficiency_model/lossless/batch_group.py`. S: a request's phase, the batch gate of a replica (one pathfinder, its siblings wait), a stream's
generator and its guard. O: admit, gate, call with retries, stream, meter, release. I: limiter, circuit breaker, response cache, usage store.
H: a guard and a generator that end in either order, retries of what may have run, a client that leaves. C: a place is held as long as the call runs;
nothing is shown after the lease is lost; what was cut is not metered; nothing is executed twice.

**Provider client pools** - `brevitas/provider_reliability.py`. O: request with retries, streams that own a permit.
H: a retry of what was already executed, a stream nobody closes. C: a permit is resolved once; non-idempotent calls are not repeated.

**Provider circuit breaker** - the same file, `ProviderCircuitBreaker`. S: a
bounded table of provider states and one of tenant circuits, under one lock. O: before_request,
record_success, record_failure, abandon. I: the HTTP client pools. H: half-open probes, late answers, eviction
with requests in flight, tenants that fail on purpose. C: one probe, stale answers ignored, one tenant
cannot open the shared circuit, refusals end.

**Response cache** - `brevitas/semantic_cache.py`, `brevitas/resource_bounds.py`, policy of `api/server.py`. S: consent flags, each server's short copy of a decision, the
table of answers. O: lookup, store (with the anchor of the savings), policy change with purge. H: a decision read before a change and kept after it, a store racing a purge.
C: replay only with consent, only what was complete and paid by the same tenant; a purge leaves nothing.

**Cache warming** - `brevitas/warming.py`, `api/worker.py` 568-760, SQL `warm_due_claim`, `warm_ping_settle`, `warm_prefix_observe`. S: prefixes
with a claim token, daily budget. O: observe, claim with reservation, ping, settle. H: a batch outliving its lease, crash between reservation and settlement. C: the day's
budget holds, a claim is exclusive within its lease.

**Checkout reservations** - SQL of 202607200014. S: generation, token, lease, session. H: two tabs, a crash after
Stripe created the session, Stripe's 24-hour memory. C: one live session per generation.

**Worker process** - `api/worker.py` 801-1124: job slots, billing supervisor, warming and sweeps in one process, with a bounded
drain. H: restart budget, cancellation while a thread still runs. C: billing is never silently dead; a send in flight is not repeated by the drain.

**Others** (credit ledger, usage store and receipts, lossless transforms,
quality gate, encryption, administration, compression service, observability, CLI and SDKs, dashboard)
are listed in `PROJECT.json` with the reason they are not modelled or the plan for them.

`PROJECT.json` "hazards" lists what is hard to test, each at its line, with the property that
would notice, or the reason there is none.

## 2. Plan

Done: `JobQueue` over `JobLifecycle`; `BillingRecovery`, both ledgers; `SettlementWriter`; `WebhookInbox`; `LimitLeases` and `Gateway` over it;
`ResponseCache`; `CacheWarming`; `ProviderCircuit`. Every safety property and the refinement that a passing run checks is also a theorem.

Left, in this order:

1. The per-row ledger with 429 and lapsing accounts: what weaker promise it keeps there (today `MarkerCorrect` and what follows assume them away).
2. `CheckoutReservation`: generations, leases and the 23-hour recovery mode of a Checkout session.
3. The worker's supervisor and drain: restart budget, escalation, the order in which pools are closed.
4. Invoices and the choice between two subscriptions of one account in `WebhookInbox`.
5. Pure algorithms: session delta encode/decode.

## 3. The job queue

### Correspondence

`row[j]` is an `ai_jobs` row, `slot[w]` the locals of `process_one` in one consumer, `client[c]` the locals of a
submit or cancel request, `accepted[j]` a history of how often the provider accepted job j. The
row's three deadlines are booleans ("still in the future") that `LeaseEnds`, `BackoffEnds` and
`RetentionEnds` switch: the code only compares them with `now()`. Row identifiers are uuid4 values, so a
row is submitted once.

- `SubmitCheck`/`SubmitCreate` and `CancelRead`/`CancelWrite` are the two halves of the read-then-write
  requests (`jobs.py` 912-967, 740-768), so that anything may happen in between.
- `Claim` is the whole of `claim_ai_job`: ambiguity sweep, retention sweep, attempt sweep over all rows, then the lease; its
  reply may be lost. `RetentionFence = FALSE` gives the SQLite and in-memory stores, whose claims look at retention of
  queued rows only; the proofs hold for both.
- `Start`, `Decrypt`, `WorkFails`, `Compress`, `Mark`, `Post`, `Answer`, `Produced`, `Confirm`, `Settle` follow
  `process_one` and `_process_job`. `Mark` persists the outbound marker, and may lose its reply. `Confirm` is the lease renewal
  before the fenced write of `Settle`.
- `Abandon` is a crash, a drain or a heartbeat that finds the lease lost: the slot forgets its job.
- `SlotId` maps slots to lease owners and need not be injective, because `BREVITAS_WORKER_ID` can be set to the same value on two processes.

Left out: Redis wake-ups (they only shorten a poll), the re-wrapping of stored ciphertext (`migrate_ciphertext`), back-off durations.

### Run

`queue`: 1 job, 1 key, 2 slots, 2 clients, 2 attempts, fair; 496 439 states, about two minutes. It checks the safety properties, the refinement of `JobLifecycle` and
`EventuallyEnds` on one state graph. Two slots are what a race over a lease needs; two attempts are the smallest number with a retry and an
exhaustion; two clients are needed for a cancel that overlaps another request. Jobs meet only in the
quota and in the order in which a claim picks them, so one job is enough for these properties; the proofs cover the rest.

`AtMostOneAccepted` and `BillingFence` are about the outbound marker; `BilledOutcome` about the order of the
sweeps; `OwnedMeansCurrent` says the fence, which compares owners and not attempts, is nevertheless enough; `LeaseShape`, `TerminalIsFinal`,
`CancelledNeverBilled`, `ExpiredNeverRuns` about cancel, purge, sweep and late writers. `ImplementsLifecycle` is refinement:
`phase` is the status with the three unfinished ones merged, `kind` the operation, `billed` the history `accepted`.

**Fairness**: a slot that has work goes on (`Progress`; every call in it is bounded by a timeout or by the heartbeat); an idle slot polls
(`Claim`); time passes for a lease nobody renews, a back-off and retention. Nothing is assumed of clients, of
crashes or of the provider's answers. Retention is what ends a job whose slots always crash.

### Proofs (`JobQueueProofs`)

From `JobQueueAssumption` only, for any sets of jobs, slots and clients, shared owners included:
`TypeCorrect`; `FenceCorrect`: `BillingFence` is an inductive invariant relative to `TypeOK`; `AtMostOnce`
follows from it; `FinalityCorrect` is the action property `TerminalIsFinal`. `AtMostOneAccepted` is not inductive: a state with
no request accepted and two slots about to send satisfies it. `BillingFence` adds that a job that was billed, or that a slot holds
the marker of, is sealed (marked or final), that at most one slot holds the marker of a job, and that the holder has not sent
yet wherever it may still clear it. The lemmas
go action by action (`ClaimFence`, `MarkFence`, `PostFence`, `SettleFence`, `StoreFence`, `StartFence`, `QuietFence`). `LeaseShapeCorrect` needs no more either.

Under `OwnersDistinct` (two slots never share a lease owner): `CurrentCorrect` (`OwnedMeansCurrent`), `BilledOutcomeCorrect`,
`CancelledCorrect` (`CancelledNeverBilled`) and `LifecycleCorrect` (`Spec => ImplementsLifecycle`, the refinement, step by step). The code gives slots
`{worker_id}_{slot}` with a random `worker_id` per process (`api/worker.py:899`, 987), so the assumption is what it intends; it is lost when `BREVITAS_WORKER_ID`
is set to one value on two processes. The fence compares owners only: a slot that passes it holds the row's current attempt because a row that is
leased anew while an old slot of it still runs is leased to another owner.

Under `RetentionFence` (the store of 202607280020): `ExpiredCorrect` (`ExpiredNeverRuns`). The other stores let a retry of an expired
row run, which is why the property is stated for that store.

## 4. Billing recovery

### Correspondence

`row[e]` is a fee row, `slot[w]` the locals of `_process_entry`, `wire` the meter events under way, `held[e]` how
often Stripe counted the fee, `forgot` the entries whose identifier Stripe no longer knows, `account` the billing account.
`Settlement` chooses the ledger. The two share the processor and differ in their SQL: which sweeps, whether `begin_send` refuses
a stale lease, whether a 429 clears the marker, whether a pending row may be marked.

- `Claim`: the sweeps (age, replay limit, attempts), the account check, committed sum, cap and expected total, the lease.
- `Reconcile`, `Recheck`: compare Stripe's total with the expected one. `Validate`, `Begin`, `Send`, `Answer`, `Unsend`, `Settle`: the rest of
  the cycle. `Drain` is the loop's `finally`; `Abandon` a crash.
- `Ingest`, `Drop`, `Forget` are Stripe and the network (external): an event with a known identifier is not counted again; an
  identifier is forgotten a day after it was counted, and only when no request is on its way. That is an assumption: the 23-hour limit and the request timeouts leave an hour for it, and a send delayed past that hour is outside the model.
- `Resolve` is the operator, who looks the fee up in Stripe before closing or requeueing, and does so only while no request of the row is on its way (`Quiet`): nothing in the code enforces that.
- `LeaseEnds`, `MarkerAges` (23 h), `WindowCloses` (34 days), `AccountChanges`: time and the account.

The entries are those of one organization in one week, because nothing else enters the committed sum. Back-off
times (`next_attempt_at`) are left out: any pending row may be claimed at once.

### Runs

| run | instance | shows |
|---|---|---|
| `billing_ledger` | 2 workers, 2 entries, fees together over the cap, a lapsing account; 1 106 763 states | `ChargedOnce`, `SentIsMarked`, `HeldIsAccounted`, `SendsFitCap` |
| `billing_settlement` | 2 workers, 1 settlement, with 429; 19 084 states | the first three, for the settlement ledger |
| `billing_live` | 2 workers, 1 entry, 429 and a lapsing account, fair; 45 681 states | `EventuallyClosed` |
| `billing_rate_limit_doc` | 1 worker, 429 | finding: a fee can be counted twice |

The switch `RateLimits` separates what holds from what does not: with a 429 the per-row ledger
loses `ChargedOnce`, and the runs that pass say under which environment they do. Stripe may answer any POST with another 4xx, also the replay of an event it counted before (a
rotated key, a deleted customer): the code closes that row as `dead`. A lapsed account closes it the same way. In the per-row ledger the fee then leaves the committed sum, which
`HeldIsAccounted` and `SendsFitCap` say (section 11); in the settlement ledger the marker keeps it there. What Stripe holds in total is therefore not bounded by the cap, and no
property claims it: `SendsFitCap` bounds every first send by what Stripe may hold of the rows nobody closed as dead.
Two workers are what a race needs, two entries what a cap and a total need, two attempts what a retry needs. One settlement is not a
bound: the schema allows one live settlement per period.

**Fairness**: a worker polls and finishes its cycle (every call has a timeout), and time passes. Nothing is assumed
of Stripe or the network: `Ingest` may never happen, a 429 may come for ever.

### Proofs (`BillingRecoveryProofs`)

`TypeCorrect` for all constants. `MarkerCorrect` (`SentIsMarked`) and `ChargedCorrect` (`ChargedOnce`) under `Settlement \/ ~RateLimits`, exactly
the condition the finding on 429 shows to be needed. The inductive invariant `SendFence` is the
conjunction of `TypeOK`; `Decided` (a slot that settles has a verdict); `SentIsMarked`; `MarkedInHand` (a worker about to send, or waiting for the answer, works on a marked row);
`UnsentIsLimited` (a slot is about to release an unsent row only where Stripe rate limits); `ForgottenIsOver` (once Stripe forgot an identifier, no event of it is on the wire and no worker may send
it); and `ChargedOnce`. Without `ForgottenIsOver` a step of `Ingest` could count a fee again.

`AccountedCorrect` (`HeldIsAccounted`) and `CapCorrect` (the action property `SendsFitCap`) under the same condition, whatever Stripe refuses and whatever account lapses.
To `SendFence` they add `LedgerKept` (`Spared`: a marked row is neither capped nor expired, nor, in the per-row ledger, pending) and `CapFence`. In the per-row ledger the first send begins
in the claim, and `HeldIsRead` shows that all Stripe may hold of rows not dead is in the sum this claim reads after its sweeps. In the settlement ledger the first send begins with the marker, without
another look at the cap: `CapFence` remembers that a row which is committed or in a worker's hands fitted when it was leased.
The sum is the community modules' fold over a set. What it does for every finite set is shown from scratch (`SumsExist`, `SumsAgree`, `SumWithout`, `SumBounded`): a set of subsets has a
smallest one, so a sum that fails somewhere fails on a subset whose parts are all right. `Entries` is assumed finite: it is a table.


## 5. Settlement writer and sweep

### Correspondence

Time is counted in half-days, so that a week boundary can fall inside a day of the warm budget. `usage[t]` are the eligible receipts of
half-day t, `warm[d]` the day's `spent_usd`, `ledger` the rows of `period_settlement_ledger` in the order of their ids,
`sweep[r]` the locals of `run_once` of a replica.

- `Settle` is `settle_billing_period` with `p_allow_revision`, called by hand; `Writes` is the same function called by the sweep without it.
  Both are one step, because the function holds the organization's advisory lock. The function is `Settled`: a first draft, a revision that
  supersedes the last row, or nothing.
- `Gate` is `assert_billing_period_settlement_allowed`: attestation, then the evidence ceiling. It runs again in `Promote`.
- `Retract`, `Begin`, `Finish`, `Retire` are what the operator, the processor and the claim may do to a row under the latches of 202607280010. The processor
  itself is section 4; here only status and marker matter.
- `Enumerate`, `Consider`, `Writes`, `CallFails`, `Stop` are the sweep; between any two of them everything else may happen.
- `Receipt`, `WarmBooked`, `AnchorMoves`, `AccountChanges`, `Tick` are external.

A fee is counted in units of the share the organization owes, and billable basis and gross savings are one number. So the halts of
202607280008 about concentration, share and zero spend are not there; they only refuse more.

### Runs

| run | instance | shows |
|---|---|---|
| `settlement` | a week of 2 half-days, 4 half-days, 1 replica of the sweep, receipts of -1 and +2, at most 2 receipts, 1 ping and 3 rows, 1 stop, 1 change of account; 2 327 106 states | `UsageBilledOnce`, `PromotedWithinEvidence` |
| `settlement_sweep_doc` | the sweep's guards on, fair | finding: the armed sweep drafts nothing |

Three rows are a draft, its revision and a row of another grid; two receipts are one before and one after a draft; a receipt that loses money
takes evidence away. `Guards = FALSE` in `settlement` because with guards the sweep would never write (the finding). Without the guards
`NoWeekIsLeft` holds. Time is bounded, so the run ends: deadlock is not checked.

### Proofs (`SettlementWriterProofs`)

`BilledOnceCorrect` (`UsageBilledOnce`) and `PromotionCorrect` (the action property `PromotedWithinEvidence`), from `SettlementAssumption` only: any usage, revisions, retractions and moves of the anchor.
The invariant says of the ledger (`IsLedger`): its rows are well formed and sound; of the rows of one week all but the last are superseded (`Replaced`); different weeks do not overlap, on whatever grids
they were cut (`Disjoint`). A superseded row is a draft or void and was never marked, so the draft to be promoted is the only row of its week that can count, and the gate's ceiling is about it alone. `SweepInv` says that the moment a sweep hands the writer is one.

## 6. Webhook inbox

### Correspondence

`stripe` is the version the subscription is at, `account` what the billing account shows, `inbox[e]` the row of the event that announces
version e, `acked` the events Stripe has a 2xx for, `call[w]` the locals of an invocation. The revision of the account
is only compared, so it is kept as "still the one I read" (`current`).

- `Claim`, `Complete`, `Answer`, `Fail` are the route and the inbox functions; `Retrieve`, `ReadRevision`, `Write`, `Confirm` the rounds of
  `reconcileCanonicalResource`. `Write` is the renewal and the compare-and-set, one transaction in 202607200012.
- A delivery that finds a live lease is answered 503 and changes nothing; it has no step. The heartbeat is a lease that stays live.
- `LeaseEnds` is the lease of an invocation that is gone; `Suspended` an invocation that is frozen past its lease and then goes on;
  `CallFails`, `ReplyLost`, `Crash` the failures. A claim whose reply is lost is a claim and a crash.

An older snapshot may overwrite a newer one: `Retrieve` and `ReadRevision` are two calls, and between them another invocation may
write. The confirming retrieval sees the difference and goes round again, or fails and leaves the event to Stripe. That is why the property is about the last word.

### Run and proof

`webhook`: 2 invocations, versions active, past due, active, canceled (so that two versions look the same), 2 rounds (the code has 4), 2 faults; 590 023 states, under two minutes.
`BehindIsPending` is the safety half, `CatchesUp` the liveness half. Two rounds are one repair and one exhaustion; two faults let a repair fail as well.

**Fairness**: an invocation goes on (the platform ends it after 30 seconds at most), the lease of one that is gone ends (60 seconds), Stripe delivers again whatever
it was answered (strong, because a busy inbox refuses it again and again). Stripe gives up after three days; what happens then is outside.

`WebhookInboxProofs` shows `NeverBehindForGood`, `Spec => []BehindIsPending`, for any versions, contents, rounds and invocations.
`BehindIsPending` is not inductive: an invocation may be about to complete the only pending event while Stripe has
moved on. The invariant (`LastWordIsOpen`) asks for an *open* event, one that is pending and that no invocation will complete without looking at Stripe again; every `Change` opens
the event it announces, and what `Confirm` lets pass agrees with the account. Its other parts are `TypeOK`, `CallsFit` and `RowsFit`, which tie the locals of an invocation to rows.

Left out: invoice events (the same loop with another resource), the choice between two subscriptions of an account, deleted customers, and the
credit grants and arrangement requests the route makes along the way, which are idempotent on the event id.

## 7. Limiter and gateway

### Correspondence

`LimitLeases` is the limiter as Redis sees it. A score is kept as the time left until it is reached on the slowest clock; a caller whose clock is d ahead
removes members earlier and writes later scores. `AcquireGranted`, `AcquireRefused`, `RenewScript`, `ReleaseScript` are the three scripts,
`Lose` a Redis without its keys. `LeaseSpec` lets anybody call them at any time.

`Gateway` extends it with one proxied call per request: `Admit` is `_protect_model_proxy`; `EnterGate`, `LeaveGate`, `GateReleased` the pathfinder gate of a replica;
`CallAnswers`, `CallRetries`, `CallFails` the pool's `request`; `GeneratorReads`, `GeneratorEnds` the stream generator of the handler; `GuardStarts`, `RenewalFires`, `RenewalEnds`,
`GuardReads`, `GuardYields`, `GuardEnds` the lease guard around it; `LateRenewal` a renewal canceled with its guard that reaches Redis later. `Disconnect`, `Crash` and `RedisLoses` are the failures.
After `yield chunk` the guard is the client's: it waits (`held`) for the send of the chunk to return, which has no timeout, here or in `api/serve.py`, and goes on with `ClientTakes`. The renewal beside it
goes on meanwhile; when it loses the lease, the guard does not notice before the client moves (`Stalled`), and nobody renews any more.
`Tick` waits until nothing is due: an attempt ends by its timeout, a wait by `max_wait`, a renewal starts on its interval.

### Run

`gateway`: 2 requests (one streams) of one organization with a key each, one place per set, one replica whose clock is set forward between them, 2 chunks, 1 retry,
1 loss of Redis, the default lease; 212 641 states. Two requests are a pathfinder and its sibling, a holder of a place and a claimant. The organization is the shared set; the keys
are sets that only one of them uses. `Lease` is `DefaultLease`, the code's own formula: it is what `RunningWithinLimit` examines, for a lease without
the margin loses the property.

**Fairness**: everything a server does for a request goes on, since every call in it has a timeout, and time passes. Clients owe nothing, not even that they take a chunk, nor do crashes, losses and late renewals.

- `PlacesBounded` (about Redis) and `RunningWithinLimit` (about the calls) differ: a call may outlive its lease. The one call that does is a stalled stream: it lost its
  lease while its guard waited for the client, which may be at any time and for any time. `RunningWithinLimit` counts all others, slow readers whose renewals succeed included.
- `ReleasedIsGone`: a late renewal does not bring a place back. `PlacesComeBack`: every place is free again and every call over, whatever was lost; except that a
  client which holds its stream open and reads no further keeps the call, and as long as the renewals succeed the place (its second disjunct).
- `NothingAfterLoss`: no chunk after the loss of the lease was noticed, not even one already read. `CutIsNotMetered`: a stream is metered complete or not at all.
- `ExecutedOnce`: retries follow only where the provider did not execute, or deduplicates.

### Proofs

All in `GatewayProofs`. `LeasesCorrect`: `LeaseSpec => []PlacesBounded`, by `LeaseTypeOK /\ PlacesBounded`, for any hierarchy, lease and skew. An acquisition adds a member to a set that had room
once the expired are gone; a renewal adds none, because it writes only where the member is still there in every set.

`GatewayImplementsLeases` (`Spec => LeaseSpec`: every step drives the scripts in a way `LimitLeases` admits; a request is admitted once and is not present before),
hence `GatewayKeepsPlaces`; further `GatewayTypeCorrect`, `ReleasedStaysGone`, `NeverExecutedTwice`, `CutNeverMetered`, `NothingShownAfterLoss`. The invariant is `CallsInv` (what a phase says of the other fields of a call),
`RestType` and `PlacesInv` (who may be present in a set, and who is freed).

`LimitHolds` (`RunningWithinLimit`): no more calls run than the limit has places, although Redis only counts leases. It assumes `LeaseIsLong`: a lease is longer than all attempts of a plain call, the wait at the
gate and the clock skew together, and than a renewal interval and the skew. The code's formula (`_default_lease_seconds`) adds 60 seconds to the attempts, of which the gate takes 15 at its default; the rest is room for the skew.
The invariant (`Timely`) bounds, phase by phase, how much of its lease a running call still has: so its member has not expired on anyone's clock, and `PlacesBounded` counts it. Calls admitted before Redis lost its keys are counted apart, and stalled streams not at all, in the property and in the invariant:
once stalled, a stream can only end (`ClientProceeds`), so it is never counted again.

## 8. Response cache

`flag` is consent of the organization and of its customers, `policy[p][t]` a server's copy of a decision, `cache` the shared table, `put[p]` a policy change in progress, `req[r]` the
request. `Arrive`, `ReadPolicy`, `KeepPolicy` are `_cache_enabled_cached`, with the read and the writing of the copy apart. A store is one or two writes: `FirstStore` names the anchor, and after an error of it,
of which it may have been done, `StoreAgain` writes without one, where the `ON CONFLICT` of the old overload keeps a stale origin; anything may happen between the two, a restart included.
`WritePolicy`, `InvalidatePolicy`, `Purge`, `AnswerPut` are `set_cache_policy`. `since[t]` is a history:
for how long the tenant's consent has been over. The table evicts by `created_at`, which leaves the order of rows of the same instant open
(`brevitas/semantic_cache.py:617`): `cache` is a set of rows, and `Oldest` any of the oldest.

`response_cache`: 3 requests (two of one customer at one server, one of the organization at another), a decision's life of 1, an entry's life of 2, a table of one entry, reads of the policy that take up to 1, up to 1 from the
decision to the lookup, calls that take no time, 1 policy change at either server, every combination of initial flags; the customer's requests are interchangeable (`Twins`). 2 666 332 states, under three minutes. One customer
and the organization are what the fallback needs; the second request finds the decision and the answer of the first; two servers, a copy the change does not reach; a table of one makes the tenants compete for it.

- `ServedWithConsent`: a replay comes less than a read, a decision's life and the way to the lookup (`ReadTime + PolicyTTL + LookTime`) after consent ended. The read is
  part of the bound because a decision read before a change is kept with a full life after it, the way because the decision is not looked at again. `ReadTime` and `LookTime` are environment assumptions: nothing in
  `_protect_model_proxy` bounds its awaits together (`api/server.py:2021-2063`), and one of them is the client's upload of the body. The window of the comment at `api/server.py:1926-1927` is shorter (section 11).
- `ReplayIsOwnPaid`: answer and anchor are complete, paid calls of the same tenant, whichever of the two writes was done.
- `PurgedIsGone`: after "purged: true" nothing is left of a request that was over when the policy was changed. A request between its two writes is not over: it may put an answer back that the purge removed (section 11). A write
  is taken to be done, if at all, by the time its error is seen; only the second may arrive after its server is gone.

The time of a call does not matter to these properties (stores come after its end), hence `CallTime = 0` in the run. Fuzzy matches and the
normalisation of prompts are left out: all requests of a tenant ask the same question.

`ResponseCacheProofs` shows all three from `CacheAssumption`, for any tenants, servers, requests, tables and times: `ReplayCorrect`, `PurgeCorrect` and `ConsentCorrect`, and `TableCorrect` (the types and
the bound of the table). The invariant has a part for each. `AnswerInv`: what is in the table or in a request's hands is of its tenant, complete and paid. `PurgeInv`: what a policy change has to remove is of requests that write no
more (`Done`), so nothing still to be written can bring it back, and what is left of it lies in a namespace still to be purged. `ConsentInv`: how long the consent behind a copied decision, or behind one in a request's hands, can
be over by now; the age of the read, the age of the copy and the way to the lookup add up, which is the bound.

## 9. Cache warming

`row[x]` is a prefix with its claim token, `cred` the credential with the terms it is used under (`daily_budget_usd`, `max_warm_customers`, `max_pings_per_customer_day`, rewritten by every `SaveCredential`), `ledger[d]` what is
reserved and spent of a day's budget, `claim[t]` what a worker holds under token t; histories are `charged[d]`, what answered pings cost, and `granted[d]`, the budget under which the day's last claim was made. `Observe`, `SaveCredential`, `PurgeCredential`, `Claim`, `SettlePing` are the SQL functions; `SkipPing`, `SendPing`, `PingAnswered`, `Crash` are `_warm_one` and the loop around it. Which candidates a claim takes
is free, where the code ranks them. `charged` counts answered pings: a connection that breaks, and a ping whose thread runs on after a drain cancelled its coroutine, settle as nothing although
the provider may charge for them, the gap that the comment at `api/worker.py:643` admits.

`warming`: 2 days, 2 workers, 2 prefixes of one customer, 2 claims, lease 2, reserve 2 of a budget that the administrator sets to 2 or 4 at any time; 503 385 states, one and a half minutes. Two days are
a batch that passes midnight; a ping costs half its reservation or all of it; two claims are a lapsed one and its successor, a batch that fills the higher budget, or one claim that fills the lower budget and one that must wait for the higher. Prefixes and workers are interchangeable and the properties are safety, so symmetry is sound.

- `ChargesCovered`: what was charged is booked on the day it was reserved, and a day's bookings stay in the budget of its last claim, through lost settlements, crashes and changes of the budget. It is not the budget of the moment: one lowered below
  what is booked refuses further claims and takes nothing back (`warm_credentials_upsert` never looks at the ledger).
- `HeldWithinLease`: live traffic does not take a claim away from its worker.

`CacheWarmingProofs` shows both from `WarmingAssumption`, for any days, workers, candidates, budgets to choose from, limits and lease: `ChargesAreCovered` and `ClaimsAreHeld`, and `WarmingTypeCorrect`. `ClaimInv`: within its lease a claim agrees with its row (the
token, and what is left of the lease). `StopInv`: a row with a claim is below the stop-loss. `MoneyInv`: a day's ledger covers what was charged and, per claim, one reservation for each dollar that a worker holds or
has yet to book, counted as sets of pairs, and stays within the budget of the day's last claim.

## 10. The circuit breaker

`state[p]` and `scope[<<p, t>>]` are the two tables with a `present` flag per entry, `call[c]` the permit a request holds. `opened_until` becomes closed / open / due,
`generation` the flag `current` of a permit (cleared when the circuit opens), `last_seen` the flag `old`. The lock of the breaker makes each
operation one action. `BeforeScoped` and `BeforeUnscoped` are `before_request` with everything it calls, in its order: tenant table, tenant window, cleanup,
provider table, shared window, probe token. Eviction takes any evictable entry where the code takes the least recently used one, so what is
shown holds for every order of use. An entry ages only when it could expire, since its age decides nothing before. Failures are counted up to the threshold,
`_MAX_STREAK_SCOPES` (8) is never reached because two tenants open the circuit.

`circuit`: two providers competing for a table of one, two tenants competing for a table of one, two requests, threshold 2, fair; 64 080 states. Tables of one entry make eviction and the "no room" refusal
happen; two requests are a probe and a late answer. With `MaxScopes = 2` the
same properties hold (670 344 states, about five minutes), which lets both tenants be tripped at the same time.

- `PermitsCounted`: the docstring's "Active permits are never evicted". - `OneProbe`: half-open lets one request through. - `StaleIsIgnored`: a permit of an older generation moves nothing.
- `OneTenantNeverOpens`: the docstring's reason for scopes. - `RejectionEnds` under fairness: a request that is not streamed ends (timeouts, and its pool resolves the permit on every path) and a
window runs out. A managed stream (`Streams`; one of the two requests of the run) owes nothing: its permit is resolved when it is read to its end or closed, and its reader waits for a client without a timeout
(section 7). So the property says that refusals end unless such a stream is the probe and keeps the token.

`ProviderCircuitProofs` shows the four safety properties (`PermitsCorrect`, `ProbeCorrect`, `TenantCorrect`, `StaleCorrect`) and `CircuitTypeCorrect` from `CircuitAssumption`, for any providers, tenants, thresholds and
sizes of the tables; the set of requests is finite. The invariant is `Typed /\ Circuits`: the counter of a state is the number of permits out on it, a state with permits is present, a circuit that is not
closed has at most its probe as a current permit, and a tenant alone does not fill the streak.

## 11. Findings

With a run that TLC must find violated, and the quoted line in `PROJECT.json`:

1. `billing_rate_limit_doc`: a 429 on the replay of an ambiguous send erases the marker of the earlier send; the entry is no longer reconciled nor limited in age,
   and is counted twice after Stripe forgot the identifier.
2. `settlement_sweep_doc`: the sweep asks for the summary of a closed week from a function that answers for the current week only, so every candidate is skipped and no
   week is drafted.

Met while modelling, without a run:

- `submit` counts active jobs and inserts later (`api/jobs.py:928`), so concurrent submits pass the bound of `api/jobs.py:904` together.
- Reconcile compares Stripe's current total with one computed at claim time (`api/billing_recovery.py:757`, 461-463); another worker's entry of the same fee makes them equal, and
  an entry is reported that Stripe never received.
- An entry with an ambiguous send is dead-lettered when its account lapses and leaves the committed sum (`supabase/migrations/202607200006_*.sql:372`, 393-396), and so does one whose replay Stripe refuses
  with a 4xx although it counted the first send (`api/billing_recovery.py:1014-1016`); later claims may then pass the weekly cap. `api/billing_recovery.py:539-541` says of `dead`, "permanently discarded revenue, no
  review queue", that it "is only correct when Stripe judged the event itself invalid". In the settlement ledger the marker keeps the fee committed.
- A settlement reclaimed past its attempts and then rate limited is selected by nothing again (`supabase/migrations/202607280034_*.sql:164`).
- A pathfinder whose stream's error body cannot be read does not release its gate (`brevitas/proxy.py:1405-1411`); its siblings wait `max_wait` each.
- "the other replica keeps serving cache for at most this window" of `_CACHE_ENABLED_TTL_S` (`api/server.py:1926-1927`): it may be longer, and on the replica that takes the change too. A read begun before
  `PUT /v1/cache-policy` puts a decision back after the invalidation (3493), with a full life, and a request holds its decision through the warm-policy read (2024), the body (2046) and the limiter (2052) before it
  looks the answer up. The bound of `ServedWithConsent` counts both.
- A store whose first write was done but lost its reply writes again (`brevitas/semantic_cache.py:886`). A policy change answered with `"purged": true` in between has removed the first write, and the second puts the answer back until it expires.
- The anchor-less store keeps the origin of the row it replaces (`supabase/migrations/202607170002_*.sql:156-218`). It is still a paid call of the tenant.
- The enumerator's limit is taken before the sweep skips, so weeks it keeps skipping, and a voided week, whose settling always answers `period_already_settled`, can use it up.
- "Stop a response body immediately when its distributed lease is lost" (`api/server.py:1801`): not while the guard waits in `yield chunk` (1873) for a client that does not read. The send has no timeout, so the
  provider's stream stays open, without a place, until the client reads or leaves, and the next call is admitted beside it. While the renewals succeed such a client keeps the place itself.
- A timeout of httpx bounds one read, not an answer that trickles: the default lease, and with it `RunningWithinLimit`, supposes that a plain answer ends in time.
- A batch of pings may be booked after midnight by more than the margin the settlement allows for (300 s).
- Pings whose outcome is unknown do not count in `max_pings` (`api/worker.py:650`); two pings of a cycle whose hashes share 16 characters share a receipt id (`api/worker.py:691`); the
  reservation of a crashed ping stays for the day.
- Closing on shutdown may close a pool that a request uses (`api/server.py:425`); one failing task ends the worker's `gather` (`api/worker.py:1085`) before the drain.
- In the SQLite and in-memory stores a running job with a pending cancellation whose worker died is never ended (`api/jobs.py:561`).
- A half-open probe that is a stream keeps its token, and every other request to the provider is refused, until the stream is read to its end or closed (`brevitas/provider_reliability.py:608-678`, 837-841).
  Nothing bounds that: the guard in front waits for the client (`api/server.py:1873`), and a stream that was handed over and is never iterated is left to the garbage collector.
- A tenant stays in the circuit's streak after its own window is over (`brevitas/provider_reliability.py:458`); failures of tenants without room in the tenant table are counted nowhere (353).

## 12. What is only model-checked, and what is out of reach

- Liveness (`EventuallyEnds`, `EventuallyClosed`, `RejectionEnds`, `PlacesComeBack`, `CatchesUp`, `NoWeekIsLeft`) needs fairness and ENABLED, which the prover does not handle: TLC only.
- Every safety property of a passing run is a theorem. What the theorems assume beyond the constants' own assumptions is named where it is used: `OwnersDistinct` and `RetentionFence` (section 3), no erased marker
  for the per-row ledger (section 4), `LeaseIsLong` (section 7). The runs that check these properties satisfy them.
- The library's induction theorems take an operator, which no back end instantiates. Sums over sets are therefore handled by smallest counterexamples (section 4), by unfolding (section 5) or by counting pairs (section 9).
- The type invariants are proved, except that of the settlement writer, which bounds time and ledger for TLC; what the proofs need of it is in `IsLedger` and `SweepInv`. Those of the
  circuit are checked by its run as well.
- The inductive invariants were checked by TLC on the runs' instances before they were proved.

**Not modelled.** Checkout reservations, the worker's supervisor and the credit ledger are protocols and are left in the plan. The rest is sequential: usage
store, transforms and sessions, quality gate, encryption, administration, compression, observability, CLI, SDKs, dashboard parse, store, render and forward; a state machine would restate
them. Those parts are most of the code, `api/server.py` and `api/store.py` above all, so the modules map a small share of the lines, and much of the modelled logic is in SQL and TypeScript.

No module uses a RECURSIVE operator. Every definition marked "Defect" is a plausible mistake in the code, used only to show that a
property depends on the definition it replaces; nothing else refers to it.
