# Formal models of CangQiongProject

TLA+ modules, TLC instances and TLAPS proofs for the take-out platform in `src/`:
the Java service `sky-server` (orders, menu, seckill coupons), its libraries
`sky-common` and `sky-pojo`, and the Python customer-service agent `sky-agent`.
Line numbers below are those of the files in `src/`; `PROJECT.json` maps every
definition that models code to its lines.

The part that is hard is the *asynchronous claim of seckill coupons*. One press of
a button crosses Redis, RocketMQ and MySQL with no common transaction, and four
further flows (consumption, failure routing, reconciliation, repair) exist only to
put together again what a crash, a lost reply or a second delivery took apart.
There is no Java test for any of it. The other part with protocol state is the *agent*:
a conversation in which a language model proposes, the user consents and the program
writes; the database transaction that makes a write happen once; the snapshots of the
knowledge base, replaced while the service reads them; and the circuit breaker around
every dependency. These are modelled; section 2 says what is not yet.

## 1. Inventory

| Component | State it keeps | Operations | What is hard | What makes it correct |
|---|---|---|---|---|
| Claim request (flow 3) | Redis: activity hash, user set, hash claimId -> userId; RocketMQ half message | transactional send, Lua pre-deduction, check-back | reply lost after Lua, producer crash, check-back at any time, failover | a granted claim is never lost; a refused one is never issued |
| Claim persistence (flow 4) | `seckill_coupon.remaining_stock`, `user_coupon` | `persist()`: two lookups, conditional decrement, insert | at-least-once delivery, several consumers, rollback after the decrement | no oversell, no leak, one coupon per user |
| Failure routing (flow 5) | retry counters, dead letters, governance topic, failure table | retry policy, failure producer, dead-letter audit, upsert | each hop has its own retry budget and may fail half way | every failure is a row, or parked where an operator finds it |
| Reconciliation, repair (flows 6A, 6B) | failure row: status, lease token and deadline, attempts, resolution | lease by CAS, evidence from MySQL and Redis, forward repair, conclusion | leases that expire under a slow holder, evidence read in pieces while messages arrive, swallowed errors | conclusions are true and final, no double issue, everything concludes |
| Settlement (flow 6C) | settlement row, evidence expiry in Redis | lease, comparison of totals, evidence cleanup | totals read at different times; cleanup before the conclusion | consistent only when nothing is in flight |
| Activity administration | coupon row, Redis activity hash | edit, enable/disable, AFTER_COMMIT listener, compensation messages, start-up repair | read-then-blind-write against consumers; synchronisations out of order | the stock in Redis is never above what MySQL can give |
| Orders and payment | order row, cart rows | submit, pay callback, confirm, reject, cancel, complete, timeout task | the operators check the status and then update unconditionally, the user's cancellation does not check; the nightly task writes back stale entities | a finished order is not changed again; a cart is ordered once |
| Display cache | local Caffeine, Redis with logical expiry, broadcast invalidation | read-through, rebuild under a lock, invalidate | reload between two invalidations | the cache converges to MySQL |
| Agent graph and action workflow | LangGraph checkpoint: action that waits, action set aside, action identifier, decision with missing fields | 22 nodes and their routers: confirm, expire, interrupt, set aside, resume, revalidate, execute, reply | any message at any point, every service failing, a crash between two nodes | only the confirmed action runs, under its own key; replies are true |
| Agent understanding and compilation | none | message rules, decision compiler, policy by risk level | the proposal of the model is not trusted | only orders the user named; a refund only with the user's reason |
| Agent business writes | orders, refund requests, tickets, `business_action_receipts`, audit events | `execute_idempotent` around cancel, refund, ticket, escalation; `commit_business_write`; execution audit | concurrent runs with one key, READ COMMITTED, lost commit replies, three transactions per write | one change per key, true reports, audit ahead of the change |
| Agent knowledge snapshots | Qdrant collections with their metadata, the alias | build, reuse, rebuild, activate, roll back; retrieval and readiness | remote calls that fail before or after their effect, jobs that die, jobs side by side | readers always find a whole snapshot |
| Agent memory | memory records of a customer | retrieve, remember, forget | it is optional: its failures must not change a run | a failing memory hides nothing |
| Agent operator view | - | projection of a checkpoint to what operators see | many optional fields left by different nodes | agrees with the database |
| Agent reliability control | circuit, bulkhead, retry and rate windows per dependency | `before_call`, `record_success`, `record_failure`, `cancel_call` | reports arrive in any order, long after admission | trips at its threshold, does not leak probes, recovers |
| Menu, employee, address CRUD; reports; JWT; WebSocket; external clients; agent ranking, answers, authentication, configuration, metrics | rows, files, sessions | single statements, aggregation, I/O | nothing concurrent of their own | - |

Interactions. The controller calls the producer, the producer the broker, the broker
calls back the transaction listener (`executeLocalTransaction` runs the Lua script,
`checkLocalTransaction` reads the claim hash) and hands the message to the consumer,
which calls `persist()`. What `persist()` throws goes through the retry policy either
back to the broker or, synchronously, to the governance topic; the dead-letter
consumer writes to the same topic; the failure consumer upserts rows. One scheduler
thread per replica runs reconciliation, then repair (which calls the same
`persist()`), then settlement, every 30 seconds.

In the agent, `AgentRuntime.run` loads the checkpoint of the conversation and invokes the
graph for one message. The nodes call the language model, the memory, the policy
repository and the tools, each through `run_with_retry` and its circuit; a write tool
goes through `execute_tool`, which audits the attempt, runs `execute_idempotent` in one
database transaction and audits the outcome. The HTTP routes call the same idempotent
writes without the graph. `retrieve_knowledge` reads Qdrant through the alias that the
ingestion script moves. The operator view projects the checkpoint.

Every hazard that was found, with its line and the properties aimed at it, is in
`PROJECT.json` under "hazards"; those without a property say why.

## 2. Plan

Order of work; steps 1 to 10 are done, the rest is open.

1. `CouponIssue`: the abstract promise about one coupon.
2. `ClaimPipeline` (flows 3, 4, 5), with `CouponIssue` as its abstract specification.
3. `ClaimPipeline_proofs`: type correctness, stock, refinement, no claim vanishes, what
   Redis hands out;
   `ClaimAgreement_proofs`: what Redis, MySQL and the answers have to do with one another.
4. `ClaimGovernance` (flows 6A, 6B), the second implementation of `CouponIssue`, and
   `ClaimGovernance_proofs`.
5. `CircuitBreaker` and `CircuitBreaker_proofs`.
6. `BusinessWrites` with the abstract `ActionEffects` and `IdempotentWrites`, and
   `BusinessWrites_proofs`.
7. `AgentDecisions`, the pure part of the agent, and `AgentGraph`, one conversation,
   with the abstract `ActionLifecycle`; `AgentGraph_proofs`, and `AgentReplies_proofs`
   on what the user is told and the operators are shown.
8. The memory and the operator view as far as a conversation can tell: in `AgentGraph`.
9. `KnowledgeSnapshots` and `KnowledgeSnapshots_proofs`.
10. `ClaimSettlement` (flow 6C), which extends `ClaimPipeline`; its theorems are in
    `ClaimAgreement_proofs`.
11. `ActivityAdmin`: administrator, AFTER_COMMIT synchronisation, compensation,
    start-up repair, consumers; the edit that writes the stock it computed from a read.
12. `TakeoutOrder`: order status machine under operators, users and the nightly
    task; the cart under concurrent submissions.
13. A repair that is taken over after it persisted, in `ClaimGovernance`.
14. `DisplayCache`: two levels, logical expiry, broadcast invalidation.
15. `GovernanceTiming`: backoff and batch arithmetic as functions against a reference.
16. The records of the memory: supersession under concurrent requests, retention.
17. Proofs of the safety of steps 11 to 14; that of the modules there are is proved.

## 3. The modules

### CouponIssue

`issued` is the set of claims that have become a coupon; `Issue(c)` adds one whose
user has none, while there is stock. Coupons never disappear and never change hands.
It says nothing of Redis or messages: it is what users and accounting may rely on.

### ClaimPipeline

One coupon, the set `Claim` of claimIds (a user who presses twice has two), consumer
threads `Worker` of all replicas.

| Variables | Code |
|---|---|
| `open`, `redisStock`, `redisUsers`, `redisClaims` | the activity hash, the user set and the claim hash the Lua script works on (`seckill_coupon.lua`) |
| `attempt`, `half`, `answer` | producer thread, half message at the broker, what the client was told |
| `inbox`, `deadLetters`, `failureTopic`, `parked` | message copies with their reconsume times in the claim topic, its dead-letter queue, the governance topic, and the queues nobody reads |
| `remaining`, `userCoupon`, `failureRows` | `seckill_coupon.remaining_stock`, `user_coupon`, `seckill_coupon_claim_failure` |
| `job` | what each consumer thread is doing, and on which delivery |

| Actions | Code |
|---|---|
| `SubmitClaim`, `SubmitFails` | `sendMessageInTransaction`, with or without a stored half message |
| `ExecuteLua`, `LuaFails` | `executeLocalTransaction`: one atomic script; an exception leaves it unknown whether the script ran |
| `EndTransaction`, `EndTransactionLost`, `ProducerCrash`, `CheckBack` | commit, rollback or unknown; the one-way end message lost; the broker's question to any replica |
| `CloseActivity`, `ReenableActivity`, `Failover` | the activity in Redis, and a replica without the last claim |
| `Deliver`, `PersistRead`, `PersistWrite`, `PersistFails`, `Ack`, `WorkerCrash` | `onMessage` and `persist()`: the lookups and the writes are different steps, each transaction atomic |
| `RetryLater`, `RouteFailure`, `RouteFailureFails` | `handleClassifiedFailure`, `routeFailure`: redelivery, or the synchronous send |
| `AuditDeadLetter`, `AuditFails`, `RecordFailure`, `RecordFails` | the dead-letter audit and the failure consumer, each with its own budget |

`Classify` is `SeckillCouponClaimRetryPolicy` together with the order of the catch
clauses of `onMessage`. A failed step that may have taken effect is a choice between
having and not having it. `Fault` counts every crash, lost reply, error, duplicate
delivery and failover and is bounded by `MaxFaults`.

Abstractions. Messages are valid and claimIds are fresh UUIDs, so the outcomes for
invalid messages and for one claimId bound to two users do not occur: no producer of
this code creates them. The refusal codes of the script are one refusal. The broker's
discarding of a half message after many unknown check-backs is left out.

### ClaimGovernance

The failure rows of claims, the scanners that work on them and everything that moves
under them: late copies of the claim being consumed, rival claims, Redis losing
evidence, time. A scanner first lists candidates and keeps a *copy* of the row
(`work[s].seen`, `work[s].attempts`), then takes the lease (`TryClaim`: the two CAS
updates of each task), reads MySQL by claimId, MySQL by coupon and user, the claim
hash, the user set - each in a step of its own, as in
`SeckillCouponClaimEvidenceInspector` - and decides; `Complete` is guarded by the
token. `row[f].expired` stands for `next_reconcile_time` in the past. It may become
true while the holder is still at work, since the deadline is computed once per batch.
Backoff is "after some time".

`readable` is whether the stored message body still decodes to the claim of the row.
Left out: rows without identity, coupons deleted meanwhile, a claimId bound to another
user (no operation creates them).

### ClaimSettlement

Extends `ClaimPipeline`: a step of the pipeline is a step here (`PipelineStep`), and
what settles its activity goes on beside it.

| Variables | Code |
|---|---|
| `over`, `evidence`, `cleanup` | `claim_end_time` has passed; which evidence keys are left in Redis; the settlement has shortened their expiry |
| `repairing`, `resolved` | what the settlement can tell of flows 6A and 6B: repairs that have seen their evidence, rows with status RESOLVED |
| `settlement`, `work` | the row of `seckill_coupon_claim_settlement`; what the settler of each replica is doing, on what it has read |
| `granted` | history: every claim Lua ever granted |

| Actions | Code |
|---|---|
| `CreatePending`, `ListCandidate`, `TryClaim`, `LeaseExpires` | rows for ended activities; the candidates, listed before they are claimed; the two CAS updates; the deadline |
| `ReadStock`, `CountCoupons`, `CountUnresolved`, `EvaluateTotals` | `evaluateTotals` statement by statement: coupon row, count of coupons, count of unresolved failures, and the totals of Redis in one script, compared by `isConsistent` |
| `ScheduleCleanup`, `Complete` | the cleanup comes *before* the conclusion, which is guarded by the token |
| `EvaluationFails`, `CompleteFails`, `Abandon` | an exception while evaluating, a swallowed error of the conclusion, a death |
| `ActivityEnds`, `ResyncActivity`, `ActivityHashExpires`, `ClaimsExpire` | the end of the time; a late synchronisation of the stock; the expiry of the evidence |
| `ConfirmEvidence`, `Repair`, `Resolve` | a repair looks at the evidence, and persists later; a row is resolved when its claim is a coupon |

`Repair` is cut down from `ClaimGovernance`: one that has seen its evidence may persist at
any later time, whoever else did.

### CircuitBreaker

The circuit record of one dependency, the threads that run `run_with_retry` through
it, the bulkhead, and the retry sequence. A thread is *admitted* under the lock and
*reports* under the lock, and anything may happen in between; a permanent failure
reads the state in one critical section and reports in another. `cooled` stands for
`circuit_recovery_seconds` having passed since `opened_at`. The sliding windows of the
provider's rate limit and of the retry budget are a free choice to refuse.

### BusinessWrites and ActionEffects

`ActionEffects` counts the changes of each action: at most one. `BusinessWrites` is the
code that has to keep it so. A *run* is one attempt at one request, from the graph
(`via = "agent"`) or from a route (`"http"`).

| Variables | Code |
|---|---|
| `request`, `pc` | what each thread executes, and the step it is at or how it ended |
| `tx` | its open transaction: a business row, the row lock of `FOR UPDATE`, a receipt, none of them committed |
| `orderStatus`, `rows`, `receipts` | `orders.status`; refunds, tickets, escalations and cancellations that were committed; `business_action_receipts` |
| `audit` | execution audit events, which are transactions of their own |

| Actions | Code |
|---|---|
| `Revalidate` | `policy_revalidation`: the order is read again, without a lock |
| `RecordAttempted`, `RecordOutcome`, `AuditError` | `record_execution_event`; a failing audit raises `AuditPersistenceError` |
| `Call`, `Refuse` | `run_with_retry`: a write is called once or refused before |
| `Lookup`, `Perform*`, `CheckRefund`, `InsertRefund`, `InsertReceipt`, `StatementError` | `execute_idempotent`: receipt looked up, change made, receipt inserted, each statement a step |
| `Commit`, `CommitReplyLost`, `CommitRefused` | `commit_business_write` |
| `Crash`, `Fulfil` | the process dies and the database rolls back; the shop moves an order on |

Conflicting inserts and locks wait for the other transaction to end, as PostgreSQL makes
them. `WaitsFor(r, q)` is that relation: `FOR UPDATE` waits for the order's row and for the
inserts that reference it (refunds and tickets have a foreign key, whose check shares the
row), those inserts for `FOR UPDATE`, a refund for the index slot of another, a receipt for
its key. An action is disabled while its run `Waits`. A unique violation ends the savepoint
and leads to the receipt of whoever won (`Conflict`).

`IdempotentWrites` is the interface between a write and whoever asks for it: a caller asks,
and in *one step* its receipt is stored, or was already there, and it is told "done"; or
nothing is stored and it is told "failed"; or it cannot know. A key whose receipt belongs to
another request stores nothing and is never "done". `BusinessWrites` implements it with
each run as a caller. `AgentGraph`, where a write is one step with a free outcome,
implements it with the conversation as the only caller: what the model of the graph
assumes of a write and what the model of the transactions provides are the same module.

### AgentDecisions, AgentGraph and ActionLifecycle

`AgentDecisions` has what the code computes without state: what a message is taken for
(a few phrases both confirm and resume), what `DecisionCompiler.compile` makes of a
proposal, and what the policy asks for. A proposal is a record of intent, target,
details and whether it writes; details are `"invented"` when the user's words do not
support them.

`AgentGraph` runs one conversation, one node of the graph per action; the routers are the
operators named `After*`. `conv` is what the checkpoint keeps (`pending_action`,
`action_id`, `suspended_workflow`, the decision with its missing fields, the orders the
user has named), `turn` what `load_context` resets for every message, `effects` the
committed writes with their receipts, `reply` what the user is told and the operators
are shown. `turn.offered`, `turn.asked` and `turn.wrote` record history for the properties; no
node reads them. Messages, proposals, expiry and the outcome of every call are free.
`Respond` keeps the order of the branches of `respond`, since of the fields left
behind only the first that applies is looked at. A write is one step here, with the
outcomes that `BusinessWrites` shows it to have: done, answered by a receipt, refused,
failed, unknown, or done before a crash (`WriteSpec` is proved of both).

`ActionLifecycle` is what the user is promised: an action is offered, waits, is decided
once, only a confirmed one is carried out; one may be set aside and comes back waiting.

### KnowledgeSnapshots

`coll` are the collections with the state, build and points of their metadata, `alias`
what readers are sent to, `job` the ingestion and rollback processes. Each stage of a job
is one call to Qdrant (`build_snapshot`, `_build_candidate`, `activate`, `rollback`,
`_mark_build_failed`, `_delete_inactive_managed_snapshot`): `Read` may fail, `Write` may fail before
or after its effect, `Die` ends a job anywhere. `ReadIndex`, `Query` and `Probe` are the
retrieval backend and its readiness.

Jobs of one snapshot run side by side while they create, fill, verify and publish it.
Two jobs that *repair* one failed snapshot at a time are excluded: nothing in the code
keeps them apart, and section 6 says what they can do. A fault happens to a job that
shares its snapshot with nobody, since it is what makes a repair necessary.

## 4. What is checked

The `MC` modules give the constants their values. In `claim_safety` the claims are `c1`, `c2` of user `u1` and `c3` of `u2`.

| Run | Instance | Result |
|---|---|---|
| `claim_safety` | 3 claims, 2 workers, stock 2, 1 redelivery, 2 faults, all database errors, failover, re-enabling, early check-back; 1.60 million states | stock conserved, one coupon per user, refused stays refused, a granted claim lost by a rollback only, implements `CouponIssue` |
| `claim_settlement` | 2 claims of 2 users, 1 worker, 2 settlers, stock 1, no redelivery, 2 faults, transient errors, re-enabling; 4.41 million states | no granted claim vanishes, also when budgets are spent and the failure is parked; its evidence is not given up before it is a coupon; consistent totals stay true |
| `claim_settles` | 2 claims of 2 users, stock 1, 1 redelivery, 3 faults, transient errors, Redis undisturbed, fairness | Redis exact and ahead of MySQL; conflicts only for issued coupons; nothing quarantined; every granted claim settles |
| `governance` | 1 failure, a rival and an unrelated claim, 2 scanners, stock 2, 2 repair attempts, 2 faults, fairness | conclusions true and final, exhaustion earned, implements `CouponIssue`, every failure concludes |
| `circuit` | 3 threads, threshold 2, 1 probe, bulkhead 2, 1 retry, 4 failures, fairness | trips at the threshold, no orphaned reservation, recovers |
| `agent_writes` | 3 runs, each any of 5 requests on one order under 2 keys, every fault, fairness; 317 000 states | one change per key with its receipt, one refund per order, true reports, audit ahead, shipped stays shipped, nobody waits in a circle, implements `ActionEffects` and `IdempotentWrites`, every run ends |
| `agent_conversation` | 2 orders, 12 kinds of message, 14 proposals, 2 action identifiers, 2 writes, every service failing; 2.84 million states | only confirmed actions run, keys are owned, replies and operator view are true, implements `ActionLifecycle` |
| `agent_snapshots` | 2 jobs, 2 snapshots of 2 batches, 3 builds, 2 faults, fairness; 272 000 states | the active snapshot is whole and kept, success is true, every job ends |
| `claim_reenabled`, `governance_conflict`, `agent_action_reuse`, `agent_consent` | smallest instance that shows it | a statement of the code's own comments that does not hold, section 6 |

The properties, and why each could fail:

- `StockConserved`, `OneCouponPerUser`: the decrement precedes the insert, the check
  precedes both, and every delivery may be handed out twice. They hold by the
  rollback and the unique keys, not by Redis, and are checked with Redis failing over
  and being refilled.
- `NoClaimVanishes`: from Lua to the governance table a claim changes hands five
  times. The dangerous orders are a commit message that is lost after Lua, a nack
  that meets a spent budget, and an acknowledgement after a failed send.
- `LostOnlyByRollback`: what is left of `NoClaimVanishes` when Redis fails over and the
  broker asks back while the script still runs. That a rollback overtakes the script cannot
  be told from the code alone; that *nothing else* loses a claim can.
- `CleanupLosesNothing`: the cleanup is scheduled before the settlement is concluded, and the
  conclusion may fail or the lease be gone. What is then left to expire must be of no use,
  whatever deliveries, repairs and check-backs were under way while the totals were read.
- `SettledTotalsStand`: stock, coupons, failures and Redis are read one after the other; a
  coupon issued between two of the reads, or after them, would make the books wrong.
- `RejectedNeverIssued`: the client hears the answer before the broker; a check-back
  decides from the claim hash. It must be the *claim* hash: a user's second claim is
  refused because the user is in the set.
- `RedisAheadOfMySQL`, `ConflictsAreFalseAlarms`: what settlement and the operators
  who read the failure table rely on, while Redis is undisturbed.
- `ResolvedMeansIssued`, `ConclusionStands`, `ExhaustionIsEarned`: scanners act on old
  copies of a row and on leases they may have lost.
- `OneChangePerAction`, `ChangesAreReceipted`, `EffectSpec`: two runs with one key both
  find no receipt and both perform. The unique receipt is inserted after the change, so the
  change of the loser must be undone by its savepoint.
- `OneRefundPerOrder`, `ShippedStaysShipped`: policy, confirmation and revalidation read
  without a lock; under *different* keys only the partial unique index, and the check
  under `FOR UPDATE`, hold.
- `ReportsAreTrue`, `AuditIsAhead`: the commit may be done although its reply is lost, and
  each audit is a transaction that fails alone.
- `NoCircularWait`: a cancellation takes the row and then its receipt, a refund shares the
  row, takes the index slot and then its receipt; an operation that took them in another
  order would close a circle. PostgreSQL would break it by failing a run.
- `WriteSpec` (of `BusinessWrites`): a run that is told "failed" has stored nothing, at any
  time and by any statement, and "done" follows one storing step of its own request, or finds
  the receipt there. A lost reply reported as failure, or a replayed receipt of another
  request, breaks it.
- `OnlyConfirmedActionsRun`, `LifecycleSpec`: between the offer and the execution the
  action may be set aside, replaced, resumed, expired, or cut short by a crash, and a
  phrase may both confirm and resume.
- `PendingOwnsTheKey`: the identifier is a field of the conversation, not of the action;
  setting aside and resuming have to move it along.
- `RepliesAreTrue`, `ViewIsTrue`: reply and view are chosen from a dozen optional fields that
  any earlier node may have left.
- `ActiveIsWhole`, `ActiveIsKept`, `SuccessIsWhole`: a failing build condemns its
  collection *by name*, while another job may have taken the name; a reuse decides on a
  state read two calls earlier; a lost reply of the switch looks like a failure.
- `ClaimsSettle`, `EveryFailureConcludes`, `CircuitRecovers`, `EveryRunEnds`,
  `EveryJobEnds`: liveness. Runs wait for each other's locks, jobs for nothing.

Bounds and why they suffice. Two claims of one user and one of another give every
conflict the code distinguishes (same claim twice, same user twice, last unit). Two
threads, scanners or deliveries are what each race needs; a third brings no new pair
of steps. The writes have three runs because a loser reads the receipt that a winner
inserted while a third holds the lock. Two action identifiers let one action wait while
another is set aside, and two writes let the second meet the receipt of the first; a
conversation may be of any length as long as it stays within them. Two snapshots
let the alias move and come back, two batches tell a half snapshot from a whole one.
`MaxReconsume = 1` makes budgets end within reach: the code compares the
count with the maximum and, for a duplicate key, with 1, and both sides of both
comparisons occur. Two faults allow a fault in the handling of a fault. In `claim_settles`
three let a whole budget be spent and then the audit of the dead letter fail; one fewer than
would park a message, since a parked message waits for an operator. `claim_settlement` has
`MaxReconsume = 0`, so that one fault spends a budget and a second parks what is left; its
second claim is what an activity whose stock was written again admits in excess.
Symmetry is used for workers, settlers and interchangeable users, and only in runs without
liveness.
`CHECK_DEADLOCK FALSE` is set where the system may stop: all claims settled, all
rows concluded.

Fairness. Consumer threads, the broker's delivery and check-back, the two failure
consumers, the scheduled task (every 30 s, it catches every exception) and clocks are
weakly fair. For the threads it is that of the JVM and of RocketMQ, whose
redelivery is unconditional; each step only needs to happen if it stays possible.
Requests, administrators and faults have none. In `CircuitBreaker` callers are weakly
fair once they have started, because every dependency call has a timeout; that
requests keep coming is an explicit premise of `CircuitRecovers`. There the bound on
failures makes the dependency work again in the end. In `BusinessWrites` each run is
weakly fair: it is a thread of the server, and every statement has a timeout. In
`KnowledgeSnapshots` each job is, as the client's calls have deadlines. `AgentGraph` states
weak fairness of the node that runs next, because the graph is invoked to its end; no
liveness is claimed of it.

## 5. What is proved

TLAPS proves, for all constants that satisfy the assumptions in the modules:

| Theorem | Says |
|---|---|
| `ClaimPipeline_proofs!TypeCorrect` | `Spec => []TypeOK`; neither stock becomes negative |
| `StockCorrect`, `OneCouponEach` | `Spec => [](StockConserved /\ OneCouponPerUser)`, `Spec => []OneCouponPerUser` |
| `ImplementsIssue` | `Spec => IssueSpec`: `ClaimPipeline` implements `CouponIssue` |
| `NothingVanishes` | `Spec => []NoClaimVanishes`, if early check-backs are excluded |
| `LossIsARollback` | `Spec => []LostOnlyByRollback`, under every disturbance |
| `PreDeductedOnce` | `Spec => []PreDeductionKept`, if re-enabling is excluded: the statement that `claim_reenabled` refutes needs no other premise, a failover does not break it |
| `ClaimAgreement_proofs!RefusalsCorrect` | `Spec => []RejectedNeverIssued`, under every disturbance |
| `RedisAhead`, `ConflictsExplained` | `Spec => []RedisAheadOfMySQL`, `Spec => []ConflictsAreFalseAlarms`, if failovers and re-enabling are excluded |
| `OutagesAreRetried` | `Spec => []OutageIsNotQuarantined`, if MySQL fails only transiently |
| `EvidenceIsKept` | `SettlementSpec => []CleanupLosesNothing`, if failovers are excluded |
| `SettlementIsFinal` | `SettlementSpec => []SettledTotalsStand`, if failovers are excluded |
| `NothingVanishesInSettlement` | `SettlementSpec => []NoClaimVanishes`, if early check-backs are excluded |
| `SettlementLosesByRollbackOnly` | `SettlementSpec => [](LostOnlyByRollback /\ GrantsTracked)`: the same of every claim Lua ever granted, forgotten by Redis since or not |
| `SettlementImplementsIssue` | `SettlementSpec => IssueSpec`: repairs and settlement beside the pipeline keep to `CouponIssue`, under every disturbance |
| `RefusalsSurviveSettlement` | `SettlementSpec => []RejectedNeverIssued`, under every disturbance |
| `CircuitBreaker_proofs!TypeCorrect` | `Spec => []TypeOK`; reservations within the configured number |
| `ThresholdCorrect` | `Spec => []ClosedMeansBelowThreshold` |
| `ReservationsHeld` | `Spec => []NoOrphanedReservation` |
| `ClaimGovernance_proofs!TypeCorrect` | `Spec => []TypeOK` |
| `ResolvedCorrect`, `ExhaustionCorrect` | `Spec => []ResolvedMeansIssued`, `Spec => []ExhaustionIsEarned` |
| `ConclusionCorrect` | `Spec => ConclusionStands`, an action property |
| `ConflictMeansHolder` | what is true of the code that `governance_conflict` refutes: a row closed as `USER_COUPON_CONFLICT` is about a user who has the coupon |
| `ImplementsIssue` | `Spec => IssueSpec`: `ClaimGovernance` implements `CouponIssue` too |
| `BusinessWrites_proofs!TypeCorrect` | `Spec => []TypeOK` |
| `EffectsCorrect`, `ReceiptsCorrect` | `Spec => []OneChangePerAction`, `Spec => []ChangesAreReceipted` |
| `RefundsCorrect`, `ReportsCorrect`, `AuditCorrect` | one refund per order, true reports, audit ahead |
| `WritesDoNotDeadlock` | `Spec => []NoCircularWait` |
| `ShippedOrdersStay` | `Spec => ShippedStaysShipped`, an action property |
| `ImplementsEffects`, `ImplementsWrites` | `Spec => EffectSpec`, `Spec => WriteSpec`: `BusinessWrites` implements `ActionEffects` and `IdempotentWrites` |
| `AgentGraph_proofs!TypeCorrect`, `KeysOwned` | `Spec => []TypeOK`, `Spec => []PendingOwnsTheKey` |
| `ConfirmedOnly` | `Spec => OnlyConfirmedActionsRun`, an action property |
| `ImplementsLifecycle` | `Spec => LifecycleSpec`: `AgentGraph` implements `ActionLifecycle` |
| `AgentReplies_proofs!RepliesCorrect` | `Spec => []RepliesAreTrue` |
| `ViewCorrect` | `Spec => ViewIsTrue`, an action property |
| `ImplementsWrites` | `Spec => WriteSpec`: `AgentGraph` implements `IdempotentWrites` |
| `KnowledgeSnapshots_proofs!TypeCorrect`, `ActiveWhole` | `Spec => []TypeOK`, `Spec => []ActiveIsWhole` |
| `ActiveKept`, `SuccessCorrect` | `Spec => ActiveIsKept`, `Spec => SuccessIsWhole`, action properties |

Arguments.

- *Stock.* `StockInv` is inductive together with the types: the sum of `remaining` and
  the cardinality of `userCoupon` is the total, and no user has two coupons. Only
  `IssueCoupon` touches either, from `PersistWrite` and `PersistFails`; every other
  step is shown to leave `mysql` alone. The refinement follows: `IssueCoupon(c)` is
  `Issue(c)`, since the sum and `remaining > 0` give `Cardinality(userCoupon) < TotalStock`.
- *No claim vanishes.* Not inductive by itself. It needs that a thread about to
  acknowledge has its claim accounted for (`AckInv`: a coupon, or its failure on the
  governance topic or beyond), that a granted claim's half message is not rolled back,
  and that a producer thread which has not yet run the script still has its half
  message (`HalfInv`). The last is where a check-back overtaking the running script
  would break it, hence the premise `"early check-back" \notin Disturbances`: RocketMQ
  asks about a half message only when it is older than `transactionTimeout`, and the
  code relies on the script being done by then.
- *Lost by a rollback only.* Without that premise `HalfInv` fails, and what is left of it is
  `KnownInv`: a thread that runs the script, and a claim that Redis knows, have a half
  message, resolved or not. That is inductive under every disturbance, and enough: a half
  message goes from prepared to committed with a message to the consumers or to rolled back
  (`HalfMoves`), and what is tracked stays tracked unless its half message is rolled back
  (`TrackedKept`, which serves both theorems). In the settlement the statement is about
  `granted`, which does not shrink with a failover or the expiry of the evidence.
- *Handed out once.* `redisStock + Cardinality(redisClaims) <= TotalStock` is inductive as it
  stands: the script takes a unit for the claim it adds, a failover gives one back for the
  claim it forgets. Writing the stock again is the only step that keeps no such account.
- *Frames.* `ProducerFrame`, `ActivityFrame`, `GovernanceFrame`, `WorkerFrame` and `OtherWorkers` say
  once what each group of actions leaves alone; the proofs of the pipeline and of the
  settlement cite them where a part of the invariant is not touched.
- *Agreement.* A claim is `Quiet` when it is in neither store and no message and no
  thread holds it. `QuietKept` shows that it stays so until Lua grants it, unless its
  transaction is about to commit: the check-back asks for the claimId itself, consumers
  and audit only move what they have. `RefusedInv` applies that to claims that Lua has
  not seen or has refused, and needs nothing of the environment. `AheadInv` applies it
  to all claims that Redis does not know, which is inductive only while Redis forgets
  nothing; with the exact counts of `ExactInv` it puts Redis ahead of MySQL. A conflict
  is then a false alarm: a coupon of the same user can only be that of the same claim,
  and with no stock left in MySQL every granted claim is a coupon. `AlarmInv` and
  `OutageInv` carry what is known of a failed job along the failure topic to the row.
- *Settlement.* The counts are read apart, yet their agreement is conclusive, because what
  is counted first only grows and what is counted last does not. `GrantedInv`: a claim
  Lua never granted is `Quiet`, so every coupon is of a granted claim, and until the
  evidence expires Redis knows exactly these. `OverInv`: once the activity is over nobody
  is granted any more. So when a settler's earlier count of the coupons equals the later
  count of the claims in Redis, the two *sets* were equal at its earlier read, are equal
  now, and stay so, as no claim is left to be issued (`AgreementIsFinal`, `FinalStays`);
  the stock follows from `StockConserved`. `TotalsInv` carries that from the comparison
  over the cleanup to the row, whoever concludes. It rests on the absence of failovers:
  a replica that forgets a claim still on its way can make the totals agree too early.
  A refused claim is not under repair (`SparedInv`), since a repair starts from what Redis
  knows. That no claim vanishes needs only `VanishStep` again, for every step beside the
  pipeline leaves its messages alone and adds coupons.
- *Circuit.* The threshold needs only the types. The reservations need that the
  counter is zero unless half open, and that a thread not yet admitted has no
  reservation (`ReservationInv`); then each admission adds one thread to a finite set
  as it adds one to the counter, and everything that takes a thread out of the set
  either decrements the counter or leaves the half-open state.

- *Governance.* The properties speak of rows, but scanners decide on copies. `Sane` says what
  a copy is worth at each stage: its attempts are never ahead of the row's, a repair that
  got its lease is counted in the row, and a decision to resolve follows a coupon that
  exists, which stays true because nothing deletes from `user_coupon`. A conclusion is
  final because every update of a row is guarded by its status or its token, and a
  concluded row has no token. For the refinement `StockConserved` is proved alongside.
  `ConflictInv` follows one judgement from the read that comes to it (`JudgedStep`) to the row
  that gets its code from it (`CodeStep`), while holders of a coupon stay holders.
- *Writes.* Every step of a run is shown to be of one of four kinds: it stores nothing, it
  takes a row, it takes a receipt, or it commits. The invariant has a part per property,
  and each part is disturbed by few kinds: `ReceiptInv` (a receipt under way excludes
  every other of its key; a run at its commit with a row has the receipt too), `RefundInv`,
  `LockInv` (a cancellation under way holds the lock of an order that may be cancelled),
  `ReportInv`, `AuditInv`. The refinement counts a key's rows: `OneChangePerAction` makes
  the count 0 or 1, and only a commit with a row changes it, from 0.
- *Waiting.* `HoldInv`: only a run past its change holds anything, and only one at its commit
  a receipt. So a run at its commit waits for nobody, one at its receipt only for such, and
  any other only for these two: of any set of runs one that is furthest waits for no other.
- *One step.* The commit is the step of `IdempotentWrites`; everything before it is a stutter
  although it reads and locks. `Follows` says what a run at `commit` brings along: either it
  has a receipt in its transaction and the key is free, or its own receipt is stored. The
  conversation needs less: an action that was written keeps its receipt (`Agreement`), and
  the answer to a write never stores a second receipt under its key.
- *Conversation.* `ShapeInv` gives the records their fields, `FlowInv` says what is known
  at each node: at the nodes behind a confirmation the pending action is confirmed and is
  the one that waited when the message arrived (`Approved`), at the other executing nodes
  there is none; `KeyInv` ties the identifier to the actions. One lemma per node.
  For the refinement each node maps to one step of the lifecycle or to a stutter.
- *Replies.* The reply and the operator view are computed from the fields of the turn by
  their first condition that applies, so the invariant says what those fields are worth:
  `OutcomeInv` that a turn which wrote is known as executed or as in doubt, and that an
  executed write is stored; `ToolInv` that a write tool still named at the end was
  called, has failed, or waits; `SavedInv` that an action saved as executed is written.
  `FirstApplies` shows that one branch of the reply is the first that applies, and
  `SaysWhat` what the branches that speak of an outcome rest on, the refusal of every
  earlier branch included: "done" without a live action needs that there is no error.
- *Snapshots.* `Relies` says, stage by stage, what a job may still believe of its
  collection; `AloneInv` that a job which repairs shares its snapshot with nobody. Two
  lemmas then carry all stages: `RecordStep` for a step that changes only the job's own
  record, `CollectionStep` for one that writes its collection, whose hypotheses are what
  keeps everybody else's `Relies` true. That jobs side by side do not disturb each other
  comes down to the build identifier: only the build that created a collection fills,
  completes or condemns it.

Assumptions: `Claim`, `Failure` and `Caller` are finite, `Owner` and `ClaimOf` are functions
into their sets, messages, proposals and requests are drawn from the spaces the modules
define, the name `None` is no order and no snapshot, bounds are natural numbers. Nothing
is assumed about the number of workers, replicas, runs, jobs or faults.

Only model-checked: all liveness (out of the prover's reach). Every invariant, action
property and refinement of a passing run has a theorem. Proved, and in no run: the types
of the modules other than `AgentGraph`, which the proofs of the other properties rest on;
`IssueSpec`, `RejectedNeverIssued`, `LostOnlyByRollback` and `GrantsTracked` of
`ClaimSettlement`, which TLC agrees with on the instance of `claim_settlement` (the last two
with failovers and early check-backs); `ConflictMeansHolder`, which it agrees with on that of
`governance`; and `WriteSpec` of `AgentGraph`, which TLC has only checked with fewer proposals
and faults than `agent_conversation` has.

## 6. Where code and comments part

Four of them are runs that end in a counterexample; `PROJECT.json` quotes the comments.

- `claim_reenabled` - initialising the Redis activity "only when enabled" is said not to
  overwrite pre-deductions. Enabling a coupon again while claims are in flight does:
  MySQL's remaining stock does not know them yet. MySQL still does not oversell; the
  users who come second get a stock conflict. `PreDeductedOnce` shows that nothing but the
  re-enabling is to blame.
- `governance_conflict` - the evidence reads by claimId and then by user, and does not
  compare the claimId of the second row. A late consumption in between turns a claim
  that succeeded into `USER_COUPON_CONFLICT`, "through another claimId", and a human. That
  the user has the coupon is true all the same (`ConflictMeansHolder`).
- `agent_action_reuse` - the action identifier survives the execution, rejection or expiry
  of its action, and the next action of the conversation takes it again. A second
  cancellation is confirmed by the user and then refused as a duplicate.
- `agent_consent` - with a degraded memory the reply says that the request could not be
  completed, while the action waits; a later yes executes it unasked.

Seen while modelling, without a run of their own. In the Java service:

- no connection at the *begin* of `persist()` is a `TransactionException`, which no
  classified catch takes: the claim is quarantined, and quarantined rows are never
  reconciled, although pool failures are documented as transient;
- `max-repair-attempts` bounds the repairs only along the path of a transient error: a
  lease taken over counts one more and compares nothing.

In the agent:

- the failure of a call admitted before the circuit opened counts as the probe's failure
  and forgets its reservation: a slow probe and a new one may run at once;
- two refunds under one key that race, the loser of the index reading no receipt yet, end
  as "already exists" instead of the winner's result (`services/idempotency.py:40`,
  `tools/refunds.py:48`);
- after a clarification that asks for fields no follow-up can fill, the next message is
  taken for the answer and is asked for them again;
- an action set aside is overwritten by the next one that is set aside, and is dropped
  by a superseding request;
- "proceed with the refund" confirms a waiting cancellation as well: the phrases are not
  compared with the action (`policies/confirmation.py:43`);
- a lookup that interrupts an action succeeds, but with retrieval down the reply says
  only that the action was saved;
- an escalation that fails is shown to operators as `blocked_before_execution`, since it
  is recorded under another node's name (`ui/projection.py:539`), and
  `policy_revalidation_stage` of an earlier message is never reset (`:515`);
- two operators who repair one failed snapshot: the first may publish it between the
  second's look at the alias and its delete (`rag/storage/qdrant.py:571`), and the service
  loses its knowledge; a transient error while a reusable snapshot is validated deletes
  and rebuilds a good one (`:236`); a crash leaves the state "building", which refuses
  every later build (`:228`); the query is encoded with the vocabulary of one snapshot and may be
  run against the next (`rag/backends/qdrant.py:453`).

## 7. Not modelled

Planned, section 2: administration beyond closing and re-enabling, orders, cart, display
cache, timing arithmetic, the records of the memory. Their hazards are listed in
`PROJECT.json`.

Of the settlement: that it concludes at last (it is retried every 30 s, but may end with a
human); an activity hash written again after it has expired; missing columns of the coupon
row; the times of its backoff; the totals recorded with any conclusion but a consistent one.

Of the agent: the routes that call a single tool without the conversation, apart from
their writes; two messages of one conversation at the same time (the checkpoint of the
slower run wins) and checkpoints that are stored late; the fields of the operator view
other than write outcome and tool status; trace store and demonstration data.

Menu, employees, addresses, reports, authentication, WebSocket, clients of external
services, prompting, parsing of the model's output, ranking and wording of answers,
configuration and metrics: no interleaving or failure protocol of their own.

## 8. Running

    tlc -workers 2 -config claim_safety.cfg MCClaimPipeline.tla
    tlapm ClaimPipeline_proofs.tla

Runs take from a second to about two minutes and a half, the proofs of a module from half a minute to
a few minutes from scratch.
