---- MODULE ClaimPipeline ----
\* The asynchronous claim of one seckill coupon, from the request to the row in
\* user_coupon or in the failure table (flows 3, 4 and 5 of sky-server's seckill
\* package): transactional half message, atomic Lua pre-deduction in Redis,
\* broker check-back, at-least-once consumption, conditional stock decrement in
\* MySQL, and the routing of every failure to the governance topic.
EXTENDS Naturals, FiniteSets

CONSTANTS
    Claim,            \* claimIds; a user who retries submits a new one
    User,
    Owner,            \* Owner[c] is the user who submits claim c
    Worker,           \* consumer threads of all replicas
    TotalStock,       \* stock of the coupon
    MaxReconsume,     \* SeckillCouponClaimConstant.MAX_RECONSUME_TIMES
    MaxFaults,        \* bound: crashes, lost replies and errors in a behaviour
    DatabaseErrors,   \* what MySQL may fail with in this instance
    Disturbances      \* what the environment may do beyond single faults

\* The exceptions of a failed consumption, as the consumer's catch clauses tell
\* them apart.
InfrastructureError ==
    {"TransientDataAccess",      \* deadlock, connection lost inside the transaction
     "NonTransientDataAccess",   \* bad SQL, bad schema
     "CannotCreateTransaction"}  \* no connection to begin a transaction with
BusinessError == {"USER_ALREADY_CLAIMED", "MYSQL_STOCK_CONFLICT", "DuplicateKey"}
Error == InfrastructureError \cup BusinessError

FailureCode ==
    {"USER_ALREADY_CLAIMED", "MYSQL_STOCK_CONFLICT", "MYSQL_DUPLICATE_RACE",
     "MYSQL_DUPLICATE_CONFLICT", "MYSQL_TRANSIENT_FAILURE",
     "MYSQL_NON_TRANSIENT_FAILURE", "UNEXPECTED_FAILURE", "RETRY_EXHAUSTED"}

ASSUME ClaimAssumption == IsFiniteSet(Claim) /\ Owner \in [Claim -> User]
ASSUME BoundAssumption == {TotalStock, MaxReconsume, MaxFaults} \subseteq Nat
ASSUME EnvironmentAssumption ==
    /\ DatabaseErrors \subseteq InfrastructureError
    /\ Disturbances \subseteq {"early check-back", "re-enable", "failover"}

VARIABLES
    \* Redis: the activity hash, the set of users and the hash claimId -> userId
    open, redisStock, redisUsers, redisClaims,
    \* one producer thread per claim, the half message and what the client heard
    attempt, half, answer,
    \* RocketMQ: message copies with their reconsumeTimes, and parked messages
    inbox, deadLetters, failureTopic, parked,
    \* MySQL: seckill_coupon.remaining_stock, user_coupon, the failure table
    remaining, userCoupon, failureRows,
    \* what each consumer thread is doing
    job,
    faults

redis == <<open, redisStock, redisUsers, redisClaims>>
producer == <<attempt, half, answer>>
governance == <<deadLetters, failureTopic, parked>>
mysql == <<remaining, userCoupon, failureRows>>
vars == <<redis, producer, inbox, governance, mysql, job, faults>>

Holders(S) == {Owner[c] : c \in S}
Idle == [stage |-> "idle"]
Job == {Idle} \cup
       [stage : {"read", "write", "ack"}, claim : Claim, tries : 0..MaxReconsume]
       \cup
       [stage : {"failed"}, claim : Claim, tries : 0..MaxReconsume, error : Error]

TypeOK ==
    /\ open \in BOOLEAN
    /\ redisStock \in Nat
    /\ redisUsers \subseteq User
    /\ redisClaims \subseteq Claim
    /\ attempt \in [Claim -> {"none", "running", "commit", "rollback", "unknown", "done"}]
    /\ half \in [Claim -> {"none", "prepared", "committed", "rolledback"}]
    /\ answer \in [Claim -> {"none", "accepted", "rejected", "retry"}]
    /\ inbox \subseteq Claim \X (0..MaxReconsume)
    /\ deadLetters \subseteq Claim \X (0..MaxReconsume)
    /\ failureTopic \subseteq Claim \X FailureCode \X (0..MaxReconsume)
    /\ parked \subseteq Claim \X FailureCode
    /\ remaining \in Nat
    /\ userCoupon \subseteq Claim
    /\ failureRows \subseteq Claim \X FailureCode
    /\ job \in [Worker -> Job]
    /\ faults \in 0..MaxFaults

Init ==
    /\ open = TRUE
    /\ redisStock = TotalStock
    /\ redisUsers = {}
    /\ redisClaims = {}
    /\ attempt = [c \in Claim |-> "none"]
    /\ half = [c \in Claim |-> "none"]
    /\ answer = [c \in Claim |-> "none"]
    /\ inbox = {}
    /\ deadLetters = {}
    /\ failureTopic = {}
    /\ parked = {}
    /\ remaining = TotalStock
    /\ userCoupon = {}
    /\ failureRows = {}
    /\ job = [w \in Worker |-> Idle]
    /\ faults = 0

Fault == faults < MaxFaults /\ faults' = faults + 1
NoFault == UNCHANGED faults

--------------------------------------------------------------------------------
\* Flow 3: the request

\* The half message goes out. A send that reports failure runs no local
\* transaction, though the broker may have stored the message.
SubmitClaim(c) ==
    /\ attempt[c] = "none"
    /\ half' = [half EXCEPT ![c] = "prepared"]
    /\ attempt' = [attempt EXCEPT ![c] = "running"]
    /\ UNCHANGED <<redis, answer, inbox, governance, mysql, job, faults>>

SubmitFails(c) ==
    /\ Fault
    /\ attempt[c] = "none"
    /\ attempt' = [attempt EXCEPT ![c] = "done"]
    /\ answer' = [answer EXCEPT ![c] = "retry"]
    /\ \E stored \in {"none", "prepared"} : half' = [half EXCEPT ![c] = stored]
    /\ UNCHANGED <<redis, inbox, governance, mysql, job>>

\* Faulty variant of the script's conditions: no stock test.
LuaAdmitsBeyondStock(c) == open /\ Owner[c] \notin redisUsers

\* The Lua script, atomic in Redis. Every refusal leaves Redis as it was.
LuaAdmits(c) == open /\ Owner[c] \notin redisUsers /\ redisStock > 0

PreDeduct(c) ==
    /\ LuaAdmits(c)
    /\ redisStock' = redisStock - 1
    /\ redisUsers' = redisUsers \cup {Owner[c]}
    /\ redisClaims' = redisClaims \cup {c}
    /\ UNCHANGED open

ExecuteLua(c) ==
    /\ attempt[c] = "running"
    /\ \/ PreDeduct(c) /\ attempt' = [attempt EXCEPT ![c] = "commit"]
       \/ /\ ~LuaAdmits(c)
          /\ attempt' = [attempt EXCEPT ![c] = "rollback"]
          /\ UNCHANGED redis
    /\ UNCHANGED <<half, answer, inbox, governance, mysql, job, faults>>

\* The Redis client throws; the script may have run all the same.
LuaFails(c) ==
    /\ Fault
    /\ attempt[c] = "running"
    /\ attempt' = [attempt EXCEPT ![c] = "unknown"]
    /\ PreDeduct(c) \/ UNCHANGED redis
    /\ UNCHANGED <<half, answer, inbox, governance, mysql, job>>

\* The broker resolves a half message once; a late or second resolution is void.
CommitHalf(c) ==
    IF half[c] = "prepared"
    THEN half' = [half EXCEPT ![c] = "committed"] /\ inbox' = inbox \cup {<<c, 0>>}
    ELSE UNCHANGED <<half, inbox>>

RollbackHalf(c) ==
    /\ half' = [half EXCEPT ![c] = IF @ = "prepared" THEN "rolledback" ELSE @]
    /\ UNCHANGED inbox

\* The client of the request hears the Lua result, even when the one-way message
\* that ends the transaction is lost.
Reply(c) ==
    answer' = [answer EXCEPT ![c] = CASE attempt[c] = "commit" -> "accepted"
                                      [] attempt[c] = "rollback" -> "rejected"
                                      [] attempt[c] = "unknown" -> "retry"]

EndTransaction(c) ==
    /\ \/ attempt[c] = "commit" /\ CommitHalf(c)
       \/ attempt[c] = "rollback" /\ RollbackHalf(c)
       \/ attempt[c] = "unknown" /\ UNCHANGED <<half, inbox>>
    /\ Reply(c)
    /\ attempt' = [attempt EXCEPT ![c] = "done"]
    /\ UNCHANGED <<redis, governance, mysql, job, faults>>

EndTransactionLost(c) ==
    /\ Fault
    /\ attempt[c] \in {"commit", "rollback"}
    /\ Reply(c)
    /\ attempt' = [attempt EXCEPT ![c] = "done"]
    /\ UNCHANGED <<redis, half, inbox, governance, mysql, job>>

ProducerCrash(c) ==
    /\ Fault
    /\ attempt[c] \in {"running", "commit", "rollback", "unknown"}
    /\ attempt' = [attempt EXCEPT ![c] = "done"]
    /\ UNCHANGED <<redis, half, answer, inbox, governance, mysql, job>>

\* Faulty variants: the check-back looks the user up, not the claimId; it takes no
\* answer of Redis for a no.
CheckBackByUser(c) ==
    /\ half[c] = "prepared"
    /\ attempt[c] # "running" \/ "early check-back" \in Disturbances
    /\ IF Owner[c] \in redisUsers THEN CommitHalf(c) ELSE RollbackHalf(c)
    /\ UNCHANGED <<redis, attempt, answer, governance, mysql, job, faults>>

CheckBackTrusting(c) ==
    /\ half[c] = "prepared"
    /\ attempt[c] # "running" \/ "early check-back" \in Disturbances
    /\ CommitHalf(c)
    /\ UNCHANGED <<redis, attempt, answer, governance, mysql, job, faults>>

\* The broker asks any producer replica about a half message that is too old.
\* Nothing in the code ties that age to the end of the local transaction.
CheckBack(c) ==
    /\ half[c] = "prepared"
    /\ attempt[c] # "running" \/ "early check-back" \in Disturbances
    /\ IF c \in redisClaims THEN CommitHalf(c) ELSE RollbackHalf(c)
    /\ UNCHANGED <<redis, attempt, answer, governance, mysql, job, faults>>

--------------------------------------------------------------------------------
\* The activity in Redis

\* The administrator disables the coupon, or its time is over.
CloseActivity ==
    /\ open
    /\ open' = FALSE
    /\ UNCHANGED <<redisStock, redisUsers, redisClaims, producer, inbox, governance,
                   mysql, job, faults>>

\* Enabling it again rewrites the activity hash with the stock read from MySQL
\* some time earlier; the users and the claims stay.
ReenableActivity ==
    /\ "re-enable" \in Disturbances
    /\ ~open
    /\ Fault
    /\ open' = TRUE
    /\ redisStock' \in remaining..TotalStock
    /\ UNCHANGED <<redisUsers, redisClaims, producer, inbox, governance, mysql, job>>

\* A Sentinel failover to a replica that missed the last claim's writes.
Failover(c) ==
    /\ "failover" \in Disturbances
    /\ Fault
    /\ c \in redisClaims
    /\ redisClaims' = redisClaims \ {c}
    /\ redisUsers' = redisUsers \ {Owner[c]}
    /\ redisStock' = redisStock + 1
    /\ UNCHANGED <<open, producer, inbox, governance, mysql, job>>

--------------------------------------------------------------------------------
\* Flow 4: the consumer

Handling(w, m) == job[w] # Idle /\ <<job[w].claim, job[w].tries>> = m

\* At least once: a rebalance hands a message out while a thread still has it.
Deliver(w, c) ==
    /\ job[w] = Idle
    /\ \E k \in 0..MaxReconsume :
        /\ <<c, k>> \in inbox
        /\ \/ NoFault /\ \A v \in Worker : ~Handling(v, <<c, k>>)
           \/ Fault /\ \E v \in Worker : Handling(v, <<c, k>>)
        /\ job' = [job EXCEPT ![w] = [stage |-> "read", claim |-> c, tries |-> k]]
    /\ UNCHANGED <<redis, producer, inbox, governance, mysql>>

At(w, stage) == job[w].stage = stage
JobAt(w, stage) ==
    [stage |-> stage, claim |-> job[w].claim, tries |-> job[w].tries]
JobFailed(w, error) ==
    [stage |-> "failed", claim |-> job[w].claim, tries |-> job[w].tries,
     error |-> error]

\* The two lookups of persist(), on the snapshot the transaction opens with.
PersistRead(w) ==
    /\ At(w, "read")
    /\ LET c == job[w].claim IN
       \/ /\ c \in userCoupon
          /\ job' = [job EXCEPT ![w] = JobAt(w, "ack")]
       \/ /\ c \notin userCoupon
          /\ Owner[c] \in Holders(userCoupon)
          /\ job' = [job EXCEPT ![w] = JobFailed(w, "USER_ALREADY_CLAIMED")]
       \/ /\ Owner[c] \notin Holders(userCoupon)
          /\ job' = [job EXCEPT ![w] = JobAt(w, "write")]
    /\ UNCHANGED <<redis, producer, inbox, governance, mysql, faults>>

\* Faulty variants: no unique key on the user, and a decrement that outlives the
\* failed insert.
IssueCouponAgain(c) ==
    /\ remaining > 0
    /\ c \notin userCoupon
    /\ remaining' = remaining - 1
    /\ userCoupon' = userCoupon \cup {c}
    /\ UNCHANGED failureRows

IssueCouponWithoutRollback(c) ==
    /\ remaining > 0
    /\ remaining' = remaining - 1
    /\ userCoupon' = IF Owner[c] \in Holders(userCoupon) THEN userCoupon
                     ELSE userCoupon \cup {c}
    /\ UNCHANGED failureRows

\* Conditional decrement, then insert under the unique keys on claim_id and on
\* (coupon, user). A failing insert rolls the decrement back.
IssueCoupon(c) ==
    /\ remaining > 0
    /\ Owner[c] \notin Holders(userCoupon)
    /\ remaining' = remaining - 1
    /\ userCoupon' = userCoupon \cup {c}
    /\ UNCHANGED failureRows

PersistWrite(w) ==
    /\ At(w, "write")
    /\ \/ IssueCoupon(job[w].claim) /\ job' = [job EXCEPT ![w] = JobAt(w, "ack")]
       \/ /\ remaining = 0
          /\ job' = [job EXCEPT ![w] = JobFailed(w, "MYSQL_STOCK_CONFLICT")]
          /\ UNCHANGED mysql
       \/ /\ remaining > 0
          /\ Owner[job[w].claim] \in Holders(userCoupon)
          /\ job' = [job EXCEPT ![w] = JobFailed(w, "DuplicateKey")]
          /\ UNCHANGED mysql
    /\ UNCHANGED <<redis, producer, inbox, governance, faults>>

\* The database fails: at begin, at a statement, or at the commit with the reply
\* lost, so that the transaction has or has not taken effect.
PersistFails(w, e) ==
    /\ Fault
    /\ e \in DatabaseErrors
    /\ \/ At(w, "read") /\ UNCHANGED mysql
       \/ At(w, "write") /\ e # "CannotCreateTransaction" /\ UNCHANGED mysql
       \/ At(w, "write") /\ e = "TransientDataAccess" /\ IssueCoupon(job[w].claim)
    /\ job' = [job EXCEPT ![w] = JobFailed(w, e)]
    /\ UNCHANGED <<redis, producer, inbox, governance>>

--------------------------------------------------------------------------------
\* Flow 5: what becomes of a failure

\* Faulty variant: a policy that knows no transient family.
ClassifyAllFatal(error, tries) ==
    CASE error \in {"TransientDataAccess", "NonTransientDataAccess"} ->
           "MYSQL_NON_TRANSIENT_FAILURE"
      [] error = "CannotCreateTransaction" -> "UNEXPECTED_FAILURE"
      [] error = "DuplicateKey" -> "MYSQL_DUPLICATE_CONFLICT"
      [] OTHER -> error

\* SeckillCouponClaimRetryPolicy: one broker retry for a duplicate key. No
\* connection at begin is a TransactionException, which no classified catch takes.
Classify(error, tries) ==
    CASE error = "TransientDataAccess" -> "MYSQL_TRANSIENT_FAILURE"
      [] error = "NonTransientDataAccess" -> "MYSQL_NON_TRANSIENT_FAILURE"
      [] error = "CannotCreateTransaction" -> "UNEXPECTED_FAILURE"
      [] error = "DuplicateKey" /\ tries < 1 -> "MYSQL_DUPLICATE_RACE"
      [] error = "DuplicateKey" /\ tries >= 1 -> "MYSQL_DUPLICATE_CONFLICT"
      [] OTHER -> error

RetryCodes == {"MYSQL_DUPLICATE_RACE", "MYSQL_TRANSIENT_FAILURE"}
QuarantineCodes == {"MYSQL_NON_TRANSIENT_FAILURE", "UNEXPECTED_FAILURE"}

\* Faulty variant: a spent retry budget drops the message.
NackDropsExhausted(w) ==
    LET c == job[w].claim
        k == job[w].tries
    IN /\ inbox' = (inbox \ {<<c, k>>}) \cup
                   (IF k < MaxReconsume THEN {<<c, k + 1>>} ELSE {})
       /\ job' = [job EXCEPT ![w] = Idle]
       /\ UNCHANGED deadLetters

\* The listener throws: the broker redelivers later, and gives the message to the
\* dead-letter queue when the budget is spent.
Nack(w) ==
    LET c == job[w].claim
        k == job[w].tries
    IN /\ inbox' = (inbox \ {<<c, k>>}) \cup
                   (IF k < MaxReconsume THEN {<<c, k + 1>>} ELSE {})
       /\ deadLetters' = deadLetters \cup
                         (IF k < MaxReconsume THEN {} ELSE {<<c, 0>>})
       /\ job' = [job EXCEPT ![w] = Idle]

Code(w) == Classify(job[w].error, job[w].tries)

RetryLater(w) ==
    /\ At(w, "failed")
    /\ Code(w) \in RetryCodes
    /\ Nack(w)
    /\ UNCHANGED <<redis, producer, failureTopic, parked, mysql, faults>>

RouteFailure(w) ==
    /\ At(w, "failed")
    /\ Code(w) \notin RetryCodes
    /\ failureTopic' = failureTopic \cup {<<job[w].claim, Code(w), 0>>}
    /\ job' = [job EXCEPT ![w] = JobAt(w, "ack")]
    /\ UNCHANGED <<redis, producer, inbox, deadLetters, parked, mysql, faults>>

\* Faulty variant: the consumer swallows the failed send and acknowledges.
RouteFailureSwallowed(w) ==
    /\ Fault
    /\ At(w, "failed")
    /\ Code(w) \notin RetryCodes
    /\ job' = [job EXCEPT ![w] = JobAt(w, "ack")]
    /\ UNCHANGED <<redis, producer, inbox, governance, mysql>>

\* The synchronous send throws; the topic may have the message all the same.
RouteFailureFails(w) ==
    /\ Fault
    /\ At(w, "failed")
    /\ Code(w) \notin RetryCodes
    /\ \/ UNCHANGED failureTopic
       \/ failureTopic' = failureTopic \cup {<<job[w].claim, Code(w), 0>>}
    /\ Nack(w)
    /\ UNCHANGED <<redis, producer, parked, mysql>>

Ack(w) ==
    /\ At(w, "ack")
    /\ inbox' = inbox \ {<<job[w].claim, job[w].tries>>}
    /\ job' = [job EXCEPT ![w] = Idle]
    /\ UNCHANGED <<redis, producer, governance, mysql, faults>>

WorkerCrash(w) ==
    /\ Fault
    /\ job[w] # Idle
    /\ job' = [job EXCEPT ![w] = Idle]
    /\ UNCHANGED <<redis, producer, inbox, governance, mysql>>

\* The audit of the dead-letter queue forwards the message to the governance
\* topic. It has the same retry budget; a message that spends it goes to a
\* dead-letter queue nobody reads.
AuditDeadLetter(c, k) ==
    /\ <<c, k>> \in deadLetters
    /\ deadLetters' = deadLetters \ {<<c, k>>}
    /\ failureTopic' = failureTopic \cup {<<c, "RETRY_EXHAUSTED", 0>>}
    /\ UNCHANGED <<redis, producer, inbox, parked, mysql, job, faults>>

AuditFails(c, k) ==
    /\ Fault
    /\ <<c, k>> \in deadLetters
    /\ \/ UNCHANGED failureTopic
       \/ failureTopic' = failureTopic \cup {<<c, "RETRY_EXHAUSTED", 0>>}
    /\ deadLetters' = (deadLetters \ {<<c, k>>}) \cup
                      (IF k < MaxReconsume THEN {<<c, k + 1>>} ELSE {})
    /\ parked' = parked \cup
                 (IF k < MaxReconsume THEN {} ELSE {<<c, "RETRY_EXHAUSTED">>})
    /\ UNCHANGED <<redis, producer, inbox, mysql, job>>

\* The failure consumer upserts one row per claim and code.
RecordFailure(c, code, k) ==
    /\ <<c, code, k>> \in failureTopic
    /\ failureTopic' = failureTopic \ {<<c, code, k>>}
    /\ failureRows' = failureRows \cup {<<c, code>>}
    /\ UNCHANGED <<redis, producer, inbox, deadLetters, parked, remaining, userCoupon,
                   job, faults>>

RecordFails(c, code, k) ==
    /\ Fault
    /\ <<c, code, k>> \in failureTopic
    /\ \/ UNCHANGED failureRows
       \/ failureRows' = failureRows \cup {<<c, code>>}
    /\ failureTopic' = (failureTopic \ {<<c, code, k>>}) \cup
                       (IF k < MaxReconsume THEN {<<c, code, k + 1>>} ELSE {})
    /\ parked' = parked \cup (IF k < MaxReconsume THEN {} ELSE {<<c, code>>})
    /\ UNCHANGED <<redis, producer, inbox, deadLetters, remaining, userCoupon, job>>

--------------------------------------------------------------------------------
ProducerNext(c) ==
    \/ SubmitClaim(c) \/ SubmitFails(c)
    \/ ExecuteLua(c) \/ LuaFails(c)
    \/ EndTransaction(c) \/ EndTransactionLost(c)
    \/ ProducerCrash(c) \/ CheckBack(c)

ActivityNext == CloseActivity \/ ReenableActivity \/ \E c \in Claim : Failover(c)

WorkerStep(w) ==
    \/ PersistRead(w) \/ PersistWrite(w)
    \/ RetryLater(w) \/ RouteFailure(w) \/ Ack(w)

WorkerNext(w) ==
    \/ \E c \in Claim : Deliver(w, c)
    \/ WorkerStep(w)
    \/ \E e \in Error : PersistFails(w, e)
    \/ RouteFailureFails(w) \/ WorkerCrash(w)

GovernanceNext(c) ==
    \E k \in 0..MaxReconsume :
        \/ AuditDeadLetter(c, k) \/ AuditFails(c, k)
        \/ \E code \in FailureCode : RecordFailure(c, code, k) \/ RecordFails(c, code, k)

Next ==
    \/ \E c \in Claim : ProducerNext(c) \/ GovernanceNext(c)
    \/ ActivityNext
    \/ \E w \in Worker : WorkerNext(w)

Spec == Init /\ [][Next]_vars

\* The threads of the code and the broker keep going. Requests, faults and the
\* administrator are not owed to anyone.
FairSpec ==
    /\ Spec
    /\ \A c \in Claim :
        /\ WF_vars(ExecuteLua(c))
        /\ WF_vars(EndTransaction(c))
        /\ WF_vars(CheckBack(c))
        /\ WF_vars(\E w \in Worker : Deliver(w, c))
        /\ WF_vars(\E k \in 0..MaxReconsume : AuditDeadLetter(c, k))
        /\ WF_vars(\E code \in FailureCode, k \in 0..MaxReconsume :
                     RecordFailure(c, code, k))
    /\ \A w \in Worker : WF_vars(WorkerStep(w))

--------------------------------------------------------------------------------
\* Properties

\* MySQL never oversells and never leaks a unit of stock, whatever Redis says and
\* wherever a transaction is cut (persist() with decreaseStockAfterPreDeduct).
StockConserved == remaining + Cardinality(userCoupon) = TotalStock

\* Two claims of one user never both become coupons, although the check of
\* persist() and its insert are apart and Redis may have forgotten the first.
OneCouponPerUser ==
    \A c, d \in userCoupon : Owner[c] = Owner[d] => c = d

\* A message to be consumed, or to be audited, stands for the claim.
InFlight(c) == \E k \in 0..MaxReconsume : <<c, k>> \in inbox \cup deadLetters

\* The claim is a coupon, or its failure is known to the governance flow or parked
\* where an operator can find it.
Accounted(c) ==
    \/ c \in userCoupon
    \/ \E code \in FailureCode :
        \/ \E k \in 0..MaxReconsume : <<c, code, k>> \in failureTopic
        \/ <<c, code>> \in parked \cup failureRows

Tracked(c) == half[c] = "prepared" \/ InFlight(c) \/ Accounted(c)

\* A claim pre-deducted in Redis is never lost between Lua, the broker, the
\* consumers and the governance topic: no crash and no lost reply drops it.
NoClaimVanishes == \A c \in redisClaims : Tracked(c)

\* Whatever disturbs Redis and however early the broker asks back, a claim that Redis
\* has granted, or whose half message is committed, is lost in one way only: the half
\* message was rolled back, by a check-back that overtook the Lua script.
LostOnlyByRollback ==
    \A c \in Claim : c \in redisClaims \/ half[c] = "committed" =>
        Tracked(c) \/ half[c] = "rolledback"

\* A user told that the claim was refused never gets that coupon afterwards, not
\* by a check-back of the half message and not by a stray copy.
RejectedNeverIssued ==
    \A c \in Claim : answer[c] = "rejected" =>
        /\ c \notin redisClaims \cup userCoupon
        /\ \A k \in 0..MaxReconsume : <<c, k>> \notin inbox \cup deadLetters

\* While Redis keeps its data and nobody re-enables the activity, Redis is exact
\* and ahead of MySQL: every coupon issued was pre-deducted, unit by unit.
RedisAheadOfMySQL ==
    /\ redisStock + Cardinality(redisClaims) = TotalStock
    /\ redisUsers = Holders(redisClaims)
    /\ Cardinality(redisUsers) = Cardinality(redisClaims)
    /\ userCoupon \subseteq redisClaims
    /\ redisStock <= remaining

\* While Redis is undisturbed and the database only fails transiently, a claim
\* reported as a stock or duplicate conflict is a false alarm of a concurrent
\* delivery: the coupon itself is there.
ConflictsAreFalseAlarms ==
    \A c \in Claim :
        (\E code \in {"MYSQL_STOCK_CONFLICT", "USER_ALREADY_CLAIMED",
                      "MYSQL_DUPLICATE_CONFLICT"} : <<c, code>> \in failureRows)
            => c \in userCoupon

\* An outage the database recovers from is retried or dead-lettered, and never
\* quarantined, where the reconciliation would not look at it.
OutageIsNotQuarantined ==
    \A c \in Claim, code \in QuarantineCodes : <<c, code>> \notin failureRows

\* Re-enabling an activity does not hand out again what Lua has pre-deducted.
PreDeductionKept == redisStock + Cardinality(redisClaims) <= TotalStock

\* Every claim Redis has granted ends as a coupon or as a row of the failure table,
\* through retries, dead letters and check-backs (fewer faults than it takes to
\* park a message).
ClaimsSettle ==
    \A c \in Claim :
        c \in redisClaims ~>
            (c \in userCoupon \/ \E code \in FailureCode : <<c, code>> \in failureRows)

\* The whole pipeline implements the abstract issue of coupons.
Issue == INSTANCE CouponIssue WITH issued <- userCoupon
IssueSpec == Issue!Spec
====
