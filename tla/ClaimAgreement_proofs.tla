---- MODULE ClaimAgreement_proofs ----
\* What Redis, MySQL, the answers to the clients and the settlement have to do with one
\* another, for every set of claims, workers and settlers, every stock and every number
\* of faults.
EXTENDS ClaimPipeline_proofs, ClaimSettlement

\* Nothing outside the broker's half message stands for the claim.
Quiet(c) ==
    /\ c \notin redisClaims \cup userCoupon
    /\ \A k \in 0..MaxReconsume : <<c, k>> \notin inbox \cup deadLetters
    /\ \A w \in Worker : job[w] # Idle => job[w].claim # c

--------------------------------------------------------------------------------
\* A quiet claim stays quiet until Lua grants it

LEMMA QuietProducer ==
    ASSUME TypeOK, NEW d \in Claim, ProducerNext(d), NEW c \in Claim, Quiet(c),
           attempt[c] # "commit", c \notin redisClaims'
    PROVE  Quiet(c)'
<1>1. ASSUME job' = job, userCoupon' = userCoupon, deadLetters' = deadLetters,
             inbox' = inbox \/ (d # c /\ inbox' = inbox \cup {<<d, 0>>})
      PROVE  Quiet(c)'
  BY <1>1 DEF Quiet
<1>2. CASE \/ SubmitClaim(d) \/ SubmitFails(d) \/ ExecuteLua(d) \/ LuaFails(d)
           \/ EndTransactionLost(d) \/ ProducerCrash(d)
  BY <1>1, <1>2 DEF SubmitClaim, SubmitFails, ExecuteLua, LuaFails,
                    EndTransactionLost, ProducerCrash, mysql, governance
<1>3. CASE EndTransaction(d)
  BY <1>1, <1>3 DEF EndTransaction, CommitHalf, RollbackHalf, mysql, governance
<1>4. CASE CheckBack(d)
  BY <1>1, <1>4 DEF CheckBack, CommitHalf, RollbackHalf, mysql, governance, Quiet
<1> QED
  BY <1>2, <1>3, <1>4 DEF ProducerNext

LEMMA QuietWorker ==
    ASSUME TypeOK, NEW w \in Worker, WorkerNext(w), NEW c \in Claim, Quiet(c)
    PROVE  Quiet(c)'
<1>1. job \in [Worker -> Job] /\ redisClaims' = redisClaims
  BY WorkerFrame DEF TypeOK, redis
<1>2. ASSUME job[w] # Idle
      PROVE  job[w].claim # c
  BY <1>2 DEF Quiet
\* What each step does, in the terms of Quiet
<1>3. ASSUME NEW j, job' = [job EXCEPT ![w] = j], j # Idle => j.claim # c,
             userCoupon' \subseteq userCoupon \cup {job[w].claim}, job[w] # Idle,
             \A k \in 0..MaxReconsume : <<c, k>> \notin inbox' \cup deadLetters'
      PROVE  Quiet(c)'
  BY <1>1, <1>2, <1>3 DEF Quiet
<1>4. ASSUME job[w] # Idle, Nack(w)
      PROVE  /\ \A k \in 0..MaxReconsume : <<c, k>> \notin inbox' \cup deadLetters'
             /\ job' = [job EXCEPT ![w] = Idle]
  BY <1>2, <1>4 DEF Nack, Quiet
<1>5. ASSUME NEW d \in Claim, Deliver(w, d)
      PROVE  Quiet(c)'
  <2>1. PICK k \in 0..MaxReconsume :
             /\ <<d, k>> \in inbox
             /\ job' = [job EXCEPT ![w] = [stage |-> "read", claim |-> d, tries |-> k]]
    BY <1>5 DEF Deliver
  <2>2. d # c
    BY <2>1 DEF Quiet
  <2>3. \A v \in Worker : job'[v] # Idle => job'[v].claim # c
    BY <1>1, <2>1, <2>2 DEF Quiet
  <2> QED
    BY <1>1, <1>5, <2>3 DEF Deliver, Quiet, governance, mysql
<1>6. CASE PersistRead(w)
  <2>1. job[w] # Idle
    BY <1>6, AtIsBusy DEF PersistRead
  <2>2. \E j : job' = [job EXCEPT ![w] = j] /\ j.claim = job[w].claim
    BY <1>6 DEF PersistRead, JobAt, JobFailed
  <2> QED
    BY <1>2, <1>3, <1>6, <2>1, <2>2 DEF PersistRead, Quiet, governance, mysql
<1>7. CASE PersistWrite(w)
  <2>1. job[w] # Idle
    BY <1>7, AtIsBusy DEF PersistWrite
  <2>2. \E j : job' = [job EXCEPT ![w] = j] /\ j.claim = job[w].claim
    BY <1>7 DEF PersistWrite, JobAt, JobFailed
  <2>3. userCoupon' \subseteq userCoupon \cup {job[w].claim}
    BY <1>7 DEF PersistWrite, IssueCoupon, mysql
  <2> QED
    BY <1>2, <1>3, <1>7, <2>1, <2>2, <2>3 DEF PersistWrite, Quiet, governance
<1>8. ASSUME NEW e \in Error, PersistFails(w, e)
      PROVE  Quiet(c)'
  <2>1. job[w] # Idle
    BY <1>8, AtIsBusy DEF PersistFails
  <2>2. job' = [job EXCEPT ![w] = JobFailed(w, e)]
    BY <1>8 DEF PersistFails
  <2>3. JobFailed(w, e).claim = job[w].claim
    BY DEF JobFailed
  <2>4. userCoupon' \subseteq userCoupon \cup {job[w].claim}
    BY <1>8 DEF PersistFails, IssueCoupon, mysql
  <2> QED
    BY <1>2, <1>3, <1>8, <2>1, <2>2, <2>3, <2>4 DEF PersistFails, Quiet, governance
<1>9. CASE RetryLater(w) \/ RouteFailureFails(w)
  <2>1. job[w] # Idle /\ Nack(w) /\ userCoupon' = userCoupon
    BY <1>9, AtIsBusy DEF RetryLater, RouteFailureFails, mysql
  <2> QED
    BY <1>3, <1>4, <2>1
<1>10. CASE RouteFailure(w)
  <2>1. job[w] # Idle
    BY <1>10, AtIsBusy DEF RouteFailure
  <2>2. job' = [job EXCEPT ![w] = JobAt(w, "ack")]
    BY <1>10 DEF RouteFailure
  <2>3. JobAt(w, "ack").claim = job[w].claim
    BY DEF JobAt
  <2> QED
    BY <1>2, <1>3, <1>10, <2>1, <2>2, <2>3 DEF RouteFailure, Quiet, mysql
<1>11. CASE Ack(w) \/ WorkerCrash(w)
  <2>1. job[w] # Idle /\ job' = [job EXCEPT ![w] = Idle]
    BY <1>11, AtIsBusy DEF Ack, WorkerCrash
  <2>2. inbox' \subseteq inbox /\ UNCHANGED <<governance, mysql>>
    BY <1>11 DEF Ack, WorkerCrash
  <2> QED
    BY <1>3, <2>1, <2>2 DEF Quiet, governance, mysql
<1> QED
  BY <1>5, <1>6, <1>7, <1>8, <1>9, <1>10, <1>11 DEF WorkerNext, WorkerStep

\* The audit only moves messages a claim already has.
LEMMA QuietGovernance ==
    ASSUME TypeOK, NEW d \in Claim, GovernanceNext(d), NEW c \in Claim, Quiet(c)
    PROVE  Quiet(c)'
<1>1. UNCHANGED <<redisClaims, userCoupon, inbox, job>>
  BY DEF GovernanceNext, AuditDeadLetter, AuditFails, RecordFailure, RecordFails, redis,
         mysql
<1>2. \A k \in 0..MaxReconsume : <<c, k>> \notin deadLetters'
  <2>1. ASSUME NEW n \in 0..MaxReconsume, AuditDeadLetter(d, n)
        PROVE  \A k \in 0..MaxReconsume : <<c, k>> \notin deadLetters'
    BY <2>1 DEF AuditDeadLetter, Quiet
  <2>2. ASSUME NEW n \in 0..MaxReconsume, AuditFails(d, n)
        PROVE  \A k \in 0..MaxReconsume : <<c, k>> \notin deadLetters'
    <3>1. d # c
      BY <2>2 DEF AuditFails, Quiet
    <3> QED
      BY <2>2, <3>1 DEF AuditFails, Quiet
  <2>3. ASSUME NEW n \in 0..MaxReconsume, NEW code \in FailureCode,
               RecordFailure(d, code, n) \/ RecordFails(d, code, n)
        PROVE  deadLetters' = deadLetters
    BY <2>3 DEF RecordFailure, RecordFails
  <2> QED
    BY <2>1, <2>2, <2>3 DEF GovernanceNext, Quiet
<1> QED
  BY <1>1, <1>2 DEF Quiet

\* A claim that is quiet and not on its way to a commit stays quiet in every step in
\* which Lua does not grant it.
LEMMA QuietKept ==
    ASSUME TypeOK, [Next]_vars, NEW c \in Claim, Quiet(c), attempt[c] # "commit",
           c \notin redisClaims'
    PROVE  Quiet(c)'
<1>1. CASE UNCHANGED vars \/ ActivityNext
  <2>1. UNCHANGED <<userCoupon, inbox, deadLetters, job>>
    BY <1>1 DEF vars, ActivityNext, CloseActivity, ReenableActivity, Failover, mysql,
                governance
  <2> QED
    BY <2>1 DEF Quiet
<1> QED
  BY <1>1, QuietProducer, QuietWorker, QuietGovernance DEF Next

--------------------------------------------------------------------------------
\* A refusal is final

\* A claim Lua has not granted yet, or has refused, is quiet, and a client hears a
\* refusal only when the attempt is over.
RefusedInv ==
    \A c \in Claim :
        /\ answer[c] = "rejected" => attempt[c] = "done"
        /\ attempt[c] \in {"none", "running", "rollback"} \/ answer[c] = "rejected"
             => Quiet(c)

\* What a step may do to the attempt of a claim and to the answer of its client.
LEMMA AttemptSteps ==
    ASSUME TypeOK, [Next]_vars, NEW c \in Claim
    PROVE  /\ attempt[c] # "none" => attempt'[c] # "none"
           /\ attempt'[c] = "running" => attempt[c] \in {"none", "running"}
           /\ attempt[c] = "done" => attempt'[c] = "done" /\ answer'[c] = answer[c]
           /\ answer'[c] = "rejected" /\ answer[c] # "rejected"
                => attempt[c] = "rollback" /\ attempt'[c] = "done"
           /\ attempt'[c] = "rollback" /\ attempt[c] # "rollback"
                => attempt[c] = "running" /\ UNCHANGED redisClaims
           /\ attempt'[c] = "commit" /\ attempt[c] # "commit" => c \in redisClaims'
           /\ c \in redisClaims' /\ c \notin redisClaims
                => attempt[c] = "running" /\ attempt'[c] \in {"commit", "unknown"}
           /\ attempt[c] # "done" /\ attempt'[c] # "done" => answer'[c] = answer[c]
<1>1. ASSUME NEW d \in Claim, ProducerNext(d), d # c
      PROVE  /\ attempt'[c] = attempt[c] /\ answer'[c] = answer[c]
             /\ c \in redisClaims' => c \in redisClaims
  <2>1. CASE SubmitClaim(d) \/ SubmitFails(d)
    BY <1>1, <2>1 DEF SubmitClaim, SubmitFails, redis, TypeOK
  <2>2. CASE ExecuteLua(d) \/ LuaFails(d)
    BY <1>1, <2>2 DEF ExecuteLua, LuaFails, PreDeduct, redis, TypeOK
  <2>3. CASE EndTransaction(d) \/ EndTransactionLost(d)
    BY <1>1, <2>3 DEF EndTransaction, EndTransactionLost, Reply, redis, TypeOK
  <2>4. CASE ProducerCrash(d) \/ CheckBack(d)
    BY <1>1, <2>4 DEF ProducerCrash, CheckBack, redis, TypeOK
  <2> QED
    BY <1>1, <2>1, <2>2, <2>3, <2>4 DEF ProducerNext
<1>2. ASSUME \/ UNCHANGED vars
             \/ ActivityNext
             \/ \E d \in Claim : GovernanceNext(d)
             \/ \E w \in Worker : WorkerNext(w)
      PROVE  UNCHANGED <<attempt, answer>> /\ redisClaims' \subseteq redisClaims
  BY <1>2, ActivityFrame, GovernanceFrame, WorkerFrame DEF vars, redis, producer
<1>3. CASE SubmitClaim(c) \/ SubmitFails(c)
  BY <1>3 DEF SubmitClaim, SubmitFails, redis, TypeOK
<1>4. CASE ExecuteLua(c) \/ LuaFails(c)
  BY <1>4 DEF ExecuteLua, LuaFails, PreDeduct, redis, TypeOK
<1>5. CASE EndTransaction(c) \/ EndTransactionLost(c)
  BY <1>5 DEF EndTransaction, EndTransactionLost, Reply, redis, TypeOK
<1>6. CASE ProducerCrash(c) \/ CheckBack(c)
  BY <1>6 DEF ProducerCrash, CheckBack, redis, TypeOK
<1> QED
  BY <1>1, <1>2, <1>3, <1>4, <1>5, <1>6 DEF Next, ProducerNext

LEMMA RefusedStep ==
    ASSUME TypeOK, RefusedInv, [Next]_vars
    PROVE  RefusedInv'
<1> SUFFICES ASSUME NEW c \in Claim
             PROVE  /\ answer'[c] = "rejected" => attempt'[c] = "done"
                    /\ attempt'[c] \in {"none", "running", "rollback"}
                         \/ answer'[c] = "rejected" => Quiet(c)'
  BY DEF RefusedInv, Quiet
<1>1. answer'[c] = "rejected" => attempt'[c] = "done"
  BY AttemptSteps DEF RefusedInv
<1>2. ASSUME attempt'[c] \in {"none", "running", "rollback"} \/ answer'[c] = "rejected"
      PROVE  Quiet(c)'
  <2>1. attempt[c] \in {"none", "running", "rollback"} \/ answer[c] = "rejected"
    BY <1>2, AttemptSteps
  <2>2. Quiet(c) /\ attempt[c] # "commit"
    BY <2>1 DEF RefusedInv
  <2>3. c \notin redisClaims'
    BY <1>1, <1>2, <2>2, AttemptSteps DEF Quiet
  <2> QED
    BY <2>2, <2>3, QuietKept
<1> QED
  BY <1>1, <1>2

\* A client who was told that the claim is refused never gets that coupon: no late
\* check-back, stray copy, failover or re-enabling brings the claim back.
THEOREM RefusalsCorrect == Spec => []RejectedNeverIssued
<1>1. Init => RefusedInv
  BY DEF Init, RefusedInv, Quiet
<1>2. TypeOK /\ RefusedInv /\ [Next]_vars => RefusedInv'
  BY RefusedStep
<1>3. RefusedInv => RejectedNeverIssued
  BY DEF RefusedInv, RejectedNeverIssued, Quiet
<1> QED
  BY <1>1, <1>2, <1>3, TypeCorrect, PTL DEF Spec

--------------------------------------------------------------------------------
\* Redis is exact and ahead of MySQL

\* The premise: nobody re-enables the activity and no failover loses a claim.
RedisUndisturbed == Disturbances \cap {"re-enable", "failover"} = {}

\* A claim stands for something only once Lua has granted it.
AheadInv ==
    \A c \in Claim : c \notin redisClaims => Quiet(c) /\ attempt[c] # "commit"

\* Redis accounts for its claims, unit by unit and user by user.
ExactInv ==
    /\ redisStock + Cardinality(redisClaims) = TotalStock
    /\ redisUsers = Holders(redisClaims)
    /\ IsFiniteSet(redisUsers) /\ Cardinality(redisUsers) = Cardinality(redisClaims)
    /\ \A c, d \in redisClaims : Owner[c] = Owner[d] => c = d

\* Undisturbed, Redis changes its counts in the Lua script only.
LEMMA RedisSteps ==
    ASSUME TypeOK, [Next]_vars, RedisUndisturbed
    PROVE  \/ UNCHANGED <<redisStock, redisUsers, redisClaims>>
           \/ \E c \in Claim : PreDeduct(c)
<1>1. ASSUME NEW c \in Claim, ProducerNext(c)
      PROVE  UNCHANGED redis \/ PreDeduct(c)
  BY <1>1 DEF ProducerNext, SubmitClaim, SubmitFails, ExecuteLua, LuaFails,
              EndTransaction, EndTransactionLost, ProducerCrash, CheckBack
<1>2. CASE ActivityNext
  BY <1>2 DEF ActivityNext, CloseActivity, ReenableActivity, Failover, RedisUndisturbed
<1>3. ASSUME \/ UNCHANGED vars
             \/ \E d \in Claim : GovernanceNext(d)
             \/ \E w \in Worker : WorkerNext(w)
      PROVE  UNCHANGED redis
  BY <1>3, GovernanceFrame, WorkerFrame DEF vars
<1> QED
  BY <1>1, <1>2, <1>3 DEF Next, redis

LEMMA RedisFinite ==
    ASSUME TypeOK
    PROVE  IsFiniteSet(redisClaims) /\ Cardinality(redisClaims) \in Nat
BY FS_Subset, FS_CardinalityType, ClaimAssumption DEF TypeOK

LEMMA ExactStep ==
    ASSUME TypeOK, ExactInv, [Next]_vars, RedisUndisturbed
    PROVE  ExactInv'
<1>1. CASE UNCHANGED <<redisStock, redisUsers, redisClaims>>
  BY <1>1 DEF ExactInv, Holders
<1>2. ASSUME NEW c \in Claim, PreDeduct(c)
      PROVE  ExactInv'
  <2>1. /\ Owner[c] \notin redisUsers /\ c \notin redisClaims
        /\ redisStock \in Nat /\ redisStock' = redisStock - 1
        /\ redisUsers' = redisUsers \cup {Owner[c]}
        /\ redisClaims' = redisClaims \cup {c}
    BY <1>2 DEF PreDeduct, LuaAdmits, ExactInv, Holders, TypeOK
  <2>2. /\ Cardinality(redisClaims') = Cardinality(redisClaims) + 1
        /\ IsFiniteSet(redisUsers')
        /\ Cardinality(redisUsers') = Cardinality(redisUsers) + 1
        /\ Cardinality(redisClaims) \in Nat
    BY <2>1, RedisFinite, FS_AddElement DEF ExactInv
  <2>3. redisStock' + Cardinality(redisClaims') = TotalStock
    BY <2>1, <2>2, BoundAssumption DEF ExactInv
  <2>4. redisUsers' = Holders(redisClaims')
    BY <2>1 DEF ExactInv, Holders
  <2>5. \A d, e \in redisClaims' : Owner[d] = Owner[e] => d = e
    BY <2>1 DEF ExactInv, Holders
  <2> QED
    BY <2>2, <2>3, <2>4, <2>5 DEF ExactInv, Holders
<1> QED
  BY <1>1, <1>2, RedisSteps

LEMMA AheadStep ==
    ASSUME TypeOK, AheadInv, [Next]_vars, RedisUndisturbed
    PROVE  AheadInv'
<1> SUFFICES ASSUME NEW c \in Claim, c \notin redisClaims'
             PROVE  Quiet(c)' /\ attempt'[c] # "commit"
  BY DEF AheadInv, Quiet
<1>1. c \notin redisClaims
  BY RedisSteps DEF PreDeduct
<1>2. Quiet(c) /\ attempt[c] # "commit"
  BY <1>1 DEF AheadInv
<1>3. Quiet(c)'
  BY <1>2, QuietKept
<1>4. attempt'[c] # "commit"
  BY <1>2, AttemptSteps
<1> QED
  BY <1>3, <1>4

\* What the two invariants say of the coupons in MySQL.
LEMMA CouponsWereGranted ==
    ASSUME TypeOK, AheadInv
    PROVE  /\ userCoupon \subseteq redisClaims
           /\ \A w \in Worker : job[w] # Idle => job[w].claim \in redisClaims
<1>1. userCoupon \subseteq redisClaims
  BY DEF AheadInv, Quiet, TypeOK
<1>2. ASSUME NEW w \in Worker, job[w] # Idle
      PROVE  job[w].claim \in redisClaims
  BY <1>2, JobOf DEF AheadInv, Quiet
<1> QED
  BY <1>1, <1>2

LEMMA AheadImplies ==
    ASSUME TypeOK, StockConserved, AheadInv, ExactInv
    PROVE  RedisAheadOfMySQL
<1>1. userCoupon \subseteq redisClaims
  BY CouponsWereGranted
<1>2. /\ IsFiniteSet(redisClaims) /\ Cardinality(redisClaims) \in Nat
      /\ Cardinality(userCoupon) \in Nat
  BY RedisFinite, CouponsFinite DEF ExactInv
<1>3. Cardinality(userCoupon) <= Cardinality(redisClaims)
  BY <1>1, <1>2, FS_Subset
<1>4. redisStock <= remaining
  BY <1>2, <1>3, BoundAssumption DEF StockConserved, ExactInv, TypeOK
<1> QED
  BY <1>1, <1>4 DEF RedisAheadOfMySQL, ExactInv

LEMMA AheadInit == Init => AheadInv /\ ExactInv
<1> SUFFICES ASSUME Init
             PROVE  AheadInv /\ ExactInv
  OBVIOUS
<1>1. AheadInv
  BY DEF Init, AheadInv, Quiet
<1>2. redisUsers = Holders(redisClaims)
  BY DEF Init, Holders
<1>3. ExactInv
  BY <1>2, FS_EmptySet, BoundAssumption DEF Init, ExactInv
<1> QED
  BY <1>1, <1>3

LEMMA AheadAlways ==
    ASSUME RedisUndisturbed
    PROVE  Spec => [](AheadInv /\ ExactInv)
<1>1. TypeOK /\ AheadInv /\ ExactInv /\ [Next]_vars => (AheadInv /\ ExactInv)'
  BY AheadStep, ExactStep
<1> QED
  BY <1>1, AheadInit, TypeCorrect, PTL DEF Spec

\* Without a failover and without re-enabling, Redis counts every claim exactly, and
\* MySQL never issues a coupon, or a unit of stock, that Lua has not granted.
THEOREM RedisAhead ==
    ASSUME RedisUndisturbed
    PROVE  Spec => []RedisAheadOfMySQL
<1>1. TypeOK /\ StockConserved /\ AheadInv /\ ExactInv => RedisAheadOfMySQL
  BY AheadImplies
<1> QED
  BY <1>1, AheadAlways, TypeCorrect, StockCorrect, PTL

--------------------------------------------------------------------------------
\* Where failures come from

\* A consumption fails because the database does, because the stock is gone, or
\* because the user has a coupon.
LEMMA FailedSteps ==
    ASSUME TypeOK, [Next]_vars, NEW w \in Worker, At(w, "failed")', job'[w] # job[w]
    PROVE  /\ job[w] # Idle /\ job'[w].claim = job[w].claim
           /\ \/ job'[w].error \in DatabaseErrors
              \/ /\ job'[w].error \in BusinessError
                 /\ remaining = 0 \/ Owner[job[w].claim] \in Holders(userCoupon)
<1> DEFINE Goal == /\ job[w] # Idle /\ job'[w].claim = job[w].claim
                   /\ \/ job'[w].error \in DatabaseErrors
                      \/ /\ job'[w].error \in BusinessError
                         /\ remaining = 0 \/ Owner[job[w].claim] \in Holders(userCoupon)
<1>1. CASE PersistRead(w)
  <2>1. /\ Owner[job[w].claim] \in Holders(userCoupon)
        /\ job' = [job EXCEPT ![w] = JobFailed(w, "USER_ALREADY_CLAIMED")]
    BY <1>1 DEF PersistRead, At, JobAt, TypeOK
  <2>2. job'[w] = JobFailed(w, "USER_ALREADY_CLAIMED") /\ job[w] # Idle
    BY <1>1, <2>1, AtIsBusy DEF PersistRead, TypeOK
  <2> QED
    BY <2>1, <2>2 DEF JobFailed, BusinessError
<1>2. CASE PersistWrite(w)
  <2>1. /\ remaining = 0 \/ Owner[job[w].claim] \in Holders(userCoupon)
        /\ \E e \in {"MYSQL_STOCK_CONFLICT", "DuplicateKey"} :
              job' = [job EXCEPT ![w] = JobFailed(w, e)]
    BY <1>2 DEF PersistWrite, At, JobAt, TypeOK
  <2>2. /\ job[w] # Idle
        /\ \E e \in {"MYSQL_STOCK_CONFLICT", "DuplicateKey"} : job'[w] = JobFailed(w, e)
    BY <1>2, <2>1, AtIsBusy DEF PersistWrite, TypeOK
  <2> QED
    BY <2>1, <2>2 DEF JobFailed, BusinessError
<1>3. ASSUME NEW e \in Error, PersistFails(w, e)
      PROVE  Goal
  <2>1. job[w] # Idle /\ job'[w] = JobFailed(w, e) /\ e \in DatabaseErrors
    BY <1>3, AtIsBusy DEF PersistFails, TypeOK
  <2> QED
    BY <2>1 DEF JobFailed
<1>4. ASSUME \/ RouteFailure(w) \/ RetryLater(w) \/ RouteFailureFails(w)
             \/ Ack(w) \/ WorkerCrash(w)
             \/ \E c \in Claim : Deliver(w, c)
      PROVE  FALSE
  <2>1. CASE RetryLater(w) \/ RouteFailureFails(w) \/ Ack(w) \/ WorkerCrash(w)
    <3>1. job'[w] = Idle
      BY <2>1 DEF RetryLater, RouteFailureFails, Ack, WorkerCrash, Nack, TypeOK
    <3> QED
      BY <3>1 DEF At, Idle
  <2>2. CASE RouteFailure(w)
    <3>1. job'[w] = JobAt(w, "ack")
      BY <2>2 DEF RouteFailure, TypeOK
    <3> QED
      BY <3>1 DEF At, JobAt
  <2>3. CASE \E c \in Claim : Deliver(w, c)
    <3>1. job'[w].stage = "read"
      BY <2>3 DEF Deliver, TypeOK
    <3> QED
      BY <3>1 DEF At
  <2> QED
    BY <1>4, <2>1, <2>2, <2>3
<1>5. ASSUME NEW v \in Worker, v # w, WorkerNext(v)
      PROVE  FALSE
  BY <1>5, OtherWorkers
<1>6. ASSUME \/ UNCHANGED vars
             \/ ActivityNext
             \/ \E c \in Claim : ProducerNext(c) \/ GovernanceNext(c)
      PROVE  FALSE
  BY <1>6, ActivityFrame, ProducerFrame, GovernanceFrame DEF vars
<1> QED
  BY <1>1, <1>2, <1>3, <1>4, <1>5, <1>6 DEF Next, WorkerNext, WorkerStep

\* A failure message is that of a failed job, of a dead letter, or of an earlier one.
LEMMA TopicSteps ==
    ASSUME TypeOK, [Next]_vars, NEW m \in failureTopic', m \notin failureTopic
    PROVE  \/ m[2] = "RETRY_EXHAUSTED"
           \/ \E n \in failureTopic : n[1] = m[1] /\ n[2] = m[2]
           \/ \E w \in Worker :
                At(w, "failed") /\ m = <<job[w].claim, Code(w), 0>>
<1>1. ASSUME NEW w \in Worker, WorkerNext(w)
      PROVE  At(w, "failed") /\ m = <<job[w].claim, Code(w), 0>>
  BY <1>1 DEF WorkerNext, WorkerStep, Deliver, PersistRead, PersistWrite, PersistFails,
              RetryLater, RouteFailure, RouteFailureFails, Ack, WorkerCrash, governance
<1>2. ASSUME NEW c \in Claim, GovernanceNext(c)
      PROVE  \/ m[2] = "RETRY_EXHAUSTED"
             \/ \E n \in failureTopic : n[1] = m[1] /\ n[2] = m[2]
  <2>1. ASSUME NEW k \in 0..MaxReconsume, AuditDeadLetter(c, k) \/ AuditFails(c, k)
        PROVE  m[2] = "RETRY_EXHAUSTED"
    BY <2>1 DEF AuditDeadLetter, AuditFails
  <2>2. ASSUME NEW k \in 0..MaxReconsume, NEW code \in FailureCode,
               RecordFailure(c, code, k) \/ RecordFails(c, code, k)
        PROVE  \E n \in failureTopic : n[1] = m[1] /\ n[2] = m[2]
    <3>1. m = <<c, code, k + 1>> /\ <<c, code, k>> \in failureTopic
      BY <2>2 DEF RecordFailure, RecordFails
    <3> QED
      BY <3>1
  <2> QED
    BY <1>2, <2>1, <2>2 DEF GovernanceNext
<1>3. ASSUME \/ UNCHANGED vars
             \/ ActivityNext
             \/ \E c \in Claim : ProducerNext(c)
      PROVE  failureTopic' = failureTopic
  BY <1>3, ActivityFrame, ProducerFrame DEF vars, governance
<1> QED
  BY <1>1, <1>2, <1>3 DEF Next

\* A row of the failure table is the upsert of a failure message.
LEMMA RowSteps ==
    ASSUME TypeOK, [Next]_vars, NEW r \in failureRows', r \notin failureRows
    PROVE  \E n \in failureTopic : r = <<n[1], n[2]>>
<1>1. ASSUME NEW c \in Claim, GovernanceNext(c)
      PROVE  \E n \in failureTopic : r = <<n[1], n[2]>>
  <2>1. ASSUME NEW k \in 0..MaxReconsume, NEW code \in FailureCode,
               RecordFailure(c, code, k) \/ RecordFails(c, code, k)
        PROVE  \E n \in failureTopic : r = <<n[1], n[2]>>
    <3>1. r = <<c, code>> /\ <<c, code, k>> \in failureTopic
      BY <2>1 DEF RecordFailure, RecordFails
    <3> QED
      BY <3>1
  <2>2. ASSUME NEW k \in 0..MaxReconsume, AuditDeadLetter(c, k) \/ AuditFails(c, k)
        PROVE  FALSE
    BY <2>2 DEF AuditDeadLetter, AuditFails, mysql
  <2> QED
    BY <1>1, <2>1, <2>2 DEF GovernanceNext
<1>2. ASSUME \/ UNCHANGED vars
             \/ ActivityNext
             \/ \E c \in Claim : ProducerNext(c)
             \/ \E w \in Worker : WorkerNext(w)
      PROVE  failureRows' = failureRows
  <2>1. ASSUME NEW w \in Worker, WorkerNext(w)
        PROVE  failureRows' = failureRows
    BY <2>1 DEF mysql, WorkerNext, WorkerStep, Deliver, PersistRead, PersistWrite,
                PersistFails, IssueCoupon, RetryLater, RouteFailure,
                RouteFailureFails, Ack, WorkerCrash
  <2> QED
    BY <1>2, <2>1, ActivityFrame, ProducerFrame DEF vars, mysql
<1> QED
  BY <1>1, <1>2 DEF Next

--------------------------------------------------------------------------------
\* Reported conflicts are false alarms

ConflictCode == {"MYSQL_STOCK_CONFLICT", "USER_ALREADY_CLAIMED", "MYSQL_DUPLICATE_CONFLICT"}

\* Whatever reports a conflict, from the failed job to the row, is about a coupon.
AlarmInv ==
    /\ \A w \in Worker :
        At(w, "failed") /\ job[w].error \in BusinessError => job[w].claim \in userCoupon
    /\ \A m \in failureTopic : m[2] \in ConflictCode => m[1] \in userCoupon
    /\ \A r \in failureRows : r[2] \in ConflictCode => r[1] \in userCoupon

\* A user who has a coupon has it by this claim, and when the stock of MySQL is gone
\* every claim Redis granted is a coupon.
LEMMA ConflictMeansCoupon ==
    ASSUME TypeOK, StockConserved, AheadInv, ExactInv, NEW c \in redisClaims,
           remaining = 0 \/ Owner[c] \in Holders(userCoupon)
    PROVE  c \in userCoupon
<1>1. userCoupon \subseteq redisClaims
  BY CouponsWereGranted
<1>2. CASE Owner[c] \in Holders(userCoupon)
  BY <1>1, <1>2 DEF Holders, ExactInv
<1>3. CASE remaining = 0
  <2>1. /\ IsFiniteSet(redisClaims) /\ Cardinality(redisClaims) \in Nat
        /\ Cardinality(userCoupon) \in Nat
    BY RedisFinite, CouponsFinite
  <2>2. Cardinality(userCoupon) <= Cardinality(redisClaims)
    BY <1>1, <2>1, FS_Subset
  <2>3. Cardinality(userCoupon) = Cardinality(redisClaims)
    BY <1>3, <2>1, <2>2, BoundAssumption DEF StockConserved, ExactInv, TypeOK
  <2> QED
    BY <1>1, <2>1, <2>3, FS_Subset
<1> QED
  BY <1>2, <1>3

LEMMA AlarmStep ==
    ASSUME TypeOK, StockConserved, AheadInv, ExactInv, AlarmInv, [Next]_vars
    PROVE  AlarmInv'
<1>1. userCoupon \subseteq userCoupon'
  BY MySQLSteps DEF IssueCoupon
<1>2. ASSUME NEW w \in Worker, At(w, "failed")', job'[w].error \in BusinessError
      PROVE  job'[w].claim \in userCoupon'
  <2>1. CASE job'[w] = job[w]
    BY <1>1, <1>2, <2>1 DEF AlarmInv, At
  <2>2. CASE job'[w] # job[w]
    <3>1. /\ job[w] # Idle /\ job'[w].claim = job[w].claim
          /\ remaining = 0 \/ Owner[job[w].claim] \in Holders(userCoupon)
      BY <1>2, <2>2, FailedSteps, EnvironmentAssumption
      DEF InfrastructureError, BusinessError
    <3>2. job[w].claim \in redisClaims
      BY <3>1, CouponsWereGranted
    <3> QED
      BY <1>1, <3>1, <3>2, ConflictMeansCoupon
  <2> QED
    BY <2>1, <2>2
<1>3. ASSUME NEW m \in failureTopic', m[2] \in ConflictCode
      PROVE  m[1] \in userCoupon'
  <2>1. CASE m \in failureTopic \/ \E n \in failureTopic : n[1] = m[1] /\ n[2] = m[2]
    BY <1>1, <1>3, <2>1 DEF AlarmInv
  <2>2. ASSUME NEW w \in Worker, At(w, "failed"), m = <<job[w].claim, Code(w), 0>>
        PROVE  job[w].claim \in userCoupon
    <3>1. Code(w) \in ConflictCode
      BY <1>3, <2>2
    <3>2. job[w].error \in Error
      BY <2>2, AtIsBusy, JobTypes DEF At, TypeOK
    <3>3. job[w].error \in BusinessError
      BY <3>1, <3>2 DEF Code, Classify, ConflictCode, Error, InfrastructureError
    <3> QED
      BY <2>2, <3>3 DEF AlarmInv
  <2> QED
    BY <1>1, <1>3, <2>1, <2>2, TopicSteps DEF ConflictCode
<1>4. ASSUME NEW r \in failureRows', r[2] \in ConflictCode
      PROVE  r[1] \in userCoupon'
  <2>1. CASE r \in failureRows
    BY <1>1, <1>4, <2>1 DEF AlarmInv
  <2>2. CASE \E n \in failureTopic : r = <<n[1], n[2]>>
    BY <1>1, <1>4, <2>2 DEF AlarmInv
  <2> QED
    BY <1>4, <2>1, <2>2, RowSteps
<1> QED
  BY <1>2, <1>3, <1>4 DEF AlarmInv, At

\* While Redis is undisturbed, a stock or duplicate conflict in the failure table is
\* the report of a second delivery: the claim it names has its coupon.
THEOREM ConflictsExplained ==
    ASSUME RedisUndisturbed
    PROVE  Spec => []ConflictsAreFalseAlarms
<1>1. Init => AlarmInv
  BY DEF Init, AlarmInv, At, Idle
<1>2. TypeOK /\ StockConserved /\ AheadInv /\ ExactInv /\ AlarmInv /\ [Next]_vars
        => AlarmInv'
  BY AlarmStep
<1>3. AlarmInv => ConflictsAreFalseAlarms
  BY DEF AlarmInv, ConflictsAreFalseAlarms, ConflictCode
<1> QED
  BY <1>1, <1>2, <1>3, AheadAlways, TypeCorrect, StockCorrect, PTL DEF Spec

--------------------------------------------------------------------------------
\* A transient outage is never quarantined

\* The errors the policy sends to quarantine never occur, and neither do their codes.
OutageInv ==
    /\ \A w \in Worker : At(w, "failed") =>
        job[w].error \in BusinessError \cup {"TransientDataAccess"}
    /\ \A m \in failureTopic : m[2] \notin QuarantineCodes
    /\ \A r \in failureRows : r[2] \notin QuarantineCodes

LEMMA OutageStep ==
    ASSUME TypeOK, OutageInv, [Next]_vars, DatabaseErrors \subseteq {"TransientDataAccess"}
    PROVE  OutageInv'
<1>1. ASSUME NEW w \in Worker, At(w, "failed")'
      PROVE  job'[w].error \in BusinessError \cup {"TransientDataAccess"}
  <2>1. CASE job'[w] = job[w]
    BY <1>1, <2>1 DEF OutageInv, At
  <2>2. CASE job'[w] # job[w]
    BY <1>1, <2>2, FailedSteps
  <2> QED
    BY <2>1, <2>2
<1>2. ASSUME NEW m \in failureTopic'
      PROVE  m[2] \notin QuarantineCodes
  <2>1. CASE m \in failureTopic \/ \E n \in failureTopic : n[1] = m[1] /\ n[2] = m[2]
    BY <2>1 DEF OutageInv
  <2>2. ASSUME NEW w \in Worker, At(w, "failed"), m = <<job[w].claim, Code(w), 0>>
        PROVE  m[2] \notin QuarantineCodes
    <3>1. job[w].error \in BusinessError \cup {"TransientDataAccess"}
      BY <2>2 DEF OutageInv
    <3>2. job[w].tries \in 0..MaxReconsume
      BY <2>2, AtIsBusy, JobOf
    <3>3. Code(w) \notin QuarantineCodes
      BY <3>1, <3>2, BoundAssumption DEF Code, Classify, BusinessError, QuarantineCodes
    <3> QED
      BY <2>2, <3>3
  <2> QED
    BY <2>1, <2>2, TopicSteps DEF QuarantineCodes
<1>3. ASSUME NEW r \in failureRows'
      PROVE  r[2] \notin QuarantineCodes
  BY <1>3, RowSteps DEF OutageInv
<1> QED
  BY <1>1, <1>2, <1>3 DEF OutageInv, At

\* A database that only fails transiently never puts a claim into quarantine: its
\* failures are retried, and the last one is a dead letter that is reconciled.
THEOREM OutagesAreRetried ==
    ASSUME DatabaseErrors \subseteq {"TransientDataAccess"}
    PROVE  Spec => []OutageIsNotQuarantined
<1>1. Init => OutageInv
  BY DEF Init, OutageInv, At, Idle
<1>2. TypeOK /\ OutageInv /\ [Next]_vars => OutageInv'
  BY OutageStep
<1>3. OutageInv => OutageIsNotQuarantined
  BY DEF OutageInv, OutageIsNotQuarantined
<1> QED
  BY <1>1, <1>2, <1>3, TypeCorrect, PTL DEF Spec

--------------------------------------------------------------------------------
\* The settlement of an ended activity

\* The settlers, the mark of the repairs and the fate of the activity hash leave the
\* pipeline alone, but for the stock of Redis and the count of faults.
Aside ==
    /\ UNCHANGED <<open, redisUsers, redisClaims, producer, inbox, governance, mysql, job,
                   granted, over>>
    /\ redisStock' \in Nat
    /\ faults' \in 0..MaxFaults

AsideStep ==
    \/ ResyncActivity \/ ActivityHashExpires \/ CreatePending \/ LeaseExpires
    \/ \E c \in Claim : ConfirmEvidence(c)
    \/ \E c \in Claim, code \in FailureCode : Resolve(c, code)
    \/ \E s \in Settler : SettlerStep(s) \/ SettlerFault(s)

LEMMA FaultsBounded ==
    ASSUME TypeOK, Fault \/ NoFault
    PROVE  faults' \in 0..MaxFaults
BY BoundAssumption DEF TypeOK, Fault, NoFault

LEMMA StaysAside ==
    ASSUME TypeOK, AsideStep
    PROVE  Aside
<1>1. ASSUME faults' \in 0..MaxFaults,
             UNCHANGED <<redis, producer, inbox, governance, mysql, job, granted, over>>
      PROVE  Aside
  BY <1>1 DEF Aside, redis, TypeOK
<1>2. ASSUME NEW s \in Settler, SettlerStep(s)
      PROVE  Aside
  BY <1>1, <1>2
  DEF SettlerStep, ListCandidate, TryClaim, ReadStock, CountCoupons, CountUnresolved,
      EvaluateTotals, ScheduleCleanup, Complete, Evaluation, vars, TypeOK
<1>3. ASSUME NEW s \in Settler, SettlerFault(s)
      PROVE  Aside
  BY <1>1, <1>3, FaultsBounded DEF SettlerFault, EvaluationFails, CompleteFails, Abandon
<1>4. CASE LeaseExpires
  BY <1>1, <1>4, FaultsBounded DEF LeaseExpires
<1>5. CASE ResyncActivity
  BY <1>5, FaultsBounded, BoundAssumption DEF ResyncActivity, Aside, TypeOK
<1>6. ASSUME \/ ActivityHashExpires \/ CreatePending
             \/ \E c \in Claim : ConfirmEvidence(c)
             \/ \E c \in Claim, code \in FailureCode : Resolve(c, code)
      PROVE  Aside
  BY <1>1, <1>6
  DEF ActivityHashExpires, CreatePending, ConfirmEvidence, Resolve, vars, TypeOK
<1> QED
  BY <1>2, <1>3, <1>4, <1>5, <1>6 DEF AsideStep

LEMMA AsideTypes ==
    ASSUME TypeOK, Aside
    PROVE  TypeOK'
BY DEF Aside, TypeOK, producer, governance, mysql

--------------------------------------------------------------------------------
\* Types

LEMMA EndIsPipelineStep ==
    ASSUME TypeOK, ActivityEnds
    PROVE  [Next]_vars
<1>1. CASE open
  <2>1. CloseActivity
    BY <1>1 DEF ActivityEnds, CloseActivity
  <2> QED
    BY <2>1 DEF Next, ActivityNext
<1>2. CASE ~open
  <2>1. open' = open
    BY <1>2 DEF ActivityEnds, TypeOK
  <2> QED
    BY <2>1 DEF ActivityEnds, vars, redis
<1> QED
  BY <1>1, <1>2

LEMMA ExpiryTypes ==
    ASSUME TypeOK, ClaimsExpire
    PROVE  TypeOK'
BY DEF ClaimsExpire, TypeOK, producer, governance, mysql

LEMMA RepairTypes ==
    ASSUME TypeOK, NEW c \in Claim, Repair(c)
    PROVE  TypeOK'
<1>1. remaining' \in Nat /\ userCoupon' \subseteq Claim /\ failureRows' = failureRows
  BY DEF Repair, IssueCoupon, mysql, TypeOK
<1> QED
  BY <1>1 DEF Repair, TypeOK, redis, producer, governance

LEMMA SettlementTypes ==
    ASSUME TypeOK, [SettlementNext]_settlementVars
    PROVE  TypeOK'
<1>1. CASE UNCHANGED settlementVars
  BY <1>1, TypeStep DEF settlementVars
<1>2. CASE PipelineStep
  BY <1>2, TypeStep DEF PipelineStep
<1>3. CASE ActivityEnds
  BY <1>3, EndIsPipelineStep, TypeStep
<1>4. CASE ClaimsExpire
  BY <1>4, ExpiryTypes
<1>5. ASSUME NEW c \in Claim, Repair(c)
      PROVE  TypeOK'
  BY <1>5, RepairTypes
<1>6. CASE AsideStep
  BY <1>6, StaysAside, AsideTypes
<1> QED
  BY <1>1, <1>2, <1>3, <1>4, <1>5, <1>6 DEF SettlementNext, AsideStep

LEMMA SettlerTypes ==
    ASSUME TypeOK, LedgerTypes, NEW s \in Settler, SettlerStep(s) \/ SettlerFault(s)
    PROVE  LedgerTypes'
<1> USE DEF LedgerTypes, Record, Leave, Doing
<1>1. work[s] \in Work /\ NoWork \in Work
  BY DEF Work, NoWork, Reading, SettlementStatus
<1>2. ASSUME NEW w \in Work, Record(s, w)
      PROVE  work' \in [Settler -> Work]
  BY <1>2
<1>3. ASSUME NEW target \in SettlementStatus, Decide(s, target)
      PROVE  work' \in [Settler -> Work]
  <2>1. [work[s] EXCEPT !.stage = "decided", !.target = target] \in Work
    BY <1>1 DEF Work
  <2> QED
    BY <2>1, <1>2, <1>3 DEF Decide
<1>4. ASSUME TakeLease(s) \/ Conclude(s) \/ UNCHANGED settlement
      PROVE  settlement' \in Settlement
  BY <1>1, <1>4 DEF TakeLease, Conclude, Settlement, Work, SettlementStatus, NoSettler
<1>5. CASE ListCandidate(s)
  <2>1. [NoWork EXCEPT !.stage = "candidate", !.seen = settlement.status] \in Work
    BY <1>1 DEF Work, Settlement
  <2> QED
    BY <1>2, <1>5, <2>1 DEF ListCandidate
<1>6. CASE TryClaim(s)
  <2>1. [work[s] EXCEPT !.stage = "owned"] \in Work
    BY <1>1 DEF Work, Reading
  <2>2. work' \in [Settler -> Work]
    BY <1>1, <1>2, <1>6, <2>1 DEF TryClaim
  <2>3. settlement' \in Settlement
    BY <1>4, <1>6 DEF TryClaim
  <2> QED
    BY <1>6, <2>2, <2>3 DEF TryClaim
<1>7. CASE ReadStock(s) \/ CountCoupons(s) \/ CountUnresolved(s)
  <2>1. remaining \in Nat /\ Cardinality(userCoupon) \in Nat
    BY CouponsFinite DEF TypeOK
  <2>2. /\ [work[s] EXCEPT !.stage = "stock", !.remaining = remaining] \in Work
        /\ [work[s] EXCEPT !.stage = "coupons",
                           !.coupons = Cardinality(userCoupon)] \in Work
        /\ [work[s] EXCEPT !.stage = "failures",
                           !.unresolved = failureRows \ resolved # {}] \in Work
    BY <1>1, <2>1 DEF Work, Reading
  <2>3. work' \in [Settler -> Work]
    BY <1>2, <1>7, <2>2 DEF ReadStock, CountCoupons, CountUnresolved
  <2> QED
    BY <1>7, <2>3 DEF ReadStock, CountCoupons, CountUnresolved, Evaluation
<1>8. CASE EvaluateTotals(s)
  <2>1. [work[s] EXCEPT !.stage = "consistent"] \in Work
    BY <1>1 DEF Work
  <2>2. work' \in [Settler -> Work]
    BY <1>2, <1>3, <1>8, <2>1 DEF EvaluateTotals, SettlementStatus
  <2> QED
    BY <1>8, <2>2 DEF EvaluateTotals, Evaluation
<1>9. CASE ScheduleCleanup(s)
  <2>1. work' \in [Settler -> Work]
    BY <1>3, <1>9 DEF ScheduleCleanup, SettlementStatus
  <2> QED
    BY <1>9, <2>1 DEF ScheduleCleanup
<1>10. CASE EvaluationFails(s)
  <2>1. work' \in [Settler -> Work]
    BY <1>3, <1>10 DEF EvaluationFails, SettlementStatus
  <2> QED
    BY <1>10, <2>1 DEF EvaluationFails
<1>11. CASE Complete(s) \/ CompleteFails(s) \/ Abandon(s)
  <2>1. work' \in [Settler -> Work]
    BY <1>1, <1>2, <1>11 DEF Complete, CompleteFails, Abandon
  <2>2. settlement' \in Settlement
    BY <1>4, <1>11 DEF Complete, CompleteFails, Abandon
  <2> QED
    BY <1>11, <2>1, <2>2 DEF Complete, CompleteFails, Abandon
<1> QED
  BY <1>5, <1>6, <1>7, <1>8, <1>9, <1>10, <1>11 DEF SettlerStep, SettlerFault

LEMMA LedgerTypeStep ==
    ASSUME TypeOK, LedgerTypes, [SettlementNext]_settlementVars
    PROVE  LedgerTypes'
<1> USE DEF LedgerTypes
<1>1. CASE UNCHANGED settlementVars
  BY <1>1 DEF settlementVars, ledger
<1>2. CASE PipelineStep
  <2>1. redisClaims' \subseteq Claim
    BY <1>2, SettlementTypes DEF TypeOK, SettlementNext
  <2> QED
    BY <1>2, <2>1 DEF PipelineStep, ledger
<1>3. CASE ActivityEnds \/ ResyncActivity \/ ActivityHashExpires \/ ClaimsExpire
  BY <1>3 DEF ActivityEnds, ResyncActivity, ActivityHashExpires, ClaimsExpire
<1>4. ASSUME NEW c \in Claim, ConfirmEvidence(c) \/ Repair(c)
      PROVE  LedgerTypes'
  BY <1>4 DEF ConfirmEvidence, Repair
<1>5. ASSUME NEW c \in Claim, NEW code \in FailureCode, Resolve(c, code)
      PROVE  LedgerTypes'
  <2>1. <<c, code>> \in Claim \X FailureCode /\ resolved' = resolved \cup {<<c, code>>}
    BY <1>5 DEF Resolve
  <2> QED
    BY <1>5, <2>1, Zenon DEF Resolve
<1>6. CASE CreatePending \/ LeaseExpires
  <2>1. settlement' \in Settlement
    BY <1>6 DEF CreatePending, LeaseExpires, Settlement, SettlementStatus
  <2> QED
    BY <1>6, <2>1 DEF CreatePending, LeaseExpires
<1> QED
  BY <1>1, <1>2, <1>3, <1>4, <1>5, <1>6, SettlerTypes DEF SettlementNext

--------------------------------------------------------------------------------
\* What Lua granted

\* A claim that Lua never granted stands for nothing, and until the evidence expires
\* Redis knows every claim that it granted.
GrantedInv ==
    /\ \A c \in Claim \ granted : Quiet(c) /\ attempt[c] # "commit" /\ c \notin repairing
    /\ evidence # "none" => redisClaims = granted

\* Nothing of the settlement begins before the end, and the end closes the activity.
OverInv ==
    /\ over => ~open
    /\ ~over => /\ evidence = "whole" /\ ~cleanup /\ settlement.status = "absent"
                /\ \A s \in Settler : Doing(s, "idle")

\* Without a failover, only Lua changes the claims of Redis, and only while the
\* activity is open.
LEMMA ClaimSteps ==
    ASSUME TypeOK, [Next]_vars, "failover" \notin Disturbances
    PROVE  /\ redisClaims \subseteq redisClaims'
           /\ ~open => redisClaims' = redisClaims
<1>1. ASSUME NEW c \in Claim, ProducerNext(c)
      PROVE  UNCHANGED redisClaims \/ (open /\ redisClaims' = redisClaims \cup {c})
  BY <1>1 DEF ProducerNext, SubmitClaim, SubmitFails, ExecuteLua, LuaFails, redis,
              EndTransaction, EndTransactionLost, ProducerCrash, CheckBack, PreDeduct,
              LuaAdmits
<1>2. ASSUME \/ UNCHANGED vars
             \/ ActivityNext
             \/ \E d \in Claim : GovernanceNext(d)
             \/ \E w \in Worker : WorkerNext(w)
      PROVE  UNCHANGED redisClaims
  <2>1. ASSUME ActivityNext
        PROVE  UNCHANGED redisClaims
    BY <2>1 DEF ActivityNext, CloseActivity, ReenableActivity, Failover
  <2> QED
    BY <1>2, <2>1, GovernanceFrame, WorkerFrame DEF vars, redis
<1> QED
  BY <1>1, <1>2 DEF Next

LEMMA CouponsGranted ==
    ASSUME TypeOK, LedgerTypes, GrantedInv
    PROVE  userCoupon \subseteq granted /\ repairing \subseteq granted
BY DEF TypeOK, LedgerTypes, GrantedInv, Quiet

\* The pipeline's own steps.
LEMMA GrantedPipeline ==
    ASSUME TypeOK, GrantedInv, [Next]_vars, "failover" \notin Disturbances,
           granted' = granted \cup redisClaims', UNCHANGED <<evidence, repairing>>,
           evidence = "none" => ~open
    PROVE  GrantedInv'
<1>1. ASSUME NEW c \in Claim \ granted'
      PROVE  Quiet(c)' /\ attempt'[c] # "commit" /\ c \notin repairing'
  <2>1. c \notin granted /\ c \notin redisClaims'
    BY <1>1
  <2>2. Quiet(c) /\ attempt[c] # "commit" /\ c \notin repairing
    BY <2>1 DEF GrantedInv
  <2>3. Quiet(c)'
    BY <2>1, <2>2, QuietKept
  <2>4. attempt'[c] # "commit"
    BY <2>1, <2>2, AttemptSteps
  <2> QED
    BY <2>2, <2>3, <2>4
<1>2. evidence' # "none" => redisClaims' = granted'
  BY ClaimSteps DEF GrantedInv
<1> QED
  BY <1>1, <1>2 DEF GrantedInv, Quiet

LEMMA RepairIssues ==
    ASSUME TypeOK, NEW c \in Claim, Repair(c)
    PROVE  IssueCoupon(c) \/ UNCHANGED <<remaining, userCoupon>>
BY DEF Repair, mysql

\* Only claims that Redis knows come to be repaired.
LEMMA RepairsKnow ==
    ASSUME AsideStep
    PROVE  repairing' \subseteq repairing \cup redisClaims
BY DEF AsideStep, ResyncActivity, ActivityHashExpires, CreatePending, LeaseExpires,
       ConfirmEvidence, Resolve, SettlerStep, ListCandidate, TryClaim, ReadStock,
       CountCoupons, CountUnresolved, EvaluateTotals, ScheduleCleanup, Complete,
       SettlerFault, EvaluationFails, CompleteFails, Abandon, Evaluation

LEMMA GrantedStep ==
    ASSUME TypeOK, LedgerTypes, GrantedInv, OverInv, [SettlementNext]_settlementVars,
           "failover" \notin Disturbances
    PROVE  GrantedInv'
<1>0. evidence = "none" => ~open
  BY DEF OverInv
<1>1. CASE UNCHANGED settlementVars
  BY <1>1 DEF settlementVars, ledger, vars, redis, producer, governance, mysql, GrantedInv,
              Quiet
<1>2. CASE PipelineStep
  <2>1. /\ [Next]_vars /\ granted' = granted \cup redisClaims'
        /\ UNCHANGED <<evidence, repairing>>
    BY <1>2 DEF PipelineStep, ledger
  <2> QED
    BY <1>0, <2>1, GrantedPipeline
<1>3. CASE ActivityEnds
  BY <1>3 DEF ActivityEnds, producer, governance, mysql, GrantedInv, Quiet
<1>4. CASE ClaimsExpire
  BY <1>4 DEF ClaimsExpire, producer, governance, mysql, GrantedInv, Quiet
<1>5. ASSUME NEW d \in Claim, Repair(d)
      PROVE  GrantedInv'
  <2>1. d \in granted
    BY <1>5, CouponsGranted DEF Repair
  <2>2. userCoupon' \subseteq userCoupon \cup {d}
    BY <1>5, RepairIssues DEF IssueCoupon
  <2>3. /\ UNCHANGED <<redisClaims, attempt, inbox, deadLetters, job, granted, evidence>>
        /\ repairing' \subseteq repairing
    BY <1>5 DEF Repair, redis, producer, governance
  <2> QED
    BY <2>1, <2>2, <2>3 DEF GrantedInv, Quiet
<1>6. CASE AsideStep
  <2>1. UNCHANGED <<redisClaims, attempt, inbox, deadLetters, userCoupon, job, granted>>
    BY <1>6, StaysAside DEF Aside, producer, governance, mysql
  <2>2. repairing' \subseteq repairing \cup redisClaims
    BY <1>6, RepairsKnow
  <2>3. evidence' # "none" => evidence # "none"
    BY <1>6 DEF AsideStep, ResyncActivity, ActivityHashExpires, CreatePending,
                LeaseExpires, ConfirmEvidence, Resolve, SettlerStep, ListCandidate,
                TryClaim, ReadStock, CountCoupons, CountUnresolved, EvaluateTotals, ScheduleCleanup, Complete,
                SettlerFault, EvaluationFails, CompleteFails, Abandon, Evaluation
  <2>4. ASSUME NEW c \in Claim \ granted
        PROVE  Quiet(c)' /\ attempt'[c] # "commit" /\ c \notin repairing'
    <3>1. Quiet(c) /\ attempt[c] # "commit" /\ c \notin repairing
      BY DEF GrantedInv
    <3> QED
      BY <2>1, <2>2, <3>1 DEF Quiet
  <2> QED
    BY <2>1, <2>3, <2>4 DEF GrantedInv, Quiet
<1> QED
  BY <1>1, <1>2, <1>3, <1>4, <1>5, <1>6 DEF SettlementNext, AsideStep

LEMMA SettlerIsBusy ==
    ASSUME LedgerTypes, OverInv, NEW s \in Settler, SettlerStep(s) \/ SettlerFault(s)
    PROVE  over
<1>1. CASE ListCandidate(s)
  BY <1>1 DEF ListCandidate, OverInv
<1>2. CASE ~ListCandidate(s)
  BY <1>2 DEF SettlerStep, SettlerFault, TryClaim, ReadStock, CountCoupons, CountUnresolved,
              EvaluateTotals, ScheduleCleanup, Complete, EvaluationFails, CompleteFails,
              Abandon, OverInv, Doing, Reading
<1> QED
  BY <1>1, <1>2

LEMMA OverStep ==
    ASSUME TypeOK, LedgerTypes, OverInv, [SettlementNext]_settlementVars
    PROVE  OverInv'
<1>1. CASE UNCHANGED settlementVars
  BY <1>1 DEF settlementVars, ledger, vars, redis, OverInv, Doing
<1>2. CASE PipelineStep
  BY <1>2 DEF PipelineStep, ledger, OverInv, Doing
<1>3. CASE ActivityEnds
  BY <1>3 DEF ActivityEnds, OverInv
<1>4. CASE ClaimsExpire
  <2>1. over
    BY <1>4 DEF ClaimsExpire, OverInv
  <2> QED
    BY <1>4, <2>1 DEF ClaimsExpire, OverInv
<1>5. ASSUME NEW c \in Claim, Repair(c)
      PROVE  OverInv'
  BY <1>5 DEF Repair, redis, OverInv, Doing
<1>6. CASE AsideStep
  <2>1. UNCHANGED <<open, over>>
    BY <1>6, StaysAside DEF Aside
  <2>2. CASE over
    BY <2>1, <2>2 DEF OverInv
  <2>3. CASE ~over
    <3>1. ASSUME NEW c \in Claim, NEW code \in FailureCode,
                 Resolve(c, code)
          PROVE  OverInv'
      BY <2>1, <3>1 DEF Resolve, OverInv, Doing
    <3>2. ASSUME NEW c \in Claim, ConfirmEvidence(c)
          PROVE  OverInv'
      BY <2>1, <3>2 DEF ConfirmEvidence, OverInv, Doing
    <3>3. CASE ResyncActivity \/ ActivityHashExpires \/ CreatePending \/ LeaseExpires
      BY <2>3, <3>3
      DEF ResyncActivity, ActivityHashExpires, CreatePending, LeaseExpires, OverInv
    <3> QED
      BY <1>6, <2>3, <3>1, <3>2, <3>3, SettlerIsBusy DEF AsideStep
  <2> QED
    BY <2>2, <2>3
<1> QED
  BY <1>1, <1>2, <1>3, <1>4, <1>5, <1>6 DEF SettlementNext, AsideStep

--------------------------------------------------------------------------------
\* The totals

\* Totals that agreed are final: every claim granted is a coupon, and they say how many.
Final(totals) ==
    /\ granted \subseteq userCoupon
    /\ totals.coupons = Cardinality(userCoupon)
    /\ totals.remaining = remaining

Agreed(s) ==
    Doing(s, "consistent") \/ (Doing(s, "decided") /\ work[s].target = "CONSISTENT")

\* A settler that has counted the coupons has not counted too many, since there are
\* never fewer.
TotalsInv ==
    /\ cleanup => granted \subseteq userCoupon
    /\ settlement.status = "CONSISTENT" => Final(settlement)
    /\ \A s \in Settler :
        /\ Doing(s, "coupons") \/ Doing(s, "failures")
             => work[s].coupons <= Cardinality(userCoupon)
        /\ Agreed(s) => Final(work[s])

SettlementInv ==
    TypeOK /\ LedgerTypes /\ StockConserved /\ OneCouponPerUser /\ GrantedInv /\ OverInv

\* The counts of MySQL and of Redis are read apart, and yet when they agree, nothing that
\* Lua granted is left on its way: coupons are a subset of the claims of Redis, and the
\* earlier count of them is as large as the later one of the claims.
LEMMA AgreementIsFinal ==
    ASSUME SettlementInv, NEW s \in Settler, Agrees(s),
           work[s].coupons <= Cardinality(userCoupon)
    PROVE  Final(work[s])
<1>1. redisClaims = granted /\ userCoupon \subseteq redisClaims
  BY CouponsGranted DEF Agrees, SettlementInv, GrantedInv
<1>2. /\ IsFiniteSet(redisClaims) /\ Cardinality(redisClaims) \in Nat
      /\ Cardinality(userCoupon) \in Nat
  BY RedisFinite, CouponsFinite DEF SettlementInv
<1>3. Cardinality(userCoupon) <= Cardinality(redisClaims)
  BY <1>1, <1>2, FS_Subset
<1>4. Cardinality(redisClaims) = work[s].coupons
  BY DEF Agrees
<1>5. Cardinality(userCoupon) = Cardinality(redisClaims)
  BY <1>2, <1>3, <1>4
<1>6. userCoupon = redisClaims
  BY <1>1, <1>2, <1>5, FS_Subset
<1>7. work[s].remaining = remaining
  <2>1. work[s].remaining \in Nat /\ remaining \in Nat
    BY DEF SettlementInv, LedgerTypes, Work, TypeOK
  <2>2. TotalStock - work[s].remaining = Cardinality(userCoupon)
    BY <1>4, <1>5 DEF Agrees
  <2>3. remaining + Cardinality(userCoupon) = TotalStock
    BY DEF SettlementInv, StockConserved
  <2> QED
    BY <1>2, <2>1, <2>2, <2>3, BoundAssumption
<1> QED
  BY <1>1, <1>4, <1>5, <1>6, <1>7 DEF Final

\* Coupons are never taken back, and once the time is over Lua grants nothing more.
LEMMA BooksGrow ==
    ASSUME SettlementInv, [SettlementNext]_settlementVars, "failover" \notin Disturbances
    PROVE  /\ userCoupon \subseteq userCoupon'
           /\ over => granted' = granted
<1> USE DEF SettlementInv
<1>1. CASE UNCHANGED settlementVars
  BY <1>1 DEF settlementVars, vars, mysql
<1>2. CASE PipelineStep
  <2>1. [Next]_vars /\ granted' = granted \cup redisClaims'
    BY <1>2 DEF PipelineStep
  <2>2. userCoupon \subseteq userCoupon'
    BY <2>1, MySQLSteps DEF IssueCoupon
  <2>3. over => redisClaims' \subseteq granted
    <3>1. redisClaims \subseteq granted
      BY DEF GrantedInv, Quiet, TypeOK
    <3> QED
      BY <2>1, <3>1, ClaimSteps DEF OverInv
  <2> QED
    BY <2>1, <2>2, <2>3
<1>3. CASE ActivityEnds \/ ClaimsExpire
  BY <1>3 DEF ActivityEnds, ClaimsExpire, mysql
<1>4. ASSUME NEW c \in Claim, Repair(c)
      PROVE  userCoupon \subseteq userCoupon' /\ granted' = granted
  BY <1>4, RepairIssues DEF Repair, IssueCoupon
<1>5. CASE AsideStep
  BY <1>5, StaysAside DEF Aside, mysql
<1> QED
  BY <1>1, <1>2, <1>3, <1>4, <1>5 DEF SettlementNext, AsideStep

\* So totals that were final stay what they were.
LEMMA FinalStays ==
    ASSUME SettlementInv, SettlementInv', over, granted \subseteq userCoupon,
           [SettlementNext]_settlementVars, "failover" \notin Disturbances
    PROVE  UNCHANGED <<granted, userCoupon, remaining>>
<1>1. granted' = granted /\ userCoupon \subseteq userCoupon'
  BY BooksGrow
<1>2. userCoupon' \subseteq granted'
  BY DEF SettlementInv, GrantedInv, Quiet, TypeOK
<1>3. userCoupon' = userCoupon
  BY <1>1, <1>2
<1>4. /\ remaining + Cardinality(userCoupon) = TotalStock
      /\ remaining' + Cardinality(userCoupon) = TotalStock
  BY <1>3 DEF SettlementInv, StockConserved
<1>5. remaining \in Nat /\ remaining' \in Nat /\ Cardinality(userCoupon) \in Nat
  BY CouponsFinite DEF SettlementInv, TypeOK
<1> QED
  BY <1>1, <1>3, <1>4, <1>5

\* Consumers and repairs alike write to MySQL by the one conditional decrement.
LEMMA SettlementMySQL ==
    ASSUME TypeOK, [SettlementNext]_settlementVars
    PROVE  \/ UNCHANGED <<remaining, userCoupon>>
           \/ \E c \in Claim : IssueCoupon(c)
<1>1. CASE UNCHANGED settlementVars \/ ActivityEnds \/ ClaimsExpire
  BY <1>1 DEF settlementVars, vars, mysql, ActivityEnds, ClaimsExpire
<1>2. CASE PipelineStep
  BY <1>2, MySQLSteps DEF PipelineStep
<1>3. ASSUME NEW c \in Claim, Repair(c)
      PROVE  IssueCoupon(c) \/ UNCHANGED <<remaining, userCoupon>>
  BY <1>3, RepairIssues
<1>4. CASE AsideStep
  BY <1>4, StaysAside DEF Aside, mysql
<1> QED
  BY <1>1, <1>2, <1>3, <1>4 DEF SettlementNext, AsideStep

LEMMA SettlementStock ==
    ASSUME TypeOK, StockConserved, OneCouponPerUser, [SettlementNext]_settlementVars
    PROVE  (StockConserved /\ OneCouponPerUser)'
<1>1. CASE UNCHANGED <<remaining, userCoupon>>
  BY <1>1 DEF StockConserved, OneCouponPerUser
<1> QED
  BY <1>1, SettlementMySQL, IssueKeepsStock DEF StockInv

LEMMA SettlementInvStep ==
    ASSUME SettlementInv, [SettlementNext]_settlementVars, "failover" \notin Disturbances
    PROVE  SettlementInv'
BY SettlementTypes, LedgerTypeStep, SettlementStock, GrantedStep, OverStep DEF SettlementInv

\* What a settler may do to the totals: it reads them, forgets them, or carries on with
\* those that agreed.
LEMMA SettlerTotals ==
    ASSUME SettlementInv, TotalsInv, NEW s \in Settler, SettlerStep(s) \/ SettlerFault(s)
    PROVE  /\ UNCHANGED <<granted, userCoupon, remaining>>
           /\ cleanup' => cleanup \/ Agreed(s)
           /\ settlement'.status = "CONSISTENT" =>
                \/ UNCHANGED settlement
                \/ /\ Agreed(s)
                   /\ settlement'.coupons = work[s].coupons
                   /\ settlement'.remaining = work[s].remaining
           /\ \A r \in Settler \ {s} : work'[r] = work[r]
           /\ work'[s].stage \in {"coupons", "failures"}
                => work'[s].coupons <= Cardinality(userCoupon)
           /\ Agreed(s)' => Final(work'[s])
<1> USE DEF SettlementInv
<1>1. UNCHANGED <<granted, userCoupon, remaining>>
  BY StaysAside DEF AsideStep, Aside, mysql
<1>2. work \in [Settler -> Work] /\ settlement \in Settlement
  BY DEF LedgerTypes
\* A settler records its own work only, and what has not agreed need not be final.
<1> DEFINE Others == \A r \in Settler \ {s} : work'[r] = work[r]
<1>a. ASSUME NEW x, work' = [work EXCEPT ![s] = x]
      PROVE  work'[s] = x /\ Others
  BY <1>2, <1>a
<1>w. work[s] \in Work
  BY <1>2
<1>b. ASSUME work'[s].stage # "consistent",
             work'[s].stage = "decided" => work'[s].target # "CONSISTENT"
      PROVE  ~Agreed(s)'
  BY <1>b DEF Agreed, Doing
<1> HIDE DEF Others
<1>3. CASE ListCandidate(s)
  <2>1. work'[s].stage = "candidate" /\ Others
    BY <1>3, <1>a DEF Record, ListCandidate, NoWork
  <2> QED
    BY <1>1, <1>3, <1>b, <2>1 DEF ListCandidate, Others
<1>4. CASE TryClaim(s)
  <2>1. settlement'.status = "CONSISTENT" => UNCHANGED settlement
    BY <1>2, <1>4 DEF TryClaim, TakeLease, Settlement
  <2>2. work'[s].stage \in {"owned", "idle"} /\ Others
    <3>1. CASE Grantable(work[s].seen)
      BY <1>4, <1>a, <1>w, <3>1 DEF Work, Record, TryClaim
    <3>2. CASE ~Grantable(work[s].seen)
      BY <1>4, <1>a, <3>2 DEF Record, TryClaim, Leave, NoWork
    <3> QED
      BY <3>1, <3>2
  <2> QED
    BY <1>1, <1>4, <1>b, <2>1, <2>2 DEF TryClaim, Others
<1>5. CASE ReadStock(s)
  <2>1. work'[s].stage = "stock" /\ Others
    BY <1>5, <1>a, <1>w DEF Work, Record, ReadStock
  <2> QED
    BY <1>1, <1>5, <1>b, <2>1 DEF ReadStock, Evaluation, Others
<1>6. CASE CountCoupons(s)
  <2>1. /\ work'[s].stage = "coupons" /\ work'[s].coupons = Cardinality(userCoupon)
        /\ Others
    BY <1>6, <1>a, <1>w DEF Work, Record, CountCoupons
  <2>2. Cardinality(userCoupon) \in Nat
    BY CouponsFinite
  <2> QED
    BY <1>1, <1>6, <1>b, <2>1, <2>2 DEF CountCoupons, Evaluation, Others
<1>7. CASE CountUnresolved(s)
  <2>1. work'[s].stage = "failures" /\ work'[s].coupons = work[s].coupons /\ Others
    <3>1. \E u : work' = [work EXCEPT ![s] = [work[s] EXCEPT !.stage = "failures",
                                                           !.unresolved = u]]
      BY <1>7 DEF Record, CountUnresolved
    <3>2. (\E u : work'[s] = [work[s] EXCEPT !.stage = "failures", !.unresolved = u])
          /\ Others
      BY <3>1, <1>a
    <3> QED
      BY <3>2, <1>w DEF Work
  <2>2. work[s].coupons <= Cardinality(userCoupon)
    BY <1>7 DEF CountUnresolved, TotalsInv
  <2> QED
    BY <1>1, <1>7, <1>b, <2>1, <2>2 DEF CountUnresolved, Evaluation, Others
<1>8. CASE EvaluateTotals(s)
  <2>1. UNCHANGED <<cleanup, settlement>>
    BY <1>8 DEF EvaluateTotals, Evaluation
  <2>2. CASE Agrees(s)
    <3>1. /\ work'[s].stage = "consistent" /\ work'[s].coupons = work[s].coupons
          /\ work'[s].remaining = work[s].remaining /\ Others
      <4>1. work' = [work EXCEPT ![s] = [work[s] EXCEPT !.stage = "consistent"]]
        BY <1>8, <2>2 DEF Record, EvaluateTotals
      <4>2. work'[s] = [work[s] EXCEPT !.stage = "consistent"] /\ Others
        BY <4>1, <1>a
      <4> QED
        BY <4>2, <1>w DEF Work
    <3>2. work[s].coupons <= Cardinality(userCoupon)
      BY <1>8 DEF EvaluateTotals, TotalsInv
    <3>3. Final(work'[s])
      BY <2>2, <3>1, <3>2, AgreementIsFinal DEF Final
    <3> QED
      BY <1>1, <2>1, <3>1, <3>3 DEF Others
  <2>3. CASE ~Agrees(s)
    <3>1. /\ work'[s].stage = "decided" /\ work'[s].target # "CONSISTENT" /\ Others
      <4>1. PICK target \in {"RECHECK_PENDING", "MANUAL_REQUIRED"} :
              work' = [work EXCEPT ![s] = [work[s] EXCEPT !.stage = "decided",
                                                          !.target = target]]
        BY <1>8, <2>3 DEF Record, EvaluateTotals, Decide
      <4>2. work'[s] = [work[s] EXCEPT !.stage = "decided", !.target = target] /\ Others
        BY <4>1, <1>a
      <4> QED
        BY <4>2, <1>w DEF Work
    <3> QED
      BY <1>1, <1>b, <2>1, <3>1 DEF Others
  <2> QED
    BY <2>2, <2>3
<1>9. CASE ScheduleCleanup(s)
  <2>1. /\ work'[s].stage = "decided" /\ work'[s].coupons = work[s].coupons
        /\ work'[s].remaining = work[s].remaining /\ Others
    <3>1. work' = [work EXCEPT ![s] = [work[s] EXCEPT !.stage = "decided",
                                                      !.target = "CONSISTENT"]]
      BY <1>9 DEF Record, ScheduleCleanup, Decide
    <3>2. /\ work'[s] = [work[s] EXCEPT !.stage = "decided", !.target = "CONSISTENT"]
          /\ Others
      BY <3>1, <1>a
    <3> QED
      BY <3>2, <1>w DEF Work
  <2>2. Agreed(s) /\ Final(work'[s])
    BY <1>9, <2>1 DEF ScheduleCleanup, Agreed, TotalsInv, Final
  <2> QED
    BY <1>1, <1>9, <2>1, <2>2 DEF ScheduleCleanup, Others
<1>10. CASE EvaluationFails(s)
  <2>1. work'[s].stage = "decided" /\ work'[s].target = "RECHECK_PENDING" /\ Others
    <3>1. work' = [work EXCEPT ![s] = [work[s] EXCEPT !.stage = "decided",
                                                      !.target = "RECHECK_PENDING"]]
      BY <1>10 DEF Record, EvaluationFails, Decide
    <3>2. /\ work'[s] = [work[s] EXCEPT !.stage = "decided", !.target = "RECHECK_PENDING"]
          /\ Others
      BY <3>1, <1>a
    <3> QED
      BY <3>2, <1>w DEF Work
  <2>2. cleanup' => cleanup \/ Agreed(s)
    BY <1>10 DEF EvaluationFails, Agreed
  <2> QED
    BY <1>1, <1>10, <1>b, <2>1, <2>2 DEF EvaluationFails, Others
<1>11. CASE Complete(s) \/ CompleteFails(s)
  <2>1. Doing(s, "decided") /\ (UNCHANGED settlement \/ Conclude(s)) /\ Leave(s)
    BY <1>11 DEF Complete, CompleteFails
  <2>2. settlement'.status = "CONSISTENT" =>
          \/ UNCHANGED settlement
          \/ /\ Agreed(s)
             /\ settlement'.coupons = work[s].coupons
             /\ settlement'.remaining = work[s].remaining
    BY <1>2, <2>1 DEF Conclude, Agreed, Settlement
  <2>3. work'[s].stage = "idle" /\ Others
    BY <1>a, <2>1 DEF Record, Leave, NoWork
  <2> QED
    BY <1>1, <1>11, <1>b, <2>2, <2>3 DEF Complete, CompleteFails, Others
<1>12. CASE Abandon(s)
  <2>1. work'[s].stage = "idle" /\ Others
    BY <1>12, <1>a DEF Record, Abandon, Leave, NoWork
  <2>2. settlement'.status = "CONSISTENT" => UNCHANGED settlement
    BY <1>2, <1>12 DEF Abandon, TakeLease, Settlement
  <2> QED
    BY <1>1, <1>12, <1>b, <2>1, <2>2 DEF Abandon, Others
<1> QED
  BY <1>3, <1>4, <1>5, <1>6, <1>7, <1>8, <1>9, <1>10, <1>11, <1>12
  DEF SettlerStep, SettlerFault

LEMMA TotalsStep ==
    ASSUME SettlementInv, SettlementInv', TotalsInv, [SettlementNext]_settlementVars,
           "failover" \notin Disturbances
    PROVE  TotalsInv'
<1>1. /\ userCoupon \subseteq userCoupon'
      /\ over => granted' = granted
      /\ over /\ granted \subseteq userCoupon
           => UNCHANGED <<granted, userCoupon, remaining>>
  BY BooksGrow, FinalStays
<1>2. Cardinality(userCoupon) <= Cardinality(userCoupon')
  <2>1. userCoupon' \subseteq Claim
    BY DEF SettlementInv, TypeOK
  <2>2. IsFiniteSet(userCoupon')
    BY <2>1, FS_Subset, ClaimAssumption
  <2> QED
    BY <1>1, <2>2, FS_Subset
<1>3. /\ Cardinality(userCoupon) \in Nat /\ Cardinality(userCoupon') \in Nat
      /\ \A s \in Settler : work[s].coupons \in Nat
  <2>1. userCoupon' \subseteq Claim
    BY DEF SettlementInv, TypeOK
  <2>2. Cardinality(userCoupon') \in Nat
    BY <2>1, FS_Subset, FS_CardinalityType, ClaimAssumption
  <2> QED
    BY <2>2, CouponsFinite DEF SettlementInv, LedgerTypes, Work
<1>4. ASSUME UNCHANGED <<cleanup, settlement, work>>
      PROVE  TotalsInv'
  <2>1. CASE ~over
    BY <1>4, <2>1 DEF SettlementInv, OverInv, TotalsInv, Doing, Agreed
  <2>2. CASE over
    <3>1. cleanup' => granted' \subseteq userCoupon'
      BY <1>1, <1>4, <2>2 DEF TotalsInv
    <3>2. settlement'.status = "CONSISTENT" => Final(settlement)'
      BY <1>1, <1>4, <2>2 DEF TotalsInv, Final
    <3>3. ASSUME NEW s \in Settler
          PROVE  /\ Doing(s, "coupons")' \/ Doing(s, "failures")'
                      => work'[s].coupons <= Cardinality(userCoupon')
                 /\ Agreed(s)' => Final(work[s])'
      <4>1. Doing(s, "coupons")' \/ Doing(s, "failures")'
              => work'[s].coupons <= Cardinality(userCoupon')
        BY <1>2, <1>3, <1>4 DEF TotalsInv, Doing
      <4>2. Agreed(s)' => Final(work[s])'
        BY <1>1, <1>4, <2>2 DEF TotalsInv, Agreed, Doing, Final
      <4> QED
        BY <4>1, <4>2
    <3> QED
      BY <3>1, <3>2, <3>3 DEF TotalsInv
  <2> QED
    BY <2>1, <2>2
<1>5. ASSUME NEW s \in Settler, SettlerStep(s) \/ SettlerFault(s)
      PROVE  TotalsInv'
  <2>1. /\ UNCHANGED <<granted, userCoupon, remaining>>
        /\ cleanup' => cleanup \/ Agreed(s)
        /\ \A r \in Settler \ {s} : work'[r] = work[r]
        /\ work'[s].stage \in {"coupons", "failures"}
             => work'[s].coupons <= Cardinality(userCoupon)
        /\ Agreed(s)' => Final(work'[s])
    BY <1>5, SettlerTotals
  <2>2. settlement'.status = "CONSISTENT" =>
          \/ UNCHANGED settlement
          \/ /\ Agreed(s)
             /\ settlement'.coupons = work[s].coupons
             /\ settlement'.remaining = work[s].remaining
    BY <1>5, SettlerTotals
  <2>3. cleanup' => granted' \subseteq userCoupon'
    BY <2>1 DEF TotalsInv, Final
  <2>4. settlement'.status = "CONSISTENT" => Final(settlement)'
    BY <2>1, <2>2 DEF TotalsInv, Final
  <2>5. ASSUME NEW r \in Settler
        PROVE  /\ Doing(r, "coupons")' \/ Doing(r, "failures")'
                    => work'[r].coupons <= Cardinality(userCoupon')
               /\ Agreed(r)' => Final(work[r])'
    BY <2>1 DEF TotalsInv, Doing, Agreed, Final
  <2> QED
    BY <2>3, <2>4, <2>5 DEF TotalsInv
<1>6. ASSUME \/ \E c \in Claim : ConfirmEvidence(c) \/ Repair(c)
             \/ \E c \in Claim, code \in FailureCode : Resolve(c, code)
      PROVE  TotalsInv'
  BY <1>4, <1>6 DEF ConfirmEvidence, Repair, Resolve
<1>7. CASE UNCHANGED settlementVars \/ PipelineStep \/ ActivityEnds \/ ResyncActivity
           \/ ActivityHashExpires \/ ClaimsExpire
  BY <1>4, <1>7 DEF settlementVars, ledger, PipelineStep, ActivityEnds, ResyncActivity,
                    ActivityHashExpires, ClaimsExpire
<1>8. CASE CreatePending \/ LeaseExpires
  <2>1. /\ UNCHANGED <<granted, userCoupon, remaining, cleanup, work>>
        /\ settlement'.status # "CONSISTENT"
    BY <1>8 DEF CreatePending, LeaseExpires, vars, mysql, SettlementInv, LedgerTypes,
                Settlement
  <2> QED
    BY <2>1 DEF TotalsInv, Final, Agreed, Doing
<1> QED
  BY <1>4, <1>5, <1>6, <1>7, <1>8 DEF SettlementNext

\* The whole invariant of the settlement.
LEMMA SettlementStarts == SettlementInit => SettlementInv /\ TotalsInv
<1> SUFFICES ASSUME SettlementInit
             PROVE  SettlementInv /\ TotalsInv
  OBVIOUS
<1> USE DEF SettlementInit
<1>1. TypeOK /\ StockConserved /\ OneCouponPerUser
  BY TypeInit, StockInit
<1>2. LedgerTypes
  BY DEF LedgerTypes, Settlement, SettlementStatus, NoSettler, Work, NoWork, Reading
<1>3. GrantedInv
  BY DEF Init, GrantedInv, Quiet
<1>4. OverInv /\ TotalsInv
  BY DEF OverInv, TotalsInv, Doing, Agreed, NoWork
<1> QED
  BY <1>1, <1>2, <1>3, <1>4 DEF SettlementInv

LEMMA SettlementAlways ==
    ASSUME "failover" \notin Disturbances
    PROVE  SettlementSpec => [](SettlementInv /\ TotalsInv)
<1>1. /\ SettlementInv /\ TotalsInv /\ [SettlementNext]_settlementVars
      => SettlementInv' /\ TotalsInv'
  BY SettlementInvStep, TotalsStep
<1> QED
  BY <1>1, SettlementStarts, PTL DEF SettlementSpec

\* Unless a failover loses a claim, no interleaving of settlers, late deliveries, repairs,
\* check-backs and lost replies lets the settlement give up the evidence of a claim that
\* is not yet a coupon.
THEOREM EvidenceIsKept ==
    ASSUME "failover" \notin Disturbances
    PROVE  SettlementSpec => []CleanupLosesNothing
<1>1. TotalsInv => CleanupLosesNothing
  BY DEF TotalsInv, CleanupLosesNothing
<1> QED
  BY <1>1, SettlementAlways, PTL

\* The totals a consistent settlement records are those of MySQL for ever after, although
\* they were read one after the other while coupons were being issued.
THEOREM SettlementIsFinal ==
    ASSUME "failover" \notin Disturbances
    PROVE  SettlementSpec => []SettledTotalsStand
<1>1. TotalsInv => SettledTotalsStand
  BY DEF TotalsInv, SettledTotalsStand, Final
<1> QED
  BY <1>1, SettlementAlways, PTL

\* With repairs and settlers beside it the pipeline still only issues coupons as the
\* abstract specification does, whatever Redis forgets: that needs no premise.
THEOREM SettlementImplementsIssue == SettlementSpec => IssueSpec
<1>1. SettlementInit => TypeOK /\ StockConserved /\ OneCouponPerUser /\ Issue!Init
  BY TypeInit, StockInit DEF SettlementInit, Init, Issue!Init
<1>2. TypeOK /\ StockConserved /\ OneCouponPerUser /\ [SettlementNext]_settlementVars
        => /\ TypeOK' /\ StockConserved' /\ OneCouponPerUser'
           /\ [Issue!Next]_userCoupon
  BY SettlementTypes, SettlementStock, SettlementMySQL, IssueCouponIssues
  DEF StockInv, Issue!Next
<1> QED
  BY <1>1, <1>2, PTL DEF SettlementSpec, IssueSpec, Issue!Spec

\* No claim vanishes while its activity is being settled either: repairs only add
\* coupons, and the expiry of the evidence asks for nothing more.
LEMMA SettlementVanishStep ==
    ASSUME VanishInv, [SettlementNext]_settlementVars,
           "early check-back" \notin Disturbances
    PROVE  (AckInv /\ HalfInv /\ NoClaimVanishes)'
<1> USE DEF VanishInv
<1>1. CASE PipelineStep \/ ActivityEnds
  BY <1>1, EndIsPipelineStep, VanishStep DEF PipelineStep
<1>2. ASSUME UNCHANGED <<attempt, half, inbox, deadLetters, failureTopic, parked,
                         failureRows, job>>,
             userCoupon \subseteq userCoupon', redisClaims' \subseteq redisClaims
      PROVE  (AckInv /\ HalfInv /\ NoClaimVanishes)'
  <2>1. \A c \in Claim : Accounted(c) => Accounted(c)'
    BY <1>2 DEF Accounted
  <2>2. AckInv'
    BY <1>2, <2>1, JobOf, AtIsBusy DEF AckInv, At
  <2>3. HalfInv'
    BY <1>2 DEF HalfInv
  <2>4. NoClaimVanishes'
    BY <1>2, <2>1 DEF NoClaimVanishes, Tracked, InFlight, TypeOK
  <2> QED
    BY <2>2, <2>3, <2>4
<1>3. CASE UNCHANGED settlementVars \/ ClaimsExpire
  BY <1>2, <1>3 DEF settlementVars, vars, ClaimsExpire, redis, producer, governance, mysql
<1>4. ASSUME NEW c \in Claim, Repair(c)
      PROVE  (AckInv /\ HalfInv /\ NoClaimVanishes)'
  BY <1>2, <1>4 DEF Repair, IssueCoupon, redis, producer, governance, mysql
<1>5. CASE AsideStep
  BY <1>2, <1>5, StaysAside DEF Aside, producer, governance, mysql
<1> QED
  BY <1>1, <1>3, <1>4, <1>5 DEF SettlementNext, AsideStep

\* Unless the broker asks back too early, the system tracks every claim that Redis knows,
\* with settlers, repairs and the expiry of the evidence at work as without.
THEOREM NothingVanishesInSettlement ==
    ASSUME "early check-back" \notin Disturbances
    PROVE  SettlementSpec => []NoClaimVanishes
<1>1. SettlementInit => TypeOK /\ AckInv /\ HalfInv /\ NoClaimVanishes
  BY TypeInit, VanishInit DEF SettlementInit
<1>2. /\ TypeOK /\ AckInv /\ HalfInv /\ NoClaimVanishes /\ [SettlementNext]_settlementVars
      => TypeOK' /\ (AckInv /\ HalfInv /\ NoClaimVanishes)'
  BY SettlementTypes, SettlementVanishStep DEF VanishInv
<1> QED
  BY <1>1, <1>2, PTL DEF SettlementSpec

\* A claim that Lua has not granted, or has refused, is not being repaired.
Refused(c) == attempt[c] \in {"none", "running", "rollback"} \/ answer[c] = "rejected"
SparedInv == \A c \in repairing : ~Refused(c)

LEMMA SettlementRefusedStep ==
    ASSUME TypeOK, LedgerTypes, RefusedInv, SparedInv, [SettlementNext]_settlementVars
    PROVE  RefusedInv' /\ SparedInv'
<1>1. ASSUME UNCHANGED <<attempt, answer, inbox, deadLetters, job>>,
             redisClaims' \subseteq redisClaims,
             repairing' \subseteq repairing \cup redisClaims,
             \A c \in Claim : c \in userCoupon' => c \in userCoupon \/ ~Refused(c)
      PROVE  RefusedInv' /\ SparedInv'
  <2>1. \A c \in redisClaims : ~Refused(c)
    BY DEF RefusedInv, Refused, Quiet, TypeOK
  <2>2. SparedInv'
    BY <1>1, <2>1 DEF SparedInv, Refused
  <2>3. RefusedInv'
    BY <1>1 DEF RefusedInv, Refused, Quiet
  <2> QED
    BY <2>2, <2>3
<1>2. CASE UNCHANGED settlementVars \/ ActivityEnds \/ ClaimsExpire
  <2>1. /\ UNCHANGED <<attempt, answer, inbox, deadLetters, job, userCoupon, repairing>>
        /\ redisClaims' \subseteq redisClaims
    BY <1>2 DEF settlementVars, ledger, vars, redis, ActivityEnds, ClaimsExpire, producer,
                governance, mysql
  <2> QED
    BY <1>1, <2>1
<1>3. CASE PipelineStep
  <2>1. [Next]_vars /\ UNCHANGED repairing
    BY <1>3 DEF PipelineStep, ledger
  <2>2. \A c \in Claim : Refused(c)' => Refused(c)
    BY <2>1, AttemptSteps DEF Refused
  <2>3. SparedInv'
    BY <2>1, <2>2 DEF SparedInv, LedgerTypes
  <2> QED
    BY <2>1, <2>3, RefusedStep
<1>4. ASSUME NEW d \in Claim, Repair(d)
      PROVE  RefusedInv' /\ SparedInv'
  <2>1. d \in repairing /\ repairing' \subseteq repairing
    BY <1>4 DEF Repair
  <2>2. userCoupon' \subseteq userCoupon \cup {d}
    BY <1>4, RepairIssues DEF IssueCoupon
  <2>3. UNCHANGED <<attempt, answer, inbox, deadLetters, job, redisClaims>>
    BY <1>4 DEF Repair, redis, producer, governance
  <2> QED
    BY <1>1, <2>1, <2>2, <2>3 DEF SparedInv
<1>5. CASE AsideStep
  <2>1. UNCHANGED <<attempt, answer, inbox, deadLetters, job, redisClaims, userCoupon>>
    BY <1>5, StaysAside DEF Aside, producer, governance, mysql
  <2> QED
    BY <1>1, <1>5, <2>1, RepairsKnow
<1> QED
  BY <1>2, <1>3, <1>4, <1>5 DEF SettlementNext, AsideStep

\* Nor does a repair bring a refused claim back, even one that was shown evidence just
\* before Redis forgot it.
THEOREM RefusalsSurviveSettlement == SettlementSpec => []RejectedNeverIssued
<1>1. SettlementInit => TypeOK /\ LedgerTypes /\ RefusedInv /\ SparedInv
  BY SettlementStarts DEF SettlementInit, Init, SettlementInv, RefusedInv, SparedInv, Quiet
<1>2. /\ TypeOK /\ LedgerTypes /\ RefusedInv /\ SparedInv
      /\ [SettlementNext]_settlementVars
      => TypeOK' /\ LedgerTypes' /\ RefusedInv' /\ SparedInv'
  BY SettlementTypes, LedgerTypeStep, SettlementRefusedStep
<1>3. RefusedInv => RejectedNeverIssued
  BY DEF RefusedInv, RejectedNeverIssued, Quiet
<1> QED
  BY <1>1, <1>2, <1>3, PTL DEF SettlementSpec

--------------------------------------------------------------------------------
\* What was granted is lost by a rollback only

\* Every claim that Lua ever granted, expired or forgotten by Redis since, stands for
\* something, or its half message was rolled back.
GrantsTracked == \A c \in granted : Tracked(c) \/ half[c] = "rolledback"

LEMMA SettlementLossStep ==
    ASSUME LossInv, LedgerTypes, GrantsTracked, [SettlementNext]_settlementVars
    PROVE  (AckInv /\ KnownInv /\ LostOnlyByRollback /\ GrantsTracked)'
<1> USE DEF LossInv
<1>1. ASSUME [Next]_vars
      PROVE  /\ (AckInv /\ KnownInv /\ LostOnlyByRollback)'
             /\ \A c \in granted : Tracked(c)' \/ half'[c] = "rolledback"
  <2>1. (AckInv /\ KnownInv /\ LostOnlyByRollback)'
    BY <1>1, LossStep
  <2>2. ASSUME NEW c \in granted, half'[c] # "rolledback"
        PROVE  Tracked(c)'
    <3>1. c \in Claim /\ half[c] # "rolledback"
      BY <1>1, <2>2, HalfMoves DEF LedgerTypes
    <3>2. Tracked(c)
      BY <3>1 DEF GrantsTracked
    <3> QED
      BY <1>1, <2>2, <3>1, <3>2, TrackedKept
  <2> QED
    BY <2>1, <2>2
<1>2. CASE PipelineStep
  <2>1. [Next]_vars /\ granted' = granted \cup redisClaims'
    BY <1>2 DEF PipelineStep
  <2>2. redisClaims' \subseteq Claim
    <3>1. TypeOK'
      BY <2>1, TypeStep
    <3> QED
      BY <3>1 DEF TypeOK
  <2>3. \A c \in redisClaims' : Tracked(c)' \/ half'[c] = "rolledback"
    BY <1>1, <2>1, <2>2 DEF LostOnlyByRollback
  <2> QED
    BY <1>1, <2>1, <2>3 DEF GrantsTracked
<1>3. CASE ActivityEnds
  BY <1>1, <1>3, EndIsPipelineStep DEF ActivityEnds, GrantsTracked
<1>4. ASSUME UNCHANGED <<attempt, half, inbox, deadLetters, failureTopic, parked,
                         failureRows, job, granted>>,
             userCoupon \subseteq userCoupon', redisClaims' \subseteq redisClaims
      PROVE  (AckInv /\ KnownInv /\ LostOnlyByRollback /\ GrantsTracked)'
  <2>1. \A c \in Claim : Accounted(c) => Accounted(c)'
    BY <1>4 DEF Accounted
  <2>2. \A c \in Claim : Tracked(c) => Tracked(c)'
    BY <1>4, <2>1 DEF Tracked, InFlight
  <2>3. AckInv'
    BY <1>4, <2>1, JobOf, AtIsBusy DEF AckInv, At
  <2>4. KnownInv' /\ LostOnlyByRollback'
    BY <1>4, <2>2 DEF KnownInv, LostOnlyByRollback
  <2>5. GrantsTracked'
    BY <1>4, <2>2 DEF GrantsTracked, LedgerTypes
  <2> QED
    BY <2>3, <2>4, <2>5
<1>5. CASE UNCHANGED settlementVars \/ ClaimsExpire
  BY <1>4, <1>5 DEF settlementVars, vars, ClaimsExpire, redis, producer, governance, mysql
<1>6. ASSUME NEW c \in Claim, Repair(c)
      PROVE  (AckInv /\ KnownInv /\ LostOnlyByRollback /\ GrantsTracked)'
  BY <1>4, <1>6 DEF Repair, IssueCoupon, redis, producer, governance, mysql
<1>7. CASE AsideStep
  BY <1>4, <1>7, StaysAside DEF Aside, producer, governance, mysql
<1> QED
  BY <1>2, <1>3, <1>5, <1>6, <1>7 DEF SettlementNext, AsideStep

\* Whatever happens to Redis, however early the broker asks back and through every repair,
\* expiry and settlement, a claim that was granted is lost only when its half message was
\* rolled back.
THEOREM SettlementLosesByRollbackOnly ==
    SettlementSpec => [](LostOnlyByRollback /\ GrantsTracked)
<1>1. SettlementInit =>
        TypeOK /\ LedgerTypes /\ AckInv /\ KnownInv /\ LostOnlyByRollback /\ GrantsTracked
  <2>1. SettlementInit => KnownInv /\ LostOnlyByRollback /\ GrantsTracked
    BY DEF SettlementInit, Init, KnownInv, LostOnlyByRollback, GrantsTracked
  <2>2. SettlementInit => Init
    BY DEF SettlementInit
  <2> QED
    BY <2>1, <2>2, VanishInit, SettlementStarts, TypeInit DEF SettlementInv
<1>2. /\ TypeOK /\ LedgerTypes /\ AckInv /\ KnownInv /\ LostOnlyByRollback /\ GrantsTracked
      /\ [SettlementNext]_settlementVars
      => /\ TypeOK' /\ LedgerTypes'
         /\ (AckInv /\ KnownInv /\ LostOnlyByRollback /\ GrantsTracked)'
  BY SettlementTypes, LedgerTypeStep, SettlementLossStep DEF LossInv
<1> QED
  BY <1>1, <1>2, PTL DEF SettlementSpec
====
