---- MODULE ClaimPipeline_proofs ----
\* Proofs about ClaimPipeline for every set of claims and workers, every stock and
\* every number of faults.
EXTENDS ClaimPipeline, FiniteSetTheorems, TLAPS

--------------------------------------------------------------------------------
\* Helpers

LEMMA JobTypes ==
    ASSUME NEW j \in Job, j # Idle
    PROVE  /\ j.claim \in Claim
           /\ j.tries \in 0..MaxReconsume
           /\ j.stage = "failed" => j.error \in Error
BY DEF Job, Idle

LEMMA NewJobs ==
    ASSUME TypeOK, NEW w \in Worker, job[w] # Idle
    PROVE  /\ \A stage \in {"read", "write", "ack"} : JobAt(w, stage) \in Job
           /\ \A e \in Error : JobFailed(w, e) \in Job
<1>1. job[w] \in Job
  BY DEF TypeOK
<1>2. job[w].claim \in Claim /\ job[w].tries \in 0..MaxReconsume
  BY <1>1, JobTypes
<1> QED
  BY <1>2 DEF Job, JobAt, JobFailed

LEMMA AtIsBusy ==
    ASSUME NEW w, NEW s \in {"read", "write", "failed", "ack"}, At(w, s)
    PROVE  job[w] # Idle
BY DEF At, Idle

LEMMA ClassifyType ==
    ASSUME NEW e \in Error, NEW k \in 0..MaxReconsume
    PROVE  Classify(e, k) \in FailureCode
BY BoundAssumption DEF Classify, Error, InfrastructureError, BusinessError, FailureCode

LEMMA CodeType ==
    ASSUME TypeOK, NEW w \in Worker, At(w, "failed")
    PROVE  Code(w) \in FailureCode
<1>1. job[w] # Idle
  BY AtIsBusy
<1>2. job[w] \in Job
  BY DEF TypeOK
<1>3. job[w].error \in Error /\ job[w].tries \in 0..MaxReconsume
  BY <1>1, <1>2, JobTypes DEF At
<1> QED
  BY <1>3, ClassifyType DEF Code

--------------------------------------------------------------------------------
\* Type correctness

\* The steps of a producer and of the activity in Redis keep every type.
LEMMA ProducerTypes ==
    ASSUME TypeOK, NEW c \in Claim, ProducerNext(c)
    PROVE  TypeOK'
<1> USE ClaimAssumption, BoundAssumption
<1>1. CASE SubmitClaim(c)
  BY <1>1 DEF SubmitClaim, TypeOK, redis, governance, mysql
<1>2. CASE SubmitFails(c)
  BY <1>2 DEF SubmitFails, Fault, TypeOK, redis, governance, mysql
<1>3. CASE ExecuteLua(c)
  BY <1>3 DEF ExecuteLua, PreDeduct, LuaAdmits, TypeOK, redis, governance, mysql
<1>4. CASE LuaFails(c)
  BY <1>4 DEF LuaFails, Fault, PreDeduct, LuaAdmits, TypeOK, redis, governance, mysql
<1>5. CASE EndTransaction(c)
  BY <1>5 DEF EndTransaction, CommitHalf, RollbackHalf, Reply, TypeOK, redis,
              governance, mysql
<1>6. CASE EndTransactionLost(c)
  BY <1>6 DEF EndTransactionLost, Fault, Reply, TypeOK, redis, governance, mysql
<1>7. CASE ProducerCrash(c)
  BY <1>7 DEF ProducerCrash, Fault, TypeOK, redis, governance, mysql
<1>8. CASE CheckBack(c)
  <2>1. CASE c \in redisClaims
    <3>1. /\ half' = [half EXCEPT ![c] = "committed"]
          /\ inbox' = inbox \cup {<<c, 0>>}
      BY <1>8, <2>1 DEF CheckBack, CommitHalf
    <3>2. /\ half' \in [Claim -> {"none", "prepared", "committed", "rolledback"}]
          /\ inbox' \subseteq Claim \X (0..MaxReconsume)
      BY <3>1 DEF TypeOK
    <3>3. UNCHANGED <<redis, attempt, answer, governance, mysql, job, faults>>
      BY <1>8 DEF CheckBack
    <3> QED
      BY <3>2, <3>3 DEF TypeOK, redis, governance, mysql
  <2>2. CASE c \notin redisClaims
    BY <1>8, <2>2 DEF CheckBack, RollbackHalf, TypeOK, redis, governance, mysql
  <2> QED
    BY <2>1, <2>2
<1> QED
  BY <1>1, <1>2, <1>3, <1>4, <1>5, <1>6, <1>7, <1>8 DEF ProducerNext

LEMMA ActivityTypes ==
    ASSUME TypeOK, ActivityNext
    PROVE  TypeOK'
<1> USE ClaimAssumption, BoundAssumption
<1>1. CASE CloseActivity
  BY <1>1 DEF CloseActivity, TypeOK, producer, governance, mysql
<1>2. CASE ReenableActivity
  BY <1>2 DEF ReenableActivity, Fault, TypeOK, producer, governance, mysql
<1>3. ASSUME NEW c \in Claim, Failover(c)
      PROVE  TypeOK'
  BY <1>3 DEF Failover, Fault, TypeOK, producer, governance, mysql
<1> QED
  BY <1>1, <1>2, <1>3 DEF ActivityNext

\* The steps of a consumer thread keep every type.
LEMMA WorkerTypes ==
    ASSUME TypeOK, NEW w \in Worker, WorkerNext(w)
    PROVE  TypeOK'
<1> USE ClaimAssumption, BoundAssumption
<1>1. ASSUME NEW c \in Claim, Deliver(w, c)
      PROVE  TypeOK'
  BY <1>1 DEF Deliver, Fault, NoFault, TypeOK, Job, redis, producer, governance, mysql
<1>2. CASE PersistRead(w)
  <2>1. \A stage \in {"read", "write", "ack"} : JobAt(w, stage) \in Job
    BY <1>2, AtIsBusy, NewJobs DEF PersistRead
  <2>2. JobFailed(w, "USER_ALREADY_CLAIMED") \in Job
    BY <1>2, AtIsBusy, NewJobs DEF PersistRead, Error, BusinessError
  <2> QED
    BY <1>2, <2>1, <2>2
    DEF PersistRead, TypeOK, redis, producer, governance, mysql
<1>3. CASE PersistWrite(w)
  <2>1. JobAt(w, "ack") \in Job
    BY <1>3, AtIsBusy, NewJobs DEF PersistWrite
  <2>2. /\ JobFailed(w, "MYSQL_STOCK_CONFLICT") \in Job
        /\ JobFailed(w, "DuplicateKey") \in Job
    BY <1>3, AtIsBusy, NewJobs DEF PersistWrite, Error, BusinessError
  <2>3. job[w] # Idle /\ job[w] \in Job
    BY <1>3, AtIsBusy DEF PersistWrite, TypeOK
  <2>4. job[w].claim \in Claim
    BY <2>3, JobTypes
  <2> QED
    BY <1>3, <2>1, <2>2, <2>4
    DEF PersistWrite, IssueCoupon, TypeOK, redis, producer, governance, mysql
<1>4. ASSUME NEW e \in Error, PersistFails(w, e)
      PROVE  TypeOK'
  <2>1. job[w] # Idle /\ job[w] \in Job
    BY <1>4, AtIsBusy DEF PersistFails, TypeOK
  <2>2. JobFailed(w, e) \in Job /\ job[w].claim \in Claim
    BY <2>1, NewJobs, JobTypes
  <2> QED
    BY <1>4, <2>2
    DEF PersistFails, Fault, IssueCoupon, TypeOK, redis, producer, governance, mysql
<1>5. ASSUME job[w] # Idle
      PROVE  job[w].claim \in Claim /\ job[w].tries \in 0..MaxReconsume
  BY <1>5, JobTypes DEF TypeOK
<1>6. Idle \in Job
  BY DEF Job
<1>7. ASSUME job[w] # Idle, Nack(w)
      PROVE  /\ inbox' \subseteq Claim \X (0..MaxReconsume)
             /\ deadLetters' \subseteq Claim \X (0..MaxReconsume)
             /\ job' \in [Worker -> Job]
  BY <1>5, <1>6, <1>7 DEF Nack, TypeOK
<1>8. CASE RetryLater(w)
  BY <1>8, <1>7, AtIsBusy DEF RetryLater, TypeOK, redis, producer, mysql
<1>9. CASE RouteFailure(w)
  <2>1. job[w] # Idle /\ Code(w) \in FailureCode
    BY <1>9, AtIsBusy, CodeType DEF RouteFailure
  <2>2. JobAt(w, "ack") \in Job
    BY <2>1, NewJobs
  <2> QED
    BY <1>9, <1>5, <2>1, <2>2 DEF RouteFailure, TypeOK, redis, producer, mysql
<1>10. CASE RouteFailureFails(w)
  <2>1. job[w] # Idle /\ Code(w) \in FailureCode
    BY <1>10, AtIsBusy, CodeType DEF RouteFailureFails
  <2> QED
    BY <1>10, <1>5, <1>7, <2>1
    DEF RouteFailureFails, Fault, TypeOK, redis, producer, mysql
<1>11. CASE Ack(w)
  BY <1>11, <1>6 DEF Ack, TypeOK, redis, producer, governance, mysql
<1>12. CASE WorkerCrash(w)
  BY <1>12, <1>6 DEF WorkerCrash, Fault, TypeOK, redis, producer, governance, mysql
<1> QED
  BY <1>1, <1>2, <1>3, <1>4, <1>8, <1>9, <1>10, <1>11, <1>12
  DEF WorkerNext, WorkerStep

\* The steps of the dead-letter audit and of the failure consumer keep every type.
LEMMA GovernanceTypes ==
    ASSUME TypeOK, NEW c \in Claim, GovernanceNext(c)
    PROVE  TypeOK'
<1> USE ClaimAssumption, BoundAssumption
<1> "RETRY_EXHAUSTED" \in FailureCode
  BY DEF FailureCode
<1>1. ASSUME NEW k \in 0..MaxReconsume, AuditDeadLetter(c, k)
      PROVE  TypeOK'
  BY <1>1 DEF AuditDeadLetter, TypeOK, redis, producer, mysql
<1>2. ASSUME NEW k \in 0..MaxReconsume, AuditFails(c, k)
      PROVE  TypeOK'
  BY <1>2 DEF AuditFails, Fault, TypeOK, redis, producer, mysql
<1>3. ASSUME NEW k \in 0..MaxReconsume, NEW code \in FailureCode,
             RecordFailure(c, code, k)
      PROVE  TypeOK'
  BY <1>3 DEF RecordFailure, TypeOK, redis, producer
<1>4. ASSUME NEW k \in 0..MaxReconsume, NEW code \in FailureCode,
             RecordFails(c, code, k)
      PROVE  TypeOK'
  BY <1>4 DEF RecordFails, Fault, TypeOK, redis, producer
<1> QED
  BY <1>1, <1>2, <1>3, <1>4 DEF GovernanceNext

LEMMA TypeStep ==
    ASSUME TypeOK, [Next]_vars
    PROVE  TypeOK'
<1>1. CASE UNCHANGED vars
  BY <1>1 DEF TypeOK, vars, redis, producer, governance, mysql
<1>2. CASE Next
  BY <1>2, ProducerTypes, ActivityTypes, WorkerTypes, GovernanceTypes DEF Next
<1> QED
  BY <1>1, <1>2

LEMMA TypeInit == Init => TypeOK
BY ClaimAssumption, BoundAssumption DEF Init, TypeOK, Job

\* Every reachable state is well typed: retry counters stay within the budget, the
\* stocks of Redis and MySQL stay at or above zero, and every failed consumption
\* has a code of the failure table.
THEOREM TypeCorrect == Spec => []TypeOK
BY TypeInit, TypeStep, PTL DEF Spec

--------------------------------------------------------------------------------
\* Frames: what the steps of each part of the pipeline leave alone

LEMMA ProducerFrame ==
    ASSUME NEW c \in Claim, ProducerNext(c)
    PROVE  /\ UNCHANGED <<governance, mysql, job>>
           /\ inbox \subseteq inbox'
<1>1. CASE SubmitClaim(c) \/ SubmitFails(c)
  BY <1>1 DEF SubmitClaim, SubmitFails
<1>2. CASE ExecuteLua(c) \/ LuaFails(c)
  BY <1>2 DEF ExecuteLua, LuaFails
<1>3. CASE EndTransaction(c) \/ CheckBack(c)
  BY <1>3 DEF EndTransaction, CheckBack, CommitHalf, RollbackHalf
<1>4. CASE EndTransactionLost(c) \/ ProducerCrash(c)
  BY <1>4 DEF EndTransactionLost, ProducerCrash
<1> QED
  BY <1>1, <1>2, <1>3, <1>4 DEF ProducerNext

LEMMA ActivityFrame ==
    ASSUME ActivityNext
    PROVE  /\ UNCHANGED <<producer, inbox, governance, mysql, job>>
           /\ redisClaims' \subseteq redisClaims
<1>1. CASE CloseActivity
  BY <1>1 DEF CloseActivity
<1>2. CASE ReenableActivity
  BY <1>2 DEF ReenableActivity
<1>3. ASSUME NEW c \in Claim, Failover(c)
      PROVE  /\ UNCHANGED <<producer, inbox, governance, mysql, job>>
             /\ redisClaims' \subseteq redisClaims
  BY <1>3 DEF Failover
<1> QED
  BY <1>1, <1>2, <1>3 DEF ActivityNext

LEMMA GovernanceFrame ==
    ASSUME NEW c \in Claim, GovernanceNext(c)
    PROVE  UNCHANGED <<redis, producer, inbox, remaining, userCoupon, job>>
<1>1. ASSUME NEW k \in 0..MaxReconsume, AuditDeadLetter(c, k) \/ AuditFails(c, k)
      PROVE  UNCHANGED <<redis, producer, inbox, remaining, userCoupon, job>>
  BY <1>1 DEF AuditDeadLetter, AuditFails, mysql
<1>2. ASSUME NEW k \in 0..MaxReconsume, NEW code \in FailureCode,
             RecordFailure(c, code, k) \/ RecordFails(c, code, k)
      PROVE  UNCHANGED <<redis, producer, inbox, remaining, userCoupon, job>>
  BY <1>2 DEF RecordFailure, RecordFails
<1> QED
  BY <1>1, <1>2 DEF GovernanceNext

LEMMA WorkerFrame ==
    ASSUME NEW w \in Worker, WorkerNext(w)
    PROVE  UNCHANGED <<redis, producer>>
<1>1. CASE PersistRead(w) \/ PersistWrite(w)
  BY <1>1 DEF PersistRead, PersistWrite
<1>2. CASE RetryLater(w) \/ RouteFailure(w) \/ RouteFailureFails(w)
  BY <1>2 DEF RetryLater, RouteFailure, RouteFailureFails
<1>3. CASE Ack(w) \/ WorkerCrash(w)
  BY <1>3 DEF Ack, WorkerCrash
<1>4. ASSUME NEW c \in Claim, Deliver(w, c)
      PROVE  UNCHANGED <<redis, producer>>
  BY <1>4 DEF Deliver
<1>5. ASSUME NEW e \in Error, PersistFails(w, e)
      PROVE  UNCHANGED <<redis, producer>>
  BY <1>5 DEF PersistFails
<1> QED
  BY <1>1, <1>2, <1>3, <1>4, <1>5 DEF WorkerNext, WorkerStep

\* A consumer thread sets its own job and no other.
LEMMA OwnJob ==
    ASSUME NEW v \in Worker, WorkerNext(v)
    PROVE  \E j : job' = [job EXCEPT ![v] = j]
<1>1. CASE PersistRead(v) \/ PersistWrite(v)
  BY <1>1 DEF PersistRead, PersistWrite
<1>2. CASE RetryLater(v) \/ RouteFailureFails(v)
  BY <1>2 DEF RetryLater, RouteFailureFails, Nack
<1>3. CASE RouteFailure(v) \/ Ack(v) \/ WorkerCrash(v)
  BY <1>3 DEF RouteFailure, Ack, WorkerCrash
<1>4. ASSUME NEW c \in Claim, Deliver(v, c)
      PROVE  \E j : job' = [job EXCEPT ![v] = j]
  BY <1>4 DEF Deliver
<1>5. ASSUME NEW e \in Error, PersistFails(v, e)
      PROVE  \E j : job' = [job EXCEPT ![v] = j]
  BY <1>5 DEF PersistFails
<1> QED
  BY <1>1, <1>2, <1>3, <1>4, <1>5 DEF WorkerNext, WorkerStep

LEMMA OtherWorkers ==
    ASSUME TypeOK, NEW w \in Worker, NEW v \in Worker, v # w, WorkerNext(v)
    PROVE  job'[w] = job[w]
BY OwnJob DEF TypeOK

--------------------------------------------------------------------------------
\* MySQL: stock and coupons

\* Only persist() touches the stock and user_coupon, both in one transaction.
LEMMA MySQLSteps ==
    ASSUME TypeOK, [Next]_vars
    PROVE  \/ UNCHANGED <<remaining, userCoupon>>
           \/ \E c \in Claim : IssueCoupon(c)
<1>1. CASE UNCHANGED vars
  BY <1>1 DEF vars, mysql
<1>2. ASSUME NEW c \in Claim, ProducerNext(c)
      PROVE  UNCHANGED <<remaining, userCoupon>>
  BY <1>2, ProducerFrame DEF mysql
<1>3. ASSUME NEW c \in Claim, GovernanceNext(c)
      PROVE  UNCHANGED <<remaining, userCoupon>>
  BY <1>3, GovernanceFrame
<1>4. CASE ActivityNext
  BY <1>4, ActivityFrame DEF mysql
<1>5. ASSUME NEW w \in Worker, WorkerNext(w)
      PROVE  \/ UNCHANGED <<remaining, userCoupon>>
             \/ \E c \in Claim : IssueCoupon(c)
  <2>1. ASSUME job[w] # Idle
        PROVE  job[w].claim \in Claim
    BY <2>1, JobTypes DEF TypeOK
  <2>2. CASE PersistWrite(w)
    BY <2>1, <2>2, AtIsBusy DEF PersistWrite, mysql
  <2>3. ASSUME NEW e \in Error, PersistFails(w, e)
        PROVE  \/ UNCHANGED <<remaining, userCoupon>>
               \/ \E c \in Claim : IssueCoupon(c)
    BY <2>1, <2>3, AtIsBusy DEF PersistFails, mysql
  <2>4. CASE \/ PersistRead(w) \/ RetryLater(w) \/ RouteFailure(w) \/ Ack(w)
             \/ RouteFailureFails(w) \/ WorkerCrash(w)
             \/ \E c \in Claim : Deliver(w, c)
    BY <2>4 DEF PersistRead, RetryLater, RouteFailure, Ack, RouteFailureFails,
                WorkerCrash, Deliver, mysql
  <2> QED
    BY <1>5, <2>2, <2>3, <2>4 DEF WorkerNext, WorkerStep
<1> QED
  BY <1>1, <1>2, <1>3, <1>4, <1>5 DEF Next

\* What the unique keys and the conditional update keep together: no invariant of
\* Redis or of the queues is needed.
StockInv == TypeOK /\ StockConserved /\ OneCouponPerUser

LEMMA StockInit == Init => StockConserved /\ OneCouponPerUser
BY FS_EmptySet, BoundAssumption DEF Init, StockConserved, OneCouponPerUser

LEMMA CouponsFinite ==
    ASSUME TypeOK
    PROVE  IsFiniteSet(userCoupon) /\ Cardinality(userCoupon) \in Nat
BY FS_Subset, FS_CardinalityType, ClaimAssumption DEF TypeOK

\* An issued coupon is new, and one unit of stock pays for it.
LEMMA IssueCouponStep ==
    ASSUME TypeOK, NEW c \in Claim, IssueCoupon(c)
    PROVE  /\ c \notin userCoupon
           /\ remaining' = remaining - 1
           /\ Cardinality(userCoupon') = Cardinality(userCoupon) + 1
<1>1. c \notin userCoupon
  BY DEF IssueCoupon, Holders
<1>2. remaining' = remaining - 1
  BY DEF IssueCoupon, TypeOK
<1>3. Cardinality(userCoupon \cup {c}) = Cardinality(userCoupon) + 1
  BY <1>1, CouponsFinite, FS_AddElement
<1> QED
  BY <1>1, <1>2, <1>3 DEF IssueCoupon

LEMMA IssueKeepsStock ==
    ASSUME StockInv, NEW c \in Claim, IssueCoupon(c)
    PROVE  (StockConserved /\ OneCouponPerUser)'
<1> USE DEF StockInv
<1>1. StockConserved'
  <2>1. /\ remaining \in Nat /\ remaining' \in Int
        /\ Cardinality(userCoupon) \in Nat
    BY CouponsFinite DEF IssueCoupon, TypeOK
  <2>2. /\ remaining' = remaining - 1
        /\ Cardinality(userCoupon') = Cardinality(userCoupon) + 1
    BY IssueCouponStep
  <2> QED
    BY <2>1, <2>2, BoundAssumption DEF StockConserved
<1>2. OneCouponPerUser'
  BY DEF OneCouponPerUser, IssueCoupon, Holders
<1> QED
  BY <1>1, <1>2

LEMMA StockStep ==
    ASSUME StockInv, [Next]_vars
    PROVE  (StockConserved /\ OneCouponPerUser)'
<1>1. CASE UNCHANGED <<remaining, userCoupon>>
  BY <1>1 DEF StockInv, StockConserved, OneCouponPerUser
<1> QED
  BY <1>1, IssueKeepsStock, MySQLSteps DEF StockInv

\* No crash, retry, duplicate delivery, failover or re-enabling makes MySQL issue
\* more coupons than the stock, lose a unit, or give a user two.
THEOREM StockCorrect == Spec => [](StockConserved /\ OneCouponPerUser)
<1>1. Init => StockConserved /\ OneCouponPerUser
  BY StockInit
<1>2. /\ TypeOK /\ TypeOK' /\ [Next]_vars
      /\ StockConserved /\ OneCouponPerUser
      => (StockConserved /\ OneCouponPerUser)'
  BY StockStep DEF StockInv
<1> QED
  BY <1>1, <1>2, TypeCorrect, PTL DEF Spec

\* In particular the unique keys of user_coupon, checked apart from the insert, hold
\* against consumers of two claims of one user: nobody gets a second coupon.
THEOREM OneCouponEach == Spec => []OneCouponPerUser
BY StockCorrect, PTL

\* Under the invariant of the stock the conditional decrement with its insert is the
\* abstract issue of a coupon: remaining > 0 says that not all of them are issued.
LEMMA IssueCouponIssues ==
    ASSUME StockInv, NEW c \in Claim, IssueCoupon(c)
    PROVE  Issue!Issue(c)
<1>1. c \notin userCoupon
  BY IssueCouponStep DEF StockInv
<1>2. Owner[c] \notin Issue!Holders(userCoupon)
  BY DEF IssueCoupon, Holders, Issue!Holders
<1>3. Cardinality(userCoupon) < TotalStock
  <2>1. remaining \in Nat /\ remaining > 0 /\ Cardinality(userCoupon) \in Nat
    BY CouponsFinite DEF StockInv, TypeOK, IssueCoupon
  <2> QED
    BY <2>1, BoundAssumption DEF StockInv, StockConserved
<1>4. Issue!Cardinality(userCoupon) < TotalStock
  BY <1>3 DEF Issue!Cardinality, Cardinality
<1> QED
  BY <1>1, <1>2, <1>4 DEF Issue!Issue, IssueCoupon

\* Each step of the pipeline is a step of the abstract issue of coupons or leaves
\* user_coupon alone.
THEOREM ImplementsIssue == Spec => IssueSpec
<1>1. Init => Issue!Init
  BY DEF Init, Issue!Init
<1>2. TypeOK /\ StockConserved /\ OneCouponPerUser /\ [Next]_vars
        => [Issue!Next]_userCoupon
  BY IssueCouponIssues, MySQLSteps DEF StockInv, Issue!Next
<1> QED
  BY <1>1, <1>2, TypeCorrect, StockCorrect, PTL DEF Spec, IssueSpec, Issue!Spec

--------------------------------------------------------------------------------
\* No claim vanishes

\* A message is acknowledged only when its claim is accounted for.
AckInv == \A w \in Worker : At(w, "ack") => Accounted(job[w].claim)

\* Why the half message of a pre-deducted claim is never rolled back: the local
\* transaction runs under a prepared half message, and only a claim that Redis does
\* not know is rolled back.
HalfInv ==
    \A c \in Claim :
        /\ attempt[c] = "none" => half[c] = "none"
        /\ attempt[c] = "running" => half[c] = "prepared"
        /\ attempt[c] \in {"none", "running", "rollback"} => c \notin redisClaims
        /\ c \in redisClaims => half[c] \in {"prepared", "committed"}

\* What is left of it when the broker may ask back at any time: a claim that runs, or
\* that Redis knows, has a half message, whatever became of that message.
KnownInv ==
    \A c \in Claim :
        /\ attempt[c] = "none" => half[c] = "none"
        /\ attempt[c] = "running" \/ c \in redisClaims => half[c] # "none"

VanishInv == TypeOK /\ AckInv /\ HalfInv /\ NoClaimVanishes
LossInv == TypeOK /\ AckInv /\ KnownInv /\ LostOnlyByRollback

LEMMA JobOf ==
    ASSUME TypeOK, NEW w \in Worker, job[w] # Idle
    PROVE  job[w].claim \in Claim /\ job[w].tries \in 0..MaxReconsume
BY JobTypes DEF TypeOK

\* The facts a claim is accounted for by grow in every step, but for the failure
\* message that becomes a row, a later attempt or a parked message.
Grows ==
    /\ failureTopic \subseteq failureTopic'
    /\ parked \subseteq parked'
    /\ userCoupon \subseteq userCoupon'
    /\ failureRows \subseteq failureRows'

Records ==
    \E c \in Claim, code \in FailureCode, k \in 0..MaxReconsume :
        RecordFailure(c, code, k) \/ RecordFails(c, code, k)

LEMMA GrowsOrRecords ==
    ASSUME TypeOK, [Next]_vars
    PROVE  Grows \/ Records
<1> USE DEF Grows, mysql, governance
<1>1. CASE UNCHANGED vars
  BY <1>1 DEF vars
<1>2. ASSUME NEW c \in Claim, ProducerNext(c)
      PROVE  Grows
  BY <1>2 DEF ProducerNext, SubmitClaim, SubmitFails, ExecuteLua, LuaFails,
              EndTransaction, EndTransactionLost, ProducerCrash, CheckBack
<1>3. CASE ActivityNext
  BY <1>3 DEF ActivityNext, CloseActivity, ReenableActivity, Failover
<1>4. ASSUME NEW c \in Claim, GovernanceNext(c)
      PROVE  Grows \/ Records
  <2>1. ASSUME NEW k \in 0..MaxReconsume, AuditDeadLetter(c, k) \/ AuditFails(c, k)
        PROVE  Grows
    BY <2>1 DEF AuditDeadLetter, AuditFails
  <2> QED
    BY <1>4, <2>1 DEF GovernanceNext, Records
<1>5. ASSUME NEW w \in Worker, WorkerNext(w)
      PROVE  Grows
  <2>1. CASE \/ PersistRead(w) \/ RetryLater(w) \/ Ack(w) \/ WorkerCrash(w)
             \/ \E c \in Claim : Deliver(w, c)
    BY <2>1 DEF PersistRead, RetryLater, Ack, WorkerCrash, Deliver
  <2>2. CASE RouteFailure(w) \/ RouteFailureFails(w)
    BY <2>2 DEF RouteFailure, RouteFailureFails
  <2>3. CASE PersistWrite(w)
    BY <2>3 DEF PersistWrite, IssueCoupon
  <2>4. ASSUME NEW e \in Error, PersistFails(w, e)
        PROVE  Grows
    BY <2>4 DEF PersistFails, IssueCoupon
  <2> QED
    BY <1>5, <2>1, <2>2, <2>3, <2>4 DEF WorkerNext, WorkerStep
<1> QED
  BY <1>1, <1>2, <1>3, <1>4, <1>5 DEF Next

\* A claim once accounted for stays so.
LEMMA AccountedKept ==
    ASSUME TypeOK, [Next]_vars, NEW c \in Claim, Accounted(c)
    PROVE  Accounted(c)'
<1>1. CASE Grows
  BY <1>1 DEF Grows, Accounted
<1>2. CASE Records
  <2>1. PICK d \in Claim, code \in FailureCode, k \in 0..MaxReconsume :
             RecordFailure(d, code, k) \/ RecordFails(d, code, k)
    BY <1>2 DEF Records
  <2>2. /\ userCoupon' = userCoupon
        /\ parked \subseteq parked' /\ failureRows \subseteq failureRows'
        /\ failureTopic \ {<<d, code, k>>} \subseteq failureTopic'
    BY <2>1 DEF RecordFailure, RecordFails
  <2>3. \/ <<d, code>> \in parked' \cup failureRows'
        \/ k + 1 \in 0..MaxReconsume /\ <<d, code, k + 1>> \in failureTopic'
    BY <2>1, BoundAssumption DEF RecordFailure, RecordFails
  <2>4. Accounted(d)'
    BY <2>3 DEF Accounted
  <2>5. CASE c # d
    BY <2>2, <2>5 DEF Accounted
  <2> QED
    BY <2>4, <2>5
<1> QED
  BY <1>1, <1>2, GrowsOrRecords

\* A thread reaches its acknowledgement by way of a coupon or of the failure topic.
LEMMA AckStep ==
    ASSUME TypeOK, AckInv, [Next]_vars
    PROVE  AckInv'
<1> SUFFICES ASSUME NEW w \in Worker, At(w, "ack")'
             PROVE  Accounted(job[w].claim)'
  BY DEF AckInv, At
<1> SUFFICES ASSUME NEW acked, acked = job'[w].claim
             PROVE  Accounted(acked)'
  BY DEF Accounted
<1>1. CASE job'[w] = job[w]
  <2>1. At(w, "ack")
    BY <1>1 DEF At
  <2>2. Accounted(acked) /\ acked \in Claim
    BY <1>1, <2>1, JobOf, AtIsBusy DEF AckInv
  <2> QED
    BY <2>2, AccountedKept
<1>2. CASE PersistRead(w)
  <2>1. job[w].claim \in userCoupon /\ job' = [job EXCEPT ![w] = JobAt(w, "ack")]
    BY <1>2 DEF PersistRead, At, JobAt, JobFailed, TypeOK
  <2>2. acked = job[w].claim
    BY <2>1 DEF JobAt, TypeOK
  <2> QED
    BY <1>2, <2>1, <2>2 DEF Accounted, PersistRead, mysql
<1>3. CASE PersistWrite(w)
  <2>1. IssueCoupon(job[w].claim) /\ job' = [job EXCEPT ![w] = JobAt(w, "ack")]
    BY <1>3 DEF PersistWrite, At, JobFailed, TypeOK
  <2>2. acked = job[w].claim
    BY <2>1 DEF JobAt, TypeOK
  <2> QED
    BY <2>1, <2>2 DEF Accounted, IssueCoupon
<1>4. CASE RouteFailure(w)
  <2>1. /\ job' = [job EXCEPT ![w] = JobAt(w, "ack")]
        /\ <<job[w].claim, Code(w), 0>> \in failureTopic'
    BY <1>4 DEF RouteFailure
  <2>2. acked = job[w].claim
    BY <2>1 DEF JobAt, TypeOK
  <2>3. Code(w) \in FailureCode /\ 0 \in 0..MaxReconsume
    BY <1>4, CodeType, BoundAssumption DEF RouteFailure
  <2> QED
    BY <2>1, <2>2, <2>3 DEF Accounted
<1>5. ASSUME NEW e \in Error, PersistFails(w, e)
      PROVE  FALSE
  BY <1>5 DEF PersistFails, At, JobFailed, TypeOK
<1>6. ASSUME NEW c \in Claim, Deliver(w, c)
      PROVE  FALSE
  BY <1>6 DEF Deliver, At, TypeOK
<1>7. ASSUME \/ RetryLater(w) \/ RouteFailureFails(w) \/ Ack(w) \/ WorkerCrash(w)
      PROVE  FALSE
  BY <1>7 DEF RetryLater, RouteFailureFails, Ack, WorkerCrash, Nack, At, Idle, TypeOK
<1>8. ASSUME NEW v \in Worker, v # w, WorkerNext(v)
      PROVE  job'[w] = job[w]
  BY <1>8, OtherWorkers
<1>9. ASSUME \/ UNCHANGED vars
             \/ ActivityNext
             \/ \E c \in Claim : ProducerNext(c) \/ GovernanceNext(c)
      PROVE  job' = job
  BY <1>9, ProducerFrame, ActivityFrame, GovernanceFrame DEF vars
<1>10. CASE WorkerNext(w)
  BY <1>10, <1>2, <1>3, <1>4, <1>5, <1>6, <1>7 DEF WorkerNext, WorkerStep
<1> QED
  BY <1>1, <1>8, <1>9, <1>10 DEF Next

\* Provided the broker asks back only when the local transaction is over, a
\* pre-deducted claim keeps a half message that is prepared or committed.
LEMMA HalfStep ==
    ASSUME TypeOK, HalfInv, [Next]_vars, "early check-back" \notin Disturbances
    PROVE  HalfInv'
<1>1. CASE UNCHANGED <<attempt, half, redisClaims>>
  BY <1>1 DEF HalfInv
<1>2. ASSUME NEW c \in Claim, ProducerNext(c)
      PROVE  HalfInv'
  <2>1. CASE SubmitClaim(c)
    BY <2>1 DEF SubmitClaim, HalfInv, TypeOK, redis
  <2>2. CASE SubmitFails(c)
    BY <2>2 DEF SubmitFails, HalfInv, TypeOK, redis
  <2>3. CASE ExecuteLua(c)
    <3>1. CASE PreDeduct(c) /\ attempt' = [attempt EXCEPT ![c] = "commit"]
      BY <2>3, <3>1 DEF ExecuteLua, PreDeduct, HalfInv, TypeOK
    <3>2. CASE UNCHANGED redis /\ attempt' = [attempt EXCEPT ![c] = "rollback"]
      BY <2>3, <3>2 DEF ExecuteLua, HalfInv, TypeOK, redis
    <3> QED
      BY <2>3, <3>1, <3>2 DEF ExecuteLua
  <2>4. CASE LuaFails(c)
    BY <2>4 DEF LuaFails, PreDeduct, HalfInv, TypeOK, redis
  <2>5. CASE EndTransaction(c)
    <3>1. CASE attempt[c] = "commit"
      BY <2>5, <3>1 DEF EndTransaction, CommitHalf, HalfInv, TypeOK, redis
    <3>2. CASE attempt[c] = "rollback"
      BY <2>5, <3>2 DEF EndTransaction, RollbackHalf, HalfInv, TypeOK, redis
    <3>3. CASE attempt[c] = "unknown"
      BY <2>5, <3>3 DEF EndTransaction, HalfInv, TypeOK, redis
    <3> QED
      BY <2>5, <3>1, <3>2, <3>3 DEF EndTransaction
  <2>6. CASE EndTransactionLost(c)
    BY <2>6 DEF EndTransactionLost, HalfInv, TypeOK, redis
  <2>7. CASE ProducerCrash(c)
    BY <2>7 DEF ProducerCrash, HalfInv, TypeOK, redis
  <2>8. CASE CheckBack(c)
    <3>1. CASE c \in redisClaims
      BY <2>8, <3>1 DEF CheckBack, CommitHalf, HalfInv, TypeOK, redis
    <3>2. CASE c \notin redisClaims
      BY <2>8, <3>2 DEF CheckBack, RollbackHalf, HalfInv, TypeOK, redis
    <3> QED
      BY <3>1, <3>2
  <2> QED
    BY <1>2, <2>1, <2>2, <2>3, <2>4, <2>5, <2>6, <2>7, <2>8 DEF ProducerNext
<1>3. ASSUME NEW c \in Claim, Failover(c)
      PROVE  HalfInv'
  BY <1>3 DEF Failover, HalfInv, producer
<1>4. ASSUME \/ UNCHANGED vars
             \/ CloseActivity \/ ReenableActivity
             \/ \E c \in Claim : GovernanceNext(c)
             \/ \E w \in Worker : WorkerNext(w)
      PROVE  UNCHANGED <<attempt, half, redisClaims>>
  <2>1. CASE CloseActivity \/ ReenableActivity
    BY <2>1 DEF CloseActivity, ReenableActivity, producer
  <2> QED
    BY <1>4, <2>1, GovernanceFrame, WorkerFrame DEF vars, redis, producer
<1> QED
  BY <1>1, <1>2, <1>3, <1>4 DEF Next, ActivityNext

\* A prepared half message stays, or its claim goes to the consumers, or it is
\* rolled back.
LEMMA PreparedKept ==
    ASSUME TypeOK, KnownInv, [Next]_vars, NEW c \in Claim, half[c] = "prepared",
           half'[c] # "rolledback"
    PROVE  half'[c] = "prepared" \/ InFlight(c)'
<1>1. CASE half'[c] = half[c]
  BY <1>1
<1>2. ASSUME NEW d \in Claim, ProducerNext(d)
      PROVE  half'[c] = "prepared" \/ InFlight(c)'
  <2>1. CASE SubmitClaim(d) \/ SubmitFails(d)
    BY <2>1 DEF SubmitClaim, SubmitFails, KnownInv, TypeOK
  <2>2. CASE \/ ExecuteLua(d) \/ LuaFails(d) \/ EndTransactionLost(d)
             \/ ProducerCrash(d)
    BY <2>2 DEF ExecuteLua, LuaFails, EndTransactionLost, ProducerCrash
  <2>3. ASSUME CommitHalf(d)
        PROVE  half'[c] = "prepared" \/ InFlight(c)'
    <3>1. CASE d = c
      BY <2>3, <3>1, BoundAssumption DEF CommitHalf, InFlight
    <3>2. CASE d # c
      BY <2>3, <3>2 DEF CommitHalf, TypeOK
    <3> QED
      BY <3>1, <3>2
  <2>4. ASSUME RollbackHalf(d)
        PROVE  half'[c] = "prepared"
    BY <2>4 DEF RollbackHalf, TypeOK
  <2>5. CASE EndTransaction(d) \/ CheckBack(d)
    BY <2>3, <2>4, <2>5 DEF EndTransaction, CheckBack
  <2> QED
    BY <1>2, <2>1, <2>2, <2>5 DEF ProducerNext
<1>3. ASSUME \/ UNCHANGED vars
             \/ ActivityNext
             \/ \E d \in Claim : GovernanceNext(d)
             \/ \E w \in Worker : WorkerNext(w)
      PROVE  half' = half
  BY <1>3, ActivityFrame, GovernanceFrame, WorkerFrame DEF vars, producer
<1> QED
  BY <1>1, <1>2, <1>3 DEF Next

\* A message is replaced by its next attempt or by a dead letter, or it leaves a
\* claim that is accounted for.
LEMMA InFlightKept ==
    ASSUME TypeOK, AckInv, [Next]_vars, NEW c \in Claim, InFlight(c)
    PROVE  InFlight(c)' \/ Accounted(c)'
<1> PICK k \in 0..MaxReconsume : <<c, k>> \in inbox \cup deadLetters
  BY DEF InFlight
<1>1. CASE <<c, k>> \in inbox' \cup deadLetters'
  BY <1>1 DEF InFlight
<1>2. ASSUME NEW w \in Worker, Nack(w), job[w] # Idle
      PROVE  InFlight(c)'
  <2>1. CASE <<c, k>> # <<job[w].claim, job[w].tries>>
    <3>1. <<c, k>> \in inbox' \cup deadLetters'
      BY <1>2, <2>1 DEF Nack
    <3> QED
      BY <3>1 DEF InFlight
  <2>2. CASE c = job[w].claim /\ k = job[w].tries
    <3>1. CASE k < MaxReconsume
      <4>1. <<c, k + 1>> \in inbox' /\ k + 1 \in 0..MaxReconsume
        BY <1>2, <2>2, <3>1, BoundAssumption DEF Nack
      <4> QED
        BY <4>1 DEF InFlight
    <3>2. CASE ~(k < MaxReconsume)
      <4>1. <<c, 0>> \in deadLetters' /\ 0 \in 0..MaxReconsume
        BY <1>2, <2>2, <3>2, BoundAssumption DEF Nack
      <4> QED
        BY <4>1 DEF InFlight
    <3> QED
      BY <3>1, <3>2
  <2> QED
    BY <2>1, <2>2
<1>3. ASSUME NEW w \in Worker, WorkerNext(w)
      PROVE  InFlight(c)' \/ Accounted(c)'
  <2>1. CASE RetryLater(w) \/ RouteFailureFails(w)
    BY <1>2, <2>1, AtIsBusy DEF RetryLater, RouteFailureFails
  <2>2. CASE Ack(w)
    <3>1. CASE c = job[w].claim
      <4>1. Accounted(c)
        BY <2>2, <3>1 DEF Ack, AckInv
      <4> QED
        BY <4>1, AccountedKept
    <3>2. CASE c # job[w].claim
      BY <1>1, <2>2, <3>2 DEF Ack, governance
    <3> QED
      BY <3>1, <3>2
  <2>3. CASE \/ PersistRead(w) \/ PersistWrite(w) \/ RouteFailure(w)
             \/ WorkerCrash(w) \/ \E d \in Claim : Deliver(w, d)
             \/ \E e \in Error : PersistFails(w, e)
    <3>1. inbox' = inbox /\ deadLetters' = deadLetters
      BY <2>3 DEF PersistRead, PersistWrite, RouteFailure, WorkerCrash, Deliver,
                  PersistFails, governance
    <3> QED
      BY <1>1, <3>1
  <2> QED
    BY <1>3, <2>1, <2>2, <2>3 DEF WorkerNext, WorkerStep
<1>4. ASSUME NEW d \in Claim, GovernanceNext(d)
      PROVE  InFlight(c)' \/ Accounted(c)'
  <2>1. ASSUME NEW n \in 0..MaxReconsume, AuditDeadLetter(d, n)
        PROVE  InFlight(c)' \/ Accounted(c)'
    <3>1. CASE <<c, k>> # <<d, n>>
      BY <1>1, <2>1, <3>1 DEF AuditDeadLetter
    <3>2. CASE c = d
      <4>1. <<c, "RETRY_EXHAUSTED", 0>> \in failureTopic'
        BY <2>1, <3>2 DEF AuditDeadLetter
      <4>2. "RETRY_EXHAUSTED" \in FailureCode /\ 0 \in 0..MaxReconsume
        BY BoundAssumption DEF FailureCode
      <4> QED
        BY <4>1, <4>2 DEF Accounted
    <3> QED
      BY <3>1, <3>2
  <2>2. ASSUME NEW n \in 0..MaxReconsume, AuditFails(d, n)
        PROVE  InFlight(c)' \/ Accounted(c)'
    <3>1. CASE <<c, k>> # <<d, n>>
      BY <1>1, <2>2, <3>1 DEF AuditFails
    <3>2. CASE c = d /\ n < MaxReconsume
      <4>1. <<c, n + 1>> \in deadLetters' /\ n + 1 \in 0..MaxReconsume
        BY <2>2, <3>2, BoundAssumption DEF AuditFails
      <4> QED
        BY <4>1 DEF InFlight
    <3>3. CASE c = d /\ ~(n < MaxReconsume)
      <4>1. <<c, "RETRY_EXHAUSTED">> \in parked'
        BY <2>2, <3>3 DEF AuditFails
      <4> QED
        BY <4>1 DEF Accounted, FailureCode
    <3> QED
      BY <3>1, <3>2, <3>3
  <2>3. ASSUME NEW n \in 0..MaxReconsume, NEW code \in FailureCode,
               RecordFailure(d, code, n) \/ RecordFails(d, code, n)
        PROVE  InFlight(c)'
    <3>1. inbox' = inbox /\ deadLetters' = deadLetters
      BY <2>3 DEF RecordFailure, RecordFails
    <3>2. <<c, k>> \in inbox' \cup deadLetters'
      BY <3>1
    <3> QED
      BY <3>2 DEF InFlight
  <2> QED
    BY <1>4, <2>1, <2>2, <2>3 DEF GovernanceNext
<1>5. ASSUME \/ UNCHANGED vars
             \/ ActivityNext
             \/ \E d \in Claim : ProducerNext(d)
      PROVE  inbox \subseteq inbox' /\ deadLetters' = deadLetters
  BY <1>5, ActivityFrame, ProducerFrame DEF vars, governance
<1> QED
  BY <1>1, <1>3, <1>4, <1>5 DEF Next

LEMMA TrackedKept ==
    ASSUME TypeOK, AckInv, KnownInv, [Next]_vars, NEW c \in Claim, Tracked(c),
           half'[c] # "rolledback"
    PROVE  Tracked(c)'
BY PreparedKept, InFlightKept, AccountedKept DEF Tracked

\* Only Lua adds a claim to Redis, and only under a half message.
LEMMA LuaGrants ==
    ASSUME TypeOK, [Next]_vars, NEW c \in Claim, c \in redisClaims', c \notin redisClaims
    PROVE  attempt[c] = "running" /\ half' = half
<1>1. ASSUME NEW d \in Claim, ProducerNext(d)
      PROVE  attempt[c] = "running" /\ half' = half
  <2>1. CASE ExecuteLua(d) \/ LuaFails(d)
    BY <2>1 DEF ExecuteLua, LuaFails, PreDeduct, redis
  <2>2. CASE SubmitClaim(d) \/ SubmitFails(d)
    BY <2>2 DEF SubmitClaim, SubmitFails, redis
  <2>3. CASE EndTransaction(d) \/ EndTransactionLost(d) \/ ProducerCrash(d) \/ CheckBack(d)
    BY <2>3 DEF EndTransaction, EndTransactionLost, ProducerCrash, CheckBack, redis
  <2> QED
    BY <1>1, <2>1, <2>2, <2>3 DEF ProducerNext
<1>2. ASSUME \/ UNCHANGED vars
             \/ ActivityNext
             \/ \E d \in Claim : GovernanceNext(d)
             \/ \E w \in Worker : WorkerNext(w)
      PROVE  redisClaims' \subseteq redisClaims
  BY <1>2, ActivityFrame, GovernanceFrame, WorkerFrame DEF vars, redis
<1> QED
  BY <1>1, <1>2 DEF Next

LEMMA VanishStep ==
    ASSUME VanishInv, [Next]_vars, "early check-back" \notin Disturbances
    PROVE  (AckInv /\ HalfInv /\ NoClaimVanishes)'
<1> USE DEF VanishInv
<1>1. AckInv' /\ HalfInv'
  BY AckStep, HalfStep
<1>2. ASSUME NEW c \in Claim, c \in redisClaims'
      PROVE  Tracked(c)'
  <2>1. half'[c] # "rolledback"
    BY <1>1, <1>2 DEF HalfInv
  <2>2. Tracked(c)
    <3>1. CASE c \in redisClaims
      BY <3>1 DEF NoClaimVanishes
    <3>2. CASE c \notin redisClaims
      BY <1>2, <3>2, LuaGrants DEF HalfInv, Tracked
    <3> QED
      BY <3>1, <3>2
  <2>3. KnownInv
    BY DEF HalfInv, KnownInv
  <2> QED
    BY <2>1, <2>2, <2>3, TrackedKept
<1>3. NoClaimVanishes'
  <2>1. redisClaims' \subseteq Claim
    <3>1. TypeOK'
      BY TypeStep
    <3> QED
      BY <3>1 DEF TypeOK
  <2> QED
    BY <1>2, <2>1 DEF NoClaimVanishes
<1> QED
  BY <1>1, <1>3

LEMMA VanishInit == Init => AckInv /\ HalfInv /\ NoClaimVanishes
<1> SUFFICES ASSUME Init
             PROVE  AckInv /\ HalfInv /\ NoClaimVanishes
  OBVIOUS
<1>1. \A w \in Worker : job[w].stage = "idle"
  BY DEF Init, Idle
<1>2. AckInv
  BY <1>1 DEF AckInv, At
<1>3. HalfInv /\ NoClaimVanishes
  BY DEF Init, HalfInv, NoClaimVanishes
<1> QED
  BY <1>2, <1>3

\* If the broker waits for the local transaction before it asks back, no crash, lost
\* reply, duplicate delivery or spent retry budget makes the system forget a claim
\* that Redis has granted.
THEOREM NothingVanishes ==
    ASSUME "early check-back" \notin Disturbances
    PROVE  Spec => []NoClaimVanishes
<1>1. TypeOK /\ AckInv /\ HalfInv /\ NoClaimVanishes /\ [Next]_vars
        => (AckInv /\ HalfInv /\ NoClaimVanishes)'
  BY VanishStep DEF VanishInv
<1> QED
  BY <1>1, VanishInit, TypeCorrect, PTL DEF Spec

--------------------------------------------------------------------------------
\* A claim is lost by a rollback only

\* The steps of a half message: it is stored once, and resolved once.
LEMMA HalfMoves ==
    ASSUME TypeOK, KnownInv, [Next]_vars, NEW c \in Claim, half'[c] # half[c]
    PROVE  \/ half[c] = "none" /\ half'[c] = "prepared"
           \/ half[c] = "prepared" /\ half'[c] \in {"committed", "rolledback"}
<1>1. ASSUME NEW d \in Claim, ProducerNext(d)
      PROVE  \/ half[c] = "none" /\ half'[c] = "prepared"
             \/ half[c] = "prepared" /\ half'[c] \in {"committed", "rolledback"}
  <2>1. CASE SubmitClaim(d) \/ SubmitFails(d)
    BY <2>1 DEF SubmitClaim, SubmitFails, KnownInv, TypeOK
  <2>2. CASE \/ ExecuteLua(d) \/ LuaFails(d) \/ EndTransactionLost(d)
             \/ ProducerCrash(d)
    BY <2>2 DEF ExecuteLua, LuaFails, EndTransactionLost, ProducerCrash
  <2>3. CASE CommitHalf(d) \/ RollbackHalf(d)
    BY <2>3 DEF CommitHalf, RollbackHalf, TypeOK
  <2>4. CASE EndTransaction(d) \/ CheckBack(d)
    BY <2>3, <2>4 DEF EndTransaction, CheckBack
  <2> QED
    BY <1>1, <2>1, <2>2, <2>4 DEF ProducerNext
<1>2. ASSUME \/ UNCHANGED vars
             \/ ActivityNext
             \/ \E d \in Claim : GovernanceNext(d)
             \/ \E w \in Worker : WorkerNext(w)
      PROVE  half' = half
  BY <1>2, ActivityFrame, GovernanceFrame, WorkerFrame DEF vars, producer
<1> QED
  BY <1>1, <1>2 DEF Next

\* A half message, once known to the broker, stays known.
LEMMA KnownStep ==
    ASSUME TypeOK, KnownInv, [Next]_vars
    PROVE  KnownInv'
<1>1. ASSUME NEW c \in Claim, half'[c] # half[c]
      PROVE  half'[c] # "none"
  BY <1>1, HalfMoves
<1>2. ASSUME NEW c \in Claim, c \in redisClaims', c \notin redisClaims
      PROVE  half'[c] # "none"
  BY <1>2, LuaGrants DEF KnownInv
<1>3. ASSUME NEW d \in Claim, ProducerNext(d), NEW c \in Claim
      PROVE  /\ attempt'[c] = "none" => attempt[c] = "none" /\ half'[c] = half[c]
             /\ attempt'[c] = "running" =>
                  attempt[c] = "running" \/ half'[c] = "prepared"
  <2>1. CASE SubmitClaim(d) \/ SubmitFails(d)
    BY <1>3, <2>1 DEF SubmitClaim, SubmitFails, TypeOK
  <2>2. CASE ExecuteLua(d) \/ LuaFails(d) \/ EndTransactionLost(d) \/ ProducerCrash(d)
    BY <1>3, <2>2 DEF ExecuteLua, LuaFails, EndTransactionLost, ProducerCrash, TypeOK
  <2>3. CASE EndTransaction(d) \/ CheckBack(d)
    <3>1. (CommitHalf(d) \/ RollbackHalf(d) \/ UNCHANGED half) /\ KnownInv
      BY <2>3 DEF EndTransaction, CheckBack
    <3>2. half[c] = "none" => half'[c] = half[c]
      BY <1>3, <3>1 DEF CommitHalf, RollbackHalf, TypeOK
    <3>3. /\ attempt'[c] = "none" => attempt[c] = "none"
          /\ attempt'[c] = "running" => attempt[c] = "running"
      BY <1>3, <2>3 DEF EndTransaction, CheckBack, TypeOK
    <3> QED
      BY <1>3, <3>2, <3>3 DEF KnownInv
  <2> QED
    BY <1>3, <2>1, <2>2, <2>3 DEF ProducerNext
<1>4. ASSUME \/ UNCHANGED vars
             \/ ActivityNext
             \/ \E d \in Claim : GovernanceNext(d)
             \/ \E w \in Worker : WorkerNext(w)
      PROVE  attempt' = attempt /\ half' = half
  BY <1>4, ActivityFrame, GovernanceFrame, WorkerFrame DEF vars, producer
<1>5. \A c \in Claim :
        /\ attempt'[c] = "none" => attempt[c] = "none" /\ half'[c] = half[c]
        /\ attempt'[c] = "running" => attempt[c] = "running" \/ half'[c] = "prepared"
  BY <1>3, <1>4 DEF Next
<1> QED
  BY <1>1, <1>2, <1>5 DEF KnownInv

LEMMA LossStep ==
    ASSUME LossInv, [Next]_vars
    PROVE  (AckInv /\ KnownInv /\ LostOnlyByRollback)'
<1> USE DEF LossInv
<1>1. AckInv' /\ KnownInv'
  BY AckStep, KnownStep
<1>2. ASSUME NEW c \in Claim, c \in redisClaims' \/ half'[c] = "committed",
             half'[c] # "rolledback"
      PROVE  Tracked(c)'
  <2>1. CASE half[c] = "prepared" \/ half[c] = "committed" \/ c \in redisClaims
    <3>1. half[c] # "rolledback"
      BY <1>2, HalfMoves
    <3>2. Tracked(c)
      BY <2>1, <3>1 DEF LostOnlyByRollback, Tracked
    <3> QED
      BY <1>2, <3>2, TrackedKept
  <2>2. CASE c \notin redisClaims /\ half[c] \notin {"prepared", "committed"}
    <3>1. CASE c \in redisClaims'
      <4>1. half' = half /\ half[c] # "none"
        BY <2>2, <3>1, LuaGrants DEF KnownInv
      <4> QED
        BY <1>2, <2>2, <4>1 DEF TypeOK
    <3>2. CASE half'[c] = "committed"
      BY <2>2, <3>2, HalfMoves
    <3> QED
      BY <1>2, <3>1, <3>2
  <2> QED
    BY <2>1, <2>2
<1>3. LostOnlyByRollback'
  BY <1>2 DEF LostOnlyByRollback
<1> QED
  BY <1>1, <1>3

\* Whatever happens to Redis and however early the broker asks back, a claim that was
\* granted, or whose half message was committed, is tracked unless that half message was
\* rolled back.
THEOREM LossIsARollback == Spec => []LostOnlyByRollback
<1>1. Init => AckInv /\ KnownInv /\ LostOnlyByRollback
  <2>1. Init => KnownInv /\ LostOnlyByRollback
    BY DEF Init, KnownInv, LostOnlyByRollback
  <2> QED
    BY <2>1, VanishInit
<1>2. TypeOK /\ AckInv /\ KnownInv /\ LostOnlyByRollback /\ [Next]_vars
        => (AckInv /\ KnownInv /\ LostOnlyByRollback)'
  BY LossStep DEF LossInv
<1> QED
  BY <1>1, <1>2, TypeCorrect, PTL DEF Spec

--------------------------------------------------------------------------------
\* Redis hands out no unit twice

\* Lua pays for each claim with a unit of stock, and a failover gives back at most what
\* the forgotten claim had paid.
LEMMA PreDeductionStep ==
    ASSUME TypeOK, PreDeductionKept, [Next]_vars, "re-enable" \notin Disturbances
    PROVE  PreDeductionKept'
<1> redisStock \in Nat /\ IsFiniteSet(redisClaims) /\ Cardinality(redisClaims) \in Nat
  BY FS_Subset, FS_CardinalityType, ClaimAssumption DEF TypeOK
<1>1. ASSUME NEW c \in Claim, PreDeduct(c)
      PROVE  PreDeductionKept'
  <2>1. /\ redisStock > 0 /\ redisStock' = redisStock - 1
        /\ redisClaims' = redisClaims \cup {c}
    BY <1>1 DEF PreDeduct, LuaAdmits
  <2>2. /\ Cardinality(redisClaims') \in Nat
        /\ Cardinality(redisClaims') <= Cardinality(redisClaims) + 1
    <3>1. Cardinality(redisClaims') = IF c \in redisClaims THEN Cardinality(redisClaims)
                                      ELSE Cardinality(redisClaims) + 1
      BY <2>1, FS_AddElement
    <3> QED
      BY <3>1
  <2> QED
    BY <2>1, <2>2, BoundAssumption DEF PreDeductionKept
<1>2. ASSUME NEW c \in Claim, Failover(c)
      PROVE  PreDeductionKept'
  <2>1. redisStock' = redisStock + 1 /\ c \in redisClaims /\ redisClaims' = redisClaims \ {c}
    BY <1>2 DEF Failover
  <2>2. Cardinality(redisClaims') = Cardinality(redisClaims) - 1
    BY <2>1, FS_RemoveElement
  <2> QED
    BY <2>1, <2>2, BoundAssumption DEF PreDeductionKept
<1>3. CASE UNCHANGED <<redisStock, redisClaims>>
  BY <1>3 DEF PreDeductionKept
<1>4. ASSUME NEW c \in Claim, ProducerNext(c)
      PROVE  PreDeduct(c) \/ UNCHANGED <<redisStock, redisClaims>>
  <2>1. CASE ExecuteLua(c) \/ LuaFails(c)
    BY <2>1 DEF ExecuteLua, LuaFails, redis
  <2>2. CASE SubmitClaim(c) \/ SubmitFails(c)
    BY <2>2 DEF SubmitClaim, SubmitFails, redis
  <2>3. CASE EndTransaction(c) \/ EndTransactionLost(c) \/ ProducerCrash(c) \/ CheckBack(c)
    BY <2>3 DEF EndTransaction, EndTransactionLost, ProducerCrash, CheckBack, redis
  <2> QED
    BY <1>4, <2>1, <2>2, <2>3 DEF ProducerNext
<1>5. ASSUME \/ UNCHANGED vars \/ CloseActivity \/ ReenableActivity
             \/ \E d \in Claim : GovernanceNext(d)
             \/ \E w \in Worker : WorkerNext(w)
      PROVE  UNCHANGED <<redisStock, redisClaims>>
  <2>1. CASE CloseActivity \/ ReenableActivity
    BY <2>1 DEF CloseActivity, ReenableActivity
  <2> QED
    BY <1>5, <2>1, GovernanceFrame, WorkerFrame DEF vars, redis
<1> QED
  BY <1>1, <1>2, <1>3, <1>4, <1>5 DEF Next, ActivityNext

\* Enabling an activity again is the one thing that makes Redis hand out a unit of stock
\* twice: without it no crash, no lost reply and no failover does.
THEOREM PreDeductedOnce ==
    ASSUME "re-enable" \notin Disturbances
    PROVE  Spec => []PreDeductionKept
<1>1. Init => PreDeductionKept
  BY FS_EmptySet, BoundAssumption DEF Init, PreDeductionKept
<1>2. TypeOK /\ PreDeductionKept /\ [Next]_vars => PreDeductionKept'
  BY PreDeductionStep
<1> QED
  BY <1>1, <1>2, TypeCorrect, PTL DEF Spec
====
