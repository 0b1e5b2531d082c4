---- MODULE ClaimGovernance ----
\* Reconciliation (6A) and controlled repair (6B) of failed claims: the scanners
\* of all replicas take rows of seckill_coupon_claim_failure under a lease, read
\* MySQL and Redis one statement at a time, and conclude or repair, while late
\* copies of the claims are still being consumed and Redis may lose its evidence.
EXTENDS Naturals, FiniteSets

CONSTANTS
    Failure,            \* failureIds: one per claim and error code
    Claim,
    ClaimOf,            \* the claim a failure is about
    User,
    Owner,              \* Owner[c] is the user of claim c
    Scanner,            \* the scheduled thread of each replica
    TotalStock,         \* units of the coupon left when the failures appear
    MaxRepairAttempts,  \* claim-reconciliation.max-repair-attempts
    MaxFaults           \* bound: errors, crashes, failovers, overrun leases

ASSUME FailureAssumption == IsFiniteSet(Failure) /\ IsFiniteSet(Claim)
ASSUME IdentityAssumption ==
    /\ ClaimOf \in [Failure -> Claim]
    /\ Owner \in [Claim -> User]
ASSUME LimitAssumption ==
    /\ {TotalStock, MaxFaults} \subseteq Nat
    /\ MaxRepairAttempts \in Nat \ {0}

VARIABLES
    row,         \* the failure table
    remaining,   \* seckill_coupon.remaining_stock
    userCoupon,  \* claims persisted in user_coupon
    redisClaims, \* the hash claimId -> userId
    redisUsers,  \* the set of users
    overdue,     \* failures older than claim-reconciliation.manual-after
    work,        \* what each scanner is doing
    faults

mysql == <<remaining, userCoupon>>
redis == <<redisClaims, redisUsers>>
vars == <<row, mysql, redis, overdue, work, faults>>

Origin == {"RECONCILE_PENDING", "DEAD_LETTERED", "QUARANTINED"}
Concluded == {"RESOLVED", "MANUAL_REQUIRED"}
Kept == {"PROCESSING", "RECHECK_PENDING", "REPAIR_PENDING", "REPAIRING"} \cup Concluded
Status == {"absent"} \cup Origin \cup Kept

ReconcileStatus == {"RECONCILE_PENDING", "DEAD_LETTERED", "RECHECK_PENDING", "PROCESSING"}
RepairStatus == {"REPAIR_PENDING", "REPAIRING"}
Leased == {"PROCESSING", "REPAIRING"}

ResolutionCode ==
    {"NONE", "ALREADY_PERSISTED", "USER_COUPON_CONFLICT", "REDIS_EVIDENCE_CONFIRMED",
     "REDIS_EVIDENCE_CONFLICT", "EVIDENCE_TEMPORARILY_MISSING",
     "RECONCILIATION_READ_FAILURE", "MESSAGE_BODY_INVALID", "FORWARD_REPAIR_SUCCESS",
     "REPAIR_BUSINESS_CONFLICT", "REPAIR_TRANSIENT_FAILURE",
     "REPAIR_ATTEMPTS_EXHAUSTED"}

NoScanner == "none"
Absent == [status |-> "absent", origin |-> "RECONCILE_PENDING", readable |-> TRUE,
           code |-> "NONE", attempts |-> 0, token |-> NoScanner, expired |-> FALSE]
Row == [status : Status, origin : Origin,
        readable : BOOLEAN,  \* the message body decodes to the claim of the row
        code : ResolutionCode, attempts : Nat,
        token : Scanner \cup {NoScanner}, expired : BOOLEAN]

\* A scanner works on the copy of the row its query returned: the status and the
\* repair attempts it saw. It ends with a decision.
Idle == [stage |-> "idle"]
Reading == {"owned", "unpersisted", "ready", "claim found", "claim missing"}
Persisting == {"persist", "write", "verify"}
Work ==
    {Idle}
    \cup [stage : {"candidate", "race"} \cup Reading \cup Persisting,
          failure : Failure, seen : Status, attempts : Nat]
    \cup [stage : {"decided"}, failure : Failure, seen : Status, attempts : Nat,
          target : Status, code : ResolutionCode]

TypeOK ==
    /\ row \in [Failure -> Row]
    /\ remaining \in Nat
    /\ userCoupon \subseteq Claim
    /\ redisClaims \subseteq Claim
    /\ redisUsers \subseteq User
    /\ overdue \subseteq Failure
    /\ work \in [Scanner -> Work]
    /\ faults \in 0..MaxFaults

Holders(S) == {Owner[c] : c \in S}

\* Redis starts with the claims it has granted and not lost, one per user.
Init ==
    /\ row = [f \in Failure |-> Absent]
    /\ remaining = TotalStock
    /\ userCoupon = {}
    /\ redisClaims \in {S \in SUBSET Claim : \A c, d \in S : Owner[c] = Owner[d] => c = d}
    /\ redisUsers = Holders(redisClaims)
    /\ overdue = {}
    /\ work = [s \in Scanner |-> Idle]
    /\ faults = 0

Fault == faults < MaxFaults /\ faults' = faults + 1

--------------------------------------------------------------------------------
\* The surroundings of the two tasks

\* Faulty variant: a redelivery puts the row back to where its action starts.
RecordFailureAfresh(f) ==
    /\ \E origin \in Origin :
          row' = [row EXCEPT ![f].status = origin, ![f].origin = origin]
    /\ UNCHANGED <<mysql, redis, overdue, work, faults>>

\* The failure consumer upserts. A redelivery leaves alone what governance has
\* begun.
RecordFailure(f) ==
    /\ \/ /\ row[f].status = "absent"
          /\ \E origin \in Origin, readable \in BOOLEAN :
                row' = [row EXCEPT ![f].status = origin, ![f].origin = origin,
                                   ![f].readable = readable]
       \/ /\ row[f].status # "absent"
          /\ row' = [row EXCEPT ![f].status = IF @ \in Kept THEN @ ELSE row[f].origin]
    /\ UNCHANGED <<mysql, redis, overdue, work, faults>>

\* Faulty variant: no unique key on the user.
IssueCouponAgain(c) ==
    /\ remaining > 0
    /\ c \notin userCoupon
    /\ remaining' = remaining - 1
    /\ userCoupon' = userCoupon \cup {c}

\* The transaction of persist(), which the consumer and the repair share.
IssueCoupon(c) ==
    /\ remaining > 0
    /\ Owner[c] \notin Holders(userCoupon)
    /\ remaining' = remaining - 1
    /\ userCoupon' = userCoupon \cup {c}

\* A copy of the claim still in the topic is consumed.
LateConsumption(c) ==
    /\ IssueCoupon(c)
    /\ UNCHANGED <<row, redis, overdue, work, faults>>

Failover(c) ==
    /\ Fault
    /\ c \in redisClaims
    /\ redisClaims' = redisClaims \ {c}
    /\ redisUsers' = redisUsers \ {Owner[c]}
    /\ UNCHANGED <<row, mysql, overdue, work>>

TimePasses(f) ==
    /\ row[f].status # "absent"
    /\ f \notin overdue
    /\ overdue' = overdue \cup {f}
    /\ UNCHANGED <<row, mysql, redis, work, faults>>

--------------------------------------------------------------------------------
\* Leases

Seen(s) == work[s].seen
At(s, stage) == work[s].stage = stage
Repairing(s) == Seen(s) \in RepairStatus
TheClaim(s) == ClaimOf[work[s].failure]

\* A scanner past tryClaim and not yet done with the row.
Active(s, f) ==
    /\ work[s].stage \notin {"idle", "candidate"}
    /\ work[s].failure = f

\* A lease ends when its holder is gone; it may also end under a holder that is
\* slow, or that reached the row late in its batch: the deadline counts from the
\* start of the batch.
LeaseExpires(f) ==
    /\ row[f].status \in Leased
    /\ ~row[f].expired
    /\ row' = [row EXCEPT ![f].expired = TRUE]
    /\ IF \E s \in Scanner : row[f].token = s /\ Active(s, f)
       THEN Fault ELSE UNCHANGED faults
    /\ UNCHANGED <<mysql, redis, overdue, work>>

\* The batch queries. A candidate may wait in the batch for as long as it takes.
ListCandidate(s, f) ==
    /\ At(s, "idle")
    /\ row[f].status \in ReconcileStatus \cup RepairStatus
    /\ row[f].status \in Leased => row[f].expired
    /\ work' = [work EXCEPT ![s] =
                  [stage |-> "candidate", failure |-> f, seen |-> row[f].status,
                   attempts |-> row[f].attempts]]
    /\ UNCHANGED <<row, mysql, redis, overdue, faults>>

\* Faulty variant: only pending rows are taken, no lease is taken over.
GrantableWhilePending(s, f) == row[f].status = Seen(s) /\ row[f].status \notin Leased

\* The condition of the two CAS updates of each task.
Grantable(s, f) ==
    /\ row[f].status = Seen(s)
    /\ row[f].status \in Leased => row[f].expired

Grant(s, f) ==
    row' = [row EXCEPT ![f].status = IF Repairing(s) THEN "REPAIRING" ELSE "PROCESSING",
                       ![f].attempts = IF Repairing(s) THEN @ + 1 ELSE @,
                       ![f].token = s,
                       ![f].expired = FALSE]

TryClaim(s) ==
    /\ At(s, "candidate")
    /\ LET f == work[s].failure IN
       \/ /\ Grantable(s, f)
          /\ Grant(s, f)
          /\ work' = [work EXCEPT ![s].stage = "owned"]
       \/ /\ ~Grantable(s, f)
          /\ work' = [work EXCEPT ![s] = Idle]
          /\ UNCHANGED row
    /\ UNCHANGED <<mysql, redis, overdue, faults>>

\* The update throws, with or without effect, and with it the whole batch ends.
TryClaimFails(s) ==
    /\ Fault
    /\ At(s, "candidate")
    /\ \/ UNCHANGED row
       \/ Grantable(s, work[s].failure) /\ Grant(s, work[s].failure)
    /\ work' = [work EXCEPT ![s] = Idle]
    /\ UNCHANGED <<mysql, redis, overdue>>

--------------------------------------------------------------------------------
\* The evidence, one statement at a time

MoveTo(s, stage) == work' = [work EXCEPT ![s].stage = stage]
Decide(s, target, code) ==
    work' = [work EXCEPT ![s] =
               [stage |-> "decided", failure |-> work[s].failure, seen |-> Seen(s),
                attempts |-> work[s].attempts, target |-> target, code |-> code]]

ReadByClaimId(s) ==
    /\ At(s, "owned")
    /\ IF TheClaim(s) \in userCoupon
       THEN Decide(s, "RESOLVED", "ALREADY_PERSISTED")
       ELSE MoveTo(s, "unpersisted")
    /\ UNCHANGED <<row, mysql, redis, overdue, faults>>

\* "The user has claimed this coupon with another claimId." The repair then reads
\* the message, before it asks Redis.
ReadByUser(s) ==
    /\ At(s, "unpersisted")
    /\ \/ /\ Owner[TheClaim(s)] \in Holders(userCoupon)
          /\ Decide(s, "MANUAL_REQUIRED", "USER_COUPON_CONFLICT")
       \/ /\ Owner[TheClaim(s)] \notin Holders(userCoupon)
          /\ Repairing(s) /\ ~row[work[s].failure].readable
          /\ Decide(s, "MANUAL_REQUIRED", "MESSAGE_BODY_INVALID")
       \/ /\ Owner[TheClaim(s)] \notin Holders(userCoupon)
          /\ Repairing(s) => row[work[s].failure].readable
          /\ MoveTo(s, "ready")
    /\ UNCHANGED <<row, mysql, redis, overdue, faults>>

ReadClaimOwner(s) ==
    /\ At(s, "ready")
    /\ MoveTo(s, IF TheClaim(s) \in redisClaims THEN "claim found" ELSE "claim missing")
    /\ UNCHANGED <<row, mysql, redis, overdue, faults>>

Evidence(s) ==
    LET user == Owner[TheClaim(s)] \in redisUsers IN
    CASE At(s, "claim found") /\ user -> "CONFIRMED"
      [] At(s, "claim missing") /\ ~user -> "MISSING"
      [] OTHER -> "CONFLICT"

\* With the second answer from Redis the evidence is complete, and judged.
EvaluateEvidence(s) ==
    /\ At(s, "claim found") \/ At(s, "claim missing")
    /\ ~Repairing(s)
    /\ \/ /\ Evidence(s) = "CONFIRMED"
          /\ Decide(s, "REPAIR_PENDING", "REDIS_EVIDENCE_CONFIRMED")
       \/ /\ Evidence(s) = "MISSING" /\ work[s].failure \notin overdue
          /\ Decide(s, "RECHECK_PENDING", "EVIDENCE_TEMPORARILY_MISSING")
       \/ /\ Evidence(s) = "MISSING" => work[s].failure \in overdue
          /\ Evidence(s) # "CONFIRMED"
          /\ Decide(s, "MANUAL_REQUIRED", "REDIS_EVIDENCE_CONFLICT")
    /\ UNCHANGED <<row, mysql, redis, overdue, faults>>

ValidateEvidence(s) ==
    /\ At(s, "claim found") \/ At(s, "claim missing")
    /\ Repairing(s)
    /\ IF Evidence(s) = "CONFIRMED"
       THEN MoveTo(s, "persist")
       ELSE Decide(s, "MANUAL_REQUIRED", "REDIS_EVIDENCE_CONFLICT")
    /\ UNCHANGED <<row, mysql, redis, overdue, faults>>

--------------------------------------------------------------------------------
\* The repair: persist() again, and what the executor makes of its exceptions

PersistRead(s) ==
    /\ At(s, "persist")
    /\ \/ TheClaim(s) \in userCoupon /\ MoveTo(s, "verify")
       \/ /\ TheClaim(s) \notin userCoupon
          /\ Owner[TheClaim(s)] \in Holders(userCoupon)
          /\ Decide(s, "MANUAL_REQUIRED", "REPAIR_BUSINESS_CONFLICT")
       \/ Owner[TheClaim(s)] \notin Holders(userCoupon) /\ MoveTo(s, "write")
    /\ UNCHANGED <<row, mysql, redis, overdue, faults>>

PersistWrite(s) ==
    /\ At(s, "write")
    /\ \/ IssueCoupon(TheClaim(s)) /\ MoveTo(s, "verify")
       \/ /\ remaining = 0
          /\ Decide(s, "MANUAL_REQUIRED", "REPAIR_BUSINESS_CONFLICT")
          /\ UNCHANGED mysql
       \/ /\ remaining > 0 /\ Owner[TheClaim(s)] \in Holders(userCoupon)
          /\ MoveTo(s, "race")
          /\ UNCHANGED mysql
    /\ UNCHANGED <<row, redis, overdue, faults>>

\* Nothing deletes from user_coupon, so the second look finds what was written.
VerifyPersisted(s) ==
    /\ At(s, "verify")
    /\ Decide(s, "RESOLVED", "FORWARD_REPAIR_SUCCESS")
    /\ UNCHANGED <<row, mysql, redis, overdue, faults>>

\* Faulty variant: a duplicate key is taken for success.
ResolveDuplicateRaceBlindly(s) ==
    /\ At(s, "race")
    /\ Decide(s, "RESOLVED", "ALREADY_PERSISTED")
    /\ UNCHANGED <<row, mysql, redis, overdue, faults>>

ResolveDuplicateRace(s) ==
    /\ At(s, "race")
    /\ IF TheClaim(s) \in userCoupon
       THEN Decide(s, "RESOLVED", "ALREADY_PERSISTED")
       ELSE Decide(s, "MANUAL_REQUIRED", "REPAIR_BUSINESS_CONFLICT")
    /\ UNCHANGED <<row, mysql, redis, overdue, faults>>

\* Faulty variant: the last permitted attempt is not made.
RetryOrGiveUpEarly(s) ==
    IF work[s].attempts + 2 >= MaxRepairAttempts
    THEN Decide(s, "MANUAL_REQUIRED", "REPAIR_ATTEMPTS_EXHAUSTED")
    ELSE Decide(s, "REPAIR_PENDING", "REPAIR_TRANSIENT_FAILURE")

\* The attempt that just failed is counted from the copy the batch read.
RetryOrGiveUp(s) ==
    IF work[s].attempts + 1 >= MaxRepairAttempts
    THEN Decide(s, "MANUAL_REQUIRED", "REPAIR_ATTEMPTS_EXHAUSTED")
    ELSE Decide(s, "REPAIR_PENDING", "REPAIR_TRANSIENT_FAILURE")

\* A statement throws before anything is committed. Reconciliation rechecks
\* later; the repair retries a transient error and gives up on any other, a
\* connection pool without connections at the begin of persist() among them.
StatementFails(s) ==
    /\ Fault
    /\ work[s].stage \in Reading \cup Persisting
    /\ \/ ~Repairing(s) /\ Decide(s, "RECHECK_PENDING", "RECONCILIATION_READ_FAILURE")
       \/ Repairing(s) /\ RetryOrGiveUp(s)
       \/ Repairing(s) /\ Decide(s, "MANUAL_REQUIRED", "REPAIR_BUSINESS_CONFLICT")
    /\ UNCHANGED <<row, mysql, redis, overdue>>

\* The commit succeeds and its reply is lost.
CommitReplyLost(s) ==
    /\ Fault
    /\ At(s, "write")
    /\ IssueCoupon(TheClaim(s))
    /\ RetryOrGiveUp(s)
    /\ UNCHANGED <<row, redis, overdue>>

\* The scanner is gone in the middle: its process crashed, or the read after a
\* duplicate key threw out of the executor and ended the batch.
Abandon(s) ==
    /\ Fault
    /\ ~At(s, "idle")
    /\ work' = [work EXCEPT ![s] = Idle]
    /\ UNCHANGED <<row, mysql, redis, overdue>>

--------------------------------------------------------------------------------
\* The conclusion

\* Only the token written last may conclude; the others' results are dropped.
HoldsLease(s) ==
    LET f == work[s].failure IN
    /\ row[f].token = s
    /\ row[f].status = IF Repairing(s) THEN "REPAIRING" ELSE "PROCESSING"

Conclude(s) ==
    row' = [row EXCEPT ![work[s].failure].status = work[s].target,
                       ![work[s].failure].code = work[s].code,
                       ![work[s].failure].token = NoScanner,
                       ![work[s].failure].expired = FALSE]

Complete(s) ==
    /\ At(s, "decided")
    /\ IF HoldsLease(s) THEN Conclude(s) ELSE UNCHANGED row
    /\ work' = [work EXCEPT ![s] = Idle]
    /\ UNCHANGED <<mysql, redis, overdue, faults>>

\* The error is logged and swallowed.
CompleteFails(s) ==
    /\ Fault
    /\ At(s, "decided")
    /\ UNCHANGED row \/ (HoldsLease(s) /\ Conclude(s))
    /\ work' = [work EXCEPT ![s] = Idle]
    /\ UNCHANGED <<mysql, redis, overdue>>

--------------------------------------------------------------------------------
ScannerStep(s) ==
    \/ TryClaim(s)
    \/ ReadByClaimId(s) \/ ReadByUser(s) \/ ReadClaimOwner(s)
    \/ EvaluateEvidence(s) \/ ValidateEvidence(s)
    \/ PersistRead(s) \/ PersistWrite(s) \/ VerifyPersisted(s)
    \/ ResolveDuplicateRace(s) \/ Complete(s)

ScannerFault(s) ==
    \/ TryClaimFails(s) \/ StatementFails(s) \/ CommitReplyLost(s)
    \/ Abandon(s) \/ CompleteFails(s)

Next ==
    \/ \E f \in Failure :
        \/ RecordFailure(f) \/ TimePasses(f) \/ LeaseExpires(f)
        \/ \E s \in Scanner : ListCandidate(s, f)
    \/ \E c \in Claim : LateConsumption(c) \/ Failover(c)
    \/ \E s \in Scanner : ScannerStep(s) \/ ScannerFault(s)

Spec == Init /\ [][Next]_vars

\* The scheduler runs the tasks every 30 seconds, a batch reaches each of its
\* candidates, and clocks advance.
FairSpec ==
    /\ Spec
    /\ \A f \in Failure :
        /\ WF_vars(TimePasses(f))
        /\ WF_vars(LeaseExpires(f))
        /\ WF_vars(\E s \in Scanner : ListCandidate(s, f))
    /\ \A s \in Scanner : WF_vars(ScannerStep(s))

--------------------------------------------------------------------------------
\* Properties

\* A row is closed as resolved only when its own claim is a coupon: not a rival
\* claim of the user, and not a transaction that was rolled back.
ResolvedMeansIssued ==
    \A f \in Failure : row[f].status = "RESOLVED" => ClaimOf[f] \in userCoupon

\* A conclusion stands: neither a redelivered failure nor a scanner with an old
\* copy or an old token reopens or changes it.
ConclusionStands ==
    [][\A f \in Failure : row[f].status \in Concluded => row'[f] = row[f]]_vars

\* A repair that gave up for exhaustion was really tried that often, though every
\* scanner counts from its own old copy of the row.
ExhaustionIsEarned ==
    \A f \in Failure : row[f].code = "REPAIR_ATTEMPTS_EXHAUSTED" =>
        row[f].attempts >= MaxRepairAttempts

\* The repairs of any number of replicas and the late consumers together issue
\* coupons one by one, within the stock and once per user.
Issue == INSTANCE CouponIssue WITH issued <- userCoupon
IssueSpec == Issue!Spec

\* Every failure that is not quarantined is resolved or handed to a human in the
\* end, through crashed scanners, overrun leases and evidence that never comes.
EveryFailureConcludes ==
    \A f \in Failure :
        row[f].status \in {"RECONCILE_PENDING", "DEAD_LETTERED"}
            ~> row[f].status \in Concluded

\* USER_COUPON_CONFLICT says that the user got the coupon through another claim.
ConflictMeansOtherClaim ==
    \A f \in Failure : row[f].code = "USER_COUPON_CONFLICT" =>
        \E c \in userCoupon : c # ClaimOf[f] /\ Owner[c] = Owner[ClaimOf[f]]
====
