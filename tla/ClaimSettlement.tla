---- MODULE ClaimSettlement ----
\* Settlement of an ended activity (flow 6C) over the pipeline of its claims: the
\* settlers of all replicas take the settlement row under a lease, read the totals
\* of MySQL, of the failure table and of Redis one statement at a time, and, when
\* they agree, let the evidence in Redis expire and conclude. Messages, repairs and
\* check-backs of the activity's claims go on meanwhile.
EXTENDS ClaimPipeline

CONSTANT Settler      \* the scheduled thread of each replica

VARIABLES
    over,        \* claim_end_time has passed, for Lua and for the settlement
    evidence,    \* which evidence keys are left: all, all but the activity hash, none
    cleanup,     \* scheduleEvidenceCleanup has set the early expiry of some key
    repairing,   \* claims whose repair has confirmed its evidence and may persist
    resolved,    \* rows of the failure table with status RESOLVED
    settlement,  \* the row of seckill_coupon_claim_settlement
    work,        \* what each settler is doing, on what it has read
    granted      \* history: every claim Lua ever granted

ledger == <<over, evidence, cleanup, repairing, resolved, settlement, work>>
settlementVars == <<vars, ledger, granted>>

NoSettler == "none"
SettlementStatus ==
    {"absent", "PENDING", "PROCESSING", "RECHECK_PENDING", "CONSISTENT", "MANUAL_REQUIRED"}
Settlement ==
    [status : SettlementStatus, token : Settler \cup {NoSettler}, expired : BOOLEAN,
     remaining : Nat, coupons : Nat]

Reading == {"owned", "stock", "coupons", "failures"}
Work ==
    [stage : {"idle", "candidate", "consistent", "decided"} \cup Reading,
     seen : SettlementStatus, remaining : Nat, coupons : Nat, unresolved : BOOLEAN,
     target : SettlementStatus]
NoWork == [stage |-> "idle", seen |-> "absent", remaining |-> 0, coupons |-> 0,
           unresolved |-> FALSE, target |-> "absent"]

LedgerTypes ==
    /\ over \in BOOLEAN /\ cleanup \in BOOLEAN
    /\ evidence \in {"whole", "no activity", "none"}
    /\ repairing \subseteq Claim
    /\ resolved \subseteq Claim \X FailureCode
    /\ settlement \in Settlement
    /\ work \in [Settler -> Work]
    /\ granted \subseteq Claim

SettlementInit ==
    /\ Init
    /\ over = FALSE /\ cleanup = FALSE
    /\ evidence = "whole"
    /\ repairing = {} /\ resolved = {}
    /\ settlement = [status |-> "absent", token |-> NoSettler, expired |-> FALSE,
                     remaining |-> 0, coupons |-> 0]
    /\ work = [s \in Settler |-> NoWork]
    /\ granted = {}

Doing(s, stage) == work[s].stage = stage
Record(s, w) == work' = [work EXCEPT ![s] = w]
Leave(s) == Record(s, NoWork)

--------------------------------------------------------------------------------
\* The surroundings

\* Whatever the pipeline does; once the time is over nothing opens the activity
\* again: startOrStop refuses it, and Lua compares endTime with its clock.
PipelineStep ==
    /\ Next
    /\ over => ~open'
    /\ granted' = granted \cup redisClaims'
    /\ UNCHANGED ledger

ActivityEnds ==
    /\ ~over
    /\ over' = TRUE
    /\ open' = FALSE
    /\ UNCHANGED <<redisStock, redisUsers, redisClaims, producer, inbox, governance, mysql,
                   job, faults, granted, evidence, cleanup, repairing, resolved,
                   settlement, work>>

\* A late event, or its compensation message, writes the stock of an enabled coupon as
\* MySQL had it; Lua goes on refusing, as the time is over.
ResyncActivity ==
    /\ "re-enable" \in Disturbances
    /\ over /\ evidence = "whole"
    /\ Fault
    /\ redisStock' \in remaining..TotalStock
    /\ UNCHANGED <<open, redisUsers, redisClaims, producer, inbox, governance, mysql, job,
                   granted, over, evidence, cleanup, repairing, resolved, settlement, work>>

\* The evidence lasts until its retention after the end, or until the earlier time the
\* settlement has set; the activity hash goes first, as its time is set first.
ActivityHashExpires ==
    /\ over
    /\ evidence = "whole"
    /\ evidence' = "no activity"
    /\ UNCHANGED <<vars, granted, over, cleanup, repairing, resolved, settlement, work>>

ClaimsExpire ==
    /\ evidence = "no activity"
    /\ evidence' = "none"
    /\ redisUsers' = {} /\ redisClaims' = {}
    /\ UNCHANGED <<open, redisStock, producer, inbox, governance, mysql, job, faults,
                   granted, over, cleanup, repairing, resolved, settlement, work>>

\* Governance as ClaimGovernance has it: a repair persists a claim whose evidence it
\* has seen in Redis before, and a row is resolved when its claim is a coupon.
ConfirmEvidence(c) ==
    /\ \E code \in FailureCode \ QuarantineCodes : <<c, code>> \in failureRows \ resolved
    /\ c \in redisClaims /\ Owner[c] \in redisUsers
    /\ repairing' = repairing \cup {c}
    /\ UNCHANGED <<vars, granted, over, evidence, cleanup, resolved, settlement, work>>

Repair(c) ==
    /\ c \in repairing
    /\ IssueCoupon(c) \/ UNCHANGED mysql
    /\ repairing' = repairing \ {c}
    /\ UNCHANGED <<redis, producer, inbox, governance, job, faults,
                   granted, over, evidence, cleanup, resolved, settlement, work>>

Resolve(c, code) ==
    /\ <<c, code>> \in failureRows \ resolved
    /\ code \notin QuarantineCodes
    /\ c \in userCoupon
    /\ resolved' = resolved \cup {<<c, code>>}
    /\ UNCHANGED <<vars, granted, over, evidence, cleanup, repairing, settlement, work>>

--------------------------------------------------------------------------------
\* The settlement row and its lease

\* Faulty variant: the end of the activity is not waited for.
CreatePendingEarly ==
    /\ settlement.status = "absent"
    /\ settlement' = [settlement EXCEPT !.status = "PENDING"]
    /\ UNCHANGED <<vars, granted, over, evidence, cleanup, repairing, resolved, work>>

CreatePending ==
    /\ over
    /\ settlement.status = "absent"
    /\ settlement' = [settlement EXCEPT !.status = "PENDING"]
    /\ UNCHANGED <<vars, granted, over, evidence, cleanup, repairing, resolved, work>>

Holder(s) == settlement.status = "PROCESSING" /\ settlement.token = s

\* The deadline counts from the start of the batch: it may pass under the holder.
LeaseExpires ==
    /\ settlement.status = "PROCESSING" /\ ~settlement.expired
    /\ settlement' = [settlement EXCEPT !.expired = TRUE]
    /\ IF \E s \in Settler : Holder(s) /\ ~Doing(s, "idle") THEN Fault ELSE NoFault
    /\ UNCHANGED <<redis, producer, inbox, governance, mysql, job,
                   granted, over, evidence, cleanup, repairing, resolved, work>>

Grantable(seen) ==
    /\ settlement.status = seen
    /\ seen = "PROCESSING" => settlement.expired

ListCandidate(s) ==
    /\ Doing(s, "idle")
    /\ settlement.status \in {"PENDING", "RECHECK_PENDING", "PROCESSING"}
    /\ Grantable(settlement.status)
    /\ Record(s, [NoWork EXCEPT !.stage = "candidate", !.seen = settlement.status])
    /\ UNCHANGED <<vars, granted, over, evidence, cleanup, repairing, resolved, settlement>>

TakeLease(s) ==
    settlement' = [settlement EXCEPT !.status = "PROCESSING", !.token = s, !.expired = FALSE]

\* tryStart and tryReclaimExpired: compare the status and set it in one update.
TryClaim(s) ==
    /\ Doing(s, "candidate")
    /\ \/ /\ Grantable(work[s].seen)
          /\ TakeLease(s)
          /\ Record(s, [work[s] EXCEPT !.stage = "owned"])
       \/ /\ ~Grantable(work[s].seen)
          /\ Leave(s)
          /\ UNCHANGED settlement
    /\ UNCHANGED <<vars, granted, over, evidence, cleanup, repairing, resolved>>

--------------------------------------------------------------------------------
\* The totals, one statement at a time, and the conclusion

Evaluation == <<vars, granted, over, evidence, cleanup, repairing, resolved, settlement>>

ReadStock(s) ==
    /\ Doing(s, "owned")
    /\ Record(s, [work[s] EXCEPT !.stage = "stock", !.remaining = remaining])
    /\ UNCHANGED Evaluation

CountCoupons(s) ==
    /\ Doing(s, "stock")
    /\ Record(s, [work[s] EXCEPT !.stage = "coupons", !.coupons = Cardinality(userCoupon)])
    /\ UNCHANGED Evaluation

CountUnresolved(s) ==
    /\ Doing(s, "coupons")
    /\ Record(s, [work[s] EXCEPT !.stage = "failures",
                                 !.unresolved = failureRows \ resolved # {}])
    /\ UNCHANGED Evaluation

\* Faulty variant: each side is only compared with itself.
AgreesApart(s) ==
    /\ evidence = "whole" /\ redisStock <= TotalStock
    /\ TotalStock - work[s].remaining = work[s].coupons
    /\ TotalStock - redisStock = Cardinality(redisUsers)
    /\ Cardinality(redisUsers) = Cardinality(redisClaims)
    /\ ~work[s].unresolved

\* isConsistent, with what Redis says now.
Agrees(s) ==
    /\ evidence = "whole" /\ redisStock <= TotalStock
    /\ TotalStock - work[s].remaining = work[s].coupons
    /\ TotalStock - redisStock = Cardinality(redisUsers)
    /\ Cardinality(redisUsers) = Cardinality(redisClaims)
    /\ Cardinality(redisUsers) = work[s].coupons
    /\ ~work[s].unresolved

Decide(s, target) == Record(s, [work[s] EXCEPT !.stage = "decided", !.target = target])

\* The totals of Redis are read by one script. What does not agree is checked again,
\* or is left to a human when the end is long past.
EvaluateTotals(s) ==
    /\ Doing(s, "failures")
    /\ \/ Agrees(s) /\ Record(s, [work[s] EXCEPT !.stage = "consistent"])
       \/ ~Agrees(s) /\ \E target \in {"RECHECK_PENDING", "MANUAL_REQUIRED"} : Decide(s, target)
    /\ UNCHANGED Evaluation

\* Three expiries are set, of which an error may leave some unset.
ScheduleCleanup(s) ==
    /\ Doing(s, "consistent")
    /\ cleanup' = TRUE
    /\ Decide(s, "CONSISTENT")
    /\ UNCHANGED <<vars, granted, over, evidence, repairing, resolved, settlement>>

\* An exception while the totals are read or the cleanup is scheduled.
EvaluationFails(s) ==
    /\ Fault
    /\ work[s].stage \in Reading \cup {"consistent"}
    /\ cleanup' \in {cleanup, cleanup \/ Doing(s, "consistent")}
    /\ Decide(s, "RECHECK_PENDING")
    /\ UNCHANGED <<redis, producer, inbox, governance, mysql, job,
                   granted, over, evidence, repairing, resolved, settlement>>

Conclude(s) ==
    settlement' = [settlement EXCEPT !.status = work[s].target,
                                     !.token = NoSettler,
                                     !.expired = FALSE,
                                     !.remaining = work[s].remaining,
                                     !.coupons = work[s].coupons]

Complete(s) ==
    /\ Doing(s, "decided")
    /\ IF Holder(s) THEN Conclude(s) ELSE UNCHANGED settlement
    /\ Leave(s)
    /\ UNCHANGED <<vars, granted, over, evidence, cleanup, repairing, resolved>>

\* completeSafely swallows the error of the update, which may have been done.
CompleteFails(s) ==
    /\ Fault
    /\ Doing(s, "decided")
    /\ UNCHANGED settlement \/ (Holder(s) /\ Conclude(s))
    /\ Leave(s)
    /\ UNCHANGED <<redis, producer, inbox, governance, mysql, job,
                   granted, over, evidence, cleanup, repairing, resolved>>

\* The process dies, or the update of the lease throws out of the batch, done or not.
Abandon(s) ==
    /\ Fault
    /\ ~Doing(s, "idle")
    /\ \/ UNCHANGED settlement
       \/ Doing(s, "candidate") /\ Grantable(work[s].seen) /\ TakeLease(s)
    /\ Leave(s)
    /\ UNCHANGED <<redis, producer, inbox, governance, mysql, job,
                   granted, over, evidence, cleanup, repairing, resolved>>

--------------------------------------------------------------------------------
SettlerStep(s) ==
    \/ ListCandidate(s) \/ TryClaim(s)
    \/ ReadStock(s) \/ CountCoupons(s) \/ CountUnresolved(s) \/ EvaluateTotals(s)
    \/ ScheduleCleanup(s) \/ Complete(s)

SettlerFault(s) == EvaluationFails(s) \/ CompleteFails(s) \/ Abandon(s)

SettlementNext ==
    \/ PipelineStep
    \/ ActivityEnds \/ ResyncActivity \/ ActivityHashExpires \/ ClaimsExpire
    \/ \E c \in Claim : ConfirmEvidence(c) \/ Repair(c)
    \/ \E c \in Claim, code \in FailureCode : Resolve(c, code)
    \/ CreatePending \/ LeaseExpires
    \/ \E s \in Settler : SettlerStep(s) \/ SettlerFault(s)

SettlementSpec == SettlementInit /\ [][SettlementNext]_settlementVars

--------------------------------------------------------------------------------
\* Properties

\* The evidence is given up only when nobody needs it: from the moment some of it is
\* scheduled to expire early, recorded as settled or not, every claim Lua ever granted
\* is a coupon.
CleanupLosesNothing == cleanup => granted \subseteq userCoupon

\* What the books were closed on stays true: after a consistent settlement no message,
\* check-back or repair under way at the time issues another coupon, although its totals
\* were read one after the other.
SettledTotalsStand ==
    settlement.status = "CONSISTENT" =>
        /\ settlement.coupons = Cardinality(userCoupon)
        /\ settlement.remaining = remaining

====
