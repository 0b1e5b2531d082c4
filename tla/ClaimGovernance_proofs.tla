---- MODULE ClaimGovernance_proofs ----
\* Proofs about ClaimGovernance for every set of failures, claims and scanners, every
\* stock, every limit of attempts and every number of faults.
EXTENDS ClaimGovernance, FiniteSetTheorems, TLAPS

--------------------------------------------------------------------------------
\* The invariant

\* What holds of the work w of a scanner, when the rows are r and the coupons issued
\* are those of the claims in coupons. Its copy of the attempts is never ahead of the
\* row; a repair that got its lease is counted in the row; what it has concluded from
\* user_coupon stays true, because nothing deletes from that table.
Sane(w, r, coupons) ==
    w # Idle =>
        /\ w.seen \in ReconcileStatus \cup RepairStatus
        /\ w.attempts <= r[w.failure].attempts
        /\ w.stage # "candidate" /\ w.seen \in RepairStatus
               => w.attempts + 1 <= r[w.failure].attempts
        /\ w.stage \in Persisting => w.seen \in RepairStatus
        /\ w.stage = "verify" => ClaimOf[w.failure] \in coupons
        /\ w.stage = "decided" =>
               /\ w.target = "RESOLVED" => ClaimOf[w.failure] \in coupons
               /\ w.code = "REPAIR_ATTEMPTS_EXHAUSTED" =>
                      w.seen \in RepairStatus /\ w.attempts + 1 >= MaxRepairAttempts

WorkInv == \A s \in Scanner : Sane(work[s], row, userCoupon)

Inv == TypeOK /\ WorkInv /\ ResolvedMeansIssued /\ ExhaustionIsEarned

--------------------------------------------------------------------------------
\* Helpers

Stages == {"candidate", "race"} \cup Reading \cup Persisting

Undecided == [stage : Stages, failure : Failure, seen : Status, attempts : Nat]
Decided == [stage : {"decided"}, failure : Failure, seen : Status, attempts : Nat,
            target : Status, code : ResolutionCode]

LEMMA Works ==
    /\ Work = {Idle} \cup Undecided \cup Decided
    /\ "decided" \notin Stages /\ "idle" \notin Stages /\ Idle.stage = "idle"
BY DEF Work, Undecided, Decided, Idle, Stages, Reading, Persisting

LEMMA WorkFields ==
    ASSUME NEW w \in Work, w # Idle
    PROVE  /\ w.failure \in Failure /\ w.seen \in Status /\ w.attempts \in Nat
           /\ w.stage \in Stages \cup {"decided"}
           /\ w.stage = "decided" => w.target \in Status /\ w.code \in ResolutionCode
BY Works DEF Undecided, Decided

LEMMA StageIdle ==
    ASSUME NEW w \in Work
    PROVE  w.stage = "idle" <=> w = Idle
BY Works, WorkFields

LEMMA Moved ==
    ASSUME NEW w \in Work, w.stage \in Stages, NEW stage \in Stages
    PROVE  /\ [w EXCEPT !.stage = stage] \in Work
           /\ [w EXCEPT !.stage = stage].stage = stage
           /\ [w EXCEPT !.stage = stage].failure = w.failure
           /\ [w EXCEPT !.stage = stage].seen = w.seen
           /\ [w EXCEPT !.stage = stage].attempts = w.attempts
           /\ [w EXCEPT !.stage = stage] # Idle
<1>1. w \in Undecided
  BY Works DEF Decided
<1>2. /\ [w EXCEPT !.stage = stage] \in Undecided
      /\ [w EXCEPT !.stage = stage].stage = stage
      /\ [w EXCEPT !.stage = stage].failure = w.failure
      /\ [w EXCEPT !.stage = stage].seen = w.seen
      /\ [w EXCEPT !.stage = stage].attempts = w.attempts
  BY <1>1 DEF Undecided
<1> QED
  BY <1>2, Works

\* A scanner that changes its own work to something sane leaves all work sane.
LEMMA OneScanner ==
    ASSUME Inv, NEW s \in Scanner, NEW w \in Work, work' = [work EXCEPT ![s] = w],
           Sane(w, row', userCoupon'),
           row' \in [Failure -> Row], userCoupon \subseteq userCoupon',
           \A f \in Failure : row'[f].attempts >= row[f].attempts
    PROVE  work' \in [Scanner -> Work] /\ WorkInv'
<1>1. work' \in [Scanner -> Work]
  BY DEF Inv, TypeOK
<1>2. ASSUME NEW t \in Scanner
      PROVE  Sane(work'[t], row', userCoupon')
  <2>1. CASE t = s
    BY <2>1 DEF Inv, TypeOK
  <2>2. CASE t # s
    <3>1. work'[t] = work[t] /\ work[t] \in Work /\ Sane(work[t], row, userCoupon)
      BY <2>2 DEF Inv, TypeOK, WorkInv
    <3>2. ASSUME work[t] # Idle
          PROVE  /\ work[t].failure \in Failure /\ work[t].attempts \in Nat
                 /\ row[work[t].failure].attempts \in Nat
                 /\ row'[work[t].failure].attempts \in Nat
                 /\ row'[work[t].failure].attempts >= row[work[t].failure].attempts
      BY <3>1, <3>2, WorkFields DEF Inv, TypeOK, Row
    <3> QED
      BY <3>1, <3>2 DEF Sane
  <2> QED
    BY <2>1, <2>2
<1> QED
  BY <1>1, <1>2 DEF WorkInv

\* No scanner moves: the rows may only count up, and the coupons only grow.
LEMMA NoScannerMoves ==
    ASSUME Inv, UNCHANGED work,
           row' \in [Failure -> Row], userCoupon \subseteq userCoupon',
           \A f \in Failure : row'[f].attempts >= row[f].attempts
    PROVE  work' \in [Scanner -> Work] /\ WorkInv'
<1>1. ASSUME NEW t \in Scanner
      PROVE  Sane(work[t], row', userCoupon')
  <2>1. work[t] \in Work /\ Sane(work[t], row, userCoupon)
    BY DEF Inv, TypeOK, WorkInv
  <2>2. ASSUME work[t] # Idle
        PROVE  /\ work[t].failure \in Failure /\ work[t].attempts \in Nat
               /\ row[work[t].failure].attempts \in Nat
               /\ row'[work[t].failure].attempts \in Nat
               /\ row'[work[t].failure].attempts >= row[work[t].failure].attempts
    BY <2>1, <2>2, WorkFields DEF Inv, TypeOK, Row
  <2> QED
    BY <2>1, <2>2 DEF Sane
<1> QED
  BY <1>1 DEF WorkInv, Inv, TypeOK

\* A scanner past its lease moves on to another stage, or comes to a decision.
Busy(s) == work[s].stage \in Stages \ {"candidate"}

LEMMA MoveStep ==
    ASSUME Inv, NEW s \in Scanner, Busy(s), NEW stage \in Stages \ {"candidate"},
           MoveTo(s, stage), UNCHANGED row, userCoupon \subseteq userCoupon',
           stage \in Persisting => Repairing(s),
           stage = "verify" => TheClaim(s) \in userCoupon'
    PROVE  work' \in [Scanner -> Work] /\ WorkInv'
<1> DEFINE w == [work[s] EXCEPT !.stage = stage]
<1>1. work[s] \in Work /\ work[s].stage \in Stages /\ Sane(work[s], row, userCoupon)
  BY DEF Inv, TypeOK, WorkInv, Busy
<1>2. /\ w \in Work /\ w # Idle /\ w.stage = stage /\ w.failure = work[s].failure
      /\ w.seen = work[s].seen /\ w.attempts = work[s].attempts
  BY <1>1, Moved
<1>3. work' = [work EXCEPT ![s] = w]
  BY DEF MoveTo, Inv, TypeOK
<1>4. work[s] # Idle /\ work[s].stage # "candidate" /\ stage # "decided"
  BY Works DEF Busy
<1> HIDE DEF w
<1>5. Sane(w, row', userCoupon')
  BY <1>1, <1>2, <1>4 DEF Sane, TheClaim, Repairing, Seen
<1>6. row' \in [Failure -> Row] /\ \A f \in Failure : row'[f].attempts >= row[f].attempts
  BY DEF Inv, TypeOK, Row
<1> QED
  BY <1>2, <1>3, <1>5, <1>6, OneScanner

LEMMA DecideStep ==
    ASSUME Inv, NEW s \in Scanner, Busy(s), NEW target \in Status, NEW code \in ResolutionCode,
           Decide(s, target, code), UNCHANGED row, userCoupon \subseteq userCoupon',
           target = "RESOLVED" => TheClaim(s) \in userCoupon',
           code = "REPAIR_ATTEMPTS_EXHAUSTED" =>
               Repairing(s) /\ work[s].attempts + 1 >= MaxRepairAttempts
    PROVE  work' \in [Scanner -> Work] /\ WorkInv'
<1> DEFINE w == [stage |-> "decided", failure |-> work[s].failure, seen |-> work[s].seen,
                 attempts |-> work[s].attempts, target |-> target, code |-> code]
<1>1. /\ work[s] \in Work /\ Sane(work[s], row, userCoupon)
      /\ work[s] # Idle /\ work[s].stage # "candidate"
  BY Works DEF Inv, TypeOK, WorkInv, Busy
<1>2. work[s].failure \in Failure /\ work[s].seen \in Status /\ work[s].attempts \in Nat
  BY <1>1, WorkFields
<1>3. w \in Work
  BY <1>2, Works DEF Decided
<1>4. work' = [work EXCEPT ![s] = w]
  BY DEF Decide, Seen
<1>5. Sane(w, row', userCoupon')
  BY <1>1 DEF Sane, TheClaim, Repairing, Seen, Persisting
<1>6. row' \in [Failure -> Row] /\ \A f \in Failure : row'[f].attempts >= row[f].attempts
  BY DEF Inv, TypeOK, Row
<1> QED
  BY <1>3, <1>4, <1>5, <1>6, OneScanner

LEMMA IdleStep ==
    ASSUME Inv, NEW s \in Scanner, work' = [work EXCEPT ![s] = Idle],
           row' \in [Failure -> Row], userCoupon \subseteq userCoupon',
           \A f \in Failure : row'[f].attempts >= row[f].attempts
    PROVE  work' \in [Scanner -> Work] /\ WorkInv'
<1>1. Idle \in Work /\ Sane(Idle, row', userCoupon')
  BY Works DEF Sane
<1> QED
  BY <1>1, OneScanner

\* Rows that stay as they are remain justified by what stays issued.
LEMMA RowsKept ==
    ASSUME Inv, UNCHANGED row, userCoupon \subseteq userCoupon'
    PROVE  (ResolvedMeansIssued /\ ExhaustionIsEarned)'
BY DEF Inv, ResolvedMeansIssued, ExhaustionIsEarned

\* The transaction of persist() issues a coupon of a user who had none.
LEMMA IssueCouponType ==
    ASSUME TypeOK, NEW c \in Claim, IssueCoupon(c)
    PROVE  /\ remaining' \in Nat /\ remaining' = remaining - 1
           /\ userCoupon' = userCoupon \cup {c} /\ userCoupon' \subseteq Claim
BY DEF IssueCoupon, TypeOK

Surroundings == UNCHANGED <<redis, overdue>> /\ faults' \in 0..MaxFaults

LEMMA FaultType == ASSUME TypeOK, Fault PROVE faults' \in 0..MaxFaults
BY LimitAssumption DEF Fault, TypeOK

--------------------------------------------------------------------------------
\* The steps around the two tasks

LEMMA RecordFailureInv ==
    ASSUME Inv, NEW f \in Failure, RecordFailure(f)
    PROVE  Inv'
<1>1. UNCHANGED <<remaining, userCoupon, redisClaims, redisUsers, overdue, work, faults>>
  BY DEF RecordFailure, mysql, redis
<1>2. /\ row' \in [Failure -> Row]
      /\ \A g \in Failure : row'[g].attempts = row[g].attempts /\ row'[g].code = row[g].code
      /\ \A g \in Failure : row'[g].status \in {row[g].status} \cup Origin
  <2>1. row \in [Failure -> Row] /\ Origin \subseteq Status
    BY DEF Inv, TypeOK, Status
  <2>2. CASE row[f].status = "absent"
    <3>1. PICK origin \in Origin, readable \in BOOLEAN :
             row' = [row EXCEPT ![f].status = origin, ![f].origin = origin,
                                ![f].readable = readable]
      BY <2>2 DEF RecordFailure
    <3>2. DEFINE r == [row[f] EXCEPT !.status = origin, !.origin = origin,
                                     !.readable = readable]
    <3>3. r \in Row /\ r.attempts = row[f].attempts /\ r.code = row[f].code
          /\ r.status = origin
      BY <2>1 DEF Row
    <3>4. row' = [row EXCEPT ![f] = r]
      BY <3>1
    <3> HIDE DEF r
    <3> QED
      BY <2>1, <3>3, <3>4
  <2>3. CASE row[f].status # "absent"
    <3>1. PICK status \in {row[f].status} \cup Origin :
             row' = [row EXCEPT ![f].status = status]
      BY <2>1, <2>3 DEF RecordFailure, Row
    <3> QED
      BY <2>1, <3>1 DEF Row
  <2> QED
    BY <2>2, <2>3
<1>3. work' \in [Scanner -> Work] /\ WorkInv'
  <2>1. \A g \in Failure : row'[g].attempts >= row[g].attempts
    BY <1>2 DEF Inv, TypeOK, Row
  <2> QED
    BY <1>1, <1>2, <2>1, NoScannerMoves
<1>4. (ResolvedMeansIssued /\ ExhaustionIsEarned)'
  BY <1>1, <1>2 DEF Inv, ResolvedMeansIssued, ExhaustionIsEarned, Origin
<1> QED
  BY <1>1, <1>2, <1>3, <1>4 DEF Inv, TypeOK

LEMMA LeaseExpiresInv ==
    ASSUME Inv, NEW f \in Failure, LeaseExpires(f)
    PROVE  Inv'
<1>1. UNCHANGED <<remaining, userCoupon, redisClaims, redisUsers, overdue, work>>
      /\ faults' \in 0..MaxFaults
  BY FaultType DEF LeaseExpires, mysql, redis, Inv, TypeOK
<1>2. /\ row' \in [Failure -> Row]
      /\ \A g \in Failure : /\ row'[g].attempts = row[g].attempts
                            /\ row'[g].code = row[g].code /\ row'[g].status = row[g].status
  BY DEF LeaseExpires, Inv, TypeOK, Row
<1>3. work' \in [Scanner -> Work] /\ WorkInv'
  <2>1. \A g \in Failure : row'[g].attempts >= row[g].attempts
    BY <1>2 DEF Inv, TypeOK, Row
  <2> QED
    BY <1>1, <1>2, <2>1, NoScannerMoves
<1>4. (ResolvedMeansIssued /\ ExhaustionIsEarned)'
  BY <1>1, <1>2 DEF Inv, ResolvedMeansIssued, ExhaustionIsEarned
<1> QED
  BY <1>1, <1>2, <1>3, <1>4 DEF Inv, TypeOK

\* A late copy of a claim, a failover of Redis and the clock leave rows and work alone.
LEMMA SurroundingsInv ==
    ASSUME Inv,
           \/ \E f \in Failure : TimePasses(f)
           \/ \E c \in Claim : LateConsumption(c) \/ Failover(c)
    PROVE  Inv'
<1>1. UNCHANGED <<row, work>>
  BY DEF TimePasses, LateConsumption, Failover
<1> DEFINE Typed ==
             /\ overdue' \subseteq Failure /\ redisClaims' \subseteq Claim
             /\ redisUsers' \subseteq User /\ faults' \in 0..MaxFaults
             /\ remaining' \in Nat /\ userCoupon' \subseteq Claim
             /\ userCoupon \subseteq userCoupon'
<1>2. Typed
  <2>1. CASE \E f \in Failure : TimePasses(f)
    BY <2>1 DEF TimePasses, mysql, redis, Inv, TypeOK
  <2>2. ASSUME NEW c \in Claim, LateConsumption(c)
        PROVE  Typed
    BY <2>2, IssueCouponType DEF LateConsumption, redis, Inv, TypeOK
  <2>3. ASSUME NEW c \in Claim, Failover(c)
        PROVE  Typed
    BY <2>3, FaultType DEF Failover, mysql, Inv, TypeOK
  <2> QED
    BY <2>1, <2>2, <2>3
<1>3. row' \in [Failure -> Row] /\ \A g \in Failure : row'[g].attempts >= row[g].attempts
  BY <1>1 DEF Inv, TypeOK, Row
<1>4. work' \in [Scanner -> Work] /\ WorkInv'
  BY <1>1, <1>2, <1>3, NoScannerMoves
<1>5. (ResolvedMeansIssued /\ ExhaustionIsEarned)'
  BY <1>1, <1>2, RowsKept
<1> QED
  BY <1>2, <1>3, <1>4, <1>5 DEF Inv, TypeOK

--------------------------------------------------------------------------------
\* The steps of a scanner

ScannerTypes == /\ row' \in [Failure -> Row] /\ faults' \in 0..MaxFaults
                /\ remaining' \in Nat /\ userCoupon' \subseteq Claim
                /\ UNCHANGED <<redisClaims, redisUsers, overdue>>

LEMMA ByParts ==
    ASSUME Inv, ScannerTypes, work' \in [Scanner -> Work], WorkInv',
           (ResolvedMeansIssued /\ ExhaustionIsEarned)'
    PROVE  Inv'
BY DEF ScannerTypes, Inv, TypeOK

LEMMA StageBusy ==
    ASSUME Inv, NEW s \in Scanner,
           work[s].stage \in Reading \cup Persisting \cup {"race"}
    PROVE  /\ Busy(s) /\ work[s] \in Work /\ work[s] # Idle
           /\ work[s].failure \in Failure /\ TheClaim(s) \in Claim
           /\ work[s].attempts \in Nat
<1>1. work[s] \in Work /\ Busy(s) /\ work[s] # Idle
  BY Works DEF Inv, TypeOK, Busy, Stages, Reading, Persisting
<1> QED
  BY <1>1, WorkFields, IdentityAssumption DEF TheClaim

LEMMA PersistingRepairs ==
    ASSUME Inv, NEW s \in Scanner, work[s].stage \in Persisting
    PROVE  Repairing(s)
<1>1. Sane(work[s], row, userCoupon) /\ work[s] # Idle
  BY StageBusy DEF Inv, WorkInv
<1> QED
  BY <1>1 DEF Sane, Repairing, Seen

LEMMA ListInv ==
    ASSUME Inv, NEW s \in Scanner, NEW f \in Failure, ListCandidate(s, f)
    PROVE  Inv'
<1> DEFINE w == [stage |-> "candidate", failure |-> f, seen |-> row[f].status,
                 attempts |-> row[f].attempts]
<1>1. row[f].status \in Status /\ row[f].attempts \in Nat
  BY DEF Inv, TypeOK, Row
<1>2. w \in Work
  BY <1>1, Works DEF Undecided, Stages
<1>3. Sane(w, row', userCoupon') /\ userCoupon' = userCoupon
  BY <1>1 DEF ListCandidate, Sane, mysql, Persisting
<1>4. work' = [work EXCEPT ![s] = w] /\ UNCHANGED row
  BY DEF ListCandidate
<1>5. ScannerTypes
  BY DEF ScannerTypes, ListCandidate, mysql, redis, Inv, TypeOK
<1>6. \A g \in Failure : row'[g].attempts >= row[g].attempts
  BY <1>4 DEF Inv, TypeOK, Row
<1>7. work' \in [Scanner -> Work] /\ WorkInv'
  BY <1>2, <1>3, <1>4, <1>5, <1>6, OneScanner DEF ScannerTypes
<1>8. (ResolvedMeansIssued /\ ExhaustionIsEarned)'
  BY <1>3, <1>4, RowsKept
<1> QED
  BY <1>5, <1>7, <1>8, ByParts

\* A lease that is granted counts the attempt of a repair.
LEMMA GrantRows ==
    ASSUME Inv, NEW s \in Scanner, At(s, "candidate"), Grant(s, work[s].failure),
           Grantable(s, work[s].failure), UNCHANGED userCoupon
    PROVE  /\ work[s] \in Work /\ work[s] # Idle /\ work[s].failure \in Failure
           /\ row' \in [Failure -> Row]
           /\ \A g \in Failure : row'[g].attempts >= row[g].attempts
           /\ Repairing(s) => row'[work[s].failure].attempts
                                  = row[work[s].failure].attempts + 1
           /\ (ResolvedMeansIssued /\ ExhaustionIsEarned)'
<1> DEFINE f == work[s].failure
<1>1. work[s] \in Work /\ work[s] # Idle /\ f \in Failure
  BY Works, WorkFields DEF Inv, TypeOK, At
<1>2. row \in [Failure -> Row]
  BY DEF Inv, TypeOK
<1>3. PICK status \in {"REPAIRING", "PROCESSING"}, n \in {row[f].attempts, row[f].attempts + 1} :
        /\ row' = [row EXCEPT ![f].status = status, ![f].attempts = n, ![f].token = s,
                              ![f].expired = FALSE]
        /\ Repairing(s) => n = row[f].attempts + 1
  BY DEF Grant
<1>4. status \in Status /\ s \in Scanner \cup {NoScanner}
  BY DEF Status, Kept
<1> HIDE DEF f
<1>5. row[f].attempts \in Nat /\ n \in Nat /\ n >= row[f].attempts
  BY <1>1, <1>2 DEF Row, f
<1>6. /\ row' \in [Failure -> Row]
      /\ row'[f].attempts = n /\ row'[f].status = status /\ row'[f].code = row[f].code
      /\ \A g \in Failure \ {f} : row'[g] = row[g]
  <2> DEFINE r == [row[f] EXCEPT !.status = status, !.attempts = n, !.token = s,
                                 !.expired = FALSE]
  <2>1. row[f] \in Row
    BY <1>1, <1>2 DEF f
  <2>2. r \in Row /\ r.attempts = n /\ r.status = status /\ r.code = row[f].code
    BY <1>4, <1>5, <2>1 DEF Row
  <2>3. row' = [row EXCEPT ![f] = r]
    BY <1>3
  <2> HIDE DEF r
  <2> QED
    BY <1>1, <1>2, <2>2, <2>3 DEF f
<1>7. \A g \in Failure : row'[g].attempts >= row[g].attempts
  BY <1>2, <1>5, <1>6 DEF Row
<1>8. (ResolvedMeansIssued /\ ExhaustionIsEarned)'
  <2>1. ResolvedMeansIssued'
    BY <1>6 DEF Inv, ResolvedMeansIssued
  <2>2. \A g \in Failure : row'[g].code = row[g].code /\ row[g].attempts \in Nat
                           /\ row'[g].attempts \in Nat
    BY <1>2, <1>6 DEF Row
  <2>3. ExhaustionIsEarned'
    BY <1>7, <2>2, LimitAssumption DEF Inv, ExhaustionIsEarned
  <2> QED
    BY <2>1, <2>3
<1> QED
  BY <1>1, <1>3, <1>6, <1>7, <1>8 DEF f

LEMMA TryClaimInv ==
    ASSUME Inv, NEW s \in Scanner, TryClaim(s) \/ TryClaimFails(s)
    PROVE  Inv'
<1>1. /\ At(s, "candidate") /\ faults' \in 0..MaxFaults
      /\ UNCHANGED <<remaining, userCoupon, redisClaims, redisUsers, overdue>>
  BY FaultType DEF TryClaim, TryClaimFails, mysql, redis, Inv, TypeOK
<1>2. \/ Grantable(s, work[s].failure) /\ Grant(s, work[s].failure)
      \/ UNCHANGED row
  BY DEF TryClaim, TryClaimFails
<1>3. /\ row' \in [Failure -> Row]
      /\ \A g \in Failure : row'[g].attempts >= row[g].attempts
      /\ (ResolvedMeansIssued /\ ExhaustionIsEarned)'
  <2>1. CASE UNCHANGED row
    BY <1>1, <2>1, RowsKept DEF Inv, TypeOK, Row
  <2> QED
    BY <1>1, <1>2, <2>1, GrantRows
<1>4. work' \in [Scanner -> Work] /\ WorkInv'
  <2>1. CASE work' = [work EXCEPT ![s] = Idle]
    BY <1>1, <1>3, <2>1, IdleStep
  <2>2. CASE /\ Grantable(s, work[s].failure) /\ Grant(s, work[s].failure)
             /\ work' = [work EXCEPT ![s].stage = "owned"]
    <3> DEFINE w == [work[s] EXCEPT !.stage = "owned"]
    <3>1. /\ work[s] \in Work /\ work[s] # Idle /\ work[s].failure \in Failure
          /\ Repairing(s) => row'[work[s].failure].attempts
                                 = row[work[s].failure].attempts + 1
      BY <1>1, <2>2, GrantRows
    <3>2. /\ w \in Work /\ w # Idle /\ w.stage = "owned" /\ w.failure = work[s].failure
          /\ w.seen = work[s].seen /\ w.attempts = work[s].attempts
      BY <1>1, <3>1, Moved DEF At, Stages, Reading
    <3>3. work' = [work EXCEPT ![s] = w]
      BY <2>2 DEF Inv, TypeOK
    <3>4. /\ Sane(work[s], row, userCoupon) /\ work[s].attempts \in Nat
          /\ row[work[s].failure].attempts \in Nat /\ row'[work[s].failure].attempts \in Nat
          /\ row'[work[s].failure].attempts >= row[work[s].failure].attempts
      BY <1>3, <3>1, WorkFields DEF Inv, WorkInv, TypeOK, Row
    <3> HIDE DEF w
    <3>5. Sane(w, row', userCoupon')
      BY <3>1, <3>2, <3>4 DEF Sane, Repairing, Seen, Persisting
    <3> QED
      BY <1>1, <1>3, <3>2, <3>3, <3>5, OneScanner
  <2> QED
    BY <2>1, <2>2 DEF TryClaim, TryClaimFails
<1>5. ScannerTypes
  BY <1>1, <1>3 DEF ScannerTypes, Inv, TypeOK
<1> QED
  BY <1>3, <1>4, <1>5, ByParts

\* A step that reads, or that throws: rows and coupons stay, the scanner moves or decides.
LooksAt(s) ==
    /\ work[s].stage \in Reading \cup Persisting \cup {"race"}
    /\ UNCHANGED <<row, remaining, userCoupon, redisClaims, redisUsers, overdue>>
    /\ faults' \in 0..MaxFaults

Reads(s) ==
    /\ LooksAt(s)
    /\ \/ \E stage \in Stages \ {"candidate"} :
             /\ MoveTo(s, stage)
             /\ stage \in Persisting => Repairing(s)
             /\ stage = "verify" => TheClaim(s) \in userCoupon
       \/ \E target \in Status, code \in ResolutionCode :
             /\ Decide(s, target, code)
             /\ target = "RESOLVED" => TheClaim(s) \in userCoupon
             /\ code = "REPAIR_ATTEMPTS_EXHAUSTED" =>
                    Repairing(s) /\ work[s].attempts + 1 >= MaxRepairAttempts

NextStages == {"unpersisted", "ready", "claim found", "claim missing", "persist", "write",
               "verify", "race"}
Targets == {"RESOLVED", "MANUAL_REQUIRED", "REPAIR_PENDING", "RECHECK_PENDING"}
Codes == {"ALREADY_PERSISTED", "USER_COUPON_CONFLICT", "REDIS_EVIDENCE_CONFIRMED",
          "REDIS_EVIDENCE_CONFLICT", "EVIDENCE_TEMPORARILY_MISSING",
          "RECONCILIATION_READ_FAILURE", "MESSAGE_BODY_INVALID", "FORWARD_REPAIR_SUCCESS",
          "REPAIR_BUSINESS_CONFLICT", "REPAIR_TRANSIENT_FAILURE"}

LEMMA ReadsMove ==
    ASSUME NEW s, LooksAt(s), NEW stage \in NextStages, MoveTo(s, stage),
           stage \in Persisting => Repairing(s),
           stage = "verify" => TheClaim(s) \in userCoupon
    PROVE  Reads(s)
<1>1. stage \in Stages \ {"candidate"}
  BY DEF NextStages, Stages, Reading, Persisting
<1> QED
  BY <1>1 DEF Reads

LEMMA ReadsDecide ==
    ASSUME NEW s, LooksAt(s), NEW target \in Targets, NEW code \in Codes,
           Decide(s, target, code), target = "RESOLVED" => TheClaim(s) \in userCoupon
    PROVE  Reads(s)
<1>1. target \in Status /\ code \in ResolutionCode /\ code # "REPAIR_ATTEMPTS_EXHAUSTED"
  BY DEF Targets, Codes, Status, Kept, Concluded, ResolutionCode
<1> QED
  BY <1>1 DEF Reads

LEMMA ReadsGiveUp ==
    ASSUME NEW s, LooksAt(s), RetryOrGiveUp(s), Repairing(s)
    PROVE  Reads(s)
<1>1. CASE work[s].attempts + 1 >= MaxRepairAttempts
  <2>1. Decide(s, "MANUAL_REQUIRED", "REPAIR_ATTEMPTS_EXHAUSTED")
    BY <1>1 DEF RetryOrGiveUp
  <2>2. "MANUAL_REQUIRED" \in Status /\ "REPAIR_ATTEMPTS_EXHAUSTED" \in ResolutionCode
    BY DEF Status, Kept, Concluded, ResolutionCode
  <2> QED
    BY <1>1, <2>1, <2>2 DEF Reads
<1>2. CASE ~(work[s].attempts + 1 >= MaxRepairAttempts)
  <2>1. Decide(s, "REPAIR_PENDING", "REPAIR_TRANSIENT_FAILURE")
    BY <1>2 DEF RetryOrGiveUp
  <2>2. "REPAIR_PENDING" \in Targets /\ "REPAIR_TRANSIENT_FAILURE" \in Codes
    BY DEF Targets, Codes
  <2> QED
    BY <2>1, <2>2, ReadsDecide
<1> QED
  BY <1>1, <1>2

LEMMA ReadsInv ==
    ASSUME Inv, NEW s \in Scanner, Reads(s)
    PROVE  Inv'
<1>1. Busy(s) /\ UNCHANGED <<row, userCoupon>>
  BY StageBusy DEF Reads, LooksAt
<1>2. work' \in [Scanner -> Work] /\ WorkInv'
  <2>1. ASSUME NEW stage \in Stages \ {"candidate"}, MoveTo(s, stage),
               stage \in Persisting => Repairing(s),
               stage = "verify" => TheClaim(s) \in userCoupon
        PROVE  work' \in [Scanner -> Work] /\ WorkInv'
    BY <1>1, <2>1, MoveStep
  <2>2. ASSUME NEW target \in Status, NEW code \in ResolutionCode, Decide(s, target, code),
               target = "RESOLVED" => TheClaim(s) \in userCoupon,
               code = "REPAIR_ATTEMPTS_EXHAUSTED" =>
                   Repairing(s) /\ work[s].attempts + 1 >= MaxRepairAttempts
        PROVE  work' \in [Scanner -> Work] /\ WorkInv'
    BY <1>1, <2>2, DecideStep
  <2> QED
    BY <2>1, <2>2 DEF Reads
<1>3. ScannerTypes
  BY DEF Reads, LooksAt, ScannerTypes, Inv, TypeOK
<1>4. (ResolvedMeansIssued /\ ExhaustionIsEarned)'
  BY <1>1, RowsKept
<1> QED
  BY <1>2, <1>3, <1>4, ByParts

LEMMA ScannerReads ==
    ASSUME Inv, NEW s \in Scanner,
           \/ ReadByClaimId(s) \/ ReadByUser(s) \/ ReadClaimOwner(s)
           \/ EvaluateEvidence(s) \/ ValidateEvidence(s)
           \/ PersistRead(s) \/ VerifyPersisted(s) \/ ResolveDuplicateRace(s)
    PROVE  Reads(s)
<1> USE DEF NextStages, Targets, Codes, Persisting
<1>1. LooksAt(s)
  BY DEF LooksAt, ReadByClaimId, ReadByUser, ReadClaimOwner, EvaluateEvidence,
         ValidateEvidence, PersistRead, VerifyPersisted, ResolveDuplicateRace, mysql, redis,
         Inv, TypeOK, At, Reading, Persisting
<1>2. CASE ReadByClaimId(s)
  BY <1>1, <1>2, ReadsMove, ReadsDecide DEF ReadByClaimId
<1>3. CASE ReadByUser(s)
  BY <1>1, <1>3, ReadsMove, ReadsDecide DEF ReadByUser
<1>4. CASE ReadClaimOwner(s)
  BY <1>1, <1>4, ReadsMove DEF ReadClaimOwner
<1>5. CASE EvaluateEvidence(s)
  BY <1>1, <1>5, ReadsDecide DEF EvaluateEvidence
<1>6. CASE ValidateEvidence(s)
  BY <1>1, <1>6, ReadsMove, ReadsDecide DEF ValidateEvidence
<1>7. CASE PersistRead(s)
  BY <1>1, <1>7, ReadsMove, ReadsDecide, PersistingRepairs DEF PersistRead, At
<1>8. CASE VerifyPersisted(s)
  <2>1. Sane(work[s], row, userCoupon) /\ work[s].stage = "verify" /\ work[s] # Idle
    BY <1>1, <1>8, StageBusy DEF LooksAt, Inv, WorkInv, VerifyPersisted, At
  <2>2. TheClaim(s) \in userCoupon
    BY <2>1 DEF Sane, TheClaim
  <2> QED
    BY <1>1, <1>8, <2>2, ReadsDecide DEF VerifyPersisted
<1>9. CASE ResolveDuplicateRace(s)
  BY <1>1, <1>9, ReadsDecide DEF ResolveDuplicateRace
<1> QED
  BY <1>2, <1>3, <1>4, <1>5, <1>6, <1>7, <1>8, <1>9

LEMMA StatementFailsReads ==
    ASSUME Inv, NEW s \in Scanner, StatementFails(s)
    PROVE  Reads(s)
<1> USE DEF Targets, Codes
<1>1. LooksAt(s)
  BY FaultType DEF LooksAt, StatementFails, mysql, redis, Inv
<1>2. CASE ~Repairing(s) /\ Decide(s, "RECHECK_PENDING", "RECONCILIATION_READ_FAILURE")
  BY <1>1, <1>2, ReadsDecide
<1>3. CASE Repairing(s) /\ RetryOrGiveUp(s)
  BY <1>1, <1>3, ReadsGiveUp
<1>4. CASE Repairing(s) /\ Decide(s, "MANUAL_REQUIRED", "REPAIR_BUSINESS_CONFLICT")
  BY <1>1, <1>4, ReadsDecide
<1> QED
  BY <1>2, <1>3, <1>4 DEF StatementFails

\* A write of persist() with its reply: the coupon is issued, or nothing is written.
LEMMA PersistWriteInv ==
    ASSUME Inv, NEW s \in Scanner, PersistWrite(s)
    PROVE  Inv'
<1> USE DEF NextStages, Targets, Codes, Persisting
<1>0. Repairing(s)
  BY PersistingRepairs DEF PersistWrite, At
<1>1. /\ UNCHANGED <<row, redisClaims, redisUsers, overdue, faults>>
      /\ work[s].stage \in Reading \cup Persisting \cup {"race"}
  BY DEF PersistWrite, redis, At, Persisting
<1>2. CASE IssueCoupon(TheClaim(s)) /\ MoveTo(s, "verify")
  <2>1. /\ Busy(s) /\ TheClaim(s) \in Claim
        /\ remaining' \in Nat /\ userCoupon' = userCoupon \cup {TheClaim(s)}
        /\ userCoupon' \subseteq Claim
    BY <1>1, <1>2, StageBusy, IssueCouponType DEF Inv
  <2>2. "verify" \in Stages \ {"candidate"}
    BY DEF Stages, Persisting
  <2>3. work' \in [Scanner -> Work] /\ WorkInv'
    BY <1>0, <1>1, <1>2, <2>1, <2>2, MoveStep
  <2>4. ScannerTypes
    BY <1>1, <2>1 DEF ScannerTypes, Inv, TypeOK
  <2> QED
    BY <1>1, <2>1, <2>3, <2>4, RowsKept, ByParts
<1>3. CASE UNCHANGED mysql
  <2>1. LooksAt(s)
    BY <1>1, <1>3 DEF LooksAt, mysql, Inv, TypeOK
  <2>2. ~IssueCoupon(TheClaim(s))
    BY <1>3 DEF IssueCoupon, mysql, Inv, TypeOK
  <2>3. \/ Decide(s, "MANUAL_REQUIRED", "REPAIR_BUSINESS_CONFLICT")
        \/ MoveTo(s, "race")
    BY <2>2 DEF PersistWrite
  <2>4. Reads(s)
    BY <2>1, <2>3, ReadsMove, ReadsDecide
  <2> QED
    BY <2>4, ReadsInv
<1> QED
  BY <1>2, <1>3 DEF PersistWrite

\* The reply of the commit is lost: the coupon is issued, and the repair tries again or
\* gives up.
LEMMA CommitReplyLostInv ==
    ASSUME Inv, NEW s \in Scanner, CommitReplyLost(s)
    PROVE  Inv'
<1>1. /\ UNCHANGED <<row, redisClaims, redisUsers, overdue>> /\ faults' \in 0..MaxFaults
      /\ work[s].stage \in Persisting
  BY FaultType DEF CommitReplyLost, redis, At, Persisting, Inv
<1>2. /\ Busy(s) /\ Repairing(s) /\ TheClaim(s) \in Claim
      /\ remaining' \in Nat /\ userCoupon' = userCoupon \cup {TheClaim(s)}
      /\ userCoupon' \subseteq Claim
  BY <1>1, StageBusy, PersistingRepairs, IssueCouponType DEF CommitReplyLost, Inv
<1>3. PICK target \in {"MANUAL_REQUIRED", "REPAIR_PENDING"},
           code \in {"REPAIR_ATTEMPTS_EXHAUSTED", "REPAIR_TRANSIENT_FAILURE"} :
        /\ Decide(s, target, code)
        /\ code = "REPAIR_ATTEMPTS_EXHAUSTED" => work[s].attempts + 1 >= MaxRepairAttempts
  BY DEF CommitReplyLost, RetryOrGiveUp
<1>4. target \in Status /\ code \in ResolutionCode /\ target # "RESOLVED"
  BY DEF Status, Kept, Concluded, ResolutionCode
<1>5. work' \in [Scanner -> Work] /\ WorkInv'
  BY <1>1, <1>2, <1>3, <1>4, DecideStep
<1>6. ScannerTypes
  BY <1>1, <1>2 DEF ScannerTypes, Inv, TypeOK
<1> QED
  BY <1>1, <1>2, <1>5, <1>6, RowsKept, ByParts

LEMMA AbandonInv ==
    ASSUME Inv, NEW s \in Scanner, Abandon(s)
    PROVE  Inv'
<1>1. /\ UNCHANGED <<row, remaining, userCoupon, redisClaims, redisUsers, overdue>>
      /\ faults' \in 0..MaxFaults /\ work' = [work EXCEPT ![s] = Idle]
  BY FaultType DEF Abandon, mysql, redis, Inv
<1>2. row' \in [Failure -> Row] /\ \A g \in Failure : row'[g].attempts >= row[g].attempts
  BY <1>1 DEF Inv, TypeOK, Row
<1>3. work' \in [Scanner -> Work] /\ WorkInv'
  BY <1>1, <1>2, IdleStep
<1>4. ScannerTypes
  BY <1>1 DEF ScannerTypes, Inv, TypeOK
<1> QED
  BY <1>1, <1>3, <1>4, RowsKept, ByParts

\* What is written into the row was true when it was decided, and is still.
LEMMA CompleteInv ==
    ASSUME Inv, NEW s \in Scanner, Complete(s) \/ CompleteFails(s)
    PROVE  Inv'
<1>1. /\ UNCHANGED <<remaining, userCoupon, redisClaims, redisUsers, overdue>>
      /\ faults' \in 0..MaxFaults /\ work' = [work EXCEPT ![s] = Idle]
      /\ work[s].stage = "decided" /\ (UNCHANGED row \/ Conclude(s))
  BY FaultType DEF Complete, CompleteFails, mysql, redis, Inv, TypeOK, At
<1>2. row' \in [Failure -> Row] /\ (\A g \in Failure : row'[g].attempts >= row[g].attempts)
      /\ (ResolvedMeansIssued /\ ExhaustionIsEarned)'
  <2>1. CASE UNCHANGED row
    BY <1>1, <2>1, RowsKept DEF Inv, TypeOK, Row
  <2>2. CASE Conclude(s)
    <3> DEFINE w == work[s]
               f == work[s].failure
    <3>1. w \in Work /\ w # Idle /\ Sane(w, row, userCoupon)
      BY <1>1, Works DEF Inv, TypeOK, WorkInv
    <3>2. /\ f \in Failure /\ w.target \in Status /\ w.code \in ResolutionCode
          /\ w.attempts \in Nat
      BY <1>1, <3>1, WorkFields
    <3>3. row \in [Failure -> Row] /\ row[f].attempts \in Nat
      BY <3>2 DEF Inv, TypeOK, Row
    <3>4. /\ w.target = "RESOLVED" => ClaimOf[f] \in userCoupon
          /\ w.code = "REPAIR_ATTEMPTS_EXHAUSTED" => row[f].attempts >= MaxRepairAttempts
      BY <1>1, <3>1, <3>2, <3>3, LimitAssumption DEF Sane, Stages
    <3>5. PICK target \in Status, code \in ResolutionCode :
            /\ target = w.target /\ code = w.code
            /\ row' = [row EXCEPT ![f].status = target, ![f].code = code,
                                  ![f].token = NoScanner, ![f].expired = FALSE]
      BY <2>2, <3>2 DEF Conclude
    <3> HIDE DEF w, f
    <3>6. /\ row' \in [Failure -> Row] /\ row'[f].attempts = row[f].attempts
          /\ row'[f].status = w.target /\ row'[f].code = w.code
          /\ \A g \in Failure \ {f} : row'[g] = row[g]
      <4> DEFINE r == [row[f] EXCEPT !.status = target, !.code = code,
                                     !.token = NoScanner, !.expired = FALSE]
      <4>1. f \in Failure /\ row[f] \in Row /\ NoScanner \in Scanner \cup {NoScanner}
        BY <3>2, <3>3
      <4>2. r \in Row /\ r.attempts = row[f].attempts /\ r.status = target
            /\ r.code = code
        BY <4>1 DEF Row
      <4>3. row' = [row EXCEPT ![f] = r]
        BY <3>5
      <4> HIDE DEF r
      <4>4. row' \in [Failure -> Row]
        BY <3>3, <4>2, <4>3
      <4>5. row'[f] = r /\ \A g \in Failure \ {f} : row'[g] = row[g]
        BY <3>3, <4>1, <4>3
      <4> QED
        BY <3>5, <4>2, <4>4, <4>5
    <3>7. \A g \in Failure : row'[g].attempts >= row[g].attempts
      BY <3>3, <3>6 DEF Row
    <3>8. ResolvedMeansIssued'
      BY <1>1, <3>4, <3>6 DEF Inv, ResolvedMeansIssued
    <3>9. ExhaustionIsEarned'
      BY <3>4, <3>6 DEF Inv, ExhaustionIsEarned
    <3> QED
      BY <3>6, <3>7, <3>8, <3>9
  <2> QED
    BY <1>1, <2>1, <2>2
<1>3. work' \in [Scanner -> Work] /\ WorkInv'
  BY <1>1, <1>2, IdleStep
<1>4. ScannerTypes
  BY <1>1, <1>2 DEF ScannerTypes, Inv, TypeOK
<1> QED
  BY <1>2, <1>3, <1>4, ByParts

--------------------------------------------------------------------------------
\* The theorems

LEMMA InitInv == Init => Inv
<1> SUFFICES ASSUME Init PROVE Inv
  OBVIOUS
<1>1. Absent \in Row
  BY DEF Absent, Row, Status, Origin, ResolutionCode
<1>2. TypeOK
  BY <1>1, Works, IdentityAssumption, LimitAssumption DEF Init, TypeOK, Holders
<1>3. WorkInv
  BY DEF Init, WorkInv, Sane
<1>4. ResolvedMeansIssued /\ ExhaustionIsEarned
  BY DEF Init, Absent, ResolvedMeansIssued, ExhaustionIsEarned
<1> QED
  BY <1>2, <1>3, <1>4 DEF Inv

LEMMA Invariance == Inv /\ [Next]_vars => Inv'
<1> SUFFICES ASSUME Inv, [Next]_vars PROVE Inv'
  OBVIOUS
<1>1. CASE UNCHANGED vars
  BY <1>1 DEF vars, mysql, redis, Inv, TypeOK, WorkInv, ResolvedMeansIssued,
              ExhaustionIsEarned
<1>2. ASSUME NEW f \in Failure,
             \/ RecordFailure(f) \/ TimePasses(f) \/ LeaseExpires(f)
             \/ \E s \in Scanner : ListCandidate(s, f)
      PROVE  Inv'
  BY <1>2, RecordFailureInv, SurroundingsInv, LeaseExpiresInv, ListInv
<1>3. CASE \E c \in Claim : LateConsumption(c) \/ Failover(c)
  BY <1>3, SurroundingsInv
<1>4. ASSUME NEW s \in Scanner, ScannerStep(s)
      PROVE  Inv'
  BY <1>4, TryClaimInv, ScannerReads, ReadsInv, PersistWriteInv, CompleteInv
     DEF ScannerStep
<1>5. ASSUME NEW s \in Scanner, ScannerFault(s)
      PROVE  Inv'
  BY <1>5, TryClaimInv, StatementFailsReads, ReadsInv, CommitReplyLostInv, AbandonInv,
     CompleteInv DEF ScannerFault
<1> QED
  BY <1>1, <1>2, <1>3, <1>4, <1>5 DEF Next

LEMMA Invariant == Spec => []Inv
<1>1. Init => Inv
  BY InitInv
<1>2. Inv /\ [Next]_vars => Inv'
  BY Invariance
<1> QED
  BY <1>1, <1>2, PTL DEF Spec

\* The rows, the stock, the evidence and the work of the scanners keep their types.
THEOREM TypeCorrect == Spec => []TypeOK
<1>1. Inv => TypeOK
  BY DEF Inv
<1> QED
  BY <1>1, Invariant, PTL

\* However many replicas work on the rows, whatever crashes and whoever consumes a late
\* copy meanwhile: a row that is resolved has its own coupon.
THEOREM ResolvedCorrect == Spec => []ResolvedMeansIssued
<1>1. Inv => ResolvedMeansIssued
  BY DEF Inv
<1> QED
  BY <1>1, Invariant, PTL

\* A row given up for exhaustion has been tried as often as configured, although the
\* scanners count from old copies.
THEOREM ExhaustionCorrect == Spec => []ExhaustionIsEarned
<1>1. Inv => ExhaustionIsEarned
  BY DEF Inv
<1> QED
  BY <1>1, Invariant, PTL

\* A row that is concluded is not written: governance takes only rows in other states,
\* and concludes only those whose lease it holds.
LEMMA ConcludedKept ==
    ASSUME Inv, [Next]_vars, NEW f \in Failure, row[f].status \in Concluded
    PROVE  row'[f] = row[f]
<1>1. row \in [Failure -> Row] /\ row[f] \in Row
  BY DEF Inv, TypeOK
<1>2. row[f].status \notin Origin \cup Leased \cup ReconcileStatus \cup RepairStatus \cup {"absent"}
      /\ row[f].status \in Kept
  BY DEF Concluded, Origin, Leased, ReconcileStatus, RepairStatus, Kept
<1>3. ASSUME NEW g \in Failure, RecordFailure(g)
      PROVE  row'[f] = row[f]
  <2>1. CASE g = f
    <3>1. row' = [row EXCEPT ![f].status = row[f].status]
      BY <1>1, <1>2, <1>3, <2>1 DEF RecordFailure
    <3> QED
      BY <1>1, <3>1 DEF Row
  <2>2. CASE g # f
    BY <1>1, <1>3, <2>2 DEF RecordFailure
  <2> QED
    BY <2>1, <2>2
<1>4. ASSUME NEW g \in Failure, LeaseExpires(g)
      PROVE  row'[f] = row[f]
  BY <1>1, <1>2, <1>4 DEF LeaseExpires
<1>5. ASSUME NEW s \in Scanner, TryClaim(s) \/ TryClaimFails(s)
      PROVE  row'[f] = row[f]
  <2>1. UNCHANGED row \/ (Grantable(s, work[s].failure) /\ Grant(s, work[s].failure))
    BY <1>5 DEF TryClaim, TryClaimFails
  <2>2. work[s].seen \in ReconcileStatus \cup RepairStatus
    <3>1. work[s].stage = "candidate" /\ work[s] \in Work /\ Sane(work[s], row, userCoupon)
      BY <1>5 DEF TryClaim, TryClaimFails, At, Inv, TypeOK, WorkInv
    <3> QED
      BY <3>1, Works DEF Sane
  <2>3. CASE Grantable(s, work[s].failure) /\ Grant(s, work[s].failure)
    <3>1. work[s].failure # f
      BY <1>2, <2>2, <2>3 DEF Grantable, Seen
    <3> QED
      BY <1>1, <2>3, <3>1 DEF Grant
  <2> QED
    BY <2>1, <2>3
<1>6. ASSUME NEW s \in Scanner, Complete(s) \/ CompleteFails(s)
      PROVE  row'[f] = row[f]
  <2>1. UNCHANGED row \/ (HoldsLease(s) /\ Conclude(s))
    BY <1>6 DEF Complete, CompleteFails
  <2>2. CASE HoldsLease(s) /\ Conclude(s)
    <3>1. work[s].failure # f
      BY <1>2, <2>2 DEF HoldsLease, Leased
    <3> QED
      BY <1>1, <2>2, <3>1 DEF Conclude
  <2> QED
    BY <2>1, <2>2
<1>7. CASE UNCHANGED row
  BY <1>7
<1>8. ASSUME NEW s \in Scanner,
             \/ ReadByClaimId(s) \/ ReadByUser(s) \/ ReadClaimOwner(s)
             \/ EvaluateEvidence(s) \/ ValidateEvidence(s) \/ PersistRead(s)
             \/ PersistWrite(s) \/ VerifyPersisted(s) \/ ResolveDuplicateRace(s)
             \/ StatementFails(s) \/ CommitReplyLost(s) \/ Abandon(s)
      PROVE  UNCHANGED row
  BY <1>8 DEF ReadByClaimId, ReadByUser, ReadClaimOwner, EvaluateEvidence,
              ValidateEvidence, PersistRead, PersistWrite, VerifyPersisted,
              ResolveDuplicateRace, StatementFails, CommitReplyLost, Abandon
<1>9. CASE \/ UNCHANGED vars
           \/ \E c \in Claim : LateConsumption(c) \/ Failover(c)
           \/ \E g \in Failure : TimePasses(g) \/ \E s \in Scanner : ListCandidate(s, g)
  BY <1>9 DEF vars, LateConsumption, Failover, TimePasses, ListCandidate
<1>10. ASSUME NEW s \in Scanner, ScannerStep(s) \/ ScannerFault(s)
       PROVE  row'[f] = row[f]
  BY <1>5, <1>6, <1>8, <1>10 DEF ScannerStep, ScannerFault
<1> QED
  BY <1>3, <1>4, <1>9, <1>10 DEF Next

\* Neither a redelivered failure nor a scanner with an old copy or an old token reopens
\* or changes what was concluded.
THEOREM ConclusionCorrect == Spec => ConclusionStands
<1> DEFINE Stands == \A f \in Failure : row[f].status \in Concluded => row'[f] = row[f]
<1>1. Inv /\ [Next]_vars => [Stands]_vars
  BY ConcludedKept
<1> QED
  BY <1>1, Invariant, PTL DEF Spec, ConclusionStands

--------------------------------------------------------------------------------
\* The coupons

StockConserved == remaining + Cardinality(userCoupon) = TotalStock

LEMMA CouponsFinite ==
    ASSUME TypeOK
    PROVE  IsFiniteSet(userCoupon) /\ Cardinality(userCoupon) \in Nat
BY FS_Subset, FS_CardinalityType, FailureAssumption DEF TypeOK

LEMMA MySQLSteps ==
    ASSUME Inv, [Next]_vars
    PROVE  UNCHANGED mysql \/ \E c \in Claim : IssueCoupon(c)
<1>1. ASSUME NEW s \in Scanner, PersistWrite(s) \/ CommitReplyLost(s)
      PROVE  UNCHANGED mysql \/ \E c \in Claim : IssueCoupon(c)
  <2>1. TheClaim(s) \in Claim
    BY <1>1, StageBusy DEF PersistWrite, CommitReplyLost, At, Persisting
  <2> QED
    BY <1>1, <2>1 DEF PersistWrite, CommitReplyLost
<1>2. ASSUME NEW s \in Scanner, ScannerStep(s) \/ ScannerFault(s)
      PROVE  UNCHANGED mysql \/ \E c \in Claim : IssueCoupon(c)
  BY <1>1, <1>2
     DEF ScannerStep, ScannerFault, TryClaim, TryClaimFails, ReadByClaimId, ReadByUser,
         ReadClaimOwner, EvaluateEvidence, ValidateEvidence, PersistRead, VerifyPersisted,
         ResolveDuplicateRace, StatementFails, Abandon, Complete, CompleteFails
<1>3. CASE \E c \in Claim : LateConsumption(c) \/ Failover(c)
  BY <1>3 DEF LateConsumption, Failover
<1>4. CASE \/ UNCHANGED vars
           \/ \E f \in Failure : \/ RecordFailure(f) \/ TimePasses(f) \/ LeaseExpires(f)
                                 \/ \E s \in Scanner : ListCandidate(s, f)
  BY <1>4 DEF vars, RecordFailure, TimePasses, LeaseExpires, ListCandidate
<1> QED
  BY <1>2, <1>3, <1>4 DEF Next

LEMMA IssueStep ==
    ASSUME TypeOK, StockConserved, NEW c \in Claim, IssueCoupon(c)
    PROVE  Issue!Issue(c) /\ StockConserved'
<1>1. /\ c \notin userCoupon /\ Owner[c] \notin Issue!Holders(userCoupon)
      /\ userCoupon' = userCoupon \cup {c}
  BY DEF IssueCoupon, Holders, Issue!Holders
<1>2. /\ remaining \in Nat /\ remaining > 0 /\ remaining' = remaining - 1
      /\ Cardinality(userCoupon) \in Nat /\ TotalStock \in Nat
  BY CouponsFinite, LimitAssumption DEF IssueCoupon, TypeOK
<1>3. Cardinality(userCoupon \cup {c}) = Cardinality(userCoupon) + 1
  BY <1>1, CouponsFinite, FS_AddElement
<1>4. Cardinality(userCoupon) < TotalStock
  BY <1>2 DEF StockConserved
<1>5. Issue!Cardinality(userCoupon) < TotalStock
  BY <1>4 DEF Issue!Cardinality, Cardinality
<1>6. StockConserved'
  BY <1>1, <1>2, <1>3 DEF StockConserved
<1> QED
  BY <1>1, <1>5, <1>6 DEF Issue!Issue

\* The repairs of any number of replicas and the late consumers together implement the
\* abstract issue of coupons: one by one, one per user, within the stock.
THEOREM ImplementsIssue == Spec => IssueSpec
<1>1. Init => StockConserved /\ Issue!Init
  BY FS_EmptySet, LimitAssumption DEF Init, StockConserved, Issue!Init
<1>2. Inv /\ StockConserved /\ [Next]_vars => StockConserved' /\ [Issue!Next]_userCoupon
  <2> SUFFICES ASSUME Inv, StockConserved, [Next]_vars
               PROVE  StockConserved' /\ [Issue!Next]_userCoupon
    OBVIOUS
  <2>1. CASE UNCHANGED mysql
    BY <2>1 DEF mysql, StockConserved
  <2>2. ASSUME NEW c \in Claim, IssueCoupon(c)
        PROVE  StockConserved' /\ [Issue!Next]_userCoupon
    BY <2>2, IssueStep DEF Inv, Issue!Next
  <2> QED
    BY <2>1, <2>2, MySQLSteps
<1> QED
  BY <1>1, <1>2, Invariant, PTL DEF Spec, IssueSpec, Issue!Spec

--------------------------------------------------------------------------------
\* What a user conflict does say

\* The user of a claim judged USER_COUPON_CONFLICT holds the coupon, in what a scanner
\* is about to write as in what is written; whether through that very claim or through
\* another, the two reads of the scanner cannot tell.
UserHolds(f) == Owner[ClaimOf[f]] \in Holders(userCoupon)
Judged(s, code) == At(s, "decided") /\ work[s].code = code
ConflictInv ==
    /\ \A s \in Scanner : Judged(s, "USER_COUPON_CONFLICT") => UserHolds(work[s].failure)
    /\ \A f \in Failure : row[f].code = "USER_COUPON_CONFLICT" => UserHolds(f)

LEMMA JudgedByDecide ==
    ASSUME Inv, NEW s \in Scanner, NEW t \in Scanner, NEW target, NEW code,
           Decide(t, target, code), code # "USER_COUPON_CONFLICT",
           Judged(s, "USER_COUPON_CONFLICT")'
    PROVE  work'[s] = work[s]
BY DEF Decide, Judged, At, Inv, TypeOK

LEMMA JudgedByMove ==
    ASSUME Inv, NEW s \in Scanner, NEW t \in Scanner, NEW stage \in Stages,
           MoveTo(t, stage), work[t].stage \in Stages,
           Judged(s, "USER_COUPON_CONFLICT")'
    PROVE  work'[s] = work[s]
<1>1. CASE s = t
  <2>1. work[s] \in Work /\ work' = [work EXCEPT ![s] = [work[s] EXCEPT !.stage = stage]]
    BY <1>1 DEF MoveTo, Inv, TypeOK
  <2>2. work'[s] = [work[s] EXCEPT !.stage = stage]
    BY <2>1 DEF Inv, TypeOK
  <2>3. work'[s].stage = stage
    <3>1. work[s].stage \in Stages
      BY <1>1
    <3>2. [work[s] EXCEPT !.stage = stage].stage = stage
      BY <2>1, <3>1, Moved
    <3> QED
      BY <2>2, <3>2
  <2> QED
    BY <2>3, Works DEF Judged, At
<1>2. CASE s # t
  BY <1>2 DEF MoveTo, Inv, TypeOK
<1> QED
  BY <1>1, <1>2

LEMMA JudgedByIdle ==
    ASSUME Inv, NEW s \in Scanner, NEW t \in Scanner, work' = [work EXCEPT ![t] = Idle],
           Judged(s, "USER_COUPON_CONFLICT")'
    PROVE  work'[s] = work[s]
BY DEF Judged, At, Idle, Inv, TypeOK

\* Only the look at the user's coupons comes to that judgement.
LEMMA JudgedStep ==
    ASSUME Inv, [Next]_vars, NEW s \in Scanner, Judged(s, "USER_COUPON_CONFLICT")'
    PROVE  \/ work'[s] = work[s]
           \/ work'[s].failure = work[s].failure /\ UserHolds(work[s].failure)
<1> DEFINE Goal == \/ work'[s] = work[s]
                   \/ work'[s].failure = work[s].failure /\ UserHolds(work[s].failure)
<1>1. ASSUME NEW t \in Scanner, ReadByUser(t)
      PROVE  Goal
  <2>1. work[t].stage \in Stages /\ "ready" \in Stages
    BY <1>1 DEF ReadByUser, At, Stages, Reading
  <2>2. CASE MoveTo(t, "ready")
    BY <2>1, <2>2, JudgedByMove
  <2>3. CASE Decide(t, "MANUAL_REQUIRED", "MESSAGE_BODY_INVALID")
    BY <2>3, JudgedByDecide
  <2>4. CASE /\ Owner[TheClaim(t)] \in Holders(userCoupon)
             /\ Decide(t, "MANUAL_REQUIRED", "USER_COUPON_CONFLICT")
    <3>1. CASE s = t
      BY <2>4, <3>1 DEF Decide, UserHolds, TheClaim, Inv, TypeOK
    <3>2. CASE s # t
      BY <2>4, <3>2 DEF Decide, Inv, TypeOK
    <3> QED
      BY <3>1, <3>2
  <2> QED
    BY <1>1, <2>2, <2>3, <2>4 DEF ReadByUser
<1>2. ASSUME NEW t \in Scanner,
             \/ ReadByClaimId(t) \/ ReadClaimOwner(t) \/ ValidateEvidence(t)
             \/ PersistRead(t) \/ PersistWrite(t)
      PROVE  Goal
  <2>1. work[t].stage \in Stages
    BY <1>2 DEF ReadByClaimId, ReadClaimOwner, ValidateEvidence, PersistRead, PersistWrite,
                At, Stages, Reading, Persisting
  <2>2. \/ \E stage \in Stages : MoveTo(t, stage)
        \/ \E code \in {"ALREADY_PERSISTED", "REDIS_EVIDENCE_CONFLICT",
                         "REPAIR_BUSINESS_CONFLICT"} :
             \E target \in {"RESOLVED", "MANUAL_REQUIRED"} : Decide(t, target, code)
    BY <1>2 DEF ReadByClaimId, ReadClaimOwner, ValidateEvidence, PersistRead, PersistWrite,
                Stages, Reading, Persisting
  <2> QED
    BY <2>1, <2>2, JudgedByMove, JudgedByDecide
<1>3. ASSUME NEW t \in Scanner,
             \/ EvaluateEvidence(t) \/ VerifyPersisted(t) \/ ResolveDuplicateRace(t)
             \/ StatementFails(t) \/ CommitReplyLost(t)
      PROVE  Goal
  <2>1. \E code \in ResolutionCode \ {"USER_COUPON_CONFLICT"}, target \in Status :
            Decide(t, target, code)
    BY <1>3 DEF EvaluateEvidence, VerifyPersisted, ResolveDuplicateRace, StatementFails,
                CommitReplyLost, RetryOrGiveUp, ResolutionCode, Status, Kept, Concluded
  <2> QED
    BY <2>1, JudgedByDecide
<1>4. ASSUME NEW t \in Scanner, TryClaim(t) \/ TryClaimFails(t)
      PROVE  Goal
  <2>1. work[t].stage \in Stages /\ "owned" \in Stages
    BY <1>4 DEF TryClaim, TryClaimFails, At, Stages, Reading
  <2>2. MoveTo(t, "owned") \/ work' = [work EXCEPT ![t] = Idle]
    BY <1>4 DEF TryClaim, TryClaimFails, MoveTo
  <2> QED
    BY <2>1, <2>2, JudgedByMove, JudgedByIdle
<1>5. ASSUME NEW t \in Scanner, Complete(t) \/ CompleteFails(t) \/ Abandon(t)
      PROVE  Goal
  BY <1>5, JudgedByIdle DEF Complete, CompleteFails, Abandon
<1>6. ASSUME NEW t \in Scanner, NEW f \in Failure, ListCandidate(t, f)
      PROVE  Goal
  BY <1>6 DEF ListCandidate, Judged, At, Inv, TypeOK
<1>7. CASE \/ UNCHANGED vars
           \/ \E c \in Claim : LateConsumption(c) \/ Failover(c)
           \/ \E f \in Failure : RecordFailure(f) \/ TimePasses(f) \/ LeaseExpires(f)
  BY <1>7 DEF vars, LateConsumption, Failover, RecordFailure, TimePasses, LeaseExpires
<1> QED
  BY <1>1, <1>2, <1>3, <1>4, <1>5, <1>6, <1>7 DEF Next, ScannerStep, ScannerFault

\* A row gets its code from a decision.
LEMMA CodeStep ==
    ASSUME Inv, [Next]_vars, NEW f \in Failure, row'[f].code # row[f].code
    PROVE  \E s \in Scanner : /\ Judged(s, row'[f].code) /\ work[s].failure = f
<1>1. row \in [Failure -> Row] /\ row[f] \in Row
  BY DEF Inv, TypeOK
<1>2. ASSUME NEW g \in Failure, RecordFailure(g) \/ LeaseExpires(g)
      PROVE  FALSE
  <2>1. CASE RecordFailure(g) /\ row[g].status = "absent"
    <3>1. PICK origin \in Origin, readable \in BOOLEAN :
             row' = [row EXCEPT ![g].status = origin, ![g].origin = origin,
                                ![g].readable = readable]
      BY <2>1 DEF RecordFailure
    <3> QED
      BY <1>1, <3>1 DEF Row
  <2>2. CASE RecordFailure(g) /\ row[g].status # "absent"
    <3>1. \E status : row' = [row EXCEPT ![g].status = status]
      BY <1>1, <2>2 DEF RecordFailure
    <3> QED
      BY <1>1, <3>1 DEF Row
  <2>3. CASE LeaseExpires(g)
    BY <1>1, <2>3 DEF LeaseExpires, Row
  <2> QED
    BY <1>2, <2>1, <2>2, <2>3
<1>3. ASSUME NEW s \in Scanner, Grant(s, work[s].failure)
      PROVE  FALSE
  BY <1>1, <1>3 DEF Grant, Row
<1>4. ASSUME NEW s \in Scanner, Complete(s) \/ CompleteFails(s)
      PROVE  Judged(s, row'[f].code) /\ work[s].failure = f
  <2>1. At(s, "decided") /\ Conclude(s)
    BY <1>4 DEF Complete, CompleteFails
  <2>2. work[s].failure = f
    BY <1>1, <2>1 DEF Conclude
  <2>3. row'[f].code = work[s].code
    BY <1>1, <2>1, <2>2 DEF Conclude, Row
  <2> QED
    BY <2>1, <2>2, <2>3 DEF Judged
<1>5. ASSUME NEW s \in Scanner, TryClaim(s) \/ TryClaimFails(s)
      PROVE  FALSE
  BY <1>3, <1>5 DEF TryClaim, TryClaimFails
<1>6. ASSUME NEW s \in Scanner,
             \/ ReadByClaimId(s) \/ ReadByUser(s) \/ ReadClaimOwner(s)
             \/ EvaluateEvidence(s) \/ ValidateEvidence(s) \/ PersistRead(s)
             \/ PersistWrite(s) \/ VerifyPersisted(s) \/ ResolveDuplicateRace(s)
             \/ StatementFails(s) \/ CommitReplyLost(s) \/ Abandon(s)
      PROVE  FALSE
  BY <1>6 DEF ReadByClaimId, ReadByUser, ReadClaimOwner, EvaluateEvidence,
              ValidateEvidence, PersistRead, PersistWrite, VerifyPersisted,
              ResolveDuplicateRace, StatementFails, CommitReplyLost, Abandon
<1>7. ~ \/ UNCHANGED vars
        \/ \E c \in Claim : LateConsumption(c) \/ Failover(c)
        \/ \E g \in Failure : TimePasses(g) \/ \E s \in Scanner : ListCandidate(s, g)
  BY DEF vars, LateConsumption, Failover, TimePasses, ListCandidate
<1>8. ASSUME NEW s \in Scanner, ScannerStep(s) \/ ScannerFault(s)
      PROVE  Judged(s, row'[f].code) /\ work[s].failure = f
  BY <1>4, <1>5, <1>6, <1>8 DEF ScannerStep, ScannerFault
<1> QED
  BY <1>2, <1>7, <1>8 DEF Next

LEMMA ConflictStep ==
    ASSUME Inv, ConflictInv, [Next]_vars
    PROVE  ConflictInv'
<1>1. \A f \in Failure : UserHolds(f) => UserHolds(f)'
  BY MySQLSteps DEF UserHolds, Holders, IssueCoupon, mysql
<1>2. ASSUME NEW s \in Scanner, Judged(s, "USER_COUPON_CONFLICT")'
      PROVE  UserHolds(work[s].failure)'
  <2>1. Inv' /\ work'[s] \in Work
    BY Invariance DEF Inv, TypeOK
  <2>2. work'[s].failure \in Failure
    BY <1>2, <2>1, WorkFields, Works DEF Judged, At
  <2>3. UserHolds(work'[s].failure)
    <3>1. CASE work'[s] = work[s]
      BY <1>2, <3>1 DEF ConflictInv, Judged, At
    <3>2. CASE work'[s].failure = work[s].failure /\ UserHolds(work[s].failure)
      BY <3>2
    <3> QED
      BY <1>2, <3>1, <3>2, JudgedStep
  <2>4. \A f \in Failure : UserHolds(f) => Owner[ClaimOf[f]] \in Holders(userCoupon)'
    BY <1>1 DEF UserHolds
  <2>5. Owner[ClaimOf[work'[s].failure]] \in Holders(userCoupon)'
    BY <2>2, <2>3, <2>4
  <2> QED
    BY <2>5 DEF UserHolds
<1>3. ASSUME NEW f \in Failure, row'[f].code = "USER_COUPON_CONFLICT"
      PROVE  UserHolds(f)'
  <2>1. CASE row'[f].code = row[f].code
    BY <1>1, <1>3, <2>1 DEF ConflictInv
  <2>2. CASE row'[f].code # row[f].code
    <3>1. PICK s \in Scanner : Judged(s, "USER_COUPON_CONFLICT") /\ work[s].failure = f
      BY <1>3, <2>2, CodeStep
    <3> QED
      BY <1>1, <3>1 DEF ConflictInv
  <2> QED
    BY <2>1, <2>2
<1> QED
  BY <1>2, <1>3 DEF ConflictInv

\* The true part of what the code is named for: a row closed as USER_COUPON_CONFLICT is
\* about a user who has the coupon.
THEOREM ConflictMeansHolder ==
    Spec => [](\A f \in Failure : row[f].code = "USER_COUPON_CONFLICT" =>
                   Owner[ClaimOf[f]] \in Holders(userCoupon))
<1>1. Init => ConflictInv
  BY DEF Init, ConflictInv, Judged, At, Idle, Absent
<1>2. Inv /\ ConflictInv /\ [Next]_vars => ConflictInv'
  BY ConflictStep
<1>3. ConflictInv => \A f \in Failure : row[f].code = "USER_COUPON_CONFLICT" =>
                         Owner[ClaimOf[f]] \in Holders(userCoupon)
  BY DEF ConflictInv, UserHolds
<1> QED
  BY <1>1, <1>2, <1>3, Invariant, PTL DEF Spec
====
