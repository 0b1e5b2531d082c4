---- MODULE CircuitBreaker ----
\* The circuit of one dependency of the agent, shared by all request threads of a
\* replica: ReliabilityController guards it with a lock, but a call takes the lock
\* once to be admitted and once more, much later, to report how it ended.
EXTENDS Naturals, FiniteSets

CONSTANTS
    Caller,            \* request threads inside run_with_retry
    FailureThreshold,  \* ResilienceConfig.circuit_failure_threshold
    HalfOpenAttempts,  \* circuit_half_open_attempts
    BulkheadLimit,     \* bulkhead_default_limit or bulkhead_provider_limit
    MaxAttempts,       \* max_retries + 1
    ProviderLimited,   \* provider_rate_limit: TRUE for the language model only
    MaxFailures        \* bound: failed calls and rate-limited ones in a behaviour

ASSUME CallerAssumption == IsFiniteSet(Caller)
ASSUME PolicyAssumption ==
    /\ {FailureThreshold, HalfOpenAttempts, BulkheadLimit, MaxAttempts} \subseteq Nat \ {0}
    /\ MaxFailures \in Nat
    /\ ProviderLimited \in BOOLEAN

VARIABLES
    circuit,   \* _CircuitRecord; "cooled" is circuit_recovery_seconds after opened_at
    call,      \* where each thread is in run_with_retry
    failures   \* how many calls have gone wrong

vars == <<circuit, call, failures>>

\* Retryable: replay-safe. Permanent: any other exception, of a write above all.
\* Unknown: a write whose commit was not confirmed.
Outcome == {"succeeded", "retryable", "permanent", "unknown"}
Permitted == {"entered", "admitted", "calling"}
Idle == [stage |-> "idle", attempt |-> 1, probe |-> FALSE]

Circuit == [state : {"closed", "open", "half_open"}, failure_count : Nat,
            half_open_in_flight : 0..HalfOpenAttempts, cooled : BOOLEAN]
Stage == {"idle", "waiting", "reporting"} \cup Permitted \cup Outcome
Call == [stage : Stage, attempt : 1..MaxAttempts,
         probe : BOOLEAN]  \* admitted while half open

TypeOK ==
    /\ circuit \in Circuit
    /\ call \in [Caller -> Call]
    /\ failures \in 0..MaxFailures

Init ==
    /\ circuit = [state |-> "closed", failure_count |-> 0, half_open_in_flight |-> 0,
                  cooled |-> FALSE]
    /\ call = [c \in Caller |-> Idle]
    /\ failures = 0

At(c, stage) == call[c].stage = stage
MoveTo(c, stage) == call' = [call EXCEPT ![c].stage = stage]
Leave(c) == call' = [call EXCEPT ![c] = Idle]
Failing == failures < MaxFailures /\ failures' = failures + 1

--------------------------------------------------------------------------------
\* One attempt

Start(c) ==
    /\ At(c, "idle")
    /\ MoveTo(c, "waiting")
    /\ UNCHANGED <<circuit, failures>>

\* A full bulkhead rejects at once, and a rejection is not retried.
EnterBulkhead(c) ==
    /\ At(c, "waiting")
    /\ IF Cardinality({d \in Caller : call[d].stage \in Permitted}) < BulkheadLimit
       THEN MoveTo(c, "entered")
       ELSE Leave(c)
    /\ UNCHANGED <<circuit, failures>>

Refuses ==
    \/ circuit.state = "open" /\ ~circuit.cooled
    \/ /\ circuit.state = "half_open"
       /\ circuit.half_open_in_flight >= HalfOpenAttempts

\* The first call after the recovery time turns the circuit half open.
BeforeCall(c) ==
    /\ At(c, "entered")
    /\ \/ Refuses /\ Leave(c) /\ UNCHANGED circuit
       \/ /\ circuit.state = "closed"
          /\ MoveTo(c, "admitted")
          /\ UNCHANGED circuit
       \/ /\ circuit.state # "closed" /\ ~Refuses
          /\ circuit' = [circuit EXCEPT
                           !.state = "half_open",
                           !.half_open_in_flight = IF circuit.state = "open" THEN 1 ELSE @ + 1]
          /\ call' = [call EXCEPT ![c].stage = "admitted", ![c].probe = TRUE]
    /\ UNCHANGED failures

\* Faulty variant: the reservation of a call that is not made is kept.
RateLimitedWithoutCancel(c) ==
    /\ ProviderLimited
    /\ Failing
    /\ At(c, "admitted")
    /\ Leave(c)
    /\ UNCHANGED circuit

\* The provider's rate limit stops the call, which gives its reservation back.
RateLimited(c) ==
    /\ ProviderLimited
    /\ Failing
    /\ At(c, "admitted")
    /\ circuit' = [circuit EXCEPT !.half_open_in_flight = IF @ > 0 THEN @ - 1 ELSE @]
    /\ Leave(c)

Operate(c) ==
    /\ At(c, "admitted")
    /\ MoveTo(c, "calling")
    /\ UNCHANGED <<circuit, failures>>

Return(c) ==
    /\ At(c, "calling")
    /\ MoveTo(c, "succeeded")
    /\ UNCHANGED <<circuit, failures>>

Raise(c) ==
    /\ Failing
    /\ At(c, "calling")
    /\ \E outcome \in Outcome \ {"succeeded"} : MoveTo(c, outcome)
    /\ UNCHANGED circuit

--------------------------------------------------------------------------------
\* What the attempt reports, after it has left the bulkhead

\* Faulty variant: a success closes the circuit and keeps the count.
RecordSuccessKeepingCount(c) ==
    /\ At(c, "succeeded")
    /\ circuit' = [circuit EXCEPT !.state = "closed", !.half_open_in_flight = 0]
    /\ Leave(c)
    /\ UNCHANGED failures

RecordSuccess(c) ==
    /\ At(c, "succeeded")
    /\ circuit' = [circuit EXCEPT !.state = "closed", !.failure_count = 0,
                                  !.half_open_in_flight = 0]
    /\ Leave(c)
    /\ UNCHANGED failures

\* Faulty variant: a permanent failure is never reported.
SkipPermanentFailure(c) ==
    /\ At(c, "permanent")
    /\ Leave(c)
    /\ UNCHANGED <<circuit, failures>>

\* A permanent failure concerns the circuit only while it is half open.
InspectPermanentFailure(c) ==
    /\ At(c, "permanent")
    /\ IF circuit.state = "half_open" THEN MoveTo(c, "reporting") ELSE Leave(c)
    /\ UNCHANGED <<circuit, failures>>

OpenCircuit(count) ==
    circuit' = [circuit EXCEPT !.state = "open", !.failure_count = count,
                               !.half_open_in_flight = 0, !.cooled = FALSE]

\* A failure while half open opens the circuit again and is not counted.
CountFailure ==
    LET count == circuit.failure_count + 1 IN
    \/ circuit.state = "half_open" /\ OpenCircuit(circuit.failure_count)
    \/ /\ circuit.state # "half_open" /\ count >= FailureThreshold
       /\ OpenCircuit(count)
    \/ /\ circuit.state # "half_open" /\ count < FailureThreshold
       /\ circuit' = [circuit EXCEPT !.failure_count = count]

\* The retry budget and the deadline may end the sequence at any attempt.
RecordFailure(c) ==
    /\ call[c].stage \in {"retryable", "unknown", "reporting"}
    /\ CountFailure
    /\ \/ Leave(c)
       \/ /\ At(c, "retryable") /\ call[c].attempt < MaxAttempts
          /\ call' = [call EXCEPT ![c] = [stage |-> "waiting", attempt |-> @.attempt + 1,
                                          probe |-> FALSE]]
    /\ UNCHANGED failures

RecoveryElapses ==
    /\ circuit.state = "open" /\ ~circuit.cooled
    /\ circuit' = [circuit EXCEPT !.cooled = TRUE]
    /\ UNCHANGED <<call, failures>>

--------------------------------------------------------------------------------
Step(c) ==
    \/ EnterBulkhead(c) \/ BeforeCall(c) \/ Operate(c) \/ Return(c)
    \/ RecordSuccess(c) \/ InspectPermanentFailure(c) \/ RecordFailure(c)

Next ==
    \/ \E c \in Caller : Start(c) \/ Step(c) \/ RateLimited(c) \/ Raise(c)
    \/ RecoveryElapses

Spec == Init /\ [][Next]_vars

\* Every dependency call has a timeout, threads are scheduled and time passes.
\* Nobody has to make a request.
FairSpec == Spec /\ WF_vars(RecoveryElapses) /\ \A c \in Caller : WF_vars(Step(c))

--------------------------------------------------------------------------------
\* Properties

\* The circuit leaves the closed state exactly when the failures since the last
\* success reach the threshold, though calls of every age report to it: half-open
\* failures and reports while it is open included (before_call, record_success,
\* record_failure).
ClosedMeansBelowThreshold ==
    circuit.state = "closed" <=> circuit.failure_count < FailureThreshold

Probing(c) == call[c].probe

\* Every half-open reservation belongs to a thread that will still report or
\* cancel: a leaked one would refuse all calls for ever.
NoOrphanedReservation ==
    circuit.half_open_in_flight <= Cardinality({c \in Caller : Probing(c)})

\* Once the dependency works again and requests keep coming, an open circuit
\* closes: no order of late reports, rejections and probes leaves it stuck.
CircuitRecovers ==
    ([]<><<\E c \in Caller : Start(c)>>_vars)
        => (circuit.state # "closed" ~> circuit.state = "closed")
====
