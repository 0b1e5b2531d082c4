---- MODULE CircuitBreaker_proofs ----
\* Proofs about CircuitBreaker for any number of threads and any configuration.
EXTENDS CircuitBreaker, FiniteSetTheorems, TLAPS

Probes == {c \in Caller : Probing(c)}

\* A reservation counter that is only nonzero while half open, and threads that
\* are not yet admitted and hold nothing: what makes the count of the
\* reservations inductive.
ReservationInv ==
    /\ circuit.state # "half_open" => circuit.half_open_in_flight = 0
    /\ \A c \in Caller : call[c].stage \in {"idle", "waiting", "entered"} => ~Probing(c)
    /\ NoOrphanedReservation

--------------------------------------------------------------------------------
\* Type correctness and the threshold

LEMMA Positive ==
    /\ FailureThreshold \in Nat /\ FailureThreshold > 0
    /\ HalfOpenAttempts \in Nat /\ HalfOpenAttempts > 0
    /\ MaxAttempts \in Nat /\ MaxAttempts > 0
    /\ MaxFailures \in Nat
BY PolicyAssumption

LEMMA CircuitParts ==
    ASSUME TypeOK
    PROVE  /\ circuit.half_open_in_flight \in Nat
           /\ circuit.half_open_in_flight <= HalfOpenAttempts
           /\ circuit.failure_count \in Nat
           /\ circuit.state \in {"closed", "open", "half_open"}
BY Positive DEF TypeOK, Circuit

\* The circuit after a success, and after it opened.
LEMMA Closing ==
    ASSUME TypeOK, NEW c, RecordSuccess(c)
    PROVE  circuit' = [state |-> "closed", failure_count |-> 0,
                       half_open_in_flight |-> 0, cooled |-> circuit.cooled]
BY DEF RecordSuccess, TypeOK, Circuit

LEMMA Opening ==
    ASSUME TypeOK, NEW count, OpenCircuit(count)
    PROVE  circuit' = [state |-> "open", failure_count |-> count,
                       half_open_in_flight |-> 0, cooled |-> FALSE]
BY DEF OpenCircuit, TypeOK, Circuit

LEMMA LeaveType ==
    ASSUME TypeOK, NEW c \in Caller, Leave(c)
    PROVE  call' \in [Caller -> Call]
<1>1. Idle \in Call
  BY Positive DEF Idle, Call, Stage
<1> QED
  BY <1>1 DEF Leave, TypeOK

LEMMA MoveType ==
    ASSUME TypeOK, NEW c \in Caller, NEW s \in Stage, MoveTo(c, s)
    PROVE  call' \in [Caller -> Call]
BY DEF MoveTo, TypeOK, Call

LEMMA InitOK == Init => TypeOK /\ ClosedMeansBelowThreshold
BY Positive
   DEF Init, TypeOK, ClosedMeansBelowThreshold, Circuit, Call, Stage, Idle

LEMMA NextOK ==
    ASSUME TypeOK, ClosedMeansBelowThreshold, [Next]_vars
    PROVE  TypeOK' /\ ClosedMeansBelowThreshold'
<1> USE Positive
<1>1. CASE UNCHANGED vars
  BY <1>1 DEF vars, TypeOK, ClosedMeansBelowThreshold
<1>2. CASE RecoveryElapses
  BY <1>2 DEF RecoveryElapses, TypeOK, Circuit, ClosedMeansBelowThreshold
<1>3. ASSUME NEW c \in Caller,
             Start(c) \/ EnterBulkhead(c) \/ Operate(c) \/ Return(c) \/ Raise(c)
      PROVE  TypeOK' /\ ClosedMeansBelowThreshold'
  <2>1. Leave(c) \/ \E s \in Stage : MoveTo(c, s)
    BY <1>3 DEF Start, EnterBulkhead, Operate, Return, Raise, Stage, Permitted, Outcome
  <2>2. call' \in [Caller -> Call]
    BY <2>1, LeaveType, MoveType
  <2> QED
    BY <1>3, <2>2 DEF Start, EnterBulkhead, Operate, Return, Raise, Failing, TypeOK,
                      ClosedMeansBelowThreshold
<1>4. ASSUME NEW c \in Caller, BeforeCall(c)
      PROVE  TypeOK' /\ ClosedMeansBelowThreshold'
  <2>1. "admitted" \in Stage
    BY DEF Stage, Permitted
  <2>2. CASE Leave(c) /\ UNCHANGED circuit
    BY <1>4, <2>2, LeaveType DEF BeforeCall, TypeOK, ClosedMeansBelowThreshold
  <2>3. CASE MoveTo(c, "admitted") /\ UNCHANGED circuit
    BY <1>4, <2>1, <2>3, MoveType DEF BeforeCall, TypeOK, ClosedMeansBelowThreshold
  <2>4. CASE /\ circuit.state # "closed" /\ ~Refuses
             /\ circuit' = [circuit EXCEPT
                              !.state = "half_open",
                              !.half_open_in_flight =
                                  IF circuit.state = "open" THEN 1 ELSE @ + 1]
             /\ call' = [call EXCEPT ![c].stage = "admitted", ![c].probe = TRUE]
    <3>1. call' \in [Caller -> Call]
      BY <2>1, <2>4 DEF TypeOK, Call
    <3>2. DEFINE held == IF circuit.state = "open" THEN 1
                         ELSE circuit.half_open_in_flight + 1
    <3>3. held \in 0..HalfOpenAttempts
      BY <2>4, CircuitParts DEF Refuses
    <3>4. circuit' = [circuit EXCEPT !.state = "half_open",
    !.half_open_in_flight = held]
      BY <2>4
    <3>5. circuit' \in Circuit /\ ClosedMeansBelowThreshold'
      BY <2>4, <3>3, <3>4 DEF TypeOK, Circuit, ClosedMeansBelowThreshold
    <3> QED
      BY <1>4, <3>1, <3>5 DEF BeforeCall, TypeOK
  <2> QED
    BY <1>4, <2>2, <2>3, <2>4 DEF BeforeCall
<1>5. ASSUME NEW c \in Caller, RateLimited(c) \/ RecordSuccess(c)
      PROVE  TypeOK' /\ ClosedMeansBelowThreshold'
  <2>1. call' \in [Caller -> Call]
    BY <1>5, LeaveType DEF RateLimited, RecordSuccess
  <2>2. circuit' \in Circuit /\ ClosedMeansBelowThreshold'
    <3>1. CASE RateLimited(c)
      <4> DEFINE held == IF circuit.half_open_in_flight > 0
                         THEN circuit.half_open_in_flight - 1
                         ELSE circuit.half_open_in_flight
      <4>1. held \in 0..HalfOpenAttempts
        BY CircuitParts
      <4>2. circuit' = [circuit EXCEPT !.half_open_in_flight = held]
        BY <3>1 DEF RateLimited
      <4> QED
        BY <4>1, <4>2 DEF TypeOK, Circuit, ClosedMeansBelowThreshold
    <3>2. CASE RecordSuccess(c)
      <4>1. circuit' = [state |-> "closed", failure_count |-> 0,
                        half_open_in_flight |-> 0, cooled |-> circuit.cooled]
        BY <3>2, Closing
      <4>2. circuit.cooled \in BOOLEAN
        BY DEF TypeOK, Circuit
      <4> QED
        BY <4>1, <4>2 DEF Circuit, ClosedMeansBelowThreshold
    <3> QED
      BY <1>5, <3>1, <3>2
  <2> QED
    BY <1>5, <2>1, <2>2 DEF RateLimited, RecordSuccess, Failing, TypeOK
<1>6. ASSUME NEW c \in Caller, InspectPermanentFailure(c)
      PROVE  TypeOK' /\ ClosedMeansBelowThreshold'
  <2>1. call' \in [Caller -> Call]
    BY <1>6, LeaveType, MoveType DEF InspectPermanentFailure, Stage
  <2> QED
    BY <1>6, <2>1 DEF InspectPermanentFailure, TypeOK, ClosedMeansBelowThreshold
<1>7. ASSUME NEW c \in Caller, RecordFailure(c)
      PROVE  TypeOK' /\ ClosedMeansBelowThreshold'
  <2>1. circuit' \in Circuit /\ ClosedMeansBelowThreshold'
    <3>1. \/ OpenCircuit(circuit.failure_count) /\ circuit.state = "half_open"
          \/ /\ circuit.failure_count + 1 >= FailureThreshold
             /\ OpenCircuit(circuit.failure_count + 1)
          \/ /\ circuit.state # "half_open"
             /\ circuit.failure_count + 1 < FailureThreshold
             /\ circuit' = [circuit EXCEPT !.failure_count = circuit.failure_count + 1]
      BY <1>7 DEF RecordFailure, CountFailure
    <3>2. ASSUME NEW count \in Nat, OpenCircuit(count), count >= FailureThreshold
          PROVE  circuit' \in Circuit /\ ClosedMeansBelowThreshold'
      <4>1. circuit' = [state |-> "open", failure_count |-> count,
                        half_open_in_flight |-> 0, cooled |-> FALSE]
        BY <3>2, Opening
      <4>2. circuit' \in Circuit
        BY <4>1 DEF Circuit
      <4>3. circuit'.state = "open" /\ circuit'.failure_count = count
        BY <4>1
      <4>4. ClosedMeansBelowThreshold'
        BY <3>2, <4>3 DEF ClosedMeansBelowThreshold
      <4> QED
        BY <4>2, <4>4
    <3>3. ASSUME circuit.state # "half_open",
                 circuit.failure_count + 1 < FailureThreshold,
                 circuit' = [circuit EXCEPT !.failure_count = circuit.failure_count + 1]
          PROVE  circuit' \in Circuit /\ ClosedMeansBelowThreshold'
      <4>1. circuit' \in Circuit
        BY <3>3, CircuitParts DEF TypeOK, Circuit
      <4>2. /\ circuit'.state = circuit.state
            /\ circuit'.failure_count = circuit.failure_count + 1
        BY <3>3 DEF TypeOK, Circuit
      <4>3. ClosedMeansBelowThreshold'
        BY <3>3, <4>2, CircuitParts DEF ClosedMeansBelowThreshold
      <4> QED
        BY <4>1, <4>3
    <3>4. circuit.state = "half_open" => circuit.failure_count >= FailureThreshold
      BY CircuitParts DEF ClosedMeansBelowThreshold
    <3> QED
      BY <3>1, <3>2, <3>3, <3>4, CircuitParts
  <2>2. CASE Leave(c)
    BY <1>7, <2>1, <2>2, LeaveType DEF RecordFailure, TypeOK
  <2>3. CASE ~Leave(c)
    <3>1. /\ call[c].attempt < MaxAttempts
          /\ call' = [call EXCEPT ![c] = [stage |-> "waiting",
                                          attempt |-> call[c].attempt + 1,
                                          probe |-> FALSE]]
      BY <1>7, <2>3 DEF RecordFailure
    <3>2. [stage |-> "waiting", attempt |-> call[c].attempt + 1,
    probe |-> FALSE] \in Call
      BY <3>1 DEF TypeOK, Call, Stage
    <3> QED
      BY <1>7, <2>1, <3>1, <3>2 DEF RecordFailure, TypeOK
  <2> QED
    BY <2>2, <2>3
<1> QED
  BY <1>1, <1>2, <1>3, <1>4, <1>5, <1>6, <1>7 DEF Next, Step

\* Every variable keeps its type: the reservations never exceed what the
\* configuration allows (before_call).
THEOREM TypeCorrect == Spec => []TypeOK
<1>1. TypeOK /\ ClosedMeansBelowThreshold /\ [Next]_vars
      => TypeOK' /\ ClosedMeansBelowThreshold'
  BY NextOK
<1> QED
  BY <1>1, InitOK, PTL DEF Spec

\* The circuit is closed exactly while fewer failures than the threshold have been
\* counted since the last success, for any number of threads.
THEOREM ThresholdCorrect == Spec => []ClosedMeansBelowThreshold
<1>1. TypeOK /\ ClosedMeansBelowThreshold /\ [Next]_vars
      => TypeOK' /\ ClosedMeansBelowThreshold'
  BY NextOK
<1> QED
  BY <1>1, InitOK, PTL DEF Spec

--------------------------------------------------------------------------------
\* Reservations

LEMMA ProbesFinite == IsFiniteSet(Probes) /\ Cardinality(Probes) \in Nat
BY CallerAssumption, FS_Subset, FS_CardinalityType DEF Probes

\* A thread that moves on and keeps its reservation leaves the count alone.
LEMMA Undisturbed ==
    ASSUME ReservationInv, Probes' = Probes,
           circuit'.half_open_in_flight = circuit.half_open_in_flight
    PROVE  NoOrphanedReservation'
BY DEF ReservationInv, NoOrphanedReservation, Probes

LEMMA NothingReserved ==
    ASSUME circuit'.half_open_in_flight = 0, IsFiniteSet(Probes')
    PROVE  NoOrphanedReservation'
<1>1. Cardinality(Probes') \in Nat
  BY FS_CardinalityType
<1> QED
  BY <1>1 DEF NoOrphanedReservation, Probes

LEMMA ReservationNext ==
    ASSUME TypeOK, ReservationInv, [Next]_vars
    PROVE  ReservationInv'
<1> USE Positive
<1> DEFINE Rest ==
             /\ circuit'.state # "half_open" => circuit'.half_open_in_flight = 0
             /\ \A c \in Caller :
                   call'[c].stage \in {"idle", "waiting", "entered"} => ~call'[c].probe
<1>0. IsFiniteSet(Probes')
  BY CallerAssumption, FS_Subset DEF Probes
<1>1. CASE UNCHANGED vars
  BY <1>1, Undisturbed DEF vars, ReservationInv, Probes, Probing
<1>2. CASE RecoveryElapses
  <2>1. Rest /\ Probes' = Probes
        /\ circuit'.half_open_in_flight = circuit.half_open_in_flight
    BY <1>2 DEF RecoveryElapses, ReservationInv, TypeOK, Circuit, Call, Probes, Probing
  <2> QED
    BY <2>1, Undisturbed DEF ReservationInv, Probing
<1>3. ASSUME NEW c \in Caller,
             Start(c) \/ EnterBulkhead(c) \/ Operate(c) \/ Return(c) \/ Raise(c)
      PROVE  ReservationInv'
  <2>1. Rest /\ Probes' = Probes
        /\ circuit'.half_open_in_flight = circuit.half_open_in_flight
    BY <1>3 DEF Start, EnterBulkhead, Operate, Return, Raise, At, MoveTo, Leave, Idle,
                Outcome, ReservationInv, TypeOK, Circuit, Call, Probes, Probing
  <2> QED
    BY <2>1, Undisturbed DEF ReservationInv, Probing
<1>4. ASSUME NEW c \in Caller, BeforeCall(c)
      PROVE  ReservationInv'
  <2>1. Rest
    BY <1>4 DEF BeforeCall, At, MoveTo, Leave, Idle, ReservationInv, TypeOK, Circuit,
                Call, Probing
  <2>2. CASE circuit' = circuit
    <3>1. Probes' = Probes
      BY <1>4, <2>2 DEF BeforeCall, Refuses, At, MoveTo, Leave, Idle, ReservationInv,
                        TypeOK, Circuit, Call, Probes, Probing
    <3> QED
      BY <2>1, <2>2, <3>1, Undisturbed DEF ReservationInv, Probing
  <2>3. CASE circuit' # circuit
    <3>1. /\ c \notin Probes
          /\ Probes' = Probes \cup {c}
          /\ circuit'.half_open_in_flight <= circuit.half_open_in_flight + 1
      BY <1>4, <2>3 DEF BeforeCall, Refuses, At, MoveTo, Leave, Idle, ReservationInv,
                        TypeOK, Circuit, Call, Probes, Probing
    <3>2. Cardinality(Probes') = Cardinality(Probes) + 1
      BY <3>1, ProbesFinite, FS_AddElement
    <3>3. circuit'.half_open_in_flight \in Nat /\ circuit.half_open_in_flight \in Nat
      <4>1. circuit'.half_open_in_flight = IF circuit.state = "open" THEN 1
                                           ELSE circuit.half_open_in_flight + 1
        BY <1>4, <2>3 DEF BeforeCall, TypeOK, Circuit
      <4> QED
        BY <4>1, CircuitParts
    <3>4. NoOrphanedReservation'
      BY <3>1, <3>2, <3>3, ProbesFinite
      DEF ReservationInv, NoOrphanedReservation, Probes
    <3> QED
      BY <2>1, <3>4 DEF ReservationInv, Probing
  <2> QED
    BY <2>2, <2>3
<1>5. ASSUME NEW c \in Caller, RateLimited(c)
      PROVE  ReservationInv'
  <2>1. Rest /\ Probes' = Probes \ {c}
    BY <1>5 DEF RateLimited, Leave, Idle, ReservationInv, TypeOK, Circuit, Call,
                Probes, Probing
  <2>2. /\ circuit.half_open_in_flight \in Nat
        /\ circuit'.half_open_in_flight =
             IF circuit.half_open_in_flight > 0 THEN circuit.half_open_in_flight - 1
             ELSE circuit.half_open_in_flight
    BY <1>5 DEF RateLimited, TypeOK, Circuit, Call
  <2>3. /\ Cardinality(Probes') \in Nat
        /\ Cardinality(Probes') >= Cardinality(Probes) - 1
    <3>1. Cardinality(Probes \ {c}) = IF c \in Probes THEN Cardinality(Probes) - 1
                                      ELSE Cardinality(Probes)
      BY ProbesFinite, FS_RemoveElement
    <3>2. Cardinality(Probes') \in Nat
      BY <1>0, FS_CardinalityType
    <3> QED
      BY <2>1, <3>1, <3>2, ProbesFinite
  <2>4. NoOrphanedReservation'
    BY <2>2, <2>3, ProbesFinite DEF ReservationInv, NoOrphanedReservation, Probes
  <2> QED
    BY <2>1, <2>4 DEF ReservationInv, Probing
<1>6. ASSUME NEW c \in Caller, RecordSuccess(c) \/ RecordFailure(c)
      PROVE  ReservationInv'
  <2>1. circuit'.half_open_in_flight = 0
    BY <1>6 DEF RecordSuccess, RecordFailure, CountFailure, OpenCircuit, ReservationInv,
                TypeOK, Circuit, Call
  <2>2. Rest
    BY <1>6, <2>1 DEF RecordSuccess, RecordFailure, Leave, Idle, ReservationInv,
                      TypeOK, Circuit, Call,
                      Probing
  <2> QED
    BY <1>0, <2>1, <2>2, NothingReserved DEF ReservationInv, Probing
<1>7. ASSUME NEW c \in Caller, InspectPermanentFailure(c)
      PROVE  ReservationInv'
  <2>1. Rest
    BY <1>7 DEF InspectPermanentFailure, At, MoveTo, Leave, Idle, ReservationInv,
                TypeOK, Circuit, Call,
                Probing
  <2>2. CASE circuit.state = "half_open"
    <3>1. Probes' = Probes /\ circuit' = circuit
      BY <1>7, <2>2 DEF InspectPermanentFailure, MoveTo, TypeOK, Circuit, Call, Probes,
                        Probing
    <3> QED
      BY <2>1, <3>1, Undisturbed DEF ReservationInv, Probing
  <2>3. CASE circuit.state # "half_open"
    <3>1. circuit'.half_open_in_flight = 0
      BY <1>7, <2>3 DEF InspectPermanentFailure, ReservationInv
    <3> QED
      BY <1>0, <2>1, <3>1, NothingReserved DEF ReservationInv, Probing
  <2> QED
    BY <2>2, <2>3
<1> QED
  BY <1>1, <1>2, <1>3, <1>4, <1>5, <1>6, <1>7 DEF Next, Step

LEMMA ReservationInit == Init => ReservationInv
<1> SUFFICES ASSUME Init PROVE ReservationInv
  OBVIOUS
<1>1. circuit.half_open_in_flight = 0 /\ Cardinality(Probes) >= 0
  BY ProbesFinite DEF Init
<1> QED
  BY <1>1 DEF Init, ReservationInv, NoOrphanedReservation, Probes, Probing, Idle

\* No reservation outlives the thread that made it, so a half-open circuit always
\* has room again: cancel_call, record_success and record_failure between them
\* release every one, for any number of threads and probes.
THEOREM ReservationsHeld == Spec => []NoOrphanedReservation
<1>1. TypeOK /\ ReservationInv /\ [Next]_vars => ReservationInv'
  BY ReservationNext
<1>2. Spec => []TypeOK
  BY TypeCorrect
<1>3. ReservationInv => NoOrphanedReservation
  BY DEF ReservationInv
<1> QED
  BY <1>1, <1>2, <1>3, ReservationInit, PTL DEF Spec
====
