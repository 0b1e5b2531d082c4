---- MODULE MCCircuitBreaker ----
\* Instances of CircuitBreaker for TLC: three request threads.
EXTENDS CircuitBreaker, TLC

CONSTANTS t1, t2, t3

Threads == {t1, t2, t3}
ThreadSymmetry == Permutations(Threads)
====
