--------------------------- MODULE CircuitBreaker ---------------------------
(***************************************************************************)
(* One integration's circuit breaker inside one queue worker process       *)
(* (internal/service/queue/circuit_breaker.go), as operators on its state. *)
(* cooled: more than cooldownPeriod has passed since lastFailure.          *)
(***************************************************************************)
EXTENDS Naturals

CONSTANT Threshold      \* provider failures that open the circuit (default 5)

ASSUME ThresholdAssumption == Threshold \in Nat \ {0}

Breaker == [failures : Nat, isOpen : BOOLEAN, cooled : BOOLEAN]

NewCircuitBreaker == [failures |-> 0, isOpen |-> FALSE, cooled |-> FALSE]

\* Plausible slip: the cooldown is never looked at.
IsOpenForGood(b) == b.isOpen

\* IsOpen is a check that also writes: an open circuit whose cooldown has
\* passed is reset, with a full failure budget, by whoever asks first.
IsOpen(b)      == b.isOpen /\ ~ b.cooled
AfterIsOpen(b) == IF b.isOpen /\ b.cooled THEN NewCircuitBreaker ELSE b

RecordSuccess(b) == NewCircuitBreaker

RecordFailure(b) ==
    [failures |-> b.failures + 1, isOpen |-> b.isOpen \/ b.failures + 1 >= Threshold,
     cooled |-> FALSE]

\* RecordFailure's result: the transition, not the state.
Opens(b) == ~ b.isOpen /\ RecordFailure(b).isOpen

CoolsDown(b) == [b EXCEPT !.cooled = TRUE]
=============================================================================
