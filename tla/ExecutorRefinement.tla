------------------------- MODULE ExecutorRefinement -------------------------
(* The executor and its stores implement RunLifecycle. *)
EXTENDS Executor

\* A run works while a task holds it.  It waits from the moment its
\* confirmation is created; one that expires leaves it waiting for good.
Life(r) ==
    IF r \notin created THEN "unborn"
    ELSE IF \E t \in Tasks : task[t].run = r THEN "working"
    ELSE IF \E c \in ConfIds : /\ conf[c].run = r
                               /\ conf[c].status \in {"pending", "expired"}
         THEN "waiting"
    ELSE "over"

CallPositions == UNION {1..Len(b) : b \in Batches}

Lifecycle == INSTANCE RunLifecycle WITH
    Effects <- [step : 1..MaxSteps, idx : CallPositions, call : Calls],
    life <- [r \in Runs |-> Life(r)],
    acts <- ran

\* Every step of the executor is one step of a run's life or none: no request
\* revives a run that is over, no tool runs for a run that waits, and a run
\* leaves the waiting only by the decision of its confirmation.
ImplementsLifecycle == Lifecycle!Spec
=============================================================================
