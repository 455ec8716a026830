------------------------------ MODULE Executor ------------------------------
(***************************************************************************)
(* The agent loop of app/agent/executor.py together with the two in-memory *)
(* stores it shares with the API: RunStateStore and ConfirmationStore.     *)
(*                                                                         *)
(* Every request (a chat turn, an approve, a deny) is an asyncio task.     *)
(* Tasks interleave only where one of them awaits: the planner, the model, *)
(* a tool, the replanner.  task[t] holds the locals of the coroutine that  *)
(* runs in t; run[r] is the RunState object, shared by whoever looks it up *)
(* by its id.  A restart of the process empties both stores: it is Init.   *)
(***************************************************************************)
EXTENDS Naturals, Sequences, FiniteSets

CONSTANTS
    Tasks,        \* slots for concurrently running requests
    Runs,         \* run ids (uuid4: each is handed out once)
    ConfIds,      \* confirmation ids (uuid4)
    Calls,        \* the tool calls a model may ask for
    Gated,        \* ... of tools with requires_confirmation
    RetrySafe,    \* ... of tools with retry_safe
    Unknown,      \* ... of tools that are not registered
    Malformed,    \* ... whose arguments are not JSON
    Batches,      \* the lists of tool calls of one assistant turn
    Steps,        \* plan steps
    Plans,        \* the plans a planner may return
    MaxSteps,     \* max_agent_steps, or profile.max_steps
    MaxToolCalls, \* max_tool_calls
    MaxRetries,   \* max_retries
    Ttl,          \* ConfirmationStore.ttl_seconds
    MaxTime,      \* bound on the clock
    None          \* no decision, no plan

ASSUME CallsAssumption ==
    /\ Gated \subseteq Calls
    /\ RetrySafe \subseteq Calls
    /\ Unknown \subseteq Calls
    /\ Malformed \subseteq Calls
    /\ Unknown \cap (Gated \cup RetrySafe) = {}
    /\ Batches \subseteq Seq(Calls) \ {<<>>}
    /\ Plans \subseteq Seq(Steps) \ {<<>>}

ASSUME LimitsAssumption ==
    /\ MaxSteps \in Nat
    /\ MaxToolCalls \in Nat
    /\ MaxRetries \in Nat
    /\ Ttl \in Nat
    /\ MaxTime \in Nat

ASSUME NoneAssumption ==
    None \notin Runs \cup {"absent", "pending", "approved", "denied", "expired"}

VARIABLES
    task,     \* the coroutine of each task
    run,      \* the RunState of each run
    created,  \* run ids handed out so far
    stored,   \* keys of RunStateStore._states
    conf,     \* ConfirmationStore._pending
    ran,      \* history: what each run made a tool do, in order
    now       \* time.time()

vars == <<task, run, created, stored, conf, ran, now>>

-----------------------------------------------------------------------------
(* Types *)

\* Where a coroutine stands: at an await, or between two calls of a batch.
Pc == {"idle", "planning", "chat", "batch", "tool", "running", "replan"}

Decision == {None, "approved", "denied"}

TaskRec == [pc: Pc, run: Runs \cup {None}, i: Nat, batch: Seq(Calls),
            decision: Decision, left: Nat]

IdleTask == [pc |-> "idle", run |-> None, i |-> 0, batch |-> <<>>,
             decision |-> None, left |-> 0]

\* asked is the batch of the last assistant message, answers the calls that
\* have a tool message after it.  Indices are 1-based.
RunState == [plan: Seq(Steps), currentStep: Nat, completed: Seq(Steps),
             failed: SUBSET Steps, replanned: BOOLEAN, used: Nat, steps: Nat,
             pendingBatch: Seq(Calls), pendingIndex: Nat,
             asked: Seq(Calls), answers: Seq(Calls)]

NewRunState == [plan |-> <<>>, currentStep |-> 0, completed |-> <<>>,
                failed |-> {}, replanned |-> FALSE, used |-> 0, steps |-> 0,
                pendingBatch |-> <<>>, pendingIndex |-> 0,
                asked |-> <<>>, answers |-> <<>>]

Status == {"absent", "pending", "approved", "denied", "expired"}

\* step and idx say which call of its run a confirmation was created for.
Confirmation == [status: Status, run: Runs \cup {None}, step: Nat, idx: Nat,
                 call: Calls \cup {None}, at: Nat]

NoConfirmation == [status |-> "absent", run |-> None, step |-> 0, idx |-> 0,
                   call |-> None, at |-> 0]

Effect == [step: Nat, idx: Nat, call: Calls]

TypeOK ==
    /\ task \in [Tasks -> TaskRec]
    /\ run \in [Runs -> RunState]
    /\ created \subseteq Runs
    /\ stored \subseteq created
    /\ conf \in [ConfIds -> Confirmation]
    /\ ran \in [Runs -> Seq(Effect)]
    /\ now \in Nat

-----------------------------------------------------------------------------
(* Helpers *)

Busy(t) == task[t].pc # "idle"

Own(t) == run[task[t].run]

TheCall(t) == task[t].batch[task[t].i]

\* PendingConfirmation.is_expired: strictly older than its ttl.
Overdue(c) == now - conf[c].at > Ttl

\* ConfirmationStore._sweep_expired, run by create and list_pending.
Swept == [c \in ConfIds |->
            IF conf[c].status = "pending" /\ Overdue(c)
            THEN [conf[c] EXCEPT !.status = "expired"] ELSE conf[c]]

\* Executor._advance_plan.
AdvancePlan(s, ok) ==
    IF s.currentStep >= Len(s.plan) THEN s
    ELSE LET step == s.plan[s.currentStep + 1]
         IN  IF ok
             THEN [s EXCEPT !.completed = Append(@, step), !.currentStep = @ + 1]
             ELSE [s EXCEPT !.failed = @ \cup {step}]

\* The decision _run_batch passes to _execute_one for the call at index i.
Forced(t) == IF task[t].i = Own(t).pendingIndex THEN task[t].decision ELSE None

\* _run_batch after _execute_one is done with a call (s is the run state the
\* call left): the record is kept, the budget charged, the index advanced.
Record(t, s) ==
    /\ run' = [run EXCEPT ![task[t].run] =
                 [s EXCEPT !.used = @ + 1, !.pendingIndex = task[t].i + 1]]
    /\ task' = [task EXCEPT ![t].pc = "batch", ![t].i = @ + 1, ![t].left = 0]

\* The rest of _execute_one once the result of a call is known: the tool
\* message, the plan, and for the first failed step the replanner's await.
FinishCall(t, ok) ==
    LET s == AdvancePlan([Own(t) EXCEPT !.answers = Append(@, TheCall(t))], ok)
    IN  IF ~ok /\ ~s.replanned /\ s.failed # {}
        THEN /\ run' = [run EXCEPT ![task[t].run] = [s EXCEPT !.replanned = TRUE]]
             /\ task' = [task EXCEPT ![t].pc = "replan", ![t].left = 0]
        ELSE Record(t, s)

\* The head of _step_loop's while: the next model call, or the step limit.
LoopHead(t, s) ==
    IF s.steps < MaxSteps
    THEN /\ run' = [run EXCEPT ![task[t].run] = [s EXCEPT !.steps = @ + 1]]
         /\ task' = [task EXCEPT ![t] = [IdleTask EXCEPT !.pc = "chat",
                                           !.run = task[t].run, !.left = MaxRetries + 1]]
         /\ stored' = stored
    ELSE /\ run' = [run EXCEPT ![task[t].run] = s]
         /\ task' = [task EXCEPT ![t] = IdleTask]
         /\ stored' = stored \ {task[t].run}

\* A return of run() or resume() that ends the run: RunStateStore.discard.
Discard(t) ==
    /\ task' = [task EXCEPT ![t] = IdleTask]
    /\ stored' = stored \ {task[t].run}

-----------------------------------------------------------------------------
(* Executor.run and the model's turn *)

Init ==
    /\ task = [t \in Tasks |-> IdleTask]
    /\ run = [r \in Runs |-> NewRunState]
    /\ created = {}
    /\ stored = {}
    /\ conf = [c \in ConfIds |-> NoConfirmation]
    /\ ran = [r \in Runs |-> <<>>]
    /\ now = 0

\* A chat request: the run state is stored before the planner is awaited.
StartRun(t, r) ==
    /\ ~Busy(t)
    /\ r \notin created
    /\ created' = created \cup {r}
    /\ stored' = stored \cup {r}
    /\ task' = [task EXCEPT ![t] = [IdleTask EXCEPT !.pc = "planning", !.run = r]]
    /\ UNCHANGED <<run, conf, ran, now>>

\* create_plan swallows every error and then answers a one-step plan.
PlanReady(t, plan) ==
    /\ task[t].pc = "planning"
    /\ LoopHead(t, [Own(t) EXCEPT !.plan = plan])
    /\ UNCHANGED <<created, conf, ran, now>>

\* Faulty variant: the retry loop forgets its bound.
ChatFailsUnbounded(t) ==
    /\ task[t].pc = "chat"
    /\ task' = [task EXCEPT ![t].left = @ - 1]
    /\ UNCHANGED <<run, created, stored, conf, ran, now>>

\* Faulty variant: after the last attempt the retries start over.
ChatFailsForever(t) ==
    /\ task[t].pc = "chat"
    /\ task' = [task EXCEPT ![t].left = IF @ > 1 THEN @ - 1 ELSE MaxRetries + 1]
    /\ UNCHANGED <<run, created, stored, conf, ran, now>>

\* _chat_with_retries: a ProviderError is retried max_retries times, whatever
\* it was; then the run ends with status "error".
ChatFails(t) ==
    /\ task[t].pc = "chat"
    /\ IF task[t].left > 1
       THEN /\ task' = [task EXCEPT ![t].left = @ - 1]
            /\ stored' = stored
       ELSE Discard(t)
    /\ UNCHANGED <<run, created, conf, ran, now>>

\* No tool calls: the final answer.
ChatAnswers(t) ==
    /\ task[t].pc = "chat"
    /\ Discard(t)
    /\ UNCHANGED <<run, created, conf, ran, now>>

\* Tool calls: the assistant message, and the first call of its batch is next.
ChatAsks(t, batch) ==
    /\ task[t].pc = "chat"
    /\ run' = [run EXCEPT ![task[t].run].asked = batch,
                          ![task[t].run].answers = <<>>,
                          ![task[t].run].pendingIndex = 1]
    /\ task' = [task EXCEPT ![t].pc = "batch", ![t].i = 1,
                            ![t].batch = batch, ![t].left = 0]
    /\ UNCHANGED <<created, stored, conf, ran, now>>

-----------------------------------------------------------------------------
(* _run_batch and _execute_one *)

\* Faulty variant: one call too many.
AtCallOverBudget(t) ==
    /\ task[t].pc = "batch"
    /\ task[t].i <= Len(task[t].batch)
    /\ Own(t).used <= MaxToolCalls

\* The while loop of _run_batch has a call to look at and budget for it.
AtCall(t) ==
    /\ task[t].pc = "batch"
    /\ task[t].i <= Len(task[t].batch)
    /\ Own(t).used < MaxToolCalls

\* Faulty variant: the calls that are left get no message.
CutBatchSilently(t) ==
    /\ task[t].pc = "batch"
    /\ task[t].i <= Len(task[t].batch)
    /\ Own(t).used >= MaxToolCalls
    /\ Discard(t)
    /\ UNCHANGED <<run, created, conf, ran, now>>

\* Budget spent mid-batch: each call that is left gets a tool message saying
\* so, and the run ends.
CutBatch(t) ==
    /\ task[t].pc = "batch"
    /\ task[t].i <= Len(task[t].batch)
    /\ Own(t).used >= MaxToolCalls
    /\ run' = [run EXCEPT
         ![task[t].run].answers =
            @ \o SubSeq(task[t].batch, task[t].i, Len(task[t].batch)),
         ![task[t].run].pendingIndex = Len(task[t].batch) + 1]
    /\ Discard(t)
    /\ UNCHANGED <<created, conf, ran, now>>

\* Arguments that are not JSON: an error message, but no word to the plan.
AnswerMalformed(t) ==
    /\ AtCall(t)
    /\ TheCall(t) \in Malformed
    /\ Record(t, [Own(t) EXCEPT !.answers = Append(@, TheCall(t))])
    /\ UNCHANGED <<created, stored, conf, ran, now>>

\* Faulty variant: the batch is not saved with the index.
AskHumanUnsaved(t, c) ==
    /\ AtCall(t)
    /\ TheCall(t) \in Gated \ Malformed
    /\ Forced(t) = None
    /\ conf[c].status = "absent"
    /\ conf' = [Swept EXCEPT ![c] =
         [status |-> "pending", run |-> task[t].run, step |-> Own(t).steps,
          idx |-> task[t].i, call |-> TheCall(t), at |-> now]]
    /\ task' = [task EXCEPT ![t] = IdleTask]
    /\ UNCHANGED <<run, created, stored, ran, now>>

\* A gated call with no decision: create() (which sweeps first), then the run
\* is parked at this call and the request returns confirmation_required.
AskHuman(t, c) ==
    /\ AtCall(t)
    /\ TheCall(t) \in Gated \ Malformed
    /\ Forced(t) = None
    /\ conf[c].status = "absent"
    /\ conf' = [Swept EXCEPT ![c] =
         [status |-> "pending", run |-> task[t].run, step |-> Own(t).steps,
          idx |-> task[t].i, call |-> TheCall(t), at |-> now]]
    /\ run' = [run EXCEPT ![task[t].run].pendingBatch = task[t].batch,
                          ![task[t].run].pendingIndex = task[t].i]
    /\ stored' = stored \cup {task[t].run}
    /\ task' = [task EXCEPT ![t] = IdleTask]
    /\ UNCHANGED <<created, ran, now>>

\* A forced "denied" answers the call without dispatching it.
AnswerDenied(t) ==
    /\ AtCall(t)
    /\ TheCall(t) \notin Malformed
    /\ Forced(t) = "denied"
    /\ FinishCall(t, FALSE)
    /\ UNCHANGED <<created, stored, conf, ran, now>>

\* Faulty variant: a denied call is dispatched.
DispatchDenied(t) ==
    /\ AtCall(t)
    /\ TheCall(t) \notin Malformed
    /\ Forced(t) # None \/ TheCall(t) \notin Gated
    /\ task' = [task EXCEPT ![t].pc = "tool", ![t].left = 1]
    /\ UNCHANGED <<run, created, stored, conf, ran, now>>

\* Faulty variant: the gate is not looked at.
DispatchUngated(t) ==
    /\ AtCall(t)
    /\ TheCall(t) \notin Malformed
    /\ Forced(t) # "denied"
    /\ task' = [task EXCEPT ![t].pc = "tool", ![t].left = 1]
    /\ UNCHANGED <<run, created, stored, conf, ran, now>>

\* Faulty variant: every tool is retried.
DispatchRetryingAll(t) ==
    /\ AtCall(t)
    /\ TheCall(t) \notin Malformed
    /\ Forced(t) # "denied"
    /\ Forced(t) = "approved" \/ TheCall(t) \notin Gated
    /\ task' = [task EXCEPT ![t].pc = "tool", ![t].left = MaxRetries + 1]
    /\ UNCHANGED <<run, created, stored, conf, ran, now>>

\* Only a tool that is known and retry_safe is tried more than once.
Attempts(call) == IF call \in RetrySafe THEN MaxRetries + 1 ELSE 1

\* Every other call is dispatched.
Dispatch(t) ==
    /\ AtCall(t)
    /\ TheCall(t) \notin Malformed
    /\ \/ Forced(t) = "approved"
       \/ Forced(t) = None /\ TheCall(t) \notin Gated
    /\ task' = [task EXCEPT ![t].pc = "tool", ![t].left = Attempts(TheCall(t))]
    /\ UNCHANGED <<run, created, stored, conf, ran, now>>

\* A failed attempt of dispatch's loop is repeated while attempts are left.
EndAttempt(t, ok) ==
    IF ~ok /\ task[t].left > 1
    THEN /\ task' = [task EXCEPT ![t].pc = "tool", ![t].left = @ - 1]
         /\ run' = run
    ELSE FinishCall(t, ok)

\* execute_tool refuses an unknown name, or arguments that fail the schema.
RejectCall(t) ==
    /\ task[t].pc = "tool"
    /\ EndAttempt(t, FALSE)
    /\ UNCHANGED <<created, stored, conf, ran, now>>

\* execute_tool starts the tool: from here on its effect may have happened.
StartTool(t) ==
    /\ task[t].pc = "tool"
    /\ TheCall(t) \notin Unknown
    /\ ran' = [ran EXCEPT ![task[t].run] = Append(@,
         [step |-> Own(t).steps, idx |-> task[t].i, call |-> TheCall(t)])]
    /\ task' = [task EXCEPT ![t].pc = "running"]
    /\ UNCHANGED <<run, created, stored, conf, now>>

\* The tool returns, raises, or is cut off by TOOL_TIMEOUT.
ToolReturns(t, ok) ==
    /\ task[t].pc = "running"
    /\ EndAttempt(t, ok)
    /\ UNCHANGED <<created, stored, conf, ran, now>>

\* The replanner answers a new plan, or the prior one after any error.  The
\* counters of the plan's progress stay as they are.
Replanned(t) ==
    /\ task[t].pc = "replan"
    /\ \E plan \in Plans \cup {Own(t).plan} : Record(t, [Own(t) EXCEPT !.plan = plan])
    /\ UNCHANGED <<created, stored, conf, ran, now>>

\* The batch is answered: back to the head of the step loop.
BatchDone(t) ==
    /\ task[t].pc = "batch"
    /\ task[t].i > Len(task[t].batch)
    /\ LoopHead(t, Own(t))
    /\ UNCHANGED <<created, conf, ran, now>>

\* The task is cancelled, or an exception no handler expects leaves it (tool
\* arguments that are JSON but no object, for one).  Nothing is cleaned up.
Abort(t) ==
    /\ Busy(t)
    /\ task' = [task EXCEPT ![t] = IdleTask]
    /\ UNCHANGED <<run, created, stored, conf, ran, now>>

-----------------------------------------------------------------------------
(* The confirmation API *)

\* Where resume picks a parked run up.
Resumed(r, decision) ==
    [pc |-> "batch", run |-> r, i |-> run[r].pendingIndex,
     batch |-> run[r].pendingBatch, decision |-> decision, left |-> 0]

\* Faulty variant: a resolved confirmation can be resolved again.
ResolveAgain(t, c, decision) ==
    /\ ~Busy(t)
    /\ conf[c].status \in {"pending", decision}
    /\ ~Overdue(c)
    /\ conf[c].run \in stored
    /\ conf' = [conf EXCEPT ![c].status = decision]
    /\ task' = [task EXCEPT ![t] = Resumed(conf[c].run, decision)]
    /\ UNCHANGED <<run, created, stored, ran, now>>

\* Faulty variant: the ttl is not looked at.
ResolveOverdue(t, c, decision) ==
    /\ ~Busy(t)
    /\ conf[c].status = "pending"
    /\ conf' = [conf EXCEPT ![c].status = decision]
    /\ task' = [task EXCEPT ![t] = Resumed(conf[c].run, decision)]
    /\ UNCHANGED <<run, created, stored, ran, now>>

\* Agent._resolve_confirmation: the status moves, the run is looked up by the
\* confirmation's run id, and resume enters _run_batch where it was parked.
Resolve(t, c, decision) ==
    /\ ~Busy(t)
    /\ conf[c].status = "pending"
    /\ ~Overdue(c)
    /\ conf' = [conf EXCEPT ![c].status = decision]
    /\ task' = IF conf[c].run \in stored
               THEN [task EXCEPT ![t] = Resumed(conf[c].run, decision)]
               ELSE task
    /\ UNCHANGED <<run, created, stored, ran, now>>

\* approve or deny after the ttl: get() marks it expired and the call raises.
ResolveLate(c) ==
    /\ conf[c].status = "pending"
    /\ Overdue(c)
    /\ conf' = [conf EXCEPT ![c].status = "expired"]
    /\ UNCHANGED <<task, run, created, stored, ran, now>>

\* GET /confirmations sweeps the store.
ListPending ==
    /\ conf' = Swept
    /\ UNCHANGED <<task, run, created, stored, ran, now>>

Tick ==
    /\ now < MaxTime
    /\ now' = now + 1
    /\ UNCHANGED <<task, run, created, stored, conf, ran>>

-----------------------------------------------------------------------------
(* The specification *)

\* The steps a running coroutine takes by itself.
Progress(t) ==
    \/ \E plan \in Plans : PlanReady(t, plan)
    \/ ChatFails(t)
    \/ ChatAnswers(t)
    \/ \E batch \in Batches : ChatAsks(t, batch)
    \/ CutBatch(t)
    \/ AnswerMalformed(t)
    \/ \E c \in ConfIds : AskHuman(t, c)
    \/ AnswerDenied(t)
    \/ Dispatch(t)
    \/ RejectCall(t)
    \/ StartTool(t)
    \/ \E ok \in BOOLEAN : ToolReturns(t, ok)
    \/ Replanned(t)
    \/ BatchDone(t)

\* What clients and the clock do.
Environment ==
    \/ \E t \in Tasks, r \in Runs : StartRun(t, r)
    \/ \E t \in Tasks, c \in ConfIds, d \in {"approved", "denied"} : Resolve(t, c, d)
    \/ \E t \in Tasks : Abort(t)
    \/ \E c \in ConfIds : ResolveLate(c)
    \/ ListPending
    \/ Tick

Next == Environment \/ \E t \in Tasks : Progress(t)

Spec == Init /\ [][Next]_vars

\* Every await of a coroutine ends: HTTP clients and TOOL_TIMEOUT bound them.
Fairness == \A t \in Tasks : WF_vars(Progress(t))

FairSpec == Spec /\ Fairness

-----------------------------------------------------------------------------
(* Safety *)

\* At any time at most one task works on a run, however approvals, denials and
\* new requests interleave (executor.py:362-396 takes no lock).
OneTaskPerRun ==
    \A t, u \in Tasks : Busy(t) /\ task[u].run = task[t].run => t = u

\* A confirmation that can still be approved belongs to a run that is stored,
\* that no task works on, and that is parked at the very call the confirmation
\* was created for; no run waits on two of them (executor.py:263-267,
\* confirmation.py:88-101).
ParkedAtConfirmation ==
    \A c \in ConfIds : conf[c].status = "pending" =>
        LET s == run[conf[c].run] IN
        /\ conf[c].run \in stored
        /\ \A t \in Tasks : task[t].run # conf[c].run
        /\ conf[c].step = s.steps
        /\ conf[c].idx = s.pendingIndex
        /\ s.pendingIndex \in 1..Len(s.pendingBatch)
        /\ s.pendingBatch[s.pendingIndex] = conf[c].call
        /\ \A d \in ConfIds :
             conf[d].status = "pending" /\ conf[d].run = conf[c].run => d = c

\* A call whose own confirmation is open, denied or expired has never been run
\* (confirmation.py:6-9, tests/test_confirmation.py:134-147).
RefusedNeverRuns ==
    \A c \in ConfIds : conf[c].status \in {"pending", "denied", "expired"} =>
        \A k \in 1..Len(ran[conf[c].run]) :
            ~ /\ ran[conf[c].run][k].step = conf[c].step
              /\ ran[conf[c].run][k].idx = conf[c].idx

\* Nothing gated runs before a human approved this or an earlier call of the
\* same assistant turn: what executor.py:201 and 260 together guarantee.
GatedNeedsApproval ==
    \A r \in Runs : \A k \in 1..Len(ran[r]) :
        ran[r][k].call \in Gated =>
            \E c \in ConfIds :
                /\ conf[c].status = "approved"
                /\ conf[c].run = r
                /\ conf[c].step = ran[r][k].step
                /\ conf[c].idx <= ran[r][k].idx

\* Tool messages follow the calls of the assistant message, one each and in
\* order, over pauses and budget cuts; when the model is asked again, and when
\* the run has ended, none is left dangling (executor.py:240-258).
NothingDangling ==
    \A r \in created :
        LET s == run[r] IN
        /\ s.answers = SubSeq(s.asked, 1, Len(s.answers))
        /\ \/ s.answers = s.asked
           \/ \E t \in Tasks : task[t].run = r /\ task[t].pc # "chat"
           \/ r \in stored /\ \A t \in Tasks : task[t].run # r

\* The places in ran[r] where the call ran that place k is about.
SamePlace(r, k) ==
    {j \in 1..Len(ran[r]) : /\ ran[r][j].step = ran[r][k].step
                           /\ ran[r][j].idx = ran[r][k].idx}

RepeatsBounded(r) ==
    \A k \in 1..Len(ran[r]) :
        Cardinality(SamePlace(r, k)) <= IF ran[r][k].call \in RetrySafe
                                        THEN MaxRetries + 1 ELSE 1

InOrder(r) ==
    \A k \in 1..Len(ran[r]) : \A j \in 1..k :
        \/ ran[r][j].step < ran[r][k].step
        \/ ran[r][j].step = ran[r][k].step /\ ran[r][j].idx <= ran[r][k].idx

\* Tools run in the order the model asked; a call is run again only if its tool
\* is retry_safe, and then at most max_retries more times
\* (tool_router.py:90-103), also when its run was paused and resumed.
SideEffectsOnce == \A r \in Runs : RepeatsBounded(r) /\ InOrder(r)

\* Which calls of run r made a tool act.
Positions(r) == {<<ran[r][k].step, ran[r][k].idx>> : k \in 1..Len(ran[r])}

\* No run makes tools act for more than max_tool_calls of the model's calls
\* (executor.py:240, 270), nor asks the model in more than max_steps steps.
WithinBudget ==
    \A r \in Runs : /\ Cardinality(Positions(r)) <= MaxToolCalls
                    /\ run[r].steps <= MaxSteps

\* A human's decision is final, and none is taken after the ttl: a confirmation
\* only ever leaves "pending", and an overdue one only for "expired"
\* (confirmation.py:103-126).
DecisionsAreFinal ==
    [][\A c \in ConfIds :
         conf'[c] # conf[c] =>
            \/ conf[c].status = "absent" /\ conf'[c].status = "pending"
            \/ /\ conf[c].status = "pending"
               /\ conf'[c] = [conf[c] EXCEPT !.status = conf'[c].status]
               /\ IF Overdue(c) THEN conf'[c].status = "expired"
                                ELSE conf'[c].status \in {"approved", "denied"}]_vars

-----------------------------------------------------------------------------
(* The inductive invariant *)

\* The call at position p (a step and an index) of run r comes before the one
\* the run stands at, or is that one.
Before(p, r) ==
    \/ p.step < run[r].steps
    \/ p.step = run[r].steps /\ p.idx < run[r].pendingIndex

At(p, r) == p.step = run[r].steps /\ p.idx = run[r].pendingIndex

\* What a run did, or asked a human for, lies behind where it stands or there.
HistoryBehind ==
    /\ \A r \in Runs \ created : ran[r] = <<>>
    /\ \A r \in Runs : \A k \in 1..Len(ran[r]) :
         Before(ran[r][k], r) \/ At(ran[r][k], r)
    /\ \A c \in ConfIds : IF conf[c].status = "absent"
                          THEN conf[c].run = None
                          ELSE /\ conf[c].run \in created
                               /\ Before(conf[c], conf[c].run) \/ At(conf[c], conf[c].run)

\* The call of an open confirmation has not run and was not asked for before.
ParkedAhead ==
    \A c \in ConfIds : conf[c].status = "pending" =>
        /\ \A k \in 1..Len(ran[conf[c].run]) : Before(ran[conf[c].run][k], conf[c].run)
        /\ \A d \in ConfIds :
             conf[d].run = conf[c].run => d = c \/ Before(conf[d], conf[c].run)

\* A coroutine and its run: an index in the batch is also the run's
\* pending_index, _run_batch moves both (executor.py:271-272).
HoldsRun(t) ==
    /\ Busy(t) <=> task[t].run # None
    /\ Busy(t) => task[t].run \in stored
    /\ task[t].pc \in {"batch", "tool", "running", "replan"} =>
         task[t].i = Own(t).pendingIndex /\ task[t].i >= 1
    /\ task[t].pc \in {"tool", "running", "replan"} => task[t].i <= Len(task[t].batch)

\* While the model is asked, all that happened belongs to earlier steps.
ChatAhead(t) ==
    task[t].pc = "chat" =>
        /\ \A k \in 1..Len(ran[task[t].run]) : ran[task[t].run][k].step < Own(t).steps
        /\ \A c \in ConfIds : conf[c].run = task[t].run => conf[c].step < Own(t).steps

\* A call about to be looked at has not run, and its confirmation, if it has
\* one, was resolved as the coroutine was told.
BatchAhead(t) ==
    task[t].pc = "batch" =>
        /\ \A k \in 1..Len(ran[task[t].run]) : Before(ran[task[t].run][k], task[t].run)
        /\ \A c \in ConfIds : conf[c].run = task[t].run =>
             Before(conf[c], task[t].run) \/ conf[c].status = task[t].decision

\* A call being run is refused by no confirmation; only a coroutine that was
\* told "approved" runs a gated one.
RunningApproved(t) ==
    task[t].pc \in {"tool", "running"} =>
        /\ \A c \in ConfIds : conf[c].run = task[t].run =>
             Before(conf[c], task[t].run) \/ conf[c].status = "approved"
        /\ TheCall(t) \in Gated => task[t].decision = "approved"

\* A coroutine that was told "approved" can point at the approval.
Approved(t) ==
    task[t].decision = "approved" =>
        \E c \in ConfIds : /\ conf[c].status = "approved"
                           /\ conf[c].run = task[t].run
                           /\ conf[c].step = Own(t).steps
                           /\ conf[c].idx <= task[t].i

TaskOK(t) ==
    HoldsRun(t) /\ ChatAhead(t) /\ BatchAhead(t) /\ RunningApproved(t) /\ Approved(t)

\* The strengthening that makes the safety invariants inductive: none of them
\* says by itself what a parked or running batch may still do.
IInv ==
    /\ TypeOK
    /\ OneTaskPerRun
    /\ ParkedAtConfirmation
    /\ HistoryBehind
    /\ ParkedAhead
    /\ \A t \in Tasks : TaskOK(t)
    /\ RefusedNeverRuns
    /\ GatedNeedsApproval

-----------------------------------------------------------------------------
(* The inductive invariant of what a run spends, repeats and answers.  It is *)
(* about one run at a time, and rests on IInv.                               *)

\* Places in ran[r] of calls the run has left behind, and of the one it is at.
Past(r) == {k \in 1..Len(ran[r]) : Before(ran[r][k], r)}
Current(r) == {k \in 1..Len(ran[r]) : At(ran[r][k], r)}

\* Every call left behind that acted was charged; the one at hand is paid for.
Charged(r) ==
    /\ run[r].steps <= MaxSteps
    /\ run[r].used <= MaxToolCalls
    /\ Cardinality({<<ran[r][k].step, ran[r][k].idx>> : k \in Past(r)}) <= run[r].used
    /\ Current(r) # {} => run[r].used < MaxToolCalls

\* The answers are a beginning of what was asked; all of it once the run is
\* gone, and up to the pending call while it waits for a human.
Transcript(r) ==
    LET s == run[r] IN
    /\ r \notin created => s = NewRunState
    /\ s.answers = SubSeq(s.asked, 1, Len(s.answers))
    /\ r \notin stored => s.answers = s.asked
    /\ \A c \in ConfIds : conf[c].status = "pending" /\ conf[c].run = r =>
         /\ s.steps >= 1
         /\ s.pendingBatch = s.asked
         /\ s.pendingBatch \in Batches
         /\ Len(s.answers) = s.pendingIndex - 1

\* A run waits for one confirmation at most, and works for none.
Unanswered(c) == conf[c].status \in {"pending", "expired"}

OneOpen(r) ==
    \A c \in ConfIds : conf[c].run = r /\ Unanswered(c) =>
        /\ \A t \in Tasks : task[t].run # r
        /\ \A d \in ConfIds : conf[d].run = r /\ Unanswered(d) => d = c

\* What the coroutine of a run has asked, answered and tried.
Asked(t) ==
    /\ task[t].pc = "planning" => Own(t) = NewRunState /\ ran[task[t].run] = <<>>
    /\ task[t].pc = "chat" => Own(t).steps >= 1 /\ Own(t).answers = Own(t).asked
    /\ task[t].pc \in {"batch", "tool", "running", "replan"} =>
         /\ Own(t).steps >= 1
         /\ task[t].batch = Own(t).asked
         /\ task[t].batch \in Batches
         /\ task[t].i <= Len(task[t].batch) + 1
         /\ Len(Own(t).answers) = IF task[t].pc = "replan" THEN task[t].i ELSE task[t].i - 1
    /\ task[t].pc \in {"tool", "running", "replan"} => Own(t).used < MaxToolCalls

Tried(t) ==
    task[t].pc \in {"tool", "running"} =>
        /\ task[t].left >= 1
        /\ \A k \in Current(task[t].run) : ran[task[t].run][k].call = TheCall(t)
        /\ Cardinality(Current(task[t].run)) + task[t].left <=
             Attempts(TheCall(t)) + (IF task[t].pc = "running" THEN 1 ELSE 0)

RunOK(r) ==
    /\ Charged(r)
    /\ RepeatsBounded(r)
    /\ InOrder(r)
    /\ Transcript(r)
    /\ OneOpen(r)
    /\ \A t \in Tasks : task[t].run = r => Asked(t) /\ Tried(t)

RunsOK == \A r \in Runs : RunOK(r)

-----------------------------------------------------------------------------
(* What the documentation says and the code does not do *)

\* "The tool only ever runs after an explicit approve() call against this exact
\* confirmation id" (confirmation.py:6-8, README.md:461-463): whatever gated
\* call ran had been approved itself.
ExactApproval ==
    \A r \in Runs : \A k \in 1..Len(ran[r]) :
        ran[r][k].call \in Gated =>
            \E c \in ConfIds :
                /\ conf[c].status = "approved"
                /\ conf[c].run = r
                /\ conf[c].step = ran[r][k].step
                /\ conf[c].idx = ran[r][k].idx

-----------------------------------------------------------------------------
(* Liveness *)

\* Every request is answered: no run loops for ever in its step loop, its
\* batches or its retries, and none waits for a human while holding its task.
EveryTaskReturns == \A t \in Tasks : Busy(t) ~> ~Busy(t)

=============================================================================
