--------------------------- MODULE ExecutorProofs ---------------------------
(***************************************************************************)
(* Machine-checked proofs about Executor, for every set of tasks, runs,    *)
(* confirmations, calls and plans and for every limit.                     *)
(*                                                                         *)
(* The inductive invariant is IInv.  Most actions change one task and the  *)
(* state of the run it holds: the lemma OwnStep reduces them to what IInv  *)
(* says of that task.  The others change confirmations or what was run.    *)
(***************************************************************************)
EXTENDS Executor, TLAPS

(* What IInv says of a task that is at work *)

LEMMA BusyTask ==
    ASSUME IInv, NEW t \in Tasks, Busy(t)
    PROVE  /\ task[t] \in TaskRec
           /\ task[t].run \in Runs
           /\ task[t].run \in created
           /\ task[t].run \in stored
           /\ Own(t) \in RunState
           /\ run[task[t].run] \in RunState
           /\ \A u \in Tasks : task[u].run = task[t].run => u = t
           /\ \A c \in ConfIds : conf[c].status = "pending" => conf[c].run # task[t].run
  BY NoneAssumption DEF IInv, TypeOK, TaskOK, HoldsRun, OneTaskPerRun, ParkedAtConfirmation, Busy, Own

\* Where a coroutine that handles a call stands.
LEMMA AtIndex ==
    ASSUME IInv, NEW t \in Tasks,
           \/ AtCall(t)
           \/ task[t].pc \in {"tool", "running", "replan"}
    PROVE  /\ Busy(t)
           /\ task[t].i \in 1..Len(task[t].batch)
           /\ task[t].i = run[task[t].run].pendingIndex
           /\ TheCall(t) \in Calls
<1>1. Busy(t) BY DEF Busy, AtCall
<1>2. task[t].i \in 1..Len(task[t].batch) /\ task[t].i = run[task[t].run].pendingIndex
  BY <1>1, BusyTask DEF IInv, TaskOK, HoldsRun, AtCall, TaskRec, Own
<1>3. task[t].batch \in Seq(Calls) BY <1>1, BusyTask DEF TaskRec
<1>4. TheCall(t) \in Calls BY <1>2, <1>3 DEF TheCall
<1>. QED BY <1>1, <1>2, <1>4

\* The types of what positions are compared with.
LEMMA PositionTypes ==
    ASSUME IInv
    PROVE  /\ \A r \in Runs : run[r].steps \in Nat /\ run[r].pendingIndex \in Nat
           /\ \A r \in Runs : \A k \in 1..Len(ran[r]) :
                ran[r][k].step \in Nat /\ ran[r][k].idx \in Nat
           /\ \A c \in ConfIds : conf[c].step \in Nat /\ conf[c].idx \in Nat
<1>1. \A r \in Runs : run[r] \in RunState BY DEF IInv, TypeOK
<1>2. \A c \in ConfIds : conf[c] \in Confirmation BY DEF IInv, TypeOK
<1>3. ASSUME NEW r \in Runs, NEW k \in 1..Len(ran[r]) PROVE ran[r][k] \in Effect
  <2>1. ran[r] \in Seq(Effect) BY DEF IInv, TypeOK
  <2>. QED BY <2>1
<1>. QED BY <1>1, <1>2, <1>3 DEF RunState, Confirmation, Effect

LEMMA IdleTaskOK ==
    /\ IdleTask \in TaskRec
    /\ IdleTask.pc = "idle"
    /\ IdleTask.run = None
    /\ IdleTask.decision = None
  BY DEF IdleTask, TaskRec, Pc, Decision

(* A step of a task on its own run *)

LEMMA OwnStep ==
    ASSUME IInv, NEW t \in Tasks, Busy(t),
           NEW v \in TaskRec, NEW s \in RunState,
           task' = [task EXCEPT ![t] = v],
           run' = [run EXCEPT ![task[t].run] = s],
           UNCHANGED <<created, conf, ran, now>>,
           \/ v = IdleTask /\ stored' \in {stored, stored \ {task[t].run}}
           \/ v.pc # "idle" /\ v.run = task[t].run /\ stored' = stored,
           NEW r \in Runs, r = task[t].run,
           \A k \in 1..Len(ran[r]) : Before(ran[r][k], r)' \/ At(ran[r][k], r)',
           \A c \in ConfIds : conf[c].run = r => Before(conf[c], r)' \/ At(conf[c], r)',
           TaskOK(t)'
    PROVE  IInv'
<1>1. /\ \A u \in Tasks : task[u].run = r => u = t
      /\ \A c \in ConfIds : conf[c].status = "pending" => conf[c].run # r
  BY BusyTask
<1>2. /\ task'[t] = v
      /\ \A u \in Tasks : u # t => task'[u] = task[u] /\ task[u].run # r
  BY <1>1 DEF IInv, TypeOK
<1>3. \A q \in Runs : q # r => run'[q] = run[q] /\ (q \in stored' <=> q \in stored)
  BY <1>1 DEF IInv, TypeOK
<1>4. /\ TypeOK /\ OneTaskPerRun /\ ParkedAtConfirmation /\ HistoryBehind /\ ParkedAhead
      /\ \A u \in Tasks : TaskOK(u)
  BY DEF IInv
<1>5. TypeOK' BY <1>1, <1>4, IdleTaskOK DEF TypeOK
<1>6. OneTaskPerRun'
  <2>1. \A u \in Tasks : u # t => (Busy(u)' <=> Busy(u))
    BY <1>2 DEF Busy
  <2>2. task'[t].run = r \/ (task'[t].run = None /\ ~Busy(t)')
    BY <1>2, IdleTaskOK DEF Busy
  <2>3. \A u \in Tasks : Busy(u) => task[u].run # None
    BY <1>4 DEF TaskOK, HoldsRun
  <2>. QED BY <1>2, <1>4, <2>1, <2>2, <2>3 DEF OneTaskPerRun
<1>7. \A c \in ConfIds : conf[c].status = "pending" =>
        /\ conf[c].run \in Runs /\ conf[c].run # r /\ conf[c].run # None
        /\ run'[conf[c].run] = run[conf[c].run]
        /\ conf[c].run \in stored'
  BY <1>1, <1>3, <1>4, NoneAssumption DEF TypeOK, ParkedAtConfirmation
<1>8. ParkedAtConfirmation'
  <2>1. \A u \in Tasks : task'[u].run \in {task[u].run, None}
    BY <1>2, IdleTaskOK
  <2>. QED BY <1>4, <1>7, <2>1 DEF ParkedAtConfirmation
<1>9. HistoryBehind'
  <2>1. ASSUME NEW q \in Runs, NEW k \in 1..Len(ran[q])
        PROVE  (Before(ran[q][k], q) \/ At(ran[q][k], q))'
    <3>1. CASE q = r BY <3>1
    <3>2. CASE q # r
      <4>1. Before(ran[q][k], q) \/ At(ran[q][k], q) BY <1>4 DEF HistoryBehind
      <4>2. run'[q] = run[q] BY <1>3, <3>2
      <4>. QED BY <4>1, <4>2 DEF Before, At
    <3>. QED BY <3>1, <3>2
  <2>2. ASSUME NEW c \in ConfIds, conf[c].status # "absent"
        PROVE  conf[c].run \in created /\ (Before(conf[c], conf[c].run) \/ At(conf[c], conf[c].run))'
    <3>1. conf[c].run \in created /\ conf[c].run \in Runs BY <1>4, <2>2 DEF HistoryBehind, TypeOK
    <3>2. CASE conf[c].run = r BY <3>1, <3>2
    <3>3. CASE conf[c].run # r
      <4>1. Before(conf[c], conf[c].run) \/ At(conf[c], conf[c].run)
        BY <1>4, <2>2 DEF HistoryBehind
      <4>2. run'[conf[c].run] = run[conf[c].run] BY <1>3, <3>1, <3>3
      <4>. QED BY <3>1, <4>1, <4>2 DEF Before, At
    <3>. QED BY <3>2, <3>3
  <2>. QED BY <1>4, <2>1, <2>2 DEF HistoryBehind
<1>10. ParkedAhead'
  <2>1. \A c \in ConfIds : conf[c].status = "pending" =>
          \A p : Before(p, conf[c].run)' <=> Before(p, conf[c].run)
    BY <1>7 DEF Before
  <2>. QED BY <1>4, <2>1 DEF ParkedAhead
<1>11. ASSUME NEW u \in Tasks PROVE TaskOK(u)'
  <2>1. CASE u = t BY <2>1
  <2>2. CASE u # t
    <3>1. task'[u] = task[u] /\ task[u].run # r BY <1>2, <2>2
    <3>2. CASE Busy(u)
      <4>1. task[u].run \in Runs BY <3>2, BusyTask
      <4>2. run'[task[u].run] = run[task[u].run] /\ (task[u].run \in stored' <=> task[u].run \in stored)
        BY <1>3, <3>1, <4>1
      <4>3. TaskOK(u) BY <1>4
      <4>4. \A p : Before(p, task[u].run)' <=> Before(p, task[u].run)
        BY <3>1, <4>2 DEF Before
      <4>5. HoldsRun(u)' BY <3>1, <4>2, <4>3 DEF TaskOK, HoldsRun, Own, Busy
      <4>6. ChatAhead(u)' BY <3>1, <4>2, <4>3 DEF TaskOK, ChatAhead, Own
      <4>7. BatchAhead(u)' BY <3>1, <4>3, <4>4 DEF TaskOK, BatchAhead
      <4>8. RunningApproved(u)' BY <3>1, <4>3, <4>4 DEF TaskOK, RunningApproved, TheCall
      <4>9. Approved(u)' BY <3>1, <4>2, <4>3 DEF TaskOK, Approved, Own
      <4>. QED BY <4>5, <4>6, <4>7, <4>8, <4>9 DEF TaskOK
    <3>3. CASE ~Busy(u)
      <4>1. task[u].pc = "idle" /\ task[u].run = None BY <1>4, <3>3 DEF TaskOK, HoldsRun, Busy
      <4>2. task[u].decision # "approved"
        BY <1>4, <4>1, NoneAssumption DEF TaskOK, Approved, HistoryBehind, TypeOK
      <4>. QED BY <3>1, <4>1, <4>2 DEF TaskOK, HoldsRun, ChatAhead, BatchAhead, RunningApproved,
                 Approved, Busy
    <3>. QED BY <3>2, <3>3
  <2>. QED BY <2>1, <2>2
<1>12. RefusedNeverRuns' /\ GatedNeedsApproval'
  BY DEF IInv, RefusedNeverRuns, GatedNeedsApproval
<1>. QED BY <1>5, <1>6, <1>8, <1>9, <1>10, <1>11, <1>12 DEF IInv

\* A task that stops: an idle task says nothing, its run has not moved back.
LEMMA TaskEnds ==
    ASSUME IInv, NEW t \in Tasks, Busy(t), NEW s \in RunState,
           s.steps = Own(t).steps,
           s.pendingIndex >= Own(t).pendingIndex,
           task' = [task EXCEPT ![t] = IdleTask],
           run' = [run EXCEPT ![task[t].run] = s],
           stored' \in {stored, stored \ {task[t].run}},
           UNCHANGED <<created, conf, ran, now>>
    PROVE  IInv'
<1>1. PICK r \in Runs : r = task[t].run BY BusyTask
<1>2. /\ run'[r].steps = run[r].steps
      /\ run'[r].pendingIndex \in Nat /\ run[r].pendingIndex \in Nat
      /\ run'[r].pendingIndex >= run[r].pendingIndex
  <2>1. run'[r] = s BY <1>1 DEF IInv, TypeOK
  <2>2. Own(t) = run[r] BY <1>1 DEF Own
  <2>3. run[r] \in RunState BY DEF IInv, TypeOK
  <2>4. s.pendingIndex \in Nat /\ run[r].pendingIndex \in Nat
    BY <2>3 DEF RunState
  <2>. QED BY <2>1, <2>2, <2>4
<1>3. HistoryBehind BY DEF IInv
<1>4. \A k \in 1..Len(ran[r]) : Before(ran[r][k], r)' \/ At(ran[r][k], r)'
  BY <1>2, <1>3, PositionTypes DEF HistoryBehind, Before, At
<1>5. ASSUME NEW c \in ConfIds, conf[c].run = r PROVE Before(conf[c], r)' \/ At(conf[c], r)'
  <2>1. Before(conf[c], r) \/ At(conf[c], r) BY <1>3, <1>5, NoneAssumption DEF HistoryBehind
  <2>2. conf[c].step \in Nat /\ conf[c].idx \in Nat BY PositionTypes
  <2>. QED BY <1>2, <2>1, <2>2 DEF Before, At
<1>6. TaskOK(t)'
  <2>1. task'[t] = IdleTask BY DEF IInv, TypeOK
  <2>. QED BY <2>1, IdleTaskOK, NoneAssumption DEF TaskOK, HoldsRun, ChatAhead, BatchAhead,
            RunningApproved, Approved, Busy
<1>. QED BY <1>1, <1>4, <1>5, <1>6, IdleTaskOK, OwnStep

\* A coroutine that goes on to the next call of its batch.
LEMMA NextCall ==
    ASSUME IInv, NEW t \in Tasks,
           AtCall(t) \/ task[t].pc \in {"tool", "running", "replan"},
           NEW s \in RunState,
           s.steps = Own(t).steps,
           Record(t, s),
           UNCHANGED <<created, stored, conf, ran, now>>
    PROVE  IInv'
<1>1. PICK r \in Runs : r = task[t].run BY AtIndex, BusyTask
<1>2. /\ Busy(t) /\ task[t] \in TaskRec /\ r \in stored
      /\ task[t].i \in 1..Len(task[t].batch)
      /\ task[t].i = run[r].pendingIndex
  BY <1>1, AtIndex, BusyTask
<1>3. /\ task[t].i \in Nat /\ task[t].i + 1 \in Nat /\ s.used + 1 \in Nat
      /\ task[t].batch \in Seq(Calls)
  <2>1. task[t].i \in Nat /\ task[t].batch \in Seq(Calls) BY <1>2 DEF TaskRec
  <2>2. s.used \in Nat BY DEF RunState
  <2>. QED BY <2>1, <2>2
<1> DEFINE v == [task[t] EXCEPT !.pc = "batch", !.i = task[t].i + 1, !.left = 0]
           w == [s EXCEPT !.used = s.used + 1, !.pendingIndex = task[t].i + 1]
<1>4. /\ task' = [task EXCEPT ![t] = v]
      /\ run' = [run EXCEPT ![task[t].run] = w]
  BY DEF Record
<1>5. /\ v \in TaskRec /\ v.pc = "batch" /\ v.run = r
      /\ v.i = task[t].i + 1 /\ v.decision = task[t].decision
  <2>1. v \in TaskRec BY <1>2, <1>3 DEF TaskRec, Pc
  <2>2. v.pc = "batch" /\ v.run = task[t].run /\ v.i = task[t].i + 1
        /\ v.decision = task[t].decision
    BY <1>2 DEF TaskRec
  <2>. QED BY <1>1, <2>1, <2>2
<1>6. w \in RunState /\ w.steps = run[r].steps /\ w.pendingIndex = run[r].pendingIndex + 1
  <2>1. w \in RunState BY <1>3 DEF RunState
  <2>2. w.steps = s.steps /\ w.pendingIndex = task[t].i + 1 BY DEF RunState
  <2>. QED BY <1>1, <1>2, <2>1, <2>2 DEF Own
<1> HIDE DEF v, w
<1>7. task'[t] = v /\ run'[r] = w BY <1>1, <1>4 DEF IInv, TypeOK
<1>8. HistoryBehind /\ TaskOK(t) BY DEF IInv
<1>9. ASSUME NEW k \in 1..Len(ran[r]) PROVE Before(ran[r][k], r)'
  <2>1. Before(ran[r][k], r) \/ At(ran[r][k], r) BY <1>8 DEF HistoryBehind
  <2>2. /\ ran[r][k].step \in Nat /\ ran[r][k].idx \in Nat
        /\ run[r].steps \in Nat /\ run[r].pendingIndex \in Nat
    BY PositionTypes
  <2>. QED BY <1>6, <1>7, <2>1, <2>2 DEF Before, At
<1>10. \A c \in ConfIds : conf[c].run = r => Before(conf[c], r)'
  BY <1>6, <1>7, <1>8, PositionTypes, NoneAssumption DEF HistoryBehind, Before, At
<1>11. TaskOK(t)'
  <2>1. HoldsRun(t)'
    BY <1>2, <1>3, <1>5, <1>6, <1>7, NoneAssumption DEF HoldsRun, Busy, Own
  <2>2. BatchAhead(t)' BY <1>5, <1>7, <1>9, <1>10 DEF BatchAhead
  <2>3. ChatAhead(t)' /\ RunningApproved(t)' BY <1>5, <1>7 DEF ChatAhead, RunningApproved
  <2>4. Approved(t)'
    <3>1. \A c \in ConfIds : conf[c].idx <= task[t].i => conf[c].idx <= v.i
      BY <1>3, <1>5, PositionTypes
    <3>. QED BY <1>1, <1>5, <1>6, <1>7, <1>8, <3>1 DEF TaskOK, Approved, Own
  <2>. QED BY <2>1, <2>2, <2>3, <2>4 DEF TaskOK
<1>. QED BY <1>1, <1>2, <1>4, <1>5, <1>6, <1>9, <1>10, <1>11, OwnStep

\* A coroutine that goes on to the next model call, or to the end of its run.
LEMMA NextStep ==
    ASSUME IInv, NEW t \in Tasks, Busy(t), NEW s \in RunState,
           s.steps = Own(t).steps,
           s.pendingIndex = Own(t).pendingIndex,
           LoopHead(t, s),
           UNCHANGED <<created, conf, ran, now>>
    PROVE  IInv'
<1>1. PICK r \in Runs : r = task[t].run BY BusyTask
<1>2. /\ task[t] \in TaskRec /\ r \in stored /\ run[r] = Own(t) /\ Own(t) \in RunState
  BY <1>1, BusyTask DEF Own
<1>3. s.steps \in Nat /\ s.pendingIndex \in Nat /\ s.pendingIndex >= Own(t).pendingIndex
  BY <1>2 DEF RunState
<1>n. s.steps + 1 \in Nat /\ MaxRetries + 1 \in Nat BY <1>3, LimitsAssumption
<1>4. CASE s.steps < MaxSteps
  <2> DEFINE v == [IdleTask EXCEPT !.pc = "chat", !.run = task[t].run, !.left = MaxRetries + 1]
             w == [s EXCEPT !.steps = s.steps + 1]
  <2>1. /\ task' = [task EXCEPT ![t] = v]
        /\ run' = [run EXCEPT ![task[t].run] = w]
        /\ stored' = stored
    BY <1>4 DEF LoopHead
  <2>2. v \in TaskRec /\ v.pc = "chat" /\ v.run = r /\ v.decision = None
    <3>1. v \in TaskRec BY <1>1, <1>n, IdleTaskOK DEF TaskRec, Pc
    <3>. QED BY <1>1, <3>1, IdleTaskOK DEF TaskRec
  <2>3. w \in RunState /\ w.steps = run[r].steps + 1 /\ w.pendingIndex = run[r].pendingIndex
    <3>1. w \in RunState BY <1>n DEF RunState
    <3>. QED BY <1>2, <3>1 DEF RunState
  <2> HIDE DEF v, w
  <2>4. task'[t] = v /\ run'[r] = w BY <1>1, <2>1 DEF IInv, TypeOK
  <2>5. HistoryBehind BY DEF IInv
  <2>6. ASSUME NEW k \in 1..Len(ran[r]) PROVE ran[r][k].step < run'[r].steps
    <3>1. Before(ran[r][k], r) \/ At(ran[r][k], r) BY <2>5 DEF HistoryBehind
    <3>2. /\ ran[r][k].step \in Nat /\ run[r].steps \in Nat BY PositionTypes
    <3>. QED BY <2>3, <2>4, <3>1, <3>2 DEF Before, At
  <2>7. \A c \in ConfIds : conf[c].run = r => conf[c].step < run'[r].steps
    BY <2>3, <2>4, <2>5, PositionTypes, NoneAssumption DEF HistoryBehind, Before, At
  <2>8. TaskOK(t)'
    BY <1>2, <2>1, <2>2, <2>4, <2>6, <2>7, NoneAssumption
       DEF TaskOK, HoldsRun, ChatAhead, BatchAhead, RunningApproved, Approved, Busy, Own
  <2>9. /\ \A k \in 1..Len(ran[r]) : Before(ran[r][k], r)'
        /\ \A c \in ConfIds : conf[c].run = r => Before(conf[c], r)'
    BY <2>6, <2>7 DEF Before
  <2>. QED BY <1>1, <2>1, <2>2, <2>3, <2>8, <2>9, OwnStep
<1>5. CASE ~(s.steps < MaxSteps)
  <2>1. /\ task' = [task EXCEPT ![t] = IdleTask]
        /\ run' = [run EXCEPT ![task[t].run] = s]
        /\ stored' = stored \ {task[t].run}
    BY <1>5 DEF LoopHead
  <2>. QED BY <1>3, <2>1, TaskEnds
<1>. QED BY <1>4, <1>5

\* _advance_plan touches neither the position of a run nor its pending batch.
LEMMA AdvancePlanKeeps ==
    ASSUME NEW s \in RunState, NEW ok \in BOOLEAN
    PROVE  /\ AdvancePlan(s, ok) \in RunState
           /\ AdvancePlan(s, ok).steps = s.steps
           /\ AdvancePlan(s, ok).pendingIndex = s.pendingIndex
<1>1. /\ s.plan \in Seq(Steps) /\ s.completed \in Seq(Steps) /\ s.currentStep \in Nat
      /\ s.failed \in SUBSET Steps
  BY DEF RunState
<1>2. CASE s.currentStep >= Len(s.plan)
  BY <1>2 DEF AdvancePlan
<1>3. CASE ~(s.currentStep >= Len(s.plan))
  <2> DEFINE step == s.plan[s.currentStep + 1]
  <2>1. step \in Steps BY <1>1, <1>3
  <2>2. /\ Append(s.completed, step) \in Seq(Steps)
        /\ s.failed \cup {step} \in SUBSET Steps
        /\ s.currentStep + 1 \in Nat
    BY <1>1, <2>1
  <2> HIDE DEF step
  <2>3. [s EXCEPT !.completed = Append(s.completed, step),
                  !.currentStep = s.currentStep + 1] \in RunState
    BY <2>2 DEF RunState
  <2>4. [s EXCEPT !.failed = s.failed \cup {step}] \in RunState
    BY <2>2 DEF RunState
  <2>5. AdvancePlan(s, ok) =
          IF ok THEN [s EXCEPT !.completed = Append(s.completed, step),
                               !.currentStep = s.currentStep + 1]
                ELSE [s EXCEPT !.failed = s.failed \cup {step}]
    BY <1>3 DEF AdvancePlan, step
  <2>. QED BY <2>3, <2>4, <2>5 DEF RunState
<1>. QED BY <1>2, <1>3

\* A coroutine that awaits the replanner before it goes on.
LEMMA AwaitReplan ==
    ASSUME IInv, NEW t \in Tasks,
           AtCall(t) \/ task[t].pc \in {"tool", "running"},
           NEW s \in RunState,
           s.steps = Own(t).steps,
           s.pendingIndex = Own(t).pendingIndex,
           run' = [run EXCEPT ![task[t].run] = s],
           task' = [task EXCEPT ![t].pc = "replan", ![t].left = 0],
           UNCHANGED <<created, stored, conf, ran, now>>
    PROVE  IInv'
<1>1. PICK r \in Runs : r = task[t].run BY AtIndex, BusyTask
<1>2. /\ Busy(t) /\ task[t] \in TaskRec /\ r \in stored
      /\ task[t].i \in 1..Len(task[t].batch)
      /\ task[t].i = run[r].pendingIndex
  BY <1>1, AtIndex, BusyTask
<1> DEFINE v == [task[t] EXCEPT !.pc = "replan", !.left = 0]
<1>3. /\ v \in TaskRec /\ v.pc = "replan" /\ v.run = r
      /\ v.i = task[t].i /\ v.decision = task[t].decision /\ v.batch = task[t].batch
  BY <1>1, <1>2 DEF TaskRec, Pc
<1>4. task' = [task EXCEPT ![t] = v] OBVIOUS
<1> HIDE DEF v
<1>5. task'[t] = v /\ run'[r] = s /\ run[r] = Own(t)
  BY <1>1, <1>4 DEF IInv, TypeOK, Own
<1>6. HistoryBehind /\ TaskOK(t) BY DEF IInv
<1>7. /\ \A k \in 1..Len(ran[r]) : Before(ran[r][k], r)' \/ At(ran[r][k], r)'
      /\ \A c \in ConfIds : conf[c].run = r => Before(conf[c], r)' \/ At(conf[c], r)'
  BY <1>5, <1>6, NoneAssumption DEF HistoryBehind, Before, At
<1>8. TaskOK(t)'
  <2>1. HoldsRun(t)'
    <3>1. task[t].i >= 1 /\ task[t].i <= Len(task[t].batch) BY <1>2
    <3>2. task[t].i = s.pendingIndex BY <1>2, <1>5
    <3>. QED BY <1>2, <1>3, <1>5, <3>1, <3>2, NoneAssumption DEF HoldsRun, Busy, Own
  <2>2. ChatAhead(t)' /\ BatchAhead(t)' /\ RunningApproved(t)'
    BY <1>3, <1>5 DEF ChatAhead, BatchAhead, RunningApproved
  <2>3. Approved(t)' BY <1>1, <1>3, <1>5, <1>6 DEF TaskOK, Approved, Own
  <2>. QED BY <2>1, <2>2, <2>3 DEF TaskOK
<1>. QED BY <1>1, <1>2, <1>3, <1>4, <1>7, <1>8, OwnStep

LEMMA CallFinished ==
    ASSUME IInv, NEW t \in Tasks, NEW ok \in BOOLEAN,
           AtCall(t) \/ task[t].pc \in {"tool", "running"},
           FinishCall(t, ok),
           UNCHANGED <<created, stored, conf, ran, now>>
    PROVE  IInv'
<1> DEFINE a == [Own(t) EXCEPT !.answers = Append(Own(t).answers, TheCall(t))]
           s == AdvancePlan(a, ok)
           w == [s EXCEPT !.replanned = TRUE]
<1>1. Own(t) \in RunState /\ TheCall(t) \in Calls BY AtIndex, BusyTask
<1>2. Append(Own(t).answers, TheCall(t)) \in Seq(Calls)
  <2>1. Own(t).answers \in Seq(Calls) BY <1>1 DEF RunState
  <2>. QED BY <1>1, <2>1
<1>3. a \in RunState /\ a.steps = Own(t).steps /\ a.pendingIndex = Own(t).pendingIndex
  BY <1>1, <1>2 DEF RunState
<1> HIDE DEF a
<1>4. s \in RunState /\ s.steps = Own(t).steps /\ s.pendingIndex = Own(t).pendingIndex
  BY <1>3, AdvancePlanKeeps
<1>5. w \in RunState /\ w.steps = Own(t).steps /\ w.pendingIndex = Own(t).pendingIndex
  BY <1>4 DEF RunState
<1>6. CASE ~ok /\ ~s.replanned /\ s.failed # {}
  <2>1. /\ run' = [run EXCEPT ![task[t].run] = w]
        /\ task' = [task EXCEPT ![t].pc = "replan", ![t].left = 0]
    BY <1>6 DEF FinishCall, a
  <2> HIDE DEF s, w
  <2>. QED BY <1>5, <2>1, AwaitReplan
<1>7. CASE ~(~ok /\ ~s.replanned /\ s.failed # {})
  <2>1. Record(t, s) BY <1>7 DEF FinishCall, a
  <2> HIDE DEF s
  <2>. QED BY <1>4, <2>1, NextCall
<1>. QED BY <1>6, <1>7

(* The actions of a coroutine *)

\* Assigning a record to itself: what an action that leaves run alone does.
LEMMA SameRun ==
    ASSUME IInv, NEW t \in Tasks, Busy(t), run' = run
    PROVE  run' = [run EXCEPT ![task[t].run] = Own(t)] /\ Own(t) \in RunState
  BY BusyTask DEF IInv, TypeOK, Own

LEMMA PlanReadyStep ==
    ASSUME IInv, NEW t \in Tasks, NEW plan \in Plans, PlanReady(t, plan)
    PROVE  IInv'
<1> DEFINE s == [Own(t) EXCEPT !.plan = plan]
<1>1. Busy(t) /\ Own(t) \in RunState BY BusyTask DEF PlanReady, Busy
<1>2. plan \in Seq(Steps) BY CallsAssumption
<1>3. s \in RunState /\ s.steps = Own(t).steps /\ s.pendingIndex = Own(t).pendingIndex
  BY <1>1, <1>2 DEF RunState
<1>4. LoopHead(t, s) /\ UNCHANGED <<created, conf, ran, now>> BY DEF PlanReady
<1> HIDE DEF s
<1>. QED BY <1>1, <1>3, <1>4, NextStep

LEMMA BatchDoneStep ==
    ASSUME IInv, NEW t \in Tasks, BatchDone(t)
    PROVE  IInv'
<1>1. Busy(t) /\ Own(t) \in RunState BY BusyTask DEF BatchDone, Busy
<1>. QED BY <1>1, NextStep DEF BatchDone

LEMMA StopStep ==
    ASSUME IInv, NEW t \in Tasks, ChatAnswers(t) \/ Abort(t)
    PROVE  IInv'
<1>1. Busy(t) BY DEF ChatAnswers, Abort, Busy
<1>2. /\ run' = [run EXCEPT ![task[t].run] = Own(t)] /\ Own(t) \in RunState
  BY <1>1, SameRun DEF ChatAnswers, Abort
<1>3. Own(t).pendingIndex >= Own(t).pendingIndex BY <1>2 DEF RunState
<1>4. /\ task' = [task EXCEPT ![t] = IdleTask]
      /\ stored' \in {stored, stored \ {task[t].run}}
      /\ UNCHANGED <<created, conf, ran, now>>
  BY DEF ChatAnswers, Abort, Discard
<1>. QED BY <1>1, <1>2, <1>3, <1>4, TaskEnds

LEMMA CutBatchStep ==
    ASSUME IInv, NEW t \in Tasks, CutBatch(t)
    PROVE  IInv'
<1>1. /\ Busy(t) /\ task[t].pc = "batch" /\ task[t].i <= Len(task[t].batch)
  BY DEF CutBatch, Busy
<1>2. Own(t) \in RunState /\ task[t] \in TaskRec BY <1>1, BusyTask
<1>3. task[t].i = Own(t).pendingIndex /\ task[t].i >= 1 BY <1>1 DEF IInv, TaskOK, HoldsRun
<1>4. /\ task[t].batch \in Seq(Calls) /\ task[t].i \in Nat BY <1>2 DEF TaskRec
<1> DEFINE n == Len(task[t].batch)
           rest == SubSeq(task[t].batch, task[t].i, n)
           s == [Own(t) EXCEPT !.answers = Own(t).answers \o rest, !.pendingIndex = n + 1]
<1>5. n + 1 \in Nat /\ n + 1 >= Own(t).pendingIndex BY <1>1, <1>3, <1>4
<1>6. rest \in Seq(Calls) BY <1>1, <1>3, <1>4
<1>7. Own(t).answers \o rest \in Seq(Calls)
  <2>1. Own(t).answers \in Seq(Calls) BY <1>2 DEF RunState
  <2> HIDE DEF rest
  <2>. QED BY <1>6, <2>1
<1> HIDE DEF n, rest
<1>8. s \in RunState /\ s.steps = Own(t).steps /\ s.pendingIndex = n + 1
  BY <1>2, <1>5, <1>7 DEF RunState
<1>9. /\ run' = [run EXCEPT ![task[t].run] = s]
      /\ task' = [task EXCEPT ![t] = IdleTask]
      /\ stored' \in {stored, stored \ {task[t].run}}
      /\ UNCHANGED <<created, conf, ran, now>>
  BY DEF CutBatch, Discard, Own, n, rest
<1> HIDE DEF s
<1>. QED BY <1>1, <1>5, <1>8, <1>9, TaskEnds

LEMMA ChatFailsStep ==
    ASSUME IInv, NEW t \in Tasks, ChatFails(t)
    PROVE  IInv'
<1>1. Busy(t) /\ task[t].pc = "chat" BY DEF ChatFails, Busy
<1>2. PICK r \in Runs : r = task[t].run BY <1>1, BusyTask
<1>3. /\ run' = [run EXCEPT ![task[t].run] = Own(t)] /\ Own(t) \in RunState /\ run' = run
  BY <1>1, SameRun DEF ChatFails
<1>4. CASE task[t].left > 1
  <2> DEFINE v == [task[t] EXCEPT !.left = task[t].left - 1]
  <2>1. task[t] \in TaskRec /\ r \in stored BY <1>1, <1>2, BusyTask
  <2>2. task[t].left - 1 \in Nat BY <1>4, <2>1 DEF TaskRec
  <2>3. /\ v \in TaskRec /\ v.pc = "chat" /\ v.run = r /\ v.decision = task[t].decision
        /\ v.i = task[t].i
    BY <1>1, <1>2, <2>1, <2>2 DEF TaskRec
  <2>4. task' = [task EXCEPT ![t] = v] /\ stored' = stored /\ UNCHANGED <<created, conf, ran, now>>
    BY <1>4 DEF ChatFails
  <2> HIDE DEF v
  <2>5. task'[t] = v BY <2>4 DEF IInv, TypeOK
  <2>6. HistoryBehind /\ TaskOK(t) BY DEF IInv
  <2>7. TaskOK(t)'
    BY <1>1, <1>2, <1>3, <2>1, <2>3, <2>4, <2>5, <2>6, NoneAssumption
       DEF TaskOK, HoldsRun, ChatAhead, BatchAhead, RunningApproved, Approved, Busy, Own
  <2>8. /\ \A k \in 1..Len(ran[r]) : Before(ran[r][k], r)' \/ At(ran[r][k], r)'
        /\ \A c \in ConfIds : conf[c].run = r => Before(conf[c], r)' \/ At(conf[c], r)'
    BY <1>3, <2>4, <2>6, NoneAssumption DEF HistoryBehind, Before, At
  <2>. QED BY <1>1, <1>2, <1>3, <2>3, <2>4, <2>7, <2>8, OwnStep
<1>5. CASE ~(task[t].left > 1)
  <2>1. Own(t).pendingIndex >= Own(t).pendingIndex BY <1>3 DEF RunState
  <2>2. /\ task' = [task EXCEPT ![t] = IdleTask]
        /\ stored' \in {stored, stored \ {task[t].run}}
        /\ UNCHANGED <<created, conf, ran, now>>
    BY <1>5 DEF ChatFails, Discard
  <2>. QED BY <1>1, <1>3, <2>1, <2>2, TaskEnds
<1>. QED BY <1>4, <1>5

LEMMA ChatAsksStep ==
    ASSUME IInv, NEW t \in Tasks, NEW batch \in Batches, ChatAsks(t, batch)
    PROVE  IInv'
<1>1. Busy(t) /\ task[t].pc = "chat" BY DEF ChatAsks, Busy
<1>2. PICK r \in Runs : r = task[t].run BY <1>1, BusyTask
<1>3. /\ task[t] \in TaskRec /\ r \in stored /\ run[r] \in RunState /\ Own(t) = run[r]
  BY <1>1, <1>2, BusyTask DEF Own
<1>4. batch \in Seq(Calls) /\ <<>> \in Seq(Calls) BY CallsAssumption
<1> DEFINE v == [task[t] EXCEPT !.pc = "batch", !.i = 1, !.batch = batch, !.left = 0]
           s == [run[r] EXCEPT !.asked = batch, !.answers = <<>>, !.pendingIndex = 1]
<1>5. /\ v \in TaskRec /\ v.pc = "batch" /\ v.run = r /\ v.i = 1
      /\ v.decision = task[t].decision
  BY <1>2, <1>3, <1>4 DEF TaskRec, Pc
<1>6. s \in RunState /\ s.steps = run[r].steps /\ s.pendingIndex = 1
  BY <1>3, <1>4 DEF RunState
<1>7. /\ task' = [task EXCEPT ![t] = v]
      /\ run' = [run EXCEPT ![task[t].run] = s]
      /\ UNCHANGED <<created, stored, conf, ran, now>>
  BY <1>2 DEF ChatAsks
<1> HIDE DEF v, s
<1>8. task'[t] = v /\ run'[r] = s BY <1>2, <1>7 DEF IInv, TypeOK
<1>9. HistoryBehind /\ TaskOK(t) BY DEF IInv
<1>10. /\ \A k \in 1..Len(ran[r]) : Before(ran[r][k], r)'
       /\ \A c \in ConfIds : conf[c].run = r => Before(conf[c], r)'
  BY <1>1, <1>2, <1>3, <1>6, <1>7, <1>8, <1>9 DEF TaskOK, ChatAhead, Before
<1>11. TaskOK(t)'
  <2>1. HoldsRun(t)' BY <1>3, <1>5, <1>6, <1>7, <1>8, NoneAssumption DEF HoldsRun, Busy, Own
  <2>2. BatchAhead(t)' BY <1>5, <1>7, <1>8, <1>10 DEF BatchAhead
  <2>3. ChatAhead(t)' /\ RunningApproved(t)' BY <1>5, <1>8 DEF ChatAhead, RunningApproved
  <2>4. Approved(t)'
    <3>1. \A c \in ConfIds : conf[c].run = r => conf[c].step # Own(t).steps
      BY <1>1, <1>2, <1>3, <1>9, PositionTypes DEF TaskOK, ChatAhead
    <3>2. task[t].decision # "approved" BY <1>2, <1>9, <3>1 DEF TaskOK, Approved
    <3>. QED BY <1>5, <1>8, <3>2 DEF Approved
  <2>. QED BY <2>1, <2>2, <2>3, <2>4 DEF TaskOK
<1>. QED BY <1>1, <1>2, <1>5, <1>6, <1>7, <1>10, <1>11, OwnStep

LEMMA MalformedStep ==
    ASSUME IInv, NEW t \in Tasks, AnswerMalformed(t)
    PROVE  IInv'
<1> DEFINE s == [Own(t) EXCEPT !.answers = Append(Own(t).answers, TheCall(t))]
<1>1. AtCall(t) BY DEF AnswerMalformed
<1>2. Own(t) \in RunState /\ TheCall(t) \in Calls BY <1>1, AtIndex, BusyTask
<1>3. Own(t).answers \in Seq(Calls) BY <1>2 DEF RunState
<1>4. Append(Own(t).answers, TheCall(t)) \in Seq(Calls) BY <1>2, <1>3
<1>5. s \in RunState /\ s.steps = Own(t).steps BY <1>2, <1>4 DEF RunState
<1>6. Record(t, s) /\ UNCHANGED <<created, stored, conf, ran, now>> BY DEF AnswerMalformed
<1> HIDE DEF s
<1>. QED BY <1>1, <1>5, <1>6, NextCall

LEMMA DeniedStep ==
    ASSUME IInv, NEW t \in Tasks, AnswerDenied(t)
    PROVE  IInv'
  BY CallFinished DEF AnswerDenied

LEMMA ReplannedStep ==
    ASSUME IInv, NEW t \in Tasks, Replanned(t)
    PROVE  IInv'
<1>1. task[t].pc = "replan" /\ UNCHANGED <<created, stored, conf, ran, now>> BY DEF Replanned
<1>2. Own(t) \in RunState BY <1>1, AtIndex, BusyTask
<1>3. PICK plan \in Plans \cup {Own(t).plan} : Record(t, [Own(t) EXCEPT !.plan = plan])
  BY DEF Replanned
<1>4. plan \in Seq(Steps) BY <1>2, CallsAssumption DEF RunState
<1> DEFINE s == [Own(t) EXCEPT !.plan = plan]
<1>5. s \in RunState /\ s.steps = Own(t).steps BY <1>2, <1>4 DEF RunState
<1>6. Record(t, s) BY <1>3
<1> HIDE DEF s
<1>. QED BY <1>1, <1>5, <1>6, NextCall

\* A coroutine that goes on to an attempt of dispatch: of a call just looked at,
\* or, after a failed one, of the same call again.
LEMMA NextAttempt ==
    ASSUME IInv, NEW t \in Tasks, NEW n \in Nat,
           AtCall(t) \/ task[t].pc \in {"tool", "running"},
           AtCall(t) => /\ Forced(t) # "denied"
                        /\ Forced(t) = "approved" \/ TheCall(t) \notin Gated,
           task' = [task EXCEPT ![t].pc = "tool", ![t].left = n],
           UNCHANGED <<run, created, stored, conf, ran, now>>
    PROVE  IInv'
<1>1. PICK r \in Runs : r = task[t].run BY AtIndex, BusyTask
<1>2. /\ Busy(t) /\ task[t] \in TaskRec /\ r \in stored
      /\ task[t].i \in 1..Len(task[t].batch)
      /\ task[t].i = run[r].pendingIndex
  BY <1>1, AtIndex, BusyTask
<1> DEFINE v == [task[t] EXCEPT !.pc = "tool", !.left = n]
<1>3. /\ v \in TaskRec /\ v.pc = "tool" /\ v.run = r
      /\ v.i = task[t].i /\ v.decision = task[t].decision /\ v.batch = task[t].batch
  BY <1>1, <1>2 DEF TaskRec, Pc
<1>4. task' = [task EXCEPT ![t] = v] OBVIOUS
<1> HIDE DEF v
<1>5. task'[t] = v BY <1>1, <1>4 DEF IInv, TypeOK
<1>6. HistoryBehind /\ TaskOK(t) BY DEF IInv
<1>7. /\ \A k \in 1..Len(ran[r]) : Before(ran[r][k], r)' \/ At(ran[r][k], r)'
      /\ \A c \in ConfIds : conf[c].run = r => Before(conf[c], r)' \/ At(conf[c], r)'
  BY <1>6, NoneAssumption DEF HistoryBehind, Before, At
<1>8. TaskOK(t)'
  <2>1. HoldsRun(t)'
    <3>1. task[t].i >= 1 /\ task[t].i <= Len(task[t].batch) BY <1>2
    <3>. QED BY <1>2, <1>3, <1>5, <3>1, NoneAssumption DEF HoldsRun, Busy, Own
  <2>2. ChatAhead(t)' /\ BatchAhead(t)' BY <1>3, <1>5 DEF ChatAhead, BatchAhead
  <2>3. RunningApproved(t)'
    <3>1. CASE AtCall(t)
      <4>1. task[t].decision \in Decision BY <1>2 DEF TaskRec
      <4>2. Forced(t) = task[t].decision BY <1>1, <1>2 DEF Forced, Own
      <4>3. task[t].pc = "batch" BY <3>1 DEF AtCall
      <4>4. \A c \in ConfIds : conf[c].run = r =>
              Before(conf[c], r) \/ conf[c].status = "approved"
        <5>1. ASSUME NEW c \in ConfIds, conf[c].run = r
              PROVE  Before(conf[c], r) \/ conf[c].status = task[t].decision
          BY <1>1, <1>6, <4>3, <5>1 DEF TaskOK, BatchAhead
        <5>2. \A c \in ConfIds : conf[c].status # None
          BY NoneAssumption DEF IInv, TypeOK, Confirmation, Status
        <5>. QED BY <3>1, <4>1, <4>2, <5>1, <5>2 DEF Decision
      <4>5. TheCall(t) \in Gated => task[t].decision = "approved" BY <3>1, <4>2
      <4>. QED BY <1>3, <1>5, <4>4, <4>5 DEF RunningApproved, TheCall, Before
    <3>2. CASE task[t].pc \in {"tool", "running"}
      BY <1>1, <1>3, <1>5, <1>6, <3>2 DEF TaskOK, RunningApproved, TheCall, Before
    <3>. QED BY <3>1, <3>2
  <2>4. Approved(t)' BY <1>1, <1>3, <1>5, <1>6 DEF TaskOK, Approved, Own
  <2>. QED BY <2>1, <2>2, <2>3, <2>4 DEF TaskOK
<1>9. run' = [run EXCEPT ![task[t].run] = Own(t)] /\ Own(t) \in RunState
  BY <1>2, SameRun
<1>. QED BY <1>1, <1>2, <1>3, <1>4, <1>7, <1>8, <1>9, OwnStep

LEMMA DispatchStep ==
    ASSUME IInv, NEW t \in Tasks, Dispatch(t)
    PROVE  IInv'
<1>1. Attempts(TheCall(t)) \in Nat BY LimitsAssumption DEF Attempts
<1>2. /\ AtCall(t)
      /\ Forced(t) # "denied"
      /\ Forced(t) = "approved" \/ TheCall(t) \notin Gated
  BY NoneAssumption DEF Dispatch
<1>3. /\ task' = [task EXCEPT ![t].pc = "tool", ![t].left = Attempts(TheCall(t))]
      /\ UNCHANGED <<run, created, stored, conf, ran, now>>
  BY DEF Dispatch
<1>. QED BY <1>1, <1>2, <1>3, NextAttempt

LEMMA AttemptStep ==
    ASSUME IInv, NEW t \in Tasks, NEW ok \in BOOLEAN,
           \/ RejectCall(t)
           \/ ToolReturns(t, ok)
    PROVE  IInv'
<1>1. PICK good \in BOOLEAN :
        /\ task[t].pc \in {"tool", "running"}
        /\ EndAttempt(t, good)
        /\ UNCHANGED <<created, stored, conf, ran, now>>
  BY DEF RejectCall, ToolReturns
<1>2. CASE ~good /\ task[t].left > 1
  <2>1. task[t] \in TaskRec BY <1>1, AtIndex, BusyTask
  <2>2. task[t].left - 1 \in Nat BY <1>2, <2>1 DEF TaskRec
  <2>3. /\ task' = [task EXCEPT ![t].pc = "tool", ![t].left = task[t].left - 1]
        /\ run' = run
    BY <1>1, <1>2 DEF EndAttempt
  <2>4. ~AtCall(t) BY <1>1 DEF AtCall
  <2>. QED BY <1>1, <2>2, <2>3, <2>4, NextAttempt
<1>3. CASE ~(~good /\ task[t].left > 1)
  <2>1. FinishCall(t, good) BY <1>1, <1>3 DEF EndAttempt
  <2>. QED BY <1>1, <2>1, CallFinished
<1>. QED BY <1>2, <1>3

\* An element of an appended sequence is an old one or the new one.
LEMMA AppendCases ==
    ASSUME NEW q \in Seq(Effect), NEW e \in Effect, NEW k \in 1..Len(Append(q, e))
    PROVE  \/ k \in 1..Len(q) /\ Append(q, e)[k] = q[k]
           \/ Append(q, e)[k] = e
  OBVIOUS

\* A tool that starts leaves a trace in ran; it is the call the run stands at.
LEMMA StartToolStep ==
    ASSUME IInv, NEW t \in Tasks, StartTool(t)
    PROVE  IInv'
<1>1. Busy(t) /\ task[t].pc = "tool" BY DEF StartTool, Busy
<1>2. PICK r \in Runs : r = task[t].run BY <1>1, BusyTask
<1>3. /\ task[t] \in TaskRec /\ r \in stored /\ r \in created /\ run[r] \in RunState /\ Own(t) = run[r]
      /\ \A u \in Tasks : task[u].run = r => u = t
      /\ \A c \in ConfIds : conf[c].status = "pending" => conf[c].run # r
  BY <1>1, <1>2, BusyTask DEF Own
<1>4. /\ task[t].i \in 1..Len(task[t].batch) /\ task[t].i = run[r].pendingIndex
      /\ TheCall(t) \in Calls
  BY <1>1, <1>2, AtIndex
<1> DEFINE e == [step |-> run[r].steps, idx |-> task[t].i, call |-> TheCall(t)]
           v == [task[t] EXCEPT !.pc = "running"]
<1>5. e \in Effect /\ e.step = run[r].steps /\ e.idx = run[r].pendingIndex /\ e.call = TheCall(t)
  BY <1>3, <1>4 DEF Effect, RunState
<1>6. /\ v \in TaskRec /\ v.pc = "running" /\ v.run = r /\ v.i = task[t].i
      /\ v.decision = task[t].decision /\ v.batch = task[t].batch
  BY <1>2, <1>3 DEF TaskRec, Pc
<1>7. /\ task' = [task EXCEPT ![t] = v]
      /\ ran' = [ran EXCEPT ![r] = Append(ran[r], e)]
      /\ UNCHANGED <<run, created, stored, conf, now>>
  BY <1>2, <1>3 DEF StartTool
<1> HIDE DEF e, v
<1>8. /\ task'[t] = v
      /\ \A u \in Tasks : u # t => task'[u] = task[u]
      /\ \A q \in Runs : ran[q] \in Seq(Effect)
      /\ \A q \in Runs : q # r => ran'[q] = ran[q]
      /\ ran'[r] = Append(ran[r], e)
  BY <1>7 DEF IInv, TypeOK
<1>9. /\ TypeOK /\ OneTaskPerRun /\ ParkedAtConfirmation /\ HistoryBehind /\ ParkedAhead
      /\ RefusedNeverRuns /\ GatedNeedsApproval
      /\ \A u \in Tasks : TaskOK(u)
  BY DEF IInv
<1>10. ASSUME NEW q \in Runs, NEW k \in 1..Len(ran'[q])
       PROVE  \/ k \in 1..Len(ran[q]) /\ ran'[q][k] = ran[q][k]
              \/ q = r /\ ran'[q][k] = e
  <2>1. CASE q # r BY <1>8, <2>1
  <2>2. CASE q = r
    <3>1. ran[r] \in Seq(Effect) /\ ran'[q] = Append(ran[r], e) BY <1>8, <2>2
    <3>2. k \in 1..Len(Append(ran[r], e)) BY <2>2, <3>1
    <3>3. \/ k \in 1..Len(ran[r]) /\ Append(ran[r], e)[k] = ran[r][k]
          \/ Append(ran[r], e)[k] = e
      BY <1>5, <3>1, <3>2, AppendCases
    <3>. QED BY <2>2, <3>1, <3>3
  <2>. QED BY <2>1, <2>2
<1>11. TypeOK' BY <1>5, <1>6, <1>7, <1>8, <1>9 DEF TypeOK
<1>12. OneTaskPerRun'
  <2>1. \A u \in Tasks : task'[u].run = task[u].run /\ (Busy(u)' <=> Busy(u))
    BY <1>1, <1>2, <1>6, <1>8 DEF Busy
  <2>. QED BY <1>9, <2>1 DEF OneTaskPerRun
<1>13. ParkedAtConfirmation'
  <2>1. \A u \in Tasks : task'[u].run = task[u].run BY <1>2, <1>6, <1>8
  <2>. QED BY <1>7, <1>9, <2>1 DEF ParkedAtConfirmation
<1>14. HistoryBehind'
  <2>1. \A q \in Runs \ created : ran'[q] = <<>>
    BY <1>3, <1>8, <1>9 DEF HistoryBehind
  <2>2. ASSUME NEW q \in Runs, NEW k \in 1..Len(ran'[q])
        PROVE  (Before(ran[q][k], q) \/ At(ran[q][k], q))'
    <3>1. CASE k \in 1..Len(ran[q]) /\ ran'[q][k] = ran[q][k]
      BY <1>7, <1>9, <3>1 DEF HistoryBehind, Before, At
    <3>2. CASE q = r /\ ran'[q][k] = e
      BY <1>5, <1>7, <3>2 DEF At
    <3>. QED BY <1>10, <3>1, <3>2
  <2>3. \A c \in ConfIds : conf'[c] = conf[c] BY <1>7
  <2>4. \A c \in ConfIds : (Before(conf[c], conf[c].run) \/ At(conf[c], conf[c].run))'
                           <=> (Before(conf[c], conf[c].run) \/ At(conf[c], conf[c].run))
    BY <1>7 DEF Before, At
  <2>. QED BY <1>7, <1>9, <2>1, <2>2, <2>4 DEF HistoryBehind
<1>15. ParkedAhead'
  <2>1. \A c \in ConfIds : conf[c].status = "pending" => conf[c].run \in Runs /\ ran'[conf[c].run] = ran[conf[c].run]
    BY <1>3, <1>8, <1>9 DEF ParkedAtConfirmation, TypeOK
  <2>2. \A p, q : Before(p, q)' <=> Before(p, q) BY <1>7 DEF Before
  <2>3. conf' = conf BY <1>7
  <2>. QED BY <1>9, <2>1, <2>2, <2>3 DEF ParkedAhead
<1>16. ASSUME NEW u \in Tasks PROVE TaskOK(u)'
  <2>1. CASE u = t
    <3>1. HoldsRun(t)'
      BY <1>1, <1>2, <1>3, <1>4, <1>6, <1>7, <1>8, NoneAssumption DEF HoldsRun, Busy, Own
    <3>2. ChatAhead(t)' /\ BatchAhead(t)' BY <1>6, <1>8 DEF ChatAhead, BatchAhead
    <3>3. RunningApproved(t)'
      BY <1>1, <1>2, <1>6, <1>7, <1>8, <1>9 DEF TaskOK, RunningApproved, TheCall, Before
    <3>4. Approved(t)'
      <4>1. Approved(t) BY <1>9 DEF TaskOK
      <4>2. /\ task'[t].decision = task[t].decision /\ task'[t].run = task[t].run
            /\ task'[t].i = task[t].i
        BY <1>2, <1>6, <1>8
      <4>. QED BY <1>7, <4>1, <4>2 DEF Approved, Own
    <3>. QED BY <2>1, <3>1, <3>2, <3>3, <3>4 DEF TaskOK
  <2>2. CASE u # t
    <3>1. task'[u] = task[u] /\ task[u].run # r BY <1>3, <1>8, <2>2
    <3>2. TaskOK(u) BY <1>9
    <3>3. HoldsRun(u)' /\ RunningApproved(u)' /\ Approved(u)'
      BY <1>7, <3>1, <3>2 DEF TaskOK, HoldsRun, RunningApproved, Approved, Busy, Own, TheCall, Before
    <3>4. CASE Busy(u)
      <4>1. ran'[task[u].run] = ran[task[u].run] BY <1>8, <3>1, <3>4, BusyTask
      <4>. QED BY <1>7, <3>1, <3>2, <3>3, <4>1 DEF TaskOK, ChatAhead, BatchAhead, Own, Before
    <3>5. CASE ~Busy(u)
      BY <3>1, <3>3, <3>5 DEF TaskOK, ChatAhead, BatchAhead, Busy
    <3>. QED BY <3>4, <3>5
  <2>. QED BY <2>1, <2>2
<1>17. RefusedNeverRuns'
  <2>1. ASSUME NEW c \in ConfIds, conf[c].status \in {"pending", "denied", "expired"},
               NEW k \in 1..Len(ran'[conf[c].run])
        PROVE  ~ /\ ran'[conf[c].run][k].step = conf[c].step
                 /\ ran'[conf[c].run][k].idx = conf[c].idx
    <3>1. conf[c].run \in Runs BY <1>9, <2>1 DEF HistoryBehind, TypeOK
    <3>2. CASE k \in 1..Len(ran[conf[c].run]) /\ ran'[conf[c].run][k] = ran[conf[c].run][k]
      BY <1>9, <2>1, <3>2 DEF RefusedNeverRuns
    <3>3. CASE conf[c].run = r /\ ran'[conf[c].run][k] = e
      <4>1. Before(conf[c], r) BY <1>1, <1>2, <1>9, <2>1, <3>3 DEF TaskOK, RunningApproved
      <4>2. conf[c].step \in Nat /\ conf[c].idx \in Nat /\ run[r].steps \in Nat
            /\ run[r].pendingIndex \in Nat
        BY PositionTypes
      <4>. QED BY <1>5, <3>3, <4>1, <4>2 DEF Before
    <3>. QED BY <1>10, <3>1, <3>2, <3>3
  <2>2. conf' = conf BY <1>7
  <2>. QED BY <2>1, <2>2 DEF RefusedNeverRuns
<1>18. GatedNeedsApproval'
  <2>1. ASSUME NEW q \in Runs, NEW k \in 1..Len(ran'[q]), ran'[q][k].call \in Gated
        PROVE  \E c \in ConfIds : /\ conf[c].status = "approved"
                                   /\ conf[c].run = q
                                   /\ conf[c].step = ran'[q][k].step
                                   /\ conf[c].idx <= ran'[q][k].idx
    <3>1. CASE k \in 1..Len(ran[q]) /\ ran'[q][k] = ran[q][k]
      BY <1>9, <2>1, <3>1 DEF GatedNeedsApproval
    <3>2. CASE q = r /\ ran'[q][k] = e
      <4>1. task[t].decision = "approved"
        BY <1>1, <1>5, <1>9, <2>1, <3>2 DEF TaskOK, RunningApproved
      <4>2. PICK c \in ConfIds : /\ conf[c].status = "approved" /\ conf[c].run = r
                                 /\ conf[c].step = run[r].steps /\ conf[c].idx <= task[t].i
        BY <1>2, <1>9, <4>1 DEF TaskOK, Approved, Own
      <4>. QED BY <1>4, <1>5, <3>2, <4>2
    <3>. QED BY <1>10, <3>1, <3>2
  <2>2. conf' = conf BY <1>7
  <2>. QED BY <2>1, <2>2 DEF GatedNeedsApproval
<1>. QED BY <1>11, <1>12, <1>13, <1>14, <1>15, <1>16, <1>17, <1>18 DEF IInv

(* The actions that touch confirmations *)

\* What may happen to confirmations while nothing else moves: some that are
\* open expire.
LEMMA ExpireStep ==
    ASSUME IInv,
           conf' \in [ConfIds -> Confirmation],
           \A c \in ConfIds :
             \/ conf'[c] = conf[c]
             \/ /\ conf[c].status = "pending"
                /\ conf'[c] = [conf[c] EXCEPT !.status = "expired"],
           UNCHANGED <<task, run, created, stored, ran>>,
           now' \in Nat
    PROVE  IInv'
<1>1. /\ TypeOK /\ OneTaskPerRun /\ ParkedAtConfirmation /\ HistoryBehind /\ ParkedAhead
      /\ RefusedNeverRuns /\ GatedNeedsApproval
      /\ \A u \in Tasks : TaskOK(u)
  BY DEF IInv
<1>2. ASSUME NEW c \in ConfIds
      PROVE  /\ conf'[c].run = conf[c].run /\ conf'[c].step = conf[c].step
             /\ conf'[c].idx = conf[c].idx /\ conf'[c].call = conf[c].call
             /\ \/ conf'[c].status = conf[c].status
                \/ conf[c].status = "pending" /\ conf'[c].status = "expired"
  <2>1. conf[c] \in Confirmation BY <1>1 DEF TypeOK
  <2>2. CASE conf'[c] = conf[c] BY <2>2
  <2>3. CASE conf[c].status = "pending" /\ conf'[c] = [conf[c] EXCEPT !.status = "expired"]
    BY <2>1, <2>3 DEF Confirmation
  <2>. QED BY <2>2, <2>3
<1>3. TypeOK' BY <1>1 DEF TypeOK
<1>4. OneTaskPerRun' BY <1>1 DEF OneTaskPerRun, Busy
<1>5. ParkedAtConfirmation' BY <1>1, <1>2 DEF ParkedAtConfirmation
<1>6. HistoryBehind'
  <2>1. \A q \in Runs : \A k \in 1..Len(ran[q]) : (Before(ran[q][k], q) \/ At(ran[q][k], q))'
    BY <1>1 DEF HistoryBehind, Before, At
  <2>2. ASSUME NEW c \in ConfIds
        PROVE  IF conf'[c].status = "absent" THEN conf'[c].run = None
               ELSE conf'[c].run \in created /\ (Before(conf[c], conf[c].run) \/ At(conf[c], conf[c].run))'
    BY <1>1, <1>2 DEF HistoryBehind, Before, At
  <2>. QED BY <1>1, <2>1, <2>2 DEF HistoryBehind
<1>7. ParkedAhead' BY <1>1, <1>2 DEF ParkedAhead, Before
<1>8. ASSUME NEW u \in Tasks PROVE TaskOK(u)'
  <2>1. TaskOK(u) BY <1>1
  <2>2. HoldsRun(u)' BY <2>1 DEF TaskOK, HoldsRun, Busy, Own
  <2>3. ChatAhead(u)' BY <1>2, <2>1 DEF TaskOK, ChatAhead, Own
  <2>4. \A c \in ConfIds : conf[c].run = task[u].run =>
          conf'[c].status = conf[c].status /\ (Before(conf[c], task[u].run)' <=> Before(conf[c], task[u].run))
    BY <1>1, <1>2 DEF ParkedAtConfirmation, Before
  <2>5. \A k \in 1..Len(ran[task[u].run]) :
          Before(ran[task[u].run][k], task[u].run)' <=> Before(ran[task[u].run][k], task[u].run)
    BY DEF Before
  <2>6. BatchAhead(u)' BY <1>2, <2>1, <2>4, <2>5 DEF TaskOK, BatchAhead
  <2>7. RunningApproved(u)' BY <1>2, <2>1, <2>4 DEF TaskOK, RunningApproved, TheCall
  <2>8. Approved(u)' BY <1>2, <2>1 DEF TaskOK, Approved, Own
  <2>. QED BY <2>2, <2>3, <2>6, <2>7, <2>8 DEF TaskOK
<1>9. RefusedNeverRuns' BY <1>1, <1>2 DEF RefusedNeverRuns
<1>10. GatedNeedsApproval' BY <1>1, <1>2 DEF GatedNeedsApproval
<1>. QED BY <1>3, <1>4, <1>5, <1>6, <1>7, <1>8, <1>9, <1>10 DEF IInv

\* A sweep only expires.
LEMMA SweptExpires ==
    ASSUME IInv
    PROVE  /\ Swept \in [ConfIds -> Confirmation]
           /\ \A c \in ConfIds :
                \/ Swept[c] = conf[c]
                \/ /\ conf[c].status = "pending"
                   /\ Swept[c] = [conf[c] EXCEPT !.status = "expired"]
<1>1. \A c \in ConfIds : conf[c] \in Confirmation BY DEF IInv, TypeOK
<1>2. \A c \in ConfIds : [conf[c] EXCEPT !.status = "expired"] \in Confirmation
  BY <1>1 DEF Confirmation, Status
<1>. QED BY <1>1, <1>2 DEF Swept

LEMMA StoreStep ==
    ASSUME IInv, ListPending \/ Tick \/ (\E c \in ConfIds : ResolveLate(c))
    PROVE  IInv'
<1>0. TypeOK /\ now \in Nat BY DEF IInv, TypeOK
<1>1. CASE ListPending BY <1>0, <1>1, SweptExpires, ExpireStep DEF ListPending
<1>2. CASE Tick
  <2>1. now' \in Nat BY <1>0, <1>2 DEF Tick
  <2>. QED BY <1>0, <1>2, <2>1, ExpireStep DEF Tick, TypeOK
<1>3. ASSUME NEW c \in ConfIds, ResolveLate(c) PROVE IInv'
  <2>1. \A d \in ConfIds : conf[d] \in Confirmation BY <1>0 DEF TypeOK
  <2>2. [conf[c] EXCEPT !.status = "expired"] \in Confirmation
    BY <2>1 DEF Confirmation, Status
  <2>3. conf' = [conf EXCEPT ![c] = [conf[c] EXCEPT !.status = "expired"]] BY <1>3 DEF ResolveLate
  <2>4. conf' \in [ConfIds -> Confirmation] BY <1>0, <2>2, <2>3 DEF TypeOK
  <2>5. \A d \in ConfIds : conf'[d] = conf[d] \/
          (conf[d].status = "pending" /\ conf'[d] = [conf[d] EXCEPT !.status = "expired"])
    BY <1>0, <1>3, <2>3 DEF ResolveLate, TypeOK
  <2>. QED BY <1>0, <1>3, <2>4, <2>5, ExpireStep DEF ResolveLate
<1>. QED BY <1>1, <1>2, <1>3

\* A request that ends by asking a human: its run is parked at the call.
LEMMA AskHumanStep ==
    ASSUME IInv, NEW t \in Tasks, NEW c \in ConfIds, AskHuman(t, c)
    PROVE  IInv'
<1>1. Busy(t) /\ AtCall(t) /\ task[t].pc = "batch" BY DEF AskHuman, AtCall, Busy
<1>2. PICK r \in Runs : r = task[t].run BY <1>1, BusyTask
<1>3. /\ task[t] \in TaskRec /\ r \in stored /\ r \in created /\ run[r] \in RunState /\ Own(t) = run[r]
      /\ \A u \in Tasks : task[u].run = r => u = t
      /\ \A d \in ConfIds : conf[d].status = "pending" => conf[d].run # r
  BY <1>1, <1>2, BusyTask DEF Own
<1>4. /\ task[t].i \in 1..Len(task[t].batch) /\ task[t].i = run[r].pendingIndex
      /\ TheCall(t) \in Calls /\ task[t].batch \in Seq(Calls)
  BY <1>1, <1>2, <1>3, AtIndex DEF TaskRec
<1>5. /\ TypeOK /\ OneTaskPerRun /\ ParkedAtConfirmation /\ HistoryBehind /\ ParkedAhead
      /\ RefusedNeverRuns /\ GatedNeedsApproval
      /\ \A u \in Tasks : TaskOK(u)
  BY DEF IInv
<1> DEFINE n == [status |-> "pending", run |-> r, step |-> run[r].steps,
                 idx |-> task[t].i, call |-> TheCall(t), at |-> now]
           s == [run[r] EXCEPT !.pendingBatch = task[t].batch, !.pendingIndex = task[t].i]
<1>6. /\ n \in Confirmation /\ n.status = "pending" /\ n.run = r /\ n.step = run[r].steps
      /\ n.idx = run[r].pendingIndex /\ n.call = task[t].batch[task[t].i]
  <2>1. run[r].steps \in Nat /\ now \in Nat BY <1>3, <1>5 DEF RunState, TypeOK
  <2>. QED BY <1>4, <2>1 DEF Confirmation, Status, TheCall
<1>7. /\ s \in RunState /\ s.steps = run[r].steps /\ s.pendingIndex = run[r].pendingIndex
      /\ s.pendingBatch = task[t].batch
  <2>1. task[t].i \in Nat BY <1>4
  <2>. QED BY <1>3, <1>4, <2>1 DEF RunState
<1>8. /\ task' = [task EXCEPT ![t] = IdleTask]
      /\ run' = [run EXCEPT ![r] = s]
      /\ conf' = [Swept EXCEPT ![c] = n]
      /\ stored' = stored /\ created' = created /\ ran' = ran /\ now' = now
      /\ conf[c].status = "absent" /\ Forced(t) = None
  BY <1>2, <1>3 DEF AskHuman
<1> HIDE DEF n, s
<1>9. /\ task'[t] = IdleTask /\ run'[r] = s /\ conf'[c] = n
      /\ \A u \in Tasks : u # t => task'[u] = task[u] /\ task[u].run # r
      /\ \A q \in Runs : q # r => run'[q] = run[q]
      /\ \A d \in ConfIds : d # c => conf'[d] = Swept[d]
  BY <1>3, <1>5, <1>8, SweptExpires DEF TypeOK
<1>10. ASSUME NEW d \in ConfIds, d # c
       PROVE  /\ conf'[d].run = conf[d].run /\ conf'[d].step = conf[d].step
              /\ conf'[d].idx = conf[d].idx /\ conf'[d].call = conf[d].call
              /\ \/ conf'[d].status = conf[d].status
                 \/ conf[d].status = "pending" /\ conf'[d].status = "expired"
  <2>1. conf[d] \in Confirmation BY <1>5 DEF TypeOK
  <2>2. CASE conf'[d] = conf[d] BY <2>2
  <2>3. CASE conf[d].status = "pending" /\ conf'[d] = [conf[d] EXCEPT !.status = "expired"]
    BY <2>1, <2>3 DEF Confirmation
  <2>. QED BY <1>9, <1>10, <2>2, <2>3, SweptExpires
<1>11. /\ \A q \in Runs : run'[q].steps = run[q].steps /\ run'[q].pendingIndex = run[q].pendingIndex
       /\ conf[c].run = None
  BY <1>5, <1>7, <1>8, <1>9 DEF HistoryBehind
<1>12. task[t].decision = None
  BY <1>2, <1>3, <1>4, <1>8 DEF Forced
\* Whatever this run did, or asked for, lies behind the call it now asks for.
<1>13. /\ \A k \in 1..Len(ran[r]) : Before(ran[r][k], r)
       /\ \A d \in ConfIds : conf[d].run = r => Before(conf[d], r)
  <2>1. \A d \in ConfIds : conf[d].status # None
    BY <1>5, NoneAssumption DEF TypeOK, Confirmation, Status
  <2>. QED BY <1>1, <1>2, <1>5, <1>12, <2>1 DEF TaskOK, BatchAhead
<1>14. TypeOK'
  <2>1. run' \in [Runs -> RunState] BY <1>5, <1>7, <1>8 DEF TypeOK
  <2>2. conf' \in [ConfIds -> Confirmation] BY <1>6, <1>8, SweptExpires
  <2>3. task' \in [Tasks -> TaskRec] BY <1>5, <1>8, IdleTaskOK DEF TypeOK
  <2>. QED BY <1>5, <1>8, <2>1, <2>2, <2>3 DEF TypeOK
<1>15. OneTaskPerRun'
  <2>1. \A u \in Tasks : Busy(u)' => u # t /\ task'[u] = task[u] /\ Busy(u)
    BY <1>9, IdleTaskOK DEF Busy
  <2>2. \A u \in Tasks : Busy(u) => task[u].run # None BY <1>5 DEF TaskOK, HoldsRun
  <2>. QED BY <1>5, <1>9, <2>1, <2>2, IdleTaskOK DEF OneTaskPerRun
<1>16. ParkedAtConfirmation'
  <2> DEFINE P(d) == /\ conf'[d].run \in stored'
                     /\ \A u \in Tasks : task'[u].run # conf'[d].run
                     /\ conf'[d].step = run'[conf'[d].run].steps
                     /\ conf'[d].idx = run'[conf'[d].run].pendingIndex
                     /\ run'[conf'[d].run].pendingIndex \in 1..Len(run'[conf'[d].run].pendingBatch)
                     /\ run'[conf'[d].run].pendingBatch[run'[conf'[d].run].pendingIndex] = conf'[d].call
                     /\ \A g \in ConfIds :
                          conf'[g].status = "pending" /\ conf'[g].run = conf'[d].run => g = d
  <2>0. r # None BY NoneAssumption
  <2>1. P(c)
    <3>1. \A u \in Tasks : task'[u].run # r BY <1>9, <2>0, IdleTaskOK
    <3>2. \A g \in ConfIds : conf'[g].status = "pending" /\ conf'[g].run = r => g = c
      BY <1>3, <1>10
    <3>. QED BY <1>3, <1>4, <1>6, <1>7, <1>8, <1>9, <3>1, <3>2
  <2>2. ASSUME NEW d \in ConfIds, d # c, conf'[d].status = "pending" PROVE P(d)
    <3>1. conf[d].status = "pending" /\ conf'[d].run = conf[d].run /\ conf[d].run # r
      BY <1>3, <1>10, <2>2
    <3>2. conf[d].run \in Runs /\ conf[d].run # None
      BY <1>5, <3>1, NoneAssumption DEF ParkedAtConfirmation, TypeOK
    <3>3. run'[conf[d].run] = run[conf[d].run] BY <1>9, <3>1, <3>2
    <3>4. \A u \in Tasks : task'[u].run # conf[d].run
      BY <1>5, <1>9, <3>1, <3>2, IdleTaskOK DEF ParkedAtConfirmation
    <3>5. \A g \in ConfIds : conf'[g].status = "pending" /\ conf'[g].run = conf[d].run => g = d
      <4>1. \A g \in ConfIds : g # c => (conf'[g].status = "pending" => conf[g].status = "pending")
                                        /\ conf'[g].run = conf[g].run
        BY <1>10
      <4>2. conf'[c].run = r BY <1>6, <1>9
      <4>. QED BY <1>5, <3>1, <4>1, <4>2 DEF ParkedAtConfirmation
    <3>. QED BY <1>5, <1>8, <1>10, <2>2, <3>1, <3>3, <3>4, <3>5 DEF ParkedAtConfirmation
  <2>3. \A d \in ConfIds : conf'[d].status = "pending" => P(d) BY <2>1, <2>2
  <2>. QED BY <2>3 DEF ParkedAtConfirmation
<1>17. HistoryBehind'
  <2>1. \A q \in Runs : \A k \in 1..Len(ran[q]) : (Before(ran[q][k], q) \/ At(ran[q][k], q))'
    BY <1>5, <1>8, <1>11 DEF HistoryBehind, Before, At
  <2>2. ASSUME NEW d \in ConfIds
        PROVE  IF conf'[d].status = "absent" THEN conf'[d].run = None
               ELSE conf'[d].run \in created' /\ (Before(conf[d], conf[d].run) \/ At(conf[d], conf[d].run))'
    <3>1. CASE d = c BY <1>3, <1>6, <1>8, <1>9, <1>11, <3>1 DEF At
    <3>2. CASE d # c
      <4>1. CASE conf[d].status = "absent" BY <1>5, <1>10, <3>2, <4>1 DEF HistoryBehind
      <4>2. CASE conf[d].status # "absent"
        <5>1. conf[d].run \in created /\ conf[d].run \in Runs
              /\ (Before(conf[d], conf[d].run) \/ At(conf[d], conf[d].run))
          BY <1>5, <4>2 DEF HistoryBehind, TypeOK
        <5>. QED BY <1>8, <1>10, <1>11, <3>2, <4>2, <5>1 DEF Before, At
      <4>. QED BY <4>1, <4>2
    <3>. QED BY <3>1, <3>2
  <2>. QED BY <1>5, <1>8, <2>1, <2>2 DEF HistoryBehind
<1>18. ParkedAhead'
  <2>1. ASSUME NEW d \in ConfIds, conf'[d].status = "pending"
        PROVE  /\ \A k \in 1..Len(ran[conf'[d].run]) : Before(ran[conf[d].run][k], conf[d].run)'
               /\ \A g \in ConfIds : conf'[g].run = conf'[d].run => g = d \/ Before(conf[g], conf[d].run)'
    <3>1. CASE d = c
      <4>1. conf'[d].run = r BY <1>6, <1>9, <3>1
      <4>2. \A k \in 1..Len(ran[r]) : Before(ran[conf[d].run][k], conf[d].run)'
        BY <1>8, <1>11, <1>13, <4>1 DEF Before
      <4>3. ASSUME NEW g \in ConfIds, g # c, conf'[g].run = r
            PROVE  Before(conf[g], conf[d].run)'
        BY <1>10, <1>11, <1>13, <4>1, <4>3 DEF Before
      <4>. QED BY <3>1, <4>1, <4>2, <4>3
    <3>2. CASE d # c
      <4>1. conf[d].status = "pending" /\ conf'[d].run = conf[d].run /\ conf[d].run # r
        BY <1>3, <1>10, <2>1, <3>2
      <4>2. conf[d].run \in Runs BY <1>5, <4>1 DEF ParkedAtConfirmation, TypeOK
      <4>3. conf'[c].run = r BY <1>6, <1>9
      <4>4. ASSUME NEW k \in 1..Len(ran[conf[d].run])
            PROVE  Before(ran[conf[d].run][k], conf[d].run)'
        <5>1. Before(ran[conf[d].run][k], conf[d].run) BY <1>5, <4>1 DEF ParkedAhead
        <5>. QED BY <1>8, <1>11, <4>1, <4>2, <5>1 DEF Before
      <4>5. ASSUME NEW g \in ConfIds, g # d, conf'[g].run = conf[d].run
            PROVE  Before(conf[g], conf[d].run)'
        <5>1. g # c BY <4>1, <4>3, <4>5
        <5>2. Before(conf[g], conf[d].run) BY <1>5, <1>10, <4>1, <4>5, <5>1 DEF ParkedAhead
        <5>. QED BY <1>10, <1>11, <4>1, <4>2, <5>1, <5>2 DEF Before
      <4>. QED BY <4>1, <4>4, <4>5
    <3>. QED BY <3>1, <3>2
  <2>. QED BY <1>8, <2>1 DEF ParkedAhead
<1>19. ASSUME NEW u \in Tasks PROVE TaskOK(u)'
  <2>1. CASE u = t
    BY <1>9, <2>1, IdleTaskOK, NoneAssumption DEF TaskOK, HoldsRun, ChatAhead, BatchAhead,
       RunningApproved, Approved, Busy
  <2>2. CASE u # t
    <3>1. task'[u] = task[u] /\ task[u].run # r /\ TaskOK(u) BY <1>5, <1>9, <2>2
    <3>2. CASE Busy(u)
      <4>1. task[u].run \in Runs BY <3>2, BusyTask
      <4>2. run'[task[u].run] = run[task[u].run] BY <1>9, <3>1, <4>1
      <4>3. ASSUME NEW d \in ConfIds
            PROVE  /\ conf'[d].run = task[u].run => /\ conf[d].run = task[u].run /\ d # c
                                                   /\ conf'[d] = conf[d]
                   /\ conf[d].run = task[u].run => conf'[d] = conf[d]
        <5>1. CASE d = c BY <1>6, <1>9, <1>11, <3>1, <4>1, <5>1, NoneAssumption
        <5>2. CASE d # c
          <6>1. conf[d].run = task[u].run => conf[d].status # "pending"
            BY <3>2, BusyTask
          <6>. QED BY <1>9, <1>10, <5>2, <6>1, SweptExpires
        <5>. QED BY <5>1, <5>2
      <4>4. HoldsRun(u)' BY <1>8, <3>1, <4>2 DEF TaskOK, HoldsRun, Busy, Own
      <4>5. ChatAhead(u)' BY <1>8, <3>1, <4>2, <4>3 DEF TaskOK, ChatAhead, Own
      <4>6. BatchAhead(u)' BY <1>8, <3>1, <4>2, <4>3 DEF TaskOK, BatchAhead, Before
      <4>7. RunningApproved(u)' BY <1>8, <3>1, <4>2, <4>3 DEF TaskOK, RunningApproved, Before, TheCall
      <4>8. Approved(u)' BY <1>8, <3>1, <4>2, <4>3 DEF TaskOK, Approved, Own
      <4>. QED BY <4>4, <4>5, <4>6, <4>7, <4>8 DEF TaskOK
    <3>3. CASE ~Busy(u)
      <4>1. task[u].pc = "idle" /\ task[u].run = None BY <3>1, <3>3 DEF TaskOK, HoldsRun, Busy
      <4>2. task[u].decision # "approved"
        BY <1>5, <3>1, <4>1, NoneAssumption DEF TaskOK, Approved, HistoryBehind, TypeOK
      <4>. QED BY <3>1, <4>1, <4>2 DEF TaskOK, HoldsRun, ChatAhead, BatchAhead, RunningApproved,
                 Approved, Busy
    <3>. QED BY <3>2, <3>3
  <2>. QED BY <2>1, <2>2
<1>20. RefusedNeverRuns'
  <2>1. ASSUME NEW d \in ConfIds, conf'[d].status \in {"pending", "denied", "expired"},
               NEW k \in 1..Len(ran[conf'[d].run])
        PROVE  ~ /\ ran[conf'[d].run][k].step = conf'[d].step
                 /\ ran[conf'[d].run][k].idx = conf'[d].idx
    <3>1. CASE d = c
      <4>1. conf'[d].run = r /\ conf'[d].step = run[r].steps /\ conf'[d].idx = run[r].pendingIndex
        BY <1>6, <1>9, <3>1
      <4>2. Before(ran[r][k], r) BY <1>13, <2>1, <4>1
      <4>3. /\ ran[r][k].step \in Nat /\ ran[r][k].idx \in Nat /\ run[r].steps \in Nat
            /\ run[r].pendingIndex \in Nat
        BY <2>1, <4>1, PositionTypes
      <4>. QED BY <4>1, <4>2, <4>3 DEF Before
    <3>2. CASE d # c
      BY <1>5, <1>10, <2>1, <3>2 DEF RefusedNeverRuns
    <3>. QED BY <3>1, <3>2
  <2>. QED BY <1>8, <2>1 DEF RefusedNeverRuns
<1>21. GatedNeedsApproval'
  <2>1. \A d \in ConfIds : conf[d].status = "approved" =>
          /\ conf'[d].status = "approved" /\ conf'[d].run = conf[d].run
          /\ conf'[d].step = conf[d].step /\ conf'[d].idx = conf[d].idx
    BY <1>8, <1>10
  <2>. QED BY <1>5, <1>8, <2>1 DEF GatedNeedsApproval
<1>. QED BY <1>14, <1>15, <1>16, <1>17, <1>18, <1>19, <1>20, <1>21 DEF IInv

(* The actions of clients *)

LEMMA StartRunStep ==
    ASSUME IInv, NEW t \in Tasks, NEW r \in Runs, StartRun(t, r)
    PROVE  IInv'
<1>1. /\ TypeOK /\ OneTaskPerRun /\ ParkedAtConfirmation /\ HistoryBehind /\ ParkedAhead
      /\ RefusedNeverRuns /\ GatedNeedsApproval
      /\ \A u \in Tasks : TaskOK(u)
  BY DEF IInv
<1> DEFINE v == [IdleTask EXCEPT !.pc = "planning", !.run = r]
<1>2. v \in TaskRec /\ v.pc = "planning" /\ v.run = r /\ v.decision = None
  <2>1. v \in TaskRec BY IdleTaskOK DEF TaskRec, Pc
  <2>. QED BY <2>1, IdleTaskOK DEF TaskRec
<1>3. /\ task' = [task EXCEPT ![t] = v]
      /\ created' = created \cup {r}
      /\ stored' = stored \cup {r}
      /\ UNCHANGED <<run, conf, ran, now>>
      /\ r \notin created
  BY DEF StartRun
<1> HIDE DEF v
<1>4. /\ task'[t] = v
      /\ \A u \in Tasks : u # t => task'[u] = task[u]
  BY <1>1, <1>3 DEF TypeOK
\* Nobody knows of a run that is not created yet.
<1>5. /\ \A u \in Tasks : task[u].run # r
      /\ \A c \in ConfIds : conf[c].run # r
      /\ ran[r] = <<>>
  <2>1. \A u \in Tasks : Busy(u) => task[u].run \in created BY BusyTask
  <2>2. \A u \in Tasks : ~Busy(u) => task[u].run = None BY <1>1 DEF TaskOK, HoldsRun
  <2>. QED BY <1>1, <1>3, <2>1, <2>2, NoneAssumption DEF HistoryBehind
<1>6. TypeOK' BY <1>1, <1>2, <1>3 DEF TypeOK
<1>7. OneTaskPerRun'
  <2>1. \A u \in Tasks : u # t => (Busy(u)' <=> Busy(u)) BY <1>4 DEF Busy
  <2>. QED BY <1>1, <1>2, <1>4, <1>5, <2>1 DEF OneTaskPerRun
<1>8. ParkedAtConfirmation'
  <2>1. \A u \in Tasks : \A c \in ConfIds : task[u].run # conf[c].run => task'[u].run # conf[c].run
    BY <1>2, <1>4, <1>5
  <2>. QED BY <1>1, <1>3, <2>1 DEF ParkedAtConfirmation
<1>9. HistoryBehind' BY <1>1, <1>3 DEF HistoryBehind, Before, At
<1>10. ParkedAhead' BY <1>1, <1>3 DEF ParkedAhead, Before
<1>11. ASSUME NEW u \in Tasks PROVE TaskOK(u)'
  <2>1. CASE u = t
    <3>1. HoldsRun(t)' BY <1>2, <1>3, <1>4, NoneAssumption DEF HoldsRun, Busy
    <3>. QED BY <1>2, <1>4, <2>1, <3>1, NoneAssumption
            DEF TaskOK, ChatAhead, BatchAhead, RunningApproved, Approved
  <2>2. CASE u # t
    BY <1>1, <1>3, <1>4, <2>2 DEF TaskOK, HoldsRun, ChatAhead, BatchAhead, RunningApproved,
       Approved, Busy, Own, TheCall, Before
  <2>. QED BY <2>1, <2>2
<1>12. RefusedNeverRuns' /\ GatedNeedsApproval'
  BY <1>1, <1>3 DEF RefusedNeverRuns, GatedNeedsApproval
<1>. QED BY <1>6, <1>7, <1>8, <1>9, <1>10, <1>11, <1>12 DEF IInv

\* An approval or a denial: the run is stored and parked at the very call, so
\* the request becomes the one task that works on it.
LEMMA ResolveStep ==
    ASSUME IInv, NEW t \in Tasks, NEW c \in ConfIds, NEW d \in {"approved", "denied"},
           Resolve(t, c, d)
    PROVE  IInv'
<1>1. /\ TypeOK /\ OneTaskPerRun /\ ParkedAtConfirmation /\ HistoryBehind /\ ParkedAhead
      /\ RefusedNeverRuns /\ GatedNeedsApproval
      /\ \A u \in Tasks : TaskOK(u)
  BY DEF IInv
<1>2. conf[c].status = "pending" /\ ~Busy(t) BY DEF Resolve
<1>3. PICK r \in Runs : r = conf[c].run
  BY <1>1, <1>2 DEF ParkedAtConfirmation, TypeOK
<1>4. /\ r \in stored /\ r \in created /\ \A u \in Tasks : task[u].run # r
      /\ conf[c].step = run[r].steps /\ conf[c].idx = run[r].pendingIndex
      /\ run[r].pendingIndex \in 1..Len(run[r].pendingBatch)
      /\ \A g \in ConfIds : conf[g].status = "pending" /\ conf[g].run = r => g = c
  BY <1>1, <1>2, <1>3 DEF ParkedAtConfirmation, TypeOK
<1>5. run[r] \in RunState /\ run[r].pendingIndex \in Nat /\ run[r].pendingBatch \in Seq(Calls)
  <2>1. run[r] \in RunState BY <1>1 DEF TypeOK
  <2>. QED BY <2>1 DEF RunState
<1> DEFINE v == Resumed(r, d)
           n == [conf[c] EXCEPT !.status = d]
<1>6. /\ v \in TaskRec /\ v.pc = "batch" /\ v.run = r /\ v.i = run[r].pendingIndex
      /\ v.decision = d
  BY <1>5 DEF Resumed, TaskRec, Pc, Decision
<1>7. /\ n \in Confirmation /\ n.status = d /\ n.run = r /\ n.step = conf[c].step
      /\ n.idx = conf[c].idx
  <2>1. conf[c] \in Confirmation BY <1>1 DEF TypeOK
  <2>. QED BY <1>3, <2>1 DEF Confirmation, Status
<1>8. /\ task' = [task EXCEPT ![t] = v]
      /\ conf' = [conf EXCEPT ![c] = n]
      /\ UNCHANGED <<run, created, stored, ran, now>>
  BY <1>3, <1>4 DEF Resolve
<1> HIDE DEF v, n
<1>9. /\ task'[t] = v /\ conf'[c] = n
      /\ \A u \in Tasks : u # t => task'[u] = task[u]
      /\ \A g \in ConfIds : g # c => conf'[g] = conf[g]
  BY <1>1, <1>8 DEF TypeOK
<1>10. \A g \in ConfIds : /\ conf'[g].run = conf[g].run /\ conf'[g].step = conf[g].step
                           /\ conf'[g].idx = conf[g].idx
  BY <1>3, <1>7, <1>9
<1>11. r # None BY NoneAssumption
\* The call it is resumed at has not run.
<1>12. /\ \A k \in 1..Len(ran[r]) : Before(ran[r][k], r)
       /\ \A g \in ConfIds : conf[g].run = r => g = c \/ Before(conf[g], r)
  BY <1>1, <1>2, <1>3 DEF ParkedAhead
<1>13. TypeOK' BY <1>1, <1>6, <1>7, <1>8 DEF TypeOK
<1>14. OneTaskPerRun'
  <2>1. \A u \in Tasks : u # t => (Busy(u)' <=> Busy(u)) BY <1>9 DEF Busy
  <2>. QED BY <1>1, <1>4, <1>6, <1>9, <2>1 DEF OneTaskPerRun
<1>15. ParkedAtConfirmation'
  <2>1. ASSUME NEW g \in ConfIds, conf'[g].status = "pending"
        PROVE  g # c /\ conf'[g] = conf[g] /\ conf[g].status = "pending" /\ conf[g].run # r
    <3>1. g # c BY <1>7, <1>9, <2>1
    <3>. QED BY <1>4, <1>9, <2>1, <3>1
  <2>2. ASSUME NEW g \in ConfIds, conf'[g].status = "pending", NEW u \in Tasks
        PROVE  task'[u].run # conf'[g].run
    BY <1>1, <1>6, <1>9, <2>1, <2>2 DEF ParkedAtConfirmation
  <2>3. ASSUME NEW g \in ConfIds, conf'[g].status = "pending", NEW h \in ConfIds,
               conf'[h].status = "pending", conf'[h].run = conf'[g].run
        PROVE  h = g
    BY <1>1, <2>1, <2>3 DEF ParkedAtConfirmation
  <2>. QED BY <1>1, <1>8, <2>1, <2>2, <2>3 DEF ParkedAtConfirmation
<1>16. HistoryBehind'
  <2>1. \A q \in Runs : \A k \in 1..Len(ran[q]) : (Before(ran[q][k], q) \/ At(ran[q][k], q))'
    BY <1>1, <1>8 DEF HistoryBehind, Before, At
  <2>2. ASSUME NEW g \in ConfIds
        PROVE  IF conf'[g].status = "absent" THEN conf'[g].run = None
               ELSE conf'[g].run \in created /\ (Before(conf[g], conf[g].run) \/ At(conf[g], conf[g].run))'
    <3>1. CASE g = c
      <4>1. At(conf[c], r) BY <1>4 DEF At
      <4>. QED BY <1>3, <1>4, <1>7, <1>8, <1>9, <3>1, <4>1 DEF At
    <3>2. CASE g # c BY <1>1, <1>8, <1>9, <3>2 DEF HistoryBehind, Before, At
    <3>. QED BY <3>1, <3>2
  <2>. QED BY <1>1, <1>8, <2>1, <2>2 DEF HistoryBehind
<1>17. ParkedAhead'
  <2>1. ASSUME NEW g \in ConfIds, conf'[g].status = "pending"
        PROVE  g # c /\ conf[g].status = "pending" /\ conf'[g].run = conf[g].run
    BY <1>7, <1>9, <1>10, <2>1
  <2>2. \A g \in ConfIds : \A q : Before(conf[g], q)' <=> Before(conf[g], q)
    BY <1>8, <1>10 DEF Before
  <2>3. ASSUME NEW g \in ConfIds, conf'[g].status = "pending"
        PROVE  /\ \A k \in 1..Len(ran[conf[g].run]) : Before(ran[conf[g].run][k], conf[g].run)
               /\ \A h \in ConfIds : conf'[h].run = conf[g].run => h = g \/ Before(conf[h], conf[g].run)
    BY <1>1, <1>10, <2>1, <2>3 DEF ParkedAhead
  <2>4. ASSUME NEW g \in ConfIds, conf'[g].status = "pending", NEW k \in 1..Len(ran[conf[g].run])
        PROVE  Before(ran[conf[g].run][k], conf[g].run)'
    BY <1>8, <1>10, <2>3, <2>4 DEF Before
  <2>5. ASSUME NEW g \in ConfIds, conf'[g].status = "pending",
               NEW h \in ConfIds, conf'[h].run = conf'[g].run
        PROVE  h = g \/ Before(conf[h], conf[g].run)'
    BY <1>8, <1>10, <2>3, <2>5 DEF Before
  <2>. QED BY <1>8, <1>10, <2>4, <2>5 DEF ParkedAhead
<1>18. ASSUME NEW u \in Tasks PROVE TaskOK(u)'
  <2>1. CASE u = t
    <3>1. HoldsRun(t)'
      <4>1. run[r].pendingIndex >= 1 BY <1>4
      <4>. QED BY <1>4, <1>6, <1>8, <1>9, <1>11, <4>1 DEF HoldsRun, Busy, Own
    <3>2. BatchAhead(t)'
      <4>1. \A k \in 1..Len(ran[r]) : Before(ran[r][k], r)' BY <1>8, <1>12 DEF Before
      <4>2. ASSUME NEW g \in ConfIds, conf'[g].run = r
            PROVE  Before(conf[g], r)' \/ conf'[g].status = d
        BY <1>7, <1>8, <1>9, <1>10, <1>12, <4>2 DEF Before
      <4>. QED BY <1>6, <1>8, <1>9, <4>1, <4>2 DEF BatchAhead
    <3>3. Approved(t)' BY <1>3, <1>4, <1>5, <1>6, <1>7, <1>8, <1>9 DEF Approved, Own
    <3>. QED BY <1>6, <1>9, <2>1, <3>1, <3>2, <3>3 DEF TaskOK, ChatAhead, RunningApproved
  <2>2. CASE u # t
    <3>1. task'[u] = task[u] /\ task[u].run # r /\ TaskOK(u) BY <1>1, <1>4, <1>9, <2>2
    <3>2. \A g \in ConfIds : conf'[g].run = task[u].run => conf[g].run = task[u].run /\ conf'[g] = conf[g]
      BY <1>3, <1>9, <1>10, <3>1
    <3>3. \A g \in ConfIds : conf[g].run = task[u].run => conf'[g] = conf[g]
      BY <1>3, <1>9, <3>1
    <3>4. HoldsRun(u)' BY <1>8, <3>1 DEF TaskOK, HoldsRun, Busy, Own
    <3>5. ChatAhead(u)' BY <1>8, <3>1, <3>2 DEF TaskOK, ChatAhead, Own
    <3>6. BatchAhead(u)' BY <1>8, <3>1, <3>2 DEF TaskOK, BatchAhead, Before
    <3>7. RunningApproved(u)' BY <1>8, <3>1, <3>2 DEF TaskOK, RunningApproved, Before, TheCall
    <3>8. Approved(u)' BY <1>8, <3>1, <3>3 DEF TaskOK, Approved, Own
    <3>. QED BY <3>4, <3>5, <3>6, <3>7, <3>8 DEF TaskOK
  <2>. QED BY <2>1, <2>2
<1>19. RefusedNeverRuns'
  <2>1. ASSUME NEW g \in ConfIds, conf'[g].status \in {"pending", "denied", "expired"}
        PROVE  g = c \/ conf[g].status \in {"pending", "denied", "expired"}
    BY <1>9, <2>1
  <2>. QED BY <1>1, <1>2, <1>8, <1>10, <2>1 DEF RefusedNeverRuns
<1>20. GatedNeedsApproval'
  <2>1. \A g \in ConfIds : conf[g].status = "approved" => conf'[g] = conf[g] BY <1>2, <1>9
  <2>. QED BY <1>1, <1>8, <2>1 DEF GatedNeedsApproval
<1>. QED BY <1>13, <1>14, <1>15, <1>16, <1>17, <1>18, <1>19, <1>20 DEF IInv

(* The invariant *)

LEMMA InitIInv == Init => IInv
<1> SUFFICES ASSUME Init PROVE IInv OBVIOUS
<1>1. NewRunState \in RunState BY DEF NewRunState, RunState
<1>2. NoConfirmation \in Confirmation BY DEF NoConfirmation, Confirmation, Status
<1>3. TypeOK
  <2>1. <<>> \in Seq(Effect) OBVIOUS
  <2>. QED BY <1>1, <1>2, <2>1, IdleTaskOK DEF Init, TypeOK
<1>4. /\ \A t \in Tasks : task[t].pc = "idle" /\ task[t].run = None /\ task[t].decision = None
      /\ \A c \in ConfIds : conf[c].status = "absent" /\ conf[c].run = None
      /\ \A r \in Runs : ran[r] = <<>>
  BY IdleTaskOK DEF Init, NoConfirmation
<1>5. OneTaskPerRun BY <1>4 DEF OneTaskPerRun, Busy
<1>6. /\ ParkedAtConfirmation /\ ParkedAhead /\ RefusedNeverRuns
  BY <1>4 DEF ParkedAtConfirmation, ParkedAhead, RefusedNeverRuns
<1>7. HistoryBehind /\ GatedNeedsApproval
  <2>1. \A r \in Runs : 1..Len(ran[r]) = {} BY <1>4
  <2>. QED BY <1>4, <2>1 DEF HistoryBehind, GatedNeedsApproval
<1>8. \A t \in Tasks : TaskOK(t)
  BY <1>4, NoneAssumption
     DEF TaskOK, HoldsRun, ChatAhead, BatchAhead, RunningApproved, Approved, Busy
<1>. QED BY <1>3, <1>5, <1>6, <1>7, <1>8 DEF IInv

LEMMA ProgressStep ==
    ASSUME IInv, NEW t \in Tasks, Progress(t)
    PROVE  IInv'
<1>1. CASE \E plan \in Plans : PlanReady(t, plan) BY <1>1, PlanReadyStep
<1>2. CASE ChatFails(t) BY <1>2, ChatFailsStep
<1>3. CASE ChatAnswers(t) BY <1>3, StopStep
<1>4. CASE \E batch \in Batches : ChatAsks(t, batch) BY <1>4, ChatAsksStep
<1>5. CASE CutBatch(t) BY <1>5, CutBatchStep
<1>6. CASE AnswerMalformed(t) BY <1>6, MalformedStep
<1>7. CASE \E c \in ConfIds : AskHuman(t, c) BY <1>7, AskHumanStep
<1>8. CASE AnswerDenied(t) BY <1>8, DeniedStep
<1>9. CASE Dispatch(t) BY <1>9, DispatchStep
<1>10. CASE RejectCall(t) BY <1>10, AttemptStep
<1>11. CASE StartTool(t) BY <1>11, StartToolStep
<1>12. CASE \E ok \in BOOLEAN : ToolReturns(t, ok) BY <1>12, AttemptStep
<1>13. CASE Replanned(t) BY <1>13, ReplannedStep
<1>14. CASE BatchDone(t) BY <1>14, BatchDoneStep
<1>. QED BY <1>1, <1>2, <1>3, <1>4, <1>5, <1>6, <1>7, <1>8, <1>9, <1>10, <1>11, <1>12,
            <1>13, <1>14 DEF Progress

LEMMA EnvironmentStep ==
    ASSUME IInv, Environment
    PROVE  IInv'
<1>1. CASE \E t \in Tasks, r \in Runs : StartRun(t, r) BY <1>1, StartRunStep
<1>2. CASE \E t \in Tasks, c \in ConfIds, d \in {"approved", "denied"} : Resolve(t, c, d)
  BY <1>2, ResolveStep
<1>3. CASE \E t \in Tasks : Abort(t) BY <1>3, StopStep
<1>4. CASE (\E c \in ConfIds : ResolveLate(c)) \/ ListPending \/ Tick BY <1>4, StoreStep
<1>. QED BY <1>1, <1>2, <1>3, <1>4 DEF Environment

LEMMA StutterStep ==
    ASSUME IInv, UNCHANGED vars
    PROVE  IInv'
<1>1. /\ task' = task /\ run' = run /\ created' = created /\ stored' = stored
      /\ conf' = conf /\ ran' = ran /\ now' = now
  BY DEF vars
<1>2. conf \in [ConfIds -> Confirmation] /\ now \in Nat BY DEF IInv, TypeOK
<1>. QED BY <1>1, <1>2, ExpireStep

\* The invariant is inductive: every reachable state of the executor, whatever
\* the sets and limits are, satisfies it.
THEOREM Invariant == Spec => []IInv
<1>1. IInv /\ [Next]_vars => IInv'
  BY ProgressStep, EnvironmentStep, StutterStep DEF Next
<1>. QED BY <1>1, InitIInv, PTL DEF Spec

\* Every variable keeps its type, however many requests interleave.
THEOREM TypeCorrect == Spec => []TypeOK
<1>1. IInv => TypeOK BY DEF IInv
<1>. QED BY <1>1, Invariant, PTL

\* No two requests ever work on the same run (executor.py:362-396).
THEOREM RunsAreExclusive == Spec => []OneTaskPerRun
<1>1. IInv => OneTaskPerRun BY DEF IInv
<1>. QED BY <1>1, Invariant, PTL

\* What a human can still approve is a parked run at the call that was shown
\* (executor.py:263-267, confirmation.py:88-126).
THEOREM ApprovalsFindTheirRun == Spec => []ParkedAtConfirmation
<1>1. IInv => ParkedAtConfirmation BY DEF IInv
<1>. QED BY <1>1, Invariant, PTL

\* A call that waits for a decision, was denied, or was left to expire is never
\* run, by any interleaving of requests (confirmation.py:6-9).
THEOREM DenialIsRespected == Spec => []RefusedNeverRuns
<1>1. IInv => RefusedNeverRuns BY DEF IInv
<1>. QED BY <1>1, Invariant, PTL

\* A gated call runs only after an approval in its own assistant turn
\* (executor.py:201-215 with 260).
THEOREM GateHolds == Spec => []GatedNeedsApproval
<1>1. IInv => GatedNeedsApproval BY DEF IInv
<1>. QED BY <1>1, Invariant, PTL

\* A sweep as DecisionsAreFinal sees it.
LEMMA SweptFinal ==
    ASSUME IInv, NEW c \in ConfIds, Swept[c] # conf[c]
    PROVE  /\ conf[c].status = "pending" /\ Overdue(c)
           /\ Swept[c].status = "expired"
           /\ Swept[c] = [conf[c] EXCEPT !.status = Swept[c].status]
<1>1. conf[c] \in Confirmation BY DEF IInv, TypeOK
<1>2. /\ conf[c].status = "pending" /\ Overdue(c)
      /\ Swept[c] = [conf[c] EXCEPT !.status = "expired"]
  BY DEF Swept
<1>3. Swept[c].status = "expired" BY <1>1, <1>2 DEF Confirmation
<1>. QED BY <1>2, <1>3

\* A confirmation is decided once, and after its ttl only by expiring
\* (confirmation.py:103-126).
THEOREM DecisionsStand == Spec => DecisionsAreFinal
<1> DEFINE Moves(c) ==
      \/ conf[c].status = "absent" /\ conf'[c].status = "pending"
      \/ /\ conf[c].status = "pending"
         /\ conf'[c] = [conf[c] EXCEPT !.status = conf'[c].status]
         /\ IF Overdue(c) THEN conf'[c].status = "expired"
                          ELSE conf'[c].status \in {"approved", "denied"}
<1>1. ASSUME IInv, Next, NEW c \in ConfIds, conf'[c] # conf[c]
      PROVE  Moves(c)
  <2>0. /\ \A d \in ConfIds : conf[d] \in Confirmation
        /\ conf \in [ConfIds -> Confirmation]
        /\ Swept \in [ConfIds -> Confirmation]
    BY <1>1, SweptExpires DEF IInv, TypeOK
  <2>1. CASE ListPending BY <1>1, <2>1, SweptFinal DEF ListPending
  <2>2. ASSUME NEW t \in Tasks, NEW d \in ConfIds, AskHuman(t, d) PROVE Moves(c)
    <3> DEFINE n == [status |-> "pending", run |-> task[t].run, step |-> Own(t).steps,
                     idx |-> task[t].i, call |-> TheCall(t), at |-> now]
    <3>1. conf' = [Swept EXCEPT ![d] = n] /\ conf[d].status = "absent" BY <2>2 DEF AskHuman
    <3>2. n.status = "pending" OBVIOUS
    <3> HIDE DEF n
    <3>3. CASE c = d BY <2>0, <3>1, <3>2, <3>3
    <3>4. CASE c # d
      <4>1. conf'[c] = Swept[c] BY <2>0, <3>1, <3>4
      <4>. QED BY <1>1, <4>1, SweptFinal
    <3>. QED BY <3>3, <3>4
  <2>3. ASSUME NEW t \in Tasks, NEW d \in ConfIds, NEW a \in {"approved", "denied"},
               Resolve(t, d, a)
        PROVE  Moves(c)
    <3>1. c = d /\ conf'[c] = [conf[c] EXCEPT !.status = a]
          /\ conf[c].status = "pending" /\ ~Overdue(c)
      BY <1>1, <2>0, <2>3 DEF Resolve
    <3>2. conf'[c].status = a BY <2>0, <3>1 DEF Confirmation
    <3>. QED BY <3>1, <3>2
  <2>4. ASSUME NEW d \in ConfIds, ResolveLate(d) PROVE Moves(c)
    <3>1. c = d /\ conf'[c] = [conf[c] EXCEPT !.status = "expired"]
          /\ conf[c].status = "pending" /\ Overdue(c)
      BY <1>1, <2>0, <2>4 DEF ResolveLate
    <3>2. conf'[c].status = "expired" BY <2>0, <3>1 DEF Confirmation
    <3>. QED BY <3>1, <3>2
  <2>5. \/ ListPending
        \/ \E t \in Tasks, d \in ConfIds : AskHuman(t, d)
        \/ \E t \in Tasks, d \in ConfIds, a \in {"approved", "denied"} : Resolve(t, d, a)
        \/ \E d \in ConfIds : ResolveLate(d)
    <3>1. CASE Environment BY <1>1, <3>1 DEF Environment, StartRun, Abort, Tick
    <3>2. ASSUME NEW t \in Tasks, Progress(t), \A d \in ConfIds : ~AskHuman(t, d)
          PROVE  conf' = conf
      BY <3>2 DEF Progress, PlanReady, ChatFails, ChatAnswers, ChatAsks, CutBatch,
         AnswerMalformed, AnswerDenied, Dispatch, RejectCall, StartTool, ToolReturns,
         Replanned, BatchDone
    <3>. QED BY <1>1, <3>1, <3>2 DEF Next
  <2>. QED BY <2>1, <2>2, <2>3, <2>4, <2>5
<1>2. ASSUME IInv, [Next]_vars
      PROVE  [\A c \in ConfIds : conf'[c] # conf[c] => Moves(c)]_vars
  BY <1>1, <1>2
<1>. QED BY <1>2, Invariant, PTL DEF Spec, DecisionsAreFinal
=============================================================================
