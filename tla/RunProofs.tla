------------------------------ MODULE RunProofs ------------------------------
(***************************************************************************)
(* Proofs about what the runs of Executor spend, repeat and answer, and    *)
(* that Executor implements RunLifecycle, for every set of tasks, runs,    *)
(* confirmations, calls and plans and for every limit.                     *)
(*                                                                         *)
(* RunsOK speaks of one run at a time: OtherRuns carries it over a step    *)
(* that leaves a run alone, OwnRun over the steps of a task on its run.    *)
(***************************************************************************)
EXTENDS ExecutorRefinement, ExecutorProofs, FiniteSetTheorems, SequenceTheorems

(* Counting *)

LEMMA ImageFinite ==
    ASSUME NEW K, IsFiniteSet(K), NEW R, NEW f \in [K -> R],
           \A y \in R : \E k \in K : f[k] = y
    PROVE  /\ IsFiniteSet(R)
           /\ Cardinality(R) <= Cardinality(K)
<1>1. f \in Surjection(K, R) BY DEF Surjection
<1>. QED BY <1>1, FS_Surjection

LEMMA PlacesFinite ==
    ASSUME IInv, NEW r \in Runs
    PROVE  /\ ran[r] \in Seq(Effect)
           /\ \A K \in SUBSET (1..Len(ran[r])) : IsFiniteSet(K) /\ Cardinality(K) \in Nat
<1>1. ran[r] \in Seq(Effect) BY DEF IInv, TypeOK
<1>2. IsFiniteSet(1..Len(ran[r])) BY <1>1, FS_Interval
<1>. QED BY <1>1, <1>2, FS_Subset, FS_CardinalityType

LEMMA PositionsFinite ==
    ASSUME IInv, NEW r \in Runs, NEW K \in SUBSET (1..Len(ran[r]))
    PROVE  /\ IsFiniteSet({<<ran[r][k].step, ran[r][k].idx>> : k \in K})
           /\ Cardinality({<<ran[r][k].step, ran[r][k].idx>> : k \in K}) \in Nat
<1> DEFINE f == [k \in K |-> <<ran[r][k].step, ran[r][k].idx>>]
       R == {<<ran[r][k].step, ran[r][k].idx>> : k \in K}
<1>1. f \in [K -> R] /\ \A y \in R : \E k \in K : f[k] = y OBVIOUS
<1>2. IsFiniteSet(K) BY PlacesFinite
<1> HIDE DEF f, R
<1>3. IsFiniteSet(R) BY <1>1, <1>2, ImageFinite
<1>4. Cardinality(R) \in Nat BY <1>3, FS_CardinalityType
<1>. QED BY <1>3, <1>4 DEF R

\* A run that is at no call which acted has paid for all that did; at most one
\* more is under way.
LEMMA PositionsPaid ==
    ASSUME IInv, NEW r \in Runs, Charged(r)
    PROVE  /\ Cardinality(Positions(r)) \in Nat
           /\ Cardinality(Positions(r)) <= run[r].used + 1
           /\ Current(r) = {} => Cardinality(Positions(r)) <= run[r].used
           /\ Cardinality(Positions(r)) <= MaxToolCalls
<1> DEFINE all == 1..Len(ran[r])
           past == {<<ran[r][k].step, ran[r][k].idx>> : k \in Past(r)}
           here == <<run[r].steps, run[r].pendingIndex>>
<1>1. /\ IsFiniteSet(past) /\ Cardinality(past) \in Nat
      /\ IsFiniteSet(Positions(r)) /\ Cardinality(Positions(r)) \in Nat
  BY PositionsFinite DEF Past, Positions
<1>2. \A k \in all : k \in Past(r) \/ k \in Current(r)
  BY DEF IInv, HistoryBehind, Past, Current
<1>3. \A k \in Current(r) : <<ran[r][k].step, ran[r][k].idx>> = here
  BY DEF Current, At
<1>4. Positions(r) \subseteq past \cup {here} BY <1>2, <1>3 DEF Positions
<1>5. Current(r) = {} => Positions(r) \subseteq past BY <1>2 DEF Positions
<1>6. run[r].used \in Nat /\ MaxToolCalls \in Nat BY LimitsAssumption DEF IInv, TypeOK, RunState
<1>7. Cardinality(past) <= run[r].used BY DEF Charged
<1> HIDE DEF past, here
<1>8. /\ IsFiniteSet(past \cup {here})
      /\ Cardinality(past \cup {here}) \in Nat
      /\ Cardinality(past \cup {here}) <= Cardinality(past) + 1
  <2>1. /\ IsFiniteSet(past \cup {here})
        /\ \/ Cardinality(past \cup {here}) = Cardinality(past)
           \/ Cardinality(past \cup {here}) = Cardinality(past) + 1
    BY <1>1, FS_AddElement, Zenon
  <2>. QED BY <1>1, <2>1
<1>9. Cardinality(Positions(r)) <= Cardinality(past \cup {here}) BY <1>4, <1>8, FS_Subset
<1>10. Current(r) = {} => Cardinality(Positions(r)) <= Cardinality(past) BY <1>1, <1>5, FS_Subset
<1>. QED BY <1>1, <1>6, <1>7, <1>8, <1>9, <1>10 DEF Charged

(* Steps that leave a run alone *)

\* Nothing that RunOK says of run q can break but by touching q: of its
\* confirmations, open ones may expire.
Untouched(q) ==
    /\ run'[q] = run[q] /\ ran'[q] = ran[q]
    /\ q \in stored' <=> q \in stored
    /\ q \in created' <=> q \in created
    /\ \A t \in Tasks : /\ task'[t].run = q <=> task[t].run = q
                        /\ task[t].run = q => task'[t] = task[t]
    /\ \A c \in ConfIds : /\ conf'[c].run = q <=> conf[c].run = q
                          /\ conf[c].run = q => \/ conf'[c].status = conf[c].status
                                                \/ conf[c].status = "pending" /\ conf'[c].status = "expired"

LEMMA OtherRuns ==
    ASSUME NEW q \in Runs, RunOK(q), Untouched(q)
    PROVE  RunOK(q)'
<1>1. Past(q)' = Past(q) /\ Current(q)' = Current(q)
  BY DEF Untouched, Past, Current, Before, At
<1>2. Charged(q)' BY <1>1 DEF RunOK, Untouched, Charged
<1>3. RepeatsBounded(q)' /\ InOrder(q)'
  BY DEF RunOK, Untouched, RepeatsBounded, InOrder, SamePlace
<1>4. Transcript(q)'
  <2>1. \A c \in ConfIds : conf'[c].status = "pending" /\ conf'[c].run = q =>
          conf[c].status = "pending" /\ conf[c].run = q
    BY DEF Untouched
  <2>. QED BY <2>1 DEF RunOK, Untouched, Transcript
<1>5. OneOpen(q)'
  <2>1. \A c \in ConfIds : conf'[c].run = q => conf[c].run = q /\ (Unanswered(c)' <=> Unanswered(c))
    BY DEF Untouched, Unanswered
  <2>. QED BY <2>1 DEF RunOK, Untouched, OneOpen
<1>6. ASSUME NEW t \in Tasks, task'[t].run = q
      PROVE  Asked(t)' /\ Tried(t)'
  <2>1. task'[t] = task[t] /\ task[t].run = q BY <1>6 DEF Untouched
  <2>2. Asked(t) /\ Tried(t) BY <2>1 DEF RunOK
  <2>3. Own(t)' = Own(t) /\ ran'[q] = ran[q] BY <2>1 DEF Own, Untouched
  <2>4. Asked(t)' BY <2>1, <2>2, <2>3 DEF Asked
  <2>5. Tried(t)' BY <1>1, <2>1, <2>2, <2>3 DEF Tried, TheCall
  <2>. QED BY <2>4, <2>5
<1>. QED BY <1>2, <1>3, <1>4, <1>5, <1>6 DEF RunOK

(* Steps of a task on its own run *)

\* While no tool starts, a run repeats nothing and changes no order.
LEMMA SameEffects ==
    ASSUME NEW r \in Runs, ran' = ran, RepeatsBounded(r), InOrder(r)
    PROVE  RepeatsBounded(r)' /\ InOrder(r)'
BY DEF RepeatsBounded, InOrder, SamePlace

\* A run that stays at its call owes what it owed.
LEMMA StillCharged ==
    ASSUME NEW r \in Runs, ran' = ran, Charged(r),
           run'[r].steps = run[r].steps, run'[r].pendingIndex = run[r].pendingIndex,
           run'[r].used = run[r].used
    PROVE  Charged(r)'
<1>1. Past(r)' = Past(r) BY DEF Past, Before
<1>2. Current(r)' = Current(r) BY DEF Current, At
<1>. QED BY <1>1, <1>2 DEF Charged

\* A run that has moved past all that acted is at no call that did.
LEMMA LeftBehind ==
    ASSUME NEW r \in Runs, ran' = ran,
           run'[r].steps \in Nat, run'[r].pendingIndex \in Nat,
           \A k \in 1..Len(ran[r]) : ran[r][k].step \in Nat /\ ran[r][k].idx \in Nat,
           \A k \in 1..Len(ran[r]) : Before(ran[r][k], r)'
    PROVE  Current(r)' = {}
BY DEF Current, Before, At

\* A coroutine goes on with its run, or leaves it: the run stays at its call, or
\* moves past everything that acted, and pays for the call it leaves.
LEMMA OwnRun ==
    ASSUME IInv, IInv', RunsOK,
           NEW t \in Tasks, NEW r \in Runs, r = task[t].run, NEW v, NEW s,
           task' = [task EXCEPT ![t] = v],
           run' = [run EXCEPT ![r] = s],
           UNCHANGED <<created, conf, ran>>,
           \/ v = IdleTask /\ stored' \in {stored, stored \ {r}}
           \/ v.run = r /\ stored' = stored,
           s.steps <= MaxSteps,
           \/ /\ s.steps = run[r].steps
              /\ s.pendingIndex = run[r].pendingIndex
              /\ s.used = run[r].used
           \/ /\ \A k \in 1..Len(ran[r]) : Before(ran[r][k], r)'
              /\ s.used \in {run[r].used, run[r].used + 1}
              /\ s.used <= MaxToolCalls
              /\ s.used = run[r].used => Current(r) = {},
           s.answers = SubSeq(s.asked, 1, Len(s.answers)),
           r \notin stored' => s.answers = s.asked,
           v.run = r => (Asked(t) /\ Tried(t))'
    PROVE  RunsOK'
<1>1. /\ task[t] \in TaskRec /\ r \in created
      /\ \A u \in Tasks : task[u].run = r => u = t
      /\ \A c \in ConfIds : conf[c].status = "pending" => conf[c].run # r
  <2>1. Busy(t) BY NoneAssumption DEF IInv, TaskOK, HoldsRun
  <2>. QED BY <2>1, BusyTask
<1>2. run'[r] = s /\ \A q \in Runs : q # r => run'[q] = run[q]
  BY DEF IInv, TypeOK
<1>3. task'[t] = v /\ \A u \in Tasks : u # t => task'[u] = task[u]
  BY DEF IInv, TypeOK
<1>4. v.run \in {r, None} /\ None \notin Runs BY IdleTaskOK, NoneAssumption
<1>5. RunOK(r) BY DEF RunsOK
<1>6. ASSUME NEW q \in Runs, q # r PROVE RunOK(q)'
  <2>1. Untouched(q) BY <1>1, <1>2, <1>3, <1>4, <1>6 DEF Untouched
  <2>. QED BY <2>1, OtherRuns DEF RunsOK
<1>7. Charged(r)'
  <2>1. CASE /\ s.steps = run[r].steps
             /\ s.pendingIndex = run[r].pendingIndex
             /\ s.used = run[r].used
    <3>1. /\ run'[r].steps = run[r].steps /\ run'[r].pendingIndex = run[r].pendingIndex
          /\ run'[r].used = run[r].used
      BY <1>2, <2>1
    <3>2. Charged(r) BY <1>5 DEF RunOK
    <3>. QED BY <3>1, <3>2, StillCharged
  <2>2. CASE /\ \A k \in 1..Len(ran[r]) : Before(ran[r][k], r)'
             /\ s.used \in {run[r].used, run[r].used + 1}
             /\ s.used <= MaxToolCalls
             /\ s.used = run[r].used => Current(r) = {}
    <3>1. Past(r)' = 1..Len(ran[r]) BY <2>2 DEF Past
    <3>2. Current(r)' = {}
      <4>1. /\ run'[r].steps \in Nat /\ run'[r].pendingIndex \in Nat
            /\ \A k \in 1..Len(ran[r]) : ran[r][k].step \in Nat /\ ran[r][k].idx \in Nat
        BY <1>2, PositionTypes DEF IInv, TypeOK, RunState
      <4>. QED BY <2>2, <4>1, LeftBehind
    <3>3. {<<ran'[r][k].step, ran'[r][k].idx>> : k \in Past(r)'} = Positions(r)
      BY <3>1 DEF Positions
    <3>4. run[r].used \in Nat /\ run'[r].used \in Nat BY DEF IInv, TypeOK, RunState
    <3>5. Cardinality(Positions(r)) <= run'[r].used
      BY <1>2, <1>5, <2>2, <3>4, PositionsPaid DEF RunOK
    <3>. QED BY <1>2, <2>2, <3>2, <3>3, <3>5 DEF Charged
  <2>. QED BY <2>1, <2>2
<1>8. RepeatsBounded(r)' /\ InOrder(r)'
  <2>1. RepeatsBounded(r) /\ InOrder(r) BY <1>5 DEF RunOK
  <2>. QED BY <2>1, SameEffects
<1>9. Transcript(r)' BY <1>1, <1>2 DEF Transcript
<1>10. OneOpen(r)' BY <1>5 DEF RunOK, OneOpen, Unanswered
<1>11. \A u \in Tasks : task'[u].run = r => Asked(u)' /\ Tried(u)'
  BY <1>1, <1>3
<1>12. RunOK(r)' BY <1>7, <1>8, <1>9, <1>10, <1>11 DEF RunOK
<1>. QED BY <1>6, <1>12 DEF RunsOK

\* What is known of the run of a busy coroutine.
LEMMA BusyRun ==
    ASSUME IInv, RunsOK, NEW t \in Tasks, Busy(t)
    PROVE  /\ task[t].run \in Runs
           /\ RunOK(task[t].run)
           /\ Asked(t) /\ Tried(t)
           /\ Own(t) = run[task[t].run]
           /\ Own(t) \in RunState /\ task[t] \in TaskRec
           /\ Own(t).answers = SubSeq(Own(t).asked, 1, Len(Own(t).answers))
           /\ Own(t).steps <= MaxSteps /\ Own(t).used <= MaxToolCalls
<1>1. task[t].run \in Runs /\ Own(t) \in RunState /\ task[t] \in TaskRec BY BusyTask
<1>2. RunOK(task[t].run) BY <1>1 DEF RunsOK
<1>. QED BY <1>1, <1>2 DEF RunOK, Transcript, Charged, Own

LEMMA OneMoreAnswer ==
    ASSUME NEW b \in Seq(Calls), NEW a \in Seq(Calls), NEW i \in 1..Len(b),
           Len(a) = i - 1, a = SubSeq(b, 1, Len(a))
    PROVE  /\ Append(a, b[i]) \in Seq(Calls)
           /\ Len(Append(a, b[i])) = i
           /\ Append(a, b[i]) = SubSeq(b, 1, i)
<1>1. b[i] \in Calls OBVIOUS
<1>2. Append(a, b[i]) \in Seq(Calls) /\ Len(Append(a, b[i])) = i BY <1>1
<1>3. SubSeq(b, 1, i) \in Seq(Calls) /\ Len(SubSeq(b, 1, i)) = i OBVIOUS
<1>4. ASSUME NEW k \in 1..i PROVE Append(a, b[i])[k] = SubSeq(b, 1, i)[k]
  <2>1. SubSeq(b, 1, i)[k] = b[k] OBVIOUS
  <2>2. CASE k = i BY <2>1, <2>2
  <2>3. CASE k # i
    <3>1. k \in 1..Len(a) BY <2>3
    <3>2. Append(a, b[i])[k] = a[k] BY <3>1
    <3>3. SubSeq(b, 1, Len(a))[k] = b[k] BY <3>1
    <3>. QED BY <2>1, <3>2, <3>3
  <2>. QED BY <2>2, <2>3
<1>. QED BY <1>2, <1>3, <1>4

LEMMA AllAnswered ==
    ASSUME NEW b \in Seq(Calls), NEW a \in Seq(Calls), NEW i \in 1..Len(b),
           Len(a) = i - 1, a = SubSeq(b, 1, Len(a))
    PROVE  a \o SubSeq(b, i, Len(b)) = b
<1> DEFINE w == SubSeq(b, i, Len(b))
<1>1. w \in Seq(Calls) /\ Len(w) = Len(b) - i + 1 OBVIOUS
<1>2. a \o w \in Seq(Calls) /\ Len(a \o w) = Len(b) BY <1>1
<1>3. ASSUME NEW k \in 1..Len(b) PROVE (a \o w)[k] = b[k]
  <2>1. CASE k \in 1..Len(a)
    <3>1. (a \o w)[k] = a[k] BY <1>1, <2>1
    <3>2. SubSeq(b, 1, Len(a))[k] = b[k] BY <2>1
    <3>. QED BY <3>1, <3>2
  <2>2. CASE k \notin 1..Len(a)
    <3>1. k - Len(a) \in 1..Len(w) BY <1>1, <2>2
    <3>2. (a \o w)[k] = w[k - Len(a)] BY <1>1, <2>2, <3>1
    <3>3. w[k - Len(a)] = b[i + (k - Len(a)) - 1] BY <1>1, <3>1
    <3>. QED BY <3>2, <3>3
  <2>. QED BY <2>1, <2>2
<1> HIDE DEF w
<1>4. a \o w = b BY <1>2, <1>3, SeqEqual
<1>. QED BY <1>4 DEF w

LEMMA AdvancePlanLeaves ==
    ASSUME NEW s \in RunState, NEW ok \in BOOLEAN
    PROVE  /\ AdvancePlan(s, ok).used = s.used
           /\ AdvancePlan(s, ok).asked = s.asked
           /\ AdvancePlan(s, ok).answers = s.answers
  BY DEF AdvancePlan, RunState

\* Whatever acted so far lies behind once the index, or the step, moves on.
LEMMA MovesOn ==
    ASSUME IInv, NEW r \in Runs, ran' = ran,
           run'[r].steps \in Nat, run'[r].pendingIndex \in Nat,
           \/ run'[r].steps = run[r].steps + 1
           \/ run'[r].steps = run[r].steps /\ run'[r].pendingIndex = run[r].pendingIndex + 1
    PROVE  \A k \in 1..Len(ran[r]) : Before(ran[r][k], r)'
<1>. SUFFICES ASSUME NEW k \in 1..Len(ran[r]) PROVE Before(ran[r][k], r)' OBVIOUS
<1>1. Before(ran[r][k], r) \/ At(ran[r][k], r) BY DEF IInv, HistoryBehind
<1>2. /\ ran[r][k].step \in Nat /\ ran[r][k].idx \in Nat
      /\ run[r].steps \in Nat /\ run[r].pendingIndex \in Nat
  BY PositionTypes
<1>. QED BY <1>1, <1>2 DEF Before, At

\* A call is answered and the index moves on: the tool calls' budget is charged.
LEMMA RunNextCall ==
    ASSUME IInv, IInv', RunsOK, NEW t \in Tasks,
           AtCall(t) \/ task[t].pc \in {"tool", "running", "replan"},
           NEW s \in RunState,
           s.steps = Own(t).steps, s.used = Own(t).used, s.asked = Own(t).asked,
           s.answers = SubSeq(s.asked, 1, task[t].i), Len(s.answers) = task[t].i,
           Record(t, s),
           UNCHANGED <<created, stored, conf, ran>>
    PROVE  RunsOK'
<1>1. PICK r \in Runs : r = task[t].run BY AtIndex, BusyTask
<1>2. /\ Busy(t) /\ task[t].i \in 1..Len(task[t].batch) /\ task[t].i = run[r].pendingIndex
  BY <1>1, AtIndex
<1>3. /\ RunOK(r) /\ Asked(t) /\ Own(t) = run[r] /\ run[r] \in RunState /\ task[t] \in TaskRec
      /\ Own(t).steps <= MaxSteps /\ r \in stored
  BY <1>1, <1>2, BusyRun, BusyTask
<1>4. /\ s.steps >= 1 /\ task[t].batch = s.asked /\ task[t].batch \in Batches
      /\ s.used < MaxToolCalls
  BY <1>3 DEF Asked, AtCall
<1> DEFINE v == [task[t] EXCEPT !.pc = "batch", !.i = task[t].i + 1, !.left = 0]
           w == [s EXCEPT !.used = s.used + 1, !.pendingIndex = task[t].i + 1]
<1>5. /\ v.pc = "batch" /\ v.run = r /\ v.i = task[t].i + 1 /\ v.batch = task[t].batch
  BY <1>1, <1>3 DEF TaskRec
<1>6. /\ w.steps = s.steps /\ w.used = s.used + 1 /\ w.pendingIndex = task[t].i + 1
      /\ w.asked = s.asked /\ w.answers = s.answers
  BY DEF RunState
<1>7. task' = [task EXCEPT ![t] = v] BY DEF Record, IInv, TypeOK
<1>8. run' = [run EXCEPT ![r] = w] BY <1>1 DEF Record
<1> HIDE DEF v, w
<1>9. run'[r] = w /\ task'[t] = v BY <1>7, <1>8 DEF IInv, TypeOK
<1>10. \A k \in 1..Len(ran[r]) : Before(ran[r][k], r)'
  <2>1. run'[r].steps \in Nat /\ run'[r].pendingIndex \in Nat BY DEF IInv, TypeOK, RunState
  <2>. QED BY <1>2, <1>3, <1>6, <1>9, <2>1, MovesOn
<1>11. /\ w.steps <= MaxSteps
       /\ w.used \in {run[r].used, run[r].used + 1} /\ w.used <= MaxToolCalls
       /\ w.used # run[r].used
  <2>1. run[r].used \in Nat /\ s.used = run[r].used BY <1>3 DEF RunState
  <2>. QED BY <1>3, <1>4, <1>6, <2>1, LimitsAssumption
<1>12. w.answers = SubSeq(w.asked, 1, Len(w.answers)) BY <1>6
<1>13. (Asked(t) /\ Tried(t))'
  <2>1. Own(t)' = w BY <1>5, <1>9 DEF Own
  <2>2. v.i <= Len(v.batch) + 1 /\ Len(w.answers) = v.i - 1
    BY <1>2, <1>3, <1>5, <1>6 DEF TaskRec
  <2>3. Asked(t)' BY <1>4, <1>5, <1>6, <1>9, <2>1, <2>2 DEF Asked
  <2>4. Tried(t)' BY <1>5, <1>9 DEF Tried
  <2>. QED BY <2>3, <2>4
<1>. QED BY <1>1, <1>3, <1>5, <1>7, <1>8, <1>10, <1>11, <1>12, <1>13, OwnRun

\* The first failed step: the run waits for the replanner, its call answered.
LEMMA RunAwaitReplan ==
    ASSUME IInv, IInv', RunsOK, NEW t \in Tasks, NEW r \in Runs, r = task[t].run,
           AtCall(t) \/ task[t].pc \in {"tool", "running"},
           NEW s, NEW v,
           s.steps = run[r].steps, s.used = run[r].used, s.asked = run[r].asked,
           s.pendingIndex = run[r].pendingIndex,
           s.answers = SubSeq(s.asked, 1, task[t].i), Len(s.answers) = task[t].i,
           v = [task[t] EXCEPT !.pc = "replan", !.left = 0],
           run' = [run EXCEPT ![r] = s],
           task' = [task EXCEPT ![t] = v],
           UNCHANGED <<created, stored, conf, ran>>
    PROVE  RunsOK'
<1>1. /\ Busy(t) /\ task[t].i \in 1..Len(task[t].batch)
  BY AtIndex
<1>2. /\ Asked(t) /\ Own(t) = run[r] /\ task[t] \in TaskRec
      /\ Own(t).steps <= MaxSteps /\ r \in stored
  BY <1>1, BusyRun, BusyTask
<1>3. /\ s.steps >= 1 /\ task[t].batch = s.asked /\ task[t].batch \in Batches
      /\ s.used < MaxToolCalls
  BY <1>2 DEF Asked, AtCall
<1>4. /\ v.pc = "replan" /\ v.run = r /\ v.i = task[t].i /\ v.batch = task[t].batch
  BY <1>2 DEF TaskRec
<1>5. run'[r] = s /\ task'[t] = v BY DEF IInv, TypeOK
<1>6. (Asked(t) /\ Tried(t))'
  <2>1. Own(t)' = s BY <1>4, <1>5 DEF Own
  <2>2. v.i <= Len(v.batch) + 1 BY <1>1, <1>4
  <2>3. Asked(t)' BY <1>3, <1>4, <1>5, <2>1, <2>2 DEF Asked
  <2>4. Tried(t)' BY <1>4, <1>5 DEF Tried
  <2>. QED BY <2>3, <2>4
<1>7. s.steps <= MaxSteps /\ r \in stored' /\ stored' = stored BY <1>2
<1>8. s.answers = SubSeq(s.asked, 1, Len(s.answers)) OBVIOUS
<1>. QED BY <1>4, <1>6, <1>7, <1>8, OwnRun

LEMMA RunFinishCall ==
    ASSUME IInv, IInv', RunsOK, NEW t \in Tasks, NEW ok \in BOOLEAN,
           AtCall(t) \/ task[t].pc \in {"tool", "running"},
           FinishCall(t, ok),
           UNCHANGED <<created, stored, conf, ran>>
    PROVE  RunsOK'
<1> DEFINE a == [Own(t) EXCEPT !.answers = Append(Own(t).answers, TheCall(t))]
           s == AdvancePlan(a, ok)
           w == [s EXCEPT !.replanned = TRUE]
<1>1. /\ Busy(t) /\ task[t].i \in 1..Len(task[t].batch) BY AtIndex
<1>2. /\ Own(t) \in RunState /\ Asked(t)
      /\ Own(t).answers = SubSeq(Own(t).asked, 1, Len(Own(t).answers))
  BY <1>1, BusyRun
<1>3. /\ task[t].batch = Own(t).asked /\ Len(Own(t).answers) = task[t].i - 1
      /\ Own(t).asked \in Seq(Calls) /\ Own(t).answers \in Seq(Calls)
  BY <1>2 DEF Asked, AtCall, RunState
<1>4. /\ Append(Own(t).answers, TheCall(t)) \in Seq(Calls)
      /\ Len(Append(Own(t).answers, TheCall(t))) = task[t].i
      /\ Append(Own(t).answers, TheCall(t)) = SubSeq(Own(t).asked, 1, task[t].i)
  BY <1>1, <1>2, <1>3, OneMoreAnswer DEF TheCall
<1>5. /\ a \in RunState /\ a.steps = Own(t).steps /\ a.pendingIndex = Own(t).pendingIndex
      /\ a.used = Own(t).used /\ a.asked = Own(t).asked
      /\ a.answers = Append(Own(t).answers, TheCall(t))
  BY <1>2, <1>4 DEF RunState
<1> HIDE DEF a
<1>6. /\ s \in RunState /\ s.steps = Own(t).steps /\ s.pendingIndex = Own(t).pendingIndex
      /\ s.used = Own(t).used /\ s.asked = Own(t).asked
      /\ s.answers = SubSeq(s.asked, 1, task[t].i) /\ Len(s.answers) = task[t].i
  BY <1>4, <1>5, AdvancePlanKeeps, AdvancePlanLeaves
<1>7. /\ w \in RunState /\ w.steps = Own(t).steps /\ w.pendingIndex = Own(t).pendingIndex
      /\ w.used = Own(t).used /\ w.asked = Own(t).asked
      /\ w.answers = SubSeq(w.asked, 1, task[t].i) /\ Len(w.answers) = task[t].i
  BY <1>6 DEF RunState
<1>8. \/ Record(t, s)
      \/ /\ run' = [run EXCEPT ![task[t].run] = w]
         /\ task' = [task EXCEPT ![t].pc = "replan", ![t].left = 0]
  BY DEF FinishCall, a
<1> HIDE DEF s, w
<1>9. CASE Record(t, s) BY <1>6, <1>9, RunNextCall
<1>10. CASE /\ run' = [run EXCEPT ![task[t].run] = w]
            /\ task' = [task EXCEPT ![t].pc = "replan", ![t].left = 0]
  <2>1. PICK r \in Runs : r = task[t].run /\ Own(t) = run[r] BY <1>1, BusyRun
  <2>2. run' = [run EXCEPT ![r] = w] BY <1>10, <2>1
  <2> DEFINE v == [task[t] EXCEPT !.pc = "replan", !.left = 0]
  <2>3. task' = [task EXCEPT ![t] = v] BY <1>10 DEF IInv, TypeOK
  <2>. QED BY <1>7, <2>1, <2>2, <2>3, RunAwaitReplan
<1>. QED BY <1>8, <1>9, <1>10

\* The coroutine moves, its run does not.
LEMMA RunStays ==
    ASSUME IInv, IInv', RunsOK,
           NEW t \in Tasks, NEW r \in Runs, r = task[t].run, NEW v,
           task' = [task EXCEPT ![t] = v],
           UNCHANGED <<run, created, conf, ran>>,
           \/ v = IdleTask /\ stored' \in {stored, stored \ {r}}
           \/ v.run = r /\ stored' = stored,
           r \notin stored' => run[r].answers = run[r].asked,
           v.run = r => (Asked(t) /\ Tried(t))'
    PROVE  RunsOK'
<1> DEFINE s == run[r]
<1>1. RunOK(r) BY DEF RunsOK
<1>2. s.steps <= MaxSteps /\ s.answers = SubSeq(s.asked, 1, Len(s.answers))
  BY <1>1 DEF RunOK, Charged, Transcript
<1>3. run' = [run EXCEPT ![r] = s] BY DEF IInv, TypeOK
<1>4. s.steps = run[r].steps /\ s.pendingIndex = run[r].pendingIndex /\ s.used = run[r].used
  OBVIOUS
<1>5. r \notin stored' => s.answers = s.asked OBVIOUS
<1> HIDE DEF s
<1>. QED BY <1>2, <1>3, <1>4, <1>5, OwnRun

\* The head of the step loop: the batch before it is answered in full.
LEMMA RunNextStep ==
    ASSUME IInv, IInv', RunsOK, NEW t \in Tasks, NEW r \in Runs, r = task[t].run, NEW s,
           s.steps = run[r].steps, s.used = run[r].used, s.asked = run[r].asked,
           s.pendingIndex = run[r].pendingIndex,
           s.answers = run[r].answers, s.answers = s.asked,
           s \in RunState, Current(r) = {},
           LoopHead(t, s),
           UNCHANGED <<created, conf, ran>>
    PROVE  RunsOK'
<1>1. Busy(t) BY NoneAssumption DEF IInv, TaskOK, HoldsRun
<1>2. /\ r \in stored /\ run[r].steps \in Nat /\ run[r].pendingIndex \in Nat
      /\ s.answers = SubSeq(s.asked, 1, Len(s.answers))
      /\ run[r].steps <= MaxSteps /\ run[r].used <= MaxToolCalls
  BY <1>1, BusyTask, BusyRun DEF Own, RunState
<1>3. CASE s.steps < MaxSteps
  <2> DEFINE v == [IdleTask EXCEPT !.pc = "chat", !.run = r, !.left = MaxRetries + 1]
             w == [s EXCEPT !.steps = s.steps + 1]
  <2>1. v.pc = "chat" /\ v.run = r BY DEF IdleTask
  <2>2. /\ w.steps = s.steps + 1 /\ w.used = s.used /\ w.pendingIndex = s.pendingIndex
        /\ w.asked = s.asked /\ w.answers = s.answers
    BY DEF RunState
  <2>3. /\ task' = [task EXCEPT ![t] = v]
        /\ run' = [run EXCEPT ![r] = w]
        /\ stored' = stored
    BY <1>3 DEF LoopHead
  <2> HIDE DEF v, w
  <2>4. run'[r] = w /\ task'[t] = v BY <2>3 DEF IInv, TypeOK
  <2>5. \A k \in 1..Len(ran[r]) : Before(ran[r][k], r)'
    <3>1. run'[r].steps \in Nat /\ run'[r].pendingIndex \in Nat BY DEF IInv, TypeOK, RunState
    <3>. QED BY <2>2, <2>4, <3>1, MovesOn
  <2>6. w.steps <= MaxSteps BY <1>2, <1>3, <2>2, LimitsAssumption
  <2>7. w.steps >= 1 BY <1>2, <2>2
  <2>8. (Asked(t) /\ Tried(t))'
    <3>1. Own(t)' = w BY <2>1, <2>4 DEF Own
    <3>2. Asked(t)' BY <2>1, <2>2, <2>4, <2>7, <3>1 DEF Asked
    <3>3. Tried(t)' BY <2>1, <2>4 DEF Tried
    <3>. QED BY <3>2, <3>3
  <2>9. /\ w.used \in {run[r].used, run[r].used + 1} /\ w.used <= MaxToolCalls
        /\ w.answers = SubSeq(w.asked, 1, Len(w.answers)) /\ w.answers = w.asked
    BY <1>2, <2>2
  <2>. QED BY <2>1, <2>3, <2>5, <2>6, <2>8, <2>9, OwnRun
<1>4. CASE ~(s.steps < MaxSteps)
  <2>1. /\ task' = [task EXCEPT ![t] = IdleTask]
        /\ run' = [run EXCEPT ![r] = s]
        /\ stored' \in {stored, stored \ {r}}
    BY <1>4 DEF LoopHead
  <2>2. IdleTask.run # r BY IdleTaskOK, NoneAssumption
  <2>3. s.steps <= MaxSteps BY <1>2
  <2>. QED BY <1>2, <2>1, <2>2, <2>3, OwnRun
<1>. QED BY <1>3, <1>4

LEMMA RunPlanReady ==
    ASSUME IInv, IInv', RunsOK, NEW t \in Tasks, NEW plan \in Plans, PlanReady(t, plan)
    PROVE  RunsOK'
<1>1. Busy(t) /\ task[t].pc = "planning" BY DEF PlanReady, Busy
<1>2. PICK r \in Runs : r = task[t].run BY <1>1, BusyTask
<1>3. /\ Own(t) = run[r] /\ run[r] \in RunState /\ Own(t) = NewRunState /\ ran[r] = <<>>
  BY <1>1, <1>2, BusyRun DEF Asked
<1> DEFINE s == [Own(t) EXCEPT !.plan = plan]
<1>4. plan \in Seq(Steps) BY CallsAssumption
<1>5. /\ s \in RunState
      /\ s.steps = run[r].steps /\ s.used = run[r].used /\ s.asked = run[r].asked
      /\ s.pendingIndex = run[r].pendingIndex /\ s.answers = run[r].answers
  BY <1>3, <1>4 DEF RunState
<1>6. s.answers = s.asked BY <1>3, <1>5 DEF NewRunState
<1>7. Current(r) = {} BY <1>3 DEF Current
<1>8. LoopHead(t, s) /\ UNCHANGED <<created, conf, ran>> BY DEF PlanReady
<1> HIDE DEF s
<1>. QED BY <1>2, <1>5, <1>6, <1>7, <1>8, RunNextStep

\* No call the run stands at has acted before it is looked at.
LEMMA NoneCurrent ==
    ASSUME IInv, NEW t \in Tasks, NEW r \in Runs, r = task[t].run,
           task[t].pc \in {"batch", "chat"}
    PROVE  Current(r) = {}
<1>. SUFFICES ASSUME NEW k \in 1..Len(ran[r]), At(ran[r][k], r) PROVE FALSE BY DEF Current
<1>1. /\ ran[r][k].step \in Nat /\ ran[r][k].idx \in Nat
      /\ run[r].steps \in Nat /\ run[r].pendingIndex \in Nat
  BY PositionTypes
<1>2. Before(ran[r][k], r) \/ ran[r][k].step < run[r].steps
  BY DEF IInv, TaskOK, BatchAhead, ChatAhead, Own
<1>. QED BY <1>1, <1>2 DEF Before, At

LEMMA RunBatchDone ==
    ASSUME IInv, IInv', RunsOK, NEW t \in Tasks, BatchDone(t)
    PROVE  RunsOK'
<1>1. Busy(t) /\ task[t].pc = "batch" /\ task[t].i > Len(task[t].batch) BY DEF BatchDone, Busy
<1>2. PICK r \in Runs : r = task[t].run BY <1>1, BusyTask
<1>3. /\ Own(t) = run[r] /\ run[r] \in RunState /\ task[t] \in TaskRec /\ Asked(t)
      /\ run[r].answers = SubSeq(run[r].asked, 1, Len(run[r].answers))
  BY <1>1, <1>2, BusyRun
<1>4. Len(run[r].answers) = Len(run[r].asked)
  <2>1. /\ task[t].batch = run[r].asked /\ task[t].i <= Len(task[t].batch) + 1
        /\ Len(run[r].answers) = task[t].i - 1
    BY <1>1, <1>3 DEF Asked
  <2>2. task[t].i \in Nat /\ Len(task[t].batch) \in Nat BY <1>3 DEF TaskRec
  <2>. QED BY <1>1, <2>1, <2>2
<1>5. run[r].answers = run[r].asked
  <2>1. run[r].asked \in Seq(Calls) BY <1>3 DEF RunState
  <2>2. SubSeq(run[r].asked, 1, Len(run[r].asked)) = run[r].asked BY <2>1
  <2>. QED BY <1>3, <1>4, <2>2
<1>6. Current(r) = {} BY <1>1, <1>2, NoneCurrent
<1>7. LoopHead(t, run[r]) /\ UNCHANGED <<created, conf, ran>> BY <1>3 DEF BatchDone
<1>. QED BY <1>2, <1>3, <1>5, <1>6, <1>7, RunNextStep

LEMMA RunStops ==
    ASSUME IInv, IInv', RunsOK, NEW t \in Tasks, ChatAnswers(t) \/ Abort(t)
    PROVE  RunsOK'
<1>1. Busy(t) BY DEF ChatAnswers, Abort, Busy
<1>2. PICK r \in Runs : r = task[t].run BY <1>1, BusyTask
<1>3. Asked(t) /\ Own(t) = run[r] /\ r \in stored BY <1>1, <1>2, BusyRun, BusyTask
<1>4. /\ task' = [task EXCEPT ![t] = IdleTask] /\ UNCHANGED <<run, created, conf, ran>>
      /\ stored' \in {stored, stored \ {r}}
  BY <1>2 DEF ChatAnswers, Abort, Discard
<1>5. r \notin stored' => run[r].answers = run[r].asked
  BY <1>3 DEF ChatAnswers, Abort, Asked
<1>6. IdleTask.run # r BY IdleTaskOK, NoneAssumption
<1>. QED BY <1>2, <1>4, <1>5, <1>6, RunStays

LEMMA RunChatFails ==
    ASSUME IInv, IInv', RunsOK, NEW t \in Tasks, ChatFails(t)
    PROVE  RunsOK'
<1>1. Busy(t) /\ task[t].pc = "chat" BY DEF ChatFails, Busy
<1>2. PICK r \in Runs : r = task[t].run BY <1>1, BusyTask
<1>3. Asked(t) /\ Own(t) = run[r] /\ r \in stored /\ task[t] \in TaskRec
  BY <1>1, <1>2, BusyRun, BusyTask
<1>4. Own(t).steps >= 1 /\ Own(t).answers = Own(t).asked BY <1>1, <1>3 DEF Asked
<1>5. CASE task[t].left > 1
  <2> DEFINE v == [task[t] EXCEPT !.left = task[t].left - 1]
  <2>1. v.pc = "chat" /\ v.run = r BY <1>1, <1>2, <1>3 DEF TaskRec
  <2>2. task' = [task EXCEPT ![t] = v] /\ stored' = stored /\ UNCHANGED <<run, created, conf, ran>>
    BY <1>5 DEF ChatFails, IInv, TypeOK
  <2> HIDE DEF v
  <2>3. task'[t] = v BY <2>2 DEF IInv, TypeOK
  <2>4. Own(t)' = Own(t) BY <1>2, <2>1, <2>2, <2>3 DEF Own
  <2>5. (Asked(t) /\ Tried(t))' BY <1>4, <2>1, <2>3, <2>4 DEF Asked, Tried
  <2>. QED BY <1>2, <1>3, <2>1, <2>2, <2>5, RunStays
<1>6. CASE ~(task[t].left > 1)
  <2>1. /\ task' = [task EXCEPT ![t] = IdleTask] /\ UNCHANGED <<run, created, conf, ran>>
        /\ stored' \in {stored, stored \ {r}}
    BY <1>2, <1>6 DEF ChatFails, Discard
  <2>2. IdleTask.run # r BY IdleTaskOK, NoneAssumption
  <2>. QED BY <1>2, <1>3, <1>4, <2>1, <2>2, RunStays
<1>. QED BY <1>5, <1>6

LEMMA RunChatAsks ==
    ASSUME IInv, IInv', RunsOK, NEW t \in Tasks, NEW batch \in Batches, ChatAsks(t, batch)
    PROVE  RunsOK'
<1>1. Busy(t) /\ task[t].pc = "chat" BY DEF ChatAsks, Busy
<1>2. PICK r \in Runs : r = task[t].run BY <1>1, BusyTask
<1>3. /\ Asked(t) /\ Own(t) = run[r] /\ run[r] \in RunState /\ r \in stored /\ task[t] \in TaskRec
      /\ Own(t).steps <= MaxSteps /\ Own(t).used <= MaxToolCalls
  BY <1>1, <1>2, BusyRun, BusyTask
<1>4. run[r].steps >= 1 BY <1>1, <1>3 DEF Asked
<1>5. batch \in Seq(Calls) /\ Len(batch) >= 1 /\ SubSeq(batch, 1, 0) = <<>> BY CallsAssumption
<1> DEFINE v == [task[t] EXCEPT !.pc = "batch", !.i = 1, !.batch = batch, !.left = 0]
           s == [run[r] EXCEPT !.asked = batch, !.answers = <<>>, !.pendingIndex = 1]
<1>6. v.pc = "batch" /\ v.run = r /\ v.i = 1 /\ v.batch = batch BY <1>2, <1>3 DEF TaskRec
<1>7. /\ s.steps = run[r].steps /\ s.used = run[r].used /\ s.pendingIndex = 1
      /\ s.asked = batch /\ s.answers = <<>>
  BY <1>3 DEF RunState
<1>8. /\ task' = [task EXCEPT ![t] = v] /\ run' = [run EXCEPT ![r] = s]
      /\ stored' = stored /\ UNCHANGED <<created, conf, ran>>
  BY <1>2 DEF ChatAsks, IInv, TypeOK
<1> HIDE DEF v, s
<1>9. run'[r] = s /\ task'[t] = v BY <1>8 DEF IInv, TypeOK
<1>10. \A k \in 1..Len(ran[r]) : Before(ran[r][k], r)'
  BY <1>1, <1>2, <1>3, <1>7, <1>8, <1>9 DEF IInv, TaskOK, ChatAhead, Before
<1>11. Current(r) = {} BY <1>1, <1>2, NoneCurrent
<1>12. s.answers = SubSeq(s.asked, 1, Len(s.answers)) /\ s.used <= MaxToolCalls /\ s.steps <= MaxSteps
  BY <1>3, <1>5, <1>7
<1>13. (Asked(t) /\ Tried(t))'
  <2>1. Own(t)' = s BY <1>6, <1>9 DEF Own
  <2>2. Len(s.answers) = v.i - 1 /\ v.i <= Len(v.batch) + 1 BY <1>5, <1>6, <1>7
  <2>3. Asked(t)' BY <1>4, <1>6, <1>7, <1>9, <2>1, <2>2 DEF Asked
  <2>4. Tried(t)' BY <1>6, <1>9 DEF Tried
  <2>. QED BY <2>3, <2>4
<1>. QED BY <1>2, <1>3, <1>6, <1>7, <1>8, <1>10, <1>11, <1>12, <1>13, OwnRun

LEMMA RunCutBatch ==
    ASSUME IInv, IInv', RunsOK, NEW t \in Tasks, CutBatch(t)
    PROVE  RunsOK'
<1>1. /\ Busy(t) /\ task[t].pc = "batch" /\ task[t].i <= Len(task[t].batch)
  BY DEF CutBatch, Busy
<1>2. PICK r \in Runs : r = task[t].run BY <1>1, BusyTask
<1>3. /\ Asked(t) /\ Own(t) = run[r] /\ run[r] \in RunState /\ r \in stored /\ task[t] \in TaskRec
      /\ Own(t).steps <= MaxSteps /\ Own(t).used <= MaxToolCalls
      /\ run[r].answers = SubSeq(run[r].asked, 1, Len(run[r].answers))
  BY <1>1, <1>2, BusyRun, BusyTask
<1>4. task[t].i = run[r].pendingIndex /\ task[t].i >= 1 BY <1>1, <1>3 DEF IInv, TaskOK, HoldsRun
<1>5. /\ task[t].batch = run[r].asked /\ Len(run[r].answers) = task[t].i - 1
      /\ run[r].asked \in Seq(Calls) /\ run[r].answers \in Seq(Calls)
      /\ task[t].i \in 1..Len(task[t].batch)
  BY <1>1, <1>3, <1>4 DEF Asked, RunState, TaskRec
<1> DEFINE n == Len(task[t].batch)
           s == [run[r] EXCEPT !.answers = run[r].answers \o SubSeq(task[t].batch, task[t].i, n),
                               !.pendingIndex = n + 1]
<1>6. /\ s.steps = run[r].steps /\ s.used = run[r].used /\ s.pendingIndex = n + 1
      /\ s.asked = run[r].asked
      /\ s.answers = run[r].answers \o SubSeq(task[t].batch, task[t].i, n)
  BY <1>3 DEF RunState
<1>7. run[r].answers \o SubSeq(run[r].asked, task[t].i, Len(run[r].asked)) = run[r].asked
  BY <1>3, <1>5, AllAnswered
<1>8. s.answers = s.asked BY <1>5, <1>6, <1>7
<1>9. s.answers = SubSeq(s.asked, 1, Len(s.answers))
  <2>1. SubSeq(run[r].asked, 1, Len(run[r].asked)) = run[r].asked BY <1>5
  <2>. QED BY <1>6, <1>8, <2>1
<1>10. /\ task' = [task EXCEPT ![t] = IdleTask] /\ run' = [run EXCEPT ![r] = s]
       /\ stored' \in {stored, stored \ {r}} /\ UNCHANGED <<created, conf, ran>>
  BY <1>2 DEF CutBatch, Discard, IInv, TypeOK
<1> HIDE DEF s
<1>11. run'[r] = s BY <1>10 DEF IInv, TypeOK
<1>12. \A k \in 1..Len(ran[r]) : Before(ran[r][k], r)'
  <2>. SUFFICES ASSUME NEW k \in 1..Len(ran[r]) PROVE Before(ran[r][k], r)' OBVIOUS
  <2>1. Before(ran[r][k], r) BY <1>1, <1>2 DEF IInv, TaskOK, BatchAhead
  <2>2. /\ ran[r][k].step \in Nat /\ ran[r][k].idx \in Nat
        /\ run[r].steps \in Nat /\ run[r].pendingIndex \in Nat
    BY PositionTypes
  <2>3. n + 1 > run[r].pendingIndex BY <1>4, <1>5
  <2>. QED BY <1>6, <1>10, <1>11, <2>1, <2>2, <2>3 DEF Before
<1>13. Current(r) = {} BY <1>1, <1>2, NoneCurrent
<1>14. IdleTask.run # r BY IdleTaskOK, NoneAssumption
<1>15. s.steps <= MaxSteps /\ s.used <= MaxToolCalls BY <1>3, <1>6
<1>. QED BY <1>2, <1>6, <1>8, <1>9, <1>10, <1>12, <1>13, <1>14, <1>15, OwnRun

LEMMA RunMalformed ==
    ASSUME IInv, IInv', RunsOK, NEW t \in Tasks, AnswerMalformed(t)
    PROVE  RunsOK'
<1> DEFINE s == [Own(t) EXCEPT !.answers = Append(Own(t).answers, TheCall(t))]
<1>1. AtCall(t) BY DEF AnswerMalformed
<1>2. Busy(t) /\ task[t].i \in 1..Len(task[t].batch) BY <1>1, AtIndex
<1>3. /\ Own(t) \in RunState /\ Asked(t)
      /\ Own(t).answers = SubSeq(Own(t).asked, 1, Len(Own(t).answers))
  BY <1>2, BusyRun
<1>4. /\ task[t].batch = Own(t).asked /\ Len(Own(t).answers) = task[t].i - 1
      /\ Own(t).asked \in Seq(Calls) /\ Own(t).answers \in Seq(Calls)
  BY <1>1, <1>3 DEF Asked, AtCall, RunState
<1>5. /\ Append(Own(t).answers, TheCall(t)) \in Seq(Calls)
      /\ Len(Append(Own(t).answers, TheCall(t))) = task[t].i
      /\ Append(Own(t).answers, TheCall(t)) = SubSeq(Own(t).asked, 1, task[t].i)
  BY <1>2, <1>3, <1>4, OneMoreAnswer DEF TheCall
<1>6. /\ s \in RunState /\ s.steps = Own(t).steps /\ s.used = Own(t).used /\ s.asked = Own(t).asked
      /\ s.answers = SubSeq(s.asked, 1, task[t].i) /\ Len(s.answers) = task[t].i
  BY <1>3, <1>5 DEF RunState
<1>7. Record(t, s) /\ UNCHANGED <<created, stored, conf, ran>> BY DEF AnswerMalformed
<1> HIDE DEF s
<1>. QED BY <1>1, <1>6, <1>7, RunNextCall

LEMMA RunReplanned ==
    ASSUME IInv, IInv', RunsOK, NEW t \in Tasks, Replanned(t)
    PROVE  RunsOK'
<1>1. task[t].pc = "replan" /\ UNCHANGED <<created, stored, conf, ran>> BY DEF Replanned
<1>2. Busy(t) BY <1>1 DEF Busy
<1>3. /\ Own(t) \in RunState /\ Asked(t)
      /\ Own(t).answers = SubSeq(Own(t).asked, 1, Len(Own(t).answers))
  BY <1>2, BusyRun
<1>4. Len(Own(t).answers) = task[t].i BY <1>1, <1>3 DEF Asked
<1>5. PICK plan \in Plans \cup {Own(t).plan} : Record(t, [Own(t) EXCEPT !.plan = plan])
  BY DEF Replanned
<1>6. plan \in Seq(Steps) BY <1>3, CallsAssumption DEF RunState
<1> DEFINE s == [Own(t) EXCEPT !.plan = plan]
<1>7. /\ s \in RunState /\ s.steps = Own(t).steps /\ s.used = Own(t).used /\ s.asked = Own(t).asked
      /\ s.answers = Own(t).answers
  BY <1>3, <1>6 DEF RunState
<1>8. Record(t, s) BY <1>5
<1> HIDE DEF s
<1>. QED BY <1>1, <1>3, <1>4, <1>7, <1>8, RunNextCall

\* An attempt of dispatch's loop, the first or a further one.
LEMMA RunNextAttempt ==
    ASSUME IInv, IInv', RunsOK, NEW t \in Tasks, NEW n,
           AtCall(t) \/ task[t].pc \in {"tool", "running"},
           n >= 1,
           \A k \in Current(task[t].run) : ran[task[t].run][k].call = TheCall(t),
           Cardinality(Current(task[t].run)) + n <= Attempts(TheCall(t)),
           task' = [task EXCEPT ![t].pc = "tool", ![t].left = n],
           UNCHANGED <<run, created, stored, conf, ran>>
    PROVE  RunsOK'
<1>1. Busy(t) /\ task[t].i \in 1..Len(task[t].batch) BY AtIndex
<1>2. PICK r \in Runs : r = task[t].run BY <1>1, BusyTask
<1>3. Asked(t) /\ Own(t) = run[r] /\ r \in stored /\ task[t] \in TaskRec
  BY <1>1, <1>2, BusyRun, BusyTask
<1>4. /\ Own(t).steps >= 1 /\ task[t].batch = Own(t).asked /\ task[t].batch \in Batches
      /\ task[t].i <= Len(task[t].batch) + 1 /\ Len(Own(t).answers) = task[t].i - 1
      /\ Own(t).used < MaxToolCalls
  BY <1>3 DEF Asked, AtCall
<1> DEFINE v == [task[t] EXCEPT !.pc = "tool", !.left = n]
<1>5. v.pc = "tool" /\ v.run = r /\ v.i = task[t].i /\ v.batch = task[t].batch /\ v.left = n
  BY <1>2, <1>3 DEF TaskRec
<1>6. task' = [task EXCEPT ![t] = v] /\ stored' = stored /\ UNCHANGED <<run, created, conf, ran>>
  BY DEF IInv, TypeOK
<1> HIDE DEF v
<1>7. task'[t] = v BY <1>6 DEF IInv, TypeOK
<1>8. Own(t)' = Own(t) BY <1>2, <1>5, <1>6, <1>7 DEF Own
<1>9. Asked(t)' BY <1>4, <1>5, <1>7, <1>8 DEF Asked
<1>10. Tried(t)'
  <2>1. Current(r)' = Current(r) BY <1>6 DEF Current, At
  <2>2. TheCall(t)' = TheCall(t) BY <1>5, <1>7 DEF TheCall
  <2>3. task'[t].run = r /\ task'[t].left = n /\ task'[t].pc = "tool" BY <1>5, <1>7
  <2>4. Cardinality(Current(r)) + n <= Attempts(TheCall(t)) + 0
    BY <1>2, LimitsAssumption DEF Attempts
  <2>5. Attempts(TheCall(t))' = Attempts(TheCall(t)) BY <2>2 DEF Attempts
  <2>6. \A k \in Current(r)' : ran'[r][k].call = TheCall(t)' BY <1>2, <1>6, <2>1, <2>2
  <2>7. Cardinality(Current(r)') + n <= Attempts(TheCall(t))' + 0 BY <2>1, <2>4, <2>5
  <2>. QED BY <2>3, <2>6, <2>7 DEF Tried
<1>. QED BY <1>2, <1>3, <1>5, <1>6, <1>9, <1>10, RunStays

LEMMA RunDispatch ==
    ASSUME IInv, IInv', RunsOK, NEW t \in Tasks, Dispatch(t)
    PROVE  RunsOK'
<1>1. AtCall(t) /\ task[t].pc = "batch" BY DEF Dispatch, AtCall
<1>2. PICK r \in Runs : r = task[t].run BY <1>1, AtIndex, BusyTask
<1>3. Current(r) = {} BY <1>1, <1>2, NoneCurrent
<1>4. Cardinality(Current(r)) = 0 BY <1>3, FS_EmptySet
<1>5. Attempts(TheCall(t)) \in Nat /\ Attempts(TheCall(t)) >= 1 BY LimitsAssumption DEF Attempts
<1>6. Cardinality(Current(r)) + Attempts(TheCall(t)) <= Attempts(TheCall(t)) BY <1>4, <1>5
<1>7. /\ task' = [task EXCEPT ![t].pc = "tool", ![t].left = Attempts(TheCall(t))]
      /\ UNCHANGED <<run, created, stored, conf, ran>>
  BY DEF Dispatch
<1>. QED BY <1>1, <1>2, <1>3, <1>5, <1>6, <1>7, RunNextAttempt

LEMMA RunAttempt ==
    ASSUME IInv, IInv', RunsOK, NEW t \in Tasks, NEW ok \in BOOLEAN,
           \/ RejectCall(t)
           \/ ToolReturns(t, ok)
    PROVE  RunsOK'
<1>1. PICK good \in BOOLEAN :
        /\ task[t].pc \in {"tool", "running"}
        /\ EndAttempt(t, good)
        /\ UNCHANGED <<created, stored, conf, ran>>
  BY DEF RejectCall, ToolReturns
<1>2. CASE ~good /\ task[t].left > 1
  <2>1. Busy(t) BY <1>1 DEF Busy
  <2>2. PICK r \in Runs : r = task[t].run BY <2>1, BusyTask
  <2>3. Tried(t) /\ task[t] \in TaskRec BY <2>1, BusyRun
  <2>4. Cardinality(Current(r)) \in Nat /\ Attempts(TheCall(t)) \in Nat /\ task[t].left \in Nat
    BY <2>3, PlacesFinite, LimitsAssumption DEF Current, Attempts, TaskRec
  <2> DEFINE n == task[t].left - 1
  <2>5. /\ n >= 1
        /\ \A k \in Current(r) : ran[r][k].call = TheCall(t)
        /\ Cardinality(Current(r)) + task[t].left <= Attempts(TheCall(t)) + 1
    BY <1>1, <1>2, <2>2, <2>3, <2>4 DEF Tried
  <2>6. Cardinality(Current(r)) + n <= Attempts(TheCall(t)) BY <2>4, <2>5
  <2>7. /\ task' = [task EXCEPT ![t].pc = "tool", ![t].left = n]
        /\ UNCHANGED <<run, created, stored, conf, ran>>
    BY <1>1, <1>2 DEF EndAttempt
  <2> HIDE DEF n
  <2>. QED BY <1>1, <2>2, <2>5, <2>6, <2>7, RunNextAttempt
<1>3. CASE ~(~good /\ task[t].left > 1)
  <2>1. FinishCall(t, good) BY <1>1, <1>3 DEF EndAttempt
  <2>. QED BY <1>1, <2>1, RunFinishCall
<1>. QED BY <1>2, <1>3

\* A tool starts: one more effect at the call the run stands at.
LEMMA RunStartTool ==
    ASSUME IInv, IInv', RunsOK, NEW t \in Tasks, StartTool(t)
    PROVE  RunsOK'
<1>1. Busy(t) /\ task[t].pc = "tool" BY DEF StartTool, Busy
<1>2. PICK r \in Runs : r = task[t].run BY <1>1, BusyTask
<1>3. /\ Asked(t) /\ Tried(t) /\ RunOK(r)
      /\ Own(t) = run[r] /\ run[r] \in RunState /\ r \in stored /\ task[t] \in TaskRec
      /\ \A u \in Tasks : task[u].run = r => u = t
  BY <1>1, <1>2, BusyRun, BusyTask
<1>4. task[t].i = run[r].pendingIndex /\ TheCall(t) \in Calls BY <1>1, <1>2, AtIndex
<1> DEFINE e == [step |-> run[r].steps, idx |-> task[t].i, call |-> TheCall(t)]
           n == Len(ran[r])
           v == [task[t] EXCEPT !.pc = "running"]
<1>5. /\ e \in Effect /\ e.step = run[r].steps /\ e.idx = run[r].pendingIndex /\ e.call = TheCall(t)
  BY <1>3, <1>4 DEF Effect, RunState
<1>6. ran[r] \in Seq(Effect) /\ n \in Nat BY DEF IInv, TypeOK
<1>7. /\ v.pc = "running" /\ v.run = r /\ v.i = task[t].i /\ v.batch = task[t].batch
      /\ v.left = task[t].left
  BY <1>2, <1>3 DEF TaskRec
<1>8. /\ task' = [task EXCEPT ![t] = v]
      /\ ran' = [ran EXCEPT ![r] = Append(ran[r], e)]
      /\ UNCHANGED <<run, created, stored, conf>>
  BY <1>2, <1>3 DEF StartTool, IInv, TypeOK
<1> HIDE DEF e, v
<1>9. /\ task'[t] = v /\ \A u \in Tasks : u # t => task'[u] = task[u]
      /\ ran'[r] = Append(ran[r], e) /\ \A q \in Runs : q # r => ran'[q] = ran[q]
  BY <1>8 DEF IInv, TypeOK
<1>10. /\ Len(ran'[r]) = n + 1 /\ ran'[r][n + 1] = e
       /\ \A k \in 1..n : ran'[r][k] = ran[r][k]
  BY <1>5, <1>6, <1>9
<1> HIDE DEF n
<1>11. /\ \A k \in 1..n : ran[r][k].step \in Nat /\ ran[r][k].idx \in Nat
       /\ run[r].steps \in Nat /\ run[r].pendingIndex \in Nat
  BY PositionTypes DEF n
<1>12. /\ \A k \in 1..n : Before(ran[r][k], r) \/ At(ran[r][k], r)
       /\ \A k \in 1..n : Before(ran[r][k], r)' <=> Before(ran'[r][k], r)
       /\ \A k \in 1..n : ~(Before(ran[r][k], r) /\ At(ran[r][k], r))
       /\ At(e, r) /\ ~Before(e, r)
  <2>1. \A k \in 1..n : Before(ran[r][k], r) \/ At(ran[r][k], r)
    BY DEF n, IInv, HistoryBehind
  <2>2. \A k \in 1..n : Before(ran[r][k], r)' <=> Before(ran'[r][k], r)
    BY <1>8 DEF Before
  <2>3. \A k \in 1..n : ~(Before(ran[r][k], r) /\ At(ran[r][k], r))
    BY <1>11 DEF Before, At
  <2>4. At(e, r) /\ ~Before(e, r) BY <1>5, <1>11 DEF Before, At
  <2>. QED BY <2>1, <2>2, <2>3, <2>4
<1>13. Past(r)' = Past(r)
  <2>1. Past(r) = {k \in 1..n : Before(ran[r][k], r)} BY DEF Past, n
  <2>2. Past(r)' = {k \in 1..(n + 1) : Before(ran'[r][k], r)}
    BY <1>8, <1>10 DEF Past, Before
  <2>3. \A k \in 1..(n + 1) : Before(ran'[r][k], r) <=> k \in 1..n /\ Before(ran[r][k], r)
    <3>1. \A k \in 1..(n + 1) : k \in 1..n \/ k = n + 1 BY <1>6 DEF n
    <3>. QED BY <1>10, <1>12, <3>1
  <2>. QED BY <1>6, <2>1, <2>2, <2>3 DEF n
<1>14. Current(r)' = Current(r) \cup {n + 1} /\ n + 1 \notin Current(r)
  <2>1. Current(r) = {k \in 1..n : At(ran[r][k], r)} BY DEF Current, n
  <2>2. Current(r)' = {k \in 1..(n + 1) : At(ran'[r][k], r)}
    BY <1>8, <1>10 DEF Current, At
  <2>3. \A k \in 1..(n + 1) : At(ran'[r][k], r) <=> k = n + 1 \/ (k \in 1..n /\ At(ran[r][k], r))
    <3>1. \A k \in 1..(n + 1) : k \in 1..n \/ k = n + 1 BY <1>6 DEF n
    <3>. QED BY <1>10, <1>12, <3>1
  <2>. QED BY <1>6, <2>1, <2>2, <2>3 DEF n
<1>15. /\ Cardinality(Current(r)) \in Nat /\ Cardinality(Current(r)') = Cardinality(Current(r)) + 1
  <2>1. IsFiniteSet(Current(r)) /\ Cardinality(Current(r)) \in Nat
    BY PlacesFinite DEF Current
  <2>. QED BY <1>14, <2>1, FS_AddElement
<1>16. /\ task[t].left >= 1 /\ task[t].left \in Nat /\ Attempts(TheCall(t)) \in Nat
       /\ \A k \in Current(r) : ran[r][k].call = TheCall(t)
       /\ Cardinality(Current(r)) + task[t].left <= Attempts(TheCall(t))
  BY <1>1, <1>2, <1>3, <1>15, LimitsAssumption DEF Tried, Attempts, TaskRec
<1>17. \A k \in Current(r)' : ran'[r][k].call = TheCall(t)
  BY <1>5, <1>10, <1>14, <1>16 DEF Current, n
<1>18. ASSUME NEW q \in Runs, q # r PROVE RunOK(q)'
  <2>1. Untouched(q) BY <1>2, <1>3, <1>7, <1>8, <1>9, <1>18 DEF Untouched
  <2>. QED BY <2>1, OtherRuns DEF RunsOK
<1>19. Charged(r)'
  <2>1. {<<ran'[r][k].step, ran'[r][k].idx>> : k \in Past(r)'} = {<<ran[r][k].step, ran[r][k].idx>> : k \in Past(r)}
    BY <1>10, <1>13 DEF Past, n
  <2>2. Own(t).used < MaxToolCalls BY <1>1, <1>3 DEF Asked
  <2>. QED BY <1>3, <1>8, <2>1, <2>2 DEF RunOK, Charged
<1>20. RepeatsBounded(r)'
  <2>. SUFFICES ASSUME NEW k \in 1..(n + 1)
                PROVE  Cardinality(SamePlace(r, k)') <= IF ran'[r][k].call \in RetrySafe
                                                       THEN MaxRetries + 1 ELSE 1
    BY <1>10 DEF RepeatsBounded
  <2>1. SamePlace(r, k)' = {j \in 1..(n + 1) : /\ ran'[r][j].step = ran'[r][k].step
                                               /\ ran'[r][j].idx = ran'[r][k].idx}
    BY <1>10 DEF SamePlace
  <2>2. CASE At(ran'[r][k], r)
    <3>1. SamePlace(r, k)' = Current(r)' BY <1>8, <1>10, <2>1, <2>2 DEF Current, At
    <3>2. k \in Current(r)' BY <1>8, <1>10, <2>2 DEF Current, At
    <3>3. ran'[r][k].call = TheCall(t) BY <1>17, <3>2
    <3>4. Cardinality(Current(r)') <= Attempts(TheCall(t)) BY <1>15, <1>16
    <3>. QED BY <3>1, <3>3, <3>4 DEF Attempts
  <2>3. CASE ~At(ran'[r][k], r)
    <3>1. k \in 1..n /\ Before(ran[r][k], r) /\ ~At(ran[r][k], r)
      <4>1. k \in 1..n \/ k = n + 1 BY <1>6 DEF n
      <4>2. k \in 1..n BY <1>10, <1>12, <2>3, <4>1
      <4>. QED BY <1>10, <1>12, <2>3, <4>2
    <3>2. ~(e.step = ran[r][k].step /\ e.idx = ran[r][k].idx) BY <1>5, <3>1 DEF At
    <3>3. \A j \in 1..(n + 1) : j \in 1..n \/ j = n + 1 BY <1>6 DEF n
    <3>4. \A j \in 1..(n + 1) :
            (/\ ran'[r][j].step = ran'[r][k].step
             /\ ran'[r][j].idx = ran'[r][k].idx)
            <=> j \in 1..n /\ ran[r][j].step = ran[r][k].step /\ ran[r][j].idx = ran[r][k].idx
      BY <1>10, <3>1, <3>2, <3>3
    <3>5. SamePlace(r, k) = {j \in 1..n : /\ ran[r][j].step = ran[r][k].step
                                          /\ ran[r][j].idx = ran[r][k].idx}
      BY DEF SamePlace, n
    <3>6. \A j : j \in 1..n => j \in 1..(n + 1) BY <1>6 DEF n
    <3>7. SamePlace(r, k)' = SamePlace(r, k) BY <2>1, <3>4, <3>5, <3>6
    <3>. QED BY <1>3, <1>10, <3>1, <3>7 DEF RunOK, RepeatsBounded, n
  <2>. QED BY <2>2, <2>3
<1>21. InOrder(r)'
  <2>. SUFFICES ASSUME NEW k \in 1..(n + 1), NEW j \in 1..k
                PROVE  \/ ran'[r][j].step < ran'[r][k].step
                       \/ ran'[r][j].step = ran'[r][k].step /\ ran'[r][j].idx <= ran'[r][k].idx
    BY <1>10 DEF InOrder
  <2>1. CASE k = n + 1
    <3>1. j \in 1..n \/ j = n + 1 BY <1>6, <2>1 DEF n
    <3>2. CASE j \in 1..n
      <4>1. ran'[r][j] = ran[r][j] /\ ran'[r][k] = e BY <1>10, <2>1, <3>2
      <4>2. Before(ran[r][j], r) \/ At(ran[r][j], r) BY <1>12, <3>2
      <4>3. \/ ran[r][j].step < e.step
            \/ ran[r][j].step = e.step /\ ran[r][j].idx <= e.idx
        BY <1>5, <1>11, <3>2, <4>2 DEF Before, At
      <4>. QED BY <4>1, <4>3
    <3>3. CASE j = n + 1
      BY <1>5, <1>10, <1>11, <2>1, <3>3
    <3>. QED BY <3>1, <3>2, <3>3
  <2>2. CASE k # n + 1
    <3>1. k \in 1..n /\ j \in 1..n BY <1>6, <2>2 DEF n
    <3>2. \/ ran[r][j].step < ran[r][k].step
          \/ ran[r][j].step = ran[r][k].step /\ ran[r][j].idx <= ran[r][k].idx
      BY <1>3, <3>1 DEF RunOK, InOrder, n
    <3>. QED BY <1>10, <3>1, <3>2
  <2>. QED BY <2>1, <2>2
<1>22. Transcript(r)' BY <1>3, <1>8 DEF RunOK, Transcript
<1>23. OneOpen(r)'
  <2>1. \A u \in Tasks : task'[u].run = task[u].run BY <1>2, <1>7, <1>9
  <2>2. \A c \in ConfIds : Unanswered(c)' <=> Unanswered(c) BY <1>8 DEF Unanswered
  <2>. QED BY <1>3, <1>8, <2>1, <2>2 DEF RunOK, OneOpen
<1>24. ASSUME NEW u \in Tasks, task'[u].run = r PROVE Asked(u)' /\ Tried(u)'
  <2>1. u = t BY <1>3, <1>9, <1>24
  <2>2. Own(t)' = Own(t) BY <1>2, <1>7, <1>8, <1>9 DEF Own
  <2>3. Asked(t)'
    <3>1. /\ Own(t).steps >= 1 /\ task[t].batch = Own(t).asked /\ task[t].batch \in Batches
          /\ task[t].i <= Len(task[t].batch) + 1 /\ Len(Own(t).answers) = task[t].i - 1
          /\ Own(t).used < MaxToolCalls
      BY <1>1, <1>3 DEF Asked
    <3>. QED BY <1>7, <1>9, <2>2, <3>1 DEF Asked
  <2>4. Tried(t)'
    <3>1. TheCall(t)' = TheCall(t) BY <1>7, <1>9 DEF TheCall
    <3>2. task'[t].run = r /\ task'[t].left = task[t].left /\ task'[t].pc = "running" BY <1>7, <1>9
    <3>3. Cardinality(Current(r)') + task[t].left <= Attempts(TheCall(t)) + 1 BY <1>15, <1>16
    <3>. QED BY <1>16, <1>17, <3>1, <3>2, <3>3 DEF Tried, Attempts
  <2>. QED BY <2>1, <2>3, <2>4
<1>25. RunOK(r)' BY <1>19, <1>20, <1>21, <1>22, <1>23, <1>24 DEF RunOK
<1>. QED BY <1>18, <1>25 DEF RunsOK

(* Steps of the stores and the clients *)

\* Confirmations expire; runs are left alone.
LEMMA ExpiryTouchesNothing ==
    ASSUME IInv, ListPending \/ Tick \/ (\E c \in ConfIds : ResolveLate(c))
    PROVE  ran' = ran /\ \A q \in Runs : Untouched(q)
<1>1. UNCHANGED <<task, run, created, stored, ran>> BY DEF ListPending, Tick, ResolveLate
<1>2. ASSUME NEW d \in ConfIds
      PROVE  \/ conf'[d] = conf[d]
             \/ /\ conf[d].status = "pending"
                /\ conf'[d] = [conf[d] EXCEPT !.status = "expired"]
  BY SweptExpires DEF ListPending, Tick, ResolveLate, IInv, TypeOK
<1>3. \A d \in ConfIds : conf[d] \in Confirmation BY DEF IInv, TypeOK
<1>4. \A d \in ConfIds :
        /\ conf'[d].run = conf[d].run
        /\ \/ conf'[d].status = conf[d].status
           \/ conf[d].status = "pending" /\ conf'[d].status = "expired"
  BY <1>2, <1>3 DEF Confirmation
<1>. QED BY <1>1, <1>4 DEF Untouched

LEMMA RunExpires ==
    ASSUME IInv, RunsOK, ListPending \/ Tick \/ (\E c \in ConfIds : ResolveLate(c))
    PROVE  RunsOK'
  BY ExpiryTouchesNothing, OtherRuns DEF RunsOK

LEMMA RunAskHuman ==
    ASSUME IInv, IInv', RunsOK, NEW t \in Tasks, NEW c \in ConfIds, AskHuman(t, c)
    PROVE  RunsOK'
<1>1. Busy(t) /\ AtCall(t) /\ task[t].pc = "batch" BY DEF AskHuman, AtCall, Busy
<1>2. PICK r \in Runs : r = task[t].run BY <1>1, BusyTask
<1>3. /\ Asked(t) /\ RunOK(r)
      /\ Own(t) = run[r] /\ run[r] \in RunState /\ r \in stored /\ r \in created /\ task[t] \in TaskRec
      /\ \A u \in Tasks : task[u].run = r => u = t
  BY <1>1, <1>2, BusyRun, BusyTask
<1>4. task[t].i = run[r].pendingIndex BY <1>1, <1>2, AtIndex
<1>5. /\ run[r].steps >= 1 /\ task[t].batch = run[r].asked /\ task[t].batch \in Batches
      /\ Len(run[r].answers) = task[t].i - 1
  BY <1>1, <1>3 DEF Asked
<1> DEFINE s == [run[r] EXCEPT !.pendingBatch = task[t].batch, !.pendingIndex = task[t].i]
           g == [status |-> "pending", run |-> r, step |-> run[r].steps,
                 idx |-> task[t].i, call |-> TheCall(t), at |-> now]
<1>6. /\ s.steps = run[r].steps /\ s.used = run[r].used /\ s.pendingIndex = run[r].pendingIndex
      /\ s.asked = run[r].asked /\ s.answers = run[r].answers /\ s.pendingBatch = task[t].batch
  BY <1>3, <1>4 DEF RunState
<1>7. /\ conf[c].status = "absent"
      /\ conf' = [Swept EXCEPT ![c] = g]
      /\ run' = [run EXCEPT ![r] = s]
      /\ task' = [task EXCEPT ![t] = IdleTask]
      /\ stored' = stored /\ UNCHANGED <<created, ran>>
  <2>1. /\ conf[c].status = "absent"
        /\ conf' = [Swept EXCEPT ![c] = g]
        /\ task' = [task EXCEPT ![t] = IdleTask]
        /\ UNCHANGED <<created, ran>>
    BY <1>2, <1>3 DEF AskHuman
  <2>2. run' = [run EXCEPT ![r] = s] BY <1>2, <1>3 DEF AskHuman, IInv, TypeOK
  <2>3. stored' = stored BY <1>2, <1>3 DEF AskHuman
  <2>. QED BY <2>1, <2>2, <2>3
<1>8. g.status = "pending" /\ g.run = r OBVIOUS
<1> HIDE DEF s, g
<1>9. /\ run'[r] = s /\ \A q \in Runs : q # r => run'[q] = run[q]
      /\ task'[t] = IdleTask /\ \A u \in Tasks : u # t => task'[u] = task[u]
      /\ conf'[c] = g
  BY <1>7, SweptExpires DEF IInv, TypeOK
<1>10. \A d \in ConfIds : d # c => /\ conf'[d].run = conf[d].run
                                   /\ \/ conf'[d].status = conf[d].status
                                      \/ conf[d].status = "pending" /\ conf'[d].status = "expired"
  <2>. SUFFICES ASSUME NEW d \in ConfIds, d # c
                PROVE  /\ conf'[d].run = conf[d].run
                       /\ \/ conf'[d].status = conf[d].status
                          \/ conf[d].status = "pending" /\ conf'[d].status = "expired"
    OBVIOUS
  <2>1. conf'[d] = Swept[d] BY <1>7, SweptExpires
  <2>2. conf[d] \in Confirmation BY DEF IInv, TypeOK
  <2>. QED BY <2>1, <2>2, SweptExpires DEF Confirmation
<1>11. conf[c].run = None /\ None \notin Runs /\ IdleTask.run = None
  BY <1>7, NoneAssumption, IdleTaskOK DEF IInv, HistoryBehind
<1>12. ASSUME NEW q \in Runs, q # r PROVE RunOK(q)'
  <2>1. \A u \in Tasks : /\ task'[u].run = q <=> task[u].run = q
                         /\ task[u].run = q => task'[u] = task[u]
    BY <1>2, <1>9, <1>11, <1>12
  <2>2. \A d \in ConfIds : /\ conf'[d].run = q <=> conf[d].run = q
                           /\ conf[d].run = q => \/ conf'[d].status = conf[d].status
                                                 \/ conf[d].status = "pending" /\ conf'[d].status = "expired"
    BY <1>8, <1>9, <1>10, <1>11, <1>12
  <2>3. Untouched(q) BY <1>7, <1>9, <1>12, <2>1, <2>2 DEF Untouched
  <2>. QED BY <2>3, OtherRuns DEF RunsOK
<1>13. Charged(r)'
  <2>1. Past(r)' = Past(r) /\ Current(r)' = Current(r)
    BY <1>6, <1>7, <1>9 DEF Past, Current, Before, At
  <2>. QED BY <1>3, <1>6, <1>7, <1>9, <2>1 DEF RunOK, Charged
<1>14. RepeatsBounded(r)' /\ InOrder(r)'
  BY <1>3, <1>7 DEF RunOK, RepeatsBounded, InOrder, SamePlace
<1>15. Transcript(r)'
  <2>1. s.answers = SubSeq(s.asked, 1, Len(s.answers)) BY <1>3, <1>6 DEF RunOK, Transcript
  <2>. QED BY <1>3, <1>4, <1>5, <1>6, <1>7, <1>9, <2>1 DEF Transcript
<1>16. OneOpen(r)'
  <2>1. \A d \in ConfIds : conf'[d].run = r /\ Unanswered(d)' => d = c
    BY <1>2, <1>3, <1>10 DEF RunOK, OneOpen, Unanswered
  <2>2. \A u \in Tasks : task'[u].run # r BY <1>3, <1>9, <1>11
  <2>. QED BY <2>1, <2>2 DEF OneOpen
<1>17. \A u \in Tasks : task'[u].run # r BY <1>3, <1>9, <1>11
<1>18. RunOK(r)' BY <1>13, <1>14, <1>15, <1>16, <1>17 DEF RunOK
<1>. QED BY <1>12, <1>18 DEF RunsOK

LEMMA RunStarts ==
    ASSUME IInv, IInv', RunsOK, NEW t \in Tasks, NEW r \in Runs, StartRun(t, r)
    PROVE  RunsOK'
<1> DEFINE v == [IdleTask EXCEPT !.pc = "planning", !.run = r]
<1>1. v.pc = "planning" /\ v.run = r BY DEF IdleTask
<1>2. /\ ~Busy(t) /\ r \notin created
      /\ created' = created \cup {r} /\ stored' = stored \cup {r}
      /\ task' = [task EXCEPT ![t] = v]
      /\ UNCHANGED <<run, conf, ran>>
  BY DEF StartRun
<1> HIDE DEF v
<1>3. task'[t] = v /\ \A u \in Tasks : u # t => task'[u] = task[u]
  BY <1>2 DEF IInv, TypeOK
<1>4. task[t].run = None /\ None \notin Runs
  BY <1>2, NoneAssumption DEF IInv, TaskOK, HoldsRun
<1>5. \A u \in Tasks : task[u].run # r
  BY <1>2, <1>4 DEF IInv, TypeOK, TaskOK, HoldsRun
<1>6. ran[r] = <<>> /\ \A c \in ConfIds : conf[c].run # r
  BY <1>2, <1>4 DEF IInv, HistoryBehind
<1>7. RunOK(r) BY DEF RunsOK
<1>8. run[r] = NewRunState BY <1>2, <1>7 DEF RunOK, Transcript
<1>9. ASSUME NEW q \in Runs, q # r PROVE RunOK(q)'
  <2>1. Untouched(q) BY <1>1, <1>2, <1>3, <1>4, <1>9 DEF Untouched
  <2>. QED BY <2>1, OtherRuns DEF RunsOK
<1>10. Charged(r)'
  <2>1. Past(r)' = Past(r) /\ Current(r)' = Current(r)
    BY <1>2 DEF Past, Current, Before, At
  <2>. QED BY <1>2, <1>7, <2>1 DEF RunOK, Charged
<1>11. RepeatsBounded(r)' /\ InOrder(r)'
  BY <1>2, <1>7 DEF RunOK, RepeatsBounded, InOrder, SamePlace
<1>12. Transcript(r)'
  BY <1>2, <1>6, <1>7, <1>8 DEF RunOK, Transcript
<1>13. OneOpen(r)' BY <1>2, <1>6 DEF OneOpen
<1>14. ASSUME NEW u \in Tasks, task'[u].run = r PROVE Asked(u)' /\ Tried(u)'
  <2>1. u = t BY <1>3, <1>5, <1>14
  <2>2. Own(t)' = NewRunState BY <1>1, <1>2, <1>3, <1>8 DEF Own
  <2>3. Asked(t)' BY <1>1, <1>2, <1>3, <1>6, <2>2 DEF Asked
  <2>4. Tried(t)' BY <1>1, <1>3 DEF Tried
  <2>. QED BY <2>1, <2>3, <2>4
<1>15. RunOK(r)' BY <1>10, <1>11, <1>12, <1>13, <1>14 DEF RunOK
<1>. QED BY <1>9, <1>15 DEF RunsOK

LEMMA RunResolve ==
    ASSUME IInv, IInv', RunsOK, NEW t \in Tasks, NEW c \in ConfIds, NEW d \in {"approved", "denied"},
           Resolve(t, c, d)
    PROVE  RunsOK'
<1>1. conf[c].status = "pending" /\ ~Busy(t) BY DEF Resolve
<1>2. PICK r \in Runs : r = conf[c].run
  BY <1>1 DEF IInv, ParkedAtConfirmation, TypeOK
<1>3. /\ r \in stored /\ r \in created /\ \A u \in Tasks : task[u].run # r
      /\ run[r].pendingIndex \in 1..Len(run[r].pendingBatch)
      /\ run[r] \in RunState
  BY <1>1, <1>2 DEF IInv, ParkedAtConfirmation, TypeOK
<1>4. RunOK(r) BY DEF RunsOK
<1>5. /\ run[r].steps >= 1 /\ run[r].pendingBatch = run[r].asked /\ run[r].pendingBatch \in Batches
      /\ Len(run[r].answers) = run[r].pendingIndex - 1
  BY <1>1, <1>2, <1>4 DEF RunOK, Transcript
<1> DEFINE v == Resumed(r, d)
<1>6. v.pc = "batch" /\ v.run = r /\ v.i = run[r].pendingIndex /\ v.batch = run[r].pendingBatch
  BY DEF Resumed
<1>7. /\ conf' = [conf EXCEPT ![c].status = d]
      /\ task' = [task EXCEPT ![t] = v]
      /\ UNCHANGED <<run, created, stored, ran>>
  BY <1>2, <1>3 DEF Resolve
<1> HIDE DEF v
<1>8. /\ task'[t] = v /\ \A u \in Tasks : u # t => task'[u] = task[u]
      /\ conf'[c].status = d /\ conf'[c].run = r
      /\ \A g \in ConfIds : g # c => conf'[g] = conf[g]
  BY <1>2, <1>7 DEF IInv, TypeOK, Confirmation
<1>9. task[t].run = None /\ None \notin Runs
  BY <1>1, NoneAssumption DEF IInv, TaskOK, HoldsRun
<1>10. ASSUME NEW q \in Runs, q # r PROVE RunOK(q)'
  <2>1. \A u \in Tasks : /\ task'[u].run = q <=> task[u].run = q
                         /\ task[u].run = q => task'[u] = task[u]
    BY <1>6, <1>8, <1>9, <1>10
  <2>2. \A g \in ConfIds : /\ conf'[g].run = q <=> conf[g].run = q
                           /\ conf[g].run = q => conf'[g].status = conf[g].status
    BY <1>2, <1>8, <1>10
  <2>3. Untouched(q) BY <1>7, <2>1, <2>2 DEF Untouched
  <2>. QED BY <2>3, OtherRuns DEF RunsOK
<1>11. Charged(r)'
  <2>1. Past(r)' = Past(r) /\ Current(r)' = Current(r)
    BY <1>7 DEF Past, Current, Before, At
  <2>. QED BY <1>4, <1>7, <2>1 DEF RunOK, Charged
<1>12. RepeatsBounded(r)' /\ InOrder(r)'
  BY <1>4, <1>7 DEF RunOK, RepeatsBounded, InOrder, SamePlace
<1>13. \A g \in ConfIds : ~(conf'[g].run = r /\ conf'[g].status \in {"pending", "expired"})
  BY <1>1, <1>2, <1>4, <1>8 DEF RunOK, OneOpen, Unanswered
<1>14. Transcript(r)' BY <1>3, <1>4, <1>7, <1>13 DEF RunOK, Transcript
<1>15. OneOpen(r)' BY <1>13 DEF OneOpen, Unanswered
<1>16. ASSUME NEW u \in Tasks, task'[u].run = r PROVE Asked(u)' /\ Tried(u)'
  <2>1. u = t BY <1>3, <1>8, <1>16
  <2>2. Own(t)' = run[r] BY <1>6, <1>7, <1>8 DEF Own
  <2>3. v.i <= Len(v.batch) + 1 BY <1>3, <1>6
  <2>4. Asked(t)' BY <1>5, <1>6, <1>8, <2>2, <2>3 DEF Asked
  <2>5. Tried(t)' BY <1>6, <1>8 DEF Tried
  <2>. QED BY <2>1, <2>4, <2>5
<1>17. RunOK(r)' BY <1>11, <1>12, <1>14, <1>15, <1>16 DEF RunOK
<1>. QED BY <1>10, <1>17 DEF RunsOK

\* The invariant of single runs is inductive on top of IInv.
LEMMA InitRunsOK == Init => RunsOK
<1> SUFFICES ASSUME Init, NEW r \in Runs PROVE RunOK(r) BY DEF RunsOK
<1>1. /\ run[r] = NewRunState /\ ran[r] = <<>> /\ created = {} /\ stored = {}
      /\ \A t \in Tasks : task[t].run = None /\ None \notin Runs
      /\ \A c \in ConfIds : conf[c].status = "absent" /\ conf[c].run = None
  BY NoneAssumption DEF Init, IdleTask, NoConfirmation
<1>2. NewRunState.steps = 0 /\ NewRunState.used = 0 /\ NewRunState.answers = <<>> /\ NewRunState.asked = <<>>
  BY DEF NewRunState
<1>3. Past(r) = {} /\ Current(r) = {} BY <1>1 DEF Past, Current
<1>4. Charged(r)
  <2>1. {<<ran[r][k].step, ran[r][k].idx>> : k \in Past(r)} = {} BY <1>3
  <2>2. Cardinality({<<ran[r][k].step, ran[r][k].idx>> : k \in Past(r)}) = 0 BY <2>1, FS_EmptySet
  <2>. QED BY <1>1, <1>2, <1>3, <2>2, LimitsAssumption DEF Charged
<1>5. RepeatsBounded(r) /\ InOrder(r) BY <1>1 DEF RepeatsBounded, InOrder
<1>6. Transcript(r) BY <1>1, <1>2 DEF Transcript
<1>7. OneOpen(r) BY <1>1 DEF OneOpen, Unanswered
<1>. QED BY <1>1, <1>4, <1>5, <1>6, <1>7 DEF RunOK

LEMMA RunProgress ==
    ASSUME IInv, IInv', RunsOK, NEW t \in Tasks, Progress(t)
    PROVE  RunsOK'
<1>1. CASE \E plan \in Plans : PlanReady(t, plan) BY <1>1, RunPlanReady
<1>2. CASE ChatFails(t) BY <1>2, RunChatFails
<1>3. CASE ChatAnswers(t) BY <1>3, RunStops
<1>4. CASE \E batch \in Batches : ChatAsks(t, batch) BY <1>4, RunChatAsks
<1>5. CASE CutBatch(t) BY <1>5, RunCutBatch
<1>6. CASE AnswerMalformed(t) BY <1>6, RunMalformed
<1>7. CASE \E c \in ConfIds : AskHuman(t, c) BY <1>7, RunAskHuman
<1>8. CASE AnswerDenied(t) BY <1>8, RunFinishCall DEF AnswerDenied
<1>9. CASE Dispatch(t) BY <1>9, RunDispatch
<1>10. CASE RejectCall(t) BY <1>10, RunAttempt
<1>11. CASE StartTool(t) BY <1>11, RunStartTool
<1>12. CASE \E ok \in BOOLEAN : ToolReturns(t, ok) BY <1>12, RunAttempt
<1>13. CASE Replanned(t) BY <1>13, RunReplanned
<1>14. CASE BatchDone(t) BY <1>14, RunBatchDone
<1>. QED BY <1>1, <1>2, <1>3, <1>4, <1>5, <1>6, <1>7, <1>8, <1>9, <1>10, <1>11, <1>12,
            <1>13, <1>14 DEF Progress

LEMMA RunEnvironment ==
    ASSUME IInv, IInv', RunsOK, Environment
    PROVE  RunsOK'
<1>1. CASE \E t \in Tasks, r \in Runs : StartRun(t, r) BY <1>1, RunStarts
<1>2. CASE \E t \in Tasks, c \in ConfIds, d \in {"approved", "denied"} : Resolve(t, c, d)
  BY <1>2, RunResolve
<1>3. CASE \E t \in Tasks : Abort(t) BY <1>3, RunStops
<1>4. CASE (\E c \in ConfIds : ResolveLate(c)) \/ ListPending \/ Tick BY <1>4, RunExpires
<1>. QED BY <1>1, <1>2, <1>3, <1>4 DEF Environment

LEMMA RunStutters ==
    ASSUME RunsOK, UNCHANGED vars
    PROVE  RunsOK'
<1>1. UNCHANGED <<task, run, created, stored, conf, ran>> BY DEF vars
<1>2. ASSUME NEW q \in Runs PROVE RunOK(q)'
  <2>1. Untouched(q) BY <1>1 DEF Untouched
  <2>. QED BY <2>1, OtherRuns DEF RunsOK
<1>. QED BY <1>2 DEF RunsOK

\* What a run spends, repeats and answers stays in the bounds RunsOK gives it,
\* in every reachable state, for every limit and every set of calls.
THEOREM RunsStayOK == Spec => []RunsOK
<1>1. IInv /\ IInv' /\ RunsOK /\ [Next]_vars => RunsOK'
  BY RunProgress, RunEnvironment, RunStutters DEF Next
<1>. QED BY <1>1, InitRunsOK, Invariant, PTL DEF Spec

\* No run makes tools act for more of the model's calls than max_tool_calls, or
\* asks the model in more than max_steps steps (executor.py:240, 270).
THEOREM BudgetHolds == Spec => []WithinBudget
<1>1. IInv /\ RunsOK => WithinBudget
  <2>. SUFFICES ASSUME IInv, RunsOK, NEW r \in Runs
                PROVE  Cardinality(Positions(r)) <= MaxToolCalls /\ run[r].steps <= MaxSteps
    BY DEF WithinBudget
  <2>1. Charged(r) BY DEF RunsOK, RunOK
  <2>. QED BY <2>1, PositionsPaid DEF Charged
<1>. QED BY <1>1, Invariant, RunsStayOK, PTL

\* Tools run in the order the model asked, and a call is run again only if its
\* tool is retry_safe, at most max_retries more times (tool_router.py:90-103).
THEOREM EffectsOnce == Spec => []SideEffectsOnce
<1>1. RunsOK => SideEffectsOnce BY DEF RunsOK, RunOK, SideEffectsOnce
<1>. QED BY <1>1, RunsStayOK, PTL

\* Every tool call the model asked for has its answer when the model is asked
\* again and when the run is over (executor.py:240-258).
THEOREM AllCallsAnswered == Spec => []NothingDangling
<1>1. ASSUME IInv, RunsOK PROVE NothingDangling
  <2>. SUFFICES ASSUME NEW r \in created
                PROVE  /\ run[r].answers = SubSeq(run[r].asked, 1, Len(run[r].answers))
                       /\ \/ run[r].answers = run[r].asked
                          \/ \E t \in Tasks : task[t].run = r /\ task[t].pc # "chat"
                          \/ r \in stored /\ \A t \in Tasks : task[t].run # r
    BY DEF NothingDangling
  <2>1. r \in Runs BY <1>1 DEF IInv, TypeOK
  <2>2. RunOK(r) BY <1>1, <2>1 DEF RunsOK
  <2>3. ASSUME NEW t \in Tasks, task[t].run = r, task[t].pc = "chat"
        PROVE  run[r].answers = run[r].asked
    BY <2>2, <2>3 DEF RunOK, Asked, Own
  <2>. QED BY <2>2, <2>3 DEF RunOK, Transcript
<1>. QED BY <1>1, Invariant, RunsStayOK, PTL

(* The executor implements RunLifecycle *)

LEMMA UntouchedLives ==
    ASSUME NEW q \in Runs, Untouched(q)
    PROVE  Life(q)' = Life(q)
<1>1. (\E t \in Tasks : task'[t].run = q) <=> (\E t \in Tasks : task[t].run = q)
  BY DEF Untouched
<1>2. (\E c \in ConfIds : conf'[c].run = q /\ conf'[c].status \in {"pending", "expired"})
      <=> (\E c \in ConfIds : conf[c].run = q /\ conf[c].status \in {"pending", "expired"})
  BY DEF Untouched
<1>. QED BY <1>1, <1>2 DEF Untouched, Life

\* A step that touches one run, and makes no tool act, moves that run's life.
LEMMA OneLifeMoves ==
    ASSUME NEW r \in Runs, ran' = ran, \A q \in Runs : q # r => Untouched(q),
           \/ Life(r)' = Life(r)
           \/ Life(r) = "unborn" /\ Life(r)' = "working"
           \/ Life(r) = "working" /\ Life(r)' \in {"waiting", "over"}
           \/ Life(r) = "waiting" /\ Life(r)' = "working"
    PROVE  [Lifecycle!Next]_(Lifecycle!vars)
<1> DEFINE life == [q \in Runs |-> Life(q)]
<1>1. \A q \in Runs : q # r => Life(q)' = Life(q) BY UntouchedLives
<1>2. life' = [life EXCEPT ![r] = Life(r)'] BY <1>1
<1>3. life[r] = Life(r) OBVIOUS
<1>4. CASE Life(r)' = Life(r)
  <2>1. life' = life BY <1>1, <1>4
  <2>. QED BY <2>1 DEF Lifecycle!vars
<1>5. ASSUME NEW to, Life(r)' = to PROVE Lifecycle!Move(r, Life(r), to)
  BY <1>2, <1>3, <1>5 DEF Lifecycle!Move
<1>6. CASE \/ Life(r) = "unborn" /\ Life(r)' = "working"
           \/ Life(r) = "working" /\ Life(r)' \in {"waiting", "over"}
           \/ Life(r) = "waiting" /\ Life(r)' = "working"
  BY <1>5, <1>6 DEF Lifecycle!Next
<1>. QED BY <1>4, <1>6

\* What the steps of a coroutine have in common, apart from those that ask a
\* human or start a tool.
OnItsWay(t) ==
    /\ UNCHANGED <<created, conf, ran>>
    /\ \A q \in Runs : q # task[t].run => run'[q] = run[q] /\ (q \in stored' <=> q \in stored)
    /\ task'[t].run \in {task[t].run, None}
    /\ \A u \in Tasks : u # t => task'[u] = task[u]

LEMMA WaysOfACoroutine ==
    ASSUME IInv, NEW t \in Tasks, Progress(t) \/ Abort(t)
    PROVE  Busy(t) /\ (OnItsWay(t) \/ StartTool(t) \/ \E c \in ConfIds : AskHuman(t, c))
<1>0. /\ task \in [Tasks -> TaskRec] /\ run \in [Runs -> RunState]
      /\ IdleTask.run = None
      /\ \A u \in Tasks : task[u] \in TaskRec
  BY IdleTaskOK DEF IInv, TypeOK
<1>1. ASSUME NEW s, Record(t, s), UNCHANGED <<created, stored, conf, ran>> PROVE OnItsWay(t)
  BY <1>0, <1>1 DEF Record, OnItsWay, TaskRec
<1>2. ASSUME NEW ok, FinishCall(t, ok), UNCHANGED <<created, stored, conf, ran>> PROVE OnItsWay(t)
  <2>1. CASE \E s : Record(t, s) BY <1>1, <1>2, <2>1
  <2>2. CASE \E s : /\ run' = [run EXCEPT ![task[t].run] = s]
                   /\ task' = [task EXCEPT ![t].pc = "replan", ![t].left = 0]
    BY <1>0, <1>2, <2>2 DEF OnItsWay, TaskRec
  <2>. QED BY <1>2, <2>1, <2>2 DEF FinishCall
<1>3. ASSUME NEW s, LoopHead(t, s), UNCHANGED <<created, conf, ran>> PROVE OnItsWay(t)
  BY <1>0, <1>3 DEF LoopHead, OnItsWay, IdleTask
<1>4. ASSUME NEW ok, EndAttempt(t, ok), UNCHANGED <<created, stored, conf, ran>> PROVE OnItsWay(t)
  <2>1. CASE FinishCall(t, ok) BY <1>2, <1>4, <2>1
  <2>2. CASE /\ task' = [task EXCEPT ![t].pc = "tool", ![t].left = @ - 1]
             /\ run' = run
    BY <1>0, <1>4, <2>2 DEF OnItsWay, TaskRec
  <2>. QED BY <1>4, <2>1, <2>2 DEF EndAttempt
<1>5. ASSUME NEW plan \in Plans, PlanReady(t, plan) PROVE Busy(t) /\ OnItsWay(t)
  BY <1>3, <1>5 DEF PlanReady, Busy
<1>6. CASE ChatFails(t)
  BY <1>0, <1>6 DEF ChatFails, Discard, OnItsWay, TaskRec, Busy
<1>7. CASE ChatAnswers(t) \/ Abort(t)
  BY <1>0, <1>7 DEF ChatAnswers, Abort, Discard, OnItsWay, Busy
<1>8. ASSUME NEW batch \in Batches, ChatAsks(t, batch) PROVE Busy(t) /\ OnItsWay(t)
  BY <1>0, <1>8 DEF ChatAsks, OnItsWay, TaskRec, Busy
<1>9. CASE CutBatch(t)
  BY <1>0, <1>9 DEF CutBatch, Discard, OnItsWay, TaskRec, Busy
<1>10. CASE AnswerMalformed(t) BY <1>1, <1>10 DEF AnswerMalformed, AtCall, Busy
<1>11. CASE AnswerDenied(t) BY <1>2, <1>11 DEF AnswerDenied, AtCall, Busy
<1>12. CASE Dispatch(t)
  BY <1>0, <1>12 DEF Dispatch, AtCall, OnItsWay, TaskRec, Busy
<1>13. CASE RejectCall(t) BY <1>4, <1>13 DEF RejectCall, Busy
<1>14. ASSUME NEW ok \in BOOLEAN, ToolReturns(t, ok) PROVE Busy(t) /\ OnItsWay(t)
  BY <1>4, <1>14 DEF ToolReturns, Busy
<1>15. CASE Replanned(t) BY <1>1, <1>15 DEF Replanned, Busy
<1>16. CASE BatchDone(t) BY <1>3, <1>16 DEF BatchDone, Busy
<1>17. CASE StartTool(t) BY <1>17 DEF StartTool, Busy
<1>18. CASE \E c \in ConfIds : AskHuman(t, c) BY <1>18 DEF AskHuman, AtCall, Busy
<1>. QED BY <1>5, <1>6, <1>7, <1>8, <1>9, <1>10, <1>11, <1>12, <1>13, <1>14, <1>15, <1>16,
            <1>17, <1>18 DEF Progress

\* A coroutine that goes on keeps its run working; one that stops ends it.
LEMMA OnItsWayLives ==
    ASSUME IInv, RunsOK, NEW t \in Tasks, Busy(t), OnItsWay(t)
    PROVE  [Lifecycle!Next]_(Lifecycle!vars)
<1>1. PICK r \in Runs : r = task[t].run BY BusyTask
<1>2. /\ r \in created /\ RunOK(r) /\ None \notin Runs
      /\ \A u \in Tasks : task[u].run = r => u = t
  BY <1>1, BusyTask, BusyRun, NoneAssumption
<1>3. ASSUME NEW q \in Runs, q # r PROVE Untouched(q)
  BY <1>1, <1>2, <1>3 DEF OnItsWay, Untouched
<1>4. Life(r) = "working" BY <1>1, <1>2 DEF Life
<1>5. Life(r)' \in {"working", "over"}
  <2>1. CASE task'[t].run = r BY <1>2, <2>1 DEF Life, OnItsWay
  <2>2. CASE task'[t].run = None
    <3>1. \A c \in ConfIds : ~(conf'[c].run = r /\ conf'[c].status \in {"pending", "expired"})
      BY <1>1, <1>2 DEF OnItsWay, RunOK, OneOpen, Unanswered
    <3>2. \A u \in Tasks : task'[u].run # r BY <1>2, <2>2 DEF OnItsWay
    <3>. QED BY <1>2, <3>1, <3>2 DEF Life, OnItsWay
  <2>. QED BY <1>1, <2>1, <2>2 DEF OnItsWay
<1>6. ran' = ran BY DEF OnItsWay
<1>. QED BY <1>3, <1>4, <1>5, <1>6, OneLifeMoves

LEMMA AskHumanLives ==
    ASSUME IInv, RunsOK, NEW t \in Tasks, NEW c \in ConfIds, AskHuman(t, c)
    PROVE  [Lifecycle!Next]_(Lifecycle!vars)
<1>1. Busy(t) /\ AtCall(t) BY DEF AskHuman, AtCall, Busy
<1>2. PICK r \in Runs : r = task[t].run BY <1>1, BusyTask
<1>3. /\ r \in created /\ r \in stored /\ None \notin Runs /\ IdleTask.run = None
      /\ \A u \in Tasks : task[u].run = r => u = t
  BY <1>1, <1>2, BusyTask, NoneAssumption, IdleTaskOK
<1>4. conf[c].status = "absent" /\ conf[c].run = None BY DEF AskHuman, IInv, HistoryBehind
<1> DEFINE g == [status |-> "pending", run |-> r, step |-> Own(t).steps,
                 idx |-> task[t].i, call |-> TheCall(t), at |-> now]
<1>5. g.status = "pending" /\ g.run = r OBVIOUS
<1>6. conf' = [Swept EXCEPT ![c] = g] BY <1>2 DEF AskHuman
<1> HIDE DEF g
<1>7. conf'[c] = g /\ \A d \in ConfIds : d # c => conf'[d] = Swept[d] BY <1>6, SweptExpires
<1>8. \A d \in ConfIds : d # c =>
        /\ conf'[d].run = conf[d].run
        /\ \/ conf'[d].status = conf[d].status
           \/ conf[d].status = "pending" /\ conf'[d].status = "expired"
  <2>. SUFFICES ASSUME NEW d \in ConfIds, d # c
                PROVE  /\ conf'[d].run = conf[d].run
                       /\ \/ conf'[d].status = conf[d].status
                          \/ conf[d].status = "pending" /\ conf'[d].status = "expired"
    OBVIOUS
  <2>1. conf[d] \in Confirmation BY DEF IInv, TypeOK
  <2>. QED BY <1>7, <2>1, SweptExpires DEF Confirmation
<1>9. /\ ran' = ran /\ created' = created /\ stored' = stored
      /\ \A q \in Runs : q # r => run'[q] = run[q]
      /\ task'[t].run = None /\ \A u \in Tasks : u # t => task'[u] = task[u]
  BY <1>2, <1>3 DEF AskHuman, IInv, TypeOK
<1>10. ASSUME NEW q \in Runs, q # r PROVE Untouched(q)
  <2>1. \A d \in ConfIds :
          /\ conf'[d].run = q <=> conf[d].run = q
          /\ conf[d].run = q => \/ conf'[d].status = conf[d].status
                                \/ conf[d].status = "pending" /\ conf'[d].status = "expired"
    BY <1>3, <1>4, <1>5, <1>7, <1>8, <1>10
  <2>. QED BY <1>2, <1>3, <1>9, <1>10, <2>1 DEF Untouched
<1>11. Life(r) = "working" BY <1>2, <1>3 DEF Life
<1>12. Life(r)' = "waiting"
  <2>1. \A u \in Tasks : task'[u].run # r BY <1>3, <1>9
  <2>. QED BY <1>3, <1>5, <1>7, <1>9, <2>1 DEF Life
<1>. QED BY <1>9, <1>10, <1>11, <1>12, OneLifeMoves

LEMMA StartRunLives ==
    ASSUME IInv, NEW t \in Tasks, NEW r \in Runs, StartRun(t, r)
    PROVE  [Lifecycle!Next]_(Lifecycle!vars)
<1>1. task[t].run = None /\ None \notin Runs
  BY NoneAssumption DEF StartRun, IInv, TaskOK, HoldsRun
<1>2. /\ r \notin created /\ created' = created \cup {r} /\ stored' = stored \cup {r}
      /\ UNCHANGED <<run, conf, ran>>
      /\ task'[t].run = r /\ \A u \in Tasks : u # t => task'[u] = task[u]
  BY DEF StartRun, IInv, TypeOK, IdleTask
<1>3. ASSUME NEW q \in Runs, q # r PROVE Untouched(q)
  BY <1>1, <1>2, <1>3 DEF Untouched
<1>4. Life(r) = "unborn" /\ Life(r)' = "working" BY <1>2 DEF Life
<1>. QED BY <1>2, <1>3, <1>4, OneLifeMoves

LEMMA ResolveLives ==
    ASSUME IInv, NEW t \in Tasks, NEW c \in ConfIds, NEW d \in {"approved", "denied"},
           Resolve(t, c, d)
    PROVE  [Lifecycle!Next]_(Lifecycle!vars)
<1>1. conf[c].status = "pending" /\ ~Busy(t) BY DEF Resolve
<1>2. PICK r \in Runs : r = conf[c].run
  BY <1>1 DEF IInv, ParkedAtConfirmation, TypeOK
<1>3. r \in stored /\ r \in created /\ \A u \in Tasks : task[u].run # r
  BY <1>1, <1>2 DEF IInv, ParkedAtConfirmation, TypeOK
<1>4. /\ UNCHANGED <<run, created, stored, ran>>
      /\ task'[t].run = r /\ \A u \in Tasks : u # t => task'[u] = task[u]
      /\ conf'[c].run = r /\ \A g \in ConfIds : g # c => conf'[g] = conf[g]
  BY <1>2, <1>3 DEF Resolve, Resumed, IInv, TypeOK, Confirmation
<1>5. task[t].run = None /\ None \notin Runs
  BY <1>1, NoneAssumption DEF IInv, TaskOK, HoldsRun
<1>6. ASSUME NEW q \in Runs, q # r PROVE Untouched(q)
  BY <1>2, <1>4, <1>5, <1>6 DEF Untouched
<1>7. Life(r) = "waiting" BY <1>1, <1>2, <1>3 DEF Life
<1>8. Life(r)' = "working" BY <1>3, <1>4 DEF Life
<1>. QED BY <1>4, <1>6, <1>7, <1>8, OneLifeMoves

\* Nothing is touched.
LEMMA StoreLives ==
    ASSUME ran' = ran, \A q \in Runs : Untouched(q)
    PROVE  [Lifecycle!Next]_(Lifecycle!vars)
<1>1. \A q \in Runs : Life(q)' = Life(q) BY UntouchedLives
<1>2. [q \in Runs |-> Life(q)]' = [q \in Runs |-> Life(q)] BY <1>1
<1>. QED BY <1>2 DEF Lifecycle!vars

\* A tool acts only for a run that works, and in the order the model asked.
LEMMA StartToolLives ==
    ASSUME IInv, RunsOK, NEW t \in Tasks, StartTool(t)
    PROVE  [Lifecycle!Next]_(Lifecycle!vars)
<1>1. Busy(t) /\ task[t].pc = "tool" BY DEF StartTool, Busy
<1>2. PICK r \in Runs : r = task[t].run BY <1>1, BusyTask
<1>3. /\ r \in created /\ Own(t) = run[r] /\ Asked(t) /\ task[t] \in TaskRec
      /\ run[r] \in RunState /\ run[r].steps <= MaxSteps
  BY <1>1, <1>2, BusyTask, BusyRun
<1>4. /\ task[t].i \in 1..Len(task[t].batch) /\ task[t].i = run[r].pendingIndex
      /\ TheCall(t) \in Calls
  BY <1>1, <1>2, AtIndex
<1>5. run[r].steps >= 1 /\ task[t].batch \in Batches BY <1>1, <1>3 DEF Asked
<1> DEFINE e == [step |-> run[r].steps, idx |-> task[t].i, call |-> TheCall(t)]
           life == [q \in Runs |-> Life(q)]
<1>6. e \in [step : 1..MaxSteps, idx : CallPositions, call : Calls]
  <2>1. run[r].steps \in 1..MaxSteps BY <1>3, <1>5, LimitsAssumption DEF RunState
  <2>2. task[t].i \in CallPositions BY <1>4, <1>5 DEF CallPositions
  <2>. QED BY <1>4, <2>1, <2>2
<1>7. /\ ran' = [ran EXCEPT ![r] = Append(ran[r], e)]
      /\ UNCHANGED <<created, conf>>
      /\ \A u \in Tasks : task'[u].run = task[u].run
  BY <1>2, <1>3 DEF StartTool, IInv, TypeOK, TaskRec
<1>8. e.step = run[r].steps /\ e.idx = run[r].pendingIndex BY <1>4
<1> HIDE DEF e
<1>9. \A q \in Runs : Life(q)' = Life(q) BY <1>7 DEF Life
<1>10. life' = life BY <1>9
<1>11. life[r] = "working" BY <1>2, <1>3 DEF Life
<1>12. \A k \in 1..Len(ran[r]) : Lifecycle!NotBefore(e, ran[r][k])
  <2>. SUFFICES ASSUME NEW k \in 1..Len(ran[r]) PROVE Lifecycle!NotBefore(e, ran[r][k]) OBVIOUS
  <2>1. Before(ran[r][k], r) \/ At(ran[r][k], r) BY DEF IInv, HistoryBehind
  <2>2. /\ ran[r][k].step \in Nat /\ ran[r][k].idx \in Nat
        /\ run[r].steps \in Nat /\ run[r].pendingIndex \in Nat
    BY PositionTypes
  <2>. QED BY <1>8, <2>1, <2>2 DEF Before, At, Lifecycle!NotBefore
<1>13. Lifecycle!Act(r, e) BY <1>7, <1>10, <1>11, <1>12 DEF Lifecycle!Act
<1>. QED BY <1>6, <1>13 DEF Lifecycle!Next

\* Each step of the executor is one step in the life of one run, or none.
LEMMA StepImplements ==
    ASSUME IInv, RunsOK, [Next]_vars
    PROVE  [Lifecycle!Next]_(Lifecycle!vars)
<1>1. ASSUME NEW t \in Tasks, Progress(t) \/ Abort(t) PROVE [Lifecycle!Next]_(Lifecycle!vars)
  BY <1>1, WaysOfACoroutine, OnItsWayLives, AskHumanLives, StartToolLives
<1>2. CASE \E t \in Tasks, r \in Runs : StartRun(t, r) BY <1>2, StartRunLives
<1>3. CASE \E t \in Tasks, c \in ConfIds, d \in {"approved", "denied"} : Resolve(t, c, d)
  BY <1>3, ResolveLives
<1>4. CASE (\E c \in ConfIds : ResolveLate(c)) \/ ListPending \/ Tick
  BY <1>4, ExpiryTouchesNothing, StoreLives
<1>5. CASE UNCHANGED vars
  <2>1. UNCHANGED <<task, run, created, stored, conf, ran>> BY <1>5 DEF vars
  <2>2. \A q \in Runs : Untouched(q) BY <2>1 DEF Untouched
  <2>. QED BY <2>1, <2>2, StoreLives
<1>. QED BY <1>1, <1>2, <1>3, <1>4, <1>5 DEF Next, Environment

\* The agent loop with its two stores implements the life of a run: no request
\* revives a run that is over, no tool acts for a run that waits for a human,
\* and only the decision of its confirmation sets such a run going again
\* (executor.py:263-267 and 362-396, confirmation.py:88-126).
THEOREM RunsLiveOnce == Spec => ImplementsLifecycle
<1>1. Init => Lifecycle!Init
  <2>. SUFFICES ASSUME Init PROVE Lifecycle!Init OBVIOUS
  <2>1. \A r \in Runs : Life(r) = "unborn" BY DEF Init, Life
  <2>2. ran = [r \in Runs |-> <<>>] BY DEF Init
  <2>. QED BY <2>1, <2>2 DEF Lifecycle!Init
<1>2. IInv /\ RunsOK /\ [Next]_vars => [Lifecycle!Next]_(Lifecycle!vars) BY StepImplements
<1>. QED BY <1>1, <1>2, Invariant, RunsStayOK, PTL DEF Spec, ImplementsLifecycle, Lifecycle!Spec
=============================================================================
