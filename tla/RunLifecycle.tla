---------------------------- MODULE RunLifecycle ----------------------------
(***************************************************************************)
(* What the agent promises about a run, without tasks, stores, budgets,    *)
(* plans or clocks: a run acts on the world only while it works, in the    *)
(* order the model asked; while it waits for a human it does nothing; once *)
(* over it never comes back.                                               *)
(***************************************************************************)
EXTENDS Naturals, Sequences

CONSTANTS Runs, Effects

VARIABLES life, acts

vars == <<life, acts>>

Init ==
    /\ life = [r \in Runs |-> "unborn"]
    /\ acts = [r \in Runs |-> <<>>]

\* From one stage of its life a run moves to the next.
Move(r, from, to) ==
    /\ life[r] = from
    /\ life' = [life EXCEPT ![r] = to]
    /\ UNCHANGED acts

NotBefore(e, f) ==
    \/ e.step > f.step
    \/ e.step = f.step /\ e.idx >= f.idx

Act(r, e) ==
    /\ life[r] = "working"
    /\ \A k \in 1..Len(acts[r]) : NotBefore(e, acts[r][k])
    /\ acts' = [acts EXCEPT ![r] = Append(@, e)]
    /\ UNCHANGED life

Next ==
    \E r \in Runs :
        \/ Move(r, "unborn", "working")
        \/ \E e \in Effects : Act(r, e)
        \/ Move(r, "working", "waiting")
        \/ Move(r, "waiting", "working")
        \/ Move(r, "working", "over")

Spec == Init /\ [][Next]_vars
=============================================================================
