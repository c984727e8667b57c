----------------------------- MODULE PlanOrder -----------------------------
(***************************************************************************)
(* What a plan promises: its steps are worked on in the order that the     *)
(* strategies of the plan and of its phases ask for, one at a time, it is  *)
(* complete when all of its steps are, and after a fatal error nothing     *)
(* more is done (pkg/engine/workflow, operatorversion_types.go).           *)
(*                                                                         *)
(* A plan is [strategy, phases], a phase [name, strategy, steps] and a     *)
(* step [name, tasks], with sequences of phases, steps and tasks.  A step  *)
(* is identified by its position <<phase, step>>.                          *)
(***************************************************************************)
EXTENDS Naturals, Sequences

CONSTANT PlanSpecs     \* the plans

VARIABLES
    plan,      \* the plan
    done,      \* the steps that were completed by this execution
    active,    \* the step that is worked on, if any
    outcome    \* of this execution

vars == <<plan, done, active, outcome>>

StepsOf(p, i) == {<<i, j>> : j \in 1 .. Len(p.phases[i].steps)}
AllSteps(p) == UNION {StepsOf(p, i) : i \in 1 .. Len(p.phases)}

\* The steps that come before x: in its phase, if that is serial, and in the
\* phases before, if the plan is.
Predecessors(p, x) ==
    {y \in AllSteps(p) :
        \/ y[1] = x[1] /\ y[2] < x[2] /\ p.phases[x[1]].strategy = "serial"
        \/ y[1] < x[1] /\ p.strategy = "serial"}

Init ==
    /\ plan \in PlanSpecs
    /\ done = {}
    /\ active = {}
    /\ outcome = "running"

\* A step may be worked on again: tasks are idempotent, and a status can get lost.
Start(x) ==
    /\ outcome = "running" /\ active = {}
    /\ Predecessors(plan, x) \subseteq done
    /\ active' = {x}
    /\ UNCHANGED <<plan, done, outcome>>

\* The step is completed, or given up for now.
Stop ==
    /\ active # {}
    /\ active' = {}
    /\ done' \in {done, done \cup active}
    /\ UNCHANGED <<plan, outcome>>

Complete ==
    /\ outcome = "running" /\ active = {}
    /\ done = AllSteps(plan)
    /\ outcome' = "complete"
    /\ UNCHANGED <<plan, done, active>>

Fail ==
    /\ outcome = "running" /\ active = {}
    /\ outcome' = "failed"
    /\ UNCHANGED <<plan, done, active>>

\* The plan is scheduled again: a new execution.
Again ==
    /\ done' = {} /\ active' = {} /\ outcome' = "running"
    /\ UNCHANGED plan

Next ==
    \/ \E x \in AllSteps(plan) : Start(x)
    \/ Stop \/ Complete \/ Fail \/ Again

Spec == Init /\ [][Next]_vars
=============================================================================
