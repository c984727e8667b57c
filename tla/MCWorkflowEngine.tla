--------------------------- MODULE MCWorkflowEngine ---------------------------
(***************************************************************************)
(* Small plans for WorkflowEngine.                                         *)
(***************************************************************************)
EXTENDS WorkflowEngine

Ordering == {"serial", "parallel"}

MCStep(n, ts)     == [name |-> n, tasks |-> ts]
MCPhase(n, o, ss) == [name |-> n, strategy |-> o, steps |-> ss]
MCPlan(o, phs)    == [strategy |-> o, phases |-> phs]

\* Two phases of two steps, in every combination of strategies; one step has
\* two tasks and one has none.
TwoPhases(o, o1, o2) ==
    MCPlan(o, << MCPhase("p", o1, <<MCStep("a", <<"t", "u">>), MCStep("b", <<"v">>)>>),
                 MCPhase("q", o2, <<MCStep("a", <<>>), MCStep("b", <<"t">>)>>) >>)

RegularPlans == {TwoPhases(o, o1, o2) : o, o1, o2 \in Ordering}

\* Phases without steps, a plan without phases, and an invalid last task.
SmallPlans ==
    RegularPlans \cup
    {MCPlan("serial", <<>>),
     MCPlan("serial", << MCPhase("p", "serial", <<>>),
                         MCPhase("q", "serial", <<MCStep("a", <<"t", "bad">>)>>) >>)}

\* A plan that gains a phase and a step, and two with a name that occurs twice.
OddPlans ==
    {MCPlan("serial", << MCPhase("p", "serial", <<MCStep("a", <<"t">>)>>) >>),
     MCPlan("serial", << MCPhase("p", "serial", <<MCStep("b", <<"u">>), MCStep("a", <<"t">>)>>),
                         MCPhase("q", "serial", <<MCStep("a", <<"t">>)>>) >>),
     MCPlan("parallel", << MCPhase("p", "serial", <<MCStep("a", <<"t">>)>>),
                           MCPhase("p", "serial", <<MCStep("b", <<"u">>)>>) >>)}

\* Two steps of a phase with one name.
TwiceNamed ==
    {MCPlan("serial", << MCPhase("p", "serial", <<MCStep("a", <<"t">>), MCStep("a", <<"u">>)>>) >>)}

AllPlans == OddPlans \cup TwiceNamed \cup {TwoPhases("serial", "parallel", "serial")}

Bad == {"bad"}
None == {}
=============================================================================
