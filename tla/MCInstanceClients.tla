-------------------------- MODULE MCInstanceClients --------------------------
(***************************************************************************)
(* A child with two versions and two parameters.                           *)
(***************************************************************************)
EXTENDS InstanceClients, TLC

MCPlan == {"deploy", "update", "cleanup"}
MCPlansOf == ("v1" :> {"deploy", "update"}) @@ ("v2" :> {"deploy"})

D(immutable, default, trigger) ==
    [immutable |-> immutable, required |-> FALSE, default |-> default,
     trigger |-> trigger, allowed |-> {"x", "y"}]

\* The second parameter is immutable, or it is not in v2.
MCCatalogs ==
    {("v1" :> ("a" :> D(FALSE, "x", NoPlan) @@ "b" :> D(i, "x", NoPlan))) @@
     ("v2" :> ("a" :> D(FALSE, "y", "deploy") @@ "b" :> b2)) :
        i \in BOOLEAN, b2 \in {Undefined, D(TRUE, "x", NoPlan)}}

Params(a, b) == ("a" :> a) @@ ("b" :> b)

MCParentWants ==
    {[ov |-> "v1", ps |-> Params("x", None)], [ov |-> "v1", ps |-> Params("y", None)],
     [ov |-> "v2", ps |-> Params("x", "y")]}

MCCliUpdates ==
    {[plan |-> NoPlan, ps |-> Params("y", None)], [plan |-> NoPlan, ps |-> Params("x", "y")],
     [plan |-> "deploy", ps |-> Params(None, None)]}

MCUserChanges ==
    {[ov |-> ov, plan |-> p, ps |-> ps] :
        ov \in {"v1", "v2"}, p \in {NoPlan, "update"}, ps \in {Params("x", None), Params("y", "y")}}
=============================================================================
