------------------------ MODULE MCInstanceLifecycle ------------------------
(***************************************************************************)
(* Small instances of InstanceLifecycle: one Instance, operator versions   *)
(* given as the sets of their plans.                                       *)
(***************************************************************************)
EXTENDS InstanceLifecycle, TLC

MCPlan == {"deploy", "upgrade", "cleanup"}

\* Two versions of an operator, both with a cleanup plan.
V1 == "v1"
V2 == "v2"
MCPlansOf == (V1 :> {"deploy", "cleanup"}) @@ (V2 :> {"deploy", "upgrade", "cleanup"})
MCTriggersOf == (V1 :> {"deploy"}) @@ (V2 :> {"deploy"})

\* The plans of the liveness run: an upgrade runs the deploy plan.
DeployAndCleanup == {"deploy", "cleanup"}
TwoVersions == (V1 :> DeployAndCleanup) @@ (V2 :> DeployAndCleanup)

\* Depending on the parameters, the upgrade plan cannot be prepared.
InvalidUpgrade == {<<V2, "upgrade">>}

Nothing == {}
=============================================================================
