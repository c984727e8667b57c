--------------------------- MODULE InstanceTypes ---------------------------
(***************************************************************************)
(* The Instance resource of KUDO and the methods of its Go type            *)
(* (pkg/apis/kudo/v1beta1/instance_types.go, instance_types_helpers.go).   *)
(*                                                                         *)
(* An Instance is kept as one record: the spec fields (ov, pe), the        *)
(* metadata fields (fin: the cleanup finalizer is set, deleting: the       *)
(* deletion timestamp is set) and the status fields (ps: the plan          *)
(* statuses, ready: the reason of the Ready condition).  Parameters are    *)
(* abstracted to the plan that changing them triggers; timestamps and      *)
(* messages are left out.                                                  *)
(***************************************************************************)

CONSTANTS
    Plan,              \* the plan names that occur in the operator versions
    OperatorVersion,   \* the installed OperatorVersions
    PlansOf,           \* PlansOf[ov] is the set of keys of ov.Spec.Plans
    UID                \* the UIDs that uuid.NewUUID() may return

NoPlan == ""           \* an empty Spec.PlanExecution.PlanName
NoStatus == ""         \* an empty Spec.PlanExecution.Status
NoUID  == 0            \* an empty UID
Absent == "ABSENT"     \* no entry for the plan in Status.PlanStatus

DeployPlan  == "deploy"
UpgradePlan == "upgrade"
UpdatePlan  == "update"
CleanupPlan == "cleanup"

ASSUME PlanAssumption ==
    /\ NoPlan \notin Plan
    /\ {DeployPlan, CleanupPlan} \subseteq Plan
    /\ PlansOf \in [OperatorVersion -> SUBSET Plan]

ASSUME UIDAssumption == NoUID \notin UID

ExecutionStatus ==
    {"NEVER_RUN", "PENDING", "IN_PROGRESS", "ERROR", "COMPLETE", "FATAL_ERROR"}

IsTerminal(st) == st \in {"COMPLETE", "FATAL_ERROR"}
IsFinished(st) == st = "COMPLETE"
IsRunning(st)  == st \in {"IN_PROGRESS", "PENDING", "ERROR"}

PlanExecution ==
    [plan   : Plan \cup {NoPlan},
     uid    : UID \cup {NoUID},
     status : ExecutionStatus \cup {NoStatus}]

NoPlanExecution == [plan |-> NoPlan, uid |-> NoUID, status |-> NoStatus]

PlanStatus == [uid : UID \cup {NoUID}, status : ExecutionStatus \cup {Absent}]

Readiness ==
    {"None", "PlanInProgress", "PlanInFatalError", "ResourceNotReady",
     "ResourcesReady"}

Instance ==
    [ov       : OperatorVersion,
     pe       : PlanExecution,
     fin      : BOOLEAN,
     deleting : BOOLEAN,
     ps       : [Plan -> PlanStatus],
     ready    : Readiness]

\* The UIDs an Instance mentions.
UIDsOf(i) == {i.pe.uid} \cup {i.ps[p].uid : p \in Plan}

CleanupPlanExists(ov) == CleanupPlan \in PlansOf[ov]

(* --------------------------- status updates --------------------------- *)

SetReadiness(i, r) == [i EXCEPT !.ready = r]

\* The readiness that follows from the status of a plan execution.
ReadinessAfter(st, r) ==
    CASE IsFinished(st)       -> "ResourcesReady"
      [] st = "FATAL_ERROR"   -> "PlanInFatalError"
      [] OTHER                -> r

\* Stores the status of plan p in Status.PlanStatus, where every caller has
\* just found an entry for it, and in Spec.PlanExecution.Status.
UpdateInstanceStatus(i, p, s) ==
    [i EXCEPT !.ps[p] = s, !.pe.status = s.status,
              !.ready = ReadinessAfter(s.status, @)]

ResetPlanStatus(i, p, u) ==
    UpdateInstanceStatus(i, p, [uid |-> u, status |-> "PENDING"])

(* ------------------------------ finalizer ----------------------------- *)

CleanupNeverRun(i) == i.ps[CleanupPlan].status \in {Absent, "NEVER_RUN"}

TryAddFinalizer(i) == [i EXCEPT !.fin = @ \/ CleanupNeverRun(i)]

\* Mutant: a cleanup plan that failed fatally is good enough.
TryRemoveFinalizerIfTerminal(i) ==
    [i EXCEPT !.fin = /\ @
                      /\ i.ps[CleanupPlan].status # Absent
                      /\ ~ IsTerminal(i.ps[CleanupPlan].status)]

TryRemoveFinalizer(i) ==
    [i EXCEPT !.fin = /\ @
                      /\ i.ps[CleanupPlan].status # Absent
                      /\ ~ IsFinished(i.ps[CleanupPlan].status)]
=============================================================================
