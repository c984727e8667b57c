------------------------- MODULE InstanceAdmission -------------------------
(***************************************************************************)
(* The mutating admission webhook for Instances                            *)
(* (pkg/webhook/instance_admission.go).  The API server calls it for every *)
(* CREATE and UPDATE of an Instance, not for writes of its status          *)
(* subresource and not for DELETE, and applies the answer together with    *)
(* the write.  The operators below are that answer.                        *)
(*                                                                         *)
(* trig stands for what the change of the parameters triggers: NoPlan when *)
(* no parameter changed, else the plan triggeredByParameterUpdate selects. *)
(***************************************************************************)
EXTENDS InstanceTypes

(* ------------------------------- CREATE ------------------------------- *)

CreateAllowed(i) == DeployPlan \in PlansOf[i.ov]

HandleCreate(i, u) ==
    LET j == IF CleanupPlanExists(i.ov) THEN TryAddFinalizer(i) ELSE i
    IN  [j EXCEPT !.pe.plan = DeployPlan, !.pe.uid = u]

(* ------------------------------- UPDATE ------------------------------- *)

HadPlan(old)            == old.pe.plan # NoPlan
IsUpgrade(old, new)     == new.ov # old.ov
IsNovelPlan(old, new)   == ~ HadPlan(old) /\ new.pe.plan # NoPlan

\* Mutant: only a plan that has started is protected.
IsRunningPlanOverride(old, new) ==
    IsRunning(old.pe.status) /\ new.pe.plan \notin {NoPlan, old.pe.plan}

IsPlanOverride(old, new) ==
    HadPlan(old) /\ new.pe.plan \notin {NoPlan, old.pe.plan}
IsPlanRetriggered(old, new) ==
    HadPlan(old) /\ new.pe.plan = old.pe.plan /\ new.pe.uid # old.pe.uid
IsPlanCancellation(old, new) == HadPlan(old) /\ new.pe.plan = NoPlan

PlanUnknown(new) ==
    new.pe.plan # NoPlan /\ new.pe.plan \notin PlansOf[new.ov]

\* The rules of the uninstall phase.
DeniedWhileDeleting(old, new, trig) ==
    \/ old.pe.plan = CleanupPlan /\ new.pe.plan # CleanupPlan
    \/ trig # NoPlan
    \/ IsUpgrade(old, new)
    \/ new.pe.plan \notin {NoPlan, CleanupPlan}

\* The rules of the normal phase.
DeniedNormally(old, new, trig) ==
    \/ HadPlan(old) /\ trig \notin {NoPlan, old.pe.plan}
    \/ IsUpgrade(old, new) /\ HadPlan(old)
    \/ IsUpgrade(old, new) /\ IsNovelPlan(old, new)
    \/ IsUpgrade(old, new) /\ trig \notin {NoPlan, DeployPlan}
    \/ IsPlanOverride(old, new)
    \/ IsPlanCancellation(old, new)
    \/ trig # NoPlan /\ IsNovelPlan(old, new)
    \/ new.pe.plan = CleanupPlan

\* The first of upgrade, update and deploy that the new version has.
UpgradeCandidates(ov) == {UpgradePlan, UpdatePlan, DeployPlan} \cap PlansOf[ov]
SelectUpgradePlan(ov) ==
    CASE UpgradePlan \in PlansOf[ov] -> UpgradePlan
      [] UpgradePlan \notin PlansOf[ov] /\ UpdatePlan \in PlansOf[ov] -> UpdatePlan
      [] OTHER -> DeployPlan

Denied(old, new, trig) ==
    \/ PlanUnknown(new)
    \/ IF new.deleting
       THEN DeniedWhileDeleting(old, new, trig)
       ELSE \/ DeniedNormally(old, new, trig)
            \/ IsUpgrade(old, new) /\ UpgradeCandidates(new.ov) = {}

Keep    == "keep the plan execution of the request"
Trigger == "trigger a plan"
Reset   == "reset the plan execution"

Triggers(p) == [do |-> Trigger, plan |-> p]
Resets      == [do |-> Reset, plan |-> NoPlan]
Keeps       == [do |-> Keep, plan |-> NoPlan]

\* Mutant: a finished plan stays in the spec.
DecisionWithoutReset(old, new, trig) ==
    IF new.deleting                       THEN Keeps
    ELSE IF IsUpgrade(old, new)           THEN Triggers(SelectUpgradePlan(new.ov))
    ELSE IF trig # NoPlan                 THEN Triggers(trig)
    ELSE IF IsNovelPlan(old, new)         THEN Triggers(new.pe.plan)
    ELSE IF IsPlanRetriggered(old, new)   THEN Triggers(new.pe.plan)
    ELSE Keeps

\* What an admitted update does to Spec.PlanExecution: the first case that
\* applies decides.
Decision(old, new, trig) ==
    IF new.deleting                       THEN Keeps
    ELSE IF IsUpgrade(old, new)           THEN Triggers(SelectUpgradePlan(new.ov))
    ELSE IF trig # NoPlan                 THEN Triggers(trig)
    ELSE IF IsNovelPlan(old, new)         THEN Triggers(new.pe.plan)
    ELSE IF IsTerminal(new.pe.status)     THEN Resets
    ELSE IF IsPlanRetriggered(old, new)   THEN Triggers(new.pe.plan)
    ELSE Keeps

ApplyDecision(d, new, u) ==
    CASE d.do = Trigger ->
           [new EXCEPT !.pe = [plan |-> d.plan, uid |-> u, status |-> "NEVER_RUN"]]
      [] d.do = Reset -> [new EXCEPT !.pe = NoPlanExecution]
      [] OTHER -> new

\* Updates that change neither spec nor status (parameters are part of the
\* spec, so none changed) are let through unseen.
IsMetadataUpdate(old, new, trig) ==
    /\ trig = NoPlan
    /\ old.ov = new.ov /\ old.pe = new.pe
    /\ old.ps = new.ps /\ old.ready = new.ready

UpdateAllowed(old, new, trig) ==
    IsMetadataUpdate(old, new, trig) \/ ~ Denied(old, new, trig)

HandleUpdate(old, new, trig, u) ==
    IF IsMetadataUpdate(old, new, trig) THEN new
    ELSE ApplyDecision(Decision(old, new, trig), new, u)
=============================================================================
