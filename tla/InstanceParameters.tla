------------------------- MODULE InstanceParameters -------------------------
(***************************************************************************)
(* The parameters of one Instance under the admission webhook              *)
(* (pkg/webhook/instance_admission.go, KEP-30): which changes of the       *)
(* parameters and of the operator version are admitted, which plan they    *)
(* trigger, and what the webhook itself does to the parameters.            *)
(* InstanceAdmission has the rules on plans; its trig is computed here.    *)
(*                                                                         *)
(* Users set, change and remove values.  The controller executes the       *)
(* scheduled plan with the values that are effective then; its passes      *)
(* before the last change nothing here.                                    *)
(* Deletion is left to InstanceLifecycle.                                  *)
(***************************************************************************)
EXTENDS InstanceAdmission, Naturals, FiniteSets

CONSTANTS
    Parameter,   \* names of parameters
    Value,       \* their values
    Empty,       \* the empty string, which is one of them
    None,        \* no entry in a map of parameters, or no default
    Undefined,   \* no definition in an operator version
    Catalogs     \* the definitions that the operator versions may have

Definition ==
    [immutable : BOOLEAN, required : BOOLEAN, default : Value \cup {None},
     trigger : Plan \cup {NoPlan}, allowed : SUBSET Value]

\* Package verification accepts an immutable parameter only if it is required
\* or has a default (immutableParams), and a default only if it is valid.
Accepted(d) ==
    /\ d.immutable => d.required \/ d.default # None
    /\ d.default # None => d.default \in d.allowed

ASSUME ParameterAssumption ==
    /\ Empty \in Value /\ None \notin Value /\ Undefined \notin Definition
    /\ OperatorVersion # {} /\ \A ov \in OperatorVersion : IsFiniteSet(PlansOf[ov])
    /\ \A u \in UID \cup {NoUID} : \E v \in UID : v # u   \* there is a new UID
    /\ Catalogs \subseteq
          [OperatorVersion -> [Parameter -> {d \in Definition : Accepted(d)} \cup {Undefined}]]

VARIABLES
    definitions,   \* definitions[ov][p]: Spec.Parameters of the versions
    exists,        \* the Instance has been created
    inst,          \* its version, plan execution and deletion
    params,        \* its Spec.Parameters
    executed,      \* the values that the last finished plan was executed with
    unguarded      \* history: a removal that no rule of the webhook looks at

vars == <<definitions, exists, inst, params, executed, unguarded>>

NoParams == [p \in Parameter |-> None]

Init ==
    /\ definitions \in Catalogs
    /\ exists = FALSE
    /\ inst = [ov |-> CHOOSE ov \in OperatorVersion : TRUE,
               pe |-> NoPlanExecution, deleting |-> FALSE]
    /\ params = NoParams
    /\ executed = NoParams
    /\ unguarded = FALSE

Def(ov, p)  == definitions[ov][p]
Defined(ov) == {p \in Parameter : Def(ov, p) # Undefined}

\* What templates see (ParamsMap).
Effective(ov, ps) ==
    [p \in Parameter |->
        IF p \notin Defined(ov) THEN None
        ELSE IF ps[p] # None THEN ps[p] ELSE Def(ov, p).default]

(* ------------------------- what an update changes --------------------- *)

ChangedOrAdded(old, new) == {p \in Parameter : new[p] # None /\ new[p] # old[p]}
Removed(old, new)        == {p \in Parameter : old[p] # None /\ new[p] = None}

\* Mutant: added parameters do not count.
ChangedNotAdded(old, new, oldOv) ==
    {p \in ChangedOrAdded(old, new) \cap Defined(oldOv) : old[p] # None}

\* Definitions of parameters that an upgrade adds do not count as changed.
ChangedDefs(old, new, oldOv) == ChangedOrAdded(old, new) \cap Defined(oldOv)

\* If one of them has no definition, none of them counts: the error of
\* GetParamDefinitions is dropped, and the list with it.
RemovedDefs(old, new, newOv) ==
    IF Removed(old, new) \subseteq Defined(newOv) THEN Removed(old, new) ELSE {}

UpdatedDefs(old, new, oldOv, newOv) ==
    ChangedDefs(old, new, oldOv) \cup RemovedDefs(old, new, newOv)

(* ------------------------------ validation ---------------------------- *)

\* Mutant: a value may always be missing.
NothingRequired(d, v) == v \in {None, Empty} \cup d.allowed

\* ValidateValue: an empty value is as good as none.
ValidValue(d, v) ==
    IF v \in {None, Empty} THEN ~ d.required \/ d.default # None ELSE v \in d.allowed

ValidParameters(ov, ps) == \A p \in Defined(ov) : ValidValue(Def(ov, p), ps[p])

\* Mutant: only parameters that are new in the version need a value.
NewImmutablesSet(new, oldOv, newOv) ==
    \A p \in Defined(newOv) \ Defined(oldOv) :
        Def(newOv, p).immutable => new[p] # None

\* validateOVUpgrade: what becomes immutable must have a value ...
UpgradeSetsImmutables(new, oldOv, newOv) ==
    \A p \in Defined(newOv) :
        /\ Def(newOv, p).immutable
        /\ p \in Defined(oldOv) => ~ Def(oldOv, p).immutable
        => new[p] # None

\* ... and what the new version does not have is dropped.
WithoutRemovedDefs(ps, oldOv, newOv) ==
    [p \in Parameter |-> IF p \in Defined(oldOv) \ Defined(newOv) THEN None ELSE ps[p]]

\* checkImmutableParameters
ImmutablesRespected(old, new, oldOv, newOv) ==
    IF oldOv = newOv
    THEN \A p \in ChangedDefs(old, new, oldOv) : ~ Def(newOv, p).immutable
    ELSE UpgradeSetsImmutables(new, oldOv, newOv)

(* ------------------------------- triggers ----------------------------- *)

TriggersIn(D, ov) == {Def(ov, p).trigger : p \in D} \ {NoPlan}

\* The plan of a change that names none: update, else deploy.
DefaultTrigger(ov) == IF UpdatePlan \in PlansOf[ov] THEN UpdatePlan ELSE DeployPlan

\* Mutant: any of several plans is triggered.
TriggerableAnyway(D, ov) == TriggersIn(D, ov) \subseteq PlansOf[ov]

\* Mutant: nobody asks whether the version has the plan.
TriggerableUnknown(D, ov) == Cardinality(TriggersIn(D, ov)) <= 1

Triggerable(D, ov) ==
    /\ TriggersIn(D, ov) \subseteq PlansOf[ov]
    /\ Cardinality(TriggersIn(D, ov)) <= 1
    /\ D # {} /\ TriggersIn(D, ov) = {} => {UpdatePlan, DeployPlan} \cap PlansOf[ov] # {}

\* Mutant: without a trigger nothing is triggered.
NoDefaultTrigger(D, ov) ==
    IF TriggersIn(D, ov) = {} THEN NoPlan ELSE CHOOSE t \in TriggersIn(D, ov) : TRUE

\* triggeredByParameterUpdate
TriggeredPlan(D, ov) ==
    IF D = {} THEN NoPlan
    ELSE IF TriggersIn(D, ov) = {} THEN DefaultTrigger(ov)
    ELSE CHOOSE t \in TriggersIn(D, ov) : TRUE

(* -------------------------------- CREATE ------------------------------ *)

\* setImmutableParameterDefaults
WithImmutableDefaults(ov, ps) ==
    [p \in Parameter |->
        IF p \in Defined(ov) /\ Def(ov, p).immutable /\ ps[p] = None
        THEN Def(ov, p).default ELSE ps[p]]

\* A UID that is not the one of the scheduled execution.
NewUUID == CHOOSE u \in UID : u # inst.pe.uid

\* Nobody asks whether the parameters are defined.
Create(ov, ps) ==
    /\ ~ exists
    /\ DeployPlan \in PlansOf[ov]
    /\ params' = WithImmutableDefaults(ov, ps)
    /\ ValidParameters(ov, params')
    /\ exists' = TRUE
    /\ inst' = [inst EXCEPT !.ov = ov, !.pe.plan = DeployPlan, !.pe.uid = NewUUID]
    /\ UNCHANGED <<definitions, executed, unguarded>>

(* -------------------------------- UPDATE ------------------------------ *)

\* An update of version, plan execution and parameters, as the webhook
\* answers it.
Update(new, ps) ==
    LET old  == inst
        defs == UpdatedDefs(params, ps, old.ov, new.ov)
        trig == TriggeredPlan(defs, new.ov)
    IN  /\ exists /\ (new # old \/ ps # params)
        /\ ChangedOrAdded(params, ps) \subseteq Defined(new.ov)
        /\ ImmutablesRespected(params, ps, old.ov, new.ov)
        /\ params' = WithoutRemovedDefs(ps, old.ov, new.ov)
        /\ ValidParameters(new.ov, params')
        /\ Triggerable(defs, new.ov)
        /\ ~ Denied(old, new, trig)
        /\ inst' = ApplyDecision(Decision(old, new, trig), new, NewUUID)
        /\ UNCHANGED <<definitions, exists>>

\* The value of an immutable parameter is removed, or one without a definition
\* other than by an upgrade.
UnguardedRemoval(ov, ps) ==
    \E p \in Removed(params, ps) :
        IF p \in Defined(ov) THEN Def(ov, p).immutable ELSE ov = inst.ov

\* A user asks for other parameters, another version or another plan.
Change(ov, p, ps) ==
    /\ LET pe == IF p = NoPlan THEN inst.pe
                 ELSE [plan |-> p, uid |-> NewUUID, status |-> inst.pe.status]
       IN  Update([inst EXCEPT !.ov = ov, !.pe = pe], ps)
    /\ unguarded' = (unguarded \/ UnguardedRemoval(ov, ps))
    /\ UNCHANGED executed

\* The controller's last pass of the scheduled plan: it was executed with the
\* values of this version of the object, or the write would be a conflict.
PlanEnds(st) ==
    /\ exists /\ inst.pe.plan # NoPlan
    /\ Update([inst EXCEPT !.pe.status = st], params)
    /\ executed' = Effective(inst.ov, params)
    /\ UNCHANGED unguarded

Next ==
    \/ \E ov \in OperatorVersion, ps \in [Parameter -> Value \cup {None}] :
          \/ Create(ov, ps)
          \/ \E p \in Plan \cup {NoPlan} : Change(ov, p, ps)
    \/ \E st \in {"COMPLETE", "FATAL_ERROR"} : PlanEnds(st)

Spec == Init /\ [][Next]_vars

(* ----------------------------- properties ----------------------------- *)

\* The types: an Instance has values or no values, and the plan that the
\* webhook scheduled is one of its version (triggeredByParameterUpdate).
TypeOK ==
    /\ definitions \in Catalogs
    /\ exists \in BOOLEAN
    /\ inst \in [ov : OperatorVersion, pe : PlanExecution, deleting : {FALSE}]
    /\ inst.pe.plan \in PlansOf[inst.ov] \cup {NoPlan}
    /\ params \in [Parameter -> Value \cup {None}]
    /\ executed \in [Parameter -> Value \cup {None}]
    /\ unguarded \in BOOLEAN

\* ValidateValue lets the empty string pass for whatever is not required or has a
\* default, be it an integer or one of a list; templates see it, not the default.
EmptyGiven(p) ==
    params[p] = Empty /\ (Def(inst.ov, p).required => Def(inst.ov, p).default # None)

\* Whatever is created, updated and upgraded, templates see allowed values of
\* the stored version, and a value for every required parameter
\* (validateParameters against ParamsMap), except for an empty string that the
\* Instance itself gives to a parameter that is not required or has a default.
ParametersValid ==
    exists => \A p \in Defined(inst.ov) :
        LET d == Def(inst.ov, p)
            v == Effective(inst.ov, params)[p]
        IN  \/ v \in d.allowed
            \/ v = None /\ ~ d.required
            \/ EmptyGiven(p)

Pinned ==
    \A p \in Defined(inst.ov) : Def(inst.ov, p).immutable => params[p] # None

\* KEP-30: an immutable parameter has its value in the Instance itself, so that
\* the defaults of later versions do not matter: from the creation, or from the
\* upgrade that made it immutable (setImmutableParameterDefaults,
\* validateOVUpgrade), unless the value was removed by hand.
ImmutablePinned == exists /\ ~ unguarded => Pinned

UpToDate == inst.pe.plan = NoPlan => executed = Effective(inst.ov, params)

\* An Instance without a scheduled plan runs with the values it shows: every
\* change of an effective value got a plan executed (admitUpdate), unless an
\* undefined parameter was removed.
IdleIsUpToDate == exists /\ ~ unguarded => UpToDate

\* While the version stays, a value that an immutable parameter has is not
\* replaced by another, and none is added (checkImmutableParameters).
ImmutableNotReplaced ==
    [][ exists /\ inst'.ov = inst.ov =>
          \A p \in Defined(inst.ov) :
              Def(inst.ov, p).immutable /\ params'[p] # None
                  => params'[p] = params[p] ]_vars

\* A plan that a changed parameter names is scheduled, whatever else changes
\* (triggeredByParameterUpdate); an Instance with undefined parameters aside.
NamedTriggerScheduled ==
    [][ exists /\ inst'.ov = inst.ov /\ Removed(params, params') \subseteq Defined(inst.ov) =>
          \A p \in Defined(inst.ov) :
              params'[p] # params[p] /\ Def(inst.ov, p).trigger # NoPlan
                  => inst'.pe.plan = Def(inst.ov, p).trigger ]_vars

(* ---------- what comments and documents say, and the code does not ----- *)

\* parameter_types.go:18: "Required specifies if the parameter is required to be
\* provided by all instances, or whether a default can suffice"; 34: "Defines a
\* list of allowed values".  Without the exception of ParametersValid.
RequiredHaveValues ==
    exists => \A p \in Defined(inst.ov) :
        Def(inst.ov, p).required
            => Effective(inst.ov, params)[p] \in Def(inst.ov, p).allowed \ {Empty}

\* KEP-30: "If the value of any immutable parameter changes from the current
\* value it rejects the whole update".
ImmutableKept ==
    [][ exists /\ inst'.ov = inst.ov =>
          \A p \in Defined(inst.ov) :
              Def(inst.ov, p).immutable
                  => Effective(inst.ov, params')[p] = Effective(inst.ov, params)[p] ]_vars

\* parameter_types.go: "Trigger identifies the plan that gets executed when this
\* parameter changes in the Instance object": no change goes without its plan.
EveryChangeExecuted == exists => UpToDate
=============================================================================
