------------------------ MODULE InstanceClientsProofs -----------------------
(***************************************************************************)
(* For any operator versions, definitions and values: valid parameters stay*)
(* valid, and without unguarded removals immutable parameters stay pinned  *)
(* and an idle Instance is up to date.  For any wishes and commands: the   *)
(* clients of an Instance are users of InstanceParameters, so that what is *)
(* proved there holds with them, and a KudoOperator task is done only when *)
(* the child was executed with what the parent gives it.                   *)
(***************************************************************************)
EXTENDS InstanceClients, FiniteSetTheorems, TLAPS

(* ----------------------- the parameters of an Instance ---------------- *)

Values    == [Parameter -> Value \cup {None}]
Instances == [ov : OperatorVersion, pe : PlanExecution, deleting : {FALSE}]

\* A finished plan does not stay in the spec: the reset of admitUpdate.
NotTerminal == ~ IsTerminal(inst.pe.status)

\* The stored parameters passed validateParameters against the stored version.
StoredValid == exists => ValidParameters(inst.ov, params)

IInv ==
    TypeOK /\ NotTerminal /\ StoredValid /\ ImmutablePinned /\ IdleIsUpToDate

(* ------------------------------ definitions --------------------------- *)

\* A parameter of a version has a definition that package verification accepts.
LEMMA DefTyped ==
    ASSUME TypeOK, NEW ov \in OperatorVersion, NEW p \in Defined(ov)
    PROVE  /\ p \in Parameter
           /\ Def(ov, p) \in Definition
           /\ Accepted(Def(ov, p))
BY ParameterAssumption DEF TypeOK, Defined, Def

\* ParamsMap yields values, or nothing.
LEMMA EffectiveTyped ==
    ASSUME TypeOK, NEW ov \in OperatorVersion, NEW ps \in Values
    PROVE  Effective(ov, ps) \in Values
<1>1. ASSUME NEW p \in Parameter
      PROVE  (IF p \notin Defined(ov) THEN None
              ELSE IF ps[p] # None THEN ps[p] ELSE Def(ov, p).default) \in Value \cup {None}
  <2>1. CASE p \notin Defined(ov)
    BY <2>1
  <2>2. CASE p \in Defined(ov)
    BY <2>2, DefTyped DEF Values, Definition
  <2> QED BY <2>1, <2>2
<1> QED BY <1>1 DEF Effective, Values

\* Validation of the stored values (validateParameters) is enough for what
\* templates see (ParamsMap): a default is never worse than no value.
LEMMA ValidIsEffective ==
    ASSUME TypeOK, NEW ov \in OperatorVersion, NEW ps \in Values,
           ValidParameters(ov, ps), NEW p \in Defined(ov)
    PROVE  LET d == Def(ov, p)
               v == Effective(ov, ps)[p]
           IN  \/ v \in d.allowed
               \/ v = None /\ ~ d.required
               \/ ps[p] = Empty /\ (d.required => d.default # None)
<1> DEFINE d == Def(ov, p)
           v == Effective(ov, ps)[p]
<1>1. p \in Parameter /\ Accepted(d) /\ ValidValue(d, ps[p])
  BY DefTyped DEF ValidParameters
<1>2. v = IF ps[p] # None THEN ps[p] ELSE d.default
  BY <1>1 DEF Effective
<1>3. None # Empty
  BY ParameterAssumption
<1> QED BY <1>1, <1>2, <1>3 DEF Accepted, ValidValue

(* ------------------------------- webhook ------------------------------ *)

\* uuid.NewUUID returns a UID.
LEMMA NewUUIDTyped ==
    ASSUME TypeOK
    PROVE  NewUUID \in UID
BY ParameterAssumption DEF TypeOK, NewUUID, PlanExecution

\* A change triggers a plan of the version exactly if it changes a definition
\* that counts (triggeredByParameterUpdate).
LEMMA TriggeredIsKnown ==
    ASSUME TypeOK, NEW ov \in OperatorVersion, NEW D, Triggerable(D, ov)
    PROVE  /\ D = {} => TriggeredPlan(D, ov) = NoPlan
           /\ D # {} => TriggeredPlan(D, ov) \in PlansOf[ov] \ {NoPlan}
<1>1. CASE D = {}
  BY <1>1 DEF TriggeredPlan
<1>2. CASE D # {} /\ TriggersIn(D, ov) = {}
  BY <1>2 DEF Triggerable, TriggeredPlan, DefaultTrigger, UpdatePlan, DeployPlan, NoPlan
<1>3. CASE D # {} /\ TriggersIn(D, ov) # {}
  <2>1. PICK t : t \in TriggersIn(D, ov)
    BY <1>3
  <2>2. (CHOOSE s \in TriggersIn(D, ov) : TRUE) \in TriggersIn(D, ov)
    BY <2>1
  <2>3. TriggersIn(D, ov) \subseteq PlansOf[ov] \ {NoPlan}
    BY DEF Triggerable, TriggersIn
  <2> QED BY <1>3, <2>2, <2>3 DEF TriggeredPlan
<1> QED BY <1>1, <1>2, <1>3

\* A plan that one of the definitions names is the one that is triggered: only
\* one may be named (triggeredByParameterUpdate).
LEMMA NamedIsTriggered ==
    ASSUME NEW ov \in OperatorVersion, NEW D, Triggerable(D, ov),
           NEW p \in D, Def(ov, p).trigger # NoPlan
    PROVE  TriggeredPlan(D, ov) = Def(ov, p).trigger
<1> DEFINE T == TriggersIn(D, ov)
           t == Def(ov, p).trigger
<1>1. t \in T
  BY DEF TriggersIn
<1>2. T \subseteq PlansOf[ov] /\ Cardinality(T) <= 1
  BY DEF Triggerable
<1>3. TriggeredPlan(D, ov) = CHOOSE s \in T : TRUE
  BY <1>1 DEF TriggeredPlan
<1> HIDE DEF T
<1>4. IsFiniteSet(T)
  BY <1>2, FS_Subset, ParameterAssumption
<1>5. Cardinality(T) \in Nat /\ Cardinality(T) # 0
  BY <1>1, <1>4, FS_CardinalityType, FS_EmptySet
<1>6. Cardinality(T) = 1
  BY <1>2, <1>5
<1>7. PICK s : T = {s}
  BY <1>4, <1>6, FS_Singleton
<1> QED BY <1>1, <1>3, <1>7

\* Without an upgrade, what the parameters trigger is what is scheduled,
\* whatever the request says itself (admitUpdate).
LEMMA TriggeredIsScheduled ==
    ASSUME NEW n \in Instances, NEW ps, Update(n, ps), n.ov = inst.ov,
           TriggeredPlan(UpdatedDefs(params, ps, inst.ov, n.ov), n.ov) # NoPlan
    PROVE  inst'.pe.plan = TriggeredPlan(UpdatedDefs(params, ps, inst.ov, n.ov), n.ov)
<1> DEFINE trig == TriggeredPlan(UpdatedDefs(params, ps, inst.ov, n.ov), n.ov)
<1>1. inst' = ApplyDecision(Decision(inst, n, trig), n, NewUUID)
  BY DEF Update
<1>2. ~ n.deleting /\ ~ IsUpgrade(inst, n)
  BY DEF Instances, IsUpgrade
<1> HIDE DEF trig
<1>3. Decision(inst, n, trig) = Triggers(trig)
  BY <1>2 DEF Decision, trig
<1>4. inst' = [n EXCEPT !.pe = [plan |-> trig, uid |-> NewUUID, status |-> "NEVER_RUN"]]
  <2>1. Triggers(trig).do = Trigger /\ Triggers(trig).plan = trig
    BY DEF Triggers
  <2> QED BY <1>1, <1>3, <2>1 DEF ApplyDecision, Trigger, Reset
<1> QED BY <1>4 DEF Instances, trig

\* What an admitted write does to the plan execution: a plan of the version is
\* scheduled or none, a finished one is gone, and without a plan afterwards
\* there was no upgrade and nothing to trigger, and the plan was not there
\* before or has ended (admitUpdate).
LEMMA AdmittedPlan ==
    ASSUME TypeOK, NEW n \in Instances, NEW trig \in PlansOf[n.ov] \cup {NoPlan},
           ~ Denied(inst, n, trig), NEW i,
           i = ApplyDecision(Decision(inst, n, trig), n, NewUUID)
    PROVE  /\ i \in Instances
           /\ i.ov = n.ov
           /\ i.pe.plan \in PlansOf[n.ov] \cup {NoPlan}
           /\ ~ IsTerminal(i.pe.status)
           /\ i.pe.plan = NoPlan =>
                 /\ n.ov = inst.ov
                 /\ trig = NoPlan
                 /\ IsTerminal(n.pe.status) \/ n.pe.plan = NoPlan
<1> DEFINE d == Decision(inst, n, trig)
<1>1. /\ n.ov \in OperatorVersion /\ n.pe \in PlanExecution /\ n.deleting = FALSE
      /\ n.pe.plan \in PlansOf[n.ov] \cup {NoPlan}
      /\ ~ DeniedNormally(inst, n, trig)
      /\ IsUpgrade(inst, n) => UpgradeCandidates(n.ov) # {}
      /\ NewUUID \in UID
  BY NewUUIDTyped DEF Instances, Denied, PlanUnknown
<1>2. PlansOf[n.ov] \subseteq Plan
  BY <1>1, PlanAssumption
<1>3. CASE d.do = Trigger
  <2>1. d.plan \in PlansOf[n.ov] \ {NoPlan}
    <3>1. CASE IsUpgrade(inst, n)
      BY <1>1, <3>1 DEF Decision, Triggers, UpgradeCandidates, SelectUpgradePlan,
           UpgradePlan, UpdatePlan, DeployPlan, NoPlan
    <3>2. CASE ~ IsUpgrade(inst, n)
      BY <1>1, <1>3, <3>2 DEF Decision, Triggers, Resets, Keeps, Trigger, Reset, Keep,
           IsNovelPlan, IsPlanRetriggered, HadPlan
    <3> QED BY <3>1, <3>2
  <2> DEFINE pe == [plan |-> d.plan, uid |-> NewUUID, status |-> "NEVER_RUN"]
  <2>2. i = [n EXCEPT !.pe = pe]
    BY <1>3 DEF ApplyDecision, Trigger, Reset
  <2>3. pe \in PlanExecution /\ pe.plan = d.plan /\ ~ IsTerminal(pe.status)
    BY <1>1, <1>2, <2>1 DEF PlanExecution, ExecutionStatus, IsTerminal
  <2> HIDE DEF d, pe
  <2>4. i \in Instances /\ i.ov = n.ov /\ i.pe = pe
    BY <1>1, <2>2, <2>3 DEF Instances
  <2> QED BY <2>1, <2>3, <2>4
<1>4. CASE d.do = Reset
  <2>1. /\ ~ IsUpgrade(inst, n) /\ trig = NoPlan /\ IsTerminal(n.pe.status)
    BY <1>1, <1>4 DEF Decision, Triggers, Resets, Keeps, Trigger, Reset, Keep
  <2>2. i = [n EXCEPT !.pe = NoPlanExecution]
    BY <1>4 DEF ApplyDecision, Trigger, Reset
  <2>3. NoPlanExecution \in PlanExecution
    BY DEF NoPlanExecution, PlanExecution
  <2>4. ~ IsTerminal(NoPlanExecution.status) /\ NoPlanExecution.plan = NoPlan
    BY DEF IsTerminal, NoPlanExecution, NoStatus
  <2>5. i \in Instances /\ i.ov = n.ov /\ i.pe = NoPlanExecution
    BY <1>1, <2>2, <2>3 DEF Instances
  <2> HIDE DEF d
  <2> QED BY <2>1, <2>4, <2>5 DEF IsUpgrade
<1>5. CASE d.do = Keep
  <2>1. /\ ~ IsUpgrade(inst, n) /\ trig = NoPlan /\ ~ IsTerminal(n.pe.status)
    BY <1>1, <1>5 DEF Decision, Triggers, Resets, Keeps, Trigger, Reset, Keep
  <2>2. i = n
    BY <1>5 DEF ApplyDecision, Trigger, Reset, Keep
  <2> HIDE DEF d
  <2> QED BY <1>1, <2>1, <2>2 DEF IsUpgrade
<1>6. d.do \in {Trigger, Reset, Keep}
  BY DEF Decision, Triggers, Resets, Keeps
<1> QED BY <1>3, <1>4, <1>5, <1>6

\* An admitted update leaves a valid Instance; if it leaves no plan, it was no
\* upgrade and changed no definition that counts.
LEMMA UpdateAdmitted ==
    ASSUME TypeOK, NEW n \in Instances, NEW ps \in Values, Update(n, ps)
    PROVE  /\ exists /\ exists' /\ definitions' = definitions
           /\ inst' \in Instances
           /\ inst'.ov = n.ov
           /\ inst'.pe.plan \in PlansOf[n.ov] \cup {NoPlan}
           /\ ~ IsTerminal(inst'.pe.status)
           /\ params' = WithoutRemovedDefs(ps, inst.ov, n.ov)
           /\ params' \in Values
           /\ ValidParameters(n.ov, params')
           /\ inst'.pe.plan = NoPlan =>
                 /\ n.ov = inst.ov
                 /\ UpdatedDefs(params, ps, inst.ov, n.ov) = {}
                 /\ IsTerminal(n.pe.status) \/ n.pe.plan = NoPlan
<1> DEFINE defs == UpdatedDefs(params, ps, inst.ov, n.ov)
           trig == TriggeredPlan(defs, n.ov)
<1>1. /\ exists /\ exists' = exists /\ definitions' = definitions
      /\ params' = WithoutRemovedDefs(ps, inst.ov, n.ov)
      /\ ValidParameters(n.ov, params')
      /\ Triggerable(defs, n.ov)
      /\ ~ Denied(inst, n, trig)
      /\ inst' = ApplyDecision(Decision(inst, n, trig), n, NewUUID)
  BY DEF Update
<1>2. n.ov \in OperatorVersion
  BY DEF Instances
<1> HIDE DEF defs
<1>3. /\ defs = {} => trig = NoPlan
      /\ defs # {} => trig \in PlansOf[n.ov] \ {NoPlan}
  BY <1>1, <1>2, TriggeredIsKnown
<1>4. params' \in Values
  BY <1>1 DEF WithoutRemovedDefs, Values
<1> HIDE DEF trig
<1>5. trig \in PlansOf[n.ov] \cup {NoPlan}
  BY <1>3
<1>6. /\ inst' \in Instances
      /\ inst'.ov = n.ov
      /\ inst'.pe.plan \in PlansOf[n.ov] \cup {NoPlan}
      /\ ~ IsTerminal(inst'.pe.status)
      /\ inst'.pe.plan = NoPlan =>
            /\ n.ov = inst.ov
            /\ trig = NoPlan
            /\ IsTerminal(n.pe.status) \/ n.pe.plan = NoPlan
  BY <1>1, <1>5, AdmittedPlan
<1> QED BY <1>1, <1>3, <1>4, <1>6 DEF defs

(* ------------------------------- invariant ---------------------------- *)

\* What users ask for, and what the controller asks for, are Instances.
LEMMA RequestTyped ==
    ASSUME TypeOK, NEW ov \in OperatorVersion, NEW p \in Plan \cup {NoPlan},
           NEW st \in ExecutionStatus
    PROVE  LET pe == IF p = NoPlan THEN inst.pe
                     ELSE [plan |-> p, uid |-> NewUUID, status |-> inst.pe.status]
           IN  /\ [inst EXCEPT !.ov = ov, !.pe = pe] \in Instances
               /\ [inst EXCEPT !.pe.status = st] \in Instances
<1>1. inst \in Instances /\ NewUUID \in UID
  BY NewUUIDTyped DEF TypeOK, Instances
<1>2. inst.pe \in PlanExecution
  BY <1>1 DEF Instances
<1>3. [plan |-> p, uid |-> NewUUID, status |-> inst.pe.status] \in PlanExecution
  BY <1>1, <1>2 DEF PlanExecution
<1>4. [inst.pe EXCEPT !.status = st] \in PlanExecution
  BY <1>2 DEF PlanExecution
<1> QED BY <1>1, <1>2, <1>3, <1>4 DEF Instances

\* Nothing exists at first.
LEMMA InitEstablishes == Init => IInv
<1> SUFFICES ASSUME Init PROVE IInv
  OBVIOUS
<1>1. (CHOOSE ov \in OperatorVersion : TRUE) \in OperatorVersion
  BY ParameterAssumption
<1>2. NoPlanExecution \in PlanExecution /\ ~ IsTerminal(NoPlanExecution.status)
  BY DEF NoPlanExecution, PlanExecution, IsTerminal, NoStatus
<1>3. TypeOK
  BY <1>1, <1>2 DEF Init, TypeOK, NoParams, NoPlanExecution
<1>4. NotTerminal /\ ~ exists
  BY <1>2 DEF Init, NotTerminal
<1> QED BY <1>3, <1>4 DEF IInv, StoredValid, ImmutablePinned, IdleIsUpToDate

\* A step that keeps the definitions and leaves an Instance establishes the
\* invariant if what it leaves is typed, validated, pinned and up to date.
LEMMA StepEstablishes ==
    ASSUME IInv, definitions' = definitions, exists' = TRUE,
           inst' \in Instances, inst'.pe.plan \in PlansOf[inst'.ov] \cup {NoPlan},
           ~ IsTerminal(inst'.pe.status),
           params' \in Values, executed' \in Values,
           ValidParameters(inst'.ov, params'),
           unguarded' \in BOOLEAN,
           ~ unguarded' =>
              /\ \A p \in Defined(inst'.ov) :
                    Def(inst'.ov, p).immutable => params'[p] # None
              /\ inst'.pe.plan = NoPlan => executed' = Effective(inst'.ov, params')
    PROVE  IInv'
<1>1. TypeOK' /\ NotTerminal'
  BY DEF IInv, TypeOK, NotTerminal, Instances, Values
<1>2. StoredValid'
  BY DEF StoredValid, ValidParameters, Defined, Def
<1>3. ImmutablePinned'
  BY DEF ImmutablePinned, Pinned, Defined, Def
<1>4. IdleIsUpToDate'
  BY DEF IdleIsUpToDate, UpToDate, Effective, Defined, Def
<1> QED BY <1>1, <1>2, <1>3, <1>4 DEF IInv

\* Creation: defaults of immutable parameters become values
\* (setImmutableParameterDefaults), and the deploy plan is scheduled.
LEMMA CreatePreserves ==
    ASSUME IInv, NEW ov \in OperatorVersion, NEW ps \in Values, Create(ov, ps)
    PROVE  IInv'
<1>1. TypeOK /\ NotTerminal
  BY DEF IInv
<1>2. /\ definitions' = definitions /\ exists' = TRUE /\ executed' = executed
      /\ DeployPlan \in PlansOf[ov]
      /\ params' = WithImmutableDefaults(ov, ps)
      /\ (ValidParameters(ov, params'))
      /\ inst' = [inst EXCEPT !.ov = ov, !.pe.plan = DeployPlan, !.pe.uid = NewUUID]
  BY DEF Create, ValidParameters, Defined, Def
<1>3. executed \in Values /\ unguarded' \in BOOLEAN
  BY <1>1 DEF TypeOK, Values, Create
<1>4. /\ inst' \in Instances /\ inst'.ov = ov
      /\ inst'.pe.plan = DeployPlan /\ inst'.pe.status = inst.pe.status
  <2>1. inst \in Instances /\ NewUUID \in UID /\ DeployPlan \in Plan
    BY <1>1, NewUUIDTyped, PlanAssumption DEF TypeOK, Instances
  <2>2. inst.pe \in PlanExecution
    BY <2>1 DEF Instances
  <2>3. [inst.pe EXCEPT !.plan = DeployPlan, !.uid = NewUUID] \in PlanExecution
    BY <2>1, <2>2 DEF PlanExecution
  <2> QED BY <1>2, <2>1, <2>2, <2>3 DEF Instances, PlanExecution
<1>5. DeployPlan # NoPlan
  BY DEF DeployPlan, NoPlan
<1>6. ASSUME NEW p \in Defined(ov)
      PROVE  /\ p \in Parameter /\ Def(ov, p).default \in Value \cup {None}
             /\ Def(ov, p).immutable => params'[p] # None
  <2>1. p \in Parameter /\ Def(ov, p) \in Definition /\ Accepted(Def(ov, p))
    BY <1>1, DefTyped
  <2>2. ValidValue(Def(ov, p), params'[p])
    BY <1>2 DEF ValidParameters
  <2>3. Def(ov, p).immutable /\ ps[p] = None => params'[p] = Def(ov, p).default
    BY <1>2, <2>1 DEF WithImmutableDefaults
  <2>4. ps[p] # None => params'[p] = ps[p]
    BY <1>2, <2>1 DEF WithImmutableDefaults
  <2> QED BY <2>1, <2>2, <2>3, <2>4 DEF Accepted, ValidValue, Definition
<1>7. params' \in Values
  <2>1. ASSUME NEW p \in Parameter
        PROVE  (IF p \in Defined(ov) /\ Def(ov, p).immutable /\ ps[p] = None
                THEN Def(ov, p).default ELSE ps[p]) \in Value \cup {None}
    BY <1>6 DEF Values
  <2> QED BY <1>2, <2>1 DEF WithImmutableDefaults, Values
<1> QED BY <1>1, <1>2, <1>3, <1>4, <1>5, <1>6, <1>7, StepEstablishes DEF NotTerminal

\* Without a change that triggers, and with no undefined parameter taken away,
\* the parameters stay as they are (changedParameters).
LEMMA NothingChanged ==
    ASSUME TypeOK, NEW ps \in Values, NEW ov \in OperatorVersion,
           ChangedOrAdded(params, ps) \subseteq Defined(ov),
           UpdatedDefs(params, ps, ov, ov) = {},
           Removed(params, ps) \subseteq Defined(ov)
    PROVE  ps = params /\ WithoutRemovedDefs(ps, ov, ov) = params
<1>1. ChangedOrAdded(params, ps) = {} /\ Removed(params, ps) = {}
  BY DEF UpdatedDefs, ChangedDefs, RemovedDefs
<1>2. \A p \in Parameter : ps[p] = params[p]
  BY <1>1 DEF ChangedOrAdded, Removed
<1>3. params \in Values
  BY DEF TypeOK, Values
<1>4. ps = params
  BY <1>2, <1>3 DEF Values
<1>5. \A p \in Parameter : WithoutRemovedDefs(ps, ov, ov)[p] = ps[p]
  BY DEF WithoutRemovedDefs
<1>6. WithoutRemovedDefs(ps, ov, ov) \in [Parameter -> Value \cup {None}]
  BY DEF WithoutRemovedDefs, Values
<1> QED BY <1>4, <1>5, <1>6 DEF Values

\* A user's change: upgrades ask for values of what becomes immutable
\* (validateOVUpgrade), and what changes something triggers a plan.
LEMMA ChangePreserves ==
    ASSUME IInv, NEW ov \in OperatorVersion, NEW ps \in Values,
           NEW p \in Plan \cup {NoPlan}, Change(ov, p, ps)
    PROVE  IInv'
<1> DEFINE pe == IF p = NoPlan THEN inst.pe
                 ELSE [plan |-> p, uid |-> NewUUID, status |-> inst.pe.status]
           n  == [inst EXCEPT !.ov = ov, !.pe = pe]
<1>1. TypeOK /\ NotTerminal /\ ImmutablePinned /\ IdleIsUpToDate
  BY DEF IInv
<1>2. n \in Instances
  BY <1>1, RequestTyped DEF ExecutionStatus
<1>3. /\ unguarded' = (unguarded \/ UnguardedRemoval(ov, ps))
      /\ Update(n, ps) /\ executed' = executed
  BY DEF Change
<1>4. /\ n.ov = ov /\ n.pe.status = inst.pe.status
      /\ n.pe.plan = NoPlan => p = NoPlan /\ inst.pe.plan = NoPlan
      /\ inst.ov \in OperatorVersion
  BY <1>1 DEF TypeOK, PlanExecution
<1>5. /\ ChangedOrAdded(params, ps) \subseteq Defined(n.ov)
      /\ ImmutablesRespected(params, ps, inst.ov, n.ov)
  BY <1>3 DEF Update
<1> HIDE DEF n
<1>6. /\ exists /\ exists' /\ definitions' = definitions
      /\ inst' \in Instances
      /\ inst'.ov = ov
      /\ inst'.pe.plan \in PlansOf[ov] \cup {NoPlan}
      /\ ~ IsTerminal(inst'.pe.status)
      /\ params' = WithoutRemovedDefs(ps, inst.ov, ov)
      /\ params' \in Values
      /\ ValidParameters(ov, params')
      /\ inst'.pe.plan = NoPlan =>
            /\ ov = inst.ov
            /\ UpdatedDefs(params, ps, inst.ov, ov) = {}
            /\ p = NoPlan /\ inst.pe.plan = NoPlan
  BY <1>1, <1>2, <1>3, <1>4, UpdateAdmitted DEF NotTerminal
<1>7. executed' \in Values /\ exists' = TRUE /\ unguarded' \in BOOLEAN
  BY <1>1, <1>3, <1>6 DEF TypeOK, Values, Update
<1>8. ASSUME ~ unguarded', NEW q \in Defined(ov), Def(ov, q).immutable
      PROVE  params'[q] # None
  <2>1. q \in Parameter /\ params'[q] = ps[q]
    BY <1>6, <1>8 DEF WithoutRemovedDefs, Defined
  <2>2. CASE q \in Defined(inst.ov) /\ Def(inst.ov, q).immutable
    <3>1. params[q] # None
      BY <1>1, <1>3, <1>6, <1>8, <2>2 DEF ImmutablePinned, Pinned
    <3> QED BY <1>3, <1>8, <2>1, <3>1 DEF Removed, UnguardedRemoval
  <2>3. CASE q \in Defined(inst.ov) => ~ Def(inst.ov, q).immutable
    <3>1. inst.ov # ov
      BY <1>8, <2>3
    <3> QED BY <1>4, <1>5, <1>8, <2>1, <2>3, <3>1
            DEF ImmutablesRespected, UpgradeSetsImmutables
  <2> QED BY <2>2, <2>3
<1>9. ASSUME ~ unguarded', inst'.pe.plan = NoPlan
      PROVE  executed' = Effective(inst'.ov, params')
  <2>1. ov = inst.ov /\ inst.pe.plan = NoPlan
    BY <1>6, <1>9
  <2>2. Removed(params, ps) \subseteq Defined(ov)
    BY <1>3, <1>9, <2>1 DEF UnguardedRemoval
  <2>3. params' = params
    BY <1>1, <1>4, <1>5, <1>6, <1>9, <2>1, <2>2, NothingChanged
  <2>4. executed = Effective(inst.ov, params)
    BY <1>1, <1>3, <1>6, <1>9, <2>1 DEF IdleIsUpToDate, UpToDate
  <2> QED BY <1>3, <1>6, <2>1, <2>3, <2>4
<1> QED BY <1>6, <1>7, <1>8, <1>9, StepEstablishes

\* The end of a plan: its execution is reset, and its values are the present ones.
LEMMA PlanEndsPreserves ==
    ASSUME IInv, NEW st \in {"COMPLETE", "FATAL_ERROR"}, PlanEnds(st)
    PROVE  IInv'
<1> DEFINE n == [inst EXCEPT !.pe.status = st]
<1>1. TypeOK /\ ImmutablePinned /\ unguarded' = unguarded
  BY DEF IInv, PlanEnds
<1>2. inst \in Instances /\ n \in Instances /\ n.ov = inst.ov
  <2>1. st \in ExecutionStatus /\ NoPlan \in Plan \cup {NoPlan}
    BY DEF ExecutionStatus
  <2>2. inst \in Instances /\ inst.ov \in OperatorVersion
    BY <1>1 DEF TypeOK, Instances
  <2> QED BY <1>1, <2>1, <2>2, RequestTyped DEF Instances
<1>3. /\ Update(n, params) /\ executed' = Effective(inst.ov, params)
      /\ params \in Values /\ inst.ov \in OperatorVersion
  BY <1>1, <1>2 DEF PlanEnds, TypeOK, Values, Instances
<1>4. Removed(params, params) = {} /\ ChangedOrAdded(params, params) = {}
  BY DEF Removed, ChangedOrAdded
<1>5. UpdatedDefs(params, params, inst.ov, inst.ov) = {}
  BY <1>4 DEF UpdatedDefs, ChangedDefs, RemovedDefs
<1>6. WithoutRemovedDefs(params, inst.ov, inst.ov) = params
  BY <1>1, <1>3, <1>4, <1>5, NothingChanged
<1> HIDE DEF n
<1>7. /\ exists' /\ definitions' = definitions
      /\ inst' \in Instances /\ inst'.ov = inst.ov
      /\ inst'.pe.plan \in PlansOf[inst.ov] \cup {NoPlan}
      /\ ~ IsTerminal(inst'.pe.status)
      /\ params' = params
      /\ ValidParameters(inst.ov, params')
  BY <1>1, <1>2, <1>3, <1>6, UpdateAdmitted
<1>8. executed' \in Values /\ exists' = TRUE /\ unguarded' \in BOOLEAN
  BY <1>1, <1>3, <1>7, EffectiveTyped DEF Update, TypeOK
<1>9. ~ unguarded' => \A p \in Defined(inst'.ov) :
                         Def(inst'.ov, p).immutable => params'[p] # None
  BY <1>1, <1>3, <1>7 DEF ImmutablePinned, Pinned, Update
<1>10. executed' = Effective(inst'.ov, params')
  BY <1>3, <1>7
<1> QED BY <1>3, <1>7, <1>8, <1>9, <1>10, StepEstablishes

LEMMA NextPreserves == IInv /\ [Next]_vars => IInv'
<1> SUFFICES ASSUME IInv, [Next]_vars PROVE IInv'
  OBVIOUS
<1>1. ASSUME NEW ov \in OperatorVersion, NEW ps \in Values, Create(ov, ps) PROVE IInv'
  BY <1>1, CreatePreserves
<1>2. ASSUME NEW ov \in OperatorVersion, NEW ps \in Values, NEW p \in Plan \cup {NoPlan},
             Change(ov, p, ps)
      PROVE  IInv'
  BY <1>2, ChangePreserves
<1>3. ASSUME NEW st \in {"COMPLETE", "FATAL_ERROR"}, PlanEnds(st) PROVE IInv'
  BY <1>3, PlanEndsPreserves
<1>4. CASE UNCHANGED vars
  BY <1>4 DEF vars, IInv, TypeOK, NotTerminal, StoredValid, ValidParameters,
       ImmutablePinned, Pinned, IdleIsUpToDate, UpToDate, Effective, Defined, Def
<1> QED BY <1>1, <1>2, <1>3, <1>4 DEF Next, Values

(* ------------------------------- theorems ----------------------------- *)

\* Every reachable state satisfies the invariant (instance_admission.go).
THEOREM Invariance == Spec => []IInv
<1> QED BY InitEstablishes, NextPreserves, PTL DEF Spec

\* Only values, known plans and known versions are stored (admitUpdate).
THEOREM TypeCorrect == Spec => []TypeOK
<1>1. IInv => TypeOK
  BY DEF IInv
<1> QED BY <1>1, Invariance, PTL

\* Templates see allowed values, and a value for every required parameter,
\* through all changes and upgrades (validateParameters, ParamsMap); only an empty
\* string that the Instance gives takes the place of one, where the parameter is
\* not required or has a default.
THEOREM AlwaysValid == Spec => []ParametersValid
<1>1. IInv => ParametersValid
  <2> SUFFICES ASSUME IInv, exists PROVE ParametersValid
    BY DEF ParametersValid
  <2>1. TypeOK /\ inst.ov \in OperatorVersion /\ params \in Values
        /\ ValidParameters(inst.ov, params)
    BY DEF IInv, TypeOK, StoredValid, Values
  <2> QED BY <2>1, ValidIsEffective DEF ParametersValid, EmptyGiven
<1> QED BY <1>1, Invariance, PTL

\* Immutable parameters keep a value of their own until it is removed by hand
\* (setImmutableParameterDefaults, validateOVUpgrade).
THEOREM StaysPinned == Spec => []ImmutablePinned
<1>1. IInv => ImmutablePinned
  BY DEF IInv
<1> QED BY <1>1, Invariance, PTL

\* No change goes without a plan until an undefined parameter is removed
\* (triggeredByParameterUpdate).
THEOREM StaysUpToDate == Spec => []IdleIsUpToDate
<1>1. IInv => IdleIsUpToDate
  BY DEF IInv
<1> QED BY <1>1, Invariance, PTL

\* While the version stays, no step replaces the value of an immutable
\* parameter or adds one (checkImmutableParameters).
THEOREM NeverReplaced == Spec => ImmutableNotReplaced
<1> DEFINE Kept ==
      exists /\ inst'.ov = inst.ov =>
          \A p \in Defined(inst.ov) :
              Def(inst.ov, p).immutable /\ params'[p] # None => params'[p] = params[p]
<1>1. ASSUME NEW n, NEW ps \in Values, Update(n, ps), inst'.ov = inst.ov, n.ov = inst'.ov,
             NEW p \in Defined(inst.ov), Def(inst.ov, p).immutable, params'[p] # None
      PROVE  params'[p] = params[p]
  <2>1. p \in Parameter /\ params'[p] = ps[p]
    BY <1>1 DEF Update, WithoutRemovedDefs, Defined
  <2>2. p \notin ChangedOrAdded(params, ps)
    BY <1>1 DEF Update, ImmutablesRespected, ChangedDefs
  <2> QED BY <1>1, <2>1, <2>2 DEF ChangedOrAdded
<1>2. IInv /\ [Next]_vars => Kept
  <2> SUFFICES ASSUME IInv, [Next]_vars, exists, inst'.ov = inst.ov,
                      NEW p \in Defined(inst.ov),
                      Def(inst.ov, p).immutable, params'[p] # None
               PROVE  params'[p] = params[p]
    OBVIOUS
  <2>1. TypeOK /\ params \in Values
    BY DEF IInv, TypeOK, Values
  <2>2. ASSUME NEW ov \in OperatorVersion, NEW ps \in Values, Create(ov, ps)
        PROVE  FALSE
    BY <2>2 DEF Create
  <2>3. ASSUME NEW ov \in OperatorVersion, NEW ps \in Values, NEW q \in Plan \cup {NoPlan},
               Change(ov, q, ps)
        PROVE  params'[p] = params[p]
    <3> DEFINE pe == IF q = NoPlan THEN inst.pe
                     ELSE [plan |-> q, uid |-> NewUUID, status |-> inst.pe.status]
               n  == [inst EXCEPT !.ov = ov, !.pe = pe]
    <3>1. Update(n, ps) /\ n \in Instances
      BY <2>1, <2>3, RequestTyped DEF Change, ExecutionStatus
    <3> HIDE DEF n
    <3>2. inst'.ov = n.ov
      BY <2>1, <3>1, UpdateAdmitted
    <3> QED BY <1>1, <3>1, <3>2
  <2>4. ASSUME NEW st \in {"COMPLETE", "FATAL_ERROR"}, PlanEnds(st)
        PROVE  params'[p] = params[p]
    <3> DEFINE n == [inst EXCEPT !.pe.status = st]
    <3>1. Update(n, params)
      BY <2>4 DEF PlanEnds
    <3>2. n.ov = inst.ov
      BY <2>1 DEF TypeOK
    <3> HIDE DEF n
    <3> QED BY <1>1, <2>1, <3>1, <3>2
  <2>5. CASE UNCHANGED vars
    BY <2>5 DEF vars
  <2> QED BY <2>2, <2>3, <2>4, <2>5 DEF Next, Values
<1>3. Spec => [][IInv /\ [Next]_vars]_vars
  BY Invariance, PTL DEF Spec
<1> QED BY <1>2, <1>3, PTL DEF ImmutableNotReplaced

\* A changed parameter that names a plan gets that plan scheduled, whatever else
\* the same update changes or asks for, as long as it does not take away the
\* value of an undefined parameter (triggeredByParameterUpdate, admitUpdate).
THEOREM NamedTriggersScheduled == Spec => NamedTriggerScheduled
<1> DEFINE Scheduled ==
      exists /\ inst'.ov = inst.ov /\ Removed(params, params') \subseteq Defined(inst.ov) =>
          \A p \in Defined(inst.ov) :
              params'[p] # params[p] /\ Def(inst.ov, p).trigger # NoPlan
                  => inst'.pe.plan = Def(inst.ov, p).trigger
<1>1. ASSUME TypeOK, NEW n \in Instances, NEW ps \in Values, Update(n, ps),
             n.ov = inst.ov, Removed(params, params') \subseteq Defined(inst.ov),
             NEW p \in Defined(inst.ov), params'[p] # params[p],
             Def(inst.ov, p).trigger # NoPlan
      PROVE  inst'.pe.plan = Def(inst.ov, p).trigger
  <2> DEFINE defs == UpdatedDefs(params, ps, inst.ov, n.ov)
  <2>1. p \in Parameter /\ inst.ov \in OperatorVersion
    BY <1>1 DEF TypeOK, Defined
  <2>2. Triggerable(defs, n.ov) /\ params' = WithoutRemovedDefs(ps, inst.ov, n.ov)
    BY <1>1 DEF Update
  <2>3. params' = ps
    <3>1. \A q \in Parameter : WithoutRemovedDefs(ps, inst.ov, n.ov)[q] = ps[q]
      BY <1>1 DEF WithoutRemovedDefs
    <3>2. params' \in Values
      BY <2>2 DEF WithoutRemovedDefs, Values
    <3> QED BY <2>2, <3>1, <3>2 DEF Values
  <2>4. p \in ChangedOrAdded(params, ps) \/ p \in Removed(params, ps)
    BY <1>1, <2>1, <2>3 DEF ChangedOrAdded, Removed
  <2>5. RemovedDefs(params, ps, n.ov) = Removed(params, ps)
    BY <1>1, <2>3 DEF RemovedDefs
  <2>6. p \in defs
    BY <1>1, <2>4, <2>5 DEF UpdatedDefs, ChangedDefs
  <2> HIDE DEF defs
  <2>7. TriggeredPlan(defs, n.ov) = Def(inst.ov, p).trigger
    BY <1>1, <2>1, <2>2, <2>6, NamedIsTriggered
  <2> QED BY <1>1, <2>7, TriggeredIsScheduled DEF defs
<1>2. IInv /\ [Next]_vars => Scheduled
  <2> SUFFICES ASSUME IInv, [Next]_vars, exists, inst'.ov = inst.ov,
                      Removed(params, params') \subseteq Defined(inst.ov),
                      NEW p \in Defined(inst.ov), params'[p] # params[p],
                      Def(inst.ov, p).trigger # NoPlan
               PROVE  inst'.pe.plan = Def(inst.ov, p).trigger
    OBVIOUS
  <2>1. TypeOK /\ params \in Values
    BY DEF IInv, TypeOK, Values
  <2>2. ASSUME NEW ov \in OperatorVersion, NEW ps \in Values, Create(ov, ps)
        PROVE  FALSE
    BY <2>2 DEF Create
  <2>3. ASSUME NEW ov \in OperatorVersion, NEW ps \in Values, NEW q \in Plan \cup {NoPlan},
               Change(ov, q, ps)
        PROVE  inst'.pe.plan = Def(inst.ov, p).trigger
    <3> DEFINE pe == IF q = NoPlan THEN inst.pe
                     ELSE [plan |-> q, uid |-> NewUUID, status |-> inst.pe.status]
               n  == [inst EXCEPT !.ov = ov, !.pe = pe]
    <3>1. Update(n, ps) /\ n \in Instances
      BY <2>1, <2>3, RequestTyped DEF Change, ExecutionStatus
    <3> HIDE DEF n
    <3>2. n.ov = inst.ov
      BY <2>1, <3>1, UpdateAdmitted
    <3> QED BY <1>1, <2>1, <3>1, <3>2
  <2>4. ASSUME NEW st \in {"COMPLETE", "FATAL_ERROR"}, PlanEnds(st)
        PROVE  inst'.pe.plan = Def(inst.ov, p).trigger
    <3> DEFINE n == [inst EXCEPT !.pe.status = st]
    <3>1. Update(n, params)
      BY <2>4 DEF PlanEnds
    <3>2. n \in Instances
      <4>1. st \in ExecutionStatus /\ inst.ov \in OperatorVersion
        BY <2>1 DEF ExecutionStatus, TypeOK
      <4> QED BY <2>1, <4>1, RequestTyped
    <3> HIDE DEF n
    <3>3. n.ov = inst.ov
      BY <2>1, <3>1, <3>2, UpdateAdmitted
    <3> QED BY <1>1, <2>1, <3>1, <3>2, <3>3
  <2>5. CASE UNCHANGED vars
    BY <2>5 DEF vars
  <2> QED BY <2>2, <2>3, <2>4, <2>5 DEF Next, Values
<1>3. Spec => [][IInv /\ [Next]_vars]_vars
  BY Invariance, PTL DEF Spec
<1> QED BY <1>2, <1>3, PTL DEF NamedTriggerScheduled

(* ----------------------- the clients of an Instance ------------------- *)

\* What the clients want is what they may want.
ClientsTyped ==
    /\ want \in ParentWants
    /\ cli.at = "patch" => cli.update \in CliUpdates

(* ------------------------------- merge patch -------------------------- *)

\* A merge patch of parameters makes parameters.
LEMMA MergedTyped ==
    ASSUME TypeOK, NEW ps \in Values
    PROVE  Merged(ps) \in Values
BY DEF TypeOK, Values, Merged

\* It sets what it names (client.MergeFrom, types.MergePatchType).
LEMMA MergedHas ==
    ASSUME NEW ps \in Values
    PROVE  Has(Merged(ps), ps)
BY DEF Has, Merged

\* A patch is a change by a user, or changes nothing.
LEMMA PatchIsChange ==
    ASSUME TypeOK, NEW ov \in OperatorVersion, NEW p \in Plan \cup {NoPlan},
           NEW ps \in Values, Patch(ov, p, ps)
    PROVE  [Next]_vars
<1>1. CASE NoChange(ov, p, ps) /\ UNCHANGED <<vars, execution>>
  BY <1>1
<1>2. CASE Change(ov, p, Merged(ps))
  BY <1>2, MergedTyped DEF Next, Values
<1> QED BY <1>1, <1>2 DEF Patch

(* -------------------------------- steps ------------------------------- *)

\* What the clients ask for is well-formed.
LEMMA WishesTyped ==
    /\ \A w \in ParentWants : w.ov \in OperatorVersion /\ w.ps \in Values
    /\ \A u \in CliUpdates : u.plan \in Plan \cup {NoPlan} /\ u.ps \in Values
    /\ \A u \in UserChanges :
          u.ov \in OperatorVersion /\ u.plan \in Plan \cup {NoPlan} /\ u.ps \in Values
BY ClientsAssumption DEF Parameters, Values

\* Every step of the clients and of the controller is one of InstanceParameters.
LEMMA StepSimulated ==
    ASSUME TypeOK, ClientsTyped, [NextClients]_allVars
    PROVE  [Next]_vars
<1>1. CASE CreateChild
  BY <1>1, WishesTyped DEF CreateChild, ClientsTyped, Next, Values
<1>2. CASE PatchChild
  BY <1>2, WishesTyped, PatchIsChange DEF PatchChild, ClientsTyped
<1>3. CASE CliPatches
  <2>1. inst.ov \in OperatorVersion
    BY DEF TypeOK
  <2> QED BY <1>3, <2>1, WishesTyped, PatchIsChange DEF CliPatches, ClientsTyped
<1>4. ASSUME NEW u \in UserChanges, UserCreates(u.ov, u.ps) \/ UserChange(u)
      PROVE  [Next]_vars
  BY <1>4, WishesTyped DEF UserCreates, UserChange, Next, Values
<1>5. ASSUME NEW st \in {"COMPLETE", "FATAL_ERROR"}, ExecutionEnds(st) PROVE [Next]_vars
  BY <1>5 DEF ExecutionEnds, Next
<1>6. ASSUME NEW w \in ParentWants, ParentPlan(w) PROVE [Next]_vars
  BY <1>6 DEF ParentPlan
<1>7. ASSUME NEW u \in CliUpdates, CliReads(u) PROVE [Next]_vars
  BY <1>7 DEF CliReads
<1>8. CASE CliReports \/ CliFails \/ PlanStarts \/ StatusWritten
  BY <1>8 DEF CliReports, CliFails, PlanStarts, StatusWritten
<1>9. CASE UNCHANGED allVars
  BY <1>9 DEF allVars
<1> QED BY <1>1, <1>2, <1>3, <1>4, <1>5, <1>6, <1>7, <1>8, <1>9 DEF NextClients

LEMMA ClientsTypedPreserved ==
    ASSUME ClientsTyped, [NextClients]_allVars
    PROVE  ClientsTyped'
<1>1. CASE CreateChild \/ PatchChild \/ CliReports \/ CliFails \/ PlanStarts \/ StatusWritten
  BY <1>1 DEF ClientsTyped, CreateChild, PatchChild, CliReports, CliFails, PlanStarts,
              StatusWritten, parent, clients, Idle
<1>2. CASE CliPatches
  BY <1>2 DEF ClientsTyped, CliPatches, parent
<1>3. ASSUME NEW u \in UserChanges, UserCreates(u.ov, u.ps) \/ UserChange(u)
      PROVE  ClientsTyped'
  BY <1>3 DEF ClientsTyped, UserCreates, UserChange, parent, clients
<1>4. ASSUME NEW st, ExecutionEnds(st) PROVE ClientsTyped'
  BY <1>4 DEF ClientsTyped, ExecutionEnds, parent, clients
<1>5. ASSUME NEW w \in ParentWants, ParentPlan(w) PROVE ClientsTyped'
  BY <1>5 DEF ClientsTyped, ParentPlan, clients
<1>6. ASSUME NEW u \in CliUpdates, CliReads(u) PROVE ClientsTyped'
  BY <1>6 DEF ClientsTyped, CliReads, parent
<1>7. CASE UNCHANGED allVars
  BY <1>7 DEF ClientsTyped, allVars, parent, clients
<1> QED BY <1>1, <1>2, <1>3, <1>4, <1>5, <1>6, <1>7 DEF NextClients

(* ------------------------------- theorems ----------------------------- *)

\* The invariant of InstanceParameters, with what the clients want.
CInv == IInv /\ ClientsTyped

LEMMA ClientsInvariance == SpecClients => []CInv
<1>1. InitClients => CInv
  <2>1. InitClients => ClientsTyped
    BY DEF InitClients, ClientsTyped, Idle
  <2> QED BY <2>1, InitEstablishes DEF InitClients, CInv
<1>2. CInv /\ [NextClients]_allVars => CInv'
  BY StepSimulated, ClientsTypedPreserved, NextPreserves DEF CInv, IInv
<1> QED BY <1>1, <1>2, PTL DEF SpecClients

\* The KudoOperator task, the CLI and others are users of InstanceParameters:
\* its properties hold with them (handleUpdate).
THEOREM ClientsAreUsers == SpecClients => Spec
<1>1. InitClients => Init
  BY DEF InitClients
<1>2. CInv /\ [NextClients]_allVars => [Next]_vars
  BY StepSimulated DEF CInv, IInv
<1> QED BY <1>1, <1>2, ClientsInvariance, PTL DEF SpecClients, Spec

\* A patch after which no plan is scheduled leaves the version and the
\* parameters it asks for, and they were executed.
LEMMA PatchedIdle ==
    ASSUME CInv, IInv', exists, NEW ov \in OperatorVersion, NEW ps \in Values,
           Patch(ov, NoPlan, ps), inst'.pe.plan = NoPlan
    PROVE  /\ inst'.ov = ov
           /\ Has(params', ps)
           /\ unguarded' \/ executed' = Effective(ov, params')
<1>1. TypeOK /\ Merged(ps) \in Values
  BY MergedTyped DEF CInv, IInv
<1>2. CASE NoChange(ov, NoPlan, ps) /\ UNCHANGED <<vars, execution>>
  <2>1. /\ inst' = inst /\ params' = params /\ executed' = executed
        /\ unguarded' = unguarded /\ ov = inst.ov /\ Merged(ps) = params
    BY <1>2 DEF NoChange, vars
  <2>2. unguarded \/ executed = Effective(inst.ov, params)
    BY <2>1 DEF CInv, IInv, IdleIsUpToDate, UpToDate
  <2> QED BY <2>1, <2>2, MergedHas
<1>3. CASE Change(ov, NoPlan, Merged(ps))
  <2> DEFINE n == [inst EXCEPT !.ov = ov, !.pe = inst.pe]
  <2>1. Update(n, Merged(ps))
    BY <1>3 DEF Change
  <2>2. n \in Instances
    BY <1>1, RequestTyped DEF TypeOK, Instances
  <2>3. n.ov = ov
    BY <1>1 DEF TypeOK
  <2> HIDE DEF n
  <2>4. /\ exists' /\ inst'.ov = ov /\ inst.ov = ov /\ definitions' = definitions
        /\ params' = WithoutRemovedDefs(Merged(ps), ov, ov)
    BY <1>1, <2>1, <2>2, <2>3, UpdateAdmitted
  <2>5. Has(params', ps)
    BY <2>4, MergedHas DEF Has, WithoutRemovedDefs
  <2>6. unguarded' \/ executed' = Effective(ov, params')
    BY <2>4 DEF IInv, IdleIsUpToDate, UpToDate, Effective, Defined, Def
  <2> QED BY <2>4, <2>5, <2>6
<1> QED BY <1>2, <1>3 DEF Patch

\* A KudoOperator task is done only when the child was executed with the
\* version and the parameters of the parent, whoever writes to the child
\* (applyInstance, isResourceHealthy).
THEOREM TaskWaitsForChild == SpecClients => TaskDoneMeansApplied
<1> DEFINE A == task = "running" /\ task' = "done" =>
                  /\ inst'.ov = want.ov
                  /\ Has(params', want.ps)
                  /\ unguarded' \/ executed' = Effective(want.ov, params')
<1>1. CInv /\ CInv' /\ [NextClients]_allVars => A
  <2> SUFFICES ASSUME CInv, IInv', [NextClients]_allVars, task = "running", task' = "done"
               PROVE  /\ inst'.ov = want.ov
                      /\ Has(params', want.ps)
                      /\ unguarded' \/ executed' = Effective(want.ov, params')
    BY DEF CInv
  <2>1. want.ov \in OperatorVersion /\ want.ps \in Values
    BY WishesTyped DEF CInv, ClientsTyped
  <2>2. CASE CreateChild
    <3>1. inst'.pe.plan = DeployPlan
      BY <2>2 DEF CreateChild, Create, CInv, IInv, TypeOK, PlanExecution
    <3> QED BY <2>2, <3>1 DEF CreateChild, DoneIfHealthy, HealthyInstance, DeployPlan, NoPlan
  <2>3. CASE PatchChild
    <3>1. exists /\ Patch(want.ov, NoPlan, want.ps) /\ inst'.pe.plan = NoPlan
      BY <2>3 DEF PatchChild, DoneIfHealthy, HealthyInstance
    <3> QED BY <2>1, <3>1, PatchedIdle
  <2>4. CASE ~ CreateChild /\ ~ PatchChild
    BY <2>4 DEF NextClients, ParentPlan, CliReads, CliPatches, CliReports, CliFails,
         UserCreates, UserChange, PlanStarts, ExecutionEnds, StatusWritten, allVars, parent
  <2> QED BY <2>2, <2>3, <2>4
<1>2. SpecClients => [][A]_allVars
  BY <1>1, ClientsInvariance, PTL DEF SpecClients
<1> QED BY <1>2 DEF TaskDoneMeansApplied

(* ------------------------- kudo --wait and executions ------------------ *)

\* Every status is of an execution that was scheduled.
StatusesTyped ==
    /\ execution \in Nat
    /\ DOMAIN statuses \subseteq Plan
    /\ statuses \in [DOMAIN statuses -> [execution : Nat, status : ExecutionStatus]]
    /\ \A p \in DOMAIN statuses : statuses[p].execution <= execution
    /\ unwritten # None => unwritten.plan \in DOMAIN statuses /\ unwritten.status \in ExecutionStatus

\* The command has read the statuses of an existing Instance.
CommandTyped ==
    CliRuns =>
        /\ exists
        /\ cli.update \in CliUpdates
        /\ DOMAIN cli.old \subseteq DOMAIN statuses
        /\ \A p \in DOMAIN cli.old : cli.old[p].execution \in 0 .. execution

\* No execution has started since the command read the statuses.
Same == \A p \in DOMAIN cli.old : statuses[p].execution = cli.old[p].execution

\* The last execution is newer than all that it read.
Newer == \A p \in DOMAIN cli.old : cli.old[p].execution < execution

\* Nothing happened, or only an execution ended that it found running.
Untouched == Same /\ ~ Pending

\* The execution of plan q is the command's.
IsOf(q) == Newer /\ cli.update.plan \in {NoPlan, q}

\* It is scheduled, ...
Sent == Same /\ Pending /\ IsOf(inst.pe.plan) /\ Has(params, cli.update.ps)

\* ... has started, ...
Started ==
    LET q == inst.pe.plan
    IN  /\ q \in DOMAIN statuses
        /\ statuses[q] = [execution |-> execution, status |-> "IN_PROGRESS"]
        /\ unwritten = None
        /\ IsOf(q) /\ Has(params, cli.update.ps)

\* ... and has ended, perhaps with its last status yet to be written.
Ended ==
    /\ inst.pe.plan = NoPlan
    /\ \A p \in Defined(inst.ov) : cli.update.ps[p] \in {None, executed[p]}
    /\ \E q \in DOMAIN statuses : IsOf(q) /\ statuses[q].execution = execution

\* Where the command is, unless others have disturbed it.
CommandInv ==
    ~ disturbed =>
        /\ cli.at = "patch" => Untouched
        /\ cli.at = "wait" => Untouched \/ Sent \/ Started \/ Ended

WInv == StatusesTyped /\ CommandTyped /\ CommandInv

(* ------------------ what the webhook does for a command --------------- *)

\* An admitted change of the plan or of values, without an upgrade, schedules
\* the plan it names, if any, with a new UID (admitUpdate).
LEMMA ChangeSchedules ==
    ASSUME IInv, NEW p \in Plan \cup {NoPlan}, NEW ps \in Values,
           Change(inst.ov, p, Merged(ps))
    PROVE  /\ inst'.ov = inst.ov /\ params' = Merged(ps)
           /\ exists' = exists /\ definitions' = definitions
           /\ inst'.pe.plan # NoPlan /\ p \in {NoPlan, inst'.pe.plan}
           /\ inst'.pe.uid \notin {inst.pe.uid, NoUID}
<1> DEFINE new == Merged(ps)
           pe == IF p = NoPlan THEN inst.pe
                 ELSE [plan |-> p, uid |-> NewUUID, status |-> inst.pe.status]
           n  == [inst EXCEPT !.ov = inst.ov, !.pe = pe]
           defs == UpdatedDefs(params, new, inst.ov, inst.ov)
           trig == TriggeredPlan(defs, inst.ov)
<1>1. /\ TypeOK /\ new \in Values /\ inst.ov \in OperatorVersion
      /\ inst \in Instances /\ inst.pe \in PlanExecution /\ ~ IsTerminal(inst.pe.status)
  BY MergedTyped DEF IInv, NotTerminal, TypeOK, Instances
<1>2. NewUUID \in UID /\ NewUUID # inst.pe.uid /\ NewUUID # NoUID
  <2>1. inst.pe.uid \in UID \cup {NoUID}
    BY <1>1 DEF PlanExecution
  <2> QED BY <2>1, ParameterAssumption, UIDAssumption DEF NewUUID
<1>3. /\ n.ov = inst.ov /\ n.pe = pe /\ n.deleting = FALSE
      /\ p = NoPlan => n = inst
  BY <1>1 DEF Instances
<1>4. Update(n, new)
  BY DEF Change
<1> HIDE DEF n, new
<1>5. /\ n # inst \/ new # params
      /\ exists' = exists /\ definitions' = definitions
      /\ ChangedOrAdded(params, new) \subseteq Defined(inst.ov)
      /\ params' = WithoutRemovedDefs(new, inst.ov, inst.ov)
      /\ Triggerable(defs, inst.ov)
      /\ ~ Denied(inst, n, trig)
      /\ inst' = ApplyDecision(Decision(inst, n, trig), n, NewUUID)
  BY <1>3, <1>4 DEF Update
<1>6. params' = new
  BY <1>1, <1>5 DEF WithoutRemovedDefs, Values
<1>7. p = NoPlan => trig # NoPlan
  <2> SUFFICES ASSUME p = NoPlan, trig = NoPlan PROVE FALSE
    OBVIOUS
  <2> HIDE DEF defs
  <2>1. defs = {}
    BY <1>1, <1>5, TriggeredIsKnown
  <2>2. ChangedOrAdded(params, new) = {}
    BY <1>5, <2>1 DEF defs, UpdatedDefs, ChangedDefs
  <2>3. ASSUME NEW q \in Parameter PROVE new[q] = params[q]
    <3>1. ps[q] # None => new[q] = ps[q]
      BY DEF new, Merged
    <3>2. ps[q] = None => new[q] = params[q]
      BY DEF new, Merged
    <3> QED BY <2>2, <3>1, <3>2 DEF ChangedOrAdded
  <2>4. new = params
    BY <1>1, <2>3 DEF Values, TypeOK
  <2> QED BY <1>3, <1>5, <2>4
<1> HIDE DEF trig
<1>8. ~ IsUpgrade(inst, n) /\ ~ DeniedNormally(inst, n, trig) /\ ~ PlanUnknown(n)
  BY <1>3, <1>5 DEF IsUpgrade, Denied
<1>9. \E q : q # NoPlan /\ p \in {NoPlan, q} /\ Decision(inst, n, trig) = Triggers(q)
  <2>1. CASE p = NoPlan
    BY <1>3, <1>7, <1>8, <2>1 DEF Decision, Triggers
  <2>2. CASE p # NoPlan /\ HadPlan(inst)
    <3>1. p = inst.pe.plan /\ trig \in {NoPlan, p}
      BY <1>3, <1>8, <2>2 DEF DeniedNormally, IsPlanOverride
    <3>2. IsPlanRetriggered(inst, n) /\ ~ IsTerminal(n.pe.status)
      BY <1>1, <1>2, <1>3, <2>2, <3>1 DEF IsPlanRetriggered
    <3> QED BY <1>3, <1>8, <2>2, <3>1, <3>2 DEF Decision, IsNovelPlan
  <2>3. CASE p # NoPlan /\ ~ HadPlan(inst)
    <3>1. IsNovelPlan(inst, n) /\ trig = NoPlan
      BY <1>3, <1>8, <2>3 DEF DeniedNormally, IsNovelPlan
    <3> QED BY <1>3, <1>8, <2>3, <3>1 DEF Decision
  <2> QED BY <2>1, <2>2, <2>3
<1>10. PICK q : q # NoPlan /\ p \in {NoPlan, q} /\ Decision(inst, n, trig) = Triggers(q)
  BY <1>9
<1>11. inst' = [n EXCEPT !.pe = [plan |-> q, uid |-> NewUUID, status |-> "NEVER_RUN"]]
  <2>1. Triggers(q).do = Trigger /\ Triggers(q).plan = q
    BY DEF Triggers
  <2>2. ApplyDecision(Triggers(q), n, NewUUID) =
            [n EXCEPT !.pe = [plan |-> q, uid |-> NewUUID, status |-> "NEVER_RUN"]]
    BY <2>1 DEF ApplyDecision, Trigger, Reset
  <2> QED BY <1>5, <1>10, <2>2
<1>12. n \in Instances
  BY <1>1, RequestTyped DEF n, ExecutionStatus
<1>13. inst'.pe.plan = q /\ inst'.pe.uid = NewUUID /\ inst'.ov = inst.ov
  BY <1>3, <1>11, <1>12 DEF Instances
<1> QED BY <1>2, <1>5, <1>6, <1>10, <1>13 DEF new

\* The end of a plan leaves none scheduled (admitUpdate).
LEMMA EndLeavesIdle ==
    ASSUME IInv, NEW st \in {"COMPLETE", "FATAL_ERROR"}, PlanEnds(st)
    PROVE  /\ inst'.ov = inst.ov /\ inst'.pe.plan = NoPlan
           /\ exists' = exists /\ definitions' = definitions
           /\ executed' = Effective(inst.ov, params)
<1> DEFINE n == [inst EXCEPT !.pe.status = st]
           defs == UpdatedDefs(params, params, inst.ov, inst.ov)
           trig == TriggeredPlan(defs, inst.ov)
<1>1. inst \in Instances /\ inst.pe \in PlanExecution /\ inst.pe.plan # NoPlan
  BY DEF IInv, TypeOK, Instances, PlanEnds
<1>2. n.ov = inst.ov /\ n.deleting = FALSE /\ n.pe.status = st
  BY <1>1 DEF Instances, PlanExecution
<1>3. Update(n, params) /\ executed' = Effective(inst.ov, params)
  BY DEF PlanEnds
<1> HIDE DEF n
<1>4. trig = NoPlan
  BY DEF UpdatedDefs, ChangedDefs, RemovedDefs, ChangedOrAdded, Removed, TriggeredPlan
<1>5. /\ exists' = exists /\ definitions' = definitions
      /\ inst' = ApplyDecision(Decision(inst, n, trig), n, NewUUID)
  BY <1>2, <1>3 DEF Update
<1>6. Decision(inst, n, trig) = Resets
  BY <1>1, <1>2, <1>4 DEF Decision, IsUpgrade, IsNovelPlan, HadPlan, IsTerminal
<1>7. inst' = [n EXCEPT !.pe = NoPlanExecution]
  <2>1. Resets.do = Reset /\ Reset # Trigger
    BY DEF Resets, Reset, Trigger
  <2>2. ApplyDecision(Resets, n, NewUUID) = [n EXCEPT !.pe = NoPlanExecution]
    BY <2>1 DEF ApplyDecision
  <2> QED BY <1>5, <1>6, <2>2
<1>8. n \in Instances
  BY <1>1 DEF n, Instances, PlanExecution, ExecutionStatus
<1> QED BY <1>2, <1>3, <1>5, <1>7, <1>8 DEF Instances, NoPlanExecution

(* ------------------------ the command, step by step ------------------- *)

\* A write counts its execution.
LEMMA ExecutionCounted ==
    ASSUME execution \in Nat, CountExecution
    PROVE  execution' \in {execution, execution + 1}
BY DEF CountExecution

LEMMA PatchCounted ==
    ASSUME execution \in Nat, NEW ov, NEW p, NEW ps, Patch(ov, p, ps)
    PROVE  execution' \in {execution, execution + 1} /\ exists' = exists
<1>1. CASE UNCHANGED <<vars, execution>>
  BY <1>1 DEF vars
<1>2. CASE Change(ov, p, Merged(ps)) /\ CountExecution
  BY <1>2, ExecutionCounted DEF Change, Update
<1> QED BY <1>1, <1>2 DEF Patch

\* The writes of others and of the command change no status.
LEMMA WriteKeepsTypes ==
    ASSUME StatusesTyped, CommandTyped, execution' \in {execution, execution + 1},
           UNCHANGED controller, exists => exists',
           CliRuns' => CliRuns /\ cli'.update = cli.update /\ cli'.old = cli.old
    PROVE  StatusesTyped' /\ CommandTyped'
<1>1. execution \in Nat /\ execution' \in Nat /\ execution <= execution'
  BY DEF StatusesTyped
<1>2. StatusesTyped'
  BY <1>1 DEF StatusesTyped, controller
<1>3. CommandTyped'
  BY <1>1 DEF CommandTyped, controller
<1> QED BY <1>2, <1>3

\* The deploy plan of a new Instance, and what others write.
LEMMA OthersKeepW ==
    ASSUME WInv,
           \/ CreateChild \/ PatchChild
           \/ \E u \in UserChanges : UserCreates(u.ov, u.ps) \/ UserChange(u)
           \/ \E w \in ParentWants : ParentPlan(w)
    PROVE  WInv'
<1>1. StatusesTyped /\ CommandTyped /\ CommandInv /\ execution \in Nat
  BY DEF WInv, StatusesTyped
<1>2. ASSUME ~ exists, exists', CountExecution, UNCHANGED <<controller, clients>>
      PROVE  WInv'
  <2>1. ~ CliRuns /\ ~ CliRuns'
    BY <1>1, <1>2 DEF CommandTyped, clients, CliRuns
  <2>2. StatusesTyped' /\ CommandTyped'
    BY <1>1, <1>2, <2>1, ExecutionCounted, WriteKeepsTypes
  <2> QED BY <2>1, <2>2 DEF WInv, CommandInv, CliRuns
<1>3. ASSUME exists' = exists, execution' \in {execution, execution + 1},
             UNCHANGED <<controller, cli>>, disturbed' = (disturbed \/ CliRuns)
      PROVE  WInv'
  <2>1. CliRuns' = CliRuns
    BY <1>3 DEF CliRuns
  <2>2. StatusesTyped' /\ CommandTyped'
    BY <1>1, <1>3, <2>1, WriteKeepsTypes
  <2> QED BY <1>3, <2>2 DEF WInv, CommandInv, CliRuns
<1>4. CASE CreateChild
  BY <1>2, <1>4 DEF CreateChild, Create
<1>5. CASE PatchChild
  BY <1>1, <1>3, <1>5, PatchCounted DEF PatchChild
<1>6. ASSUME NEW u \in UserChanges, UserCreates(u.ov, u.ps)
      PROVE  WInv'
  BY <1>2, <1>6 DEF UserCreates, Create
<1>7. ASSUME NEW u \in UserChanges, UserChange(u)
      PROVE  WInv'
  BY <1>1, <1>3, <1>7, ExecutionCounted DEF UserChange, Change, Update
<1>8. ASSUME NEW w \in ParentWants, ParentPlan(w)
      PROVE  WInv'
  BY <1>8 DEF ParentPlan, WInv, StatusesTyped, CommandTyped, CommandInv, CliRuns, controller,
       clients, vars, Untouched, Sent, Started, Ended, Same, Pending, IsOf, Newer, Has, Defined, Def
<1> QED BY <1>4, <1>5, <1>6, <1>7, <1>8

\* The command reads when no execution is pending, or counts as disturbed.
LEMMA CommandStepsKeepW ==
    ASSUME IInv, WInv,
           CliPatches \/ CliReports \/ CliFails \/ \E u \in CliUpdates : CliReads(u)
    PROVE  WInv'
<1>1. StatusesTyped /\ CommandTyped /\ CommandInv /\ execution \in Nat
  BY DEF WInv, StatusesTyped
<1>2. ASSUME NEW u \in CliUpdates, CliReads(u)
      PROVE  WInv'
  <2>1. /\ cli' = [at |-> "patch", update |-> u, old |-> statuses] /\ exists' = exists /\ exists
        /\ disturbed' = Pending /\ Pending' = Pending
        /\ statuses' = statuses /\ execution' = execution /\ unwritten' = unwritten
    BY <1>2 DEF CliReads, vars, controller, Pending
  <2>2. StatusesTyped'
    BY <1>1, <2>1 DEF StatusesTyped
  <2>3. CommandTyped'
    BY <1>1, <1>2, <2>1 DEF CommandTyped, StatusesTyped, CliRuns
  <2>4. CommandInv'
    BY <2>1 DEF CommandInv, Untouched, Same
  <2> QED BY <2>2, <2>3, <2>4 DEF WInv
<1>3. CASE CliReports \/ CliFails
  <2>1. ~ CliRuns' /\ exists' = exists /\ execution' = execution /\ UNCHANGED controller
    BY <1>3 DEF CliReports, CliFails, Idle, CliRuns, vars
  <2>2. StatusesTyped' /\ CommandTyped'
    BY <1>1, <2>1, WriteKeepsTypes
  <2> QED BY <2>1, <2>2 DEF WInv, CommandInv, CliRuns
<1>4. CASE CliPatches
  <2> DEFINE u == cli.update
  <2>1. /\ cli.at = "patch" /\ cli' = [cli EXCEPT !.at = "wait"]
        /\ UNCHANGED controller /\ disturbed' = disturbed
        /\ Patch(inst.ov, u.plan, u.ps)
    BY <1>4 DEF CliPatches
  <2>2. CliRuns /\ cli'.update = u /\ cli'.old = cli.old
    BY <2>1 DEF CliRuns
  <2>3. StatusesTyped' /\ CommandTyped'
    BY <1>1, <2>1, <2>2, PatchCounted, WriteKeepsTypes
  <2>4. u \in CliUpdates /\ u.plan \in Plan \cup {NoPlan} /\ u.ps \in Values
    BY <1>1, <2>2, WishesTyped DEF CommandTyped
  <2>5. ASSUME ~ disturbed' PROVE Untouched' \/ Sent'
    <3>1. Same /\ ~ Pending
      BY <1>1, <2>1, <2>5 DEF CommandInv, Untouched
    <3>2. Same'
      BY <2>1, <2>2, <3>1 DEF Same, controller
    <3>3. CASE UNCHANGED <<vars, execution>>
      BY <2>1, <3>1, <3>2, <3>3 DEF Untouched, Pending, vars, controller
    <3>4. CASE Change(inst.ov, u.plan, Merged(u.ps)) /\ CountExecution
      <4>1. /\ params' = Merged(u.ps) /\ inst'.pe.plan # NoPlan
            /\ u.plan \in {NoPlan, inst'.pe.plan}
            /\ execution' = execution + 1
        BY <2>4, <3>4, ChangeSchedules DEF CountExecution
      <4>2. Pending'
        BY <1>1, <2>1, <4>1 DEF Pending, StatusesTyped, controller
      <4>3. Newer'
        BY <1>1, <2>2, <4>1 DEF Newer, CommandTyped
      <4>4. Has(params', u.ps)
        BY <2>4, <4>1, MergedHas
      <4> QED BY <2>2, <3>2, <4>1, <4>2, <4>3, <4>4 DEF Sent, IsOf, Has
    <3> QED BY <2>1, <3>3, <3>4 DEF Patch
  <2>6. CommandInv'
    BY <2>1, <2>5 DEF CommandInv
  <2> QED BY <2>3, <2>6 DEF WInv
<1> QED BY <1>2, <1>3, <1>4

\* An execution starts when it is pending.
LEMMA PlanStartsKeepsW ==
    ASSUME IInv, WInv, PlanStarts
    PROVE  WInv'
<1> DEFINE p   == inst.pe.plan
           all == [q \in DOMAIN statuses \cup PlansOf[inst.ov] |->
                      IF q \in DOMAIN statuses THEN statuses[q] ELSE NeverRun]
<1>1. StatusesTyped /\ CommandTyped /\ CommandInv /\ execution \in Nat
  BY DEF WInv, StatusesTyped
<1>2. /\ Pending /\ unwritten = None /\ unwritten' = unwritten
      /\ statuses' = [all EXCEPT ![p] = [execution |-> execution, status |-> "IN_PROGRESS"]]
      /\ UNCHANGED <<vars, execution, clients>>
  BY DEF PlanStarts
<1>3. p \in PlansOf[inst.ov] /\ PlansOf[inst.ov] \subseteq Plan
  BY <1>2, PlanAssumption DEF IInv, TypeOK, Pending
<1>4. /\ DOMAIN statuses' = DOMAIN statuses \cup PlansOf[inst.ov]
      /\ statuses'[p] = [execution |-> execution, status |-> "IN_PROGRESS"]
      /\ \A q \in DOMAIN statuses' \ {p} :
            statuses'[q] = IF q \in DOMAIN statuses THEN statuses[q] ELSE NeverRun
  BY <1>2, <1>3
<1>5. statuses' \in [DOMAIN statuses' -> [execution : Nat, status : ExecutionStatus]]
  <2>1. \A q \in DOMAIN statuses' :
            statuses'[q] \in [execution : Nat, status : ExecutionStatus]
    BY <1>1, <1>4 DEF StatusesTyped, NeverRun, ExecutionStatus
  <2>2. statuses' = [q \in DOMAIN statuses' |-> statuses'[q]]
    BY <1>2
  <2> QED BY <2>1, <2>2
<1>6. \A q \in DOMAIN statuses' : statuses'[q].execution <= execution
  BY <1>1, <1>4 DEF StatusesTyped, NeverRun
<1>7. StatusesTyped'
  BY <1>1, <1>2, <1>3, <1>4, <1>5, <1>6 DEF StatusesTyped
<1>8. CommandTyped'
  BY <1>1, <1>2, <1>4 DEF CommandTyped, CliRuns, vars, clients
<1>9. ASSUME ~ disturbed', cli'.at = "wait" PROVE Started'
  <2>1. Sent
    BY <1>1, <1>2, <1>9 DEF CommandInv, clients, Untouched, Started, Ended, Pending
  <2> QED BY <1>2, <1>3, <1>4, <2>1 DEF Sent, Started, IsOf, Newer, Has, vars, clients
<1>10. CommandInv'
  BY <1>1, <1>2, <1>9 DEF CommandInv, clients, Untouched
<1> QED BY <1>7, <1>8, <1>10 DEF WInv

\* An execution ends that has started: with the values it was started for.
LEMMA ExecutionEndsKeepsW ==
    ASSUME IInv, WInv, NEW st \in {"COMPLETE", "FATAL_ERROR"}, ExecutionEnds(st)
    PROVE  WInv'
<1> DEFINE p == inst.pe.plan
<1>1. StatusesTyped /\ CommandTyped /\ CommandInv /\ execution \in Nat
  BY DEF WInv, StatusesTyped
<1>2. /\ p \in DOMAIN statuses /\ statuses[p].execution = execution
      /\ unwritten' = [plan |-> p, status |-> st]
      /\ PlanEnds(st)
      /\ UNCHANGED <<execution, statuses, latest, clients>>
  BY DEF ExecutionEnds
<1>3. /\ inst'.ov = inst.ov /\ inst'.pe.plan = NoPlan
      /\ exists' = exists /\ definitions' = definitions
      /\ executed' = Effective(inst.ov, params)
  BY <1>2, EndLeavesIdle
<1>4. StatusesTyped'
  BY <1>1, <1>2 DEF StatusesTyped, ExecutionStatus
<1>5. CommandTyped'
  BY <1>1, <1>2, <1>3 DEF CommandTyped, CliRuns, clients
<1>6. ~ Pending /\ ~ Pending'
  BY <1>2, <1>3 DEF Pending
<1>7. CASE ~ disturbed /\ Untouched
  <2>1. Untouched'
    BY <1>2, <1>6, <1>7 DEF Untouched, Same, clients
  <2> QED BY <1>4, <1>5, <2>1 DEF WInv, CommandInv
<1>8. CASE ~ disturbed /\ cli.at = "wait" /\ Started
  <2>1. Ended'
    <3>1. ASSUME NEW r \in Defined(inst.ov), cli.update.ps[r] # None
          PROVE  executed'[r] = cli.update.ps[r]
      <4>1. r \in Parameter /\ params[r] = cli.update.ps[r]
        BY <1>8, <3>1 DEF Started, Has, Defined
      <4> QED BY <1>3, <3>1, <4>1 DEF Effective
    <3>2. Defined(inst.ov)' = Defined(inst.ov)
      BY <1>3 DEF Defined, Def
    <3>3. PICK q : q = p
      OBVIOUS
    <3>4. cli' = cli /\ statuses' = statuses /\ execution' = execution
      BY <1>2 DEF clients
    <3>5. \E s \in DOMAIN statuses' : IsOf(s)' /\ statuses'[s].execution = execution'
      BY <1>2, <1>8, <3>3, <3>4 DEF Started, IsOf, Newer
    <3>6. \A r \in Defined(inst.ov)' : cli'.update.ps[r] \in {None, executed'[r]}
      BY <3>1, <3>2, <3>4
    <3> QED BY <1>3, <3>5, <3>6 DEF Ended
  <2> QED BY <1>2, <1>4, <1>5, <1>8, <2>1 DEF WInv, CommandInv, clients
<1>9. CASE disturbed \/ ~ CliRuns
  BY <1>2, <1>4, <1>5, <1>9 DEF WInv, CommandInv, CliRuns, clients
<1>10. CASE ~ disturbed /\ cli.at = "wait" /\ (Sent \/ Ended)
  <2>1. p # NoPlan
    BY <1>2 DEF PlanEnds
  <2> QED BY <1>6, <1>10, <2>1 DEF Sent, Ended
<1> QED BY <1>1, <1>7, <1>8, <1>9, <1>10 DEF CommandInv, CliRuns

\* Its last status is written.
LEMMA StatusWrittenKeepsW ==
    ASSUME IInv, WInv, StatusWritten
    PROVE  WInv'
<1> DEFINE r == unwritten.plan
<1>1. StatusesTyped /\ CommandTyped /\ CommandInv /\ execution \in Nat
  BY DEF WInv, StatusesTyped
<1>2. /\ unwritten # None /\ unwritten' = None
      /\ statuses' = [statuses EXCEPT ![r].status = unwritten.status]
      /\ UNCHANGED <<vars, execution, clients>>
  BY DEF StatusWritten
<1>3. r \in DOMAIN statuses /\ unwritten.status \in ExecutionStatus
  BY <1>1, <1>2 DEF StatusesTyped
<1>4. /\ DOMAIN statuses' = DOMAIN statuses
      /\ statuses' \in [DOMAIN statuses -> [execution : Nat, status : ExecutionStatus]]
      /\ \A q \in DOMAIN statuses : statuses'[q].execution = statuses[q].execution
  BY <1>1, <1>2, <1>3 DEF StatusesTyped
<1>5. StatusesTyped'
  BY <1>1, <1>2, <1>4 DEF StatusesTyped
<1>6. CommandTyped'
  BY <1>1, <1>2, <1>4 DEF CommandTyped, CliRuns, vars, clients
<1>7. Pending' = Pending
  BY <1>2, <1>4 DEF Pending, vars
<1>8. Same /\ CliRuns => Same'
  BY <1>1, <1>2, <1>4 DEF Same, CommandTyped, clients
<1>9. \A q : IsOf(q) => IsOf(q)'
  BY <1>2 DEF IsOf, Newer, clients
<1>10. CommandInv'
  <2> SUFFICES ASSUME ~ disturbed', CliRuns'
               PROVE  /\ cli'.at = "patch" => Untouched'
                      /\ cli'.at = "wait" => Untouched' \/ Sent' \/ Started' \/ Ended'
    BY DEF CommandInv, CliRuns
  <2>1. ~ disturbed /\ cli' = cli /\ CliRuns
    BY <1>2 DEF clients, CliRuns
  <2>2. ~ Started
    BY <1>2 DEF Started
  <2>3. Untouched => Untouched'
    BY <1>7, <1>8, <2>1 DEF Untouched
  <2>4. Sent => Sent'
    BY <1>2, <1>7, <1>8, <1>9, <2>1 DEF Sent, Has, vars
  <2>5. Ended => Ended'
    <3> SUFFICES ASSUME Ended PROVE Ended'
      OBVIOUS
    <3>1. PICK q \in DOMAIN statuses : IsOf(q) /\ statuses[q].execution = execution
      BY DEF Ended
    <3>2. IsOf(q)' /\ statuses'[q].execution = execution' /\ q \in DOMAIN statuses'
      BY <1>2, <1>4, <1>9, <3>1
    <3>3. Defined(inst.ov)' = Defined(inst.ov)
      BY <1>2 DEF Defined, Def, vars
    <3> QED BY <1>2, <2>1, <3>2, <3>3 DEF Ended, vars
  <2> QED BY <1>1, <2>1, <2>2, <2>3, <2>4, <2>5 DEF CommandInv
<1> QED BY <1>5, <1>6, <1>10 DEF WInv

\* Where the command is, in every reachable state.
LEMMA CommandInvariance == SpecClients => []WInv
<1>1. InitClients => WInv
  <2> SUFFICES ASSUME InitClients PROVE WInv
    OBVIOUS
  <2>1. DOMAIN statuses = {} /\ execution = 0 /\ unwritten = None /\ ~ CliRuns
    BY DEF InitClients, Idle, CliRuns
  <2>2. statuses \in [DOMAIN statuses -> [execution : Nat, status : ExecutionStatus]]
    BY <2>1 DEF InitClients
  <2> QED BY <2>1, <2>2 DEF WInv, StatusesTyped, CommandTyped, CommandInv, CliRuns
<1>2. CInv /\ WInv /\ [NextClients]_allVars => WInv'
  <2> SUFFICES ASSUME IInv, WInv, [NextClients]_allVars PROVE WInv'
    BY DEF CInv
  <2>1. CASE UNCHANGED allVars
    BY <2>1 DEF allVars, WInv, StatusesTyped, CommandTyped, CommandInv, CliRuns, controller,
         clients, vars, Untouched, Sent, Started, Ended, Same, Pending, IsOf, Newer, Has,
         Defined, Def
  <2> QED BY <2>1, OthersKeepW, CommandStepsKeepW, PlanStartsKeepsW, ExecutionEndsKeepsW,
             StatusWrittenKeepsW DEF NextClients
<1> QED BY <1>1, <1>2, ClientsInvariance, PTL DEF SpecClients

\* kudo update --wait and kudo plan trigger --wait report only an execution that
\* was scheduled for them, with their values and for their plan, as long as
\* nobody else writes (UpdateInstance, IsInstanceDone).
THEOREM ReportsOwnExecution == SpecClients => ReportedIsExecuted
<1> DEFINE A == cli.at = "wait" /\ cli'.at = "idle" /\ ~ disturbed =>
          /\ \A p \in Defined(inst.ov) : cli.update.ps[p] \in {None, executed[p]}
          /\ cli.update.plan # NoPlan =>
                statuses[cli.update.plan] \notin Range(cli.old) \cup {NeverRun}
<1>1. WInv /\ [NextClients]_allVars => A
  <2> SUFFICES ASSUME WInv, [NextClients]_allVars,
                      cli.at = "wait", cli'.at = "idle", ~ disturbed
               PROVE  /\ \A p \in Defined(inst.ov) : cli.update.ps[p] \in {None, executed[p]}
                      /\ cli.update.plan # NoPlan =>
                            statuses[cli.update.plan] \notin Range(cli.old) \cup {NeverRun}
    OBVIOUS
  <2>1. IsInstanceDone(cli.old)
    BY DEF NextClients, CreateChild, PatchChild, ParentPlan, CliReads, CliPatches, CliReports,
       CliFails, UserCreates, UserChange, PlanStarts, ExecutionEnds, StatusWritten, allVars,
       clients, CliRuns
  <2>2. PICK r \in DOMAIN cli.old : statuses[r].execution # cli.old[r].execution
    BY <2>1 DEF IsInstanceDone
  <2>3. LastStatus = "COMPLETE"
    BY <2>1 DEF IsInstanceDone, Finished
  <2>4. ~ Untouched /\ ~ Sent
    BY <2>2 DEF Untouched, Sent, Same
  <2>5. ~ Started
    <3> SUFFICES ASSUME Started PROVE FALSE
      OBVIOUS
    <3> DEFINE running == {p \in DOMAIN statuses : IsRunning(statuses[p].status)}
    <3>1. inst.pe.plan \in running
      BY DEF Started, IsRunning
    <3>2. (CHOOSE p \in running : TRUE) \in running
      BY <3>1
    <3>3. LastStatus = statuses[CHOOSE p \in running : TRUE].status
      BY <3>1 DEF LastStatus
    <3> HIDE DEF running
    <3>4. IsRunning(LastStatus)
      BY <3>2, <3>3 DEF running
    <3> QED BY <2>3, <3>4 DEF IsRunning
  <2>6. Ended
    BY <2>4, <2>5 DEF WInv, CommandInv
  <2>7. PICK q \in DOMAIN statuses : IsOf(q) /\ statuses[q].execution = execution
    BY <2>6 DEF Ended
  <2>8. statuses[q].execution # NeverRun.execution
    BY <2>2, <2>7 DEF WInv, StatusesTyped, CommandTyped, CliRuns, IsOf, Newer, NeverRun
  <2>9. \A p \in DOMAIN cli.old : statuses[q] # cli.old[p]
    BY <2>7 DEF WInv, StatusesTyped, CommandTyped, CliRuns, IsOf, Newer
  <2> QED BY <2>6, <2>7, <2>8, <2>9 DEF Ended, IsOf, Range
<1>2. SpecClients => [][A]_allVars
  BY <1>1, CommandInvariance, PTL DEF SpecClients
<1> QED BY <1>2 DEF ReportedIsExecuted
=============================================================================
