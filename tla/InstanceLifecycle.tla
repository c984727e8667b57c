------------------------- MODULE InstanceLifecycle -------------------------
(***************************************************************************)
(* The life of one Instance: the user writes it through the API server and *)
(* its admission webhook, the instance controller                          *)
(* (pkg/controller/instance/instance_controller.go) reconciles it.         *)
(*                                                                         *)
(* The API server keeps the object and refuses a write that is not based   *)
(* on the latest resourceVersion.  The controller reads a cache that a     *)
(* watch fills with a delay, works on a copy in memory and then makes two  *)
(* separate writes, the spec and metadata first and the status second.     *)
(* Other writers, API errors and a crash of the manager may come in        *)
(* between.  The resourceVersion itself is not kept: cacheFresh and        *)
(* memFresh say whether the copy has the latest one.                       *)
(***************************************************************************)
EXTENDS InstanceAdmission, Naturals

CONSTANTS
    TriggersOf,        \* TriggersOf[ov]: plans that a parameter of ov triggers
    InvalidPlans,      \* <<ov, plan>>: preparePlanExecution may fail
    MissingDependency, \* operator versions whose dependencies may not resolve
    MaxWrites,         \* bound on the writes of users
    MaxFaults          \* bound on API errors and crashes

ASSUME LifecycleAssumption ==
    /\ OperatorVersion # {}
    /\ TriggersOf \in [OperatorVersion -> SUBSET Plan]
    /\ \A ov \in OperatorVersion : TriggersOf[ov] \subseteq PlansOf[ov]
    /\ InvalidPlans \subseteq OperatorVersion \X Plan
    /\ MissingDependency \subseteq OperatorVersion

VARIABLES
    life,        \* "none", "live" or "gone": the object in the API server
    inst,        \* ... its content
    cached,      \* the informer cache of the manager holds the Instance
    cache,       \* ... in this version
    cacheFresh,  \* ... which is the latest one
    queued,      \* the Instance is in the controller's work queue
    pc,          \* "idle", or the write the reconciliation is about to make
    mem,         \* the instance variable of Reconcile
    memFresh,    \* its resourceVersion is the latest one
    requeue,     \* Reconcile will ask for another run if its writes succeed
    fatal,       \* Reconcile is handling an error that wraps ErrFatalExecution
    up,          \* the manager (controller and webhook) runs
    writes,      \* number of writes of users so far
    faults       \* number of faults so far

server   == <<life, inst>>
informer == <<cached, cache, cacheFresh>>
worker   == <<pc, mem, memFresh, requeue, fatal>>
bounds   == <<writes, faults>>
vars     == <<server, informer, queued, worker, up, bounds>>

NoInstance ==
    [ov       |-> CHOOSE ov \in OperatorVersion : TRUE,
     pe       |-> NoPlanExecution,
     fin      |-> FALSE,
     deleting |-> FALSE,
     ps       |-> [p \in Plan |-> [uid |-> NoUID, status |-> Absent]],
     ready    |-> "None"]

\* uuid.NewUUID() returns a value that occurs nowhere.
UsedUIDs == UIDsOf(inst) \cup UIDsOf(cache) \cup UIDsOf(mem)
FreshUIDs == UID \ UsedUIDs
NewUUID  == CHOOSE u \in UID : u \notin UsedUIDs

\* The types: only known plans, statuses and readiness reasons are ever stored
\* (ensurePlanStatusInitialized gives every plan of the version a status).
TypeOK ==
    /\ life \in {"none", "live", "gone"}
    /\ inst \in Instance /\ cache \in Instance /\ mem \in Instance
    /\ pc \in {"idle", "spec", "status"}
    /\ cached \in BOOLEAN /\ cacheFresh \in BOOLEAN /\ queued \in BOOLEAN
    /\ memFresh \in BOOLEAN /\ requeue \in BOOLEAN /\ fatal \in BOOLEAN
    /\ up \in BOOLEAN
    /\ writes \in Nat /\ faults \in Nat

Init ==
    /\ life = "none" /\ inst = NoInstance
    /\ cached = FALSE /\ cache = NoInstance /\ cacheFresh = TRUE
    /\ queued = FALSE
    /\ pc = "idle" /\ mem = NoInstance /\ memFresh = FALSE
    /\ requeue = FALSE /\ fatal = FALSE
    /\ up = TRUE
    /\ writes = 0 /\ faults = 0

(* ---------------------- the API server and its users ------------------ *)

\* The API server stores i: every copy is out of date.  An object that is
\* being deleted and has no finalizer left is removed.
Store(i) ==
    /\ inst' = i
    /\ life' = IF i.deleting /\ ~ i.fin THEN "gone" ELSE "live"
    /\ cacheFresh' = FALSE

UserWrite(i) ==
    /\ Store(i)
    /\ memFresh' = FALSE
    /\ writes' = writes + 1
    /\ UNCHANGED <<cached, cache, queued, pc, mem, requeue, fatal, up, faults>>

Create(ov) ==
    /\ up /\ life = "none" /\ FreshUIDs # {}
    /\ LET i == [NoInstance EXCEPT !.ov = ov]
       IN  CreateAllowed(i) /\ UserWrite(HandleCreate(i, NewUUID))

\* A patch of the spec: another OperatorVersion, parameters that trigger trig,
\* another plan (with the new UID the CLI sends) or a cancelled one.  The
\* webhook is served by the manager and fails closed.
Requests(ov, u) ==
    {[inst EXCEPT !.ov = ov, !.pe = pe] :
        pe \in {inst.pe, NoPlanExecution}
               \cup {[plan |-> p, uid |-> u, status |-> inst.pe.status] : p \in Plan}}

Patch(ov, trig) ==
    /\ up /\ life = "live" /\ writes < MaxWrites /\ FreshUIDs # {}
    /\ trig \in TriggersOf[ov] \cup {NoPlan}
    /\ \E new \in Requests(ov, NewUUID) :
          /\ new # inst \/ trig # NoPlan
          /\ UpdateAllowed(inst, new, trig)
          /\ UserWrite(HandleUpdate(inst, new, trig, NewUUID))

\* A label, an annotation or an owner reference changes: the webhook lets it
\* through and the copies of the controller are out of date.
UpdateMetadata ==
    /\ up /\ life = "live" /\ writes < MaxWrites
    /\ UserWrite(inst)

Delete ==
    /\ life = "live" /\ ~ inst.deleting
    /\ UserWrite([inst EXCEPT !.deleting = TRUE])

User ==
    \/ \E ov \in OperatorVersion : Create(ov)
    \/ \E ov \in OperatorVersion : \E trig \in Plan \cup {NoPlan} : Patch(ov, trig)
    \/ UpdateMetadata
    \/ Delete

(* -------------------- informer cache and work queue ------------------- *)

\* The watch delivers the latest version and the event is queued.
Watch ==
    /\ up /\ ~ cacheFresh
    /\ cached' = (life = "live")
    /\ cache' = IF life = "live" THEN inst ELSE cache
    /\ cacheFresh' = TRUE
    /\ queued' = TRUE
    /\ UNCHANGED <<server, worker, up, bounds>>

\* An owned resource or the operator version changes, or the cache resyncs.
OtherEvent ==
    /\ up /\ cached /\ ~ queued
    /\ queued' = TRUE
    /\ UNCHANGED <<server, informer, worker, up, bounds>>

(* ------------------- Reconcile, up to the first write ----------------- *)

\* Mutant: a scheduled plan is not overridden.
NeedsCleanupIfIdle(i) ==
    /\ i.deleting /\ CleanupPlanExists(i.ov)
    /\ CleanupNeverRun(i)
    /\ i.pe.plan = NoPlan

NeedsCleanup(i) ==
    /\ i.deleting /\ CleanupPlanExists(i.ov)
    /\ CleanupNeverRun(i)
    /\ i.pe.plan # CleanupPlan

\* scheduledPlan: the plan execution of the spec or, when the cleanup plan has
\* to be scheduled first, a new one.
ScheduledPlan ==
    IF NeedsCleanup(cache)
    THEN [plan |-> CleanupPlan, uid |-> NewUUID, status |-> "NEVER_RUN"]
    ELSE cache.pe

ActivePlan == ScheduledPlan.plan

\* Mutant: the upgrade plan is forgotten.
EnsureReadinessOfDeploy(p, r) == IF p = DeployPlan THEN "PlanInProgress" ELSE r

EnsureReadinessInitialized(p, r) ==
    IF p \in {DeployPlan, UpgradePlan, UpdatePlan} THEN "PlanInProgress" ELSE r

\* Mutant: the new entries have no status.
EnsurePlanStatusNamed(i) ==
    [p \in Plan |-> IF p \in PlansOf[i.ov] /\ i.ps[p].status = Absent
                    THEN [uid |-> NoUID, status |-> NoStatus]
                    ELSE i.ps[p]]

EnsurePlanStatusInitialized(i) ==
    [p \in Plan |-> IF p \in PlansOf[i.ov] /\ i.ps[p].status = Absent
                    THEN [uid |-> NoUID, status |-> "NEVER_RUN"]
                    ELSE i.ps[p]]

\* Mutant: the plan status is reset whenever the plan is about to be executed.
ResetPlanStatusAlways(i) == ResetPlanStatus(i, i.pe.plan, i.pe.uid)

ResetPlanStatusIfPlanIsNew(i) ==
    IF i.ps[i.pe.plan].uid = i.pe.uid
    THEN i
    ELSE ResetPlanStatus(i, i.pe.plan, i.pe.uid)

\* The instance when the plan is about to be executed.
Prepared ==
    ResetPlanStatusIfPlanIsNew(
        [cache EXCEPT !.pe = ScheduledPlan,
                      !.ready = EnsureReadinessInitialized(ActivePlan, @),
                      !.ps = EnsurePlanStatusInitialized(cache)])

\* A run of Reconcile begins and reads the cache.
Reconciling ==
    /\ up /\ pc = "idle" /\ queued /\ cached
    /\ NeedsCleanup(cache) => FreshUIDs # {}
    /\ queued' = FALSE
    /\ UNCHANGED <<server, informer, up, bounds>>

PlanScheduled == Reconciling /\ ActivePlan # NoPlan

\* Mutant: a plan that is not finished is not queued again.
UpdateInstanceOnce(i, again, isFatal) ==
    /\ mem' = TryRemoveFinalizer(i)
    /\ memFresh' = cacheFresh
    /\ pc' = IF mem'.pe # cache.pe \/ mem'.fin # cache.fin THEN "spec" ELSE "status"
    /\ requeue' = FALSE
    /\ fatal' = isFatal

\* updateInstance: the finalizer is dropped if it may be, then the spec is
\* written if it or the metadata changed, then the status.
UpdateInstance(i, again, isFatal) ==
    /\ mem' = TryRemoveFinalizer(i)
    /\ memFresh' = cacheFresh
    /\ pc' = IF mem'.pe # cache.pe \/ mem'.fin # cache.fin THEN "spec" ELSE "status"
    /\ requeue' = again
    /\ fatal' = isFatal

\* The status of the scheduled plan becomes st.
WithPlanStatus(i, st) ==
    UpdateInstanceStatus(i, i.pe.plan, [i.ps[i.pe.plan] EXCEPT !.status = st])

\* The Instance is not in the cache any more.
ReconcileNotFound ==
    /\ up /\ pc = "idle" /\ queued /\ ~ cached
    /\ queued' = FALSE
    /\ UNCHANGED <<server, informer, worker, up, bounds>>

\* No plan is scheduled: only the readiness of the resources is updated.
ReconcileReadiness(r) ==
    /\ Reconciling
    /\ ActivePlan = NoPlan
    /\ IF r # cache.ready
       THEN UpdateInstance(SetReadiness(cache, r), FALSE, FALSE)
       ELSE UNCHANGED worker

\* The dependencies of the operator do not resolve: a fatal error.
ReconcileUnresolved ==
    /\ PlanScheduled
    /\ cache.ov \in MissingDependency
    /\ UpdateInstance(WithPlanStatus(Prepared, "FATAL_ERROR"), FALSE, TRUE)

PlanFound == ActivePlan \in PlansOf[cache.ov]

\* preparePlanExecution fails.  It returns a pointer to an ExecutionError,
\* which handleError does not recognise: the error is retried and the status
\* of the plan stays what it was.
ReconcileInvalidPlan ==
    /\ PlanScheduled
    /\ ~ PlanFound \/ <<cache.ov, ActivePlan>> \in InvalidPlans
    /\ UpdateInstance(Prepared, TRUE, TRUE)

\* workflow.Execute leaves a plan with a terminal status alone ...
ReconcileTerminalPlan(st) ==
    /\ PlanScheduled /\ PlanFound
    /\ Prepared.ps[ActivePlan].status = st
    /\ UpdateInstance(WithPlanStatus(Prepared, st), FALSE, FALSE)

\* ... and else runs its tasks, with a new status as the result.
ReconcilePlan(st) ==
    /\ PlanScheduled /\ PlanFound
    /\ ~ IsTerminal(Prepared.ps[ActivePlan].status)
    /\ UpdateInstance(WithPlanStatus(Prepared, st), ~ IsTerminal(st), st = "FATAL_ERROR")

(* ---------------------- the writes of updateInstance ------------------ *)

ForgetInstance ==
    /\ pc' = "idle" /\ mem' = NoInstance /\ memFresh' = FALSE
    /\ requeue' = FALSE /\ fatal' = FALSE

Return(again) == ForgetInstance /\ queued' = (queued \/ again)

\* The request carries the new status for the webhook to see, but a write of
\* the main resource does not store it.
SpecRequest ==
    [inst EXCEPT !.pe = mem.pe, !.fin = mem.fin,
                 !.ps = mem.ps, !.ready = mem.ready]

SpecResult ==
    [HandleUpdate(inst, SpecRequest, NoPlan, NewUUID)
        EXCEPT !.ps = inst.ps, !.ready = inst.ready]

SpecAccepted ==
    /\ pc = "spec" /\ up /\ life = "live" /\ memFresh
    /\ UpdateAllowed(inst, SpecRequest, NoPlan)

UpdateSpec ==
    /\ SpecAccepted
    /\ Store(SpecResult)
    /\ pc' = "status"
    /\ UNCHANGED <<cached, cache, queued, mem, memFresh, requeue, fatal, up, bounds>>

\* A conflict, a refusal of the webhook, or the object is gone.
SpecRefused ==
    /\ pc = "spec" /\ up /\ ~ SpecAccepted
    /\ Return(TRUE)
    /\ UNCHANGED <<server, informer, up, bounds>>

StatusAccepted == pc = "status" /\ up /\ life = "live" /\ memFresh

StatusResult == [inst EXCEPT !.ps = mem.ps, !.ready = mem.ready]

\* A write that changes nothing, because the timestamp of the plan status
\* is still in the same second, makes no new version and no watch event.
UpdateStatus ==
    /\ StatusAccepted
    /\ \/ Store(StatusResult)
       \/ StatusResult = inst /\ UNCHANGED <<server, cacheFresh>>
    /\ Return(requeue)
    /\ UNCHANGED <<cached, cache, up, bounds>>

\* The error of a failed status write is dropped if the finalizer of a
\* deleted instance is gone.
StatusErrorIgnored == mem.deleting /\ ~ mem.fin

StatusRefused ==
    /\ pc = "status" /\ up /\ ~ StatusAccepted
    /\ Return(IF StatusErrorIgnored THEN requeue ELSE TRUE)
    /\ UNCHANGED <<server, informer, up, bounds>>

(* -------------------------------- faults ------------------------------ *)

Fault == faults < MaxFaults /\ faults' = faults + 1

\* Mutant: the error is dropped.
WriteFailsSilently ==
    /\ Fault
    /\ up /\ pc # "idle"
    /\ Return(FALSE)
    /\ UNCHANGED <<server, informer, up, writes>>

\* The API server answers a write with an error and does not apply it.
WriteFails ==
    /\ Fault
    /\ up /\ pc # "idle"
    /\ Return(IF pc = "status" /\ StatusErrorIgnored THEN requeue ELSE TRUE)
    /\ UNCHANGED <<server, informer, up, writes>>

\* The spec is written, but the answer is lost.
AnswerLost ==
    /\ Fault
    /\ SpecAccepted
    /\ Store(SpecResult)
    /\ Return(TRUE)
    /\ UNCHANGED <<cached, cache, up, writes>>

\* The manager dies with its memory: copy, cache and work queue.
Crash ==
    /\ Fault
    /\ up
    /\ up' = FALSE
    /\ cached' = FALSE /\ cache' = NoInstance /\ cacheFresh' = FALSE
    /\ queued' = FALSE
    /\ ForgetInstance
    /\ UNCHANGED <<server, writes>>

\* The StatefulSet starts it again, and Watch lists the instances.
Restart ==
    /\ ~ up
    /\ up' = TRUE
    /\ UNCHANGED <<server, informer, queued, worker, bounds>>

(* ---------------------------- specification --------------------------- *)

Reconcile ==
    \/ ReconcileNotFound
    \/ \E r \in {"ResourceNotReady", "ResourcesReady"} : ReconcileReadiness(r)
    \/ ReconcileUnresolved
    \/ ReconcileInvalidPlan
    \/ \E st \in {"COMPLETE", "FATAL_ERROR"} : ReconcileTerminalPlan(st)
    \/ \E st \in {"IN_PROGRESS", "COMPLETE", "FATAL_ERROR"} : ReconcilePlan(st)

Write == UpdateSpec \/ SpecRefused \/ UpdateStatus \/ StatusRefused

Next ==
    \/ User
    \/ Watch \/ OtherEvent
    \/ Reconcile
    \/ Write
    \/ WriteFails \/ AnswerLost \/ Crash \/ Restart

Spec == Init /\ [][Next]_vars

\* Watches deliver, the work queue is served, and the StatefulSet restarts
\* the manager.  That tasks come to an end is an assumption on the operator.
Fairness ==
    /\ WF_vars(Watch) /\ WF_vars(Reconcile \/ Write) /\ WF_vars(Restart)
    /\ SF_vars(cacheFresh /\ ReconcilePlan("COMPLETE"))

FairSpec == Spec /\ Fairness

(* ----------------------------- properties ----------------------------- *)

\* A plan is never stored as finished while the spec still schedules that
\* execution as unfinished: the spec is written first, so that no
\* reconciliation finds a finished plan and executes it again (updateInstance).
\* During the uninstall phase the webhook leaves the finished plan in the spec.
StatusNeverAheadOfSpec ==
    life = "live" =>
        \A p \in Plan :
            /\ IsTerminal(inst.ps[p].status)
            /\ inst.pe.plan # NoPlan
            /\ inst.ps[p].uid = inst.pe.uid
            => inst.deleting /\ IsTerminal(inst.pe.status)

\* As long as a plan is scheduled and not finished, some reconciliation of
\* the Instance is running, queued or about to be queued
\* (computeTheReconcileResult, handleError and the watches).
NoForgottenPlan ==
    /\ up /\ life = "live"
    /\ inst.pe.plan # NoPlan /\ ~ IsTerminal(inst.pe.status)
    => pc # "idle" \/ queued \/ ~ cacheFresh

\* Ready is Unknown while the status shows the scheduled deploy, upgrade or
\* update plan as running (ensureReadinessInitialized, KEP-34).
UnknownWhileRunning ==
    /\ life = "live"
    /\ inst.pe.plan \in {DeployPlan, UpgradePlan, UpdatePlan}
    /\ inst.ps[inst.pe.plan].uid = inst.pe.uid
    /\ IsRunning(inst.ps[inst.pe.plan].status)
    => inst.ready = "PlanInProgress"

\* The controller stored that the scheduled execution came to an end.
FinishedByController ==
    /\ pc = "spec"
    /\ mem.pe.uid = inst.pe.uid
    /\ IsTerminal(mem.ps[inst.pe.plan].status)
    /\ mem.ps[inst.pe.plan].uid = inst.pe.uid

\* A scheduled plan stays until the controller finished this very execution:
\* meanwhile it can only be started anew, or give way to the cleanup plan (or
\* be cancelled) when the instance is being deleted (admitUpdate).
NoPlanOverride ==
    [][ /\ life = "live" /\ inst.pe.plan # NoPlan
        /\ inst'.pe.uid # inst.pe.uid
        => \/ inst'.pe.plan = inst.pe.plan
           \/ inst'.pe.plan = NoPlan /\ FinishedByController
           \/ /\ inst.deleting /\ inst.pe.plan # CleanupPlan
              /\ inst'.pe.plan \in {NoPlan, CleanupPlan} ]_vars

\* The transitions of the diagram at PlanStatus, for one execution (UID) of a
\* plan: nothing leaves COMPLETE or FATAL_ERROR, nothing goes back.
Transitions(st) ==
    CASE st = "PENDING"     -> {"PENDING", "IN_PROGRESS", "COMPLETE", "FATAL_ERROR"}
      [] st = "IN_PROGRESS" -> {"IN_PROGRESS", "COMPLETE", "FATAL_ERROR"}
      [] OTHER              -> {st}

PlanStatusDiagram ==
    [][ \A p \in Plan :
          /\ inst.ps[p].uid # NoUID
          /\ inst'.ps[p].uid = inst.ps[p].uid
          => inst'.ps[p].status \in Transitions(inst.ps[p].status) ]_vars

\* The execution of the cleanup plan that the controller holds completed, and
\* the instance is being deleted.
CleanupCompleted ==
    /\ inst.deleting
    /\ mem.pe.plan = CleanupPlan
    /\ mem.ps[CleanupPlan] = [uid |-> mem.pe.uid, status |-> "COMPLETE"]

\* Once the status has an entry for the cleanup plan, the finalizer is only
\* given up when the instance is being deleted and this execution of its
\* cleanup plan completed (TryRemoveFinalizer).
CleanupBeforeRemoval ==
    [][ /\ life = "live" /\ inst.fin /\ ~ inst'.fin
        /\ inst.ps[CleanupPlan].status # Absent
        => CleanupCompleted ]_vars

\* Once users stop, every scheduled plan leaves the spec or, in the uninstall
\* phase, is finished (the requeues of the controller, whatever it crashes).
PlanIsFinished ==
    (life = "live" /\ inst.pe.plan # NoPlan)
        ~> (life = "gone" \/ inst.pe.plan = NoPlan \/ IsTerminal(inst.pe.status))

\* A deleted instance goes away, unless its cleanup failed fatally and waits
\* for a human (TryRemoveFinalizer).
DeletionEnds ==
    (life = "live" /\ inst.deleting)
        ~> (life = "gone" \/ inst.pe.status = "FATAL_ERROR")

(* ---------- what comments and documents say, and the code does not ----- *)

\* handleError "returns err if this err should be retried, nil otherwise": an
\* error that wraps ErrFatalExecution is not retried.
FatalErrorIsNotRetried == ~ (fatal /\ requeue)

\* TryRemoveFinalizer "removes the cleanup finalizer of an instance if [...] the
\* cleanup plan *successfully* finished": for an instance with a cleanup plan.
FinalizerKeptUntilCleanup ==
    [][ life = "live" /\ inst.fin /\ ~ inst'.fin => CleanupCompleted ]_vars

\* "only the controller schedules the 'cleanup' plan when the instance is
\* deleted" (admitUpdate).
CleanupOnlyWhenDeleting ==
    life = "live" /\ inst.pe.plan = CleanupPlan => inst.deleting
=============================================================================
