----------------------- MODULE InstanceLifecycleProofs -----------------------
(***************************************************************************)
(* Proofs about InstanceLifecycle, for every set of plans, operator        *)
(* versions and UIDs and for any number of writes and faults.              *)
(*                                                                         *)
(* The invariant is about three copies of the Instance: the stored one, the*)
(* cached one and the one the controller works on.  The last two say       *)
(* something about the first as long as they are fresh.                    *)
(***************************************************************************)
EXTENDS InstanceLifecycle, TLAPS

\* A fresh cache is the stored object, and a manager that is down has none.
CacheInv ==
    cacheFresh => /\ up
                  /\ cached = (life = "live")
                  /\ cached => cache = inst

\* The UID of the scheduled execution is only in the status of its own plan.
UidsMatch(pe, ps) ==
    pe.plan # NoPlan =>
        /\ pe.uid \in UID
        /\ \A q \in Plan : ps[q].uid = pe.uid => q = pe.plan

\* In the normal phase a finished plan is not scheduled any more.
FinishedLeaves(deleting, pe) ==
    ~ deleting /\ pe.plan # NoPlan => ~ IsTerminal(pe.status)

\* The scheduled execution is finished in the status only if it is finished
\* in the spec.
StatusFollows(pe, ps) ==
    pe.plan # NoPlan /\ ps[pe.plan].uid = pe.uid /\ IsTerminal(ps[pe.plan].status)
        => IsTerminal(pe.status)

StoredInv ==
    life = "live" =>
        /\ UidsMatch(inst.pe, inst.ps)
        /\ FinishedLeaves(inst.deleting, inst.pe)
        /\ StatusFollows(inst.pe, inst.ps)

\* The copy of the controller is based on the stored object: it has the same
\* plan execution, but for its status, or has just scheduled the cleanup plan.
Based ==
    /\ mem.ov = inst.ov
    /\ mem.deleting = inst.deleting
    /\ \/ mem.pe.plan = inst.pe.plan /\ mem.pe.uid = inst.pe.uid
       \/ inst.deleting /\ mem.pe.plan = CleanupPlan /\ mem.pe.uid \notin UIDsOf(inst)

MemoryInv ==
    (life = "live" /\ memFresh /\ pc = "spec") =>
        /\ Based
        /\ UidsMatch(mem.pe, mem.ps)
        /\ StatusFollows(mem.pe, mem.ps)
        /\ StatusFollows(mem.pe, inst.ps)

StatusInv ==
    (life = "live" /\ memFresh /\ pc = "status") =>
        /\ UidsMatch(inst.pe, mem.ps)
        /\ StatusFollows(inst.pe, mem.ps)

\* A controller that will not come back by itself leaves no unfinished plan.
RequeueInv ==
    /\ up /\ life = "live" /\ pc = "status"
    /\ inst.pe.plan # NoPlan /\ ~ IsTerminal(inst.pe.status)
    => requeue \/ queued \/ ~ cacheFresh

IInv ==
    /\ TypeOK
    /\ CacheInv
    /\ StoredInv
    /\ MemoryInv
    /\ StatusInv
    /\ RequeueInv
    /\ NoForgottenPlan

(* ------------------------- facts about the data ----------------------- *)

\* The Instance before it is created is well-formed.
LEMMA NoInstanceType == NoInstance \in Instance
<1>1. (CHOOSE ov \in OperatorVersion : TRUE) \in OperatorVersion
  BY LifecycleAssumption
<1> QED
  BY <1>1 DEF NoInstance, Instance, NoPlanExecution, PlanExecution, PlanStatus,
     Readiness

\* A plan execution, kept unexpanded in most of the proofs.
Execution(p, u, st) == [plan |-> p, uid |-> u, status |-> st]

\* The fields of a plan execution.
LEMMA ExecutionFields ==
    ASSUME NEW p, NEW u, NEW st
    PROVE  /\ Execution(p, u, st).plan = p
           /\ Execution(p, u, st).uid = u
           /\ Execution(p, u, st).status = st
BY DEF Execution

\* A plan execution made of a plan, a UID and a status is well-formed.
LEMMA ExecutionType ==
    ASSUME NEW p \in Plan, NEW u \in UID, NEW st \in ExecutionStatus \cup {NoStatus}
    PROVE  Execution(p, u, st) \in PlanExecution
BY DEF Execution, PlanExecution

\* The empty plan execution, which the webhook resets to, is well-formed.
LEMMA NoPlanExecutionType ==
    NoPlanExecution \in PlanExecution /\ NoPlanExecution.plan = NoPlan
BY DEF NoPlanExecution, PlanExecution

\* A new UID occurs in none of the copies.
LEMMA NewUUIDIsFresh ==
    FreshUIDs # {} => NewUUID \in UID /\ NewUUID \notin UsedUIDs
BY DEF FreshUIDs, NewUUID

\* UpdateInstanceStatus returns a well-formed instance.
LEMMA UpdateInstanceStatusType ==
    ASSUME NEW i \in Instance, NEW p \in Plan, NEW s \in PlanStatus,
           s.status \in ExecutionStatus
    PROVE  UpdateInstanceStatus(i, p, s) \in Instance
<1>1. ReadinessAfter(s.status, i.ready) \in Readiness
  BY DEF ReadinessAfter, Readiness, Instance
<1>2. [i.ps EXCEPT ![p] = s] \in [Plan -> PlanStatus]
  BY DEF Instance
<1>3. [i.pe EXCEPT !.status = s.status] \in PlanExecution
  BY DEF Instance, PlanExecution
<1> QED
  BY <1>1, <1>2, <1>3 DEF UpdateInstanceStatus, Instance

\* ensurePlanStatusInitialized leaves a status for every plan.
LEMMA EnsurePlanStatusInitializedType ==
    ASSUME NEW i \in Instance
    PROVE  EnsurePlanStatusInitialized(i) \in [Plan -> PlanStatus]
<1> SUFFICES ASSUME NEW p \in Plan
             PROVE  EnsurePlanStatusInitialized(i)[p] \in PlanStatus
  BY DEF EnsurePlanStatusInitialized
<1> QED
  BY DEF EnsurePlanStatusInitialized, Instance, PlanStatus, ExecutionStatus

(* ------------------------ the answers of the webhook ------------------ *)

\* The webhook schedules the deploy plan of a new instance with a new UID and
\* leaves its status alone (handleCreate).
LEMMA HandleCreateResult ==
    ASSUME NEW i \in Instance, NEW u \in UID
    PROVE  /\ HandleCreate(i, u) \in Instance
           /\ HandleCreate(i, u).ps = i.ps
           /\ HandleCreate(i, u).pe = Execution(DeployPlan, u, i.pe.status)
<1>1. TryAddFinalizer(i) \in Instance
  BY DEF TryAddFinalizer, Instance, CleanupNeverRun
<1>2. TryAddFinalizer(i).ps = i.ps /\ TryAddFinalizer(i).pe = i.pe
  BY DEF TryAddFinalizer, Instance
<1>3. DeployPlan \in Plan
  BY PlanAssumption
<1> QED
  BY <1>1, <1>2, <1>3 DEF HandleCreate, Instance, PlanExecution, Execution

\* The webhook keeps the plan execution of the request, resets it, or triggers
\* a plan with a new UID, which takes an upgrade, a parameter or a user.
LEMMA HandleUpdateResult ==
    ASSUME NEW i \in Instance, NEW new \in Instance, NEW u,
           NEW trig \in Plan \cup {NoPlan},
           NEW r, r = HandleUpdate(i, new, trig, u)
    PROVE  /\ r = [new EXCEPT !.pe = r.pe]
           /\ \/ /\ r.pe = new.pe
                 /\ new.pe = i.pe \/ new.deleting \/ ~ IsTerminal(new.pe.status)
              \/ r.pe = NoPlanExecution
              \/ /\ \E p \in Plan :
                      r.pe = Execution(p, u, "NEVER_RUN")
                 /\ \/ IsUpgrade(i, new) \/ trig # NoPlan
                    \/ IsNovelPlan(i, new) \/ IsPlanRetriggered(i, new)
                 /\ ~ new.deleting
<1> DEFINE d == Decision(i, new, trig)
<1>1. new = [new EXCEPT !.pe = new.pe]
  BY DEF Instance
<1>2. CASE IsMetadataUpdate(i, new, trig)
  <2>1. r = new /\ new.pe = i.pe
    BY <1>2 DEF HandleUpdate, IsMetadataUpdate
  <2> QED
    BY <2>1, <1>1
<1>3. CASE ~ IsMetadataUpdate(i, new, trig)
  <2>1. r = ApplyDecision(d, new, u)
    BY <1>3 DEF HandleUpdate
  <2>2. SelectUpgradePlan(new.ov) \in Plan
    <3>1. PlansOf[new.ov] \subseteq Plan
      BY PlanAssumption DEF Instance
    <3> QED
      BY <3>1, PlanAssumption DEF SelectUpgradePlan
  <2>3. IsNovelPlan(i, new) \/ IsPlanRetriggered(i, new) => new.pe.plan \in Plan
    BY DEF IsNovelPlan, IsPlanRetriggered, HadPlan, Instance, PlanExecution
  <2>4. \/ d = Keeps /\ (new.deleting \/ ~ IsTerminal(new.pe.status))
        \/ d = Resets
        \/ /\ \E p \in Plan : d = Triggers(p)
           /\ \/ IsUpgrade(i, new) \/ trig # NoPlan
              \/ IsNovelPlan(i, new) \/ IsPlanRetriggered(i, new)
           /\ ~ new.deleting
    BY <2>2, <2>3 DEF Decision
  <2> HIDE DEF d
  <2>5. CASE d = Keeps /\ (new.deleting \/ ~ IsTerminal(new.pe.status))
    <3>1. r = new
      BY <2>1, <2>5 DEF ApplyDecision, Keeps, Keep, Trigger, Reset
    <3> QED
      BY <3>1, <1>1, <2>5
  <2>6. CASE d = Resets
    <3>1. d.do = Reset /\ Reset # Trigger
      BY <2>6 DEF Resets, Reset, Trigger
    <3>2. r = [new EXCEPT !.pe = NoPlanExecution]
      BY <2>1, <3>1 DEF ApplyDecision
    <3> QED
      BY <3>2 DEF Instance
  <2>7. ASSUME NEW p \in Plan, d = Triggers(p)
        PROVE  /\ r = [new EXCEPT !.pe = r.pe]
               /\ r.pe = Execution(p, u, "NEVER_RUN")
    <3> DEFINE npe == [plan |-> p, uid |-> u, status |-> "NEVER_RUN"]
    <3>1. d.do = Trigger /\ d.plan = p /\ Reset # Trigger
      BY <2>7 DEF Triggers, Reset, Trigger
    <3>2. ApplyDecision(d, new, u) = [new EXCEPT !.pe = npe]
      BY <3>1 DEF ApplyDecision
    <3> HIDE DEF npe
    <3>3. r = [new EXCEPT !.pe = npe] /\ r.pe = npe
      BY <2>1, <3>2 DEF Instance
    <3> QED
      BY <3>3 DEF npe, Execution
  <2> QED
    BY <2>4, <2>5, <2>6, <2>7
<1> QED
  BY <1>2, <1>3

(* --------------------- what the controller prepares ------------------- *)

\* TryRemoveFinalizer changes nothing but the finalizer.
LEMMA TryRemoveFinalizerResult ==
    ASSUME NEW i \in Instance
    PROVE  LET t == TryRemoveFinalizer(i)
           IN  /\ t \in Instance
               /\ t.ov = i.ov /\ t.deleting = i.deleting
               /\ t.pe = i.pe /\ t.ps = i.ps
<1>1. (/\ i.fin
       /\ i.ps[CleanupPlan].status # Absent
       /\ ~ IsFinished(i.ps[CleanupPlan].status)) \in BOOLEAN
  BY DEF IsFinished, Instance
<1> QED
  BY <1>1 DEF TryRemoveFinalizer, Instance

\* Storing the status of the scheduled plan changes the status in the spec and
\* the one in the plan status together (UpdateInstanceStatus).
LEMMA WithPlanStatusResult ==
    ASSUME NEW i \in Instance, i.pe.plan \in Plan, NEW st \in ExecutionStatus
    PROVE  LET w == WithPlanStatus(i, st)
           IN  /\ w \in Instance
               /\ w.ov = i.ov /\ w.deleting = i.deleting
               /\ w.pe = [i.pe EXCEPT !.status = st]
               /\ w.ps = [i.ps EXCEPT ![i.pe.plan] = [@ EXCEPT !.status = st]]
<1> DEFINE s == [i.ps[i.pe.plan] EXCEPT !.status = st]
<1>1. s \in PlanStatus /\ s.status = st
  BY DEF Instance, PlanStatus
<1> HIDE DEF s
<1>2. UpdateInstanceStatus(i, i.pe.plan, s) \in Instance
  BY <1>1, UpdateInstanceStatusType
<1>3. WithPlanStatus(i, st) = UpdateInstanceStatus(i, i.pe.plan, s)
  BY DEF WithPlanStatus, s
<1>4. /\ UpdateInstanceStatus(i, i.pe.plan, s).ov = i.ov
      /\ UpdateInstanceStatus(i, i.pe.plan, s).deleting = i.deleting
      /\ UpdateInstanceStatus(i, i.pe.plan, s).pe = [i.pe EXCEPT !.status = st]
      /\ UpdateInstanceStatus(i, i.pe.plan, s).ps = [i.ps EXCEPT ![i.pe.plan] = s]
  BY <1>1 DEF UpdateInstanceStatus, Instance, PlanExecution
<1> QED
  BY <1>2, <1>3, <1>4 DEF s, Instance

\* A plan is scheduled, and there is a UID for it.
CanSchedule ==
    /\ cache \in Instance
    /\ ActivePlan # NoPlan
    /\ NeedsCleanup(cache) => FreshUIDs # {}

\* scheduledPlan returns the execution in the spec or, for an instance that is
\* being deleted, a new execution of the cleanup plan.
LEMMA ScheduledPlanResult ==
    ASSUME CanSchedule
    PROVE  /\ ScheduledPlan \in PlanExecution
           /\ ActivePlan \in Plan
           /\ \/ ScheduledPlan = cache.pe
              \/ /\ cache.deleting /\ ActivePlan = CleanupPlan
                 /\ ScheduledPlan.uid \in UID /\ ScheduledPlan.uid \notin UsedUIDs
<1>1. CASE NeedsCleanup(cache)
  <2>1. NewUUID \in UID /\ NewUUID \notin UsedUIDs
    BY <1>1, NewUUIDIsFresh DEF CanSchedule
  <2>2. ScheduledPlan = [plan |-> CleanupPlan, uid |-> NewUUID, status |-> "NEVER_RUN"]
    BY <1>1 DEF ScheduledPlan
  <2> QED
    BY <1>1, <2>1, <2>2, PlanAssumption
    DEF ActivePlan, PlanExecution, ExecutionStatus, NeedsCleanup
<1>2. CASE ~ NeedsCleanup(cache)
  BY <1>2 DEF CanSchedule, ScheduledPlan, ActivePlan, Instance, PlanExecution
<1> QED
  BY <1>1, <1>2

\* What Prepared has in common with the cached instance.
PreparedFrom(j) ==
    /\ j \in Instance
    /\ j.ov = cache.ov /\ j.deleting = cache.deleting
    /\ j.pe.plan = ActivePlan /\ j.pe.uid = ScheduledPlan.uid
    /\ j.ps[ActivePlan].uid = ScheduledPlan.uid
    /\ \A q \in Plan : q # ActivePlan => j.ps[q].uid \in {NoUID, cache.ps[q].uid}

\* What Reconcile prepares: the execution is in the plan status under its own
\* UID, and PENDING if it was not there before (resetPlanStatusIfPlanIsNew).
LEMMA PreparedResult ==
    ASSUME CanSchedule
    PROVE  /\ PreparedFrom(Prepared)
           /\ LET s == EnsurePlanStatusInitialized(cache)[ActivePlan]
              IN  IF s.uid = ScheduledPlan.uid
                  THEN /\ Prepared.pe = ScheduledPlan
                       /\ Prepared.ps[ActivePlan] = s
                  ELSE /\ Prepared.pe.status = "PENDING"
                       /\ Prepared.ps[ActivePlan].status = "PENDING"
<1> DEFINE ps == EnsurePlanStatusInitialized(cache)
           r  == EnsureReadinessInitialized(ActivePlan, cache.ready)
           j  == [cache EXCEPT !.pe = ScheduledPlan, !.ready = r, !.ps = ps]
           k  == ResetPlanStatus(j, j.pe.plan, j.pe.uid)
           s  == [uid |-> ScheduledPlan.uid, status |-> "PENDING"]
<1>1. ScheduledPlan \in PlanExecution /\ ActivePlan \in Plan
  BY ScheduledPlanResult
<1>2. ps \in [Plan -> PlanStatus] /\ cache \in Instance
  BY EnsurePlanStatusInitializedType DEF CanSchedule
<1>3. \A q \in Plan : ps[q].uid \in {NoUID, cache.ps[q].uid}
  BY DEF EnsurePlanStatusInitialized
<1>4. r \in Readiness
  BY <1>2 DEF EnsureReadinessInitialized, Readiness, Instance
<1>5. Prepared = ResetPlanStatusIfPlanIsNew(j)
  BY <1>2 DEF Prepared, Instance
<1> HIDE DEF ps, r
<1>6. /\ j \in Instance /\ j.ov = cache.ov /\ j.deleting = cache.deleting
      /\ j.pe = ScheduledPlan /\ j.ps = ps
  BY <1>1, <1>2, <1>4 DEF Instance
<1> HIDE DEF j
<1>7. j.pe.plan = ActivePlan
  BY <1>6 DEF ActivePlan
<1>8. CASE ps[ActivePlan].uid = ScheduledPlan.uid
  <2>1. Prepared = j
    BY <1>5, <1>6, <1>7, <1>8 DEF ResetPlanStatusIfPlanIsNew
  <2> QED
    BY <2>1, <1>3, <1>6, <1>7, <1>8 DEF PreparedFrom, ps
<1>9. CASE ps[ActivePlan].uid # ScheduledPlan.uid
  <2>1. Prepared = k
    BY <1>5, <1>6, <1>7, <1>9 DEF ResetPlanStatusIfPlanIsNew
  <2>2. k = UpdateInstanceStatus(j, ActivePlan, s)
    BY <1>6, <1>7 DEF ResetPlanStatus
  <2>3. s \in PlanStatus /\ s.status \in ExecutionStatus /\ s.status = "PENDING"
    BY <1>1 DEF PlanStatus, PlanExecution, ExecutionStatus
  <2>4. k \in Instance
    BY <1>1, <1>6, <2>2, <2>3, UpdateInstanceStatusType
  <2>5. s.uid = ScheduledPlan.uid
    OBVIOUS
  <2> HIDE DEF s
  <2>6. /\ k.ov = cache.ov /\ k.deleting = cache.deleting
        /\ k.ps = [ps EXCEPT ![ActivePlan] = s]
        /\ k.pe = [ScheduledPlan EXCEPT !.status = "PENDING"]
    BY <1>6, <2>2, <2>3 DEF UpdateInstanceStatus, Instance
  <2> HIDE DEF k
  <2>7. k.pe.plan = ActivePlan /\ k.pe.uid = ScheduledPlan.uid /\ k.pe.status = "PENDING"
    BY <1>1, <2>6 DEF ActivePlan, PlanExecution
  <2>8. /\ k.ps[ActivePlan] = s
        /\ \A q \in Plan : q # ActivePlan => k.ps[q] = ps[q]
    BY <1>1, <1>2, <2>6
  <2> QED
    BY <2>1, <2>3, <2>4, <2>5, <2>6, <2>7, <2>8, <1>3, <1>9 DEF PreparedFrom, ps
<1> QED
  BY <1>8, <1>9

(* ----------------- the steps of the controller: Reconcile ------------- *)

\* What holds for every instance that Reconcile hands to updateInstance for a
\* scheduled plan: if the execution is finished, the spec says so.
Reconciled(j) ==
    /\ PreparedFrom(j)
    /\ cacheFresh => StatusFollows(j.pe, j.ps) /\ StatusFollows(j.pe, cache.ps)

\* Reconcile has a UID for the cleanup plan whenever it needs one.
LEMMA PlanScheduledCanSchedule ==
    ASSUME TypeOK, PlanScheduled
    PROVE  CanSchedule
BY DEF TypeOK, PlanScheduled, Reconciling, CanSchedule

\* updateInstance with such an instance preserves the invariant, if Reconcile
\* asks for another run unless the plan is finished.
LEMMA ReconciledStep ==
    ASSUME IInv, PlanScheduled, NEW j, Reconciled(j),
           NEW again \in BOOLEAN, NEW isFatal \in BOOLEAN,
           UpdateInstance(j, again, isFatal),
           again \/ IsTerminal(j.pe.status)
    PROVE  IInv'
<1> DEFINE t == TryRemoveFinalizer(j)
<1>1. /\ UNCHANGED <<server, informer, up, bounds>>
      /\ up /\ cached /\ pc = "idle" /\ queued' = FALSE
  BY DEF PlanScheduled, Reconciling
<1>2. /\ mem' = t /\ memFresh' = cacheFresh
      /\ pc' = IF t.pe # cache.pe \/ t.fin # cache.fin THEN "spec" ELSE "status"
      /\ requeue' = again /\ fatal' = isFatal
  BY DEF UpdateInstance
<1>3. /\ t \in Instance /\ t.ov = j.ov /\ t.deleting = j.deleting
      /\ t.pe = j.pe /\ t.ps = j.ps
  BY TryRemoveFinalizerResult DEF Reconciled, PreparedFrom
<1> HIDE DEF t
<1>4. CanSchedule
  BY PlanScheduledCanSchedule DEF IInv
<1>5. /\ ScheduledPlan \in PlanExecution /\ ActivePlan \in Plan
      /\ \/ ScheduledPlan = cache.pe
         \/ /\ cache.deleting /\ ActivePlan = CleanupPlan
            /\ ScheduledPlan.uid \in UID /\ ScheduledPlan.uid \notin UsedUIDs
  BY <1>4, ScheduledPlanResult
<1>6. cacheFresh => cache = inst /\ life = "live"
  BY <1>1 DEF IInv, CacheInv
<1>7. cacheFresh => UidsMatch(j.pe, j.ps)
  <2> SUFFICES ASSUME cacheFresh PROVE UidsMatch(j.pe, j.ps)
    OBVIOUS
  <2>1. UidsMatch(inst.pe, inst.ps)
    BY <1>6 DEF IInv, StoredInv
  <2>2. j.pe.uid \in UID
    BY <1>5, <1>6, <2>1 DEF UidsMatch, Reconciled, PreparedFrom, CanSchedule,
       ActivePlan, PlanScheduled
  <2>3. ASSUME NEW q \in Plan, q # ActivePlan PROVE j.ps[q].uid # j.pe.uid
    <3>1. j.ps[q].uid \in {NoUID, inst.ps[q].uid}
      BY <2>3, <1>6 DEF Reconciled, PreparedFrom
    <3>2. inst.ps[q].uid # ScheduledPlan.uid
      BY <2>1, <2>3, <1>4, <1>5, <1>6 DEF UidsMatch, UsedUIDs, UIDsOf, ActivePlan,
         CanSchedule
    <3> QED
      BY <3>1, <3>2, <2>2, UIDAssumption DEF Reconciled, PreparedFrom
  <2> QED
    BY <2>2, <2>3 DEF UidsMatch, Reconciled, PreparedFrom
<1>8. TypeOK'
  BY <1>1, <1>2, <1>3 DEF IInv, TypeOK, server, informer, bounds
<1>9. CacheInv' /\ StoredInv' /\ NoForgottenPlan'
  BY <1>1, <1>2 DEF IInv, CacheInv, StoredInv, NoForgottenPlan, server, informer
<1>10. MemoryInv'
  <2> SUFFICES ASSUME cacheFresh
               PROVE  /\ Based'
                      /\ UidsMatch(mem.pe, mem.ps)'
                      /\ StatusFollows(mem.pe, mem.ps)'
                      /\ StatusFollows(mem.pe, inst.ps)'
    BY <1>2 DEF MemoryInv
  <2>1. inst' = cache /\ mem' = t
    BY <1>1, <1>2, <1>6 DEF server
  <2>2. Based'
    BY <2>1, <1>3, <1>5, <1>6 DEF Based, Reconciled, PreparedFrom, ActivePlan, UsedUIDs
  <2> QED
    BY <2>1, <2>2, <1>3, <1>7 DEF Reconciled, UidsMatch, StatusFollows
<1>11. StatusInv'
  <2> SUFFICES ASSUME cacheFresh, pc' = "status"
               PROVE  UidsMatch(inst.pe, mem.ps)' /\ StatusFollows(inst.pe, mem.ps)'
    BY <1>2 DEF StatusInv
  <2>1. inst'.pe = j.pe /\ mem'.ps = j.ps
    BY <1>1, <1>2, <1>3, <1>6 DEF server
  <2> QED
    BY <2>1, <1>7 DEF Reconciled, UidsMatch, StatusFollows
<1>12. RequeueInv'
  <2> SUFFICES ASSUME cacheFresh, pc' = "status", ~ again
               PROVE  IsTerminal(inst'.pe.status)
    BY <1>1, <1>2 DEF RequeueInv, informer
  <2>1. inst'.pe = j.pe
    BY <1>1, <1>2, <1>3, <1>6 DEF server
  <2> QED
    BY <2>1
<1> QED
  BY <1>8, <1>9, <1>10, <1>11, <1>12 DEF IInv

\* The entry of an execution that is finished in the cache is not touched, and
\* the spec says that it is finished.
LEMMA PreparedFinished ==
    ASSUME IInv, PlanScheduled
    PROVE  /\ cacheFresh => StatusFollows(Prepared.pe, Prepared.ps)
           /\ cache.ps[ActivePlan].uid = ScheduledPlan.uid
                /\ IsTerminal(cache.ps[ActivePlan].status)
              => /\ Prepared.ps[ActivePlan] = cache.ps[ActivePlan]
                 /\ cacheFresh => IsTerminal(Prepared.pe.status)
<1> DEFINE s == EnsurePlanStatusInitialized(cache)[ActivePlan]
<1>1. CanSchedule
  BY PlanScheduledCanSchedule DEF IInv
<1>2. /\ ActivePlan \in Plan
      /\ \/ ScheduledPlan = cache.pe
         \/ ScheduledPlan.uid \notin UsedUIDs
  BY <1>1, ScheduledPlanResult
<1>3. PreparedFrom(Prepared)
  BY <1>1, PreparedResult
<1>4. CASE s.uid = ScheduledPlan.uid
  <2>1. Prepared.pe = ScheduledPlan /\ Prepared.ps[ActivePlan] = s
    BY <1>1, <1>4, PreparedResult
  <2>2. IsTerminal(s.status) \/ IsTerminal(cache.ps[ActivePlan].status)
          => s = cache.ps[ActivePlan]
    BY <1>2 DEF EnsurePlanStatusInitialized, IsTerminal, Absent
  <2>3. IsTerminal(s.status) /\ cacheFresh => IsTerminal(ScheduledPlan.status)
    <3> SUFFICES ASSUME IsTerminal(s.status), cacheFresh
                 PROVE  IsTerminal(ScheduledPlan.status)
      OBVIOUS
    <3>1. s = cache.ps[ActivePlan]
      BY <2>2
    <3>2. cache = inst /\ life = "live"
      BY DEF IInv, CacheInv, PlanScheduled, Reconciling
    <3>3. ScheduledPlan = cache.pe
      BY <1>2, <1>4, <3>1 DEF UsedUIDs, UIDsOf
    <3> QED
      BY <1>1, <1>4, <3>1, <3>2, <3>3
      DEF IInv, StoredInv, StatusFollows, CanSchedule, ActivePlan
  <2> HIDE DEF s
  <2> QED
    BY <1>3, <2>1, <2>2, <2>3 DEF StatusFollows, PreparedFrom
<1>5. CASE s.uid # ScheduledPlan.uid
  <2>1. ~ IsTerminal(Prepared.ps[ActivePlan].status)
    BY <1>1, <1>5, PreparedResult DEF IsTerminal
  <2>2. IsTerminal(cache.ps[ActivePlan].status) => s = cache.ps[ActivePlan]
    BY <1>2 DEF EnsurePlanStatusInitialized, IsTerminal, Absent
  <2> QED
    BY <1>3, <1>5, <2>1, <2>2 DEF StatusFollows, PreparedFrom
<1> QED
  BY <1>4, <1>5

\* With the status of the plan set, unless an execution that is finished in the
\* cache would become unfinished again.
LEMMA WithPlanStatusReconciled ==
    ASSUME IInv, PlanScheduled, NEW st \in ExecutionStatus,
           IsTerminal(st) \/ ~ IsTerminal(Prepared.ps[ActivePlan].status)
    PROVE  Reconciled(WithPlanStatus(Prepared, st))
           /\ WithPlanStatus(Prepared, st).pe.status = st
<1> DEFINE w == WithPlanStatus(Prepared, st)
<1>1. CanSchedule
  BY PlanScheduledCanSchedule DEF IInv
<1>2. ActivePlan \in Plan
  BY <1>1, ScheduledPlanResult
<1>3. PreparedFrom(Prepared)
  BY <1>1, PreparedResult
<1>4. /\ w \in Instance
      /\ w.ov = Prepared.ov /\ w.deleting = Prepared.deleting
      /\ w.pe = [Prepared.pe EXCEPT !.status = st]
      /\ w.ps = [Prepared.ps EXCEPT ![ActivePlan] = [@ EXCEPT !.status = st]]
  BY <1>2, <1>3, WithPlanStatusResult DEF PreparedFrom
<1> HIDE DEF w
<1>5. Prepared.pe \in PlanExecution /\ Prepared.ps \in [Plan -> PlanStatus]
  BY <1>3 DEF PreparedFrom, Instance
<1>6. /\ w.pe.plan = ActivePlan /\ w.pe.uid = ScheduledPlan.uid /\ w.pe.status = st
      /\ w.ps[ActivePlan].uid = ScheduledPlan.uid /\ w.ps[ActivePlan].status = st
      /\ \A q \in Plan : q # ActivePlan => w.ps[q] = Prepared.ps[q]
  <2>1. w.pe.plan = ActivePlan /\ w.pe.uid = ScheduledPlan.uid /\ w.pe.status = st
    BY <1>3, <1>4, <1>5 DEF PreparedFrom, PlanExecution
  <2> DEFINE s == Prepared.ps[ActivePlan]
  <2>2. s \in PlanStatus /\ s.uid = ScheduledPlan.uid
    BY <1>2, <1>3, <1>5 DEF PreparedFrom
  <2>3. /\ w.ps[ActivePlan] = [s EXCEPT !.status = st]
        /\ \A q \in Plan : q # ActivePlan => w.ps[q] = Prepared.ps[q]
    BY <1>2, <1>4, <1>5
  <2> HIDE DEF s
  <2>4. w.ps[ActivePlan].uid = ScheduledPlan.uid /\ w.ps[ActivePlan].status = st
    BY <2>2, <2>3 DEF PlanStatus
  <2> QED
    BY <2>1, <2>3, <2>4
<1>7. PreparedFrom(w)
  BY <1>3, <1>4, <1>6 DEF PreparedFrom
<1>8. StatusFollows(w.pe, cache.ps)
  BY <1>6, PreparedFinished DEF StatusFollows
<1> QED
  BY <1>6, <1>7, <1>8 DEF Reconciled, StatusFollows, w

\* A reconciliation of an Instance that is gone preserves the invariant.
LEMMA ReconcileNotFoundStep ==
    ASSUME IInv, ReconcileNotFound
    PROVE  IInv'
<1>1. /\ UNCHANGED <<server, informer, worker, up, bounds>>
      /\ pc = "idle" /\ ~ cached /\ queued' = FALSE
  BY DEF ReconcileNotFound
<1> USE <1>1 DEF server, informer, worker, bounds
<1>2. TypeOK'
  BY DEF IInv, TypeOK
<1>3. CacheInv' /\ StoredInv'
  BY DEF IInv, CacheInv, StoredInv
<1>4. MemoryInv' /\ StatusInv' /\ RequeueInv'
  BY DEF MemoryInv, StatusInv, RequeueInv
<1>5. NoForgottenPlan'
  BY DEF IInv, CacheInv, NoForgottenPlan
<1> QED
  BY <1>2, <1>3, <1>4, <1>5 DEF IInv

\* Updating only the readiness preserves the invariant: no plan is scheduled.
LEMMA ReconcileReadinessStep ==
    ASSUME IInv, NEW r \in Readiness, ReconcileReadiness(r)
    PROVE  IInv'
<1>1. /\ UNCHANGED <<server, informer, up, bounds>>
      /\ up /\ cached /\ pc = "idle" /\ queued' = FALSE
  BY DEF ReconcileReadiness, Reconciling
<1>2. cache.pe.plan = NoPlan /\ cache \in Instance
  BY DEF ReconcileReadiness, ActivePlan, ScheduledPlan, IInv, TypeOK, CleanupPlan, NoPlan
<1>3. cacheFresh => cache = inst /\ life = "live"
  BY <1>1 DEF IInv, CacheInv
<1>4. CacheInv' /\ StoredInv' /\ NoForgottenPlan'
  BY <1>1, <1>2, <1>3
  DEF IInv, CacheInv, StoredInv, NoForgottenPlan, server, informer
<1>5. CASE UNCHANGED worker
  <2>1. TypeOK'
    BY <1>1, <1>5 DEF IInv, TypeOK, server, informer, worker, bounds
  <2>2. MemoryInv' /\ StatusInv' /\ RequeueInv'
    BY <1>1, <1>5 DEF MemoryInv, StatusInv, RequeueInv, worker
  <2> QED
    BY <1>4, <2>1, <2>2 DEF IInv
<1>6. CASE UpdateInstance(SetReadiness(cache, r), FALSE, FALSE)
  <2> DEFINE j == SetReadiness(cache, r)
             t == TryRemoveFinalizer(j)
  <2>1. /\ j \in Instance /\ j.ov = cache.ov /\ j.deleting = cache.deleting
        /\ j.pe = cache.pe
    BY <1>2 DEF SetReadiness, Instance
  <2> HIDE DEF j
  <2>2. /\ t \in Instance /\ t.ov = cache.ov /\ t.deleting = cache.deleting
        /\ t.pe = cache.pe
    BY <2>1, TryRemoveFinalizerResult
  <2>3. /\ mem' = t /\ memFresh' = cacheFresh /\ pc' \in {"spec", "status"}
        /\ requeue' = FALSE /\ fatal' = FALSE
    BY <1>6 DEF UpdateInstance, j
  <2> HIDE DEF t
  <2>4. TypeOK'
    BY <1>1, <2>2, <2>3 DEF IInv, TypeOK, server, informer, bounds
  <2>5. MemoryInv'
    BY <1>1, <1>2, <1>3, <2>2, <2>3
    DEF MemoryInv, Based, UidsMatch, StatusFollows, server
  <2>6. StatusInv' /\ RequeueInv'
    BY <1>1, <1>2, <1>3, <2>3
    DEF StatusInv, RequeueInv, UidsMatch, StatusFollows, server, informer
  <2> QED
    BY <1>4, <2>4, <2>5, <2>6 DEF IInv
<1> QED
  BY <1>5, <1>6 DEF ReconcileReadiness

\* Failing the plan for a missing dependency preserves the invariant.
LEMMA ReconcileUnresolvedStep ==
    ASSUME IInv, ReconcileUnresolved
    PROVE  IInv'
<1>1. PlanScheduled /\ UpdateInstance(WithPlanStatus(Prepared, "FATAL_ERROR"), FALSE, TRUE)
  BY DEF ReconcileUnresolved
<1>2. "FATAL_ERROR" \in ExecutionStatus /\ IsTerminal("FATAL_ERROR")
  BY DEF ExecutionStatus, IsTerminal
<1> QED
  BY <1>1, <1>2, WithPlanStatusReconciled, ReconciledStep

\* A plan that cannot be prepared preserves the invariant: it is retried.
LEMMA ReconcileInvalidPlanStep ==
    ASSUME IInv, ReconcileInvalidPlan
    PROVE  IInv'
<1>1. PlanScheduled /\ UpdateInstance(Prepared, TRUE, TRUE)
  BY DEF ReconcileInvalidPlan
<1>2. PreparedFrom(Prepared)
  BY <1>1, PlanScheduledCanSchedule, PreparedResult DEF IInv
<1>3. Reconciled(Prepared)
  BY <1>1, <1>2, PreparedFinished DEF Reconciled, StatusFollows, PreparedFrom
<1> QED
  BY <1>1, <1>3, ReconciledStep

\* Finding the plan finished preserves the invariant: the spec learns of it.
LEMMA ReconcileTerminalPlanStep ==
    ASSUME IInv, NEW st \in {"COMPLETE", "FATAL_ERROR"}, ReconcileTerminalPlan(st)
    PROVE  IInv'
<1>1. PlanScheduled /\ UpdateInstance(WithPlanStatus(Prepared, st), FALSE, FALSE)
  BY DEF ReconcileTerminalPlan
<1>2. st \in ExecutionStatus /\ IsTerminal(st)
  BY DEF ExecutionStatus, IsTerminal
<1> QED
  BY <1>1, <1>2, WithPlanStatusReconciled, ReconciledStep

\* Executing the plan preserves the invariant: it is retried or it is finished.
LEMMA ReconcilePlanStep ==
    ASSUME IInv, NEW st \in {"IN_PROGRESS", "COMPLETE", "FATAL_ERROR"},
           ReconcilePlan(st)
    PROVE  IInv'
<1>1. /\ PlanScheduled
      /\ ~ IsTerminal(Prepared.ps[ActivePlan].status)
      /\ UpdateInstance(WithPlanStatus(Prepared, st), ~ IsTerminal(st),
                        st = "FATAL_ERROR")
  BY DEF ReconcilePlan
<1>2. st \in ExecutionStatus
  BY DEF ExecutionStatus
<1>3. IsTerminal(st) \in BOOLEAN
  BY DEF IsTerminal
<1>4. /\ Reconciled(WithPlanStatus(Prepared, st))
      /\ WithPlanStatus(Prepared, st).pe.status = st
  BY <1>1, <1>2, WithPlanStatusReconciled
<1> QED
  BY <1>1, <1>3, <1>4, ReconciledStep

(* --------------------- the steps of the controller: Write ------------- *)

\* The first write of updateInstance stores the plan execution of the
\* controller, or none if that execution is finished.
LEMMA SpecResultIs ==
    ASSUME IInv, SpecAccepted
    PROVE  /\ SpecResult \in Instance
           /\ SpecResult.deleting = inst.deleting /\ SpecResult.ps = inst.ps
           /\ \/ /\ SpecResult.pe = mem.pe
                 /\ FinishedLeaves(inst.deleting, mem.pe)
              \/ SpecResult.pe = NoPlanExecution
<1> DEFINE r == HandleUpdate(inst, SpecRequest, NoPlan, NewUUID)
<1>1. mem \in Instance /\ inst \in Instance
  BY DEF IInv, TypeOK
<1>2. /\ life = "live"
      /\ Based
  BY DEF SpecAccepted, IInv, MemoryInv
<1>3. /\ SpecRequest \in Instance
      /\ SpecRequest.ov = inst.ov /\ SpecRequest.pe = mem.pe
      /\ SpecRequest.deleting = inst.deleting
  BY <1>1 DEF SpecRequest, Instance
<1>4. /\ r = [SpecRequest EXCEPT !.pe = r.pe]
      /\ \/ /\ r.pe = mem.pe
            /\ mem.pe = inst.pe \/ inst.deleting \/ ~ IsTerminal(mem.pe.status)
         \/ r.pe = NoPlanExecution
  <2>1. ~ IsUpgrade(inst, SpecRequest)
    BY <1>3 DEF IsUpgrade
  <2>2. ~ IsNovelPlan(inst, SpecRequest) \/ inst.deleting
    BY <1>2, <1>3 DEF IsNovelPlan, HadPlan, Based
  <2>3. ~ IsPlanRetriggered(inst, SpecRequest) \/ inst.deleting
    BY <1>2, <1>3 DEF IsPlanRetriggered, Based
  <2> HIDE DEF r
  <2> QED
    BY <1>1, <1>3, <2>1, <2>2, <2>3, HandleUpdateResult DEF r
<1>5. SpecResult = [r EXCEPT !.ps = inst.ps, !.ready = inst.ready]
  BY DEF SpecResult
<1> HIDE DEF r
<1>6. r.pe \in PlanExecution
  <2>1. mem.pe \in PlanExecution
    BY <1>1 DEF Instance
  <2>2. NoPlanExecution \in PlanExecution
    BY DEF NoPlanExecution, PlanExecution
  <2> QED
    BY <1>4, <2>1, <2>2
<1>7. /\ SpecResult \in Instance /\ SpecResult.pe = r.pe
      /\ SpecResult.deleting = inst.deleting /\ SpecResult.ps = inst.ps
  <2>1. r \in Instance /\ r.deleting = inst.deleting
    BY <1>3, <1>4, <1>6 DEF Instance
  <2> QED
    BY <1>1, <1>5, <2>1 DEF Instance
<1>8. inst.pe = mem.pe => FinishedLeaves(inst.deleting, mem.pe)
  BY <1>2 DEF IInv, StoredInv
<1> QED
  BY <1>4, <1>7, <1>8 DEF FinishedLeaves

\* The stored object after that write satisfies the invariant, and so does the
\* status that is to be written next.
LEMMA SpecStored ==
    ASSUME IInv, SpecAccepted, Store(SpecResult)
    PROVE  /\ inst' \in Instance /\ life' \in {"live", "gone"} /\ cacheFresh' = FALSE
           /\ StoredInv'
           /\ UidsMatch(inst'.pe, mem.ps) /\ StatusFollows(inst'.pe, mem.ps)
<1>1. /\ SpecResult \in Instance
      /\ SpecResult.deleting = inst.deleting /\ SpecResult.ps = inst.ps
      /\ \/ SpecResult.pe = mem.pe /\ FinishedLeaves(inst.deleting, mem.pe)
         \/ SpecResult.pe = NoPlanExecution
  BY SpecResultIs
<1>2. /\ inst' = SpecResult /\ life' \in {"live", "gone"} /\ cacheFresh' = FALSE
  BY DEF Store
<1>3. /\ life = "live" /\ Based
      /\ UidsMatch(mem.pe, mem.ps)
      /\ StatusFollows(mem.pe, mem.ps)
      /\ StatusFollows(mem.pe, inst.ps)
  BY DEF SpecAccepted, IInv, MemoryInv
<1>4. UidsMatch(mem.pe, inst.ps)
  BY <1>3 DEF IInv, StoredInv, Based, UidsMatch, UIDsOf
<1>5. NoPlanExecution.plan = NoPlan
  BY DEF NoPlanExecution
<1> QED
  BY <1>1, <1>2, <1>3, <1>4, <1>5
  DEF StoredInv, UidsMatch, StatusFollows, FinishedLeaves

\* What the invariant says of the copy in memory is true when there is none.
LEMMA ForgottenInstance ==
    ASSUME IInv, ForgetInstance, TypeOK'
    PROVE  MemoryInv' /\ StatusInv' /\ RequeueInv'
BY DEF ForgetInstance, MemoryInv, StatusInv, RequeueInv

\* The spec write preserves the invariant: the status write that is still to come
\* says nothing that the stored spec does not say.
LEMMA UpdateSpecStep ==
    ASSUME IInv, UpdateSpec
    PROVE  IInv'
<1>1. /\ SpecAccepted /\ Store(SpecResult) /\ pc' = "status"
      /\ UNCHANGED <<cached, cache, queued, mem, memFresh, requeue, fatal, up, bounds>>
  BY DEF UpdateSpec
<1>2. /\ inst' \in Instance /\ life' \in {"live", "gone"} /\ cacheFresh' = FALSE
      /\ StoredInv'
      /\ UidsMatch(inst'.pe, mem.ps) /\ StatusFollows(inst'.pe, mem.ps)
  BY <1>1, SpecStored
<1>3. TypeOK'
  BY <1>1, <1>2 DEF IInv, TypeOK, bounds
<1>4. CacheInv' /\ RequeueInv' /\ NoForgottenPlan'
  BY <1>2 DEF CacheInv, RequeueInv, NoForgottenPlan
<1>5. MemoryInv' /\ StatusInv'
  BY <1>1, <1>2 DEF MemoryInv, StatusInv
<1> QED
  BY <1>2, <1>3, <1>4, <1>5 DEF IInv

\* A spec write whose answer is lost preserves the invariant.
LEMMA AnswerLostStep ==
    ASSUME IInv, AnswerLost
    PROVE  IInv'
<1>1. /\ SpecAccepted /\ Store(SpecResult) /\ ForgetInstance
      /\ queued' = TRUE /\ faults' = faults + 1
      /\ UNCHANGED <<cached, cache, up, writes>>
  BY DEF AnswerLost, Return, Fault, IInv, TypeOK
<1>2. /\ inst' \in Instance /\ life' \in {"live", "gone"} /\ cacheFresh' = FALSE
      /\ StoredInv'
  BY <1>1, SpecStored
<1>3. TypeOK'
  <2>1. faults' \in Nat
    BY <1>1 DEF IInv, TypeOK
  <2>2. /\ mem' \in Instance /\ pc' = "idle" /\ memFresh' = FALSE
        /\ requeue' = FALSE /\ fatal' = FALSE
    BY <1>1, NoInstanceType DEF ForgetInstance
  <2> QED
    BY <1>1, <1>2, <2>1, <2>2 DEF IInv, TypeOK
<1>4. CacheInv' /\ NoForgottenPlan'
  BY <1>2 DEF CacheInv, NoForgottenPlan
<1> QED
  BY <1>1, <1>2, <1>3, <1>4, ForgottenInstance DEF IInv

\* A reconciliation ends without a write: it is queued again, or it was not
\* going to ask for that anyway.
LEMMA ReturnStep ==
    ASSUME IInv, NEW again \in BOOLEAN, Return(again),
           pc = "spec" => again,
           requeue => again,
           UNCHANGED <<server, informer, up, writes>>,
           faults' \in Nat, pc # "idle"
    PROVE  IInv'
<1> USE DEF server, informer
<1>1. ForgetInstance /\ queued' = (queued \/ again)
  BY DEF Return
<1>2. TypeOK'
  BY <1>1, NoInstanceType DEF IInv, TypeOK, ForgetInstance
<1>3. CacheInv' /\ StoredInv'
  BY DEF IInv, CacheInv, StoredInv
<1>4. NoForgottenPlan'
  BY <1>1 DEF IInv, TypeOK, RequeueInv, NoForgottenPlan
<1> QED
  BY <1>1, <1>2, <1>3, <1>4, ForgottenInstance DEF IInv

\* A refused spec write preserves the invariant: the error is retried.
LEMMA SpecRefusedStep ==
    ASSUME IInv, SpecRefused
    PROVE  IInv'
<1>1. Return(TRUE) /\ UNCHANGED <<server, informer, up, bounds>> /\ pc = "spec"
  BY DEF SpecRefused
<1>2. writes' = writes /\ faults' \in Nat
  BY <1>1 DEF bounds, IInv, TypeOK
<1> QED
  BY <1>1, <1>2, ReturnStep

\* A refused status write preserves the invariant, the ignored error included.
LEMMA StatusRefusedStep ==
    ASSUME IInv, StatusRefused
    PROVE  IInv'
<1> DEFINE again == IF StatusErrorIgnored THEN requeue ELSE TRUE
<1>1. /\ Return(again) /\ UNCHANGED <<server, informer, up, bounds>>
      /\ pc = "status"
  BY DEF StatusRefused
<1>2. /\ writes' = writes /\ faults' \in Nat
      /\ again \in BOOLEAN /\ (requeue => again)
  BY <1>1 DEF bounds, IInv, TypeOK
<1> HIDE DEF again
<1> QED
  BY <1>1, <1>2, ReturnStep

\* A failed write preserves the invariant.
LEMMA WriteFailsStep ==
    ASSUME IInv, WriteFails
    PROVE  IInv'
<1> DEFINE again == IF pc = "status" /\ StatusErrorIgnored THEN requeue ELSE TRUE
<1>1. /\ Return(again) /\ UNCHANGED <<server, informer, up, writes>>
      /\ pc # "idle"
  BY DEF WriteFails
<1>2. faults' \in Nat
  BY DEF WriteFails, Fault, IInv, TypeOK
<1>3. again \in BOOLEAN /\ (requeue => again) /\ (pc = "spec" => again)
  BY DEF IInv, TypeOK
<1> HIDE DEF again
<1> QED
  BY <1>1, <1>2, <1>3, ReturnStep

\* The status write preserves the invariant: the spec already says what it says.
LEMMA UpdateStatusStep ==
    ASSUME IInv, UpdateStatus
    PROVE  IInv'
<1>1. /\ StatusAccepted /\ Return(requeue) /\ pc = "status"
      /\ UNCHANGED <<cached, cache, up, bounds>>
  BY DEF UpdateStatus, StatusAccepted
<1>2. CASE Store(StatusResult)
  <2>1. /\ inst' = StatusResult /\ life' \in {"live", "gone"} /\ cacheFresh' = FALSE
    BY <1>2 DEF Store
  <2>2. /\ StatusResult \in Instance /\ StatusResult.pe = inst.pe
        /\ StatusResult.ps = mem.ps /\ StatusResult.deleting = inst.deleting
    BY DEF StatusResult, Instance, IInv, TypeOK
  <2>3. ForgetInstance /\ queued' = (queued \/ requeue)
    BY <1>1 DEF Return
  <2>4. TypeOK'
    BY <1>1, <2>1, <2>2, <2>3, NoInstanceType DEF IInv, TypeOK, ForgetInstance, bounds
  <2>5. StoredInv'
    BY <1>1, <2>1, <2>2 DEF IInv, StoredInv, StatusInv, StatusAccepted
  <2>6. CacheInv' /\ NoForgottenPlan'
    BY <2>1 DEF CacheInv, NoForgottenPlan
  <2> QED
    BY <2>3, <2>4, <2>5, <2>6, ForgottenInstance DEF IInv
<1>3. CASE UNCHANGED <<server, cacheFresh>>
  <2>1. UNCHANGED <<server, informer, up, writes>> /\ faults' \in Nat
    BY <1>1, <1>3 DEF informer, bounds, IInv, TypeOK
  <2> QED
    BY <1>1, <2>1, ReturnStep DEF IInv, TypeOK
<1> QED
  BY <1>2, <1>3 DEF UpdateStatus

(* ------------------- users, watches, crash and restart ---------------- *)

\* A write of a user preserves the invariant if it stores such an instance.
LEMMA UserWriteStep ==
    ASSUME IInv, NEW i \in Instance, UserWrite(i),
           UidsMatch(i.pe, i.ps),
           FinishedLeaves(i.deleting, i.pe),
           StatusFollows(i.pe, i.ps)
    PROVE  IInv'
<1>1. /\ inst' = i /\ life' \in {"live", "gone"}
      /\ cacheFresh' = FALSE /\ memFresh' = FALSE /\ writes' = writes + 1
      /\ UNCHANGED <<cached, cache, queued, pc, mem, requeue, fatal, up, faults>>
  BY DEF UserWrite, Store
<1>2. TypeOK'
  <2>1. writes' \in Nat
    BY <1>1 DEF IInv, TypeOK
  <2> QED
    BY <1>1, <2>1 DEF IInv, TypeOK
<1>3. StoredInv'
  BY <1>1 DEF StoredInv
<1>4. CacheInv' /\ MemoryInv' /\ StatusInv' /\ RequeueInv' /\ NoForgottenPlan'
  BY <1>1 DEF CacheInv, MemoryInv, StatusInv, RequeueInv, NoForgottenPlan
<1> QED
  BY <1>2, <1>3, <1>4 DEF IInv

\* An execution with a new UID is in no plan status yet.
LEMMA NewExecution ==
    ASSUME NEW i \in Instance, i.pe.uid \in UID,
           \A q \in Plan : i.ps[q].uid # i.pe.uid
    PROVE  UidsMatch(i.pe, i.ps) /\ StatusFollows(i.pe, i.ps)
<1>1. i.pe.plan # NoPlan => i.pe.plan \in Plan
  BY DEF Instance, PlanExecution
<1> QED
  BY <1>1 DEF UidsMatch, StatusFollows

\* Creating the Instance preserves the invariant: the deploy plan gets a new UID.
LEMMA CreateStep ==
    ASSUME IInv, NEW ov \in OperatorVersion, Create(ov)
    PROVE  IInv'
<1>2. PICK u \in UID : u = NewUUID
  BY NewUUIDIsFresh DEF Create
<1> DEFINE i == [NoInstance EXCEPT !.ov = ov]
           h == HandleCreate(i, u)
<1>1. UserWrite(h)
  BY <1>2 DEF Create
<1>3. i \in Instance /\ i.ps = NoInstance.ps /\ i.pe.status = NoStatus
  BY NoInstanceType DEF Instance, NoInstance, NoPlanExecution
<1> HIDE DEF i
<1>4. /\ h \in Instance /\ h.ps = NoInstance.ps
      /\ h.pe = Execution(DeployPlan, u, NoStatus)
  BY <1>2, <1>3, HandleCreateResult
<1> HIDE DEF h
<1>5. h.pe.uid = u /\ h.pe.status = NoStatus
  <2>1. /\ Execution(DeployPlan, u, NoStatus).uid = u
        /\ Execution(DeployPlan, u, NoStatus).status = NoStatus
    BY ExecutionFields
  <2> QED
    BY <1>4, <2>1
<1>6. \A q \in Plan : NoInstance.ps[q].uid = NoUID
  BY DEF NoInstance
<1>7. UidsMatch(h.pe, h.ps) /\ StatusFollows(h.pe, h.ps)
  BY <1>2, <1>4, <1>5, <1>6, UIDAssumption, NewExecution
<1>8. FinishedLeaves(h.deleting, h.pe)
  BY <1>5 DEF FinishedLeaves, IsTerminal, NoStatus
<1> QED
  BY <1>1, <1>4, <1>7, <1>8, UserWriteStep

\* A patch that the webhook admits preserves the invariant.
LEMMA PatchStep ==
    ASSUME IInv, NEW ov \in OperatorVersion, NEW trig \in Plan \cup {NoPlan},
           Patch(ov, trig)
    PROVE  IInv'
<1>1. life = "live" /\ inst \in Instance
  BY DEF Patch, IInv, TypeOK
<1>0. PICK u \in UID : u = NewUUID /\ u \notin UsedUIDs
  BY NewUUIDIsFresh DEF Patch
<1>2. PICK new \in Requests(ov, u) :
        UserWrite(HandleUpdate(inst, new, trig, u))
  BY <1>0 DEF Patch
<1>3. PICK pe \in {inst.pe, NoPlanExecution}
                 \cup {Execution(p, u, inst.pe.status) : p \in Plan} :
        new = [inst EXCEPT !.ov = ov, !.pe = pe]
  BY <1>2 DEF Requests, Execution
<1>4. inst.pe \in PlanExecution
  BY <1>1 DEF Instance
<1>5. inst.pe.status \in ExecutionStatus \cup {NoStatus} /\ "NEVER_RUN" \in ExecutionStatus
  BY <1>4 DEF PlanExecution, ExecutionStatus
<1>6. ASSUME NEW p \in Plan, NEW st \in ExecutionStatus \cup {NoStatus}
      PROVE  /\ Execution(p, u, st) \in PlanExecution
             /\ Execution(p, u, st).uid = u
             /\ Execution(p, u, st).status = st
  <2>1. Execution(p, u, st) \in PlanExecution
    BY ExecutionType
  <2>2. Execution(p, u, st).uid = u /\ Execution(p, u, st).status = st
    BY ExecutionFields
  <2> QED
    BY <2>1, <2>2
<1>7. pe \in PlanExecution /\ (pe = inst.pe \/ pe = NoPlanExecution \/ pe.uid = u)
  BY <1>3, <1>4, <1>5, <1>6, NoPlanExecutionType
<1>8. /\ new \in Instance /\ new.pe = pe
      /\ new.ps = inst.ps /\ new.deleting = inst.deleting
  BY <1>1, <1>3, <1>7 DEF Instance
<1> DEFINE r == HandleUpdate(inst, new, trig, u)
<1>9. UserWrite(r)
  BY <1>2
<1>10. /\ r = [new EXCEPT !.pe = r.pe]
       /\ \/ /\ r.pe = pe
             /\ pe = inst.pe \/ inst.deleting \/ ~ IsTerminal(pe.status)
          \/ r.pe = NoPlanExecution
          \/ \E p \in Plan :
                r.pe = Execution(p, u, "NEVER_RUN")
  BY <1>1, <1>8, HandleUpdateResult
<1> HIDE DEF r
<1>11. /\ r.pe \in PlanExecution
       /\ \/ r.pe = inst.pe
          \/ r.pe = NoPlanExecution
          \/ r.pe.uid = u /\ (inst.deleting \/ ~ IsTerminal(r.pe.status))
  <2>1. ~ IsTerminal("NEVER_RUN")
    BY DEF IsTerminal
  <2> QED
    BY <1>4, <1>5, <1>6, <1>7, <1>10, <2>1, NoPlanExecutionType
<1>12. r \in Instance /\ r.ps = inst.ps /\ r.deleting = inst.deleting
  BY <1>8, <1>10, <1>11 DEF Instance
<1>13. CASE r.pe = inst.pe
  BY <1>1, <1>9, <1>12, <1>13, UserWriteStep DEF IInv, StoredInv
<1>14. CASE r.pe = NoPlanExecution
  <2>1. r.pe.plan = NoPlan
    BY <1>14, NoPlanExecutionType
  <2> QED
    BY <1>9, <1>12, <2>1, UserWriteStep DEF UidsMatch, StatusFollows, FinishedLeaves
<1>15. CASE r.pe.uid = u /\ (inst.deleting \/ ~ IsTerminal(r.pe.status))
  <2>1. \A q \in Plan : r.ps[q].uid # r.pe.uid
    BY <1>0, <1>12, <1>15 DEF UsedUIDs, UIDsOf
  <2>2. UidsMatch(r.pe, r.ps) /\ StatusFollows(r.pe, r.ps)
    BY <1>0, <1>12, <1>15, <2>1, NewExecution
  <2>3. FinishedLeaves(r.deleting, r.pe)
    BY <1>12, <1>15 DEF FinishedLeaves
  <2> QED
    BY <1>9, <1>12, <2>2, <2>3, UserWriteStep
<1> QED
  BY <1>11, <1>13, <1>14, <1>15

\* A metadata update preserves the invariant.
LEMMA UpdateMetadataStep ==
    ASSUME IInv, UpdateMetadata
    PROVE  IInv'
<1>1. life = "live" /\ UserWrite(inst) /\ inst \in Instance
  BY DEF UpdateMetadata, IInv, TypeOK
<1> QED
  BY <1>1, UserWriteStep DEF IInv, StoredInv

\* Deleting the Instance preserves the invariant.
LEMMA DeleteStep ==
    ASSUME IInv, Delete
    PROVE  IInv'
<1> DEFINE i == [inst EXCEPT !.deleting = TRUE]
<1>1. life = "live" /\ UserWrite(i)
  BY DEF Delete
<1>2. i \in Instance /\ i.ps = inst.ps /\ i.pe = inst.pe /\ i.deleting = TRUE
  BY DEF IInv, TypeOK, Instance
<1> HIDE DEF i
<1>3. FinishedLeaves(i.deleting, i.pe)
  BY <1>2 DEF FinishedLeaves
<1> QED
  BY <1>1, <1>2, <1>3, UserWriteStep DEF IInv, StoredInv

\* A delivered watch event preserves the invariant: the copy is the stored object.
LEMMA WatchStep ==
    ASSUME IInv, Watch
    PROVE  IInv'
<1> USE DEF Watch, server, worker, bounds
<1>1. TypeOK'
  BY DEF IInv, TypeOK
<1>2. CacheInv' /\ StoredInv' /\ MemoryInv' /\ StatusInv'
  BY DEF IInv, CacheInv, StoredInv, MemoryInv, StatusInv, Based
<1>3. RequeueInv' /\ NoForgottenPlan'
  BY DEF RequeueInv, NoForgottenPlan
<1> QED
  BY <1>1, <1>2, <1>3 DEF IInv

\* Another event for the controller preserves the invariant.
LEMMA OtherEventStep ==
    ASSUME IInv, OtherEvent
    PROVE  IInv'
<1> USE DEF OtherEvent, server, informer, worker, bounds
<1>1. TypeOK'
  BY DEF IInv, TypeOK
<1>2. CacheInv' /\ StoredInv' /\ MemoryInv' /\ StatusInv'
  BY DEF IInv, CacheInv, StoredInv, MemoryInv, StatusInv, Based
<1>3. RequeueInv' /\ NoForgottenPlan'
  BY DEF RequeueInv, NoForgottenPlan
<1> QED
  BY <1>1, <1>2, <1>3 DEF IInv

\* A crash preserves the invariant: nothing in memory survives.
LEMMA CrashStep ==
    ASSUME IInv, Crash
    PROVE  IInv'
<1>1. /\ up' = FALSE /\ cached' = FALSE /\ cache' = NoInstance
      /\ cacheFresh' = FALSE /\ queued' = FALSE
      /\ ForgetInstance
      /\ UNCHANGED <<server, writes>>
  BY DEF Crash
<1>2. faults' \in Nat
  BY DEF Crash, Fault, IInv, TypeOK
<1>3. TypeOK'
  BY <1>1, <1>2, NoInstanceType DEF IInv, TypeOK, ForgetInstance, server
<1>4. CacheInv' /\ StoredInv' /\ NoForgottenPlan'
  BY <1>1 DEF IInv, CacheInv, StoredInv, NoForgottenPlan, server
<1> QED
  BY <1>1, <1>3, <1>4, ForgottenInstance DEF IInv

\* A restart preserves the invariant: the cache is empty and out of date.
LEMMA RestartStep ==
    ASSUME IInv, Restart
    PROVE  IInv'
<1> USE DEF Restart, server, informer, worker, bounds
<1>1. ~ cacheFresh
  BY DEF IInv, CacheInv
<1>2. TypeOK'
  BY DEF IInv, TypeOK
<1>3. CacheInv' /\ StoredInv' /\ MemoryInv' /\ StatusInv'
  BY <1>1 DEF IInv, CacheInv, StoredInv, MemoryInv, StatusInv, Based
<1>4. RequeueInv' /\ NoForgottenPlan'
  BY <1>1 DEF RequeueInv, NoForgottenPlan
<1> QED
  BY <1>2, <1>3, <1>4 DEF IInv

(* ------------------------------ theorems ------------------------------ *)

\* The invariant holds before the Instance is created.
LEMMA InitIInv == Init => IInv
<1> SUFFICES ASSUME Init PROVE IInv
  OBVIOUS
<1>1. TypeOK
  BY NoInstanceType DEF Init, TypeOK
<1> QED
  BY <1>1 DEF Init, IInv, CacheInv, StoredInv, MemoryInv, StatusInv, RequeueInv,
     NoForgottenPlan

\* Every step preserves the invariant.
LEMMA NextIInv == IInv /\ [Next]_vars => IInv'
<1> SUFFICES ASSUME IInv, [Next]_vars PROVE IInv'
  OBVIOUS
<1>1. CASE User
  BY <1>1, CreateStep, PatchStep, UpdateMetadataStep, DeleteStep DEF User
<1>2. CASE Watch \/ OtherEvent
  BY <1>2, WatchStep, OtherEventStep
<1>3. CASE Reconcile
  <2>1. {"ResourceNotReady", "ResourcesReady"} \subseteq Readiness
    BY DEF Readiness
  <2> QED
    BY <1>3, <2>1, ReconcileNotFoundStep, ReconcileReadinessStep,
       ReconcileUnresolvedStep, ReconcileInvalidPlanStep,
       ReconcileTerminalPlanStep, ReconcilePlanStep DEF Reconcile
<1>4. CASE Write
  BY <1>4, UpdateSpecStep, SpecRefusedStep, UpdateStatusStep, StatusRefusedStep
  DEF Write
<1>5. CASE WriteFails \/ AnswerLost \/ Crash \/ Restart
  BY <1>5, WriteFailsStep, AnswerLostStep, CrashStep, RestartStep
<1>6. CASE UNCHANGED vars
  <2> USE <1>6 DEF vars, server, informer, worker, bounds
  <2>1. TypeOK'
    BY DEF IInv, TypeOK
  <2>2. CacheInv' /\ StoredInv' /\ MemoryInv' /\ StatusInv'
    BY DEF IInv, CacheInv, StoredInv, MemoryInv, StatusInv, Based
  <2>3. RequeueInv' /\ NoForgottenPlan'
    BY DEF IInv, RequeueInv, NoForgottenPlan
  <2> QED
    BY <2>1, <2>2, <2>3 DEF IInv
<1> QED
  BY <1>1, <1>2, <1>3, <1>4, <1>5, <1>6 DEF Next

\* The invariant of the three copies holds in every reachable state.
THEOREM Invariance == Spec => []IInv
BY InitIInv, NextIInv, PTL DEF Spec

\* Every variable keeps its type: the webhook and the controller only store
\* well-formed instances (HandleUpdate, updateInstance).
THEOREM TypeCorrect == Spec => []TypeOK
<1>1. IInv => TypeOK
  BY DEF IInv
<1> QED
  BY <1>1, Invariance, PTL

\* The status never shows the end of an execution that the spec still schedules
\* as unfinished, whatever fails between the two writes of updateInstance.
THEOREM StatusFollowsSpec == Spec => []StatusNeverAheadOfSpec
<1>1. IInv => StatusNeverAheadOfSpec
  BY DEF IInv, StoredInv, UidsMatch, StatusFollows, FinishedLeaves,
     StatusNeverAheadOfSpec
<1> QED
  BY <1>1, Invariance, PTL

\* An unfinished plan is always being reconciled or about to be: no error, lost
\* answer or crash makes the controller forget it (handleError, Reconcile).
THEOREM NothingForgotten == Spec => []NoForgottenPlan
<1>1. IInv => NoForgottenPlan
  BY DEF IInv
<1> QED
  BY <1>1, Invariance, PTL

(***************************************************************************)
(* The execution of a plan: what the status says of a plan that runs, and  *)
(* when a plan may be replaced and the finalizer be given up.              *)
(*                                                                         *)
(* This rests on IInv and on three more invariants: about the Ready        *)
(* condition and the end of a plan, about the plan statuses, and about the *)
(* cleanup plan.  The last one needs operator versions that satisfy a      *)
(* condition which the code does not check.                                *)
(***************************************************************************)

ReadyPlans == {DeployPlan, UpgradePlan, UpdatePlan}

\* The Ready condition is Unknown if the status shows this execution running.
ShowsRunning(pe, ps, r) ==
    /\ pe.plan \in ReadyPlans
    /\ ps[pe.plan].uid = pe.uid
    /\ IsRunning(ps[pe.plan].status)
    => r = "PlanInProgress"

\* An execution that is finished in the spec is finished in the status.
EndSeen(i) ==
    ~ i.deleting /\ i.pe.plan # NoPlan /\ IsTerminal(i.pe.status)
        => i.ps[i.pe.plan].uid = i.pe.uid /\ IsTerminal(i.ps[i.pe.plan].status)

StoredReady == life = "live" => ShowsRunning(inst.pe, inst.ps, inst.ready)

\* The copy in memory: its status will meet the spec that is written before it.
MemoryReady ==
    (life = "live" /\ memFresh) =>
        /\ pc = "spec" => ShowsRunning(mem.pe, mem.ps, mem.ready) /\ EndSeen(mem)
        /\ pc = "status" => ShowsRunning(inst.pe, mem.ps, mem.ready)

ReadyInv == IInv /\ StoredReady /\ MemoryReady

\* The status of a plan that has ever been started.
Started(ps) ==
    \A p \in Plan : ps[p].uid # NoUID =>
        ps[p].status \in {"PENDING", "IN_PROGRESS", "COMPLETE", "FATAL_ERROR"}

\* The diagram at PlanStatus, from the plan statuses ps to the plan statuses qs.
Moves(ps, qs) ==
    \A p \in Plan :
        ps[p].uid # NoUID /\ qs[p].uid = ps[p].uid
            => qs[p].status \in Transitions(ps[p].status)

\* In the uninstall phase a plan other than the cleanup plan does not finish in
\* the spec, as the webhook denies it.  A completed cleanup plan has taken the
\* finalizer.
StoredStatuses ==
    life = "live" =>
        /\ Started(inst.ps)
        /\ inst.deleting => inst.fin
        /\ inst.deleting /\ inst.pe.plan \notin {NoPlan, CleanupPlan}
              => ~ IsTerminal(inst.pe.status)
        /\ inst.ps[CleanupPlan].status = "COMPLETE" => ~ inst.fin

MemoryStatuses ==
    (life = "live" /\ memFresh /\ pc # "idle") =>
        /\ Started(mem.ps)
        /\ Moves(inst.ps, mem.ps)
        /\ mem.fin => inst.fin
        /\ mem.ps[CleanupPlan].status = "COMPLETE" => ~ mem.fin
        /\ pc = "status" => mem.fin = inst.fin

StatusesInv == IInv /\ StoredStatuses /\ MemoryStatuses

\* Only an instance that is being deleted runs its cleanup plan, and once it has
\* begun this plan stays scheduled.
StoredCleanup ==
    life = "live" =>
        /\ inst.pe.plan = CleanupPlan => inst.deleting
        /\ CleanupNeverRun(inst) \/ inst.pe.plan = CleanupPlan

\* The controller gives up the finalizer for a completed cleanup plan, or
\* because the status had no entry for it.
DropsFinalizer ==
    inst.fin /\ ~ mem.fin /\ inst.ps[CleanupPlan].status # Absent
        => /\ mem.pe.plan = CleanupPlan
           /\ mem.ps[CleanupPlan] = [uid |-> mem.pe.uid, status |-> "COMPLETE"]

MemoryCleanup ==
    (life = "live" /\ memFresh) =>
        /\ pc = "spec" =>
              /\ CleanupNeverRun(mem) \/ mem.pe.plan = CleanupPlan
              /\ DropsFinalizer
        /\ pc = "status" => CleanupNeverRun(mem) \/ inst.pe.plan = CleanupPlan

CleanupInv == StatusesInv /\ StoredCleanup /\ MemoryCleanup

\* The condition: no parameter triggers the cleanup plan.
CleanupNotTriggered == \A ov \in OperatorVersion : CleanupPlan \notin TriggersOf[ov]

(* ---------------------- what is written to the spec ------------------- *)

\* An admitted update keeps the scheduled plan or, in the uninstall phase,
\* replaces it by the cleanup plan or none; in the normal phase the cleanup
\* plan is scheduled by nothing but a parameter.
LEMMA AdmittedPlan ==
    ASSUME NEW old \in Instance, NEW new \in Instance, NEW u, NEW trig,
           new.deleting = old.deleting,
           UpdateAllowed(old, new, trig),
           ~ old.deleting /\ old.pe.plan # NoPlan => ~ IsTerminal(new.pe.status),
           NEW p, p = HandleUpdate(old, new, trig, u).pe.plan
    PROVE  /\ old.pe.plan # NoPlan =>
                \/ p = old.pe.plan
                \/ /\ old.deleting /\ old.pe.plan # CleanupPlan
                   /\ p \in {NoPlan, CleanupPlan}
           /\ ~ old.deleting /\ trig # CleanupPlan /\ old.pe.plan # CleanupPlan
                => p # CleanupPlan
           /\ old.deleting /\ p \notin {NoPlan, CleanupPlan}
                => IsMetadataUpdate(old, new, trig)
<1> DEFINE d == Decision(old, new, trig)
<1>1. CASE IsMetadataUpdate(old, new, trig)
  BY <1>1 DEF HandleUpdate, IsMetadataUpdate
<1>2. CASE ~ IsMetadataUpdate(old, new, trig)
  <2>1. ~ Denied(old, new, trig) /\ p = ApplyDecision(d, new, u).pe.plan
    BY <1>2 DEF UpdateAllowed, HandleUpdate
  <2> HIDE DEF d
  <2>2. ASSUME d = Keeps PROVE p = new.pe.plan
    BY <2>1, <2>2 DEF ApplyDecision, Keeps, Keep, Trigger, Reset
  <2>3. ASSUME NEW q, d = Triggers(q) PROVE p = q
    <3> DEFINE npe == [plan |-> q, uid |-> u, status |-> "NEVER_RUN"]
    <3>1. d.do = Trigger /\ d.plan = q /\ Reset # Trigger
      BY <2>3 DEF Triggers, Reset, Trigger
    <3>2. ApplyDecision(d, new, u) = [new EXCEPT !.pe = npe] /\ npe.plan = q
      BY <3>1 DEF ApplyDecision
    <3> HIDE DEF npe
    <3> QED
      BY <2>1, <3>2 DEF Instance
  <2>4. ASSUME d = Resets PROVE p = NoPlan
    <3>1. d.do = Reset /\ Reset # Trigger
      BY <2>4 DEF Resets, Reset, Trigger
    <3>2. ApplyDecision(d, new, u) = [new EXCEPT !.pe = NoPlanExecution]
      BY <3>1 DEF ApplyDecision
    <3> QED
      BY <2>1, <3>2, NoPlanExecutionType DEF Instance
  <2>5. CASE old.deleting
    <3>1. ~ DeniedWhileDeleting(old, new, trig) /\ d = Keeps
      BY <2>1, <2>5 DEF Denied, Decision, d
    <3> QED
      BY <2>2, <2>5, <3>1 DEF DeniedWhileDeleting
  <2>6. CASE ~ old.deleting
    <3>1. ~ DeniedNormally(old, new, trig) /\ ~ new.deleting
      BY <2>1, <2>6 DEF Denied
    <3>2. SelectUpgradePlan(new.ov) # CleanupPlan
      BY DEF SelectUpgradePlan, UpgradePlan, UpdatePlan, DeployPlan, CleanupPlan
    <3>3. \/ IsUpgrade(old, new) /\ p = SelectUpgradePlan(new.ov)
          \/ trig # NoPlan /\ p = trig
          \/ (trig = NoPlan \/ ~ HadPlan(old)) /\ p = new.pe.plan
          \/ IsTerminal(new.pe.status) /\ p = NoPlan
      BY <2>2, <2>3, <2>4, <3>1 DEF Decision, d
    <3>4. ~ IsTerminal(new.pe.status) \/ old.pe.plan = NoPlan
      BY <2>6
    <3>5. NoPlan # CleanupPlan
      BY DEF NoPlan, CleanupPlan
    <3> QED
      BY <2>6, <3>1, <3>2, <3>3, <3>4, <3>5
      DEF DeniedNormally, HadPlan, IsPlanOverride, IsPlanCancellation
  <2> QED
    BY <2>5, <2>6
<1> QED
  BY <1>1, <1>2

\* What an admitted patch stores: status and finalizer stay, and the plan
\* execution is the old one, none, or one with a new UID.
PatchedTo(r, trig) ==
    /\ r \in Instance
    /\ r.ps = inst.ps /\ r.ready = inst.ready
    /\ r.deleting = inst.deleting /\ r.fin = inst.fin
    /\ \/ r.pe = inst.pe
       \/ r.pe.plan = NoPlan
       \/ \A q \in Plan : inst.ps[q].uid # r.pe.uid
    /\ inst.pe.plan # NoPlan =>
          \/ r.pe.plan = inst.pe.plan
          \/ /\ inst.deleting /\ inst.pe.plan # CleanupPlan
             /\ r.pe.plan \in {NoPlan, CleanupPlan}
    /\ ~ inst.deleting /\ trig # CleanupPlan /\ inst.pe.plan # CleanupPlan
          => r.pe.plan # CleanupPlan
    /\ inst.deleting => r.pe = inst.pe \/ r.pe.plan \in {NoPlan, CleanupPlan}

\* An admitted patch stores such an instance.
LEMMA PatchResult ==
    ASSUME IInv, NEW ov \in OperatorVersion, NEW trig \in Plan \cup {NoPlan},
           Patch(ov, trig)
    PROVE  \E r : UserWrite(r) /\ PatchedTo(r, trig)
<1>1. life = "live" /\ inst \in Instance
  BY DEF Patch, IInv, TypeOK
<1>2. PICK u \in UID : u = NewUUID /\ u \notin UsedUIDs
  BY NewUUIDIsFresh DEF Patch
<1>3. PICK new \in Requests(ov, u) :
        /\ UpdateAllowed(inst, new, trig)
        /\ UserWrite(HandleUpdate(inst, new, trig, u))
  BY <1>2 DEF Patch
<1>4. PICK pe \in {inst.pe, NoPlanExecution}
                 \cup {Execution(p, u, inst.pe.status) : p \in Plan} :
        new = [inst EXCEPT !.ov = ov, !.pe = pe]
  BY <1>3 DEF Requests, Execution
<1>5. inst.pe \in PlanExecution
  BY <1>1 DEF Instance
<1>6. inst.pe.status \in ExecutionStatus \cup {NoStatus}
  BY <1>5 DEF PlanExecution
<1>7. ASSUME NEW p \in Plan, NEW st \in ExecutionStatus \cup {NoStatus}
      PROVE  /\ Execution(p, u, st) \in PlanExecution
             /\ Execution(p, u, st).uid = u
             /\ Execution(p, u, st).status = st
  <2>1. Execution(p, u, st) \in PlanExecution
    BY ExecutionType
  <2>2. Execution(p, u, st).uid = u /\ Execution(p, u, st).status = st
    BY ExecutionFields
  <2> QED
    BY <2>1, <2>2
<1>8. NoPlanExecution.status = NoStatus /\ ~ IsTerminal(NoStatus)
  BY DEF NoPlanExecution, NoStatus, IsTerminal
<1>9. /\ pe \in PlanExecution
      /\ pe = inst.pe \/ pe = NoPlanExecution \/ pe.uid = u
      /\ IsTerminal(pe.status) => IsTerminal(inst.pe.status)
  BY <1>4, <1>5, <1>6, <1>7, <1>8, NoPlanExecutionType
<1>10. /\ new \in Instance /\ new.pe = pe
       /\ new.ps = inst.ps /\ new.ready = inst.ready
       /\ new.deleting = inst.deleting /\ new.fin = inst.fin
  BY <1>1, <1>4, <1>9 DEF Instance
<1> DEFINE r == HandleUpdate(inst, new, trig, u)
<1>11. /\ r = [new EXCEPT !.pe = r.pe]
       /\ \/ r.pe = pe
          \/ r.pe = NoPlanExecution
          \/ \E p \in Plan : r.pe = Execution(p, u, "NEVER_RUN")
  BY <1>1, <1>10, HandleUpdateResult
<1>12. ~ inst.deleting /\ inst.pe.plan # NoPlan => ~ IsTerminal(new.pe.status)
  BY <1>1, <1>9, <1>10 DEF IInv, StoredInv, FinishedLeaves
<1>13. /\ inst.pe.plan # NoPlan =>
            \/ r.pe.plan = inst.pe.plan
            \/ /\ inst.deleting /\ inst.pe.plan # CleanupPlan
               /\ r.pe.plan \in {NoPlan, CleanupPlan}
       /\ ~ inst.deleting /\ trig # CleanupPlan /\ inst.pe.plan # CleanupPlan
            => r.pe.plan # CleanupPlan
       /\ inst.deleting /\ r.pe.plan \notin {NoPlan, CleanupPlan}
            => IsMetadataUpdate(inst, new, trig)
  BY <1>1, <1>3, <1>10, <1>12, AdmittedPlan
<1>0. IsMetadataUpdate(inst, new, trig) => r.pe = inst.pe
  BY DEF HandleUpdate, IsMetadataUpdate
<1> HIDE DEF r
<1>14. /\ r.pe \in PlanExecution
       /\ r.pe = inst.pe \/ r.pe.plan = NoPlan \/ r.pe.uid = u
  <2>1. "NEVER_RUN" \in ExecutionStatus
    BY DEF ExecutionStatus
  <2> QED
    BY <1>7, <1>9, <1>11, <2>1, NoPlanExecutionType
<1>15. /\ r \in Instance /\ r.ps = inst.ps /\ r.ready = inst.ready
       /\ r.deleting = inst.deleting /\ r.fin = inst.fin
  BY <1>10, <1>11, <1>14 DEF Instance
<1>16. \A q \in Plan : inst.ps[q].uid # u
  BY <1>2 DEF UsedUIDs, UIDsOf
<1>17. PatchedTo(r, trig)
  BY <1>13, <1>14, <1>15, <1>16, <1>0 DEF PatchedTo
<1> QED
  BY <1>3, <1>17 DEF r

\* What the first write of the controller stores: the finalizer and the plan
\* execution of its copy.  In the normal phase a finished execution is reset.
LEMMA SpecResultFields ==
    ASSUME IInv, SpecAccepted
    PROVE  /\ Based
           /\ SpecResult.ps = inst.ps /\ SpecResult.ready = inst.ready
           /\ SpecResult.fin = mem.fin /\ SpecResult.deleting = inst.deleting
           /\ \/ SpecResult.pe = mem.pe
              \/ /\ SpecResult.pe = NoPlanExecution
                 /\ ~ inst.deleting /\ IsTerminal(mem.pe.status)
           /\ inst.deleting => mem.pe = inst.pe \/ mem.pe.plan \in {NoPlan, CleanupPlan}
<1> DEFINE r == HandleUpdate(inst, SpecRequest, NoPlan, NewUUID)
           d == Decision(inst, SpecRequest, NoPlan)
           k == [SpecRequest EXCEPT !.pe = NoPlanExecution]
<1>1. mem \in Instance /\ inst \in Instance
  BY DEF IInv, TypeOK
<1>2. Based
  BY DEF SpecAccepted, IInv, MemoryInv
<1>3. /\ SpecRequest \in Instance
      /\ SpecRequest.ov = inst.ov /\ SpecRequest.pe = mem.pe
      /\ SpecRequest.deleting = inst.deleting /\ SpecRequest.fin = mem.fin
  BY <1>1 DEF SpecRequest, Instance
<1>4. \/ r = SpecRequest
      \/ r = k /\ ~ inst.deleting /\ IsTerminal(mem.pe.status)
  <2>1. CASE IsMetadataUpdate(inst, SpecRequest, NoPlan)
    BY <2>1 DEF HandleUpdate
  <2>2. CASE ~ IsMetadataUpdate(inst, SpecRequest, NoPlan)
    <3>1. r = ApplyDecision(d, SpecRequest, NewUUID)
      BY <2>2 DEF HandleUpdate
    <3>2. \/ d = Keeps
          \/ d = Resets /\ ~ inst.deleting /\ IsTerminal(mem.pe.status)
      <4>1. /\ ~ IsUpgrade(inst, SpecRequest)
            /\ ~ IsNovelPlan(inst, SpecRequest) \/ inst.deleting
            /\ ~ IsPlanRetriggered(inst, SpecRequest) \/ inst.deleting
        BY <1>2, <1>3 DEF IsUpgrade, IsNovelPlan, IsPlanRetriggered, HadPlan, Based
      <4> QED
        BY <1>3, <4>1 DEF Decision
    <3> HIDE DEF d
    <3>3. ASSUME d = Keeps PROVE r = SpecRequest
      BY <3>1, <3>3 DEF ApplyDecision, Keeps, Keep, Trigger, Reset
    <3>4. ASSUME d = Resets PROVE r = k
      <4>1. d.do = Reset /\ Reset # Trigger
        BY <3>4 DEF Resets, Reset, Trigger
      <4> QED
        BY <3>1, <4>1 DEF ApplyDecision
    <3> QED
      BY <3>2, <3>3, <3>4
  <2> QED
    BY <2>1, <2>2
<1>5. SpecResult = [r EXCEPT !.ps = inst.ps, !.ready = inst.ready]
  BY DEF SpecResult
<1> HIDE DEF r, d
<1>6. /\ k \in Instance /\ k.pe = NoPlanExecution
      /\ k.fin = mem.fin /\ k.deleting = inst.deleting
  BY <1>3, NoPlanExecutionType DEF Instance
<1> HIDE DEF k
<1>7. inst.deleting => mem.pe = inst.pe \/ mem.pe.plan \in {NoPlan, CleanupPlan}
  BY <1>3 DEF SpecAccepted, UpdateAllowed, IsMetadataUpdate, Denied, DeniedWhileDeleting
<1> QED
  BY <1>2, <1>3, <1>4, <1>5, <1>6, <1>7 DEF Instance

(* ------------------------ what Reconcile prepares --------------------- *)

\* What Reconcile prepares leaves the finalizer, the other plans' statuses, and
\* for the plans that Ready is about makes it Unknown.
LEMMA PreparedFields ==
    ASSUME CanSchedule
    PROVE  /\ Prepared.fin = cache.fin
           /\ \A q \in Plan : q # ActivePlan =>
                 Prepared.ps[q] = EnsurePlanStatusInitialized(cache)[q]
           /\ ActivePlan \in ReadyPlans => Prepared.ready = "PlanInProgress"
<1> DEFINE ps == EnsurePlanStatusInitialized(cache)
           r  == EnsureReadinessInitialized(ActivePlan, cache.ready)
           j  == [cache EXCEPT !.pe = ScheduledPlan, !.ready = r, !.ps = ps]
           s  == [uid |-> j.pe.uid, status |-> "PENDING"]
<1>1. ScheduledPlan \in PlanExecution /\ ActivePlan \in Plan
  BY ScheduledPlanResult
<1>2. ps \in [Plan -> PlanStatus] /\ cache \in Instance
  BY EnsurePlanStatusInitializedType DEF CanSchedule
<1>3. r \in Readiness /\ (ActivePlan \in ReadyPlans => r = "PlanInProgress")
  BY <1>2 DEF EnsureReadinessInitialized, Readiness, Instance, ReadyPlans
<1>4. Prepared = ResetPlanStatusIfPlanIsNew(j)
  BY <1>2 DEF Prepared, Instance
<1>5. s.status = "PENDING"
  OBVIOUS
<1> HIDE DEF ps, r
<1>6. /\ j \in Instance /\ j.fin = cache.fin /\ j.ready = r
      /\ j.pe = ScheduledPlan /\ j.ps = ps
  BY <1>1, <1>2, <1>3 DEF Instance
<1>7. \/ Prepared = j
      \/ Prepared = UpdateInstanceStatus(j, ActivePlan, s)
  BY <1>4, <1>6 DEF ResetPlanStatusIfPlanIsNew, ResetPlanStatus, ActivePlan
<1> HIDE DEF j, s
<1>8. CASE Prepared = j
  BY <1>3, <1>6, <1>8 DEF ps
<1>9. CASE Prepared = UpdateInstanceStatus(j, ActivePlan, s)
  <2>1. ReadinessAfter(s.status, r) = r
    BY <1>5 DEF ReadinessAfter, IsFinished
  <2>2. /\ Prepared.fin = cache.fin
        /\ Prepared.ps = [ps EXCEPT ![ActivePlan] = s]
        /\ Prepared.ready = r
    BY <1>6, <1>9, <2>1 DEF UpdateInstanceStatus, Instance
  <2> QED
    BY <1>1, <1>2, <1>3, <2>2 DEF ps
<1> QED
  BY <1>7, <1>8, <1>9

\* Setting the status of the plan leaves the finalizer and the other plans, and
\* Ready as long as the plan runs.
LEMMA WithPlanStatusFields ==
    ASSUME NEW i \in Instance, i.pe.plan \in Plan, NEW st \in ExecutionStatus
    PROVE  LET w == WithPlanStatus(i, st)
           IN  /\ w.fin = i.fin
               /\ IsRunning(st) => w.ready = i.ready
<1> DEFINE s == [i.ps[i.pe.plan] EXCEPT !.status = st]
<1>1. s \in PlanStatus /\ s.status = st
  BY DEF Instance, PlanStatus
<1>2. WithPlanStatus(i, st) = UpdateInstanceStatus(i, i.pe.plan, s)
  BY DEF WithPlanStatus
<1> HIDE DEF s
<1>3. IsRunning(st) => ReadinessAfter(st, i.ready) = i.ready
  BY DEF IsRunning, ReadinessAfter, IsFinished
<1>4. /\ UpdateInstanceStatus(i, i.pe.plan, s).fin = i.fin
      /\ UpdateInstanceStatus(i, i.pe.plan, s).ready = ReadinessAfter(st, i.ready)
  BY <1>1 DEF UpdateInstanceStatus, Instance
<1> QED
  BY <1>2, <1>3, <1>4

\* An instance that Reconcile hands to updateInstance for a scheduled plan.
Handed(j) ==
    /\ PreparedFrom(j)
    /\ j.fin = cache.fin
    /\ \A q \in Plan : q # ActivePlan =>
          j.ps[q] = EnsurePlanStatusInitialized(cache)[q]
    /\ ShowsRunning(j.pe, j.ps, j.ready)
    /\ cacheFresh => EndSeen(j)

\* As prepared: a finished execution is not scheduled in the normal phase.
LEMMA PreparedHanded ==
    ASSUME IInv, PlanScheduled
    PROVE  Handed(Prepared)
<1>1. CanSchedule
  BY PlanScheduledCanSchedule DEF IInv
<1>2. PreparedFrom(Prepared)
  BY <1>1, PreparedResult
<1>3. cacheFresh => EndSeen(Prepared)
  <2> SUFFICES ASSUME cacheFresh, ~ cache.deleting PROVE ~ IsTerminal(Prepared.pe.status)
    BY <1>2 DEF EndSeen, PreparedFrom
  <2>1. cache = inst /\ life = "live"
    BY DEF IInv, CacheInv, PlanScheduled, Reconciling
  <2>2. ScheduledPlan = cache.pe
    BY <1>1, ScheduledPlanResult
  <2>3. ~ IsTerminal(ScheduledPlan.status)
    BY <1>1, <2>1, <2>2
    DEF IInv, StoredInv, FinishedLeaves, CanSchedule, ActivePlan
  <2>4. Prepared.pe = ScheduledPlan \/ Prepared.pe.status = "PENDING"
    BY <1>1, PreparedResult
  <2> QED
    BY <2>3, <2>4 DEF IsTerminal
<1> QED
  BY <1>1, <1>2, <1>3, PreparedFields DEF Handed, ShowsRunning, PreparedFrom

\* With the status of the plan set.
LEMMA WithPlanStatusHanded ==
    ASSUME IInv, PlanScheduled, NEW st \in ExecutionStatus
    PROVE  /\ Handed(WithPlanStatus(Prepared, st))
           /\ WithPlanStatus(Prepared, st).ps[ActivePlan].status = st
<1> DEFINE w == WithPlanStatus(Prepared, st)
<1>1. CanSchedule
  BY PlanScheduledCanSchedule DEF IInv
<1>2. ActivePlan \in Plan
  BY <1>1, ScheduledPlanResult
<1>3. Handed(Prepared) /\ PreparedFrom(Prepared)
  BY PreparedHanded DEF Handed
<1>4. Prepared \in Instance /\ Prepared.pe.plan = ActivePlan
  BY <1>3 DEF PreparedFrom
<1>5. /\ w \in Instance
      /\ w.ov = Prepared.ov /\ w.deleting = Prepared.deleting
      /\ w.pe = [Prepared.pe EXCEPT !.status = st]
      /\ w.ps = [Prepared.ps EXCEPT ![ActivePlan] = [@ EXCEPT !.status = st]]
  BY <1>2, <1>4, WithPlanStatusResult
<1>6. w.fin = Prepared.fin /\ (IsRunning(st) => w.ready = Prepared.ready)
  BY <1>2, <1>4, WithPlanStatusFields
<1> HIDE DEF w
<1> DEFINE s == Prepared.ps[ActivePlan]
<1>7. s \in PlanStatus /\ s.uid = ScheduledPlan.uid
  BY <1>2, <1>3, <1>4 DEF PreparedFrom, Instance
<1>8. /\ w.ps[ActivePlan] = [s EXCEPT !.status = st]
      /\ \A q \in Plan : q # ActivePlan => w.ps[q] = Prepared.ps[q]
  BY <1>2, <1>4, <1>5 DEF Instance
<1> HIDE DEF s
<1>9. w.ps[ActivePlan].uid = ScheduledPlan.uid /\ w.ps[ActivePlan].status = st
  BY <1>7, <1>8 DEF PlanStatus
<1>10. w.pe.plan = ActivePlan /\ w.pe.uid = ScheduledPlan.uid /\ w.pe.status = st
  BY <1>3, <1>4, <1>5 DEF PreparedFrom, Instance, PlanExecution
<1>11. PreparedFrom(w)
  BY <1>3, <1>5, <1>8, <1>9, <1>10 DEF PreparedFrom
<1>12. ShowsRunning(w.pe, w.ps, w.ready)
  BY <1>1, <1>6, <1>9, <1>10, PreparedFields DEF ShowsRunning
<1>13. EndSeen(w)
  BY <1>9, <1>10 DEF EndSeen
<1> QED
  BY <1>3, <1>6, <1>8, <1>9, <1>11, <1>12, <1>13 DEF Handed, w

(* --------------------------- kinds of steps --------------------------- *)

\* The server is not written, and the copy in memory is kept or forgotten.
Quiet == UNCHANGED server /\ (pc' = "idle" \/ UNCHANGED <<pc, mem, memFresh>>)

\* The controller is about to write j.
Prepares(j) ==
    /\ UNCHANGED server
    /\ up /\ cached /\ cache \in Instance
    /\ mem' = TryRemoveFinalizer(j) /\ memFresh' = cacheFresh
    /\ pc' = IF mem'.pe # cache.pe \/ mem'.fin # cache.fin THEN "spec" ELSE "status"

\* How the status of the scheduled plan may differ from the prepared one.
HandedStatus(j) ==
    LET st == j.ps[ActivePlan].status
    IN  \/ st = Prepared.ps[ActivePlan].status
        \/ /\ ~ IsTerminal(Prepared.ps[ActivePlan].status)
           /\ st \in {"IN_PROGRESS", "COMPLETE", "FATAL_ERROR"}
        \/ st = "FATAL_ERROR" /\ cache.ov \in MissingDependency

PreparesPlan(j) == PlanScheduled /\ Handed(j) /\ HandedStatus(j) /\ Prepares(j)

PreparesReadiness ==
    /\ cache.pe.plan = NoPlan
    /\ \E r \in Readiness : Prepares(SetReadiness(cache, r))

\* The spec write, with or without an answer, and the status write.
WritesSpec ==
    /\ SpecAccepted /\ Store(SpecResult)
    /\ \/ pc' = "idle"
       \/ pc' = "status" /\ UNCHANGED <<mem, memFresh>>

WritesStatus == StatusAccepted /\ Store(StatusResult) /\ pc' = "idle"

\* Reconcile runs with a well-formed Instance from the cache.
LEMMA UpdateInstancePrepares ==
    ASSUME IInv, Reconciling, NEW j, NEW again, NEW isFatal,
           UpdateInstance(j, again, isFatal)
    PROVE  Prepares(j)
BY DEF Prepares, UpdateInstance, Reconciling, IInv, TypeOK

\* The reconciliations of a scheduled plan: they hand over the prepared
\* instance, or that instance with a new status of the plan.
LEMMA ReconcileKinds ==
    ASSUME IInv, Reconcile
    PROVE  Quiet \/ (\E j : PreparesPlan(j)) \/ PreparesReadiness
<1> DEFINE w(st) == WithPlanStatus(Prepared, st)
<1>1. ASSUME PlanScheduled, NEW st \in {"IN_PROGRESS", "COMPLETE", "FATAL_ERROR"},
             NEW again, NEW isFatal, UpdateInstance(w(st), again, isFatal),
             \/ st = Prepared.ps[ActivePlan].status
             \/ ~ IsTerminal(Prepared.ps[ActivePlan].status)
             \/ st = "FATAL_ERROR" /\ cache.ov \in MissingDependency
      PROVE  PreparesPlan(w(st))
  <2>1. st \in ExecutionStatus
    BY DEF ExecutionStatus
  <2>2. Handed(w(st)) /\ w(st).ps[ActivePlan].status = st
    BY <1>1, <2>1, WithPlanStatusHanded
  <2>3. Prepares(w(st))
    BY <1>1, UpdateInstancePrepares DEF PlanScheduled
  <2> HIDE DEF w
  <2> QED
    BY <1>1, <2>2, <2>3 DEF PreparesPlan, HandedStatus
<1> HIDE DEF w
<1>2. CASE ReconcileNotFound
  BY <1>2 DEF ReconcileNotFound, Quiet, worker
<1>3. ASSUME NEW r \in {"ResourceNotReady", "ResourcesReady"}, ReconcileReadiness(r)
      PROVE  Quiet \/ PreparesReadiness
  <2>1. cache.pe.plan = NoPlan
    BY <1>3 DEF ReconcileReadiness, ActivePlan, ScheduledPlan, CleanupPlan, NoPlan
  <2>2. r \in Readiness
    BY DEF Readiness
  <2>3. CASE UNCHANGED worker
    BY <1>3, <2>3 DEF ReconcileReadiness, Reconciling, Quiet, worker
  <2>4. CASE UpdateInstance(SetReadiness(cache, r), FALSE, FALSE)
    <3>1. Prepares(SetReadiness(cache, r))
      BY <1>3, <2>4, UpdateInstancePrepares DEF ReconcileReadiness
    <3> QED
      BY <2>1, <2>2, <3>1 DEF PreparesReadiness
  <2> QED
    BY <1>3, <2>3, <2>4 DEF ReconcileReadiness
<1>4. CASE ReconcileUnresolved
  <2>1. PreparesPlan(w("FATAL_ERROR"))
    BY <1>1, <1>4 DEF ReconcileUnresolved, w
  <2> QED
    BY <2>1
<1>5. CASE ReconcileInvalidPlan
  <2>1. Prepares(Prepared)
    BY <1>5, UpdateInstancePrepares DEF ReconcileInvalidPlan, PlanScheduled
  <2>2. PreparesPlan(Prepared)
    BY <1>5, <2>1, PreparedHanded
    DEF ReconcileInvalidPlan, PreparesPlan, HandedStatus
  <2> QED
    BY <2>2
<1>6. ASSUME NEW st \in {"COMPLETE", "FATAL_ERROR"}, ReconcileTerminalPlan(st)
      PROVE  PreparesPlan(w(st))
  BY <1>1, <1>6 DEF ReconcileTerminalPlan, w
<1>7. ASSUME NEW st \in {"IN_PROGRESS", "COMPLETE", "FATAL_ERROR"}, ReconcilePlan(st)
      PROVE  PreparesPlan(w(st))
  BY <1>1, <1>7 DEF ReconcilePlan, w
<1> QED
  BY <1>2, <1>3, <1>4, <1>5, <1>6, <1>7 DEF Reconcile

\* Every step is of one of these kinds, or a write of a user.
LEMMA StepKinds ==
    ASSUME IInv, [Next]_vars
    PROVE  \/ User
           \/ Quiet
           \/ \E j : PreparesPlan(j)
           \/ PreparesReadiness
           \/ WritesSpec
           \/ WritesStatus
<1>1. CASE Watch \/ OtherEvent \/ Restart \/ UNCHANGED vars
  BY <1>1 DEF Watch, OtherEvent, Restart, Quiet, vars, server, worker
<1>2. CASE Reconcile
  BY <1>2, ReconcileKinds
<1>3. CASE UpdateSpec
  BY <1>3 DEF UpdateSpec, WritesSpec
<1>4. CASE SpecRefused \/ StatusRefused \/ WriteFails \/ Crash
  BY <1>4 DEF SpecRefused, StatusRefused, WriteFails, Crash, Return, ForgetInstance,
     Quiet, server
<1>5. CASE UpdateStatus
  <2>1. CASE Store(StatusResult)
    BY <1>5, <2>1 DEF UpdateStatus, WritesStatus, Return, ForgetInstance
  <2>2. CASE UNCHANGED <<server, cacheFresh>>
    BY <1>5, <2>2 DEF UpdateStatus, Quiet, Return, ForgetInstance
  <2> QED
    BY <1>5, <2>1, <2>2 DEF UpdateStatus
<1>6. CASE AnswerLost
  BY <1>6 DEF AnswerLost, WritesSpec, Return, ForgetInstance
<1> QED
  BY <1>1, <1>2, <1>3, <1>4, <1>5, <1>6 DEF Next, Write

\* The writes of users make the copy in memory stale, and store a patched
\* instance or change neither the plan execution nor the status.
LEMMA UserKinds ==
    ASSUME IInv, User
    PROVE  /\ memFresh' = FALSE
           /\ \/ \E ov \in OperatorVersion : Create(ov)
              \/ /\ life = "live"
                 /\ \E ov \in OperatorVersion, trig \in Plan \cup {NoPlan} :
                       /\ trig \in TriggersOf[ov] \cup {NoPlan}
                       /\ \E r : Store(r) /\ PatchedTo(r, trig)
              \/ /\ life = "live"
                 /\ \E r : /\ Store(r)
                           /\ r.pe = inst.pe /\ r.ps = inst.ps
                           /\ r.ready = inst.ready /\ r.fin = inst.fin
                           /\ r.deleting \in {inst.deleting, TRUE}
<1>1. ASSUME NEW ov \in OperatorVersion, Create(ov)
      PROVE  memFresh' = FALSE
  BY <1>1 DEF Create, UserWrite
<1>2. ASSUME NEW ov \in OperatorVersion, NEW trig \in Plan \cup {NoPlan}, Patch(ov, trig)
      PROVE  /\ memFresh' = FALSE /\ life = "live"
             /\ trig \in TriggersOf[ov] \cup {NoPlan}
             /\ \E r : Store(r) /\ PatchedTo(r, trig)
  <2>1. PICK r : UserWrite(r) /\ PatchedTo(r, trig)
    BY <1>2, PatchResult
  <2> QED
    BY <1>2, <2>1 DEF Patch, UserWrite
<1>3. CASE UpdateMetadata
  BY <1>3 DEF UpdateMetadata, UserWrite
<1>4. CASE Delete
  <2> DEFINE r == [inst EXCEPT !.deleting = TRUE]
  <2>1. /\ r.pe = inst.pe /\ r.ps = inst.ps /\ r.ready = inst.ready
        /\ r.fin = inst.fin /\ r.deleting = TRUE
    BY DEF IInv, TypeOK, Instance
  <2>2. life = "live" /\ UserWrite(r)
    BY <1>4 DEF Delete
  <2> HIDE DEF r
  <2> QED
    BY <2>1, <2>2 DEF UserWrite
<1> QED
  BY <1>1, <1>2, <1>3, <1>4 DEF User

\* Creating the Instance schedules the deploy plan with a new UID.
LEMMA CreateResult ==
    ASSUME IInv, NEW ov \in OperatorVersion, Create(ov)
    PROVE  /\ life = "none"
           /\ \E r : /\ Store(r)
                     /\ r.pe.plan = DeployPlan /\ r.pe.uid # NoUID
                     /\ r.ps = NoInstance.ps /\ r.deleting = FALSE
<1>1. PICK u \in UID : u = NewUUID
  BY NewUUIDIsFresh DEF Create
<1> DEFINE i == [NoInstance EXCEPT !.ov = ov]
           h == HandleCreate(i, u)
<1>2. UserWrite(h) /\ life = "none"
  BY <1>1 DEF Create
<1>3. i \in Instance /\ i.ps = NoInstance.ps /\ i.pe.status = NoStatus /\ i.deleting = FALSE
  BY NoInstanceType DEF Instance, NoInstance, NoPlanExecution
<1> HIDE DEF i
<1>4. /\ h.ps = NoInstance.ps
      /\ h.pe = Execution(DeployPlan, u, NoStatus)
  BY <1>1, <1>3, HandleCreateResult
<1>5. h.deleting = FALSE
  <2>1. TryAddFinalizer(i) \in Instance /\ TryAddFinalizer(i).deleting = FALSE
    BY <1>3 DEF TryAddFinalizer, Instance, CleanupNeverRun
  <2> QED
    BY <1>3, <2>1 DEF HandleCreate, Instance
<1> HIDE DEF h
<1>6. h.pe.plan = DeployPlan /\ h.pe.uid = u
  BY <1>4, ExecutionFields
<1>7. u # NoUID
  BY UIDAssumption
<1> QED
  BY <1>2, <1>4, <1>5, <1>6, <1>7 DEF UserWrite

(* ------------------- the Ready condition and the end ------------------ *)

\* The empty status shows no plan running.
LEMMA NothingShown ==
    \A p \in Plan : NoInstance.ps[p].uid = NoUID /\ NoInstance.ps[p].status = Absent
BY DEF NoInstance

\* What updateInstance is about to write has the facts of what was handed over.
LEMMA PreparedCopy ==
    ASSUME IInv, NEW j \in Instance, Prepares(j)
    PROVE  /\ mem'.pe = j.pe /\ mem'.ps = j.ps /\ mem'.ready = j.ready
           /\ mem'.deleting = j.deleting /\ mem'.ov = j.ov
           /\ mem'.fin = (/\ j.fin
                          /\ j.ps[CleanupPlan].status # Absent
                          /\ ~ IsFinished(j.ps[CleanupPlan].status))
           /\ pc' \in {"spec", "status"}
           /\ life' = life /\ inst' = inst
           /\ memFresh' => cache = inst /\ life = "live"
           /\ pc' = "status" => mem'.pe = cache.pe /\ mem'.fin = cache.fin
<1>1. mem' = TryRemoveFinalizer(j) /\ UNCHANGED server /\ memFresh' = cacheFresh
  BY DEF Prepares
<1>2. cacheFresh => cache = inst /\ life = "live"
  BY DEF IInv, CacheInv, Prepares
<1>3. (/\ j.fin
       /\ j.ps[CleanupPlan].status # Absent
       /\ ~ IsFinished(j.ps[CleanupPlan].status)) \in BOOLEAN
  BY DEF IsFinished, Instance
<1>4. /\ mem'.pe = j.pe /\ mem'.ps = j.ps /\ mem'.ready = j.ready
      /\ mem'.deleting = j.deleting /\ mem'.ov = j.ov
      /\ mem'.fin = (/\ j.fin
                     /\ j.ps[CleanupPlan].status # Absent
                     /\ ~ IsFinished(j.ps[CleanupPlan].status))
  BY <1>1, <1>3 DEF TryRemoveFinalizer, Instance
<1>5. /\ pc' \in {"spec", "status"}
      /\ pc' = "status" => mem'.pe = cache.pe /\ mem'.fin = cache.fin
  BY DEF Prepares
<1> QED
  BY <1>1, <1>2, <1>4, <1>5 DEF server

\* Every step preserves the invariant about Ready.
LEMMA NextReadyInv == ReadyInv /\ [Next]_vars => ReadyInv'
<1> SUFFICES ASSUME ReadyInv, [Next]_vars PROVE ReadyInv'
  OBVIOUS
<1>1. IInv /\ IInv' /\ StoredReady /\ MemoryReady
  BY NextIInv DEF ReadyInv
<1>2. SUFFICES StoredReady' /\ MemoryReady'
  BY <1>1 DEF ReadyInv
<1>3. NoPlan \notin ReadyPlans /\ CleanupPlan \notin ReadyPlans
  BY DEF NoPlan, CleanupPlan, ReadyPlans, DeployPlan, UpgradePlan, UpdatePlan
<1>4. CASE User
  <2>1. MemoryReady'
    BY <1>1, <1>4, UserKinds DEF MemoryReady
  <2>2. ASSUME NEW ov \in OperatorVersion, Create(ov) PROVE StoredReady'
    <3>1. PICK r : /\ Store(r)
                   /\ r.pe.plan = DeployPlan /\ r.pe.uid # NoUID
                   /\ r.ps = NoInstance.ps
      BY <1>1, <2>2, CreateResult
    <3>2. inst' = r /\ DeployPlan \in Plan
      BY <3>1, PlanAssumption DEF Store
    <3>3. r.ps[r.pe.plan].uid = NoUID
      BY <3>1, <3>2, NothingShown
    <3> QED
      BY <3>1, <3>2, <3>3 DEF StoredReady, ShowsRunning
  <2>3. ASSUME NEW trig, NEW r, life = "live", Store(r), PatchedTo(r, trig)
        PROVE  StoredReady'
    <3>1. inst' = r /\ r.pe \in PlanExecution
      BY <2>3 DEF Store, PatchedTo, Instance
    <3>2. r.pe.plan # NoPlan => r.pe.plan \in Plan
      BY <3>1 DEF PlanExecution
    <3> QED
      BY <1>1, <1>3, <2>3, <3>1, <3>2 DEF StoredReady, ShowsRunning, PatchedTo
  <2>4. ASSUME NEW r, life = "live", Store(r),
               r.pe = inst.pe /\ r.ps = inst.ps /\ r.ready = inst.ready
        PROVE  StoredReady'
    BY <1>1, <2>4 DEF StoredReady, Store
  <2> QED
    BY <1>1, <1>4, <2>1, <2>2, <2>3, <2>4, UserKinds
<1>5. CASE Quiet
  BY <1>1, <1>5 DEF Quiet, server, StoredReady, MemoryReady
<1>6. ASSUME NEW j, PreparesPlan(j) PROVE StoredReady' /\ MemoryReady'
  <2>1. j \in Instance /\ Handed(j) /\ Prepares(j)
    BY <1>6 DEF PreparesPlan, Handed, PreparedFrom
  <2>2. /\ mem'.pe = j.pe /\ mem'.ps = j.ps /\ mem'.ready = j.ready
        /\ mem'.deleting = j.deleting
        /\ life' = life /\ inst' = inst
        /\ memFresh' => cache = inst
        /\ pc' = "status" => mem'.pe = cache.pe
    BY <1>1, <2>1, PreparedCopy
  <2>3. ShowsRunning(mem'.pe, mem'.ps, mem'.ready)
    BY <2>1, <2>2 DEF Handed
  <2>4. memFresh' => EndSeen(mem')
    BY <2>1, <2>2 DEF Handed, EndSeen, Prepares
  <2> QED
    BY <1>1, <2>2, <2>3, <2>4 DEF StoredReady, MemoryReady
<1>7. CASE PreparesReadiness
  <2>1. PICK r \in Readiness : Prepares(SetReadiness(cache, r))
    BY <1>7 DEF PreparesReadiness
  <2> DEFINE j == SetReadiness(cache, r)
  <2>2. j \in Instance /\ j.pe = cache.pe /\ cache.pe.plan = NoPlan
    BY <1>7, <2>1 DEF PreparesReadiness, Prepares, SetReadiness, Instance
  <2> HIDE DEF j
  <2>3. /\ mem'.pe = cache.pe
        /\ life' = life /\ inst' = inst /\ (memFresh' => cache = inst)
    BY <1>1, <2>1, <2>2, PreparedCopy DEF j
  <2> QED
    BY <1>1, <1>3, <2>2, <2>3 DEF StoredReady, MemoryReady, ShowsRunning, EndSeen
<1>8. CASE WritesSpec
  <2>1. SpecAccepted /\ Store(SpecResult)
    BY <1>8 DEF WritesSpec
  <2>2. /\ Based
        /\ SpecResult.ps = inst.ps /\ SpecResult.ready = inst.ready
        /\ SpecResult.pe = mem.pe \/ SpecResult.pe = NoPlanExecution
    BY <1>1, <2>1, SpecResultFields
  <2>3. inst' = SpecResult
    BY <2>1 DEF Store
  <2>4. StoredReady'
    BY <1>1, <1>3, <2>1, <2>2, <2>3, NoPlanExecutionType
    DEF StoredReady, ShowsRunning, Based, SpecAccepted
  <2>5. MemoryReady'
    BY <1>1, <1>3, <1>8, <2>1, <2>2, <2>3, NoPlanExecutionType
    DEF WritesSpec, MemoryReady, ShowsRunning, SpecAccepted
  <2> QED
    BY <2>4, <2>5
<1>9. CASE WritesStatus
  <2>1. /\ StatusResult.pe = inst.pe
        /\ StatusResult.ps = mem.ps /\ StatusResult.ready = mem.ready
    BY <1>1 DEF StatusResult, IInv, TypeOK, Instance
  <2> QED
    BY <1>1, <1>9, <2>1
    DEF WritesStatus, StatusAccepted, Store, StoredReady, MemoryReady
<1> QED
  BY <1>1, <1>4, <1>5, <1>6, <1>7, <1>8, <1>9, StepKinds

\* The invariant about Ready holds before the Instance is created.
LEMMA InitReadyInv == Init => ReadyInv
<1> SUFFICES ASSUME Init PROVE ReadyInv
  OBVIOUS
<1> QED
  BY InitIInv DEF Init, ReadyInv, StoredReady, MemoryReady

\* Ready is Unknown while the status shows the scheduled deploy, upgrade or
\* update plan as running, whatever is written in between.
THEOREM ReadyUnknown == Spec => []UnknownWhileRunning
<1>1. ReadyInv => UnknownWhileRunning
  BY DEF ReadyInv, StoredReady, ShowsRunning, ReadyPlans, UnknownWhileRunning
<1> QED
  BY <1>1, InitReadyInv, NextReadyInv, PTL DEF Spec

\* No step replaces a scheduled plan that is allowed only to be started anew.
LEMMA StepKeepsPlan ==
    ASSUME ReadyInv, [Next]_vars,
           life = "live", inst.pe.plan # NoPlan, inst'.pe.uid # inst.pe.uid
    PROVE  \/ inst'.pe.plan = inst.pe.plan
           \/ inst'.pe.plan = NoPlan /\ FinishedByController
           \/ /\ inst.deleting /\ inst.pe.plan # CleanupPlan
              /\ inst'.pe.plan \in {NoPlan, CleanupPlan}
<1>1. IInv /\ MemoryReady
  BY DEF ReadyInv
<1>2. CASE User
  <2>1. ~ \E ov \in OperatorVersion : Create(ov)
    BY <1>1, CreateResult
  <2>2. PICK trig, r : Store(r) /\ (PatchedTo(r, trig) \/ r.pe = inst.pe)
    BY <1>1, <1>2, <2>1, UserKinds
  <2>3. inst' = r
    BY <2>2 DEF Store
  <2> QED
    BY <2>2, <2>3 DEF PatchedTo
<1>3. inst' # inst
  OBVIOUS
<1>4. CASE WritesSpec
  <2>1. SpecAccepted /\ inst' = SpecResult /\ memFresh /\ pc = "spec"
    BY <1>4 DEF WritesSpec, Store, SpecAccepted
  <2>2. /\ Based
        /\ \/ SpecResult.pe = mem.pe
           \/ /\ SpecResult.pe = NoPlanExecution
              /\ ~ inst.deleting /\ IsTerminal(mem.pe.status)
    BY <1>1, <2>1, SpecResultFields
  <2>3. CASE SpecResult.pe = mem.pe
    BY <2>1, <2>2, <2>3 DEF Based
  <2>4. CASE /\ SpecResult.pe = NoPlanExecution
             /\ ~ inst.deleting /\ IsTerminal(mem.pe.status)
    <3>1. EndSeen(mem)
      BY <1>1, <2>1 DEF MemoryReady
    <3>2. FinishedByController
      BY <2>1, <2>2, <2>4, <3>1 DEF EndSeen, Based, FinishedByController
    <3> QED
      BY <2>1, <2>4, <3>2, NoPlanExecutionType
  <2> QED
    BY <2>2, <2>3, <2>4
<1>5. CASE WritesStatus
  <2>1. StatusResult.pe = inst.pe
    BY <1>1 DEF StatusResult, IInv, TypeOK, Instance
  <2> QED
    BY <1>5, <2>1 DEF WritesStatus, Store
<1> QED
  BY <1>1, <1>2, <1>3, <1>4, <1>5, StepKinds
  DEF Quiet, PreparesPlan, PreparesReadiness, Prepares, server

\* A scheduled plan stays until the controller finished this very execution, is
\* started anew, or gives way to the cleanup of an instance that is deleted.
THEOREM PlanNotOverridden == Spec => NoPlanOverride
<1>1. ReadyInv /\ [Next]_vars =>
        [ /\ life = "live" /\ inst.pe.plan # NoPlan
          /\ inst'.pe.uid # inst.pe.uid
          => \/ inst'.pe.plan = inst.pe.plan
             \/ inst'.pe.plan = NoPlan /\ FinishedByController
             \/ /\ inst.deleting /\ inst.pe.plan # CleanupPlan
                /\ inst'.pe.plan \in {NoPlan, CleanupPlan} ]_vars
  BY StepKeepsPlan
<1> QED
  BY <1>1, InitReadyInv, NextReadyInv, PTL DEF Spec, NoPlanOverride

(* --------------------------- the plan statuses ------------------------ *)

\* Giving a status to plans without one starts none of them.
LEMMA EnsuredStatus ==
    ASSUME NEW q \in Plan
    PROVE  LET s == EnsurePlanStatusInitialized(cache)[q]
           IN  \/ s = cache.ps[q]
               \/ s.uid = NoUID /\ s.status = "NEVER_RUN" /\ cache.ps[q].status = Absent
BY DEF EnsurePlanStatusInitialized

\* A plan that completed and is still scheduled would be the cleanup plan of an
\* instance that is gone: no missing dependency makes it fail afterwards.
LEMMA CompletedIsGone ==
    ASSUME StatusesInv, PlanScheduled, cacheFresh,
           cache.ps[ActivePlan].uid = ScheduledPlan.uid
    PROVE  cache.ps[ActivePlan].status # "COMPLETE"
<1> SUFFICES ASSUME cache.ps[ActivePlan].status = "COMPLETE" PROVE FALSE
  OBVIOUS
<1>1. /\ IInv /\ StoredStatuses /\ cache = inst /\ life = "live"
  BY DEF StatusesInv, IInv, CacheInv, PlanScheduled, Reconciling
<1>2. CanSchedule /\ ActivePlan \in Plan /\ ActivePlan # NoPlan
  BY <1>1, PlanScheduledCanSchedule, ScheduledPlanResult DEF IInv, CanSchedule
<1>3. ScheduledPlan = inst.pe
  BY <1>1, <1>2, ScheduledPlanResult DEF UsedUIDs, UIDsOf
<1>4. IsTerminal(inst.pe.status) /\ inst.deleting
  BY <1>1, <1>2, <1>3
  DEF IInv, StoredInv, StatusFollows, FinishedLeaves, ActivePlan, IsTerminal
<1>5. inst.pe.plan = CleanupPlan
  BY <1>1, <1>2, <1>3, <1>4 DEF StoredStatuses, ActivePlan
<1> QED
  BY <1>1, <1>3, <1>4, <1>5 DEF StoredStatuses, ActivePlan

\* What Reconcile hands over for the scheduled plan, by its status st and by the
\* status old of the prepared instance.
StatusHandedOver(j, s, old, st) ==
    /\ j.ps[ActivePlan].uid = ScheduledPlan.uid
    /\ \/ s = cache.ps[ActivePlan]
       \/ s.uid = NoUID /\ cache.ps[ActivePlan].status = Absent
    /\ IF s.uid = ScheduledPlan.uid THEN old = s.status ELSE old = "PENDING"
    /\ \/ st = old
       \/ ~ IsTerminal(old) /\ st \in {"IN_PROGRESS", "COMPLETE", "FATAL_ERROR"}
       \/ st = "FATAL_ERROR" /\ cache.ov \in MissingDependency

\* Reconcile hands over such a status of the scheduled plan; the other plans
\* keep theirs, or get one without a UID.
LEMMA StatusHandedOverResult ==
    ASSUME IInv, NEW j, PreparesPlan(j)
    PROVE  /\ ActivePlan \in Plan
           /\ StatusHandedOver(j, EnsurePlanStatusInitialized(cache)[ActivePlan],
                               Prepared.ps[ActivePlan].status, j.ps[ActivePlan].status)
           /\ \A q \in Plan : q # ActivePlan =>
                 j.ps[q] = cache.ps[q] \/ j.ps[q].uid = NoUID
<1>1. PlanScheduled /\ Handed(j) /\ HandedStatus(j)
  BY DEF PreparesPlan
<1>2. CanSchedule /\ ActivePlan \in Plan
  BY <1>1, PlanScheduledCanSchedule, ScheduledPlanResult DEF IInv
<1> DEFINE s == EnsurePlanStatusInitialized(cache)[ActivePlan]
           st == j.ps[ActivePlan].status
           old == Prepared.ps[ActivePlan].status
<1>3. IF s.uid = ScheduledPlan.uid THEN old = s.status ELSE old = "PENDING"
  BY <1>2, PreparedResult
<1>4. j.ps[ActivePlan].uid = ScheduledPlan.uid
  BY <1>1 DEF Handed, PreparedFrom
<1>5. \/ s = cache.ps[ActivePlan]
      \/ s.uid = NoUID /\ cache.ps[ActivePlan].status = Absent
  BY <1>2, EnsuredStatus
<1>6. \/ st = old
      \/ ~ IsTerminal(old) /\ st \in {"IN_PROGRESS", "COMPLETE", "FATAL_ERROR"}
      \/ st = "FATAL_ERROR" /\ cache.ov \in MissingDependency
  BY <1>1 DEF HandedStatus
<1>7. ASSUME NEW q \in Plan, q # ActivePlan
      PROVE  j.ps[q] = cache.ps[q] \/ j.ps[q].uid = NoUID
  <2>1. j.ps[q] = EnsurePlanStatusInitialized(cache)[q]
    BY <1>1, <1>7 DEF Handed
  <2> QED
    BY <2>1, EnsuredStatus
<1> HIDE DEF s, st, old
<1>8. StatusHandedOver(j, s, old, st)
  BY <1>3, <1>4, <1>5, <1>6 DEF StatusHandedOver
<1> QED
  BY <1>2, <1>7, <1>8 DEF s, st, old

\* A status that is handed over with a UID is that of a plan that was started.
LEMMA HandedStarted ==
    ASSUME StatusesInv, cacheFresh, NEW j, PreparesPlan(j)
    PROVE  Started(j.ps)
<1>1. Started(cache.ps) /\ IInv
  BY DEF StatusesInv, IInv, CacheInv, StoredStatuses, PreparesPlan, Prepares
<1> SUFFICES ASSUME NEW q \in Plan, j.ps[q].uid # NoUID
             PROVE  j.ps[q].status \in {"PENDING", "IN_PROGRESS", "COMPLETE", "FATAL_ERROR"}
  BY DEF Started
<1>2. CASE q = ActivePlan
  <2> DEFINE s == EnsurePlanStatusInitialized(cache)[ActivePlan]
             st == j.ps[ActivePlan].status
             old == Prepared.ps[ActivePlan].status
  <2>1. StatusHandedOver(j, s, old, st)
    BY <1>1, StatusHandedOverResult
  <2> HIDE DEF s, old
  <2> QED
    BY <1>1, <1>2, <2>1 DEF StatusHandedOver, Started
<1>3. CASE q # ActivePlan
  <2>1. j.ps[q] = cache.ps[q]
    BY <1>1, <1>3, StatusHandedOverResult
  <2> QED
    BY <1>1, <2>1 DEF Started
<1> QED
  BY <1>2, <1>3

\* The statuses that Reconcile hands over follow the diagram.
LEMMA HandedMoves ==
    ASSUME StatusesInv, cacheFresh, NEW j, PreparesPlan(j)
    PROVE  Moves(cache.ps, j.ps)
<1>1. Started(cache.ps) /\ IInv /\ PlanScheduled
  BY DEF StatusesInv, IInv, CacheInv, StoredStatuses, PreparesPlan, Prepares
<1> SUFFICES ASSUME NEW q \in Plan, cache.ps[q].uid # NoUID, j.ps[q].uid = cache.ps[q].uid
             PROVE  j.ps[q].status \in Transitions(cache.ps[q].status)
  BY DEF Moves
<1>2. cache.ps[q].status \in {"PENDING", "IN_PROGRESS", "COMPLETE", "FATAL_ERROR"}
  BY <1>1 DEF Started
<1>3. CASE q # ActivePlan
  <2>1. j.ps[q] = cache.ps[q]
    BY <1>1, <1>3, StatusHandedOverResult
  <2> QED
    BY <1>2, <2>1 DEF Transitions
<1>4. CASE q = ActivePlan
  <2> DEFINE s == EnsurePlanStatusInitialized(cache)[ActivePlan]
             st == j.ps[ActivePlan].status
             old == Prepared.ps[ActivePlan].status
  <2>1. StatusHandedOver(j, s, old, st)
    BY <1>1, StatusHandedOverResult
  <2> HIDE DEF s, old, st
  <2>2. s = cache.ps[q] /\ s.uid = ScheduledPlan.uid
    BY <1>2, <1>4, <2>1 DEF StatusHandedOver, Absent
  <2>3. old = cache.ps[q].status
    BY <2>1, <2>2 DEF StatusHandedOver
  <2>4. cache.ps[q].status # "COMPLETE"
    BY <1>1, <1>4, <2>2, CompletedIsGone
  <2>5. \/ st = old
        \/ ~ IsTerminal(old) /\ st \in {"IN_PROGRESS", "COMPLETE", "FATAL_ERROR"}
        \/ st = "FATAL_ERROR" /\ cache.ov \in MissingDependency
    BY <2>1 DEF StatusHandedOver
  <2> QED
    BY <1>2, <1>4, <2>3, <2>4, <2>5 DEF Transitions, IsTerminal, st
<1> QED
  BY <1>3, <1>4

\* Every step preserves the invariant about the plan statuses.
LEMMA NextStatusesInv == StatusesInv /\ [Next]_vars => StatusesInv'
<1> SUFFICES ASSUME StatusesInv, [Next]_vars PROVE StatusesInv'
  OBVIOUS
<1>1. IInv /\ IInv' /\ StoredStatuses /\ MemoryStatuses
  BY NextIInv DEF StatusesInv
<1>2. SUFFICES StoredStatuses' /\ MemoryStatuses'
  BY <1>1 DEF StatusesInv
<1>3. ASSUME NEW r, Store(r) PROVE inst' = r /\ (life' = "live" /\ r.deleting => r.fin)
  BY <1>3 DEF Store
<1>4. CleanupPlan \in Plan
  BY PlanAssumption
<1>5. CASE User
  <2>1. MemoryStatuses'
    BY <1>1, <1>5, UserKinds DEF MemoryStatuses
  <2>2. ASSUME NEW ov \in OperatorVersion, Create(ov) PROVE StoredStatuses'
    <3>1. PICK r : Store(r) /\ r.ps = NoInstance.ps /\ r.deleting = FALSE
      BY <1>1, <2>2, CreateResult
    <3>2. Started(r.ps) /\ r.ps[CleanupPlan].status # "COMPLETE"
      BY <1>4, <3>1, NothingShown DEF Started, Absent
    <3> QED
      BY <1>3, <3>1, <3>2 DEF StoredStatuses
  <2>3. ASSUME NEW trig, NEW r, life = "live", Store(r), PatchedTo(r, trig)
        PROVE  StoredStatuses'
    <3>1. inst' = r /\ (life' = "live" /\ r.deleting => r.fin)
      BY <1>3, <2>3
    <3> QED
      BY <1>1, <2>3, <3>1 DEF StoredStatuses, PatchedTo
  <2>4. ASSUME NEW r, life = "live", Store(r),
               r.pe = inst.pe, r.ps = inst.ps, r.fin = inst.fin,
               r.deleting \in {inst.deleting, TRUE}
        PROVE  StoredStatuses'
    <3>1. inst' = r /\ (life' = "live" /\ r.deleting => r.fin)
      BY <1>3, <2>4
    <3>2. ~ inst.deleting /\ inst.pe.plan # NoPlan => ~ IsTerminal(inst.pe.status)
      BY <1>1, <2>4 DEF IInv, StoredInv, FinishedLeaves
    <3> QED
      BY <1>1, <2>4, <3>1, <3>2 DEF StoredStatuses
  <2> QED
    BY <1>1, <1>5, <2>1, <2>2, <2>3, <2>4, UserKinds
<1>6. CASE Quiet
  BY <1>1, <1>6 DEF Quiet, server, StoredStatuses, MemoryStatuses
<1>7. ASSUME NEW j, PreparesPlan(j) PROVE StoredStatuses' /\ MemoryStatuses'
  <2>1. j \in Instance /\ Prepares(j) /\ j.fin = cache.fin /\ memFresh' = cacheFresh
    BY <1>7 DEF PreparesPlan, Handed, PreparedFrom, Prepares
  <2>2. /\ mem'.ps = j.ps
        /\ mem'.fin = (/\ j.fin
                       /\ j.ps[CleanupPlan].status # Absent
                       /\ ~ IsFinished(j.ps[CleanupPlan].status))
        /\ life' = life /\ inst' = inst
        /\ memFresh' => cache = inst
        /\ pc' = "status" => mem'.fin = cache.fin
    BY <1>1, <2>1, PreparedCopy
  <2>3. memFresh' => Started(mem'.ps) /\ Moves(inst'.ps, mem'.ps)
    BY <1>7, <2>1, <2>2, HandedStarted, HandedMoves
  <2> QED
    BY <1>1, <2>1, <2>2, <2>3 DEF StoredStatuses, MemoryStatuses, IsFinished
<1>8. CASE PreparesReadiness
  <2>1. PICK r \in Readiness : Prepares(SetReadiness(cache, r))
    BY <1>8 DEF PreparesReadiness
  <2> DEFINE j == SetReadiness(cache, r)
  <2>2. j \in Instance /\ j.ps = cache.ps /\ j.fin = cache.fin
    BY <2>1 DEF Prepares, SetReadiness, Instance
  <2> HIDE DEF j
  <2>3. /\ mem'.ps = cache.ps
        /\ mem'.fin = (/\ cache.fin
                       /\ cache.ps[CleanupPlan].status # Absent
                       /\ ~ IsFinished(cache.ps[CleanupPlan].status))
        /\ life' = life /\ inst' = inst
        /\ memFresh' => cache = inst
        /\ pc' = "status" => mem'.fin = cache.fin
    BY <1>1, <2>1, <2>2, PreparedCopy DEF j
  <2>4. Moves(cache.ps, mem'.ps)
    BY <2>3 DEF Moves, Transitions
  <2> QED
    BY <1>1, <2>3, <2>4 DEF StoredStatuses, MemoryStatuses, IsFinished
<1>9. CASE WritesSpec
  <2>1. SpecAccepted /\ Store(SpecResult) /\ life = "live" /\ memFresh /\ pc = "spec"
    BY <1>9 DEF WritesSpec, SpecAccepted
  <2>2. /\ SpecResult.ps = inst.ps
        /\ SpecResult.fin = mem.fin /\ SpecResult.deleting = inst.deleting
        /\ \/ SpecResult.pe = mem.pe
           \/ SpecResult.pe = NoPlanExecution /\ ~ inst.deleting
        /\ inst.deleting => mem.pe = inst.pe \/ mem.pe.plan \in {NoPlan, CleanupPlan}
    BY <1>1, <2>1, SpecResultFields
  <2>3. inst' = SpecResult /\ (life' = "live" /\ inst'.deleting => inst'.fin)
    BY <1>3, <2>1
  <2>4. StoredStatuses'
    BY <1>1, <2>1, <2>2, <2>3 DEF StoredStatuses, MemoryStatuses
  <2>5. MemoryStatuses'
    BY <1>1, <1>9, <2>1, <2>2, <2>3 DEF WritesSpec, MemoryStatuses
  <2> QED
    BY <2>4, <2>5
<1>10. CASE WritesStatus
  <2>1. /\ StatusResult.pe = inst.pe /\ StatusResult.ps = mem.ps
        /\ StatusResult.fin = inst.fin /\ StatusResult.deleting = inst.deleting
    BY <1>1 DEF StatusResult, IInv, TypeOK, Instance
  <2>2. /\ inst' = StatusResult /\ (life' = "live" /\ inst'.deleting => inst'.fin)
        /\ life = "live" /\ memFresh /\ pc = "status" /\ pc' = "idle"
    BY <1>3, <1>10 DEF WritesStatus, StatusAccepted
  <2> QED
    BY <1>1, <2>1, <2>2 DEF StoredStatuses, MemoryStatuses
<1> QED
  BY <1>1, <1>5, <1>6, <1>7, <1>8, <1>9, <1>10, StepKinds

\* The invariant about the plan statuses holds before the Instance is created.
LEMMA InitStatusesInv == Init => StatusesInv
<1> SUFFICES ASSUME Init PROVE StatusesInv
  OBVIOUS
<1> QED
  BY InitIInv DEF Init, StatusesInv, StoredStatuses, MemoryStatuses

\* Only the status write changes the status of an execution, along the diagram.
LEMMA StepFollowsDiagram ==
    ASSUME StatusesInv, [Next]_vars, NEW p \in Plan,
           inst.ps[p].uid # NoUID, inst'.ps[p].uid = inst.ps[p].uid
    PROVE  inst'.ps[p].status \in Transitions(inst.ps[p].status)
<1>1. IInv /\ MemoryStatuses
  BY DEF StatusesInv
<1>2. ASSUME inst'.ps = inst.ps PROVE inst'.ps[p].status \in Transitions(inst.ps[p].status)
  BY <1>2 DEF Transitions
<1>3. CASE User
  <2>1. ASSUME NEW ov \in OperatorVersion, Create(ov) PROVE FALSE
    <3>1. PICK r : Store(r) /\ r.ps = NoInstance.ps
      BY <1>1, <2>1, CreateResult
    <3> QED
      BY <3>1, NothingShown DEF Store
  <2>2. \E r : Store(r) /\ r.ps = inst.ps
    BY <1>1, <1>3, <2>1, UserKinds DEF PatchedTo
  <2> QED
    BY <1>2, <2>2 DEF Store
<1>4. CASE WritesSpec
  <2>1. SpecResult.ps = inst.ps
    BY <1>1, <1>4, SpecResultFields DEF WritesSpec
  <2> QED
    BY <1>2, <1>4, <2>1 DEF WritesSpec, Store
<1>5. CASE WritesStatus
  <2>1. inst'.ps = mem.ps
    BY <1>1, <1>5 DEF WritesStatus, Store, StatusResult, IInv, TypeOK, Instance
  <2>2. Moves(inst.ps, mem.ps)
    BY <1>1, <1>5 DEF WritesStatus, StatusAccepted, MemoryStatuses
  <2> QED
    BY <2>1, <2>2 DEF Moves
<1> QED
  BY <1>1, <1>2, <1>3, <1>4, <1>5, StepKinds
  DEF Quiet, PreparesPlan, PreparesReadiness, Prepares, server

\* The status of an execution follows the diagram at PlanStatus: what completed
\* stays complete, whatever copies the controller worked on.
THEOREM DiagramFollowed == Spec => PlanStatusDiagram
<1>1. StatusesInv /\ [Next]_vars =>
        [ \A p \in Plan :
            /\ inst.ps[p].uid # NoUID
            /\ inst'.ps[p].uid = inst.ps[p].uid
            => inst'.ps[p].status \in Transitions(inst.ps[p].status) ]_vars
  BY StepFollowsDiagram
<1> QED
  BY <1>1, InitStatusesInv, NextStatusesInv, PTL DEF Spec, PlanStatusDiagram

(* ---------------------------- the cleanup plan ------------------------ *)

\* What is handed over runs the cleanup plan only if that is scheduled, and
\* drops the finalizer only for its completion.
LEMMA HandedCleanup ==
    ASSUME CleanupInv, cacheFresh, NEW j, PreparesPlan(j)
    PROVE  /\ CleanupNeverRun(j) \/ j.pe.plan = CleanupPlan
           /\ inst.fin /\ inst.ps[CleanupPlan].status # Absent
                /\ j.ps[CleanupPlan].status \in {Absent, "COMPLETE"}
              => /\ j.pe.plan = CleanupPlan
                 /\ j.ps[CleanupPlan] = [uid |-> j.pe.uid, status |-> "COMPLETE"]
<1>1. /\ StatusesInv /\ IInv /\ StoredStatuses /\ StoredCleanup
      /\ cache = inst /\ life = "live"
      /\ PlanScheduled /\ Handed(j) /\ HandedStatus(j)
  BY DEF CleanupInv, StatusesInv, IInv, CacheInv, PreparesPlan, Prepares
<1>2. CanSchedule /\ ActivePlan \in Plan /\ ActivePlan # NoPlan
  BY <1>1, PlanScheduledCanSchedule, ScheduledPlanResult DEF IInv, CanSchedule
<1>3. CleanupPlan \in Plan
  BY PlanAssumption
<1>4. /\ j \in Instance /\ j.pe.plan = ActivePlan
      /\ j.ps[ActivePlan].uid = j.pe.uid
  BY <1>1 DEF Handed, PreparedFrom
<1>5. CASE ActivePlan # CleanupPlan
  <2>1. cache.pe.plan # CleanupPlan
    BY <1>5 DEF ActivePlan, ScheduledPlan
  <2>2. CleanupNeverRun(cache)
    BY <1>1, <2>1 DEF StoredCleanup
  <2>3. j.ps[CleanupPlan] = EnsurePlanStatusInitialized(cache)[CleanupPlan]
    BY <1>1, <1>3, <1>5 DEF Handed
  <2>4. \/ j.ps[CleanupPlan] = cache.ps[CleanupPlan]
        \/ j.ps[CleanupPlan].status = "NEVER_RUN"
    BY <1>3, <2>3, EnsuredStatus
  <2>5. CleanupNeverRun(j)
    BY <2>2, <2>4 DEF CleanupNeverRun
  <2>6. inst.fin => inst.ps[CleanupPlan].status # "COMPLETE"
    BY <1>1 DEF StoredStatuses
  <2> QED
    BY <1>1, <2>4, <2>5, <2>6 DEF Absent
<1>6. CASE ActivePlan = CleanupPlan
  <2>1. j.pe.plan = CleanupPlan /\ j.ps[CleanupPlan].uid = j.pe.uid
    BY <1>4, <1>6
  <2>2. j.pe.uid # NoUID
    <3>1. ScheduledPlan.uid \in UID
      <4>1. ScheduledPlan = inst.pe => ScheduledPlan.uid \in UID
        BY <1>1, <1>2 DEF IInv, StoredInv, UidsMatch, ActivePlan
      <4> QED
        BY <1>1, <1>2, <4>1, ScheduledPlanResult
    <3>2. j.pe.uid = ScheduledPlan.uid
      BY <1>1 DEF Handed, PreparedFrom
    <3> QED
      BY <3>1, <3>2, UIDAssumption
  <2>3. j.ps[CleanupPlan].status # Absent
    BY <1>1, <1>3, <2>1, <2>2, HandedStarted DEF Started, Absent
  <2>4. j.ps[CleanupPlan] \in PlanStatus
    BY <1>3, <1>4 DEF Instance
  <2>5. j.ps[CleanupPlan]
          = [uid |-> j.ps[CleanupPlan].uid, status |-> j.ps[CleanupPlan].status]
    BY <2>4 DEF PlanStatus
  <2> QED
    BY <2>1, <2>3, <2>5
<1> QED
  BY <1>5, <1>6

\* Every step preserves the invariant about the cleanup plan.
LEMMA NextCleanupInv ==
    ASSUME CleanupNotTriggered, CleanupInv, [Next]_vars
    PROVE  CleanupInv'
<1>1. /\ StatusesInv /\ IInv /\ StoredStatuses /\ MemoryStatuses
      /\ StatusesInv' /\ StoredCleanup /\ MemoryCleanup
  BY NextStatusesInv DEF CleanupInv, StatusesInv
<1>2. SUFFICES StoredCleanup' /\ MemoryCleanup'
  BY <1>1 DEF CleanupInv
<1>3. NoPlan # CleanupPlan /\ DeployPlan # CleanupPlan /\ CleanupPlan \in Plan
  BY PlanAssumption DEF NoPlan, CleanupPlan, DeployPlan
<1>4. CASE User
  <2>1. MemoryCleanup'
    BY <1>1, <1>4, UserKinds DEF MemoryCleanup
  <2>2. ASSUME NEW ov \in OperatorVersion, Create(ov) PROVE StoredCleanup'
    <3>1. PICK r : Store(r) /\ r.pe.plan = DeployPlan /\ r.ps = NoInstance.ps
      BY <1>1, <2>2, CreateResult
    <3>2. inst' = r
      BY <3>1 DEF Store
    <3>3. CleanupNeverRun(r)
      BY <1>3, <3>1, NothingShown DEF CleanupNeverRun
    <3> QED
      BY <1>3, <3>1, <3>2, <3>3 DEF StoredCleanup
  <2>3. ASSUME NEW ov \in OperatorVersion, NEW trig, NEW r, life = "live", Store(r),
               trig \in TriggersOf[ov] \cup {NoPlan}, PatchedTo(r, trig)
        PROVE  StoredCleanup'
    <3>1. trig # CleanupPlan
      BY <1>3, <2>3 DEF CleanupNotTriggered
    <3>2. inst' = r
      BY <2>3 DEF Store
    <3>3. /\ r.ps = inst.ps /\ r.deleting = inst.deleting
          /\ inst.pe.plan = CleanupPlan => r.pe.plan = CleanupPlan
          /\ ~ inst.deleting /\ inst.pe.plan # CleanupPlan => r.pe.plan # CleanupPlan
      BY <1>3, <2>3, <3>1 DEF PatchedTo
    <3> QED
      BY <1>1, <2>3, <3>2, <3>3 DEF StoredCleanup, CleanupNeverRun
  <2>4. ASSUME NEW r, life = "live", Store(r),
               r.pe = inst.pe, r.ps = inst.ps, r.deleting \in {inst.deleting, TRUE}
        PROVE  StoredCleanup'
    BY <1>1, <2>4 DEF Store, StoredCleanup, CleanupNeverRun
  <2> QED
    BY <1>1, <1>4, <2>1, <2>2, <2>3, <2>4, UserKinds
<1>5. CASE Quiet
  BY <1>1, <1>5 DEF Quiet, server, StoredCleanup, MemoryCleanup, DropsFinalizer,
     CleanupNeverRun
<1>6. ASSUME NEW j, PreparesPlan(j) PROVE StoredCleanup' /\ MemoryCleanup'
  <2>1. j \in Instance /\ Prepares(j) /\ j.fin = cache.fin /\ memFresh' = cacheFresh
    BY <1>6 DEF PreparesPlan, Handed, PreparedFrom, Prepares
  <2>2. /\ mem'.pe = j.pe /\ mem'.ps = j.ps
        /\ mem'.fin = (/\ j.fin
                       /\ j.ps[CleanupPlan].status # Absent
                       /\ ~ IsFinished(j.ps[CleanupPlan].status))
        /\ life' = life /\ inst' = inst
        /\ memFresh' => cache = inst
        /\ pc' = "status" => mem'.pe = cache.pe
    BY <1>1, <2>1, PreparedCopy
  <2>3. StoredCleanup'
    BY <1>1, <2>2 DEF StoredCleanup, CleanupNeverRun
  <2>4. SUFFICES ASSUME cacheFresh, cache = inst PROVE MemoryCleanup'
    BY <2>1, <2>2, <2>3 DEF MemoryCleanup
  <2>5. /\ CleanupNeverRun(j) \/ j.pe.plan = CleanupPlan
        /\ inst.fin /\ inst.ps[CleanupPlan].status # Absent
             /\ j.ps[CleanupPlan].status \in {Absent, "COMPLETE"}
           => /\ j.pe.plan = CleanupPlan
              /\ j.ps[CleanupPlan] = [uid |-> j.pe.uid, status |-> "COMPLETE"]
    BY <1>6, <2>4, HandedCleanup
  <2>6. CleanupNeverRun(mem') \/ mem'.pe.plan = CleanupPlan
    BY <2>2, <2>5 DEF CleanupNeverRun
  <2>7. DropsFinalizer'
    BY <2>1, <2>2, <2>4, <2>5 DEF DropsFinalizer, IsFinished
  <2> QED
    BY <2>2, <2>4, <2>6, <2>7 DEF MemoryCleanup
<1>7. CASE PreparesReadiness
  <2>1. PICK r \in Readiness : Prepares(SetReadiness(cache, r))
    BY <1>7 DEF PreparesReadiness
  <2> DEFINE j == SetReadiness(cache, r)
  <2>2. /\ j \in Instance /\ j.ps = cache.ps /\ j.fin = cache.fin
        /\ cache.pe.plan = NoPlan
    BY <1>7, <2>1 DEF PreparesReadiness, Prepares, SetReadiness, Instance
  <2> HIDE DEF j
  <2>3. /\ mem'.ps = cache.ps
        /\ mem'.fin = (/\ cache.fin
                       /\ cache.ps[CleanupPlan].status # Absent
                       /\ ~ IsFinished(cache.ps[CleanupPlan].status))
        /\ life' = life /\ inst' = inst
        /\ memFresh' => cache = inst
    BY <1>1, <2>1, <2>2, PreparedCopy DEF j
  <2>4. StoredCleanup'
    BY <1>1, <2>3 DEF StoredCleanup, CleanupNeverRun
  <2>5. SUFFICES ASSUME cache = inst, life = "live" PROVE MemoryCleanup'
    BY <2>3, <2>4 DEF MemoryCleanup
  <2>6. CleanupNeverRun(mem') /\ (inst.fin => inst.ps[CleanupPlan].status # "COMPLETE")
    BY <1>1, <1>3, <2>2, <2>3, <2>5 DEF StoredStatuses, StoredCleanup, CleanupNeverRun
  <2> QED
    BY <2>3, <2>5, <2>6 DEF MemoryCleanup, DropsFinalizer, IsFinished
<1>8. CASE WritesSpec
  <2>1. SpecAccepted /\ Store(SpecResult) /\ life = "live" /\ memFresh /\ pc = "spec"
    BY <1>8 DEF WritesSpec, SpecAccepted
  <2>2. /\ Based
        /\ SpecResult.ps = inst.ps /\ SpecResult.deleting = inst.deleting
        /\ \/ SpecResult.pe = mem.pe
           \/ SpecResult.pe = NoPlanExecution /\ ~ inst.deleting
    BY <1>1, <2>1, SpecResultFields
  <2>3. inst' = SpecResult
    BY <2>1 DEF Store
  <2>4. mem.pe.plan = CleanupPlan => inst.deleting
    BY <1>1, <2>1, <2>2 DEF Based, StoredCleanup
  <2>5. inst.pe.plan = CleanupPlan => inst'.pe.plan = CleanupPlan
    BY <1>1, <2>1, <2>2, <2>3 DEF Based, StoredCleanup
  <2>6. inst'.pe.plan = CleanupPlan => inst'.deleting
    BY <1>3, <2>2, <2>3, <2>4, NoPlanExecutionType
  <2>7. StoredCleanup'
    BY <1>1, <2>1, <2>2, <2>3, <2>5, <2>6 DEF StoredCleanup, CleanupNeverRun
  <2>8. mem.pe.plan = CleanupPlan => inst'.pe.plan = CleanupPlan
    BY <2>2, <2>3, <2>4
  <2>9. MemoryCleanup'
    BY <1>1, <1>8, <2>1, <2>8 DEF WritesSpec, MemoryCleanup, CleanupNeverRun
  <2> QED
    BY <2>7, <2>9
<1>9. CASE WritesStatus
  <2>1. /\ StatusResult.pe = inst.pe /\ StatusResult.ps = mem.ps
        /\ StatusResult.deleting = inst.deleting
    BY <1>1 DEF StatusResult, IInv, TypeOK, Instance
  <2>2. inst' = StatusResult /\ life = "live" /\ memFresh /\ pc = "status" /\ pc' = "idle"
    BY <1>9 DEF WritesStatus, StatusAccepted, Store
  <2> QED
    BY <1>1, <2>1, <2>2 DEF StoredCleanup, MemoryCleanup, CleanupNeverRun
<1> QED
  BY <1>1, <1>4, <1>5, <1>6, <1>7, <1>8, <1>9, StepKinds

\* The invariant about the cleanup plan holds before the Instance is created.
LEMMA InitCleanupInv == Init => CleanupInv
<1> SUFFICES ASSUME Init PROVE CleanupInv
  OBVIOUS
<1> QED
  BY InitStatusesInv DEF Init, CleanupInv, StoredCleanup, MemoryCleanup

\* Only the spec write of the controller takes the finalizer, and its copy says
\* that the cleanup plan completed.
LEMMA StepKeepsFinalizer ==
    ASSUME CleanupInv, [Next]_vars, life = "live", inst.fin, ~ inst'.fin,
           inst.ps[CleanupPlan].status # Absent
    PROVE  CleanupCompleted
<1>1. IInv /\ StoredCleanup /\ MemoryCleanup
  BY DEF CleanupInv, StatusesInv
<1>2. CASE User
  <2>1. ~ \E ov \in OperatorVersion : Create(ov)
    BY <1>1, CreateResult
  <2>2. \E r : Store(r) /\ r.fin = inst.fin
    BY <1>1, <1>2, <2>1, UserKinds DEF PatchedTo
  <2> QED
    BY <2>2 DEF Store
<1>3. CASE WritesSpec
  <2>1. Based /\ ~ mem.fin
    BY <1>1, <1>3, SpecResultFields DEF WritesSpec, Store
  <2>2. DropsFinalizer
    BY <1>1, <1>3 DEF WritesSpec, SpecAccepted, MemoryCleanup
  <2>3. mem.pe.plan = CleanupPlan => inst.deleting
    BY <1>1, <2>1 DEF Based, StoredCleanup
  <2> QED
    BY <2>1, <2>2, <2>3 DEF DropsFinalizer, CleanupCompleted
<1>4. CASE WritesStatus
  <2>1. StatusResult.fin = inst.fin
    BY <1>1 DEF StatusResult, IInv, TypeOK, Instance
  <2> QED
    BY <1>4, <2>1 DEF WritesStatus, Store
<1> QED
  BY <1>1, <1>2, <1>3, <1>4, StepKinds
  DEF Quiet, PreparesPlan, PreparesReadiness, Prepares, server

\* The finalizer of an instance whose status has an entry for the cleanup plan
\* is only given up after this plan completed, in the uninstall phase.
THEOREM CleanupPrecedesRemoval ==
    ASSUME CleanupNotTriggered
    PROVE  Spec => CleanupBeforeRemoval
<1>1. CleanupInv /\ [Next]_vars => CleanupInv'
  BY NextCleanupInv
<1>2. CleanupInv /\ [Next]_vars =>
        [ /\ life = "live" /\ inst.fin /\ ~ inst'.fin
          /\ inst.ps[CleanupPlan].status # Absent
          => CleanupCompleted ]_vars
  BY StepKeepsFinalizer
<1> QED
  BY <1>1, <1>2, InitCleanupInv, PTL DEF Spec, CleanupBeforeRemoval
=============================================================================
