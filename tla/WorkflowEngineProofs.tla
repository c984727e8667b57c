------------------------ MODULE WorkflowEngineProofs ------------------------
(***************************************************************************)
(* Proofs about WorkflowEngine, for all plans whose names occur once: what *)
(* a status tells on its levels, what a pass keeps of the one before, and  *)
(* that workflow.Execute implements PlanOrder.                             *)
(***************************************************************************)
EXTENDS WorkflowEngine, TLAPS

(* ------------------------- plans and their statuses ------------------- *)

PhaseName == UNION {NamesOf(p.phases) : p \in PlanSpecs}
StepName == UNION {UNION {NamesOf(p.phases[i].steps) : i \in DOMAIN p.phases} : p \in PlanSpecs}

ExecutionStatus ==
    {"NEVER_RUN", "PENDING", "IN_PROGRESS", "ERROR", "COMPLETE", "FATAL_ERROR"}

StepStatuses  == [name : StepName, status : ExecutionStatus]
PhaseStatuses == [name : PhaseName, status : ExecutionStatus, steps : Seq(StepStatuses)]
PlanStatuses  == [uid : Nat, status : ExecutionStatus, phases : Seq(PhaseStatuses)]

Phases(p) == 1 .. Len(p.phases)
Steps(p, i) == 1 .. Len(p.phases[i].steps)
Tasks(p, i, j) == 1 .. Len(p.phases[i].steps[j].tasks)

\* The condition of the theorems: names occur once among the phases of a plan,
\* the steps of a phase and the tasks of a step, and plans are not edited.
NamesOnce ==
    \A p \in PlanSpecs :
        /\ \A i, k \in Phases(p) : p.phases[i].name = p.phases[k].name => i = k
        /\ \A i \in Phases(p) :
              /\ \A j, k \in Steps(p, i) :
                    p.phases[i].steps[j].name = p.phases[i].steps[k].name => j = k
              /\ \A j \in Steps(p, i) : \A k, l \in Tasks(p, i, j) :
                    p.phases[i].steps[j].tasks[k] = p.phases[i].steps[j].tasks[l] => k = l

Regular == NamesOnce /\ MaxEdits = 0

\* A plan status in the form of the plan.
Shaped(s, p) ==
    /\ s \in PlanStatuses
    /\ Len(s.phases) = Len(p.phases)
    /\ \A i \in Phases(p) :
          /\ s.phases[i].name = p.phases[i].name
          /\ Len(s.phases[i].steps) = Len(p.phases[i].steps)
          /\ \A j \in Steps(p, i) :
                s.phases[i].steps[j].name = p.phases[i].steps[j].name

\* The statuses of a phase and of a step.
OfPhase(s, i) == s.phases[i].status
OfStep(s, i, j) == s.phases[i].steps[j].status

\* The status of the plan, of a phase and of a step is set.
WithPlan(s, st) == [s EXCEPT !.status = st]
WithPhase(s, i, st) == [s EXCEPT !.phases[i].status = st]
WithStep(s, i, j, st) == [s EXCEPT !.phases[i].steps[j].status = st]

\* Lists have lengths.
LEMMA PlanLengths ==
    ASSUME NEW p \in PlanSpecs
    PROVE  /\ Len(p.phases) \in Nat
           /\ DOMAIN p.phases = Phases(p)
           /\ \A i \in Phases(p) :
                 /\ Len(p.phases[i].steps) \in Nat
                 /\ DOMAIN p.phases[i].steps = Steps(p, i)
                 /\ \A j \in Steps(p, i) :
                       /\ Len(p.phases[i].steps[j].tasks) \in Nat
                       /\ DOMAIN p.phases[i].steps[j].tasks = Tasks(p, i, j)
<1>1. /\ Len(p.phases) \in Nat
      /\ DOMAIN p.phases = Phases(p)
  BY PlansAreLists DEF Phases
<1>2. ASSUME NEW i \in Phases(p)
      PROVE  /\ Len(p.phases[i].steps) \in Nat
             /\ DOMAIN p.phases[i].steps = Steps(p, i)
  BY <1>1, PlansAreLists DEF Steps
<1>3. ASSUME NEW i \in Phases(p), NEW j \in Steps(p, i)
      PROVE  /\ Len(p.phases[i].steps[j].tasks) \in Nat
             /\ DOMAIN p.phases[i].steps[j].tasks = Tasks(p, i, j)
  BY <1>1, <1>2, PlansAreLists DEF Tasks
<1> QED
  BY <1>1, <1>2, <1>3

\* The names of a plan.
LEMMA PlanNames ==
    ASSUME NEW p \in PlanSpecs, NEW i \in Phases(p)
    PROVE  /\ p.phases[i].name \in PhaseName
           /\ \A j \in Steps(p, i) : p.phases[i].steps[j].name \in StepName
           /\ NamesOf(p.phases[i].steps) \subseteq StepName
<1>1. DOMAIN p.phases = Phases(p)
  BY PlanLengths
<1>2. p.phases[i].name \in NamesOf(p.phases)
  BY DEF NamesOf, Phases
<1>3. p.phases[i].name \in PhaseName
  BY <1>2 DEF PhaseName
<1>4. NamesOf(p.phases[i].steps) \subseteq StepName
  BY <1>1 DEF StepName
<1>5. \A j \in Steps(p, i) : p.phases[i].steps[j].name \in NamesOf(p.phases[i].steps)
  BY DEF NamesOf, Steps
<1> QED
  BY <1>3, <1>4, <1>5

\* The position of a name that occurs once.
LEMMA IndexOfName ==
    ASSUME NEW seq, Len(seq) \in Nat, NEW k \in 1 .. Len(seq),
           \A l \in 1 .. Len(seq) : seq[l].name = seq[k].name => l = k
    PROVE  IndexOf(seq[k].name, seq) = k
<1> DEFINE I == {l \in 1 .. Len(seq) : seq[l].name = seq[k].name}
<1>1. I = {k}
  OBVIOUS
<1>2. IndexOf(seq[k].name, seq) = IF I # {} THEN Min(I) ELSE 0
  BY DEF IndexOf, SelectInSeq
<1> HIDE DEF I
<1>3. Min({k}) = k
  BY DEF Min
<1> QED
  BY <1>1, <1>2, <1>3

\* A name of the plan is found where it stands.
LEMMA Indices ==
    ASSUME NamesOnce, NEW p \in PlanSpecs, NEW s, Shaped(s, p), NEW i \in Phases(p)
    PROVE  /\ IndexOf(p.phases[i].name, s.phases) = i
           /\ \A j \in Steps(p, i) :
                 IndexOf(p.phases[i].steps[j].name, s.phases[i].steps) = j
<1>1. Len(p.phases) \in Nat /\ Len(p.phases[i].steps) \in Nat
  BY PlanLengths
<1>2. IndexOf(p.phases[i].name, s.phases) = i
  <2>1. /\ Len(s.phases) \in Nat
        /\ i \in 1 .. Len(s.phases)
        /\ s.phases[i].name = p.phases[i].name
        /\ \A l \in 1 .. Len(s.phases) : s.phases[l].name = s.phases[i].name => l = i
    BY <1>1 DEF Shaped, Phases, NamesOnce
  <2> QED
    BY <2>1, IndexOfName
<1>3. ASSUME NEW j \in Steps(p, i)
      PROVE  IndexOf(p.phases[i].steps[j].name, s.phases[i].steps) = j
  <2> DEFINE q == s.phases[i].steps
  <2>1. /\ Len(q) \in Nat
        /\ j \in 1 .. Len(q)
        /\ q[j].name = p.phases[i].steps[j].name
        /\ \A l \in 1 .. Len(q) : q[l].name = q[j].name => l = j
    BY <1>1 DEF Shaped, Steps, NamesOnce
  <2> HIDE DEF q
  <2>2. IndexOf(q[j].name, q) = j
    BY <2>1, IndexOfName
  <2> QED
    BY <2>1, <2>2 DEF q
<1> QED
  BY <1>2, <1>3

\* The phases and steps of a status.
LEMMA ShapedParts ==
    ASSUME NEW p \in PlanSpecs, NEW s, Shaped(s, p)
    PROVE  /\ s.uid \in Nat /\ s.status \in ExecutionStatus
           /\ DOMAIN s.phases = Phases(p)
           /\ \A i \in Phases(p) :
                 /\ s.phases[i] \in PhaseStatuses
                 /\ OfPhase(s, i) \in ExecutionStatus
                 /\ DOMAIN s.phases[i].steps = Steps(p, i)
                 /\ \A j \in Steps(p, i) :
                       /\ s.phases[i].steps[j] \in StepStatuses
                       /\ OfStep(s, i, j) \in ExecutionStatus
<1>1. s \in PlanStatuses /\ s.phases \in Seq(PhaseStatuses)
  BY DEF Shaped, PlanStatuses
<1>2. DOMAIN s.phases = Phases(p)
  BY <1>1 DEF Shaped, Phases
<1>3. ASSUME NEW i \in Phases(p)
      PROVE  /\ s.phases[i] \in PhaseStatuses
             /\ s.phases[i].steps \in Seq(StepStatuses)
             /\ OfPhase(s, i) \in ExecutionStatus
             /\ DOMAIN s.phases[i].steps = Steps(p, i)
  <2>1. s.phases[i] \in PhaseStatuses
    BY <1>1, <1>2
  <2>2. s.phases[i].steps \in Seq(StepStatuses) /\ s.phases[i].status \in ExecutionStatus
    BY <2>1 DEF PhaseStatuses
  <2> QED
    BY <2>1, <2>2 DEF Shaped, Steps, OfPhase
<1>4. ASSUME NEW i \in Phases(p), NEW j \in Steps(p, i)
      PROVE  /\ s.phases[i].steps[j] \in StepStatuses
             /\ OfStep(s, i, j) \in ExecutionStatus
  <2>1. s.phases[i].steps[j] \in StepStatuses
    BY <1>3
  <2> QED
    BY <2>1 DEF StepStatuses, OfStep
<1> QED
  BY <1>1, <1>2, <1>3, <1>4 DEF PlanStatuses

\* The status of a phase is set.
LEMMA SetPhase ==
    ASSUME NEW p \in PlanSpecs, NEW s, Shaped(s, p), NEW i \in Phases(p),
           NEW st \in ExecutionStatus, NEW t,
           t = WithPhase(s, i, st)
    PROVE  /\ Shaped(t, p)
           /\ t.uid = s.uid /\ t.status = s.status
           /\ OfPhase(t, i) = st
           /\ \A k \in Phases(p) : k # i => OfPhase(t, k) = OfPhase(s, k)
           /\ \A k \in Phases(p) : \A j \in Steps(p, k) : OfStep(t, k, j) = OfStep(s, k, j)
<1> DEFINE ph == [s.phases[i] EXCEPT !.status = st]
           phs == [s.phases EXCEPT ![i] = ph]
<1>1. /\ s \in PlanStatuses /\ s.phases \in Seq(PhaseStatuses)
      /\ DOMAIN s.phases = Phases(p)
      /\ s.phases[i] \in PhaseStatuses
  BY ShapedParts DEF Shaped, PlanStatuses
<1>2. /\ ph \in PhaseStatuses
      /\ ph.name = s.phases[i].name /\ ph.steps = s.phases[i].steps /\ ph.status = st
  BY <1>1 DEF PhaseStatuses
<1>3. t = [s EXCEPT !.phases = phs]
  BY DEF WithPhase
<1> HIDE DEF ph
<1>4. /\ phs \in Seq(PhaseStatuses) /\ Len(phs) = Len(s.phases)
      /\ phs[i] = ph
      /\ \A k \in Phases(p) : k # i => phs[k] = s.phases[k]
  BY <1>1, <1>2
<1> HIDE DEF phs
<1>5. t \in PlanStatuses /\ t.phases = phs /\ t.uid = s.uid /\ t.status = s.status
  BY <1>1, <1>3, <1>4 DEF PlanStatuses
<1>6. \A k \in Phases(p) : /\ phs[k].name = s.phases[k].name
                           /\ phs[k].steps = s.phases[k].steps
  BY <1>2, <1>4
<1>7. Shaped(t, p)
  BY <1>4, <1>5, <1>6 DEF Shaped
<1> QED
  BY <1>2, <1>4, <1>5, <1>6, <1>7 DEF OfPhase, OfStep

\* The status of a step is set.
LEMMA SetStep ==
    ASSUME NEW p \in PlanSpecs, NEW s, Shaped(s, p), NEW i \in Phases(p),
           NEW j \in Steps(p, i), NEW st \in ExecutionStatus, NEW t,
           t = WithStep(s, i, j, st)
    PROVE  /\ Shaped(t, p)
           /\ t.uid = s.uid /\ t.status = s.status
           /\ \A k \in Phases(p) : OfPhase(t, k) = OfPhase(s, k)
           /\ OfStep(t, i, j) = st
           /\ \A k \in Phases(p) : \A l \in Steps(p, k) :
                 k # i \/ l # j => OfStep(t, k, l) = OfStep(s, k, l)
<1> DEFINE sp == [s.phases[i].steps[j] EXCEPT !.status = st]
           sps == [s.phases[i].steps EXCEPT ![j] = sp]
           ph == [s.phases[i] EXCEPT !.steps = sps]
           phs == [s.phases EXCEPT ![i] = ph]
<1>1. /\ s \in PlanStatuses /\ s.phases \in Seq(PhaseStatuses)
      /\ DOMAIN s.phases = Phases(p)
      /\ s.phases[i] \in PhaseStatuses
      /\ DOMAIN s.phases[i].steps = Steps(p, i)
      /\ s.phases[i].steps[j] \in StepStatuses
  BY ShapedParts DEF Shaped, PlanStatuses
<1>2. /\ s.phases[i].steps \in Seq(StepStatuses)
      /\ sp \in StepStatuses /\ sp.name = s.phases[i].steps[j].name /\ sp.status = st
  BY <1>1 DEF PhaseStatuses, StepStatuses
<1>3. t = [s EXCEPT !.phases = phs]
  BY DEF WithStep
<1> HIDE DEF sp
<1>4. /\ sps \in Seq(StepStatuses) /\ Len(sps) = Len(s.phases[i].steps)
      /\ sps[j] = sp
      /\ \A l \in Steps(p, i) : l # j => sps[l] = s.phases[i].steps[l]
  BY <1>1, <1>2
<1> HIDE DEF sps
<1>5. /\ ph \in PhaseStatuses
      /\ ph.name = s.phases[i].name /\ ph.status = s.phases[i].status /\ ph.steps = sps
  BY <1>1, <1>4 DEF PhaseStatuses
<1> HIDE DEF ph
<1>6. /\ phs \in Seq(PhaseStatuses) /\ Len(phs) = Len(s.phases)
      /\ phs[i] = ph
      /\ \A k \in Phases(p) : k # i => phs[k] = s.phases[k]
  BY <1>1, <1>5
<1> HIDE DEF phs
<1>7. t \in PlanStatuses /\ t.phases = phs /\ t.uid = s.uid /\ t.status = s.status
  BY <1>1, <1>3, <1>6 DEF PlanStatuses
<1>8. \A k \in Phases(p) :
        /\ phs[k].name = s.phases[k].name
        /\ phs[k].status = s.phases[k].status
        /\ Len(phs[k].steps) = Len(s.phases[k].steps)
  BY <1>4, <1>5, <1>6
<1>9. \A k \in Phases(p) : \A l \in Steps(p, k) :
        /\ phs[k].steps[l].name = s.phases[k].steps[l].name
        /\ k # i \/ l # j => phs[k].steps[l] = s.phases[k].steps[l]
  BY <1>2, <1>4, <1>5, <1>6
<1>10. Shaped(t, p)
  BY <1>6, <1>7, <1>8, <1>9 DEF Shaped
<1>11. \A k \in Phases(p) : OfPhase(t, k) = OfPhase(s, k)
  BY <1>7, <1>8 DEF OfPhase
<1>12. OfStep(t, i, j) = st
  BY <1>2, <1>4, <1>5, <1>6, <1>7 DEF OfStep
<1>13. \A k \in Phases(p) : \A l \in Steps(p, k) :
         k # i \/ l # j => OfStep(t, k, l) = OfStep(s, k, l)
  BY <1>7, <1>9 DEF OfStep
<1> QED
  BY <1>7, <1>10, <1>11, <1>12, <1>13

\* The status of the plan is set.
LEMMA SetPlan ==
    ASSUME NEW p \in PlanSpecs, NEW s, Shaped(s, p), NEW st \in ExecutionStatus, NEW t,
           t = WithPlan(s, st)
    PROVE  /\ Shaped(t, p)
           /\ t.uid = s.uid /\ t.status = st /\ t.phases = s.phases
<1>1. s \in PlanStatuses
  BY DEF Shaped
<1>2. /\ t \in PlanStatuses
      /\ t.uid = s.uid /\ t.status = st /\ t.phases = s.phases
  BY <1>1 DEF PlanStatuses, WithPlan
<1> QED
  BY <1>2 DEF Shaped

\* A status that has the form of the plan is rebuilt as it is.
LEMMA EnsureShaped ==
    ASSUME NamesOnce, NEW p \in PlanSpecs, NEW s, Shaped(s, p)
    PROVE  EnsurePlanStatusInitialized(s, p) = s
<1> DEFINE old(i) == PhaseStatus(s.phases, p.phases[i].name)
           sts(i) == [j \in 1 .. Len(p.phases[i].steps) |->
                         StepStatus(old(i).steps, p.phases[i].steps[j].name)]
           phs == [i \in 1 .. Len(p.phases) |-> [old(i) EXCEPT !.steps = sts(i)]]
<1>1. /\ s \in PlanStatuses
      /\ s.phases = [i \in Phases(p) |-> s.phases[i]]
      /\ \A i \in Phases(p) :
            /\ s.phases[i] \in PhaseStatuses
            /\ s.phases[i].steps = [j \in Steps(p, i) |-> s.phases[i].steps[j]]
  <2>1. s \in PlanStatuses /\ s.phases \in Seq(PhaseStatuses)
    BY DEF Shaped, PlanStatuses
  <2>2. /\ DOMAIN s.phases = Phases(p)
        /\ \A i \in Phases(p) : /\ s.phases[i] \in PhaseStatuses
                                /\ DOMAIN s.phases[i].steps = Steps(p, i)
    BY ShapedParts
  <2>3. \A i \in Phases(p) : s.phases[i].steps \in Seq(StepStatuses)
    BY <2>2 DEF PhaseStatuses
  <2> QED
    BY <2>1, <2>2, <2>3
<1>2. ASSUME NEW i \in Phases(p)
      PROVE  [old(i) EXCEPT !.steps = sts(i)] = s.phases[i]
  <2>1. IndexOf(p.phases[i].name, s.phases) = i /\ i # 0
    BY Indices, PlanLengths DEF Phases
  <2>2. old(i) = s.phases[i]
    BY <2>1 DEF PhaseStatus
  <2>3. ASSUME NEW j \in Steps(p, i)
        PROVE  StepStatus(old(i).steps, p.phases[i].steps[j].name) = s.phases[i].steps[j]
    <3>1. IndexOf(p.phases[i].steps[j].name, s.phases[i].steps) = j /\ j # 0
      BY Indices, PlanLengths DEF Steps
    <3> QED
      BY <2>2, <3>1 DEF StepStatus
  <2>4. sts(i) = s.phases[i].steps
    BY <1>1, <2>3 DEF Steps
  <2>5. [s.phases[i] EXCEPT !.steps = s.phases[i].steps] = s.phases[i]
    BY <1>1 DEF PhaseStatuses
  <2> HIDE DEF old, sts
  <2> QED
    BY <2>2, <2>4, <2>5
<1>3. phs = s.phases
  BY <1>1, <1>2 DEF Phases
<1>4. EnsurePlanStatusInitialized(s, p) = [s EXCEPT !.phases = phs]
  BY DEF EnsurePlanStatusInitialized
<1>5. [s EXCEPT !.phases = s.phases] = s
  BY <1>1 DEF PlanStatuses
<1> HIDE DEF phs
<1> QED
  BY <1>3, <1>4, <1>5

\* The statuses of a plan that has none.
LEMMA EnsureEmpty ==
    ASSUME NEW p \in PlanSpecs, NEW s \in PlanStatuses, s.phases = <<>>
    PROVE  LET e == EnsurePlanStatusInitialized(s, p)
           IN  Shaped(e, p) /\ e.uid = s.uid
<1> DEFINE old(i) == PhaseStatus(s.phases, p.phases[i].name)
           stp(i, j) == [name |-> p.phases[i].steps[j].name, status |-> "NEVER_RUN"]
           sts(i) == [j \in 1 .. Len(p.phases[i].steps) |-> stp(i, j)]
           ph(i) == [name |-> p.phases[i].name, status |-> "NEVER_RUN", steps |-> sts(i)]
           phs == [i \in 1 .. Len(p.phases) |-> ph(i)]
           olds(i) == [j \in 1 .. Len(p.phases[i].steps) |->
                          StepStatus(old(i).steps, p.phases[i].steps[j].name)]
<1>1. \A n : IndexOf(n, <<>>) = 0
  BY DEF IndexOf, SelectInSeq
<1>2. \A i : /\ old(i) = [name |-> p.phases[i].name, status |-> "NEVER_RUN", steps |-> <<>>]
             /\ olds(i) = sts(i)
  BY <1>1 DEF PhaseStatus, StepStatus
<1>3. EnsurePlanStatusInitialized(s, p) = [s EXCEPT !.phases = phs]
  <2>1. EnsurePlanStatusInitialized(s, p)
          = [s EXCEPT !.phases =
                [i \in 1 .. Len(p.phases) |-> [old(i) EXCEPT !.steps = olds(i)]]]
    BY DEF EnsurePlanStatusInitialized
  <2> HIDE DEF old, olds, sts
  <2>2. \A i : [old(i) EXCEPT !.steps = olds(i)] = ph(i)
    BY <1>2
  <2> HIDE DEF ph
  <2> QED
    BY <2>1, <2>2
<1>4. "NEVER_RUN" \in ExecutionStatus
  BY DEF ExecutionStatus
<1>5. ASSUME NEW i \in Phases(p)
      PROVE  /\ ph(i) \in PhaseStatuses
             /\ Len(ph(i).steps) = Len(p.phases[i].steps)
             /\ \A j \in Steps(p, i) : ph(i).steps[j].name = p.phases[i].steps[j].name
  <2>1. \A j \in Steps(p, i) : stp(i, j) \in StepStatuses
    BY <1>4, PlanNames DEF StepStatuses
  <2>2. /\ sts(i) \in Seq(StepStatuses)
        /\ Len(sts(i)) = Len(p.phases[i].steps)
        /\ \A j \in Steps(p, i) : sts(i)[j] = stp(i, j)
    BY <2>1, PlanLengths DEF Steps
  <2>3. ph(i).steps = sts(i) /\ \A j \in Steps(p, i) : stp(i, j).name = p.phases[i].steps[j].name
    OBVIOUS
  <2> HIDE DEF sts
  <2>4. ph(i) \in PhaseStatuses
    BY <1>4, <2>2, PlanNames DEF PhaseStatuses
  <2> HIDE DEF ph, stp
  <2> QED
    BY <2>2, <2>3, <2>4
<1>7. \A i \in Phases(p) : ph(i).name = p.phases[i].name
  OBVIOUS
<1> HIDE DEF ph
<1>6. /\ phs \in Seq(PhaseStatuses)
      /\ Len(phs) = Len(p.phases)
      /\ \A i \in Phases(p) : phs[i] = ph(i)
  BY <1>5, PlanLengths DEF Phases
<1> HIDE DEF phs
<1>8. [s EXCEPT !.phases = phs] \in PlanStatuses
  BY <1>6 DEF PlanStatuses
<1>9. /\ [s EXCEPT !.phases = phs].phases = phs
      /\ [s EXCEPT !.phases = phs].uid = s.uid
  BY DEF PlanStatuses
<1> QED
  BY <1>3, <1>5, <1>6, <1>7, <1>8, <1>9 DEF Shaped

\* For a new execution, everything is pending.
LEMMA ResetShaped ==
    ASSUME NEW p \in PlanSpecs, NEW s, Shaped(s, p), NEW u \in Nat
    PROVE  LET r == ResetPlanStatus(s, u)
           IN  /\ Shaped(r, p)
               /\ r.uid = u /\ r.status = "PENDING"
               /\ \A i \in Phases(p) :
                     /\ OfPhase(r, i) = "PENDING"
                     /\ \A j \in Steps(p, i) : OfStep(r, i, j) = "PENDING"
<1> DEFINE stp(i, j) == [s.phases[i].steps[j] EXCEPT !.status = "PENDING"]
           sts(i) == [j \in 1 .. Len(s.phases[i].steps) |-> stp(i, j)]
           ph(i) == [s.phases[i] EXCEPT !.status = "PENDING", !.steps = sts(i)]
           phs == [i \in 1 .. Len(s.phases) |-> ph(i)]
           r == [s EXCEPT !.uid = u, !.status = "PENDING", !.phases = phs]
<1>1. /\ s \in PlanStatuses
      /\ "PENDING" \in ExecutionStatus
      /\ Len(s.phases) = Len(p.phases)
      /\ Len(p.phases) \in Nat
  BY PlanLengths DEF Shaped, ExecutionStatus
<1>2. ASSUME NEW i \in Phases(p)
      PROVE  /\ ph(i) \in PhaseStatuses
             /\ ph(i).name = p.phases[i].name
             /\ ph(i).status = "PENDING"
             /\ Len(ph(i).steps) = Len(p.phases[i].steps)
             /\ \A j \in Steps(p, i) : /\ ph(i).steps[j].name = p.phases[i].steps[j].name
                                       /\ ph(i).steps[j].status = "PENDING"
  <2>1. /\ s.phases[i] \in PhaseStatuses
        /\ Len(s.phases[i].steps) = Len(p.phases[i].steps)
        /\ Len(p.phases[i].steps) \in Nat
        /\ s.phases[i].name = p.phases[i].name
    BY ShapedParts, PlanLengths DEF Shaped
  <2>2. ASSUME NEW j \in Steps(p, i)
        PROVE  /\ stp(i, j) \in StepStatuses
               /\ stp(i, j).name = p.phases[i].steps[j].name
               /\ stp(i, j).status = "PENDING"
    <3>1. s.phases[i].steps[j] \in StepStatuses
      BY ShapedParts
    <3> QED
      BY <1>1, <3>1 DEF StepStatuses, Shaped
  <2> HIDE DEF stp
  <2>3. /\ sts(i) \in Seq(StepStatuses)
        /\ Len(sts(i)) = Len(p.phases[i].steps)
        /\ \A j \in Steps(p, i) : sts(i)[j] = stp(i, j)
    BY <2>1, <2>2 DEF Steps
  <2> HIDE DEF sts
  <2>4. ph(i) \in PhaseStatuses /\ ph(i).name = s.phases[i].name
        /\ ph(i).status = "PENDING" /\ ph(i).steps = sts(i)
    BY <1>1, <2>1, <2>3 DEF PhaseStatuses
  <2> HIDE DEF ph
  <2> QED
    BY <2>1, <2>2, <2>3, <2>4
<1> HIDE DEF ph
<1>3. /\ phs \in Seq(PhaseStatuses)
      /\ Len(phs) = Len(p.phases)
      /\ \A i \in Phases(p) : phs[i] = ph(i)
  BY <1>1, <1>2 DEF Phases
<1>4. ResetPlanStatus(s, u) = r
  BY DEF ResetPlanStatus, phs, ph
<1> HIDE DEF phs
<1>5. r \in PlanStatuses /\ r.uid = u /\ r.status = "PENDING" /\ r.phases = phs
  BY <1>1, <1>3 DEF PlanStatuses
<1> HIDE DEF r
<1>6. Shaped(r, p)
  BY <1>2, <1>3, <1>5 DEF Shaped
<1>7. \A i \in Phases(p) :
        /\ OfPhase(r, i) = "PENDING"
        /\ \A j \in Steps(p, i) : OfStep(r, i, j) = "PENDING"
  BY <1>2, <1>3, <1>5 DEF OfPhase, OfStep
<1> QED
  BY <1>4, <1>5, <1>6, <1>7

(* ------------------------- what a status tells ------------------------ *)

Fatal == "FATAL_ERROR"

NoFatal(s, p) ==
    /\ s.status # Fatal
    /\ \A i \in Phases(p) : /\ OfPhase(s, i) # Fatal
                            /\ \A j \in Steps(p, i) : OfStep(s, i, j) # Fatal

\* A fatal error of the step j of the phase i.
FatalAt(s, p, i, j) ==
    /\ s.status = Fatal
    /\ \A k \in Phases(p) : /\ OfPhase(s, k) = Fatal <=> k = i
                            /\ \A l \in Steps(p, k) :
                                  OfStep(s, k, l) = Fatal <=> k = i /\ l = j

OneFatal(s, p) == \E i \in Phases(p) : \E j \in Steps(p, i) : FatalAt(s, p, i, j)

StepsFinished(s, p, i) == \A j \in Steps(p, i) : IsFinished(OfStep(s, i, j))

PartsComplete(s, p) ==
    \A i \in Phases(p) : IsFinished(OfPhase(s, i)) => StepsFinished(s, p, i)

\* A status that a pass works on, and one that it returns.
UnderWay(s, p) ==
    Shaped(s, p) /\ s.status = "IN_PROGRESS" /\ NoFatal(s, p) /\ PartsComplete(s, p)

Told(s, p) ==
    /\ Shaped(s, p)
    /\ NoFatal(s, p) \/ OneFatal(s, p)
    /\ PartsComplete(s, p)
    /\ IsFinished(s.status) <=> \A i \in Phases(p) : IsFinished(OfPhase(s, i))

\* The finished steps of s are finished in t.
FinishedKept(s, t, p) ==
    \A i \in Phases(p) : \A j \in Steps(p, i) :
        IsFinished(OfStep(s, i, j)) => IsFinished(OfStep(t, i, j))

\* A step of an unfinished phase gets another status.
LEMMA StepChange ==
    ASSUME NEW p \in PlanSpecs, NEW s, UnderWay(s, p), NEW i \in Phases(p),
           NEW j \in Steps(p, i), NEW st \in ExecutionStatus \ {Fatal}, NEW t,
           ~ IsFinished(OfPhase(s, i)), ~ IsFinished(OfStep(s, i, j)),
           t = WithStep(s, i, j, st)
    PROVE  /\ UnderWay(t, p) /\ FinishedKept(s, t, p)
           /\ t.uid = s.uid
           /\ \A k \in Phases(p) : OfPhase(t, k) = OfPhase(s, k)
           /\ OfStep(t, i, j) = st
           /\ \A k \in Phases(p) : \A l \in Steps(p, k) :
                 k # i \/ l # j => OfStep(t, k, l) = OfStep(s, k, l)
<1>1. Shaped(s, p)
  BY DEF UnderWay
<1>2. /\ Shaped(t, p)
      /\ t.uid = s.uid /\ t.status = s.status
      /\ \A k \in Phases(p) : OfPhase(t, k) = OfPhase(s, k)
      /\ OfStep(t, i, j) = st
      /\ \A k \in Phases(p) : \A l \in Steps(p, k) :
            k # i \/ l # j => OfStep(t, k, l) = OfStep(s, k, l)
  BY <1>1, SetStep
<1>3. NoFatal(t, p)
  BY <1>2 DEF UnderWay, NoFatal
<1>4. PartsComplete(t, p)
  BY <1>2 DEF UnderWay, PartsComplete, StepsFinished
<1>5. FinishedKept(s, t, p)
  BY <1>2 DEF FinishedKept
<1> QED
  BY <1>2, <1>3, <1>4, <1>5 DEF UnderWay

\* A phase gets another status, COMPLETE only when its steps are finished.
LEMMA PhaseChange ==
    ASSUME NEW p \in PlanSpecs, NEW s, UnderWay(s, p), NEW i \in Phases(p),
           NEW st \in ExecutionStatus \ {Fatal}, NEW t,
           IsFinished(st) => StepsFinished(s, p, i),
           t = WithPhase(s, i, st)
    PROVE  /\ UnderWay(t, p) /\ FinishedKept(s, t, p)
           /\ t.uid = s.uid
           /\ OfPhase(t, i) = st
           /\ \A k \in Phases(p) : k # i => OfPhase(t, k) = OfPhase(s, k)
           /\ \A k \in Phases(p) : \A j \in Steps(p, k) : OfStep(t, k, j) = OfStep(s, k, j)
<1>1. Shaped(s, p)
  BY DEF UnderWay
<1>2. /\ Shaped(t, p)
      /\ t.uid = s.uid /\ t.status = s.status
      /\ OfPhase(t, i) = st
      /\ \A k \in Phases(p) : k # i => OfPhase(t, k) = OfPhase(s, k)
      /\ \A k \in Phases(p) : \A j \in Steps(p, k) : OfStep(t, k, j) = OfStep(s, k, j)
  BY <1>1, SetPhase
<1>3. NoFatal(t, p)
  BY <1>2 DEF UnderWay, NoFatal
<1>4. PartsComplete(t, p)
  BY <1>2 DEF UnderWay, PartsComplete, StepsFinished
<1>5. FinishedKept(s, t, p)
  BY <1>2 DEF FinishedKept
<1> QED
  BY <1>2, <1>3, <1>4, <1>5 DEF UnderWay

\* A step of an unfinished phase fails fatally.
LEMMA FatalChange ==
    ASSUME NEW p \in PlanSpecs, NEW s, UnderWay(s, p), NEW i \in Phases(p),
           NEW j \in Steps(p, i), ~ IsFinished(OfPhase(s, i)), ~ IsFinished(OfStep(s, i, j)),
           NEW t, t = WithStep(WithPhase(WithPlan(s, Fatal), i, Fatal), i, j, Fatal)
    PROVE  /\ Told(t, p) /\ FinishedKept(s, t, p)
           /\ t.uid = s.uid /\ t.status = Fatal
           /\ \A k \in Phases(p) : \A l \in Steps(p, k) :
                 IsFinished(OfStep(t, k, l)) => IsFinished(OfStep(s, k, l))
<1> DEFINE a == WithPlan(s, Fatal)
           b == WithPhase(a, i, Fatal)
<1>1. Shaped(s, p) /\ Fatal \in ExecutionStatus
  BY DEF UnderWay, Fatal, ExecutionStatus
<1>2. Shaped(a, p) /\ a.uid = s.uid /\ a.status = Fatal /\ a.phases = s.phases
  BY <1>1, SetPlan
<1> HIDE DEF a
<1>3. /\ Shaped(b, p)
      /\ b.uid = a.uid /\ b.status = a.status
      /\ OfPhase(b, i) = Fatal
      /\ \A k \in Phases(p) : k # i => OfPhase(b, k) = OfPhase(a, k)
      /\ \A k \in Phases(p) : \A l \in Steps(p, k) : OfStep(b, k, l) = OfStep(a, k, l)
  BY <1>1, <1>2, SetPhase
<1>4. t = WithStep(b, i, j, Fatal)
  BY DEF a
<1> HIDE DEF b
<1>5. /\ Shaped(t, p)
      /\ t.uid = b.uid /\ t.status = b.status
      /\ \A k \in Phases(p) : OfPhase(t, k) = OfPhase(b, k)
      /\ OfStep(t, i, j) = Fatal
      /\ \A k \in Phases(p) : \A l \in Steps(p, k) :
            k # i \/ l # j => OfStep(t, k, l) = OfStep(b, k, l)
  BY <1>1, <1>3, <1>4, SetStep
<1>6. \A k \in Phases(p) : /\ OfPhase(a, k) = OfPhase(s, k)
                           /\ \A l \in Steps(p, k) : OfStep(a, k, l) = OfStep(s, k, l)
  BY <1>2 DEF OfPhase, OfStep
<1>7. NoFatal(s, p) /\ PartsComplete(s, p)
  BY DEF UnderWay
<1>8. FatalAt(t, p, i, j)
  BY <1>2, <1>3, <1>5, <1>6, <1>7 DEF FatalAt, NoFatal
<1>9. ~ IsFinished(Fatal)
  BY DEF Fatal, IsFinished
<1>10. PartsComplete(t, p)
  BY <1>3, <1>5, <1>6, <1>7, <1>9 DEF PartsComplete, StepsFinished
<1>11. /\ FinishedKept(s, t, p)
       /\ \A k \in Phases(p) : \A l \in Steps(p, k) :
             IsFinished(OfStep(t, k, l)) => IsFinished(OfStep(s, k, l))
  BY <1>3, <1>5, <1>6, <1>9 DEF FinishedKept
<1>12. ~ IsFinished(t.status) /\ ~ IsFinished(OfPhase(t, i))
  BY <1>2, <1>3, <1>5, <1>9
<1> QED
  BY <1>2, <1>3, <1>5, <1>8, <1>10, <1>11, <1>12 DEF Told, OneFatal

(* ----------------------------- the invariant -------------------------- *)

NameOfTask ==
    UNION {UNION {UNION {ToSet(p.phases[i].steps[j].tasks) : j \in Steps(p, i)}
                    : i \in Phases(p)} : p \in PlanSpecs}

TypeInv ==
    /\ plan \in PlanSpecs /\ pl = plan
    /\ scheduled \in Nat \ {0} /\ edits \in Nat
    /\ at \in {"idle", "phase", "step", "task", "return"}
    /\ pos \in [phase : Nat, step : Nat, task : Nat]
    /\ left \in [phases : Int, steps : SUBSET StepName, tasks : SUBSET NameOfTask]

StoredInv ==
    \/ stored = [uid |-> 0, status |-> "NEVER_RUN", phases |-> <<>>]
    \/ stored.uid \in 1 .. scheduled /\ Told(stored, plan)

\* The pass began with the stored status of its execution or with none.
PassInv ==
    /\ at \in {"phase", "step", "task"} => UnderWay(status, plan)
    /\ at = "return" => Told(status, plan)
    /\ at # "idle" =>
          /\ status.uid \in 1 .. scheduled
          /\ stored.uid = status.uid =>
                ~ IsTerminal(stored.status) /\ FinishedKept(stored, status, plan)

\* phasesLeft is c before the phase k: it counts the phases to come and those
\* that were left unfinished.
Passed(s, p, k) == \A i \in Phases(p) : i < k => IsFinished(OfPhase(s, i))

Counted(s, p, k, c) ==
    /\ k \in 1 .. Len(p.phases) + 1
    /\ c >= Len(p.phases) + 1 - k
    /\ c = Len(p.phases) + 1 - k <=> Passed(s, p, k)
    /\ p.strategy = Serial /\ k <= Len(p.phases) => Passed(s, p, k)

PhasesCounted ==
    at \in {"phase", "step", "task"} => Counted(status, plan, pos.phase, left.phases)

\* A step that is not in stepsLeft is finished.
StepsCounted ==
    at \in {"step", "task"} =>
        /\ pos.phase \in Phases(plan)
        /\ ~ IsFinished(OfPhase(status, pos.phase))
        /\ pos.step \in Nat \ {0}
        /\ \A j \in Steps(plan, pos.phase) :
              plan.phases[pos.phase].steps[j].name \notin left.steps
                => IsFinished(OfStep(status, pos.phase, j))
        /\ plan.phases[pos.phase].strategy = Serial
              /\ pos.step \in Steps(plan, pos.phase)
              => \A j \in Steps(plan, pos.phase) :
                    j < pos.step => IsFinished(OfStep(status, pos.phase, j))

\* A task that is not in tasksLeft was done in this pass.
TasksCounted ==
    at = "task" =>
        /\ pos.step \in Steps(plan, pos.phase)
        /\ ~ IsFinished(OfStep(status, pos.phase, pos.step))
        /\ pos.task \in Nat \ {0}
        /\ taskDone \subseteq Tasks(plan, pos.phase, pos.step)
        /\ \A k \in Tasks(plan, pos.phase, pos.step) :
              plan.phases[pos.phase].steps[pos.step].tasks[k] \notin left.tasks
                => k \in taskDone

\* Every finished step of s was really done.
ReallyDone(s) ==
    \A i \in Phases(plan) : \A j \in Steps(plan, i) :
        IsFinished(OfStep(s, i, j)) => <<i, j>> \in done

DoneInv ==
    /\ done \subseteq Order!AllSteps(plan)
    /\ stored.uid = scheduled => ReallyDone(stored)
    /\ at # "idle" /\ status.uid = scheduled => ReallyDone(status)

IInv ==
    /\ TypeInv /\ StoredInv /\ PassInv
    /\ PhasesCounted /\ StepsCounted /\ TasksCounted /\ DoneInv

(* ------------------------- where the pass is -------------------------- *)

\* The phase of the pass and its status.
LEMMA AtPhases ==
    ASSUME Regular, IInv, at \in {"phase", "step", "task"}, pos.phase \in Phases(plan)
    PROVE  /\ Phase = plan.phases[pos.phase]
           /\ PhaseIndex = pos.phase
           /\ CurrentPhase.status = OfPhase(status, pos.phase)
           /\ Len(pl.phases) = Len(plan.phases) /\ Len(plan.phases) \in Nat
           /\ Len(Phase.steps) \in Nat
<1>1. /\ plan \in PlanSpecs /\ pl = plan
      /\ Shaped(status, plan)
      /\ NamesOnce
  BY DEF IInv, TypeInv, PassInv, UnderWay, Regular
<1>2. Phase = plan.phases[pos.phase]
  BY <1>1 DEF Phase
<1>3. PhaseIndex = pos.phase
  BY <1>1, <1>2, Indices DEF PhaseIndex
<1> QED
  BY <1>1, <1>2, <1>3, PlanLengths DEF CurrentPhase, OfPhase

\* The step of the pass and its status.
LEMMA AtSteps ==
    ASSUME Regular, IInv, at \in {"step", "task"}, pos.step \in Steps(plan, pos.phase)
    PROVE  /\ Phase = plan.phases[pos.phase]
           /\ Step = plan.phases[pos.phase].steps[pos.step]
           /\ PhaseIndex = pos.phase /\ StepIndex = pos.step /\ StepIndex # 0
           /\ CurrentStep.status = OfStep(status, pos.phase, pos.step)
           /\ Len(Step.tasks) \in Nat
<1>1. /\ plan \in PlanSpecs /\ Shaped(status, plan) /\ NamesOnce
      /\ pos.phase \in Phases(plan)
  BY DEF IInv, TypeInv, PassInv, UnderWay, Regular, StepsCounted
<1>2. Phase = plan.phases[pos.phase] /\ PhaseIndex = pos.phase
  BY <1>1, AtPhases
<1>3. Step = plan.phases[pos.phase].steps[pos.step]
  BY <1>2 DEF Step
<1>4. StepIndex = pos.step
  BY <1>1, <1>2, <1>3, Indices DEF StepIndex, CurrentPhase
<1>5. pos.step # 0
  BY <1>1, PlanLengths DEF Steps
<1> QED
  BY <1>1, <1>2, <1>3, <1>4, <1>5, PlanLengths DEF CurrentStep, CurrentPhase, OfStep

\* The plan status that Execute gets is the stored one of this execution, or
\* everything is pending.
LEMMA PreparedStatus ==
    ASSUME Regular, TypeInv, StoredInv
    PROVE  \/ Prepared = stored /\ stored.uid = scheduled /\ Told(stored, plan)
           \/ /\ Shaped(Prepared, plan)
              /\ Prepared.uid = scheduled /\ Prepared.status = "PENDING"
              /\ stored.uid # scheduled
              /\ \A i \in Phases(plan) :
                    /\ OfPhase(Prepared, i) = "PENDING"
                    /\ \A j \in Steps(plan, i) : OfStep(Prepared, i, j) = "PENDING"
<1> DEFINE e == EnsurePlanStatusInitialized(stored, plan)
<1>1. plan \in PlanSpecs /\ scheduled \in Nat /\ scheduled # 0 /\ NamesOnce
  BY DEF TypeInv, Regular
<1>2. Shaped(e, plan) /\ e.uid = stored.uid
  <2>1. CASE Told(stored, plan)
    BY <1>1, <2>1, EnsureShaped DEF Told
  <2>2. CASE stored = [uid |-> 0, status |-> "NEVER_RUN", phases |-> <<>>]
    <3>1. stored \in PlanStatuses
      BY <2>2 DEF PlanStatuses, ExecutionStatus
    <3> QED
      BY <1>1, <2>2, <3>1, EnsureEmpty
  <2> QED
    BY <2>1, <2>2 DEF StoredInv
<1>3. CASE stored.uid = scheduled
  <2>1. Told(stored, plan)
    BY <1>1, <1>3 DEF StoredInv
  <2>2. e = stored
    BY <1>1, <2>1, EnsureShaped DEF Told
  <2> QED
    BY <1>3, <2>1, <2>2 DEF Prepared
<1>4. CASE stored.uid # scheduled
  <2> HIDE DEF e
  <2>1. Prepared = ResetPlanStatus(e, scheduled)
    BY <1>2, <1>4 DEF Prepared, e
  <2> QED
    BY <1>1, <1>2, <1>4, <2>1, ResetShaped
<1> QED
  BY <1>3, <1>4

\* Nothing is to be done only for what is stored.
LEMMA PreparedTerminal ==
    ASSUME Regular, TypeInv, StoredInv, IsTerminal(Prepared.status)
    PROVE  Prepared = stored
BY PreparedStatus DEF IsTerminal

(* ------------------- every action keeps the invariant ----------------- *)

\* Nothing is stored or executed yet.
LEMMA InitIInv == Init => IInv
<1> SUFFICES ASSUME Init PROVE IInv
  OBVIOUS
<1>1. TypeInv
  BY DEF Init, NoPass, TypeInv
<1>2. StoredInv /\ PassInv /\ PhasesCounted /\ StepsCounted /\ TasksCounted /\ DoneInv
  BY DEF Init, NoPass, StoredInv, PassInv, PhasesCounted, StepsCounted, TasksCounted, DoneInv
<1> QED
  BY <1>1, <1>2 DEF IInv

\* A terminal plan is stored as it is.
LEMMA ExecuteTerminalKeepsAll ==
    ASSUME Regular, IInv, ExecuteTerminal
    PROVE  UNCHANGED vars
<1>1. Prepared = stored
  BY PreparedTerminal DEF IInv, ExecuteTerminal
<1> QED
  BY <1>1 DEF ExecuteTerminal, vars

\* A pass begins.
LEMMA ExecuteKeeps ==
    ASSUME Regular, IInv, Execute
    PROVE  IInv'
<1>1. /\ TypeInv /\ StoredInv /\ DoneInv
      /\ plan \in PlanSpecs /\ scheduled \in Nat \ {0}
      /\ Len(plan.phases) \in Nat
  BY PlanLengths DEF IInv, TypeInv
<1>2. /\ ~ IsTerminal(Prepared.status)
      /\ status' = WithPlan(Prepared, "IN_PROGRESS")
      /\ at' = "phase" /\ pl' = plan
      /\ pos' = [phase |-> 1, step |-> 0, task |-> 0]
      /\ left' = [phases |-> Len(plan.phases), steps |-> {}, tasks |-> {}]
      /\ UNCHANGED <<plan, scheduled, stored, done, taskDone, edits>>
  BY DEF Execute, history, bounds, WithPlan
<1>3. /\ Shaped(Prepared, plan) /\ Prepared.uid = scheduled
      /\ NoFatal(Prepared, plan) /\ PartsComplete(Prepared, plan)
      /\ stored.uid = scheduled => Prepared = stored
  <2>1. CASE Prepared = stored /\ stored.uid = scheduled /\ Told(stored, plan)
    BY <1>2, <2>1 DEF Told, OneFatal, FatalAt, IsTerminal, Fatal
  <2>2. CASE /\ Shaped(Prepared, plan)
             /\ Prepared.uid = scheduled /\ Prepared.status = "PENDING"
             /\ stored.uid # scheduled
             /\ \A i \in Phases(plan) :
                   /\ OfPhase(Prepared, i) = "PENDING"
                   /\ \A j \in Steps(plan, i) : OfStep(Prepared, i, j) = "PENDING"
    BY <2>2 DEF NoFatal, PartsComplete, IsFinished, Fatal
  <2> QED
    BY <1>1, <2>1, <2>2, PreparedStatus
<1>4. /\ Shaped(status', plan)
      /\ status'.uid = scheduled /\ status'.status = "IN_PROGRESS"
      /\ status'.phases = Prepared.phases
  <2>1. "IN_PROGRESS" \in ExecutionStatus
    BY DEF ExecutionStatus
  <2> QED
    BY <1>1, <1>2, <1>3, <2>1, SetPlan
<1>5. /\ \A i : OfPhase(status', i) = OfPhase(Prepared, i)
      /\ \A i, j : OfStep(status', i, j) = OfStep(Prepared, i, j)
  BY <1>4 DEF OfPhase, OfStep
<1>6. TypeInv'
  BY <1>1, <1>2 DEF TypeInv
<1>7. StoredInv'
  BY <1>1, <1>2 DEF StoredInv
<1>8. UnderWay(status', plan)
  BY <1>3, <1>4, <1>5 DEF UnderWay, NoFatal, PartsComplete, StepsFinished, Fatal
<1>9. PassInv'
  <2>1. scheduled \in 1 .. scheduled
    BY <1>1
  <2>2. stored.uid = scheduled =>
          ~ IsTerminal(stored.status) /\ FinishedKept(stored, status', plan)
    BY <1>2, <1>3, <1>5 DEF FinishedKept
  <2> QED
    BY <1>2, <1>4, <1>8, <2>1, <2>2 DEF PassInv
<1>10. PhasesCounted' /\ StepsCounted' /\ TasksCounted'
  BY <1>1, <1>2 DEF PhasesCounted, Counted, Passed, StepsCounted, TasksCounted, Phases
<1>11. DoneInv'
  <2>1. ReallyDone(status)'
    <3>1. CASE stored.uid = scheduled
      BY <1>1, <1>2, <1>3, <1>5, <3>1 DEF DoneInv, ReallyDone
    <3>2. CASE stored.uid # scheduled
      <4>1. \A i \in Phases(plan) : \A j \in Steps(plan, i) :
              ~ IsFinished(OfStep(Prepared, i, j))
        BY <1>1, <3>2, PreparedStatus DEF IsFinished
      <4> QED
        BY <1>2, <1>5, <4>1 DEF ReallyDone
    <3> QED
      BY <3>1, <3>2
  <2> QED
    BY <1>1, <1>2, <2>1 DEF DoneInv, ReallyDone
<1> QED
  BY <1>6, <1>7, <1>9, <1>10, <1>11 DEF IInv

\* The pass has ended: its status is stored, refused or lost.
LEMMA EndOfPassKeeps ==
    ASSUME Regular, IInv, UpdateStatus \/ UpdateRefused \/ PassLost
    PROVE  IInv'
<1>1. /\ EndPass /\ at # "idle"
      /\ UNCHANGED <<plan, scheduled, pl, status, done, edits>>
      /\ \/ stored' = stored
         \/ at = "return" /\ status.uid = scheduled /\ stored' = status
  BY DEF UpdateStatus, UpdateRefused, PassLost, bounds
<1>2. TypeInv'
  <2>1. /\ pos' \in [phase : Nat, step : Nat, task : Nat]
        /\ left' \in [phases : Int, steps : SUBSET StepName, tasks : SUBSET NameOfTask]
        /\ at' = "idle"
    BY <1>1 DEF EndPass
  <2> QED
    BY <1>1, <2>1 DEF IInv, TypeInv
<1>3. StoredInv'
  BY <1>1 DEF IInv, StoredInv, PassInv
<1>4. PassInv' /\ PhasesCounted' /\ StepsCounted' /\ TasksCounted'
  BY <1>1 DEF EndPass, PassInv, PhasesCounted, StepsCounted, TasksCounted
<1>5. DoneInv'
  <2>1. stored'.uid = scheduled => ReallyDone(stored)'
    <3>1. CASE stored' = stored
      BY <1>1, <3>1 DEF IInv, DoneInv, ReallyDone
    <3>2. CASE at = "return" /\ status.uid = scheduled /\ stored' = status
      BY <1>1, <3>2 DEF IInv, DoneInv, ReallyDone
    <3> QED
      BY <1>1, <3>1, <3>2
  <2> QED
    BY <1>1, <2>1 DEF IInv, DoneInv, EndPass
<1> QED
  BY <1>2, <1>3, <1>4, <1>5 DEF IInv

\* A new execution is scheduled.
LEMMA TriggerKeeps ==
    ASSUME Regular, IInv, Trigger
    PROVE  IInv'
<1>1. /\ scheduled' = scheduled + 1 /\ done' = {}
      /\ UNCHANGED <<plan, stored, at, pl, status, pos, left, taskDone, edits>>
      /\ scheduled \in Nat \ {0}
  BY DEF Trigger, pass, IInv, TypeInv
<1>2. TypeInv'
  BY <1>1 DEF IInv, TypeInv
<1>3. StoredInv'
  BY <1>1 DEF IInv, StoredInv
<1>4. PassInv'
  BY <1>1 DEF IInv, PassInv
<1>5. PhasesCounted' /\ StepsCounted' /\ TasksCounted'
  BY <1>1 DEF IInv, PhasesCounted, StepsCounted, TasksCounted
<1>6. DoneInv'
  <2>1. stored.uid # scheduled + 1
    BY <1>1 DEF IInv, StoredInv
  <2>2. at # "idle" => status.uid # scheduled + 1
    BY <1>1 DEF IInv, PassInv
  <2> QED
    BY <1>1, <2>1, <2>2 DEF DoneInv
<1> QED
  BY <1>2, <1>3, <1>4, <1>5, <1>6 DEF IInv

\* What every action within a pass keeps.
LEMMA PassStep ==
    ASSUME IInv, UNCHANGED <<plan, scheduled, stored>>, at \in {"phase", "step", "task"},
           \/ at' \in {"phase", "step", "task"} /\ UnderWay(status', plan)
           \/ at' = "return" /\ Told(status', plan),
           status'.uid = status.uid, FinishedKept(status, status', plan)
    PROVE  /\ StoredInv' /\ PassInv'
           /\ done' = done /\ FinishedKept(status', status, plan) => DoneInv'
<1>1. UNCHANGED <<plan, scheduled, stored>>
  OBVIOUS
<1>2. StoredInv'
  BY <1>1 DEF IInv, StoredInv
<1>3. PassInv'
  <2>1. /\ status.uid \in 1 .. scheduled
        /\ stored.uid = status.uid =>
              ~ IsTerminal(stored.status) /\ FinishedKept(stored, status, plan)
    BY DEF IInv, PassInv
  <2>2. stored.uid = status.uid => FinishedKept(stored, status', plan)
    BY <2>1 DEF FinishedKept
  <2> QED
    BY <1>1, <2>1, <2>2 DEF PassInv
<1>4. ASSUME done' = done, FinishedKept(status', status, plan) PROVE DoneInv'
  <2>1. /\ done \subseteq Order!AllSteps(plan)
        /\ stored.uid = scheduled => ReallyDone(stored)
        /\ status.uid = scheduled => ReallyDone(status)
    BY DEF IInv, DoneInv
  <2>2. status.uid = scheduled => ReallyDone(status)'
    BY <1>1, <1>4, <2>1 DEF ReallyDone, FinishedKept
  <2>3. stored.uid = scheduled => ReallyDone(stored)'
    BY <1>1, <1>4, <2>1 DEF ReallyDone
  <2> QED
    BY <1>1, <1>4, <2>1, <2>2, <2>3 DEF DoneInv
<1> QED
  BY <1>2, <1>3, <1>4

\* A status that stays as it is.
LEMMA SameStatus ==
    ASSUME IInv, Frame, at \in {"phase", "step", "task"},
           at' \in {"phase", "step", "task"}, status' = status
    PROVE  StoredInv' /\ PassInv' /\ DoneInv'
<1>1. UnderWay(status', plan) /\ FinishedKept(status, status', plan)
      /\ FinishedKept(status', status, plan) /\ status'.uid = status.uid
  BY DEF IInv, PassInv, FinishedKept
<1>2. UNCHANGED <<plan, scheduled, stored, done>>
  BY DEF Frame
<1> QED
  BY <1>1, <1>2, PassStep

\* A status goes on as in progress.
LEMMA InProgressIs ==
    ASSUME NEW st \in ExecutionStatus, st # Fatal, ~ IsFinished(st)
    PROVE  /\ InProgress(st) \in ExecutionStatus \ {Fatal}
           /\ ~ IsFinished(InProgress(st))
BY DEF InProgress, ExecutionStatus, Fatal, IsFinished

\* The phases before k + 1 are those before k, and k.
LEMMA PassedOn ==
    ASSUME NEW p \in PlanSpecs, NEW s, NEW t, NEW k \in Phases(p),
           \A i \in Phases(p) : i # k => OfPhase(t, i) = OfPhase(s, i)
    PROVE  /\ Passed(t, p, k) <=> Passed(s, p, k)
           /\ Passed(t, p, k + 1) <=> Passed(s, p, k) /\ IsFinished(OfPhase(t, k))
<1>1. k \in Int /\ \A i \in Phases(p) : i \in Int
  BY PlanLengths DEF Phases
<1>2. Passed(t, p, k) <=> Passed(s, p, k)
  <2>1. \A i \in Phases(p) : i < k => i # k
    BY <1>1
  <2> QED
    BY <2>1 DEF Passed
<1>3. \A i \in Phases(p) : i < k + 1 <=> i < k \/ i = k
  BY <1>1
<1> QED
  BY <1>2, <1>3 DEF Passed

\* A finished phase is passed and counted.
LEMMA CountFinished ==
    ASSUME NEW p \in PlanSpecs, NEW s, NEW t, NEW k \in Phases(p), NEW c \in Int,
           Counted(s, p, k, c), IsFinished(OfPhase(t, k)),
           \A i \in Phases(p) : i # k => OfPhase(t, i) = OfPhase(s, i)
    PROVE  Counted(t, p, k + 1, c - 1)
<1>1. Len(p.phases) \in Nat /\ k \in 1 .. Len(p.phases)
  BY PlanLengths DEF Phases
<1>2. Passed(t, p, k + 1) <=> Passed(s, p, k)
  BY PassedOn
<1>3. /\ c >= Len(p.phases) + 1 - k
      /\ c = Len(p.phases) + 1 - k <=> Passed(s, p, k)
      /\ p.strategy = Serial => Passed(s, p, k)
  BY <1>1 DEF Counted
<1>4. ASSUME NEW n \in Nat, k \in 1 .. n
      PROVE  /\ k + 1 \in 1 .. n + 1
             /\ c >= n + 1 - k => c - 1 >= n + 1 - (k + 1)
             /\ c - 1 = n + 1 - (k + 1) <=> c = n + 1 - k
  BY <1>4
<1>5. /\ k + 1 \in 1 .. Len(p.phases) + 1
      /\ c - 1 >= Len(p.phases) + 1 - (k + 1)
      /\ c - 1 = Len(p.phases) + 1 - (k + 1) <=> c = Len(p.phases) + 1 - k
  BY <1>1, <1>3, <1>4
<1> QED
  BY <1>2, <1>3, <1>5 DEF Counted

\* An unfinished phase is not counted, whether the next ones are visited or not.
LEMMA CountUnfinished ==
    ASSUME NEW p \in PlanSpecs, NEW s, NEW t, NEW k \in Phases(p), NEW c \in Int,
           Counted(s, p, k, c), ~ IsFinished(OfPhase(t, k)),
           \A i \in Phases(p) : i # k => OfPhase(t, i) = OfPhase(s, i)
    PROVE  /\ Counted(t, p, k, c)
           /\ Counted(t, p, IF p.strategy = Serial THEN Len(p.phases) + 1 ELSE k + 1, c)
<1>1. Len(p.phases) \in Nat /\ k \in 1 .. Len(p.phases)
  BY PlanLengths DEF Phases
<1>2. /\ Passed(t, p, k) <=> Passed(s, p, k)
      /\ ~ Passed(t, p, k + 1)
  BY PassedOn
<1>3. ~ Passed(t, p, Len(p.phases) + 1)
  BY <1>1 DEF Passed, Phases
<1> QED
  BY <1>1, <1>2, <1>3 DEF Counted

\* A finished phase is skipped and counted.
LEMMA SkipPhaseKeeps ==
    ASSUME Regular, IInv, SkipPhase
    PROVE  IInv'
<1>1. /\ at = "phase" /\ pos.phase <= Len(pl.phases) /\ IsFinished(CurrentPhase.status)
      /\ left' = [left EXCEPT !.phases = @ - 1]
      /\ pos' = [pos EXCEPT !.phase = @ + 1]
      /\ at' = at /\ status' = status /\ taskDone' = taskDone /\ Frame
      /\ UNCHANGED <<plan, scheduled, stored, pl, done, edits>>
  BY DEF SkipPhase, AtPhase, Frame
<1>2. TypeInv /\ PhasesCounted
  BY DEF IInv
<1>3. pos.phase \in Phases(plan) /\ Len(plan.phases) \in Nat
  BY <1>1, <1>2, PlanLengths DEF TypeInv, PhasesCounted, Counted, Phases
<1>4. IsFinished(OfPhase(status, pos.phase))
  BY <1>1, <1>3, AtPhases
<1>5. /\ pos' \in [phase : Nat, step : Nat, task : Nat] /\ pos'.phase = pos.phase + 1
      /\ left' \in [phases : Int, steps : SUBSET StepName, tasks : SUBSET NameOfTask]
      /\ left'.phases = left.phases - 1
  BY <1>1, <1>2 DEF TypeInv
<1>6. TypeInv'
  BY <1>1, <1>2, <1>5 DEF TypeInv
<1>7. PhasesCounted'
  <2>1. Counted(status, plan, pos.phase, left.phases)
    BY <1>1, <1>2 DEF PhasesCounted
  <2>2. Counted(status, plan, pos.phase + 1, left.phases - 1)
    BY <1>2, <1>3, <1>4, <2>1, CountFinished DEF TypeInv
  <2> QED
    BY <1>1, <1>5, <2>2 DEF PhasesCounted
<1>8. StepsCounted' /\ TasksCounted'
  BY <1>1 DEF StepsCounted, TasksCounted
<1> QED
  BY <1>1, <1>6, <1>7, <1>8, SameStatus DEF IInv

\* The steps of a phase come next.
LEMMA StartPhaseKeeps ==
    ASSUME Regular, IInv, StartPhase
    PROVE  IInv'
<1>1. /\ at = "phase" /\ pos.phase <= Len(pl.phases) /\ ~ IsFinished(CurrentPhase.status)
      /\ status' = [status EXCEPT !.phases[PhaseIndex].status = InProgress(@)]
      /\ left' = [left EXCEPT !.steps = NamesOf(Phase.steps)]
      /\ at' = "step"
      /\ pos' = [pos EXCEPT !.step = 1]
      /\ Frame
      /\ UNCHANGED <<plan, scheduled, stored, pl, done, edits>>
  BY DEF StartPhase, AtPhase, Frame
<1>2. TypeInv /\ PhasesCounted /\ UnderWay(status, plan) /\ plan \in PlanSpecs
  BY <1>1 DEF IInv, PassInv, TypeInv
<1>3. pos.phase \in Phases(plan) /\ Len(plan.phases) \in Nat
  BY <1>1, <1>2, PlanLengths DEF TypeInv, PhasesCounted, Counted, Phases
<1>4. /\ Phase = plan.phases[pos.phase] /\ PhaseIndex = pos.phase
      /\ CurrentPhase.status = OfPhase(status, pos.phase)
  BY <1>1, <1>3, AtPhases
<1> DEFINE st == InProgress(OfPhase(status, pos.phase))
<1>5. st \in ExecutionStatus \ {Fatal} /\ ~ IsFinished(st)
  <2>1. /\ OfPhase(status, pos.phase) \in ExecutionStatus
        /\ OfPhase(status, pos.phase) # Fatal
    BY <1>2, <1>3, ShapedParts DEF UnderWay, NoFatal
  <2> QED
    BY <1>1, <1>4, <2>1, InProgressIs
<1>6. status' = WithPhase(status, pos.phase, st)
  BY <1>1, <1>4 DEF OfPhase, WithPhase
<1> HIDE DEF st
<1>7. /\ UnderWay(status', plan) /\ FinishedKept(status, status', plan)
      /\ status'.uid = status.uid
      /\ OfPhase(status', pos.phase) = st
      /\ \A k \in Phases(plan) : k # pos.phase => OfPhase(status', k) = OfPhase(status, k)
      /\ \A k \in Phases(plan) : \A j \in Steps(plan, k) :
            OfStep(status', k, j) = OfStep(status, k, j)
  BY <1>2, <1>3, <1>5, <1>6, PhaseChange
<1>8. FinishedKept(status', status, plan)
  BY <1>7 DEF FinishedKept
<1>9. /\ pos' \in [phase : Nat, step : Nat, task : Nat]
      /\ pos'.phase = pos.phase /\ pos'.step = 1
      /\ left' \in [phases : Int, steps : SUBSET StepName, tasks : SUBSET NameOfTask]
      /\ left'.phases = left.phases /\ left'.steps = NamesOf(Phase.steps)
  <2>1. NamesOf(Phase.steps) \subseteq StepName
    BY <1>2, <1>3, <1>4, PlanNames
  <2> QED
    BY <1>1, <1>2, <2>1 DEF TypeInv
<1>10. TypeInv'
  BY <1>1, <1>2, <1>9 DEF TypeInv
<1>11. StoredInv' /\ PassInv' /\ DoneInv'
  BY <1>1, <1>7, <1>8, PassStep
<1>12. PhasesCounted'
  <2>1. Counted(status, plan, pos.phase, left.phases) /\ left.phases \in Int
    BY <1>1, <1>2 DEF PhasesCounted, TypeInv
  <2>2. Counted(status', plan, pos.phase, left.phases)
    BY <1>2, <1>3, <1>5, <1>7, <2>1, CountUnfinished
  <2> QED
    BY <1>1, <1>9, <2>2 DEF PhasesCounted
<1>13. StepsCounted'
  <2>1. \A j \in Steps(plan, pos.phase) :
          plan.phases[pos.phase].steps[j].name \in left'.steps
    BY <1>4, <1>9 DEF NamesOf, Steps
  <2>2. \A j \in Steps(plan, pos.phase) : ~ (j < 1)
    BY <1>2, <1>3, PlanLengths DEF Steps
  <2> QED
    BY <1>1, <1>3, <1>5, <1>7, <1>9, <2>1, <2>2 DEF StepsCounted
<1>14. TasksCounted'
  BY <1>1 DEF TasksCounted
<1> QED
  BY <1>10, <1>11, <1>12, <1>13, <1>14 DEF IInv

\* A phase is complete when no step is left; otherwise a serial plan stops.
LEMMA EndPhaseKeeps ==
    ASSUME Regular, IInv, EndPhase
    PROVE  IInv'
<1>1. /\ at = "step" /\ at' = "phase" /\ Frame
      /\ \/ /\ left.steps = {}
            /\ status' = [status EXCEPT !.phases[PhaseIndex].status = "COMPLETE"]
            /\ left' = [left EXCEPT !.phases = @ - 1]
            /\ pos' = [pos EXCEPT !.phase = @ + 1]
         \/ /\ UNCHANGED <<status, left>>
            /\ pos' = [pos EXCEPT !.phase =
                          IF pl.strategy = Serial THEN Len(pl.phases) + 1 ELSE @ + 1]
      /\ UNCHANGED <<plan, scheduled, stored, pl, done, edits>>
  BY DEF EndPhase, Frame
<1>2. /\ TypeInv /\ PhasesCounted /\ StepsCounted
      /\ UnderWay(status, plan) /\ plan \in PlanSpecs /\ pl = plan
  BY <1>1 DEF IInv, PassInv, TypeInv
<1>3. /\ pos.phase \in Phases(plan) /\ Len(plan.phases) \in Nat
      /\ ~ IsFinished(OfPhase(status, pos.phase))
      /\ left.phases \in Int
      /\ Counted(status, plan, pos.phase, left.phases)
  BY <1>1, <1>2, PlanLengths DEF StepsCounted, TypeInv, PhasesCounted
<1>4. PhaseIndex = pos.phase
  BY <1>1, <1>3, AtPhases
<1>5. StepsCounted' /\ TasksCounted'
  BY <1>1 DEF StepsCounted, TasksCounted
<1>6. CASE /\ left.steps = {}
           /\ status' = [status EXCEPT !.phases[PhaseIndex].status = "COMPLETE"]
           /\ left' = [left EXCEPT !.phases = @ - 1]
           /\ pos' = [pos EXCEPT !.phase = @ + 1]
  <2>1. StepsFinished(status, plan, pos.phase)
    BY <1>1, <1>2, <1>6 DEF StepsCounted, StepsFinished
  <2>2. "COMPLETE" \in ExecutionStatus \ {Fatal}
    BY DEF ExecutionStatus, Fatal
  <2>3. status' = WithPhase(status, pos.phase, "COMPLETE")
    BY <1>4, <1>6 DEF WithPhase
  <2>4. /\ UnderWay(status', plan) /\ FinishedKept(status, status', plan)
        /\ status'.uid = status.uid
        /\ OfPhase(status', pos.phase) = "COMPLETE"
        /\ \A k \in Phases(plan) : k # pos.phase => OfPhase(status', k) = OfPhase(status, k)
        /\ \A k \in Phases(plan) : \A j \in Steps(plan, k) :
              OfStep(status', k, j) = OfStep(status, k, j)
    BY <1>2, <1>3, <2>1, <2>2, <2>3, PhaseChange
  <2>5. FinishedKept(status', status, plan)
    BY <2>4 DEF FinishedKept
  <2>6. StoredInv' /\ PassInv' /\ DoneInv'
    BY <1>1, <2>4, <2>5, PassStep
  <2>7. /\ pos' \in [phase : Nat, step : Nat, task : Nat] /\ pos'.phase = pos.phase + 1
        /\ left' \in [phases : Int, steps : SUBSET StepName, tasks : SUBSET NameOfTask]
        /\ left'.phases = left.phases - 1
    BY <1>2, <1>6 DEF TypeInv
  <2>8. TypeInv'
    BY <1>1, <1>2, <2>7 DEF TypeInv
  <2>9. Counted(status', plan, pos.phase + 1, left.phases - 1)
    <3>1. IsFinished(OfPhase(status', pos.phase))
      BY <2>4 DEF IsFinished
    <3> QED
      BY <1>2, <1>3, <2>4, <3>1, CountFinished
  <2> QED
    BY <1>1, <1>5, <2>6, <2>7, <2>8, <2>9 DEF IInv, PhasesCounted
<1>7. CASE /\ UNCHANGED <<status, left>>
           /\ pos' = [pos EXCEPT !.phase =
                         IF pl.strategy = Serial THEN Len(pl.phases) + 1 ELSE @ + 1]
  <2> DEFINE k == IF plan.strategy = Serial THEN Len(plan.phases) + 1 ELSE pos.phase + 1
  <2>1. Counted(status, plan, k, left.phases)
    BY <1>2, <1>3, CountUnfinished
  <2>2. k \in Nat
    BY <1>2, <1>3 DEF TypeInv
  <2>3. pos' = [pos EXCEPT !.phase = k]
    BY <1>2, <1>7
  <2> HIDE DEF k
  <2>4. pos' \in [phase : Nat, step : Nat, task : Nat] /\ pos'.phase = k
    BY <1>2, <2>2, <2>3 DEF TypeInv
  <2>5. TypeInv'
    BY <1>1, <1>2, <1>7, <2>4 DEF TypeInv
  <2>6. PhasesCounted'
    BY <1>1, <1>7, <2>1, <2>4 DEF PhasesCounted
  <2> QED
    BY <1>1, <1>5, <1>7, <2>5, <2>6, SameStatus DEF IInv
<1> QED
  BY <1>1, <1>6, <1>7

\* The plan is complete when no phase is left.
LEMMA EndPlanKeeps ==
    ASSUME Regular, IInv, EndPlan
    PROVE  IInv'
<1>1. /\ at = "phase" /\ pos.phase > Len(pl.phases) /\ at' = "return" /\ Frame
      /\ status' = IF left.phases = 0 THEN [status EXCEPT !.status = "COMPLETE"] ELSE status
      /\ UNCHANGED <<plan, scheduled, stored, pl, done, edits, pos, left>>
  BY DEF EndPlan, Frame
<1>2. /\ TypeInv /\ UnderWay(status, plan) /\ plan \in PlanSpecs /\ pl = plan
      /\ Counted(status, plan, pos.phase, left.phases)
      /\ Len(plan.phases) \in Nat
  BY <1>1, PlanLengths DEF IInv, PassInv, TypeInv, PhasesCounted
<1>3. left.phases = 0 <=> \A i \in Phases(plan) : IsFinished(OfPhase(status, i))
  <2>1. /\ pos.phase = Len(plan.phases) + 1
        /\ left.phases = 0 <=> Passed(status, plan, pos.phase)
    BY <1>1, <1>2 DEF Counted
  <2>2. \A i \in Phases(plan) : i < Len(plan.phases) + 1
    BY <1>2 DEF Phases
  <2> QED
    BY <2>1, <2>2 DEF Passed
<1>4. /\ Shaped(status', plan)
      /\ status'.uid = status.uid /\ status'.phases = status.phases
      /\ status'.status = IF left.phases = 0 THEN "COMPLETE" ELSE "IN_PROGRESS"
  <2>1. "COMPLETE" \in ExecutionStatus /\ Shaped(status, plan) /\ status.status = "IN_PROGRESS"
    BY <1>2 DEF ExecutionStatus, UnderWay
  <2>2. ASSUME left.phases = 0
        PROVE  status' = WithPlan(status, "COMPLETE")
    BY <1>1, <2>2 DEF WithPlan
  <2> QED
    BY <1>1, <1>2, <2>1, <2>2, SetPlan
<1>5. /\ \A i : OfPhase(status', i) = OfPhase(status, i)
      /\ \A i, j : OfStep(status', i, j) = OfStep(status, i, j)
  BY <1>4 DEF OfPhase, OfStep
<1>6. /\ NoFatal(status', plan) /\ PartsComplete(status', plan)
      /\ FinishedKept(status, status', plan) /\ FinishedKept(status', status, plan)
  BY <1>2, <1>4, <1>5
  DEF UnderWay, NoFatal, PartsComplete, StepsFinished, FinishedKept, Fatal
<1>7. Told(status', plan)
  <2>1. IsFinished(status'.status) <=> left.phases = 0
    BY <1>4 DEF IsFinished
  <2> QED
    BY <1>3, <1>4, <1>5, <1>6, <2>1 DEF Told
<1>8. StoredInv' /\ PassInv' /\ DoneInv'
  BY <1>1, <1>4, <1>6, <1>7, PassStep
<1>9. TypeInv' /\ PhasesCounted' /\ StepsCounted' /\ TasksCounted'
  BY <1>1, <1>2 DEF TypeInv, PhasesCounted, StepsCounted, TasksCounted
<1> QED
  BY <1>8, <1>9 DEF IInv

\* A finished step is skipped.
LEMMA SkipStepKeeps ==
    ASSUME Regular, IInv, SkipStep
    PROVE  IInv'
<1>1. /\ at = "step" /\ pos.step <= Len(Phase.steps) /\ IsFinished(CurrentStep.status)
      /\ left' = [left EXCEPT !.steps = @ \ {Step.name}]
      /\ pos' = [pos EXCEPT !.step = @ + 1]
      /\ at' = at /\ status' = status /\ Frame
      /\ UNCHANGED <<plan, scheduled, stored, pl, done, edits>>
  BY DEF SkipStep, AtStep, Frame
<1>2. /\ TypeInv /\ PhasesCounted /\ StepsCounted /\ plan \in PlanSpecs /\ NamesOnce
      /\ pos.phase \in Phases(plan)
  BY <1>1 DEF IInv, TypeInv, StepsCounted, Regular
<1>3. pos.step \in Steps(plan, pos.phase) /\ Len(plan.phases[pos.phase].steps) \in Nat
  BY <1>1, <1>2, AtPhases, PlanLengths DEF StepsCounted, Steps
<1>4. /\ Step = plan.phases[pos.phase].steps[pos.step]
      /\ IsFinished(OfStep(status, pos.phase, pos.step))
  BY <1>1, <1>3, AtSteps
<1>5. /\ pos' \in [phase : Nat, step : Nat, task : Nat]
      /\ pos'.phase = pos.phase /\ pos'.step = pos.step + 1
      /\ left' \in [phases : Int, steps : SUBSET StepName, tasks : SUBSET NameOfTask]
      /\ left'.phases = left.phases /\ left'.steps = left.steps \ {Step.name}
  BY <1>1, <1>2 DEF TypeInv
<1>6. TypeInv' /\ PhasesCounted' /\ TasksCounted'
  BY <1>1, <1>2, <1>5 DEF TypeInv, PhasesCounted, TasksCounted
<1>7. StepsCounted'
  <2>1. ASSUME NEW j \in Steps(plan, pos.phase),
               plan.phases[pos.phase].steps[j].name \notin left'.steps
        PROVE  IsFinished(OfStep(status, pos.phase, j))
    <3>1. CASE plan.phases[pos.phase].steps[j].name = Step.name
      <4>1. j = pos.step
        BY <1>2, <1>3, <1>4, <3>1 DEF NamesOnce
      <4> QED
        BY <1>4, <4>1
    <3>2. CASE plan.phases[pos.phase].steps[j].name # Step.name
      BY <1>1, <1>2, <1>5, <2>1, <3>2 DEF StepsCounted
    <3> QED
      BY <3>1, <3>2
  <2>2. \A j \in Steps(plan, pos.phase) : j < pos.step + 1 => j < pos.step \/ j = pos.step
    BY <1>3 DEF Steps
  <2>3. plan.phases[pos.phase].strategy = Serial =>
          \A j \in Steps(plan, pos.phase) :
              j < pos.step + 1 => IsFinished(OfStep(status, pos.phase, j))
    BY <1>1, <1>2, <1>3, <1>4, <2>2 DEF StepsCounted
  <2>4. pos.step + 1 \in Nat \ {0} /\ ~ IsFinished(OfPhase(status, pos.phase))
    BY <1>1, <1>2, <1>3 DEF StepsCounted
  <2> QED
    BY <1>1, <1>2, <1>5, <2>1, <2>3, <2>4 DEF StepsCounted
<1> QED
  BY <1>1, <1>6, <1>7, SameStatus DEF IInv

\* The tasks of a step come next.
LEMMA StartStepKeeps ==
    ASSUME Regular, IInv, StartStep
    PROVE  IInv'
<1>1. /\ at = "step" /\ pos.step <= Len(Phase.steps) /\ ~ IsFinished(CurrentStep.status)
      /\ status' = [status EXCEPT
                       !.phases[PhaseIndex].steps[StepIndex].status = InProgress(@)]
      /\ left' = [left EXCEPT !.tasks = ToSet(Step.tasks)]
      /\ at' = "task"
      /\ pos' = [pos EXCEPT !.task = 1]
      /\ taskDone' = {}
      /\ Frame
      /\ UNCHANGED <<plan, scheduled, stored, pl, done, edits>>
  BY DEF StartStep, AtStep, Frame
<1>2. /\ TypeInv /\ PhasesCounted /\ StepsCounted /\ plan \in PlanSpecs
      /\ UnderWay(status, plan)
      /\ pos.phase \in Phases(plan) /\ ~ IsFinished(OfPhase(status, pos.phase))
  BY <1>1 DEF IInv, TypeInv, PassInv, StepsCounted
<1>3. pos.step \in Steps(plan, pos.phase) /\ Len(plan.phases[pos.phase].steps) \in Nat
  BY <1>1, <1>2, AtPhases, PlanLengths DEF StepsCounted, Steps
<1>4. /\ Step = plan.phases[pos.phase].steps[pos.step]
      /\ PhaseIndex = pos.phase /\ StepIndex = pos.step
      /\ ~ IsFinished(OfStep(status, pos.phase, pos.step))
  BY <1>1, <1>3, AtSteps
<1> DEFINE st == InProgress(OfStep(status, pos.phase, pos.step))
<1>5. st \in ExecutionStatus \ {Fatal} /\ ~ IsFinished(st)
  <2>1. /\ OfStep(status, pos.phase, pos.step) \in ExecutionStatus
        /\ OfStep(status, pos.phase, pos.step) # Fatal
    BY <1>2, <1>3, ShapedParts DEF UnderWay, NoFatal
  <2> QED
    BY <1>4, <2>1, InProgressIs
<1>6. status' = WithStep(status, pos.phase, pos.step, st)
  BY <1>1, <1>4 DEF OfStep, WithStep
<1> HIDE DEF st
<1>7. /\ UnderWay(status', plan) /\ FinishedKept(status, status', plan)
      /\ status'.uid = status.uid
      /\ \A k \in Phases(plan) : OfPhase(status', k) = OfPhase(status, k)
      /\ OfStep(status', pos.phase, pos.step) = st
      /\ \A k \in Phases(plan) : \A l \in Steps(plan, k) :
            k # pos.phase \/ l # pos.step => OfStep(status', k, l) = OfStep(status, k, l)
  BY <1>2, <1>3, <1>4, <1>5, <1>6, StepChange
<1>8. FinishedKept(status', status, plan)
  BY <1>5, <1>7 DEF FinishedKept
<1>9. /\ pos' \in [phase : Nat, step : Nat, task : Nat]
      /\ pos'.phase = pos.phase /\ pos'.step = pos.step /\ pos'.task = 1
      /\ left' \in [phases : Int, steps : SUBSET StepName, tasks : SUBSET NameOfTask]
      /\ left'.phases = left.phases /\ left'.steps = left.steps
      /\ left'.tasks = ToSet(Step.tasks)
  <2>1. ToSet(Step.tasks) \subseteq NameOfTask
    BY <1>2, <1>3, <1>4 DEF NameOfTask
  <2> QED
    BY <1>1, <1>2, <2>1 DEF TypeInv
<1>10. TypeInv'
  BY <1>1, <1>2, <1>9 DEF TypeInv
<1>11. StoredInv' /\ PassInv' /\ DoneInv'
  BY <1>1, <1>7, <1>8, PassStep
<1>12. PhasesCounted'
  <2>1. Counted(status, plan, pos.phase, left.phases) /\ left.phases \in Int
    BY <1>1, <1>2 DEF PhasesCounted, TypeInv
  <2>2. Counted(status', plan, pos.phase, left.phases)
    BY <1>2, <1>7, <2>1, CountUnfinished
  <2> QED
    BY <1>1, <1>9, <2>2 DEF PhasesCounted
<1>13. StepsCounted'
  BY <1>1, <1>2, <1>7, <1>9 DEF StepsCounted, FinishedKept
<1>14. TasksCounted'
  <2>1. DOMAIN Step.tasks = Tasks(plan, pos.phase, pos.step)
    BY <1>2, <1>3, <1>4, PlanLengths
  <2>2. \A k \in Tasks(plan, pos.phase, pos.step) : Step.tasks[k] \in left'.tasks
    BY <1>9, <2>1 DEF ToSet
  <2>3. /\ pos'.phase = pos.phase /\ pos'.step = pos.step /\ pos'.task = 1
        /\ plan' = plan /\ taskDone' = {}
        /\ ~ IsFinished(OfStep(status', pos.phase, pos.step))
    BY <1>1, <1>5, <1>7, <1>9
  <2>4. \A k \in Tasks(plan, pos.phase, pos.step) :
          plan.phases[pos.phase].steps[pos.step].tasks[k] \in left'.tasks
    BY <1>4, <2>2
  <2> QED
    BY <1>3, <2>3, <2>4 DEF TasksCounted
<1> QED
  BY <1>10, <1>11, <1>12, <1>13, <1>14 DEF IInv

\* Where a pass is that has come to a task or to the end of a step.
LEMMA AtTasks ==
    ASSUME Regular, IInv, at = "task"
    PROVE  /\ plan \in PlanSpecs /\ pl = plan /\ NamesOnce /\ TypeInv
           /\ UnderWay(status, plan)
           /\ pos.phase \in Phases(plan) /\ pos.step \in Steps(plan, pos.phase)
           /\ ~ IsFinished(OfPhase(status, pos.phase))
           /\ ~ IsFinished(OfStep(status, pos.phase, pos.step))
           /\ Phase = plan.phases[pos.phase]
           /\ Step = plan.phases[pos.phase].steps[pos.step]
           /\ PhaseIndex = pos.phase /\ StepIndex = pos.step /\ StepIndex # 0
           /\ Len(plan.phases[pos.phase].steps) \in Nat /\ Len(Step.tasks) \in Nat
           /\ Tasks(plan, pos.phase, pos.step) = 1 .. Len(Step.tasks)
           /\ pos.step \in Nat /\ pos.task \in Nat \ {0}
           /\ Counted(status, plan, pos.phase, left.phases) /\ left.phases \in Int
<1>1. /\ plan \in PlanSpecs /\ pl = plan /\ NamesOnce /\ TypeInv
      /\ UnderWay(status, plan)
      /\ pos.phase \in Phases(plan) /\ pos.step \in Steps(plan, pos.phase)
      /\ ~ IsFinished(OfPhase(status, pos.phase))
      /\ ~ IsFinished(OfStep(status, pos.phase, pos.step))
      /\ pos.step \in Nat /\ pos.task \in Nat \ {0}
      /\ Counted(status, plan, pos.phase, left.phases) /\ left.phases \in Int
  BY DEF IInv, TypeInv, PassInv, PhasesCounted, StepsCounted, TasksCounted, Regular
<1>2. /\ Phase = plan.phases[pos.phase]
      /\ Step = plan.phases[pos.phase].steps[pos.step]
      /\ PhaseIndex = pos.phase /\ StepIndex = pos.step /\ StepIndex # 0
      /\ Len(Step.tasks) \in Nat
  BY <1>1, AtSteps
<1>3. Len(plan.phases[pos.phase].steps) \in Nat
  BY <1>1, PlanLengths
<1> QED
  BY <1>1, <1>2, <1>3 DEF Tasks

\* A visited step is finished when no task is left, and then all were done.
LEMMA EndStepKeeps ==
    ASSUME Regular, IInv, EndStep
    PROVE  IInv'
<1>1. /\ at = "task" /\ at' = "step"
      /\ \/ /\ left.tasks = {}
            /\ status' = [status EXCEPT
                  !.phases[PhaseIndex].steps[StepIndex].status = "COMPLETE"]
            /\ left' = [left EXCEPT !.steps = @ \ {Step.name}]
            /\ pos' = [pos EXCEPT !.step = @ + 1]
         \/ /\ UNCHANGED <<status, left>>
            /\ pos' = [pos EXCEPT !.step =
                          IF Phase.strategy = Serial THEN Len(Phase.steps) + 1 ELSE @ + 1]
      /\ done' = IF taskDone = 1 .. Len(Step.tasks) /\ status.uid = scheduled
                 THEN done \cup {<<pos.phase, pos.step>>} ELSE done
      /\ UNCHANGED <<plan, scheduled, stored, pl, edits>>
  BY DEF EndStep, Visited, bounds
<1>2. /\ TypeInv /\ StepsCounted /\ TasksCounted /\ DoneInv
  BY <1>1 DEF IInv
<1>3. /\ plan \in PlanSpecs /\ pl = plan /\ NamesOnce
      /\ UnderWay(status, plan)
      /\ pos.phase \in Phases(plan) /\ pos.step \in Steps(plan, pos.phase)
      /\ ~ IsFinished(OfPhase(status, pos.phase))
      /\ ~ IsFinished(OfStep(status, pos.phase, pos.step))
      /\ Phase = plan.phases[pos.phase]
      /\ Step = plan.phases[pos.phase].steps[pos.step]
      /\ PhaseIndex = pos.phase /\ StepIndex = pos.step
      /\ Len(plan.phases[pos.phase].steps) \in Nat /\ Len(Step.tasks) \in Nat
      /\ Tasks(plan, pos.phase, pos.step) = 1 .. Len(Step.tasks)
      /\ pos.step \in Nat
      /\ Counted(status, plan, pos.phase, left.phases) /\ left.phases \in Int
  BY <1>1, AtTasks
<1>4. /\ done \subseteq done' /\ done' \subseteq Order!AllSteps(plan)
      /\ left.tasks = {} /\ status.uid = scheduled => <<pos.phase, pos.step>> \in done'
  <2>1. <<pos.phase, pos.step>> \in Order!AllSteps(plan)
    BY <1>3 DEF Order!AllSteps, Order!StepsOf, Phases, Steps
  <2>2. left.tasks = {} => taskDone = 1 .. Len(Step.tasks)
    BY <1>1, <1>2, <1>3 DEF TasksCounted
  <2> QED
    BY <1>1, <1>2, <2>1, <2>2 DEF DoneInv
<1>5. stored.uid = scheduled => ReallyDone(stored)'
  BY <1>1, <1>2, <1>4 DEF DoneInv, ReallyDone
<1>6. TasksCounted'
  BY <1>1 DEF TasksCounted
<1>7. CASE /\ left.tasks = {}
           /\ status' = [status EXCEPT
                 !.phases[PhaseIndex].steps[StepIndex].status = "COMPLETE"]
           /\ left' = [left EXCEPT !.steps = @ \ {Step.name}]
           /\ pos' = [pos EXCEPT !.step = @ + 1]
  <2> DEFINE st == "COMPLETE"
             c == WithStep(status, pos.phase, pos.step, st)
  <2>1. st \in ExecutionStatus \ {Fatal} /\ IsFinished(st)
    BY DEF ExecutionStatus, Fatal, IsFinished
  <2>2. status' = c
    BY <1>3, <1>7 DEF WithStep
  <2> HIDE DEF st
  <2>3. /\ UnderWay(c, plan) /\ FinishedKept(status, c, plan)
        /\ c.uid = status.uid
        /\ \A k \in Phases(plan) : OfPhase(c, k) = OfPhase(status, k)
        /\ OfStep(c, pos.phase, pos.step) = st
        /\ \A k \in Phases(plan) : \A l \in Steps(plan, k) :
              k # pos.phase \/ l # pos.step => OfStep(c, k, l) = OfStep(status, k, l)
    BY <1>3, <2>1, StepChange
  <2> HIDE DEF c
  <2>4. StoredInv' /\ PassInv'
    BY <1>1, <2>3, <2>2, PassStep
  <2>5. DoneInv'
    <3>1. ASSUME status.uid = scheduled, NEW k \in Phases(plan), NEW l \in Steps(plan, k),
                 IsFinished(OfStep(c, k, l))
          PROVE  <<k, l>> \in done'
      <4>1. CASE k = pos.phase /\ l = pos.step
        BY <1>4, <1>7, <3>1, <4>1
      <4>2. CASE k # pos.phase \/ l # pos.step
        BY <1>1, <1>2, <1>4, <2>3, <3>1, <4>2 DEF DoneInv, ReallyDone
      <4> QED
        BY <4>1, <4>2
    <3>2. status.uid = scheduled => ReallyDone(status)'
      BY <1>1, <2>2, <3>1 DEF ReallyDone
    <3> QED
      BY <1>1, <1>4, <1>5, <2>3, <2>2, <3>2 DEF DoneInv
  <2>6. /\ pos' \in [phase : Nat, step : Nat, task : Nat]
        /\ pos'.phase = pos.phase /\ pos'.step = pos.step + 1
        /\ left' \in [phases : Int, steps : SUBSET StepName, tasks : SUBSET NameOfTask]
        /\ left'.phases = left.phases /\ left'.steps = left.steps \ {Step.name}
    BY <1>2, <1>7 DEF TypeInv
  <2>7. TypeInv'
    BY <1>1, <1>2, <2>6 DEF TypeInv
  <2>8. PhasesCounted'
    <3>1. ~ IsFinished(OfPhase(c, pos.phase))
      BY <1>3, <2>3
    <3>2. Counted(c, plan, pos.phase, left.phases)
      BY <1>3, <2>3, <3>1, CountUnfinished
    <3> QED
      BY <1>1, <2>2, <2>6, <3>2 DEF PhasesCounted
  <2>9. StepsCounted'
    <3>1. ASSUME NEW j \in Steps(plan, pos.phase),
                 plan.phases[pos.phase].steps[j].name \notin left'.steps
          PROVE  IsFinished(OfStep(c, pos.phase, j))
      <4>1. CASE plan.phases[pos.phase].steps[j].name = Step.name
        <5>1. j = pos.step
          BY <1>3, <4>1 DEF NamesOnce
        <5> QED
          BY <2>1, <2>3, <5>1
      <4>2. CASE plan.phases[pos.phase].steps[j].name # Step.name
        BY <1>1, <1>2, <1>3, <2>3, <2>6, <3>1, <4>2 DEF StepsCounted, FinishedKept
      <4> QED
        BY <4>1, <4>2
    <3>2. \A j \in Steps(plan, pos.phase) : j < pos.step + 1 => j < pos.step \/ j = pos.step
      BY <1>3 DEF Steps
    <3>3. plan.phases[pos.phase].strategy = Serial =>
            \A j \in Steps(plan, pos.phase) :
                j < pos.step + 1 => IsFinished(OfStep(c, pos.phase, j))
      BY <1>1, <1>2, <1>3, <2>1, <2>3, <3>2 DEF StepsCounted, FinishedKept
    <3>4. pos.step + 1 \in Nat \ {0} /\ ~ IsFinished(OfPhase(c, pos.phase))
      BY <1>3, <2>3
    <3> QED
      BY <1>1, <1>3, <2>2, <2>6, <3>1, <3>3, <3>4 DEF StepsCounted
  <2> QED
    BY <1>6, <2>4, <2>5, <2>7, <2>8, <2>9 DEF IInv
<1>8. CASE /\ UNCHANGED <<status, left>>
           /\ pos' = [pos EXCEPT !.step =
                         IF Phase.strategy = Serial THEN Len(Phase.steps) + 1 ELSE @ + 1]
  <2> DEFINE k == IF Phase.strategy = Serial THEN Len(Phase.steps) + 1 ELSE pos.step + 1
  <2>1. /\ k \in Nat \ {0}
        /\ Phase.strategy = Serial => k \notin Steps(plan, pos.phase)
    <3>1. Len(Phase.steps) = Len(plan.phases[pos.phase].steps)
      BY <1>3
    <3>2. \A n \in Nat : n + 1 \in Nat \ {0} /\ n + 1 \notin 1 .. n
      OBVIOUS
    <3> QED
      BY <1>3, <3>1, <3>2 DEF Steps
  <2>2. pos' = [pos EXCEPT !.step = k]
    BY <1>8
  <2> HIDE DEF k
  <2>3. pos' \in [phase : Nat, step : Nat, task : Nat]
        /\ pos'.phase = pos.phase /\ pos'.step = k
    BY <1>2, <2>1, <2>2 DEF TypeInv
  <2>4. TypeInv' /\ PhasesCounted'
    BY <1>1, <1>2, <1>3, <1>8, <2>3 DEF TypeInv, PhasesCounted
  <2>5. StoredInv' /\ PassInv'
    <3>1. FinishedKept(status, status', plan) /\ UnderWay(status', plan) /\ status'.uid = status.uid
      BY <1>3, <1>8 DEF FinishedKept
    <3> QED
      BY <1>1, <3>1, PassStep
  <2>6. DoneInv'
    BY <1>1, <1>2, <1>4, <1>5, <1>8 DEF DoneInv, ReallyDone
  <2>7. StepsCounted'
    BY <1>1, <1>2, <1>3, <1>8, <2>1, <2>3 DEF StepsCounted
  <2> QED
    BY <1>6, <2>4, <2>5, <2>6, <2>7 DEF IInv
<1> QED
  BY <1>1, <1>7, <1>8

\* Every step of a phase has a status.
LEMMA NoStatusMissing ==
    ASSUME Regular, IInv, MissingStepStatus
    PROVE  FALSE
<1>1. at = "step" /\ pos.step <= Len(Phase.steps) /\ StepIndex = 0
  BY DEF MissingStepStatus, AtStep
<1>2. /\ plan \in PlanSpecs /\ pos.phase \in Phases(plan) /\ pos.step \in Nat \ {0}
  BY <1>1 DEF IInv, TypeInv, StepsCounted
<1>3. pos.step \in Steps(plan, pos.phase)
  BY <1>1, <1>2, AtPhases, PlanLengths DEF Steps
<1> QED
  BY <1>1, <1>3, AtSteps

\* A task fails fatally: the pass returns.
LEMMA TaskFatalKeeps ==
    ASSUME Regular, IInv, TaskInvalid \/ TaskFatal
    PROVE  IInv'
<1>1. /\ at = "task" /\ at' = "return" /\ status' = FatalError /\ Frame
      /\ UNCHANGED <<plan, scheduled, stored, pl, done, edits, pos, left>>
  BY DEF TaskInvalid, TaskFatal, AtTask, Frame
<1>2. /\ plan \in PlanSpecs /\ pl = plan /\ TypeInv
      /\ UnderWay(status, plan)
      /\ pos.phase \in Phases(plan) /\ pos.step \in Steps(plan, pos.phase)
      /\ ~ IsFinished(OfPhase(status, pos.phase))
      /\ ~ IsFinished(OfStep(status, pos.phase, pos.step))
      /\ PhaseIndex = pos.phase /\ StepIndex = pos.step /\ StepIndex # 0
  BY <1>1, AtTasks
<1> DEFINE c == WithStep(WithPhase(WithPlan(status, Fatal), pos.phase, Fatal),
                         pos.phase, pos.step, Fatal)
<1>3. status' = c
  BY <1>1, <1>2 DEF FatalError, Fatal, WithPlan, WithPhase, WithStep
<1>4. /\ Told(c, plan) /\ FinishedKept(status, c, plan)
      /\ c.uid = status.uid
      /\ \A k \in Phases(plan) : \A l \in Steps(plan, k) :
            IsFinished(OfStep(c, k, l)) => IsFinished(OfStep(status, k, l))
  BY <1>2, FatalChange
<1> HIDE DEF c
<1>5. StoredInv' /\ PassInv' /\ DoneInv'
  BY <1>1, <1>3, <1>4, PassStep DEF FinishedKept
<1>6. TypeInv' /\ PhasesCounted' /\ StepsCounted' /\ TasksCounted'
  BY <1>1, <1>2 DEF TypeInv, PhasesCounted, StepsCounted, TasksCounted
<1> QED
  BY <1>5, <1>6 DEF IInv

\* A task fails transiently or is not done yet: the next one comes.
LEMMA TaskErrorKeeps ==
    ASSUME Regular, IInv, TaskError
    PROVE  IInv'
<1>1. /\ at = "task" /\ at' = at /\ Frame
      /\ status' = [status EXCEPT !.phases[PhaseIndex].steps[StepIndex].status = "ERROR"]
      /\ pos' = [pos EXCEPT !.task = @ + 1]
      /\ UNCHANGED <<plan, scheduled, stored, pl, done, edits, left, taskDone>>
  BY DEF TaskError, AtTask, NextTask, Frame
<1>2. /\ plan \in PlanSpecs /\ pl = plan /\ TypeInv
      /\ UnderWay(status, plan)
      /\ pos.phase \in Phases(plan) /\ pos.step \in Steps(plan, pos.phase)
      /\ ~ IsFinished(OfPhase(status, pos.phase))
      /\ ~ IsFinished(OfStep(status, pos.phase, pos.step))
      /\ PhaseIndex = pos.phase /\ StepIndex = pos.step
      /\ Counted(status, plan, pos.phase, left.phases) /\ left.phases \in Int
  BY <1>1, AtTasks
<1> DEFINE st == "ERROR"
           c == WithStep(status, pos.phase, pos.step, st)
<1>3. st \in ExecutionStatus \ {Fatal} /\ ~ IsFinished(st)
  BY DEF ExecutionStatus, Fatal, IsFinished
<1>4. status' = c
  BY <1>1, <1>2 DEF WithStep
<1> HIDE DEF st
<1>5. /\ UnderWay(c, plan) /\ FinishedKept(status, c, plan)
      /\ c.uid = status.uid
      /\ \A k \in Phases(plan) : OfPhase(c, k) = OfPhase(status, k)
      /\ OfStep(c, pos.phase, pos.step) = st
      /\ \A k \in Phases(plan) : \A l \in Steps(plan, k) :
            k # pos.phase \/ l # pos.step => OfStep(c, k, l) = OfStep(status, k, l)
  BY <1>2, <1>3, StepChange
<1> HIDE DEF c
<1>6. FinishedKept(c, status, plan)
  BY <1>3, <1>5 DEF FinishedKept
<1>7. StoredInv' /\ PassInv' /\ DoneInv'
  BY <1>1, <1>4, <1>5, <1>6, PassStep
<1>8. /\ pos' \in [phase : Nat, step : Nat, task : Nat]
      /\ pos'.phase = pos.phase /\ pos'.step = pos.step /\ pos'.task = pos.task + 1
  BY <1>1, <1>2 DEF TypeInv
<1>9. TypeInv'
  BY <1>1, <1>2, <1>8 DEF TypeInv
<1>10. PhasesCounted'
  <2>1. Counted(c, plan, pos.phase, left.phases)
    BY <1>2, <1>5, CountUnfinished
  <2> QED
    BY <1>1, <1>4, <1>8, <2>1 DEF PhasesCounted
<1>11. StepsCounted /\ TasksCounted
  BY DEF IInv
<1>12. StepsCounted'
  BY <1>1, <1>2, <1>4, <1>5, <1>8, <1>11 DEF StepsCounted, FinishedKept
<1>13. TasksCounted'
  <2>1. /\ plan' = plan /\ left' = left /\ taskDone' = taskDone
        /\ ~ IsFinished(OfStep(status', pos.phase, pos.step))
        /\ pos'.task \in Nat \ {0}
    BY <1>1, <1>3, <1>4, <1>5, <1>8, <1>11 DEF TasksCounted
  <2> QED
    BY <1>1, <1>2, <1>8, <1>11, <2>1 DEF TasksCounted
<1> QED
  BY <1>7, <1>9, <1>10, <1>12, <1>13 DEF IInv

\* A task is done, or not yet.
LEMMA TaskDoneKeeps ==
    ASSUME Regular, IInv, TaskDone \/ TaskNotDone
    PROVE  IInv'
<1>1. /\ at = "task" /\ pos.task <= Len(Step.tasks) /\ at' = at /\ Frame
      /\ status' = status
      /\ pos' = [pos EXCEPT !.task = @ + 1]
      /\ UNCHANGED <<plan, scheduled, stored, pl, done, edits>>
  BY DEF TaskDone, TaskNotDone, AtTask, NextTask, Frame
<1>0. \/ /\ left' = [left EXCEPT !.tasks = @ \ {Step.tasks[pos.task]}]
         /\ taskDone' = taskDone \cup {pos.task}
      \/ left' = left /\ taskDone' = taskDone
  BY DEF TaskDone, TaskNotDone, TaskName
<1>2. /\ plan \in PlanSpecs /\ pl = plan /\ TypeInv /\ NamesOnce
      /\ pos.phase \in Phases(plan) /\ pos.step \in Steps(plan, pos.phase)
      /\ Step = plan.phases[pos.phase].steps[pos.step]
      /\ Len(Step.tasks) \in Nat
      /\ Tasks(plan, pos.phase, pos.step) = 1 .. Len(Step.tasks)
      /\ pos.task \in Nat \ {0}
  BY <1>1, AtTasks
<1>3. StoredInv' /\ PassInv' /\ DoneInv'
  BY <1>1, SameStatus
<1>4. /\ pos' \in [phase : Nat, step : Nat, task : Nat]
      /\ pos'.phase = pos.phase /\ pos'.step = pos.step /\ pos'.task = pos.task + 1
  BY <1>1, <1>2 DEF TypeInv
<1>5. /\ left' \in [phases : Int, steps : SUBSET StepName, tasks : SUBSET NameOfTask]
      /\ left'.phases = left.phases /\ left'.steps = left.steps
      /\ \/ left'.tasks = left.tasks \ {Step.tasks[pos.task]}
            /\ taskDone' = taskDone \cup {pos.task}
         \/ left'.tasks = left.tasks /\ taskDone' = taskDone
  <2>1. CASE /\ left' = [left EXCEPT !.tasks = @ \ {Step.tasks[pos.task]}]
             /\ taskDone' = taskDone \cup {pos.task}
    BY <1>2, <2>1 DEF TypeInv
  <2>2. CASE left' = left /\ taskDone' = taskDone
    BY <1>2, <2>2 DEF TypeInv
  <2> QED
    BY <1>0, <2>1, <2>2
<1>6. TypeInv'
  BY <1>1, <1>2, <1>4, <1>5 DEF TypeInv
<1>7. PhasesCounted /\ StepsCounted /\ TasksCounted
  BY DEF IInv
<1>8. PhasesCounted'
  BY <1>1, <1>4, <1>5, <1>7 DEF PhasesCounted
<1>9. StepsCounted'
  BY <1>1, <1>4, <1>5, <1>7 DEF StepsCounted
<1>10. TasksCounted'
  <2>1. pos.task \in Tasks(plan, pos.phase, pos.step)
    <3>1. pos.task <= Len(Step.tasks)
      BY <1>1
    <3>2. \A n \in Nat : pos.task <= n => pos.task \in 1 .. n
      BY <1>2
    <3> QED
      BY <1>2, <3>1, <3>2
  <2>2. /\ taskDone \subseteq Tasks(plan, pos.phase, pos.step)
        /\ \A k \in Tasks(plan, pos.phase, pos.step) :
              Step.tasks[k] \notin left.tasks => k \in taskDone
        /\ ~ IsFinished(OfStep(status, pos.phase, pos.step))
    BY <1>1, <1>2, <1>7 DEF TasksCounted
  <2>3. \A k \in Tasks(plan, pos.phase, pos.step) :
          Step.tasks[k] = Step.tasks[pos.task] => k = pos.task
    BY <1>2, <2>1 DEF NamesOnce
  <2>4. /\ taskDone' \subseteq Tasks(plan, pos.phase, pos.step)
        /\ \A k \in Tasks(plan, pos.phase, pos.step) :
              Step.tasks[k] \notin left'.tasks => k \in taskDone'
    BY <1>5, <2>1, <2>2, <2>3
  <2>5. \A k \in Tasks(plan, pos.phase, pos.step) :
          plan.phases[pos.phase].steps[pos.step].tasks[k] \notin left'.tasks
            => k \in taskDone'
    BY <1>2, <2>4
  <2>6. /\ plan' = plan /\ status' = status /\ pos'.task \in Nat \ {0}
    BY <1>1, <1>2, <1>4
  <2> QED
    BY <1>2, <1>4, <2>2, <2>4, <2>5, <2>6 DEF TasksCounted
<1> QED
  BY <1>3, <1>6, <1>8, <1>9, <1>10 DEF IInv

\* Every step keeps the invariant.
LEMMA NextIInv ==
    ASSUME Regular, IInv, [Next]_vars
    PROVE  IInv'
<1>1. ASSUME UNCHANGED vars PROVE IInv'
  <2>1. UNCHANGED <<plan, scheduled, stored, at, pl, status, pos, left, done, taskDone, edits>>
    BY <1>1 DEF vars, pass, history, bounds
  <2>2. TypeInv' /\ StoredInv'
    BY <2>1 DEF IInv, TypeInv, StoredInv
  <2>3. PassInv' /\ PhasesCounted'
    BY <2>1 DEF IInv, PassInv, PhasesCounted
  <2>4. StepsCounted' /\ TasksCounted'
    BY <2>1 DEF IInv, StepsCounted, TasksCounted
  <2>5. DoneInv'
    BY <2>1 DEF IInv, DoneInv, ReallyDone
  <2> QED
    BY <2>2, <2>3, <2>4, <2>5 DEF IInv
<1>2. CASE ExecuteTerminal
  BY <1>1, <1>2, ExecuteTerminalKeepsAll
<1>3. CASE Execute \/ UpdateStatus \/ UpdateRefused \/ PassLost \/ Trigger
  BY <1>3, ExecuteKeeps, EndOfPassKeeps, TriggerKeeps
<1>4. CASE ExecutePhase
  BY <1>4, SkipPhaseKeeps, StartPhaseKeeps, EndPhaseKeeps, EndPlanKeeps DEF ExecutePhase
<1>5. CASE ExecuteStep
  BY <1>5, NoStatusMissing, SkipStepKeeps, StartStepKeeps, EndStepKeeps DEF ExecuteStep
<1>6. CASE ExecuteTask
  BY <1>6, TaskFatalKeeps, TaskErrorKeeps, TaskDoneKeeps DEF ExecuteTask
<1>7. CASE EditPlan
  BY <1>7 DEF EditPlan, Regular, IInv, TypeInv
<1> QED
  BY <1>1, <1>2, <1>3, <1>4, <1>5, <1>6, <1>7 DEF Next, Engine

(* ------------------------------ theorems ------------------------------ *)

\* The invariant holds for every plan with names that occur once.
THEOREM EngineInvariance ==
    ASSUME Regular
    PROVE  Spec => []IInv
<1>1. IInv /\ [Next]_vars => IInv'
  BY NextIInv
<1> QED
  BY <1>1, InitIInv, PTL DEF Spec

\* A stored status is complete on a level exactly if its parts are: the counters
\* of Execute count every part once, whichever pass finished it.
THEOREM CompleteMeansAllParts ==
    ASSUME Regular
    PROVE  Spec => []CompleteOnAllLevels
<1>1. ASSUME IInv PROVE CompleteOnAllLevels
  <2>1. CASE stored = [uid |-> 0, status |-> "NEVER_RUN", phases |-> <<>>]
    BY <2>1 DEF CompleteOnAllLevels
  <2>2. CASE Told(stored, plan)
    <3>1. plan \in PlanSpecs /\ Shaped(stored, plan)
      BY <1>1, <2>2 DEF IInv, TypeInv, Told
    <3>2. /\ DOMAIN stored.phases = Phases(plan)
          /\ \A i \in Phases(plan) : DOMAIN stored.phases[i].steps = Steps(plan, i)
      BY <3>1, ShapedParts
    <3> QED
      BY <2>2, <3>2 DEF Told, PartsComplete, StepsFinished, OfPhase, OfStep, CompleteOnAllLevels
  <2> QED
    BY <1>1, <2>1, <2>2 DEF IInv, StoredInv
<1> QED
  BY <1>1, EngineInvariance, PTL

\* The fatal errors of a status in the form of a plan.
LEMMA FatalErrorsOf ==
    ASSUME NEW p \in PlanSpecs, NEW s, Shaped(s, p)
    PROVE  /\ FatalPhases(s) = {i \in Phases(p) : OfPhase(s, i) = Fatal}
           /\ \A x : x \in FatalErrors(s) <=>
                 \E i \in Phases(p) : \E j \in Steps(p, i) :
                    x = <<i, j>> /\ OfStep(s, i, j) = Fatal
<1>1. /\ DOMAIN s.phases = Phases(p)
      /\ \A i \in Phases(p) : DOMAIN s.phases[i].steps = Steps(p, i)
  BY ShapedParts
<1>2. FatalPhases(s) = {i \in Phases(p) : OfPhase(s, i) = Fatal}
  BY <1>1 DEF FatalPhases, OfPhase, Fatal
<1> DEFINE all == UNION {{i} \X DOMAIN s.phases[i].steps : i \in DOMAIN s.phases}
<1>3. ASSUME NEW x
      PROVE  x \in all <=> \E i \in Phases(p) : \E j \in Steps(p, i) : x = <<i, j>>
  BY <1>1
<1>4. FatalErrors(s) = {x \in all : s.phases[x[1]].steps[x[2]].status = Fatal}
  BY DEF FatalErrors, Fatal
<1> HIDE DEF all
<1>5. ASSUME NEW x
      PROVE  x \in FatalErrors(s) <=>
                 \E i \in Phases(p) : \E j \in Steps(p, i) :
                    x = <<i, j>> /\ OfStep(s, i, j) = Fatal
  BY <1>3, <1>4 DEF OfStep
<1> QED
  BY <1>2, <1>5

\* A fatal error is told on every level: for the plan, the phase and the step.
THEOREM FatalErrorIsTold ==
    ASSUME Regular
    PROVE  Spec => []FatalErrorOnAllLevels
<1>1. ASSUME IInv PROVE FatalErrorOnAllLevels
  <2>1. CASE stored = [uid |-> 0, status |-> "NEVER_RUN", phases |-> <<>>]
    <3>1. FatalErrors(stored) = {} /\ FatalPhases(stored) = {}
      BY <2>1 DEF FatalErrors, FatalPhases
    <3> QED
      BY <2>1, <3>1 DEF FatalErrorOnAllLevels
  <2>2. CASE Told(stored, plan)
    <3>1. plan \in PlanSpecs /\ Shaped(stored, plan)
      BY <1>1, <2>2 DEF IInv, TypeInv, Told
    <3>2. /\ FatalPhases(stored) = {i \in Phases(plan) : OfPhase(stored, i) = Fatal}
          /\ \A x : x \in FatalErrors(stored) <=>
                \E i \in Phases(plan) : \E j \in Steps(plan, i) :
                   x = <<i, j>> /\ OfStep(stored, i, j) = Fatal
      BY <3>1, FatalErrorsOf
    <3>3. CASE NoFatal(stored, plan)
      <4>1. FatalErrors(stored) = {} /\ FatalPhases(stored) = {}
        BY <3>2, <3>3 DEF NoFatal
      <4>2. stored.status # "FATAL_ERROR"
        BY <3>3 DEF NoFatal, Fatal
      <4> QED
        BY <4>1, <4>2 DEF FatalErrorOnAllLevels
    <3>4. CASE OneFatal(stored, plan)
      <4>0. PICK i \in Phases(plan) : \E j \in Steps(plan, i) : FatalAt(stored, plan, i, j)
        BY <3>4 DEF OneFatal
      <4>1. PICK j \in Steps(plan, i) : FatalAt(stored, plan, i, j)
        BY <4>0
      <4>2. FatalErrors(stored) = {<<i, j>>} /\ FatalPhases(stored) = {i}
        BY <3>2, <4>1 DEF FatalAt
      <4>3. stored.status = "FATAL_ERROR"
        BY <4>1 DEF FatalAt, Fatal
      <4>4. {x[1] : x \in FatalErrors(stored)} = {i}
        BY <4>2
      <4> QED
        BY <4>2, <4>3, <4>4 DEF FatalErrorOnAllLevels
    <3> QED
      BY <2>2, <3>3, <3>4 DEF Told
  <2> QED
    BY <1>1, <2>1, <2>2 DEF IInv, StoredInv
<1> QED
  BY <1>1, EngineInvariance, PTL

\* The stored status changes only at the end of a pass of the same execution.
LEMMA OnlyPassesAreStored ==
    ASSUME Regular, IInv, [Next]_vars, stored' # stored
    PROVE  /\ UpdateStatus /\ at = "return" /\ stored' = status /\ status.uid = scheduled
           /\ stored.uid = status.uid =>
                 ~ IsTerminal(stored.status) /\ FinishedKept(stored, status, plan)
           /\ Told(status, plan)
<1>1. ~ ExecuteTerminal
  BY ExecuteTerminalKeepsAll DEF vars
<1>2. UpdateStatus
  BY <1>1 DEF Next, Engine, vars, Execute, ExecutePhase, ExecuteStep, ExecuteTask, SkipPhase,
     StartPhase, EndPhase, EndPlan, MissingStepStatus, SkipStep, StartStep, EndStep,
     TaskInvalid, TaskFatal, TaskError, TaskNotDone, TaskDone, UpdateRefused, PassLost,
     Trigger, EditPlan, Frame
<1> QED
  BY <1>2 DEF UpdateStatus, IInv, PassInv

\* Within an execution, what is stored as complete stays so, and a plan that has
\* come to its end does not change any more.
THEOREM ProgressKept ==
    ASSUME Regular
    PROVE  Spec => ProgressIsKept
<1> DEFINE Kept ==
      stored'.uid = stored.uid =>
          /\ IsTerminal(stored.status) => stored' = stored
          /\ \A i \in DOMAIN stored.phases :
                \A j \in DOMAIN stored.phases[i].steps :
                   IsFinished(stored.phases[i].steps[j].status)
                     => IsFinished(stored'.phases[i].steps[j].status)
<1>1. ASSUME IInv, [Next]_vars PROVE Kept
  <2>1. CASE stored' = stored
    BY <2>1
  <2>2. CASE stored' # stored
    <3> SUFFICES ASSUME stored'.uid = stored.uid PROVE Kept
      OBVIOUS
    <3>1. /\ stored' = status /\ ~ IsTerminal(stored.status)
          /\ status.uid = scheduled /\ scheduled # 0
          /\ FinishedKept(stored, status, plan) /\ plan \in PlanSpecs
      BY <1>1, <2>2, OnlyPassesAreStored DEF IInv, TypeInv
    <3>2. Told(stored, plan)
      BY <1>1, <3>1 DEF IInv, StoredInv
    <3>3. /\ DOMAIN stored.phases = Phases(plan)
          /\ \A i \in Phases(plan) : DOMAIN stored.phases[i].steps = Steps(plan, i)
      BY <3>1, <3>2, ShapedParts DEF Told
    <3> QED
      BY <3>1, <3>3 DEF FinishedKept, OfStep
  <2> QED
    BY <2>1, <2>2
<1>2. IInv /\ [Next]_vars => [Kept]_vars
  BY <1>1
<1> QED
  BY <1>2, EngineInvariance, PTL DEF Spec, ProgressIsKept

(* -------------------- the promise of PlanOrder is kept ----------------- *)

\* What Order reads: the step that is worked on and the outcome.
ActiveStep == IF at = "task" /\ status.uid = scheduled THEN {Visited} ELSE {}
Outcome ==
    CASE stored.uid = scheduled /\ stored.status = "COMPLETE" -> "complete"
      [] stored.uid = scheduled /\ stored.status = "FATAL_ERROR" -> "failed"
      [] OTHER -> "running"

\* Nothing happens for Order.
LEMMA Unnoticed ==
    ASSUME UNCHANGED <<plan, done, ActiveStep, Outcome>>
    PROVE  UNCHANGED Order!vars
BY DEF Order!vars, ActiveStep, Outcome

\* The outcome depends on what is stored and scheduled.
LEMMA OutcomeIs ==
    /\ stored.uid # scheduled \/ ~ IsTerminal(stored.status) => Outcome = "running"
    /\ stored.uid = scheduled /\ stored.status = "COMPLETE" => Outcome = "complete"
    /\ stored.uid = scheduled /\ stored.status = "FATAL_ERROR" => Outcome = "failed"
BY DEF Outcome, IsTerminal

LEMMA OutcomeStays ==
    ASSUME UNCHANGED <<scheduled, stored>>
    PROVE  Outcome' = Outcome
BY DEF Outcome

\* A plan that is worked on has not come to its end.
LEMMA StillRunning ==
    ASSUME IInv, at # "idle", status.uid = scheduled
    PROVE  Outcome = "running"
<1>1. stored.uid = scheduled => ~ IsTerminal(stored.status)
  BY DEF IInv, PassInv
<1> QED
  BY <1>1, OutcomeIs

\* A step of the pass that ends at no task: the step that was worked on stops.
LEMMA NoTaskAfter ==
    ASSUME UNCHANGED <<plan, scheduled, stored>>, at' # "task",
           done' \in {done, done \cup ActiveStep}
    PROVE  Order!Stop \/ UNCHANGED Order!vars
<1>1. Outcome' = Outcome
  BY OutcomeStays
<1>2. ActiveStep' = {}
  BY DEF ActiveStep
<1>3. CASE ActiveStep = {}
  <2>1. done' = done
    BY <1>3
  <2> QED
    BY <1>1, <1>2, <1>3, <2>1, Unnoticed
<1>4. CASE ActiveStep # {}
  BY <1>1, <1>2, <1>4 DEF Order!Stop, ActiveStep, Outcome
<1> QED
  BY <1>3, <1>4

\* The steps before the one that a pass starts are finished.
LEMMA PredecessorsFinished ==
    ASSUME Regular, IInv, at = "step", pos.step \in Steps(plan, pos.phase),
           NEW x \in Order!Predecessors(plan, Visited)
    PROVE  /\ x = <<x[1], x[2]>> /\ x[1] \in Phases(plan) /\ x[2] \in Steps(plan, x[1])
           /\ IsFinished(OfStep(status, x[1], x[2]))
<1>1. /\ plan \in PlanSpecs /\ pos.phase \in Phases(plan)
      /\ UnderWay(status, plan)
      /\ Counted(status, plan, pos.phase, left.phases) /\ StepsCounted
      /\ Len(plan.phases) \in Nat
  BY PlanLengths DEF IInv, TypeInv, StepsCounted, PassInv, PhasesCounted
<1>2. /\ x \in Order!AllSteps(plan)
      /\ \/ x[1] = pos.phase /\ x[2] < pos.step /\ plan.phases[pos.phase].strategy = "serial"
         \/ x[1] < pos.phase /\ plan.strategy = "serial"
  BY DEF Order!Predecessors, Visited
<1>3. x = <<x[1], x[2]>> /\ x[1] \in Phases(plan) /\ x[2] \in Steps(plan, x[1])
  BY <1>2 DEF Order!AllSteps, Order!StepsOf, Phases, Steps
<1>4. CASE x[1] = pos.phase /\ x[2] < pos.step /\ plan.phases[pos.phase].strategy = "serial"
  BY <1>1, <1>3, <1>4 DEF StepsCounted, Serial
<1>5. CASE x[1] < pos.phase /\ plan.strategy = "serial"
  <2>1. pos.phase <= Len(plan.phases)
    BY <1>1 DEF Phases
  <2>2. Passed(status, plan, pos.phase)
    BY <1>1, <1>5, <2>1 DEF Counted, Serial
  <2>3. IsFinished(OfPhase(status, x[1]))
    BY <1>3, <1>5, <2>2 DEF Passed
  <2> QED
    BY <1>1, <1>3, <2>3 DEF UnderWay, PartsComplete, StepsFinished
<1> QED
  BY <1>2, <1>3, <1>4, <1>5

\* A pass starts a step: of the scheduled execution, in the order of Order.
LEMMA StartStepInOrder ==
    ASSUME Regular, IInv, StartStep
    PROVE  (\E x \in Order!AllSteps(plan) : Order!Start(x)) \/ UNCHANGED Order!vars
<1>1. /\ at = "step" /\ at' = "task" /\ pos.step <= Len(Phase.steps)
      /\ status' = [status EXCEPT
                       !.phases[PhaseIndex].steps[StepIndex].status = InProgress(@)]
      /\ pos' = [pos EXCEPT !.task = 1]
      /\ UNCHANGED <<plan, scheduled, stored, done>>
  BY DEF StartStep, AtStep, Frame
<1>2. /\ plan \in PlanSpecs /\ pos.phase \in Phases(plan) /\ pos.step \in Nat \ {0}
      /\ pos \in [phase : Nat, step : Nat, task : Nat]
      /\ status \in PlanStatuses /\ DoneInv
  BY <1>1 DEF IInv, TypeInv, StepsCounted, PassInv, UnderWay, Shaped
<1>3. pos.step \in Steps(plan, pos.phase)
  BY <1>1, <1>2, AtPhases, PlanLengths DEF Steps
<1>4. Visited' = Visited
  BY <1>1, <1>2 DEF Visited
<1>5. status'.uid = status.uid
  BY <1>1, <1>2 DEF PlanStatuses
<1>6. Outcome' = Outcome
  BY <1>1, OutcomeStays
<1>7. ActiveStep = {}
  BY <1>1 DEF ActiveStep
<1>8. CASE status.uid = scheduled
  <2>1. Visited \in Order!AllSteps(plan)
    BY <1>2, <1>3 DEF Visited, Order!AllSteps, Order!StepsOf, Phases, Steps
  <2>2. ReallyDone(status)
    BY <1>1, <1>2, <1>8 DEF DoneInv
  <2>3. Order!Predecessors(plan, Visited) \subseteq done
    BY <1>1, <1>3, <2>2, PredecessorsFinished DEF ReallyDone
  <2>4. Outcome = "running"
    BY <1>1, <1>8, StillRunning
  <2>5. ActiveStep' = {Visited}
    BY <1>1, <1>4, <1>5, <1>8 DEF ActiveStep
  <2>6. Order!Start(Visited)
    BY <1>1, <1>6, <1>7, <2>3, <2>4, <2>5 DEF Order!Start, ActiveStep, Outcome
  <2> QED
    BY <2>1, <2>6
<1>9. CASE status.uid # scheduled
  <2>1. ActiveStep' = {}
    BY <1>1, <1>5, <1>9 DEF ActiveStep
  <2> QED
    BY <1>1, <1>6, <1>7, <2>1, Unnoticed
<1> QED
  BY <1>8, <1>9

\* A pass works on the tasks of a step.
LEMMA TaskInOrder ==
    ASSUME Regular, IInv, TaskError \/ TaskNotDone \/ TaskDone
    PROVE  UNCHANGED Order!vars
<1>1. /\ at = "task" /\ at' = "task"
      /\ pos' = [pos EXCEPT !.task = @ + 1]
      /\ UNCHANGED <<plan, scheduled, stored, done>>
  BY DEF TaskError, TaskNotDone, TaskDone, AtTask, NextTask, Frame
<1>2. /\ pos \in [phase : Nat, step : Nat, task : Nat]
      /\ status \in PlanStatuses
  BY <1>1 DEF IInv, TypeInv, PassInv, UnderWay, Shaped
<1>3. Visited' = Visited
  BY <1>1, <1>2 DEF Visited
<1>4. status'.uid = status.uid
  <2>1. CASE TaskError
    BY <1>2, <2>1 DEF TaskError, PlanStatuses
  <2>2. CASE TaskNotDone \/ TaskDone
    BY <2>2 DEF TaskNotDone, TaskDone
  <2> QED
    BY <2>1, <2>2
<1>5. ActiveStep' = ActiveStep
  BY <1>1, <1>3, <1>4 DEF ActiveStep
<1> QED
  BY <1>1, <1>5, OutcomeStays, Unnoticed

\* The end of a pass is told: the plan is complete, has failed, or goes on.
LEMMA UpdateInOrder ==
    ASSUME Regular, IInv, UpdateStatus
    PROVE  Order!Complete \/ Order!Fail \/ UNCHANGED Order!vars
<1>1. /\ at = "return" /\ at' = "idle" /\ status.uid = scheduled /\ stored' = status
      /\ UNCHANGED <<plan, scheduled, done>>
  BY DEF UpdateStatus, EndPass
<1>2. Outcome = "running" /\ ActiveStep = {} /\ ActiveStep' = {}
  BY <1>1, StillRunning DEF ActiveStep
<1>3. /\ stored'.uid = scheduled' /\ stored'.status = status.status
  BY <1>1
<1>4. CASE status.status = "COMPLETE"
  <2>1. Outcome' = "complete"
    BY <1>3, <1>4 DEF Outcome
  <2>2. /\ plan \in PlanSpecs /\ Told(status, plan)
        /\ done \subseteq Order!AllSteps(plan) /\ ReallyDone(status)
    BY <1>1 DEF IInv, TypeInv, PassInv, DoneInv
  <2>3. \A i \in Phases(plan) : \A j \in Steps(plan, i) : <<i, j>> \in done
    BY <1>4, <2>2 DEF Told, IsFinished, PartsComplete, StepsFinished, ReallyDone
  <2>4. Order!AllSteps(plan) \subseteq done
    BY <2>3 DEF Order!AllSteps, Order!StepsOf, Phases, Steps
  <2>5. done = Order!AllSteps(plan)
    BY <2>2, <2>4
  <2> QED
    BY <1>1, <1>2, <2>1, <2>5 DEF Order!Complete, ActiveStep, Outcome
<1>5. CASE status.status = "FATAL_ERROR"
  <2>1. Outcome' = "failed"
    BY <1>3, <1>5 DEF Outcome
  <2> QED
    BY <1>1, <1>2, <2>1 DEF Order!Fail, ActiveStep, Outcome
<1>6. CASE status.status \notin {"COMPLETE", "FATAL_ERROR"}
  <2>1. Outcome' = "running"
    BY <1>3, <1>6 DEF Outcome
  <2> QED
    BY <1>1, <1>2, <2>1, Unnoticed
<1> QED
  BY <1>4, <1>5, <1>6

\* A new execution: neither the stored status nor the pass is one of it.
LEMMA TriggerInOrder ==
    ASSUME Regular, IInv, Trigger
    PROVE  Order!Again
<1>1. /\ scheduled' = scheduled + 1 /\ done' = {} /\ scheduled \in Nat
      /\ UNCHANGED <<plan, stored, at, status>>
  BY DEF Trigger, pass, IInv, TypeInv
<1>2. stored'.uid # scheduled'
  BY <1>1 DEF IInv, StoredInv
<1>3. at' = "task" => status'.uid # scheduled'
  BY <1>1 DEF IInv, PassInv
<1>4. Outcome' = "running"
  BY <1>2 DEF Outcome
<1>5. ActiveStep' = {}
  BY <1>3 DEF ActiveStep
<1> QED
  BY <1>1, <1>4, <1>5 DEF Order!Again, ActiveStep, Outcome

\* Every step of the engine is one of PlanOrder, or nothing happens there.
LEMMA StepKeepsOrder ==
    ASSUME Regular, IInv, [Next]_vars
    PROVE  Order!Next \/ UNCHANGED Order!vars
<1>1. CASE UNCHANGED vars \/ ExecuteTerminal
  <2>1. UNCHANGED <<plan, scheduled, stored, at, status, pos, done>>
    BY <1>1, ExecuteTerminalKeepsAll DEF vars, pass, history
  <2>2. ActiveStep' = ActiveStep
    BY <2>1 DEF ActiveStep, Visited
  <2> QED
    BY <2>1, <2>2, OutcomeStays, Unnoticed
<1>2. CASE Execute \/ ExecutePhase \/ SkipStep \/ UpdateRefused
  <2>1. /\ UNCHANGED <<plan, scheduled, stored, done>> /\ at' # "task"
    BY <1>2 DEF Execute, ExecutePhase, SkipPhase, StartPhase, EndPhase, EndPlan, SkipStep,
       UpdateRefused, EndPass, AtPhase, AtStep, Frame, history
  <2>2. Order!Stop \/ UNCHANGED Order!vars
    BY <2>1, NoTaskAfter
  <2> QED
    BY <2>2 DEF Order!Next
<1>3. CASE MissingStepStatus \/ EditPlan
  BY <1>3, NoStatusMissing DEF EditPlan, Regular, IInv, TypeInv
<1>4. CASE StartStep
  BY <1>4, StartStepInOrder DEF Order!Next
<1>5. CASE EndStep
  <2>1. /\ at = "task" /\ at' = "step" /\ UNCHANGED <<plan, scheduled, stored>>
    BY <1>5 DEF EndStep, bounds
  <2>2. done' = IF taskDone = 1 .. Len(Step.tasks) /\ status.uid = scheduled
                THEN done \cup {Visited} ELSE done
    BY <1>5 DEF EndStep
  <2>3. done' \in {done, done \cup ActiveStep}
    BY <2>1, <2>2 DEF ActiveStep
  <2>4. Order!Stop \/ UNCHANGED Order!vars
    BY <2>1, <2>3, NoTaskAfter
  <2> QED
    BY <2>4 DEF Order!Next
<1>6. CASE TaskInvalid \/ TaskFatal \/ PassLost
  <2>1. UNCHANGED <<plan, scheduled, stored, done>> /\ at' # "task"
    BY <1>6 DEF TaskInvalid, TaskFatal, PassLost, EndPass, Frame
  <2>2. Order!Stop \/ UNCHANGED Order!vars
    BY <2>1, NoTaskAfter
  <2> QED
    BY <2>2 DEF Order!Next
<1>7. CASE TaskError \/ TaskNotDone \/ TaskDone
  BY <1>7, TaskInOrder
<1>8. CASE UpdateStatus
  BY <1>8, UpdateInOrder DEF Order!Next
<1>9. CASE Trigger
  BY <1>9, TriggerInOrder DEF Order!Next
<1> QED
  BY <1>1, <1>2, <1>3, <1>4, <1>5, <1>6, <1>7, <1>8, <1>9
  DEF Next, Engine, ExecuteStep, ExecuteTask

\* workflow.Execute keeps the promise of PlanOrder, whatever is lost on the way
\* and whenever the plan is triggered again.
THEOREM EngineKeepsOrder ==
    ASSUME Regular
    PROVE  Spec => KeepsOrder
<1>1. Init => Order!Init
  <2> SUFFICES ASSUME Init PROVE Order!Init
    OBVIOUS
  <2>1. Outcome = "running" /\ ActiveStep = {}
    BY DEF Init, NoPass, Outcome, ActiveStep
  <2> QED
    BY <2>1 DEF Init, Order!Init, Outcome, ActiveStep
<1>2. IInv /\ [Next]_vars => [Order!Next]_(Order!vars)
  BY StepKeepsOrder
<1> QED
  BY <1>1, <1>2, EngineInvariance, PTL DEF Spec, KeepsOrder, Order!Spec
=============================================================================
