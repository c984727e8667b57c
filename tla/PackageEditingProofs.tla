------------------------ MODULE PackageEditingProofs ------------------------
(***************************************************************************)
(* For any names, answers, edits by hand and templates, and any number of  *)
(* commands: no command loses what is in the package, and what kudo        *)
(* package create writes can be read back, converted and executed.         *)
(***************************************************************************)
EXTENDS PackageEditing, SequenceTheorems, WellFoundedInduction, TLAPS

\* A package directory.  operator.yaml is written together with params.yaml.
IsPackage(d) ==
    /\ d \in [operator : {d.operator}, params : Optional(ParamsFiles), templates : {d.templates}]
    /\ d.operator # None => IsOperatorFile(d.operator) /\ d.params # None
    /\ d.templates \in [DOMAIN d.templates -> Templates]
    /\ DOMAIN d.templates \subseteq File

\* What a command has read and been told.
OpenTyped ==
    open # None =>
        /\ open \in [kind : {"parameter", "task", "maintainer", "plan"},
                     name : Optional(Text), phases : Seq(Phases),
                     params : SUBSET DOMAIN Folded, tasks : SUBSET Text, plans : SUBSET Text]
        /\ open.kind = "plan" => open.name \in Text

\* The plan that is asked for was not there when the command began.
NewPlan == Asks("plan") => open.name \notin open.plans

Typed == edits \in Nat /\ IsPackage(disk) /\ OpenTyped

IInv == Typed /\ NewPlan

(* ------------------------------- sequences ---------------------------- *)

Smaller == {s \in Nat \X Nat : s[1] < s[2]}

\* A set of numbers that is not empty has a least one.
LEMMA LeastNumber ==
  ASSUME NEW S, S \subseteq Nat, S # {}
  PROVE  \E m \in S : \A k \in S : m <= k
<1>1. Smaller = OpToRel(<, Nat)
  BY DEF Smaller, OpToRel
<1>2. IsWellFoundedOn(Smaller, Nat)
  BY <1>1, NatLessThanWellFounded
<1>3. PICK m \in S : \A k \in S : ~ (<<k, m>> \in Smaller)
  BY <1>2, WFMin
<1>4. \A k \in S : ~ (k < m)
  BY <1>3 DEF Smaller
<1> QED BY <1>3, <1>4

\* What begins with the elements of s has s as a prefix.
LEMMA PrefixByElements ==
  ASSUME NEW S, NEW s \in Seq(S), NEW t \in Seq(S), Len(s) <= Len(t),
         \A i \in 1 .. Len(s) : s[i] = t[i]
  PROVE  IsPrefix(s, t)
<1>1. SubSeq(s, 1, Len(s)) = SubSeq(t, 1, Len(s))
  OBVIOUS
<1> QED BY <1>1 DEF IsPrefix

\* A list has elements of its type only.
LEMMA ElementsTyped ==
  ASSUME NEW S, NEW s \in Seq(S)
  PROVE  Range(s) \subseteq S
BY DEF Range

\* A list with an element replaced, if there is such an element.
LEMMA ReplacedTyped ==
  ASSUME NEW S, NEW s \in Seq(S), NEW k, NEW x, k \in DOMAIN s => x \in S
  PROVE  [s EXCEPT ![k] = x] \in Seq(S)
<1> DEFINE n == Len(s)
           t == [s EXCEPT ![k] = x]
<1>1. n \in Nat /\ DOMAIN s = 1 .. n /\ \A i \in 1 .. n : s[i] \in S
  OBVIOUS
<1>2. t \in [1 .. n -> S]
  BY <1>1
<1> QED BY <1>1, <1>2, SeqDef

\* The index that is found for a name belongs to a task of this name.
LEMMA IndexFound ==
  ASSUME NEW f, f.operator.tasks \in Seq(Tasks), NEW n \in TaskNames(f)
  PROVE  /\ TaskIndex(f, n) \in DOMAIN f.operator.tasks
         /\ TaskIndex(f, n) # 0
         /\ TaskNamed(f, n) \in Range(f.operator.tasks)
<1> DEFINE ts == f.operator.tasks
           I  == {i \in 1 .. Len(ts) : ts[i].name = n}
<1>1. I # {} /\ I \subseteq Nat
  BY DEF TaskNames, Range
<1>2. Min(I) \in I
  BY <1>1, LeastNumber DEF Min
<1>3. TaskIndex(f, n) = Min(I)
  BY <1>1 DEF TaskIndex, SelectInSeq
<1>4. TaskIndex(f, n) \in 1 .. Len(ts) /\ DOMAIN ts = 1 .. Len(ts)
  BY <1>2, <1>3
<1> QED BY <1>4 DEF TaskNamed, Range

(* ------------------------------ parameters ---------------------------- *)

\* Defaults are given once: what is read, written and read again is the same.
LEMMA DefaultsOnce ==
  ASSUME NEW p \in Parameters
  PROVE  /\ WithDefaults(p) \in Parameters
         /\ WithDefaults(WithDefaults(p)) = WithDefaults(p)
BY DEF WithDefaults, Parameters, Optional

\* Reading keeps the number and the order of the parameters.
LEMMA ParsedTyped ==
  ASSUME NEW ps \in ParamsFiles
  PROVE  /\ Parsed(ps) \in ParamsFiles
         /\ Parsed(ps).groups = ps.groups
         /\ Len(Parsed(ps).list) = Len(ps.list)
         /\ \A i \in 1 .. Len(ps.list) : Parsed(ps).list[i] = WithDefaults(ps.list[i])
<1> DEFINE l == [i \in 1 .. Len(ps.list) |-> WithDefaults(ps.list[i])]
<1>1. ps.list \in Seq(Parameters) /\ DOMAIN ps.list = 1 .. Len(ps.list) /\ Len(ps.list) \in Nat
  BY DEF ParamsFiles
<1>2. \A i \in 1 .. Len(ps.list) : WithDefaults(ps.list[i]) \in Parameters
  BY <1>1, DefaultsOnce
<1>3. l \in Seq(Parameters) /\ Len(l) = Len(ps.list)
  BY <1>1, <1>2
<1>4. Parsed(ps) = [ps EXCEPT !.list = l]
  BY <1>1 DEF Parsed
<1> QED BY <1>3, <1>4 DEF ParamsFiles

\* A list of parameters that is read and longer by some has the old one, read, as
\* a prefix.
LEMMA ParametersKept ==
  ASSUME NEW ps \in ParamsFiles, NEW p \in Parameters
  PROVE  LET qs == [Parsed(ps) EXCEPT !.list = Append(@, p)]
         IN  /\ qs \in ParamsFiles
             /\ qs.groups = ps.groups
             /\ IsPrefix(Parsed(ps).list, Parsed(qs).list)
<1> DEFINE rs == Parsed(ps)
           more == Append(rs.list, p)
           qs == [rs EXCEPT !.list = Append(@, p)]
<1>1. rs \in ParamsFiles /\ rs.groups = ps.groups
  BY ParsedTyped
<1>2. rs.list \in Seq(Parameters)
  BY <1>1 DEF ParamsFiles
<1>3. more \in Seq(Parameters)
  BY <1>2
<1>4. qs = [rs EXCEPT !.list = more]
  OBVIOUS
<1> HIDE DEF rs, qs
<1>5. qs \in ParamsFiles /\ qs.groups = ps.groups /\ qs.list = more
  <2> HIDE DEF more
  <2> QED BY <1>1, <1>3, <1>4 DEF ParamsFiles
<1>6. /\ Len(qs.list) = Len(rs.list) + 1
      /\ \A i \in 1 .. Len(rs.list) : qs.list[i] = rs.list[i]
  BY <1>2, <1>5
<1>7. Len(Parsed(qs).list) = Len(qs.list) /\ Parsed(qs).list \in Seq(Parameters)
  BY <1>5, ParsedTyped DEF ParamsFiles
<1>8. \A i \in 1 .. Len(rs.list) : Parsed(qs).list[i] = rs.list[i]
  <2> SUFFICES ASSUME NEW i \in 1 .. Len(rs.list) PROVE Parsed(qs).list[i] = rs.list[i]
    OBVIOUS
  <2>1. i \in 1 .. Len(qs.list) /\ i \in 1 .. Len(ps.list)
    BY <1>2, <1>6, ParsedTyped DEF rs
  <2>2. Parsed(qs).list[i] = WithDefaults(rs.list[i])
    BY <1>5, <1>6, <2>1, ParsedTyped
  <2>3. ps.list[i] \in Parameters
    BY <2>1 DEF ParamsFiles
  <2>4. rs.list[i] = WithDefaults(ps.list[i])
    BY <2>1, ParsedTyped DEF rs
  <2> QED BY <2>2, <2>3, <2>4, DefaultsOnce
<1>9. IsPrefix(rs.list, Parsed(qs).list)
  BY <1>2, <1>6, <1>7, <1>8, PrefixByElements
<1> QED BY <1>5, <1>9 DEF rs, qs

(* ----------------------------- the changes ---------------------------- *)

\* Nothing of a file that is not written is lost.
LEMMA SelfPrefix ==
  ASSUME NEW ps \in ParamsFiles
  PROVE  IsPrefix(Parsed(ps).list, Parsed(ps).list)
<1>1. Parsed(ps).list \in Seq(Parameters)
  BY ParsedTyped DEF ParamsFiles
<1> QED BY <1>1, PrefixByElements

\* The same of a package whose params.yaml is not written.
LEMMA UnchangedKeeps ==
  ASSUME NEW d, IsPackage(d), NEW e, e.params = d.params
  PROVE  d.params # None => /\ e.params.groups = d.params.groups
                            /\ IsPrefix(Parsed(d.params).list, Parsed(e.params).list)
BY SelfPrefix DEF IsPackage, Optional

\* EnsureResource makes a file only where there is none.
LEMMA TouchedKeeps ==
  ASSUME NEW d, IsPackage(d), NEW files \in SUBSET File
  PROVE  LET e == Touched(d, files)
         IN  /\ IsPackage(e) /\ SameTemplates(d, e)
             /\ e.operator = d.operator /\ e.params = d.params
<1> DEFINE old == d.templates
           ts  == [f \in DOMAIN old \cup files |-> IF f \in DOMAIN old THEN old[f] ELSE EmptyFile]
           e   == [d EXCEPT !.templates = ts]
<1>1. EmptyFile \in Templates
  <2>1. <<>> \in Trees
    BY TreesAssumption
  <2> QED BY <2>1, EditingAssumption DEF EmptyFile, Templates
<1>2. /\ ts \in [DOMAIN ts -> Templates]
      /\ DOMAIN ts = DOMAIN d.templates \cup files
      /\ \A f \in DOMAIN d.templates : ts[f] = d.templates[f]
  BY <1>1 DEF IsPackage
<1>3. e = Touched(d, files)
  BY DEF Touched
<1>4. /\ e.operator = d.operator /\ e.params = d.params /\ e.templates = ts
      /\ e \in [operator : {e.operator}, params : Optional(ParamsFiles), templates : {e.templates}]
  <2> HIDE DEF ts
  <2> QED BY DEF IsPackage
<1> HIDE DEF ts, e
<1>5. IsPackage(e)
  BY <1>2, <1>4 DEF IsPackage
<1>6. SameTemplates(d, e)
  BY <1>2, <1>4 DEF SameTemplates
<1> QED BY <1>3, <1>4, <1>5, <1>6

\* AddTask appends: the tasks that are there keep their places.
LEMMA WithTaskKeeps ==
  ASSUME NEW d, IsPackage(d), d.operator # None, NEW t \in Tasks
  PROVE  LET e == WithTask(d, t)
         IN  /\ IsPackage(e)
             /\ e.params = d.params /\ e.templates = d.templates
             /\ e.operator = [d.operator EXCEPT !.tasks = Append(@, t)]
             /\ SameTasks(d.operator.tasks, e.operator.tasks)
<1> DEFINE ts == Append(d.operator.tasks, t)
           o  == [d.operator EXCEPT !.tasks = ts]
           e  == [d EXCEPT !.operator = o]
<1>1. d.operator.tasks \in Seq(Tasks)
  BY DEF IsPackage, IsOperatorFile
<1>2. ts \in Seq(Tasks) /\ SameTasks(d.operator.tasks, ts)
  BY <1>1 DEF SameTasks, SameTask
<1>3. e = WithTask(d, t)
  BY DEF WithTask, IsPackage, IsOperatorFile
<1>4. o.tasks = ts /\ IsOperatorFile(o)
  <2> HIDE DEF ts
  <2> QED BY <1>2 DEF IsPackage, IsOperatorFile
<1>5. /\ IsPackage(e) /\ e.operator = o
      /\ e.params = d.params /\ e.templates = d.templates
  <2> HIDE DEF o
  <2> QED BY <1>4 DEF IsPackage
<1> QED BY <1>2, <1>3, <1>4, <1>5

\* AddPlan: the other plans stay.
LEMMA WithPlanKeeps ==
  ASSUME NEW d, IsPackage(d), d.operator # None, NEW n \in Text, NEW plan \in Seq(Phases)
  PROVE  LET e == WithPlan(d, n, plan)
         IN  /\ IsPackage(e)
             /\ e.params = d.params /\ e.templates = d.templates
             /\ e.operator.manifest = d.operator.manifest
             /\ e.operator.maintainers = d.operator.maintainers
             /\ e.operator.tasks = d.operator.tasks
             /\ \A m \in DOMAIN d.operator.plans :
                   m # n => m \in DOMAIN e.operator.plans /\ e.operator.plans[m] = d.operator.plans[m]
<1> DEFINE ps == Put(d.operator.plans, n, plan)
           o  == [d.operator EXCEPT !.plans = ps]
           e  == [d EXCEPT !.operator = o]
<1>1. /\ ps \in [DOMAIN ps -> Seq(Phases)]
      /\ DOMAIN ps \subseteq Text
      /\ \A m \in DOMAIN d.operator.plans : m # n => m \in DOMAIN ps /\ ps[m] = d.operator.plans[m]
  BY DEF IsPackage, IsOperatorFile, Put
<1>2. e = WithPlan(d, n, plan)
  BY DEF WithPlan, IsPackage, IsOperatorFile
<1>3. /\ o.plans = ps /\ IsOperatorFile(o)
      /\ o.manifest = d.operator.manifest /\ o.maintainers = d.operator.maintainers
      /\ o.tasks = d.operator.tasks
  <2> HIDE DEF ps
  <2> QED BY <1>1 DEF IsPackage, IsOperatorFile
<1>4. /\ IsPackage(e) /\ e.operator = o
      /\ e.params = d.params /\ e.templates = d.templates
  <2> HIDE DEF o
  <2> QED BY <1>3 DEF IsPackage
<1> QED BY <1>1, <1>2, <1>3, <1>4

(* ----------------------------- the answers ---------------------------- *)

\* What generate.Operator and ForTask begin with.
LEMMA NewTaskTyped ==
  ASSUME NEW n \in Text, NEW kind \in Text
  PROVE  NewTask(n, kind) \in Tasks
BY DEF NewTask, Tasks, Optional

\* ForParameter asks for a parameter that package files may have.
LEMMA ParameterAnswersTyped ==
  ASSUME OpenTyped, open # None
  PROVE  ParameterAnswers \subseteq Parameters
<1>1. open.plans \cup Plan \subseteq Text
  BY EditingAssumption DEF OpenTyped
<1>2. ASSUME NEW n \in Param, NEW v \in Optional({"text"}), NEW r \in Optional({TRUE}),
             NEW g \in Optional(open.plans \cup Plan)
      PROVE  NewParameter(n, v, r, g) \in Parameters
  <2>1. n \in DOMAIN Folded /\ "string" \in Text /\ v \in Optional(Text) /\ g \in Optional(Text)
    BY <1>1, EditingAssumption DEF Optional
  <2>2. r \in Optional(BOOLEAN)
    BY DEF Optional
  <2>3. None \in Optional(BOOLEAN) /\ None \in Optional(Text) /\ None \in Optional(SUBSET Text)
    BY DEF Optional
  <2> QED BY <2>1, <2>2, <2>3 DEF NewParameter, Parameters
<1>3. ASSUME NEW p \in ParameterAnswers PROVE p \in Parameters
  <2>1. PICK n \in Param \ open.params, v \in Optional({"text"}), r \in Optional({TRUE}),
             g \in Optional(open.plans \cup Plan) : p = NewParameter(n, v, r, g)
    BY DEF ParameterAnswers
  <2> QED BY <1>2, <2>1
<1> QED BY <1>3

\* ForTask asks for a task that package files may have, and its files.
LEMMA TaskAnswersTyped ==
  ASSUME NEW n \in Task, NEW t \in TaskAnswers(n)
  PROVE  /\ t \in Tasks
         /\ FilesOf(t) \in Seq(File)
<1>1. \A k \in TaskKinds : NewTask(n, k) \in Tasks /\ NewTask(n, k).kind = k
  <2>1. n \in Text /\ TaskKinds \subseteq Text
    BY EditingAssumption
  <2> QED BY <2>1, NewTaskTyped DEF NewTask
<1>2. ASSUME NEW k \in TaskKinds \cap {"Apply", "Delete"}, NEW rs \in ResourceLists,
             t = TaskOnResources(n, k, rs)
      PROVE  t \in Tasks /\ FilesOf(t) \in Seq(File)
  <2>1. rs \in Seq(File)
    BY EditingAssumption
  <2>2. t \in Tasks /\ t.kind = k /\ t.resources = rs
    BY <1>1, <1>2, <2>1 DEF TaskOnResources, Tasks
  <2> QED BY <2>1, <2>2 DEF FilesOf
<1>3. ASSUME NEW a \in PipeAnswers, "Pipe" \in TaskKinds, t = TaskWithPipes(n, a)
      PROVE  t \in Tasks /\ FilesOf(t) \in Seq(File)
  <2>1. a.pod \in File /\ a.pipes \in Seq(Pipes)
    BY EditingAssumption
  <2>2. t \in Tasks /\ t.kind = "Pipe" /\ t.pod = a.pod
    BY <1>1, <1>3, <2>1 DEF TaskWithPipes, Tasks, Optional
  <2> QED BY <2>1, <2>2 DEF FilesOf
<1>4. ASSUME NEW k \in TaskKinds \cap {"Toggle"}, t = NewTask(n, k)
      PROVE  t \in Tasks /\ FilesOf(t) \in Seq(File)
  <2>1. t \in Tasks /\ t.kind = k
    BY <1>1, <1>4
  <2> QED BY <2>1 DEF FilesOf, Tasks
<1> QED BY <1>2, <1>3, <1>4 DEF TaskAnswers

(* ------------------------------ the steps ----------------------------- *)

\* kudo package new
LEMMA NewStep ==
  ASSUME Typed, New
  PROVE  /\ edits' \in Nat /\ IsPackage(disk')
         /\ edits' = edits => Keeps(disk, disk')
<1>1. edits \in Nat /\ IsPackage(disk)
  BY DEF Typed
<1>2. NewParams \in ParamsFiles /\ IsOperatorFile(NewOperator)
  <2>1. NewTask("deploy", "Apply") \in Tasks
    BY NewTaskTyped, EditingAssumption
  <2>2. <<NewTask("deploy", "Apply")>> \in Seq(Tasks)
    BY <2>1
  <2>3. OnePhase("deploy", "deploy", <<"deploy">>) \in Seq(Phases)
    BY EditingAssumption DEF OnePhase, Phases
  <2>4. IsOperatorFile(NewOperator)
    BY <2>2, <2>3, EditingAssumption DEF NewOperator, IsOperatorFile, Optional
  <2> QED BY <2>4 DEF NewParams, ParamsFiles
<1>3. /\ disk'.operator = NewOperator
      /\ disk'.params = IF disk.params = None THEN NewParams ELSE disk.params
      /\ disk'.templates = disk.templates
      /\ disk' \in [operator : {disk'.operator}, params : Optional(ParamsFiles), templates : {disk'.templates}]
  BY <1>1, <1>2 DEF New, IsPackage, Optional
<1>4. NewParams # None
  BY <1>2, EditingAssumption
<1>5. IsPackage(disk')
  BY <1>1, <1>2, <1>3, <1>4 DEF IsPackage
<1>6. edits' \in Nat /\ (edits' = edits => disk.operator = None)
  BY <1>1 DEF New
<1>7. ASSUME disk.operator = None PROVE Keeps(disk, disk')
  <2>1. SameTemplates(disk, disk')
    BY <1>3 DEF SameTemplates
  <2>2. disk.params # None => disk'.params = disk.params
    BY <1>3
  <2> QED BY <1>1, <1>7, <2>1, <2>2, UnchangedKeeps DEF Keeps
<1> QED BY <1>5, <1>6, <1>7

\* Reading something does not write.
LEMMA NothingWritten ==
  ASSUME Typed, UNCHANGED disk
  PROVE  IsPackage(disk') /\ Keeps(disk, disk')
<1>1. IsPackage(disk)
  BY DEF Typed
<1>2. SameTemplates(disk, disk')
  BY DEF SameTemplates
<1>3. disk.operator # None => /\ disk.operator.maintainers \in Nat
                              /\ SameTasks(disk.operator.tasks, disk.operator.tasks)
  BY <1>1 DEF IsPackage, IsOperatorFile, SameTasks, SameTask
<1> QED BY <1>1, <1>2, <1>3, UnchangedKeeps DEF Keeps

\* kudo package add parameter
LEMMA AddParameterStep ==
  ASSUME Typed, AddParameter
  PROVE  IsPackage(disk') /\ Keeps(disk, disk')
<1>1. IsPackage(disk) /\ OpenTyped /\ open # None /\ disk.operator # None /\ disk.params # None
  BY DEF Typed, AddParameter, Asks, Readable
<1>2. PICK p \in Parameters : disk' = WithParameter(disk, p)
  BY <1>1, ParameterAnswersTyped DEF AddParameter
<1> DEFINE qs == [Parsed(disk.params) EXCEPT !.list = Append(@, p)]
<1>3. disk.params \in ParamsFiles
  BY <1>1 DEF IsPackage, Optional
<1>4. /\ qs \in ParamsFiles /\ qs.groups = disk.params.groups
      /\ IsPrefix(Parsed(disk.params).list, Parsed(qs).list)
  BY <1>3, ParametersKept
<1>5. disk' = [disk EXCEPT !.params = qs]
  BY <1>2 DEF WithParameter
<1> HIDE DEF qs
<1>6. /\ disk'.operator = disk.operator /\ disk'.params = qs /\ disk'.templates = disk.templates
      /\ disk' \in [operator : {disk'.operator}, params : Optional(ParamsFiles), templates : {disk'.templates}]
  BY <1>1, <1>4, <1>5 DEF IsPackage, Optional
<1>7. IsPackage(disk')
  BY <1>1, <1>4, <1>6, EditingAssumption DEF IsPackage
<1>8. SameTemplates(disk, disk')
  BY <1>6 DEF SameTemplates
<1>9. /\ disk.operator.maintainers \in Nat
      /\ SameTasks(disk.operator.tasks, disk.operator.tasks)
  BY <1>1 DEF IsPackage, IsOperatorFile, SameTasks, SameTask
<1> QED BY <1>4, <1>6, <1>7, <1>8, <1>9 DEF Keeps

\* kudo package add maintainer
LEMMA AddMaintainerStep ==
  ASSUME Typed, AddMaintainer
  PROVE  IsPackage(disk') /\ Keeps(disk, disk')
<1>1. IsPackage(disk) /\ disk.operator # None
  BY DEF Typed, AddMaintainer, Readable
<1> DEFINE o == [disk.operator EXCEPT !.maintainers = @ + 1]
<1>2. /\ IsOperatorFile(o) /\ o.maintainers >= disk.operator.maintainers
      /\ o.manifest = disk.operator.manifest /\ o.tasks = disk.operator.tasks
      /\ o.plans = disk.operator.plans
  BY <1>1 DEF IsPackage, IsOperatorFile
<1>3. disk' = [disk EXCEPT !.operator = o]
  BY <1>1 DEF AddMaintainer, IsPackage, IsOperatorFile
<1> HIDE DEF o
<1>4. /\ IsPackage(disk') /\ disk'.operator = o
      /\ disk'.params = disk.params /\ disk'.templates = disk.templates
  BY <1>1, <1>2, <1>3 DEF IsPackage
<1>5. SameTemplates(disk, disk') /\ SameTasks(o.tasks, o.tasks)
  BY <1>4 DEF SameTemplates, SameTasks, SameTask
<1> QED BY <1>1, <1>2, <1>4, <1>5, UnchangedKeeps DEF Keeps

\* A step that changes no more than the tasks and the files in templates/.
LEMMA TasksStep ==
  ASSUME Typed, IsPackage(disk'), SameTemplates(disk, disk'), disk'.params = disk.params,
         disk.operator # None =>
            /\ disk'.operator = [disk.operator EXCEPT !.tasks = disk'.operator.tasks]
            /\ SameTasks(disk.operator.tasks, disk'.operator.tasks)
  PROVE  Keeps(disk, disk')
<1>1. IsPackage(disk)
  BY DEF Typed
<1>2. disk.operator # None => /\ disk'.operator.manifest = disk.operator.manifest
                              /\ disk'.operator.maintainers >= disk.operator.maintainers
                              /\ disk'.operator.plans = disk.operator.plans
  BY <1>1 DEF IsPackage, IsOperatorFile
<1> QED BY <1>1, <1>2, UnchangedKeeps DEF Keeps

\* The files of a task that is added, and those that are there before one that
\* cannot be written.
LEMMA FilesTyped ==
  ASSUME NEW fs \in Seq(File)
  PROVE  /\ Range(fs) \in SUBSET File
         /\ \A k \in DOMAIN fs : Range(SubSeq(fs, 1, k - 1)) \in SUBSET File
<1>1. \A k \in DOMAIN fs : SubSeq(fs, 1, k - 1) \in Seq(File)
  OBVIOUS
<1>2. \A s \in Seq(File) : Range(s) \in SUBSET File
  BY DEF Range
<1> QED BY <1>1, <1>2

\* Files are made, and nothing else is written.
LEMMA TouchedStep ==
  ASSUME Typed, NEW files \in SUBSET File, disk' = Touched(disk, files)
  PROVE  IsPackage(disk') /\ Keeps(disk, disk')
<1>1. /\ IsPackage(disk') /\ SameTemplates(disk, disk')
      /\ disk'.operator = disk.operator /\ disk'.params = disk.params
  BY TouchedKeeps DEF Typed
<1>2. disk.operator # None =>
         /\ disk.operator = [disk.operator EXCEPT !.tasks = disk.operator.tasks]
         /\ SameTasks(disk.operator.tasks, disk.operator.tasks)
  BY DEF Typed, IsPackage, IsOperatorFile, SameTasks, SameTask
<1> QED BY <1>1, <1>2, TasksStep

\* createTaskFromPrompts, whether the files can be written or not.
LEMMA TaskCreatedStep ==
  ASSUME Typed, disk.operator # None, NEW n \in Task, TaskCreated(n)
  PROVE  IsPackage(disk') /\ Keeps(disk, disk')
<1>1. IsPackage(disk)
  BY DEF Typed
<1>2. PICK t \in TaskAnswers(n) :
         \/ disk' = WithTask(Touched(disk, Range(FilesOf(t))), t)
         \/ \E k \in DOMAIN FilesOf(t) : disk' = Touched(disk, Range(SubSeq(FilesOf(t), 1, k - 1)))
  BY DEF TaskCreated
<1>3. t \in Tasks /\ FilesOf(t) \in Seq(File)
  BY TaskAnswersTyped
<1>4. CASE disk' = WithTask(Touched(disk, Range(FilesOf(t))), t)
  <2> DEFINE d == Touched(disk, Range(FilesOf(t)))
  <2>1. /\ IsPackage(d) /\ SameTemplates(disk, d)
        /\ d.operator = disk.operator /\ d.params = disk.params
    BY <1>1, <1>3, FilesTyped, TouchedKeeps
  <2>2. disk' = WithTask(d, t)
    BY <1>4
  <2> HIDE DEF d
  <2>3. /\ IsPackage(disk') /\ disk'.params = d.params /\ disk'.templates = d.templates
        /\ disk'.operator = [d.operator EXCEPT !.tasks = Append(@, t)]
        /\ SameTasks(d.operator.tasks, disk'.operator.tasks)
    BY <1>3, <2>1, <2>2, WithTaskKeeps
  <2>4. SameTemplates(disk, disk')
    BY <2>1, <2>3 DEF SameTemplates
  <2>5. disk'.operator = [disk.operator EXCEPT !.tasks = disk'.operator.tasks]
    BY <1>1, <2>1, <2>3 DEF IsPackage, IsOperatorFile
  <2> QED BY <2>1, <2>3, <2>4, <2>5, TasksStep
<1>5. ASSUME NEW k \in DOMAIN FilesOf(t), disk' = Touched(disk, Range(SubSeq(FilesOf(t), 1, k - 1)))
      PROVE  IsPackage(disk') /\ Keeps(disk, disk')
  BY <1>1, <1>3, <1>5, FilesTyped, TouchedStep
<1> QED BY <1>2, <1>4, <1>5

\* kudo package add plan: the plan is written under a name that was new when the
\* command began.
LEMMA AddPlanStep ==
  ASSUME IInv, AddPlan
  PROVE  IsPackage(disk') /\ Keeps(disk, disk')
<1>1. IsPackage(disk) /\ OpenTyped /\ Asks("plan") /\ disk.operator # None
  BY DEF IInv, Typed, AddPlan, Readable
<1>2. open.name \notin open.plans
  BY <1>1 DEF IInv, NewPlan
<1>3. open.name \in Text /\ open.phases \in Seq(Phases)
  BY <1>1 DEF OpenTyped, Asks
<1>4. disk' = WithPlan(disk, open.name, open.phases)
  BY DEF AddPlan
<1>5. /\ IsPackage(disk')
      /\ disk'.params = disk.params /\ disk'.templates = disk.templates
      /\ disk'.operator.manifest = disk.operator.manifest
      /\ disk'.operator.maintainers = disk.operator.maintainers
      /\ disk'.operator.tasks = disk.operator.tasks
      /\ \A m \in DOMAIN disk.operator.plans :
            m # open.name => /\ m \in DOMAIN disk'.operator.plans
                             /\ disk'.operator.plans[m] = disk.operator.plans[m]
  BY <1>1, <1>3, <1>4, WithPlanKeeps
<1>6. /\ SameTemplates(disk, disk')
      /\ SameTasks(disk.operator.tasks, disk'.operator.tasks)
      /\ disk.operator.maintainers \in Nat
  BY <1>1, <1>5 DEF SameTemplates, SameTasks, SameTask, IsPackage, IsOperatorFile
<1> QED BY <1>1, <1>2, <1>5, <1>6, UnchangedKeeps DEF Keeps

\* The deploy task is filled in by hand.
LEMMA FillDeployStep ==
  ASSUME Typed, FillDeploy
  PROVE  IsPackage(disk') /\ Keeps(disk, disk')
<1>1. IsPackage(disk) /\ disk.operator # None
  BY DEF Typed, FillDeploy
<1>2. PICK rs \in ResourceLists, i \in DOMAIN disk.operator.tasks :
         /\ disk.operator.tasks[i].resources = <<>>
         /\ disk' = [disk EXCEPT !.operator.tasks[i].resources = rs]
  BY DEF FillDeploy
<1> DEFINE old == disk.operator.tasks
           t   == [old[i] EXCEPT !.resources = rs]
           ts  == [old EXCEPT ![i] = t]
           o   == [disk.operator EXCEPT !.tasks = ts]
<1>3. old \in Seq(Tasks) /\ old[i] \in Tasks /\ rs \in Seq(File)
  BY <1>1, <1>2, EditingAssumption DEF IsPackage, IsOperatorFile
<1>4. t \in Tasks /\ t.resources = rs
  BY <1>3 DEF Tasks
<1>5. SameTask(old[i], t)
  BY <1>2, <1>4 DEF SameTask
<1>6. disk' = [disk EXCEPT !.operator = o]
  BY <1>1, <1>2, <1>3 DEF IsPackage, IsOperatorFile
<1> HIDE DEF t
<1>7. ts \in Seq(Tasks) /\ SameTasks(old, ts)
  BY <1>3, <1>4, <1>5 DEF SameTasks, SameTask
<1> HIDE DEF ts
<1>8. IsOperatorFile(o) /\ o.tasks = ts
  BY <1>1, <1>7 DEF IsPackage, IsOperatorFile
<1> HIDE DEF o
<1>9. /\ IsPackage(disk') /\ disk'.operator = o
      /\ disk'.params = disk.params /\ disk'.templates = disk.templates
  BY <1>1, <1>6, <1>8 DEF IsPackage
<1>10. SameTemplates(disk, disk')
  BY <1>9 DEF SameTemplates
<1>11. o = [disk.operator EXCEPT !.tasks = o.tasks]
  BY <1>8 DEF o
<1> QED BY <1>7, <1>8, <1>9, <1>10, <1>11, TasksStep

\* Whatever is edited by hand, the files stay well-formed.
LEMMA EditStep ==
  ASSUME Typed, Edit
  PROVE  IsPackage(disk')
<1>1. IsPackage(disk) /\ disk.operator # None /\ disk.params # None
      /\ IsOperatorFile(disk.operator) /\ disk.params \in ParamsFiles
  BY DEF Typed, Edit, IsPackage, Optional
<1>2. ASSUME NEW t \in HandTemplates, disk' = [disk EXCEPT !.templates = Put(@, t.file, t.content)]
      PROVE  IsPackage(disk')
  <2> DEFINE ts == Put(disk.templates, t.file, t.content)
  <2>1. t.file \in File /\ t.content \in Templates
    BY EditingAssumption
  <2>2. ts \in [DOMAIN ts -> Templates] /\ DOMAIN ts \subseteq File
    BY <1>1, <2>1 DEF Put, IsPackage
  <2>3. disk' = [disk EXCEPT !.templates = ts]
    BY <1>2
  <2> HIDE DEF ts
  <2> QED BY <1>1, <2>2, <2>3 DEF IsPackage
<1>3. ASSUME NEW f \in DOMAIN disk.templates,
             disk' = [disk EXCEPT !.templates = Restrict(@, DOMAIN @ \ {f})]
      PROVE  IsPackage(disk')
  <2> DEFINE ts == Restrict(disk.templates, DOMAIN disk.templates \ {f})
  <2>1. ts \in [DOMAIN ts -> Templates] /\ DOMAIN ts \subseteq File
    BY <1>1 DEF Restrict, IsPackage
  <2>2. disk' = [disk EXCEPT !.templates = ts]
    BY <1>3
  <2> HIDE DEF ts
  <2> QED BY <1>1, <2>1, <2>2 DEF IsPackage
<1>4. ASSUME NEW p \in HandParams, disk' = [disk EXCEPT !.params.list = Append(@, p)]
      PROVE  IsPackage(disk')
  <2> DEFINE l  == Append(disk.params.list, p)
             ps == [disk.params EXCEPT !.list = l]
  <2>1. l \in Seq(Parameters)
    BY <1>1, EditingAssumption DEF ParamsFiles
  <2>2. disk' = [disk EXCEPT !.params = ps]
    BY <1>1, <1>4 DEF IsPackage, ParamsFiles
  <2> HIDE DEF l
  <2>3. ps \in ParamsFiles /\ ps # None
    BY <1>1, <2>1, EditingAssumption DEF ParamsFiles
  <2> HIDE DEF ps
  <2> QED BY <1>1, <2>2, <2>3 DEF IsPackage, Optional
<1>5. ASSUME NEW n \in Plan, NEW plan \in HandPlans, disk' = WithPlan(disk, n, plan)
      PROVE  IsPackage(disk')
  <2>1. n \in Text /\ plan \in Seq(Phases)
    BY EditingAssumption
  <2> QED BY <1>1, <1>5, <2>1, WithPlanKeeps
<1>6. ASSUME NEW o, IsOperatorFile(o), disk' = [disk EXCEPT !.operator = o]
      PROVE  IsPackage(disk')
  BY <1>1, <1>6 DEF IsPackage
<1>7. ASSUME NEW m \in Manifest, disk' = [disk EXCEPT !.operator.manifest = m]
      PROVE  IsPackage(disk')
  <2> DEFINE o == [disk.operator EXCEPT !.manifest = m]
  <2>1. IsOperatorFile(o)
    BY <1>1, EditingAssumption DEF IsOperatorFile, Optional
  <2>2. disk' = [disk EXCEPT !.operator = o]
    BY <1>1, <1>7 DEF IsPackage, IsOperatorFile
  <2> QED BY <1>6, <2>1, <2>2
<1>8. CASE disk' = [disk EXCEPT !.operator.parses = ~ @]
  <2> DEFINE o == [disk.operator EXCEPT !.parses = ~ @]
  <2>1. IsOperatorFile(o)
    BY <1>1 DEF IsOperatorFile
  <2>2. disk' = [disk EXCEPT !.operator = o]
    BY <1>1, <1>8 DEF IsPackage, IsOperatorFile
  <2> QED BY <1>6, <2>1, <2>2
<1>9. CASE disk' = [disk EXCEPT !.params.parses = ~ @]
  <2> DEFINE ps == [disk.params EXCEPT !.parses = ~ @]
  <2>1. ps \in ParamsFiles /\ ps # None
    BY <1>1, EditingAssumption DEF ParamsFiles
  <2>2. disk' = [disk EXCEPT !.params = ps]
    BY <1>1, <1>9 DEF IsPackage, ParamsFiles
  <2> HIDE DEF ps
  <2> QED BY <1>1, <2>1, <2>2 DEF IsPackage, Optional
<1> QED BY <1>2, <1>3, <1>4, <1>5, <1>7, <1>8, <1>9 DEF Edit

\* What a command reads at its beginning.
LEMMA BeginStep ==
  ASSUME Typed, NEW kind \in {"parameter", "task", "maintainer", "plan"},
         NEW name \in Optional(Text), NEW phases \in Seq(Phases), Begin(kind, name, phases),
         kind = "plan" => name \in Text /\ name \notin DOMAIN disk.operator.plans
  PROVE  OpenTyped' /\ NewPlan'
<1>1. IsPackage(disk) /\ disk.operator # None /\ disk.params # None
  BY DEF Typed, Begin, Readable
<1>2. disk.params \in ParamsFiles /\ IsOperatorFile(disk.operator)
  BY <1>1 DEF IsPackage, Optional
<1>3. Parsed(disk.params).list \in Seq(Parameters)
  BY <1>2, ParsedTyped DEF ParamsFiles
<1>4. ParamNames(Read(disk)) \in SUBSET DOMAIN Folded
  <2>1. Read(disk).params = Parsed(disk.params)
    BY <1>1 DEF Read, IsPackage
  <2>2. Range(Parsed(disk.params).list) \subseteq Parameters
    BY <1>3, ElementsTyped
  <2> QED BY <2>1, <2>2 DEF ParamNames, Params, Parameters
<1>5. TaskNames(disk) \in SUBSET Text
  <2>1. Range(disk.operator.tasks) \subseteq Tasks
    BY <1>2, ElementsTyped DEF IsOperatorFile
  <2> QED BY <2>1 DEF TaskNames, Tasks
<1>6. DOMAIN disk.operator.plans \in SUBSET Text
  BY <1>2 DEF IsOperatorFile
<1> QED BY <1>4, <1>5, <1>6 DEF Begin, OpenTyped, NewPlan, Asks

\* What ForPlan begins with.
LEMMA OnePhaseTyped ==
  ASSUME NEW phase \in Phase, NEW step \in Step
  PROVE  OnePhase(phase, step, <<>>) \in Seq(Phases)
BY EditingAssumption DEF OnePhase, Phases

\* What is said about the plan only makes it longer.
LEMMA PhasesTyped ==
  ASSUME NEW ps \in Seq(Phases), NEW k, NEW j, NEW n \in Text, NEW step \in Text
  PROVE  /\ [ps EXCEPT ![k].steps[j].tasks = Append(@, n)] \in Seq(Phases)
         /\ [ps EXCEPT ![k].steps = Append(@, [name |-> step, tasks |-> <<>>])] \in Seq(Phases)
<1> DEFINE Steps == [name : Text, tasks : Seq(Text)]
           p     == ps[k]
           st    == p.steps[j]
           added == [st EXCEPT !.tasks = Append(@, n)]
           first == [name |-> step, tasks |-> <<>>]
<1>1. k \in DOMAIN ps => p \in Phases
  OBVIOUS
<1>2. k \in DOMAIN ps => p.steps \in Seq(Steps)
  BY <1>1 DEF Phases
<1>3. ASSUME k \in DOMAIN ps, j \in DOMAIN p.steps
      PROVE  added \in Steps
  <2>1. st \in Steps
    <3> HIDE DEF Steps, p
    <3> QED BY <1>2, <1>3
  <2>2. Append(st.tasks, n) \in Seq(Text)
    BY <2>1
  <2> QED BY <2>1, <2>2
<1>4. first \in Steps
  OBVIOUS
<1> HIDE DEF added, first, p
<1>5. ASSUME k \in DOMAIN ps
      PROVE  /\ [p.steps EXCEPT ![j] = added] \in Seq(Steps)
             /\ Append(p.steps, first) \in Seq(Steps)
  <2> DEFINE steps == p.steps
  <2>1. steps \in Seq(Steps) /\ (j \in DOMAIN steps => added \in Steps)
    BY <1>2, <1>3, <1>5
  <2> HIDE DEF Steps, steps
  <2>2. [steps EXCEPT ![j] = added] \in Seq(Steps) /\ Append(steps, first) \in Seq(Steps)
    BY <2>1, <1>4, ReplacedTyped
  <2> QED BY <2>2 DEF steps
<1>6. \A steps \in Seq(Steps) : k \in DOMAIN ps => [p EXCEPT !.steps = steps] \in Phases
  BY <1>1 DEF Phases
<1>7. /\ k \in DOMAIN ps => [p EXCEPT !.steps = [@ EXCEPT ![j] = added]] \in Phases
      /\ k \in DOMAIN ps => [p EXCEPT !.steps = Append(@, first)] \in Phases
  BY <1>5, <1>6
<1>8. /\ [ps EXCEPT ![k] = [p EXCEPT !.steps = [@ EXCEPT ![j] = added]]] \in Seq(Phases)
      /\ [ps EXCEPT ![k] = [p EXCEPT !.steps = Append(@, first)]] \in Seq(Phases)
  BY <1>7, ReplacedTyped DEF p
<1> QED BY <1>8 DEF added, first, p

\* What the author says about a plan: one more task, step or phase.
LEMMA PlanAnswerStep ==
  ASSUME Typed, NewPlan,
         \/ \E n \in Task : PickTask(n)
         \/ \E step \in Step : AnotherStep(step)
         \/ \E phase \in Phase, step \in Step : AnotherPhase(phase, step)
  PROVE  OpenTyped' /\ NewPlan'
<1>1. /\ Asks("plan") /\ open # None /\ OpenTyped
      /\ open.phases \in Seq(Phases) /\ open.tasks \in SUBSET Text
  BY DEF Typed, PickTask, AnotherStep, AnotherPhase, StepEnds, Asks, OpenTyped
<1>2. \A ps \in Seq(Phases), ts \in SUBSET Text :
         open' = [open EXCEPT !.tasks = ts, !.phases = ps] => OpenTyped' /\ NewPlan'
  BY <1>1 DEF OpenTyped, NewPlan, Asks
<1>3. ASSUME NEW n \in Task, PickTask(n) PROVE OpenTyped' /\ NewPlan'
  <2> DEFINE ps == [open.phases EXCEPT ![Len(open.phases)].steps[Len(Last(open.phases).steps)].tasks
                       = Append(@, n)]
             ts == open.tasks \cup {n}
  <2>1. n \in Text
    BY EditingAssumption
  <2>2. ps \in Seq(Phases)
    BY <1>1, <2>1, PhasesTyped
  <2>3. ts \in SUBSET Text
    BY <1>1, <2>1
  <2>4. open' = [open EXCEPT !.tasks = ts, !.phases = ps]
    BY <1>3 DEF PickTask
  <2> HIDE DEF ps, ts
  <2> QED BY <1>2, <2>2, <2>3, <2>4
<1>4. ASSUME NEW step \in Step, AnotherStep(step) PROVE OpenTyped' /\ NewPlan'
  <2> DEFINE ps == [open.phases EXCEPT ![Len(open.phases)].steps
                       = Append(@, [name |-> step, tasks |-> <<>>])]
  <2>1. step \in Text
    BY EditingAssumption
  <2>2. ps \in Seq(Phases)
    BY <1>1, <2>1, PhasesTyped
  <2>3. open' = [open EXCEPT !.tasks = open.tasks, !.phases = ps]
    BY <1>1, <1>4 DEF AnotherStep, OpenTyped
  <2> HIDE DEF ps
  <2> QED BY <1>1, <1>2, <2>2, <2>3
<1>5. ASSUME NEW phase \in Phase, NEW step \in Step, AnotherPhase(phase, step)
      PROVE  OpenTyped' /\ NewPlan'
  <2> DEFINE ps == open.phases \o OnePhase(phase, step, <<>>)
  <2>1. OnePhase(phase, step, <<>>) \in Seq(Phases)
    BY OnePhaseTyped
  <2>2. ps \in Seq(Phases)
    BY <1>1, <2>1
  <2>3. open' = [open EXCEPT !.tasks = open.tasks, !.phases = ps]
    BY <1>1, <1>5 DEF AnotherPhase, OpenTyped
  <2> HIDE DEF ps
  <2> QED BY <1>1, <1>2, <2>2, <2>3
<1> QED BY <1>3, <1>4, <1>5

(* ---------------------------- the invariant --------------------------- *)

\* An empty directory and no command.
LEMMA Initially == Init => IInv /\ CreatedRuns
BY DEF Init, IInv, Typed, IsPackage, OpenTyped, NewPlan, Asks, CreatedRuns, Optional

\* Every step keeps the files well-formed, and what it does not count as an edit
\* keeps what is in them.
LEMMA DiskStep ==
  ASSUME IInv, [Next]_vars
  PROVE  /\ edits' \in Nat /\ IsPackage(disk')
         /\ edits' = edits => Keeps(disk, disk')
<1>1. Typed /\ edits \in Nat
  BY DEF IInv, Typed
<1> USE <1>1
<1>2. CASE New
  BY <1>2, NewStep
<1>3. CASE AddParameter
  BY <1>3, AddParameterStep DEF AddParameter, bounded
<1>4. CASE AddMaintainer
  BY <1>4, AddMaintainerStep DEF AddMaintainer, bounded
<1>5. CASE AddTask
  BY <1>5, TaskCreatedStep DEF AddTask, Readable
<1>6. CASE AddPlan
  BY <1>6, AddPlanStep DEF AddPlan, bounded
<1>7. ASSUME NEW n \in Task, PickTask(n)
      PROVE  edits' = edits /\ IsPackage(disk') /\ Keeps(disk, disk')
  <2>1. CASE UNCHANGED disk
    BY <1>7, <2>1, NothingWritten DEF PickTask
  <2>2. CASE disk.operator # None /\ TaskCreated(n)
    BY <1>7, <2>2, TaskCreatedStep DEF PickTask
  <2> QED BY <1>7, <2>1, <2>2 DEF PickTask, Readable
<1>8. ASSUME NEW n \in Task, TaskRefused(n)
      PROVE  edits' = edits /\ IsPackage(disk') /\ Keeps(disk, disk')
  <2>1. PICK t \in TaskAnswers(n) : disk' = Touched(disk, Range(FilesOf(t)))
    BY <1>8 DEF TaskRefused
  <2>2. Range(FilesOf(t)) \in SUBSET File
    BY TaskAnswersTyped, FilesTyped
  <2> QED BY <1>8, <2>1, <2>2, TouchedStep DEF TaskRefused, bounded
<1>9. CASE Edit
  <2>1. edits' = edits + 1
    BY <1>9 DEF Edit
  <2> QED BY <1>9, <2>1, EditStep
<1>10. CASE FillDeploy
  BY <1>10, FillDeployStep DEF FillDeploy, bounded
<1>11. CASE UNCHANGED <<disk, edits>>
  BY <1>11, NothingWritten
<1>12. ASSUME \/ AddSomething \/ GiveUp \/ BeginPlan
              \/ \E step \in Step : AnotherStep(step) \/ \E phase \in Phase : AnotherPhase(phase, step)
              \/ \E path \in Path : Create(path)
              \/ UNCHANGED vars
       PROVE  UNCHANGED <<disk, edits>>
  BY <1>12 DEF AddSomething, GiveUp, BeginPlan, AnotherStep, AnotherPhase, Create, bounded, vars
<1> QED BY <1>2, <1>3, <1>4, <1>5, <1>6, <1>7, <1>8, <1>9, <1>10, <1>11, <1>12 DEF Next

\* What is asked stays well-formed, and the name of a plan stays new.
LEMMA OpenStep ==
  ASSUME IInv, [Next]_vars
  PROVE  OpenTyped' /\ NewPlan'
<1>1. Typed /\ NewPlan /\ OpenTyped
  BY DEF IInv, Typed
<1>2. CASE AddSomething
  <2>1. PICK kind \in {"parameter", "task", "maintainer"} : Begin(kind, None, <<>>)
    BY <1>2 DEF AddSomething
  <2>2. <<>> \in Seq(Phases) /\ None \in Optional(Text)
    BY DEF Optional
  <2> QED BY <1>1, <2>1, <2>2, BeginStep
<1>3. CASE BeginPlan
  <2>1. PICK n \in Plan, phase \in Phase, step \in Step :
           n \notin DOMAIN disk.operator.plans /\ Begin("plan", n, OnePhase(phase, step, <<>>))
    BY <1>3 DEF BeginPlan
  <2>2. n \in Text /\ n \in Optional(Text)
    BY EditingAssumption DEF Optional
  <2> QED BY <1>1, <2>1, <2>2, OnePhaseTyped, BeginStep
<1>4. CASE \/ \E n \in Task : PickTask(n)
           \/ \E step \in Step : AnotherStep(step)
           \/ \E phase \in Phase, step \in Step : AnotherPhase(phase, step)
  BY <1>1, <1>4, PlanAnswerStep
<1>5. CASE open' = None
  BY <1>5 DEF OpenTyped, NewPlan, Asks
<1>6. CASE UNCHANGED open
  BY <1>1, <1>6 DEF OpenTyped, NewPlan, Asks
<1>7. ASSUME \/ GiveUp \/ AddParameter \/ AddMaintainer \/ AddTask \/ AddPlan
             \/ \E n \in Task : TaskRefused(n)
      PROVE  open' = None
  BY <1>7 DEF GiveUp, AddParameter, AddMaintainer, AddTask, AddPlan, TaskRefused
<1>8. ASSUME \/ New \/ Edit \/ FillDeploy \/ UNCHANGED vars
             \/ \E path \in Path : Create(path)
      PROVE  UNCHANGED open
  BY <1>8 DEF New, Edit, FillDeploy, Create, vars
<1> QED BY <1>2, <1>3, <1>4, <1>5, <1>6, <1>7, <1>8 DEF Next

(* ------------------------- what create lets pass ---------------------- *)

\* Where the path of the directory is in no name, the tarball has the files.
LEMMA ArchiveIsPackage ==
  ASSUME NEW d, IsPackage(d), NEW path \in Path,
         \A g \in DOMAIN Stripped[path] : Stripped[path][g] = g
  PROVE  Archive(path, d) = d
<1> DEFINE name == Stripped[path]
           gs   == DOMAIN d.templates
           ts   == [f \in {name[g] : g \in gs} |-> d.templates[CHOOSE g \in gs : name[g] = f]]
<1>1. DOMAIN name = File \cup {"operator.yaml", "params.yaml"}
  BY FilesAssumption
<1>2. name["operator.yaml"] = "operator.yaml" /\ name["params.yaml"] = "params.yaml"
  BY <1>1
<1>3. gs \subseteq File /\ \A g \in gs : name[g] = g
  BY <1>1 DEF IsPackage
<1>4. {name[g] : g \in gs} = gs
  BY <1>3
<1>5. \A f \in gs : (CHOOSE g \in gs : name[g] = f) = f
  BY <1>3
<1>6. ts = d.templates
  BY <1>4, <1>5 DEF IsPackage
<1>7. Archive(path, d) = [operator |-> d.operator, params |-> d.params, templates |-> ts]
  BY <1>2 DEF Archive
<1> HIDE DEF ts
<1> QED BY <1>6, <1>7 DEF IsPackage

\* The verifiers see to it that the tasks of every plan can run: tasksNotDefined,
\* tasksWellDefined, ReferenceVerifier, templateCompilable, paramsNotDefined and the
\* implicits, one after the other.
LEMMA VerifiedRuns ==
  ASSUME NEW f, Verified(f), f.operator.tasks \in Seq(Tasks),
         NEW plan \in Plans(f), NEW n \in Range(TasksOf(plan))
  PROVE  TaskRuns(f, plan, n)
<1>1. n \in TaskNames(f)
  BY DEF Verified, TasksDefined
<1>2. TaskIndex(f, n) # 0 /\ TaskNamed(f, n) \in Range(f.operator.tasks)
  BY <1>1, IndexFound
<1>3. Builds(TaskNamed(f, n))
  BY <1>2 DEF Verified, TasksWellDefined
<1>4. ASSUME NEW r \in Resources(TaskNamed(f, n))
      PROVE  r \in DOMAIN f.templates
  BY <1>2, <1>4 DEF Verified, TemplatesDefined
<1>5. ASSUME NEW r \in DOMAIN f.templates
      PROVE  f.templates[r].parses /\ f.templates[r] \in Range(f.templates)
  BY <1>5 DEF Verified, TemplatesCompilable, Renders, Range
<1>6. ASSUME NEW r \in DOMAIN f.templates, NEW on \in SUBSET ParamNames(f),
             NEW a \in LookedUp[f.templates[r].nodes, on],
             a.root # "Pipes", a \in Found[f.templates[r].nodes]
      PROVE  Known(a, [params |-> ParamNames(f), on |-> on, pipes |-> PipesMap(f, plan)])
  <2> DEFINE t == f.templates[r]
  <2>1. t.parses /\ t \in Range(f.templates)
    BY <1>5
  <2>2. a.root = "Params" => a.name \in ParamNames(f)
    <3>1. FoundOf(t, "Params") \subseteq ParamNames(f)
      BY <2>1 DEF Verified, ParamsDefined
    <3> QED BY <1>6, <2>1, <3>1 DEF FoundOf
  <2>3. a.root = "implicit" => a.name \in Implicit
    <3>1. FoundOf(t, "implicit") \subseteq Implicit
      BY <2>1 DEF Verified, ImplicitsValid
    <3> QED BY <1>6, <2>1, <3>1 DEF FoundOf
  <2> QED BY <1>6, <2>2, <2>3 DEF Known
<1>7. ASSUME NEW r \in DOMAIN f.templates, NEW on \in SUBSET ParamNames(f), NEW a,
             a \in LookedUp[f.templates[r].nodes, DefaultsOn(f)]
      PROVE  \/ PipeOfAnyPlan(f, a)
             \/ Known(a, [params |-> ParamNames(f), on |-> on, pipes |-> PipesMap(f, plan)])
  <2> DEFINE env == [params |-> ParamNames(f), on |-> DefaultsOn(f), pipes |-> AllPipes(f)]
  <2>1. Renders(f.templates[r], env)
    BY DEF Verified, TemplatesCompilable
  <2>2. Known(a, env)
    BY <1>7, <2>1 DEF Renders
  <2> QED BY <2>2 DEF Known, PipeOfAnyPlan
<1>8. ASSUME NEW r \in DOMAIN f.templates, NEW on \in SUBSET ParamNames(f),
             NEW a \in LookedUp[f.templates[r].nodes, on]
      PROVE  LET t   == f.templates[r]
                 env == [params |-> ParamNames(f), on |-> on, pipes |-> PipesMap(f, plan)]
             IN  \/ Known(a, env)
                 \/ UnseenBranch(f, t, a) \/ UnseenPipe(f, t, a) \/ PipeOfAnyPlan(f, a)
  <2>1. CASE a \in LookedUp[f.templates[r].nodes, DefaultsOn(f)]
    BY <1>7, <2>1
  <2>2. CASE a \notin LookedUp[f.templates[r].nodes, DefaultsOn(f)]
    BY <1>6, <2>2 DEF UnseenBranch, UnseenPipe
  <2> QED BY <2>1, <2>2
<1> QED BY <1>2, <1>3, <1>4, <1>5, <1>8 DEF TaskRuns

\* Every task of a verified package is converted (validateTask).
LEMMA VerifiedConverts ==
  ASSUME NEW f, Verified(f)
  PROVE  Converts(f)
BY DEF Verified, TasksWellDefined, TemplatesDefined, Converts, TaskValid, Builds

\* kudo package create
LEMMA CreateStep ==
  ASSUME IsPackage(disk), NEW path \in Path, Create(path)
  PROVE  CreatedRuns'
<1> SUFFICES ASSUME \A g \in DOMAIN Stripped[path] : Stripped[path][g] = g
             PROVE  CreatedRuns'
  BY DEF Create, CreatedRuns
<1> DEFINE f == Read(disk)
<1>1. tarball' = [files |-> disk, path |-> path]
  BY ArchiveIsPackage DEF Create
<1>2. Readable(disk) /\ Verified(f)
  BY DEF Create, VerifyPackage
<1>3. f.operator.tasks \in Seq(Tasks)
  BY <1>2 DEF IsPackage, IsOperatorFile, Read, Readable
<1>4. Installable(disk)
  BY <1>2, VerifiedConverts DEF Installable
<1>5. /\ "deploy" \in DOMAIN f.operator.plans
      /\ \A p \in Params(f) : p.trigger \in {None} \cup DOMAIN f.operator.plans
      /\ \A plan \in Plans(f) : ~ PipesMapFails(f, plan)
  BY <1>2 DEF Verified, HasMandatoryPlans, PlansDefined, TemplatesCompilable
<1>6. \A plan \in Plans(f) : \A n \in Range(TasksOf(plan)) : TaskRuns(f, plan, n)
  BY <1>2, <1>3, VerifiedRuns
<1>7. tarball'.files = disk
  BY <1>1
<1> HIDE DEF f
<1> QED BY <1>4, <1>5, <1>6, <1>7 DEF CreatedRuns, f

\* The files are well-formed whenever they are read, whatever is written by hand
\* while a command asks, and a plan is only written under a name that was new when
\* its command began (ForPlan's validation, AddPlan).
THEOREM Editing == Spec => []IInv
<1>1. Init => IInv
  BY Initially
<1>2. IInv /\ [Next]_vars => IInv'
  <2> SUFFICES ASSUME IInv, [Next]_vars PROVE IInv'
    OBVIOUS
  <2>1. edits' \in Nat /\ IsPackage(disk')
    BY DiskStep
  <2>2. OpenTyped' /\ NewPlan'
    BY OpenStep
  <2> QED BY <2>1, <2>2 DEF IInv, Typed, IsPackage, IsOperatorFile
<1> QED BY <1>1, <1>2, PTL DEF Spec

\* No command of kudo package loses or changes what is in the package (AddTask,
\* AddPlan, AddParameter, AddMaintainer, EnsureResource).
THEOREM PackageKept == Spec => NothingLost
<1>1. IInv /\ [Next]_vars => [edits' = edits => Keeps(disk, disk')]_vars
  BY DiskStep
<1> QED BY <1>1, Editing, PTL DEF Spec, NothingLost

\* What kudo package create lets pass can be read back, converted and executed
\* (verifyPackage, TgzDir, FilesToResources, task.Build); a lookup in a template
\* that fails is in one of the three gaps of the verifiers.
THEOREM PackageRuns == Spec => []CreatedRuns
<1>1. Init => CreatedRuns
  BY Initially
<1>2. IInv /\ CreatedRuns /\ [Next]_vars => CreatedRuns'
  <2> SUFFICES ASSUME IInv, CreatedRuns, [Next]_vars PROVE CreatedRuns'
    OBVIOUS
  <2>1. ASSUME NEW path \in Path, Create(path) PROVE CreatedRuns'
    BY <2>1, CreateStep DEF IInv, Typed
  <2>2. CASE UNCHANGED tarball
    BY <2>2 DEF CreatedRuns
  <2>3. ASSUME \/ New \/ AddSomething \/ GiveUp \/ AddParameter \/ AddMaintainer \/ AddTask
               \/ BeginPlan \/ AddPlan
               \/ \E n \in Task : PickTask(n) \/ TaskRefused(n)
               \/ \E step \in Step : AnotherStep(step) \/ \E phase \in Phase : AnotherPhase(phase, step)
               \/ Edit \/ FillDeploy \/ UNCHANGED vars
        PROVE  UNCHANGED tarball
    BY <2>3 DEF New, AddSomething, GiveUp, AddParameter, AddMaintainer, AddTask, BeginPlan, AddPlan,
                PickTask, TaskRefused, AnotherStep, AnotherPhase, Edit, FillDeploy, vars
  <2> QED BY <2>1, <2>2, <2>3 DEF Next
<1> QED BY <1>1, <1>2, Editing, PTL DEF Spec
=============================================================================
