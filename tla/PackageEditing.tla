---------------------------- MODULE PackageEditing ----------------------------
(***************************************************************************)
(* An author makes an operator package: kudo package new, add parameter,   *)
(* add task, add maintainer, add plan and create (pkg/kudoctl/cmd,         *)
(* cmd/generate, cmd/prompt).  A command reads the package, asks, and      *)
(* reads and writes it again; while it asks the author edits the files by  *)
(* hand.  Adding a plan may create tasks before the plan itself is         *)
(* written.  The author has one command running at a time, in or next to   *)
(* the only package directory.                                             *)
(***************************************************************************)
EXTENDS PackageFiles

CONSTANTS
    Param, Task, Plan, Phase, Step, Manifest,   \* the names that the author may type
    TaskKinds,                  \* the kinds that the author chooses
    ResourceLists, PipeAnswers, \* the answers about resources, and about pods and pipes
    HandParams,    \* parameters that are only written by hand
    HandPlans,     \* HandPlans[n]: plans n that are written by hand
    HandTemplates, \* files and what is written into them by hand
    MaxCommands, MaxEdits, MaxFaults, MaxPicks    \* bounds

(* -------------------------------- files ------------------------------- *)

Optional(S) == {None} \cup S

Parameters ==
    [name : DOMAIN Folded, type : Text, default : Optional(Text), required : Optional(BOOLEAN),
     immutable : Optional(BOOLEAN), advanced : BOOLEAN, trigger : Optional(Text),
     group : Optional(Text), enum : Optional(SUBSET Text)]

Pipes == [key : Text, valid : BOOLEAN]

Tasks ==
    [name : Text, kind : Text, resources : Seq(File), parameter : Optional(Text),
     pod : Optional(File), pipes : Seq(Pipes), package : Optional(Text), file : Optional(File)]

Phases == [name : Text, steps : Seq([name : Text, tasks : Seq(Text)])]

ParamsFiles == [parses : BOOLEAN, groups : Seq(Text), list : Seq(Parameters)]

\* o is the content of operator.yaml.
IsOperatorFile(o) ==
    /\ o \in [parses : BOOLEAN, versions : BOOLEAN, manifest : Optional(Text), maintainers : Nat,
              tasks : Seq(Tasks), plans : {o.plans}]
    /\ o.plans \in [DOMAIN o.plans -> Seq(Phases)]
    /\ DOMAIN o.plans \subseteq Text

Templates == [parses : BOOLEAN, yaml : Text, nodes : Trees]

\* What the author types and writes is well-formed.
ASSUME EditingAssumption ==
    /\ Param \subseteq DOMAIN Folded
    /\ Task \cup Plan \cup Phase \cup Step \cup Manifest \cup TaskKinds \subseteq Text
    /\ {"deploy", "Apply", "string", "text", "none"} \subseteq Text
    /\ ResourceLists \subseteq Seq(File)
    /\ PipeAnswers \subseteq [pod : File, pipes : Seq(Pipes)]
    /\ HandParams \subseteq Parameters
    /\ HandPlans \subseteq Seq(Phases)
    /\ HandTemplates \subseteq [file : File, content : Templates]
    /\ None \notin ParamsFiles

VARIABLES
    disk,      \* the package directory
    open,      \* the command that is asking, with what it has read and been told
    tarball,   \* what package create has written, and from which path
    commands, edits, faults, picks

bounded == <<commands, edits, faults>>
vars == <<disk, open, tarball, bounded, picks>>

NewTask(n, kind) ==
    [name |-> n, kind |-> kind, resources |-> <<>>, parameter |-> None, pod |-> None,
     pipes |-> <<>>, package |-> None, file |-> None]

EmptyFile == [parses |-> TRUE, yaml |-> "none", nodes |-> <<>>]

NewParams == [parses |-> TRUE, groups |-> <<>>, list |-> <<>>]

OnePhase(phase, step, tasks) == <<[name |-> phase, steps |-> <<[name |-> step, tasks |-> tasks]>>]>>

\* Operator: the deploy task has no resources yet.
NewOperator ==
    [parses |-> TRUE, versions |-> TRUE, manifest |-> None, maintainers |-> 1,
     tasks |-> <<NewTask("deploy", "Apply")>>,
     plans |-> [n \in {"deploy"} |-> OnePhase("deploy", "deploy", <<"deploy">>)]]

Init ==
    /\ disk = [operator |-> None, params |-> None, templates |-> [f \in {} |-> EmptyFile]]
    /\ open = None /\ tarball = None
    /\ commands = 0 /\ edits = 0 /\ faults = 0 /\ picks = 0

(* ------------------------------ package new --------------------------- *)

\* A directory that exists is only written to with --overwrite, which is a
\* change by the author, and its parameters and templates stay.
CanGenerate(overwrite) == disk.operator # None => overwrite

New ==
    /\ open = None
    /\ CanGenerate(edits < MaxEdits)
    /\ edits' = IF disk.operator = None THEN edits ELSE edits + 1
    /\ disk' = [disk EXCEPT !.operator = NewOperator,
                            !.params = IF @ = None THEN NewParams ELSE @]
    /\ UNCHANGED <<open, tarball, commands, faults, picks>>

(* -------------------------------- prompts ----------------------------- *)

\* What a command knows from before it asks; name and phases are the plan that
\* it is told.
Begin(kind, name, phases) ==
    /\ open = None /\ Readable(disk)
    /\ commands < MaxCommands /\ commands' = commands + 1
    /\ open' = [kind   |-> kind, name |-> name, phases |-> phases,
                params |-> ParamNames(Read(disk)),
                tasks  |-> TaskNames(disk),
                plans  |-> DOMAIN disk.operator.plans]

Asks(kind) == open # None /\ open.kind = kind

AddSomething ==
    /\ \E kind \in {"parameter", "task", "maintainer"} : Begin(kind, None, <<>>)
    /\ UNCHANGED <<disk, tarball, edits, faults, picks>>

\* Ctrl-C at a prompt, or the package cannot be read any more.
GiveUp ==
    /\ open # None
    /\ open' = None
    /\ picks' = 0
    /\ UNCHANGED <<disk, tarball, bounded>>

NewParameter(n, v, r, g) ==
    [name |-> n, type |-> "string", default |-> v, required |-> r, immutable |-> None,
     advanced |-> FALSE, trigger |-> g, group |-> None, enum |-> None]

\* ForParameter: the answer "false" leaves required open, and the plan of the
\* trigger is one of the plans or a name that is typed.
ParameterAnswers ==
    {NewParameter(n, v, r, g) : n \in Param \ open.params, v \in Optional({"text"}),
                                r \in Optional({TRUE}), g \in Optional(open.plans \cup Plan)}

WithParameter(d, p) == [d EXCEPT !.params = [Parsed(d.params) EXCEPT !.list = Append(@, p)]]

AddParameter ==
    /\ Asks("parameter") /\ Readable(disk)
    /\ \E p \in ParameterAnswers : disk' = WithParameter(disk, p)
    /\ open' = None
    /\ UNCHANGED <<tarball, bounded, picks>>

AddMaintainer ==
    /\ Asks("maintainer") /\ Readable(disk) /\ disk.operator.maintainers = 1
    /\ disk' = [disk EXCEPT !.operator.maintainers = @ + 1]
    /\ open' = None
    /\ UNCHANGED <<tarball, bounded, picks>>

(* --------------------------------- tasks ------------------------------ *)

TaskOnResources(n, k, rs) == [NewTask(n, k) EXCEPT !.resources = rs]
TaskWithPipes(n, a) == [NewTask(n, "Pipe") EXCEPT !.pod = a.pod, !.pipes = a.pipes]

\* ForTask asks nothing more about a toggle.
TaskAnswers(n) ==
    {TaskOnResources(n, k, rs) : k \in TaskKinds \cap {"Apply", "Delete"}, rs \in ResourceLists}
    \cup {TaskWithPipes(n, a) : a \in {b \in PipeAnswers : "Pipe" \in TaskKinds}}
    \cup {NewTask(n, k) : k \in TaskKinds \cap {"Toggle"}}

\* EnsureResource
Touched(d, files) ==
    [d EXCEPT !.templates = [f \in DOMAIN @ \cup files |-> IF f \in DOMAIN @ THEN @[f] ELSE EmptyFile]]

WithTask(d, t) == [d EXCEPT !.operator.tasks = Append(@, t)]

FilesOf(t) == IF t.kind = "Pipe" THEN <<t.pod>> ELSE t.resources

\* createTaskFromPrompts: a file that cannot be written ends it, and nobody is
\* told that there is no task.
TaskCreated(n) ==
    \E t \in TaskAnswers(n) :
        \/ /\ disk' = WithTask(Touched(disk, Range(FilesOf(t))), t)
           /\ UNCHANGED faults
        \/ /\ faults < MaxFaults
           /\ \E k \in DOMAIN FilesOf(t) : disk' = Touched(disk, Range(SubSeq(FilesOf(t), 1, k - 1)))
           /\ faults' = faults + 1

AddTask ==
    /\ Asks("task") /\ Readable(disk)
    /\ \E n \in Task \ open.tasks : TaskCreated(n)
    /\ open' = None
    /\ UNCHANGED <<tarball, commands, edits, picks>>

\* The package cannot be read any more, but its templates are written first.
TaskRefused(n) ==
    /\ Asks("task") \/ Asks("plan")
    /\ n \notin open.tasks /\ ~ Readable(disk)
    /\ \E t \in TaskAnswers(n) : disk' = Touched(disk, Range(FilesOf(t)))
    /\ open' = None /\ picks' = 0
    /\ UNCHANGED <<tarball, bounded>>

(* --------------------------------- plans ------------------------------ *)

BeginPlan ==
    /\ Readable(disk)
    /\ \E n \in Plan, phase \in Phase, step \in Step :
          /\ n \notin DOMAIN disk.operator.plans
          /\ Begin("plan", n, OnePhase(phase, step, <<>>))
    /\ UNCHANGED <<disk, tarball, edits, faults, picks>>

LastStep(phases) == Last(Last(phases).steps)

\* forStepTaskName: one of the tasks, or anything that is typed.  A task that
\* is not known may be created now, and is known from then on.
PickTask(n) ==
    /\ Asks("plan") /\ picks < MaxPicks
    /\ open' = [open EXCEPT !.tasks = @ \cup {n},
                            !.phases[Len(open.phases)].steps[Len(Last(open.phases).steps)].tasks = Append(@, n)]
    /\ picks' = picks + 1
    /\ \/ UNCHANGED <<disk, faults>>
       \/ n \notin open.tasks /\ Readable(disk) /\ TaskCreated(n)
    /\ UNCHANGED <<tarball, commands, edits>>

StepEnds == Asks("plan") /\ LastStep(open.phases).tasks # <<>> /\ picks < MaxPicks

AnotherStep(step) ==
    /\ StepEnds
    /\ \A s \in Range(Last(open.phases).steps) : s.name # step
    /\ open' = [open EXCEPT !.phases[Len(open.phases)].steps = Append(@, [name |-> step, tasks |-> <<>>])]
    /\ UNCHANGED <<disk, tarball, bounded, picks>>

\* The names of the phases are never collected, so that any will do.
AnotherPhase(phase, step) ==
    /\ StepEnds
    /\ open' = [open EXCEPT !.phases = @ \o OnePhase(phase, step, <<>>)]
    /\ UNCHANGED <<disk, tarball, bounded, picks>>

\* Mutant: the plan is put into a map of its own.
OnlyPlan(d, n, plan) == [d EXCEPT !.operator.plans = n :> plan]

\* plans[n] = plan
Put(table, key, value) ==
    [k \in DOMAIN table \cup {key} |-> IF k = key THEN value ELSE table[k]]

WithPlan(d, n, plan) == [d EXCEPT !.operator.plans = Put(@, n, plan)]

AddPlan ==
    /\ Asks("plan") /\ LastStep(open.phases).tasks # <<>> /\ Readable(disk)
    /\ disk' = WithPlan(disk, open.name, open.phases)
    /\ open' = None /\ picks' = 0
    /\ UNCHANGED <<tarball, bounded>>

(* ----------------------------- package create ------------------------- *)

VerifyPackage == Readable(disk) /\ Verified(Read(disk))

\* Nothing is asked between the verification and the writing.
Create(path) ==
    /\ open = None /\ VerifyPackage
    /\ tarball' = [files |-> Archive(path, disk), path |-> path]
    /\ UNCHANGED <<disk, open, bounded, picks>>

(* ------------------------------- the author --------------------------- *)

\* By hand, at any time; a file may be left in a state that is no YAML.
Edit ==
    /\ disk.operator # None
    /\ edits < MaxEdits /\ edits' = edits + 1
    /\ \/ \E t \in HandTemplates : disk' = [disk EXCEPT !.templates = Put(@, t.file, t.content)]
       \/ \E f \in DOMAIN disk.templates :
             disk' = [disk EXCEPT !.templates = Restrict(@, DOMAIN @ \ {f})]
       \/ \E p \in HandParams : disk' = [disk EXCEPT !.params.list = Append(@, p)]
       \/ \E n \in Plan, plan \in HandPlans : disk' = WithPlan(disk, n, plan)
       \/ \E m \in Manifest : disk' = [disk EXCEPT !.operator.manifest = m]
       \/ disk' = [disk EXCEPT !.operator.parses = ~ @]
       \/ disk' = [disk EXCEPT !.params.parses = ~ @]
    /\ UNCHANGED <<open, tarball, commands, faults, picks>>

\* The deploy task is given its resources.
FillDeploy ==
    /\ disk.operator # None
    /\ \E rs \in ResourceLists, i \in DOMAIN disk.operator.tasks :
          /\ disk.operator.tasks[i].resources = <<>> /\ disk.operator.tasks[i].kind = "Apply"
          /\ disk' = [disk EXCEPT !.operator.tasks[i].resources = rs]
    /\ UNCHANGED <<open, tarball, bounded, picks>>

\* The package is done when it is in a tarball.
Next ==
    /\ tarball = None
    /\ \/ New \/ AddSomething \/ GiveUp \/ AddParameter \/ AddMaintainer \/ AddTask
       \/ BeginPlan \/ AddPlan
       \/ \E n \in Task : PickTask(n) \/ TaskRefused(n)
       \/ \E step \in Step : AnotherStep(step) \/ \E phase \in Phase : AnotherPhase(phase, step)
       \/ \E path \in Path : Create(path)
       \/ Edit \/ FillDeploy

Spec == Init /\ [][Next]_vars

(* ----------------------------- properties ----------------------------- *)

\* The verifiers leave three gaps.  What the walk over the templates does not see,
\* in a range's else or after an argument without a dot, is looked up with the
\* default values only (walkNodes, walkPipes);
UnseenBranch(f, t, a) == a \notin LookedUp[t.nodes, DefaultsOn(f)] /\ a \notin Found[t.nodes]

\* the walk sees the pipes, but nobody asks for them: in a branch that is not taken
\* with the default values they may be any (templateCompilable);
UnseenPipe(f, t, a) == a.root = "Pipes" /\ a \notin LookedUp[t.nodes, DefaultsOn(f)]

\* and the pipes of all the plans are there for each (collectPipes).
PipeOfAnyPlan(f, a) == a.root = "Pipes" /\ a.name \in AllPipes(f)

\* A task in a plan has what the manager needs for it, with whatever values of
\* the parameters, but for the three gaps.
TaskRuns(f, plan, n) ==
    /\ TaskIndex(f, n) # 0 /\ Builds(TaskNamed(f, n))
    /\ \A r \in Resources(TaskNamed(f, n)) :
          /\ r \in DOMAIN f.templates /\ f.templates[r].parses
          /\ \A on \in SUBSET ParamNames(f) :
                LET t   == f.templates[r]
                    env == [params |-> ParamNames(f), on |-> on, pipes |-> PipesMap(f, plan)]
                IN  \A a \in LookedUp[t.nodes, on] :
                       \/ Known(a, env)
                       \/ UnseenBranch(f, t, a) \/ UnseenPipe(f, t, a) \/ PipeOfAnyPlan(f, a)

\* What package create lets pass can be read back, converted and executed:
\* every plan that an instance or a parameter may trigger has its tasks, and
\* these their templates, the three gaps aside, whatever was created halfway or
\* edited meanwhile
\* (verifyPackage, WriteTgz, PackageFilesFromTar, FilesToResources, task.Build,
\* Render).  Only if the path of the directory does not occur in the name of a
\* file: see Archive.
CreatedRuns ==
    tarball # None /\ (\A g \in DOMAIN Stripped[tarball.path] : Stripped[tarball.path][g] = g) =>
        /\ Installable(tarball.files)
        /\ LET f == Read(tarball.files)
           IN  /\ "deploy" \in DOMAIN f.operator.plans
               /\ \A p \in Params(f) : p.trigger \in {None} \cup DOMAIN f.operator.plans
               /\ \A plan \in Plans(f) : /\ ~ PipesMapFails(f, plan)
                                         /\ \A n \in Range(TasksOf(plan)) : TaskRuns(f, plan, n)

SameTemplates(d, e) == \A f \in DOMAIN d.templates : f \in DOMAIN e.templates /\ e.templates[f] = d.templates[f]

\* Resources are filled in by hand.
SameTask(t, u) == u = t \/ (t.resources = <<>> /\ u = [t EXCEPT !.resources = u.resources])

SameTasks(ts, us) == \A i \in DOMAIN ts : i \in DOMAIN us /\ SameTask(ts[i], us[i])

Keeps(d, e) ==
    /\ SameTemplates(d, e)
    /\ d.params # None => /\ e.params.groups = d.params.groups
                          /\ IsPrefix(Parsed(d.params).list, Parsed(e.params).list)
    /\ d.operator # None =>
          /\ e.operator.manifest = d.operator.manifest
          /\ e.operator.maintainers >= d.operator.maintainers
          /\ SameTasks(d.operator.tasks, e.operator.tasks)
          /\ \A n \in DOMAIN d.operator.plans :
                \/ n \in DOMAIN e.operator.plans /\ e.operator.plans[n] = d.operator.plans[n]
                \/ Asks("plan") /\ n = open.name /\ n \notin open.plans

\* No command loses or changes a task, a plan, a parameter or a template, though
\* what it writes is the whole file: neither a task that adding a plan has created nor
\* what was edited while it asked (AddTask, AddPlan, AddParameter read the
\* files anew).  Only a plan of the same name, written meanwhile, is replaced.
NothingLost == [][ edits' = edits => Keeps(disk, disk') ]_vars
=============================================================================
