----------------------------- MODULE PackageFiles -----------------------------
(***************************************************************************)
(* Operator packages: how a directory or a tarball is read, verified and   *)
(* converted (packages/reader, writer, verifier and convert), and what the *)
(* manager then does with its plans, tasks and templates.                  *)
(*                                                                         *)
(* A directory is [operator, params, templates]; a file that is not there  *)
(* is None or not in the domain of templates.  A template is what its YAML *)
(* amounts to and the tree of its actions: an action is a pipeline, a      *)
(* pipeline a sequence of arguments such as .Params.P, .Pipes.K, .Name, a  *)
(* variable or another pipeline.                                           *)
(***************************************************************************)
EXTENDS SequencesExt, FiniteSetsExt

CONSTANTS
    None,
    Text,         \* the strings that files and answers may have
    Folded,       \* Folded[n]: the name of a parameter in lower case
    BadName,      \* names with a ";" or a ","; groups with a "/"
    Fits,         \* the <<type, value>> that ValidateParameterValueForType accepts
    Truthy,       \* the values that a template takes for true
    Path, File,   \* the paths that the author may type, and the files in templates/
    Stripped,     \* Stripped[p][f]: the name of file f in a tarball of directory p
    Pipelines, Trees    \* lists of arguments, and of nodes, that templates may have

\* The name of a file in a tarball is the rest of its name.
ASSUME FilesAssumption ==
    Stripped \in [Path -> [File \cup {"operator.yaml", "params.yaml"} -> Text]]

\* The parts of a template are among the lists.
ASSUME TreesAssumption ==
    /\ \A args \in Pipelines : \A i \in DOMAIN args : args[i].root = "pipe" => args[i].args \in Pipelines
    /\ <<>> \in Trees
    /\ \A nodes \in Trees : \A i \in DOMAIN nodes :
          /\ nodes[i].args \in Pipelines
          /\ nodes[i].what # "action" => {nodes[i].list, nodes[i].other} \subseteq Trees

Implicit == {"OperatorName", "Name", "Namespace", "AppVersion", "OperatorVersion",
             "PlanName", "PhaseName", "StepName"}

(* ------------------------------- reading ------------------------------ *)

WithDefaults(p) == [p EXCEPT !.required = IF @ = None THEN TRUE ELSE @,
                             !.immutable = IF @ = None THEN FALSE ELSE @]

Parsed(params) == [params EXCEPT !.list = [i \in DOMAIN @ |-> WithDefaults(@[i])]]

\* Both files must be there, be YAML and have the supported API version.
Readable(d) ==
    /\ d.operator # None /\ d.params # None
    /\ d.operator.parses /\ d.params.parses

Read(d) == [d EXCEPT !.params = Parsed(@)]

\* Every regular file is written, its name without any occurrence of the path.
Archive(path, d) ==
    LET name == Stripped[path]
    IN  [operator  |-> IF name["operator.yaml"] = "operator.yaml" THEN d.operator ELSE None,
         params    |-> IF name["params.yaml"] = "params.yaml" THEN d.params ELSE None,
         templates |-> [f \in {name[g] : g \in DOMAIN d.templates} |->
                          d.templates[CHOOSE g \in DOMAIN d.templates : name[g] = f]]]

(* ----------------------------- the templates -------------------------- *)

\* walkPipes returns at the first argument with one identifier, and at a
\* variable.
Reached(args) == {i \in DOMAIN args : \A j \in 1..(i - 1) : args[j].root \notin {"implicit", "variable"}}

Pipeline[args \in Pipelines] ==
    UNION {CASE args[i].root = "pipe"     -> Pipeline[args[i].args]
             [] args[i].root = "variable" -> {}
             [] OTHER                     -> {args[i]} : i \in Reached(args)}

\* walkNodes: what the verifiers see of a template.  A range's else is not
\* walked.
Found[nodes \in Trees] ==
    UNION {CASE nodes[i].what = "action" -> Pipeline[nodes[i].args]
             [] nodes[i].what = "if"     -> Found[nodes[i].list] \cup Found[nodes[i].other]
                                              \cup Pipeline[nodes[i].args]
             [] nodes[i].what = "range"  -> Found[nodes[i].list] \cup Pipeline[nodes[i].args]
             [] OTHER                    -> {} : i \in DOMAIN nodes}

FoundOf(t, root) == IF t.parses THEN {a.name : a \in {b \in Found[t.nodes] : b.root = root}} ELSE {}

\* What the execution of a template evaluates when the parameters named in on
\* are true, and all others false.
Evaluated[args \in Pipelines] ==
    UNION {IF args[i].root = "pipe" THEN Evaluated[args[i].args] ELSE {args[i]} : i \in DOMAIN args}

LookedUp[nodes \in Trees, on \in SUBSET DOMAIN Folded] ==
    UNION {LET n  == nodes[i]
               as == Evaluated[n.args]
           IN  as \cup (IF n.what = "action" THEN {}
                        ELSE IF \A a \in as : a.root = "Params" => a.name \in on
                             THEN LookedUp[n.list, on] ELSE LookedUp[n.other, on])
           : i \in DOMAIN nodes}

\* missingkey=error
Known(a, env) ==
    CASE a.root = "Params"   -> a.name \in env.params
      [] a.root = "Pipes"    -> a.name \in env.pipes
      [] a.root = "implicit" -> a.name \in Implicit
      [] OTHER               -> TRUE

Renders(t, env) == t.parses /\ \A a \in LookedUp[t.nodes, env.on] : Known(a, env)

(* ------------------------------- the tasks ---------------------------- *)

ResourceKinds == {"Apply", "Delete", "Toggle"}
Kinds == ResourceKinds \cup {"Pipe", "KudoOperator", "Dummy"}

\* The files in templates/ that a task uses.
Resources(t) ==
    CASE t.kind \in ResourceKinds -> Range(t.resources)
      [] t.kind = "Pipe"          -> {t.pod}
      [] t.kind = "KudoOperator"  -> {t.file} \ {None}
      [] OTHER                    -> {}

\* task.Build; the operator version of a KudoOperator task comes with its
\* dependencies.
Builds(t) ==
    /\ t.kind \in Kinds
    /\ t.kind \in ResourceKinds => t.resources # <<>>
    /\ t.kind = "Toggle" => t.parameter # None
    /\ t.kind = "Pipe" => t.pipes # <<>> /\ \A i \in DOMAIN t.pipes : t.pipes[i].valid
    /\ t.kind = "KudoOperator" => t.package # None

\* The first task of this name, if there is one.
TaskIndex(f, n) == SelectInSeq(f.operator.tasks, LAMBDA t : t.name = n)
TaskNamed(f, n) == f.operator.tasks[TaskIndex(f, n)]
TaskNames(f) == {t.name : t \in Range(f.operator.tasks)}

\* The tasks of a plan, one after the other.
TasksOf(plan) ==
    FlattenSeq([i \in DOMAIN plan |-> FlattenSeq([j \in DOMAIN plan[i].steps |-> plan[i].steps[j].tasks])])

\* PipesMap, without the check that no key occurs twice.
PipeKeys(f, plan) ==
    LET keys(n) == IF TaskIndex(f, n) # 0 /\ TaskNamed(f, n).kind = "Pipe"
                   THEN LET ps == TaskNamed(f, n).pipes IN [k \in DOMAIN ps |-> ps[k].key]
                   ELSE <<>>
        ns == TasksOf(plan)
    IN  FlattenSeq([i \in DOMAIN ns |-> keys(ns[i])])

PipesMap(f, plan) == Range(PipeKeys(f, plan))
PipesMapFails(f, plan) == ~ IsInjective(PipeKeys(f, plan))

(* ---------------------------- the verifiers --------------------------- *)

Params(f) == Range(f.params.list)
ParamNames(f) == {p.name : p \in Params(f)}
Plans(f) == Range(f.operator.plans)

NoDuplicates(f) ==
    \A i, j \in DOMAIN f.params.list :
        i # j => Folded[f.params.list[i].name] # Folded[f.params.list[j].name]

ValidNames(f) == \A p \in Params(f) : p.name \notin BadName

TasksWellDefined(f) == \A t \in Range(f.operator.tasks) : Builds(t)

\* Mutant: a step is taken for its first task.
FirstTasksDefined(f) ==
    \A plan \in Plans(f) : \A i \in DOMAIN plan : \A j \in DOMAIN plan[i].steps :
        Head(plan[i].steps[j].tasks) \in TaskNames(f)

TasksDefined(f) == \A plan \in Plans(f) : Range(TasksOf(plan)) \subseteq TaskNames(f)

HasMandatoryPlans(f) == "deploy" \in DOMAIN f.operator.plans

PlansDefined(f) == \A p \in Params(f) : p.trigger \in {None} \cup DOMAIN f.operator.plans

ImmutableParams(f) == \A p \in Params(f) : p.immutable => p.default # None \/ p.required

ValidDefault(p) == <<p.type, p.default>> \in Fits /\ (p.enum # None => p.default \in p.enum)

ParamDefaults(f) == \A p \in Params(f) : p.default # None => ValidDefault(p)

EnumParams(f) ==
    \A p \in Params(f) : p.enum # None => p.enum # {} /\ \A v \in p.enum : <<p.type, v>> \in Fits

Metadata(f) ==
    \A p \in Params(f) : p.group \notin BadName /\ ~ (p.advanced /\ p.default = None /\ p.required)

ParamGroups(f) ==
    /\ Range(f.params.groups) \cap BadName = {} /\ IsInjective(f.params.groups)
    /\ \A p \in Params(f) : p.group \in {None} \cup Range(f.params.groups)

ImplicitsValid(f) ==
    \A t \in Range(f.templates) : t.parses /\ FoundOf(t, "implicit") \subseteq Implicit

ParamsDefined(f) ==
    /\ \A t \in Range(f.templates) : FoundOf(t, "Params") \subseteq ParamNames(f)
    /\ \A t \in Range(f.operator.tasks) :
          t.kind = "Toggle" => t.parameter \in {None} \cup ParamNames(f)

TemplatesDefined(f) == \A t \in Range(f.operator.tasks) : Resources(t) \subseteq DOMAIN f.templates

IsParameterFile(f, n) == \E t \in Range(f.operator.tasks) : t.kind = "KudoOperator" /\ t.file = n

\* collectParams: the parameters have their defaults.
DefaultsOn(f) == {p.name : p \in {q \in Params(f) : q.default \in Truthy}}

\* collectPipes: of all the plans.
AllPipes(f) == UNION {PipesMap(f, plan) : plan \in Plans(f)}

TemplatesCompilable(f) ==
    LET env == [params |-> ParamNames(f), on |-> DefaultsOn(f), pipes |-> AllPipes(f)]
    IN  /\ \A plan \in Plans(f) : ~ PipesMapFails(f, plan)
        /\ \A n \in DOMAIN f.templates :
              /\ Renders(f.templates[n], env)
              /\ IsParameterFile(f, n) \/ f.templates[n].yaml # "invalid"

NamespaceKindNotUsed(f) ==
    \A n \in DOMAIN f.templates \ {f.operator.manifest} : f.templates[n].yaml # "namespace"

NamespaceManifest(f) ==
    LET m == f.operator.manifest
    IN  m # None => m \in DOMAIN f.templates /\ f.templates[m].yaml = "namespace"

Verified(f) ==
    /\ NoDuplicates(f) /\ ValidNames(f) /\ f.operator.versions
    /\ TasksWellDefined(f) /\ TasksDefined(f) /\ HasMandatoryPlans(f) /\ PlansDefined(f)
    /\ ParamsDefined(f) /\ ImmutableParams(f) /\ EnumParams(f) /\ ParamDefaults(f)
    /\ Metadata(f) /\ ParamGroups(f) /\ ImplicitsValid(f)
    /\ TemplatesDefined(f) /\ TemplatesCompilable(f)
    /\ NamespaceKindNotUsed(f) /\ NamespaceManifest(f)

(* ------------------------- conversion and execution ------------------- *)

\* validateTask
TaskValid(t, templates) ==
    /\ t.kind \in Kinds
    /\ t.kind = "Toggle" => t.parameter # None
    /\ t.kind = "Pipe" => t.pipes # <<>>
    /\ Resources(t) \subseteq DOMAIN templates

\* FilesToResources
Converts(f) == \A t \in Range(f.operator.tasks) : TaskValid(t, f.templates)

\* ResourcesFromTar: the files are extracted under their names in the tarball.
Installable(d) == Readable(d) /\ Converts(Read(d))
=============================================================================
