--------------------------- MODULE MCPackageEditing ---------------------------
(***************************************************************************)
(* A small package: two parameters that differ in their case, one or two   *)
(* tasks besides deploy, two files, and templates for every way in which a *)
(* parameter or a pipe is used.                                            *)
(***************************************************************************)
EXTENDS PackageEditing

MCText == STRING
MCFolded == [n \in {"P", "p"} |-> "p"]
MCFits == {"string"} \X {"text", ""} \cup {<<"integer", "1">>}

MCFile == {"a.yaml", "b.yaml"}
FileNames == {"operator.yaml", "params.yaml"} \cup MCFile
\* A directory called operator, and its absolute path.
MCStripped == [p \in {"operator", "/operator"} |->
                 [f \in FileNames |-> IF p = "operator" /\ f = "operator.yaml" THEN ".yaml" ELSE f]]

Arg(root, n) == [root |-> root, name |-> n]
Action(args) == [what |-> "action", args |-> args]
Block(what, args, list, other) == [what |-> what, args |-> args, list |-> list, other |-> other]
Object(nodes) == [parses |-> TRUE, yaml |-> "object", nodes |-> nodes]

P == Arg("Params", "P")
Q == Arg("Params", "q")
K == Arg("Pipes", "k")
Name == Arg("implicit", "Name")

In(file, content) == [file |-> file, content |-> content]

Piped(args) == [root |-> "pipe", args |-> args]

MCPipelines == {<<P>>, <<Q>>, <<K>>, <<Name>>, <<Name, Q>>, <<Piped(<<P>>)>>}

ThenPipe  == <<Block("if", <<P>>, <<Action(<<K>>)>>, <<>>)>>
OnlyThen  == <<Block("if", <<P>>, <<Action(<<Q>>)>>, <<>>)>>
ThenElse  == <<Block("if", <<P>>, <<Action(<<Name, Q>>)>>, <<Action(<<Name>>)>>)>>
RangeElse == <<Block("range", <<Piped(<<P>>)>>, <<Action(<<Name>>)>>, <<Action(<<Q>>)>>)>>

MCTrees ==
    {<<Action(args)>> : args \in {<<Q>>, <<K>>, <<Name>>, <<Name, Q>>}}
    \cup {<<>>, OnlyThen, ThenElse, ThenPipe, RangeElse}

MCHandTemplates ==
    {In("a.yaml", Object(OnlyThen)), In("a.yaml", Object(ThenElse)),
     In("b.yaml", Object(RangeElse)), In("b.yaml", Object(ThenPipe)),
     In("b.yaml", [parses |-> TRUE, yaml |-> "namespace", nodes |-> <<>>]),
     In("b.yaml", [parses |-> FALSE, yaml |-> "none", nodes |-> <<>>])}

Pipe(k, ok) == [key |-> k, valid |-> ok]
MCPipeAnswers == {[pod |-> "a.yaml", pipes |-> <<Pipe("k", TRUE)>>],
                  [pod |-> "b.yaml", pipes |-> <<Pipe("k", FALSE)>>]}
MCResourceLists == {<<"a.yaml">>, <<"a.yaml", "b.yaml">>}

HandParam(n, type, default, immutable, trigger) ==
    [name |-> n, type |-> type, default |-> default, required |-> FALSE, immutable |-> immutable,
     advanced |-> FALSE, trigger |-> trigger, group |-> None, enum |-> None]

MCHandParams ==
    {HandParam("p", "integer", "text", TRUE, "missing")}

MCHandPlans == {OnePhase("x", "s", <<"t">>)}
=============================================================================
