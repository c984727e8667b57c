---------------------------- MODULE MCKudoInstall ----------------------------
(***************************************************************************)
(* An operator r that needs d, which needs e.  Two packages of e, and two  *)
(* of r, differ only in their app version; r and d are also there with     *)
(* another operator version, and d has no app version.                     *)
(***************************************************************************)
EXTENDS KudoInstall, TLC

Ref(n, a, v) == [name |-> n, app |-> a, version |-> v]

Pkg(n, a, v, needs, required) ==
    [name |-> n, app |-> a, version |-> v, needs |-> needs, required |-> required]

E1 == Pkg("e", 1, 1, <<>>, FALSE)
E2 == Pkg("e", 2, 1, <<>>, FALSE)
D1 == Pkg("d", 0, 1, <<Ref("e", NoVersion, NoVersion)>>, FALSE)
D2 == Pkg("d", 0, 2, <<Ref("e", NoVersion, 1)>>, TRUE)
R0 == Pkg("r", 0, 1, <<Ref("e", 1, NoVersion)>>, FALSE)
R1 == Pkg("r", 1, 1, <<Ref("d", NoVersion, 1)>>, FALSE)
R2 == Pkg("r", 2, 2, <<Ref("d", NoVersion, 2), Ref("e", NoVersion, NoVersion)>>, FALSE)

Packages == {E1, E2, D1, D2, R0, R1, R2}
AtFirst  == Packages \ {D2, R2}

Command(kind, n) ==
    [kind |-> kind, file |-> None, name |-> n, app |-> NoVersion, version |-> NoVersion, instance |-> n,
     inCluster |-> FALSE, skip |-> FALSE, createNamespace |-> FALSE, params |-> FALSE, wait |-> FALSE]

Install(n)   == Command("install", n)
Upgrade(n)   == Command("upgrade", n)
Uninstall1(n) == Command("uninstall", n)

Repair == {Install("r")}

Others ==
    {[Install("d") EXCEPT !.createNamespace = TRUE, !.wait = TRUE],
     [Install("r") EXCEPT !.inCluster = TRUE, !.version = 1],
     [Install("r") EXCEPT !.file = R0, !.skip = TRUE],
     Upgrade("r"),
     [Uninstall1("r") EXCEPT !.wait = TRUE]}

MCCommands == ("u" :> Repair) @@ ("w" :> Others)
=============================================================================
