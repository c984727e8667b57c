------------------------ MODULE MCInstanceParameters ------------------------
(***************************************************************************)
(* Two versions with two parameters, in many definitions.                  *)
(***************************************************************************)
EXTENDS InstanceParameters, TLC

V1 == "v1"
V2 == "v2"
MCPlan == {"deploy", "update", "cleanup"}
MCPlansOf == (V1 :> {"deploy", "update"}) @@ (V2 :> {"deploy"})

D(immutable, required, default, trigger, allowed) ==
    [immutable |-> immutable, required |-> required, default |-> default,
     trigger |-> trigger, allowed |-> allowed]

XY == {"x", "y"}

\* The first parameter is immutable, or required, or neither, or comes or goes
\* with v2; its default changes, and so do its type and enumeration.
Common    == {Undefined, D(FALSE, FALSE, "x", "deploy", XY), D(TRUE, TRUE, None, "deploy", XY)}
FirstInV1 == Common \cup {D(TRUE, FALSE, "x", NoPlan, XY)}
FirstInV2 == Common \cup {D(TRUE, FALSE, "y", NoPlan, XY), D(FALSE, TRUE, None, NoPlan, {"y"})}

\* The second has a trigger or none, and is kept, added or removed in v2.
Triggering  == D(FALSE, FALSE, "x", "update", {"x"})
Triggerless == D(FALSE, TRUE, "x", NoPlan, XY)
SecondParameter ==
    {<<Triggering, Triggering>>, <<Triggerless, Undefined>>, <<Undefined, Triggerless>>}

MCCatalogs ==
    {(V1 :> ("a" :> d1 @@ "b" :> e[1])) @@ (V2 :> ("a" :> d2 @@ "b" :> e[2])) :
        d1 \in FirstInV1, d2 \in FirstInV2, e \in SecondParameter}
=============================================================================
