------------------------ MODULE MCDependencyResolver ------------------------
(***************************************************************************)
(* All operators of three packages with up to two KudoOperator tasks each. *)
(***************************************************************************)
EXTENDS DependencyResolver

\* The tasks of a package have two names or share one.
MCTaskLists ==
    {<<>>} \cup {<<t>> : t \in {u \in Task : u.name = "x"}}
          \cup {<<t, u>> : t \in {v \in Task : v.name = "x"}, u \in Task}
=============================================================================
