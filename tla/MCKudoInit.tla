----------------------------- MODULE MCKudoInit -----------------------------
(* Two versions and two namespaces; the second has an account of its own. *)
EXTENDS KudoInit

Ask(verb, ns, v, signed) ==
    [upgrade |-> verb = "upgrade", verify |-> verb = "verify", crdOnly |-> FALSE,
     dryRun |-> FALSE, wait |-> verb # "verify", selfSigned |-> signed, version |-> v,
     ns |-> ns, account |-> IF ns = "kudo-system" THEN "kudo-manager" ELSE "custom"]

MCRepair == Ask("upgrade", "kudo-system", "v2", FALSE)

MCFlags ==
    {Ask("install", "kudo-system", "v1", signed) : signed \in BOOLEAN}
    \cup {Ask("upgrade", "other", "v2", signed) : signed \in BOOLEAN}
    \cup {MCRepair, Ask("verify", "kudo-system", "v2", FALSE)}
    \cup {[Ask("install", "kudo-system", "v1", FALSE) EXCEPT !.crdOnly = TRUE, !.wait = FALSE]}
    \cup {[Ask("install", "kudo-system", "v1", FALSE) EXCEPT !.dryRun = TRUE, !.wait = w] : w \in BOOLEAN}

=============================================================================
