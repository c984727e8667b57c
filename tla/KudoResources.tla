--------------------------- MODULE KudoResources ---------------------------
(***************************************************************************)
(* What "kudo init" can be asked for (pkg/kudoctl/cmd/init.go, kudoinit),  *)
(* the calls of the API server it makes for it, in order, and the objects  *)
(* of the cluster that it creates, replaces and verifies.                  *)
(***************************************************************************)
EXTENDS Sequences, FiniteSets

CONSTANTS
    Versions,           \* of KUDO, as the CLI and the image have them
    Namespaces,
    DefaultNamespace,   \* kudo-system
    SelfSignedCAs,      \* what NewTinyCA generates
    CertManagerCA,      \* the CA behind the Issuer of cert-manager
    None                \* no object, or no CA yet

DefaultAccount == "kudo-manager"
Accounts == {DefaultAccount, "custom"}
CRDs == {"operators", "operatorversions", "instances"}

Flag == [upgrade : BOOLEAN, verify : BOOLEAN, crdOnly : BOOLEAN, dryRun : BOOLEAN,
         wait : BOOLEAN, selfSigned : BOOLEAN, version : Versions,
         ns : Namespaces, account : Accounts]

\* The combinations that are refused before anything is read or written.
ValidFlags(f) ==
    /\ ~ (f.crdOnly /\ f.wait)
    /\ ~ (f.upgrade /\ f.verify)
    /\ ~ (f.verify /\ f.dryRun)
    /\ ~ (f.crdOnly /\ f.upgrade)

IsDefaultNamespace(f) == f.ns = DefaultNamespace
IsDefaultAccount(f) == f.account = DefaultAccount

\* What the initializers call, in the order in which they are installed.
CRDCalls == <<"operators", "operatorversions", "instances">>
AccountCalls(f) ==
    IF IsDefaultAccount(f) THEN <<"serviceAccount", "roleBinding">> ELSE <<>>
WebhookCalls(f) ==
    IF f.selfSigned THEN <<"webhook", "secret">>
    ELSE <<"issuer", "certificate", "webhook">>

\* The stateful set of the manager is always deleted and created again, and so
\* is its service.
ManagerRemoval == <<"deleteManager", "awaitManager">>
ManagerCalls == ManagerRemoval \o <<"createManager", "deleteService", "createService">>

Installation(f) ==
    IF f.crdOnly THEN CRDCalls
    ELSE CRDCalls \o <<"namespace">> \o AccountCalls(f) \o WebhookCalls(f) \o ManagerCalls

\* Mutant: the webhook is removed before the manager.
UpgradeWebhookFirst(f) == <<"deleteWebhook">> \o ManagerRemoval \o Installation(f)

\* An upgrade shuts the manager down first, then the webhook, runs migrations,
\* of which there are none, and installs.
Upgrade(f) == ManagerRemoval \o <<"deleteWebhook">> \o Installation(f)

Calls(f) == IF f.upgrade THEN Upgrade(f) ELSE Installation(f)

(* ------------------------------- objects ------------------------------- *)

\* The admission webhook calls the service of the namespace.  Its CA is given,
\* or injected later by cert-manager because of the annotation.
Webhook(ns, inject, ca) == [ns |-> ns, inject |-> inject, ca |-> ca]

WebhookOf(f, ca) ==
    IF f.selfSigned THEN Webhook(f.ns, FALSE, ca) ELSE Webhook(f.ns, TRUE, None)

\* Manager and service; the pod mounts the secret and runs as the account.
Manager(f) == [version |-> f.version, account |-> f.account,
               ready |-> FALSE, deleting |-> FALSE]

WebhookType == [ns : Namespaces, inject : BOOLEAN,
                ca : SelfSignedCAs \cup {CertManagerCA, None}]
ManagerType == [version : Versions, account : Accounts,
                ready : BOOLEAN, deleting : BOOLEAN]

ASSUME KudoResourcesAssumption ==
    /\ DefaultNamespace \in Namespaces
    /\ IsFiniteSet(Namespaces) /\ SelfSignedCAs # {}
    /\ CertManagerCA \notin SelfSignedCAs /\ None \notin Versions
    /\ None \notin SelfSignedCAs \cup {CertManagerCA}
    /\ None \notin WebhookType \cup ManagerType
=============================================================================
