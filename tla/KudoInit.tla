------------------------------ MODULE KudoInit ------------------------------
(***************************************************************************)
(* kudo init (pkg/kudoctl/cmd/init.go and kudoinit): installation, upgrade *)
(* and verification of KUDO, by one command after the other against one    *)
(* cluster.  A command verifies first and then makes one call after the    *)
(* other; it may be interrupted anywhere, and between its calls users,     *)
(* controllers and cert-manager act.                                       *)
(***************************************************************************)
EXTENDS KudoResources, Naturals

CONSTANTS
    Flags,      \* what users ask for
    Repair,     \* the upgrade that they try until it succeeds
    CertManagers,  \* the states that cert-manager may be in at first
    MaxFaults,  \* bound on interrupted commands and failing certificates
    MaxEdits    \* bound on what users do to the cluster themselves

ASSUME KudoInitAssumption == Flags \subseteq Flag /\ Repair \in Flags

VARIABLES
    crds,         \* the version of each CRD
    established,  \* the CRDs that are served
    namespace,    \* "absent", "active" or "terminating"
    accounts,     \* the service accounts, as pairs of namespace and name
    admins,       \* those that users have bound to cluster-admin
    binding,      \* the one that kudo-manager-rolebinding binds, which is cluster-wide
    certManager,  \* what there is of cert-manager, which stays
    issuer, certificate,  \* the namespaces that have them
    secret,       \* secret[ns]: the CA that signed the serving certificate
    webhook,      \* the MutatingWebhookConfiguration, which is cluster-wide
    manager,      \* manager[ns]: the stateful set
    service,      \* the namespaces with the service of the manager
    flags, at, n, certs, ca,  \* the command, its position and what it holds
    report,       \* its exit code, or that of the last command
    leftover,     \* history: it found parts of another installation
    unguarded,    \* history: the namespaces whose manager may be without the webhook
    uncertified,  \* history: the command could not make its certificates
    disturbed,    \* history: users changed the cluster meanwhile
    faults, edits

prereqs == <<namespace, accounts, admins, binding>>
certmgr == <<issuer, certificate, secret>>
runtime == <<manager, service>>
cluster == <<crds, established, prereqs, certManager, certmgr, webhook, runtime>>
process == <<flags, at, n, certs, ca, report>>
history == <<leftover, unguarded, uncertified, disturbed>>
bounds  == <<faults, edits>>
vars == <<cluster, process, history, bounds>>

Init ==
    /\ crds = [c \in CRDs |-> None] /\ established = {}
    /\ namespace = [ns \in Namespaces |-> IF ns = DefaultNamespace THEN "absent" ELSE "active"]
    /\ accounts = {} /\ admins = {} /\ binding = None
    /\ certManager \in CertManagers
    /\ issuer = {} /\ certificate = {}
    /\ secret = [ns \in Namespaces |-> None]
    /\ webhook = None
    /\ manager = [ns \in Namespaces |-> None] /\ service = {}
    /\ flags = Repair /\ at = "idle" /\ n = 1 /\ certs = FALSE /\ ca = None
    /\ report = "none" /\ leftover = FALSE /\ disturbed = FALSE
    /\ unguarded = {} /\ uncertified = FALSE
    /\ faults = 0 /\ edits = 0

(* ---------------------------- verification ---------------------------- *)

Account(f) == <<f.ns, f.account>>

AccountExists(f) == Account(f) \in accounts

\* Any binding of cluster-admin will do.
HasClusterAdmin(f) == Account(f) = binding \/ Account(f) \in admins

AccountValid(f) == AccountExists(f) /\ HasClusterAdmin(f)

\* The CRD of the certificates tells the group and the best served version.
CertManagerDetected == certManager # "absent"

\* A version that is not listed is a warning.
CertManagerListed == certManager # "unsupported"

IssuersServed == certManager # "incomplete"

CertManagerValid(f) == f.selfSigned \/ (CertManagerDetected /\ IssuersServed)

\* Any warning so far keeps the issuer and the certificate from being built.
CertsBuilt(f) == ~ f.selfSigned /\ CertManagerListed

NoCRD == \A c \in CRDs : crds[c] = None

NamespaceInstallable(f) ==
    /\ namespace[f.ns] # "terminating"
    /\ IsDefaultNamespace(f) \/ namespace[f.ns] # "absent"

ManagerNotInstalled(f) == manager[f.ns] = None

PreInstallVerify(f) ==
    /\ NoCRD
    /\ ~ f.crdOnly => /\ NamespaceInstallable(f)
                      /\ IsDefaultAccount(f) \/ AccountValid(f)
                      /\ CertManagerValid(f)
                      /\ ManagerNotInstalled(f)

NamespaceVerified(f) == namespace[f.ns] = "active"

PreUpgradeVerify(f) ==
    /\ NamespaceVerified(f)
    /\ AccountValid(f)
    /\ CertManagerValid(f)

CRDsVerified(f) == crds = [c \in CRDs |-> f.version] /\ established = CRDs

CertsVerified(f) == f.ns \in issuer /\ f.ns \in certificate

AdmissionWebhookVerified == webhook # None

WebhookSecretVerified(f) == secret[f.ns] # None

\* What is in the webhook and in the secret is not looked at.
WebhookVerified(f) ==
    /\ AdmissionWebhookVerified
    /\ IF f.selfSigned THEN WebhookSecretVerified(f)
       ELSE CertManagerValid(f) /\ CertsVerified(f)

\* Another image is a warning, and then its health is not looked at.
ManagerVerified(f) ==
    /\ manager[f.ns] # None
    /\ manager[f.ns].version = f.version => manager[f.ns].ready

\* The service of the manager is not verified.
VerifyInstallation(f, webhookVerified) ==
    /\ CRDsVerified(f)
    /\ ~ f.crdOnly => /\ NamespaceVerified(f)
                      /\ AccountValid(f)
                      /\ webhookVerified
                      /\ ManagerVerified(f)

\* With a warning the issuer is nil, and verifying or creating it panics.
VerifyPanics(f) ==
    /\ ~ f.crdOnly /\ ~ f.selfSigned /\ CertManagerDetected /\ IssuersServed
    /\ ~ CertsBuilt(f)
    /\ CRDsVerified(f) /\ NamespaceVerified(f) /\ AccountValid(f)

(* ------------------------------- commands ------------------------------ *)

Forget == leftover' = FALSE /\ disturbed' = FALSE /\ uncertified' = FALSE

\* The command ends with its exit code; its Installer is gone.
End(r) ==
    /\ at' = "idle" /\ report' = r /\ flags' = Repair
    /\ n' = 1 /\ certs' = FALSE /\ ca' = None /\ Forget

\* What installation keeps although it belongs to another one: a role binding
\* of another account and, without an upgrade, a webhook.
Leftover(f) ==
    \/ binding \notin {None, Account(f)}
    \/ webhook # None /\ ~ f.upgrade

Start(f) ==
    /\ at = "idle" /\ f \in Flags /\ ValidFlags(f)
    /\ flags' = f /\ at' = "verify" /\ report' = "none"
    /\ UNCHANGED <<cluster, n, certs, ca, history, bounds>>

\* With a self-signed CA a pair of a webhook and a secret is made only to know
\* their names; if that fails the webhook counts as verified.
CheckWebhook(result) ==
    \/ result = WebhookVerified(flags) /\ UNCHANGED faults
    \/ result = TRUE /\ flags.selfSigned /\ faults < MaxFaults /\ faults' = faults + 1

VerifyExisting ==
    /\ at = "verify" /\ flags.verify
    /\ \E result \in BOOLEAN :
          /\ CheckWebhook(result)
          /\ End(IF VerifyInstallation(flags, result) /\ ~ VerifyPanics(flags)
                 THEN "success" ELSE "error")
    /\ UNCHANGED <<cluster, unguarded, edits>>

Verified(f) == IF f.upgrade THEN PreUpgradeVerify(f) ELSE PreInstallVerify(f)

Refuse ==
    /\ at = "verify" /\ ~ flags.verify /\ ~ Verified(flags)
    /\ End("error")
    /\ UNCHANGED <<cluster, unguarded, bounds>>

\* Nothing is installed; with --wait it waits all the same.
DryRun ==
    /\ at = "verify" /\ ~ flags.verify /\ Verified(flags) /\ flags.dryRun
    /\ \/ flags.wait /\ at' = "wait" /\ UNCHANGED <<flags, n, certs, ca, report, history>>
       \/ ~ flags.wait /\ End("success") /\ UNCHANGED unguarded
    /\ UNCHANGED <<cluster, bounds>>

Proceed ==
    /\ at = "verify" /\ ~ flags.verify /\ Verified(flags) /\ ~ flags.dryRun
    /\ at' = "install" /\ n' = 1 /\ certs' = CertsBuilt(flags)
    /\ leftover' = Leftover(flags)
    /\ UNCHANGED <<cluster, flags, ca, report, unguarded, uncertified, disturbed, bounds>>

Writable == namespace[flags.ns] = "active"

\* Mutant: an existing service account is an error, too.
RefusedForAccount ==
    (IF Account(flags) \in accounts THEN {"serviceAccount"} ELSE {})
    \cup (IF manager[flags.ns] = None THEN {} ELSE {"createManager"})
    \cup (IF flags.ns \in service THEN {"createService"} ELSE {})

\* A call for a namespaced object fails without an active namespace, and one
\* that has to create its object if there is one.
Refused ==
    (IF Writable THEN {}
     ELSE {"serviceAccount", "secret", "createManager", "createService"}
          \cup (IF certs THEN {"issuer", "certificate"} ELSE {}))
    \cup (IF manager[flags.ns] = None THEN {} ELSE {"createManager"})
    \cup (IF flags.ns \in service THEN {"createService"} ELSE {})

Call(name) == at = "install" /\ Calls(flags)[n] = name /\ name \notin Refused

\* The next call, or the end of the installation.
Done ==
    /\ UNCHANGED bounds
    /\ \/ /\ n < Len(Calls(flags))
          /\ n' = n + 1 /\ UNCHANGED <<flags, at, certs, report, leftover, uncertified, disturbed>>
       \/ /\ n = Len(Calls(flags)) /\ flags.wait
          /\ at' = "wait" /\ report' = "success" /\ n' = 1 /\ certs' = FALSE /\ Forget
          /\ UNCHANGED flags
       \/ /\ n = Len(Calls(flags)) /\ ~ flags.wait
          /\ at' = "idle" /\ report' = "success" /\ n' = 1 /\ certs' = FALSE /\ Forget
          /\ flags' = Repair

Failed == End("error") /\ UNCHANGED <<unguarded, bounds>>

CallRefused ==
    /\ at = "install" /\ Calls(flags)[n] \in Refused
    /\ Failed /\ UNCHANGED cluster

(* ----------------------------- installation ---------------------------- *)

\* Mutant: an existing CRD counts as installed.
ApplyCRDOnce(c) ==
    /\ Call(c)
    /\ crds' = [crds EXCEPT ![c] = IF @ = None THEN flags.version ELSE @]
    /\ Done /\ UNCHANGED unguarded
    /\ UNCHANGED <<established, prereqs, certManager, certmgr, webhook, runtime, ca>>

\* An existing CRD is updated and never deleted, which would delete all objects.
ApplyCRD(c) ==
    /\ Call(c)
    /\ crds' = [crds EXCEPT ![c] = flags.version]
    /\ Done /\ UNCHANGED unguarded
    /\ UNCHANGED <<established, prereqs, certManager, certmgr, webhook, runtime, ca>>

InstallNamespace ==
    /\ Call("namespace")
    /\ namespace' = [namespace EXCEPT ![flags.ns] = IF @ = "absent" THEN "active" ELSE @]
    /\ Done /\ UNCHANGED unguarded
    /\ UNCHANGED <<crds, established, accounts, admins, binding, certManager, certmgr, webhook, runtime, ca>>

InstallServiceAccount ==
    /\ Call("serviceAccount")
    /\ accounts' = accounts \cup {Account(flags)}
    /\ Done /\ UNCHANGED unguarded
    /\ UNCHANGED <<crds, established, namespace, admins, binding, certManager, certmgr, webhook, runtime, ca>>

\* A role binding that exists is kept, whomever it binds.
InstallRoleBinding ==
    /\ Call("roleBinding")
    /\ binding' = IF binding = None THEN Account(flags) ELSE binding
    /\ Done /\ UNCHANGED unguarded
    /\ UNCHANGED <<crds, established, namespace, accounts, admins, certManager, certmgr, webhook, runtime, ca>>

InstallCerts ==
    /\ \/ /\ Call("issuer") /\ certs
          /\ issuer' = issuer \cup {flags.ns} /\ UNCHANGED certificate
       \/ /\ Call("certificate") /\ certs
          /\ certificate' = certificate \cup {flags.ns} /\ UNCHANGED issuer
    /\ Done /\ UNCHANGED unguarded
    /\ UNCHANGED <<crds, established, prereqs, certManager, secret, webhook, runtime, ca>>

\* The issuer has not been built.
InstallPanics ==
    /\ Call("issuer") /\ ~ certs
    /\ End("error")
    /\ UNCHANGED <<cluster, unguarded, bounds>>

\* Each self-signed installation generates a CA of its own, none that is in use.
NewCA ==
    LET fresh == {c \in SelfSignedCAs :
                     /\ webhook # None => webhook.ca # c
                     /\ \A ns \in Namespaces : secret[ns] # c}
    IN  CHOOSE c \in SelfSignedCAs : fresh # {} => c \in fresh

\* A webhook that exists is kept as it is.
InstallAdmissionWebhook ==
    /\ Call("webhook")
    /\ ca' = IF flags.selfSigned THEN NewCA ELSE None
    /\ webhook' = IF webhook = None THEN WebhookOf(flags, ca') ELSE webhook
    /\ unguarded' = {}
    /\ Done
    /\ UNCHANGED <<crds, established, prereqs, certManager, certmgr, runtime>>

\* The CA or the serving certificate cannot be made.  The error is dropped, and
\* the installation goes on without webhook and secret.
NoCertificates ==
    /\ Call("webhook") /\ flags.selfSigned
    /\ faults < MaxFaults /\ faults' = faults + 1
    /\ n' = n + Len(WebhookCalls(flags))
    /\ uncertified' = TRUE /\ unguarded' = IF webhook = None THEN unguarded \cup {flags.ns} ELSE unguarded
    /\ UNCHANGED <<cluster, flags, at, certs, ca, report, leftover, disturbed, edits>>

\* So is the secret, even if the CA of the webhook is a new one.
InstallWebhookSecret ==
    /\ Call("secret")
    /\ secret' = [secret EXCEPT ![flags.ns] = IF @ = None THEN ca ELSE @]
    /\ ca' = None
    /\ Done /\ UNCHANGED unguarded
    /\ UNCHANGED <<crds, established, prereqs, certManager, issuer, certificate, webhook, runtime>>

UninstallWebHook ==
    /\ Call("deleteWebhook")
    /\ webhook' = None
    /\ unguarded' = unguarded \cup {ns \in Namespaces \ {flags.ns} : manager[ns] # None}
    /\ Done
    /\ UNCHANGED <<crds, established, prereqs, certManager, certmgr, runtime, ca>>

\* The deletion is in the foreground: the stateful set goes after its pod.
UninstallStatefulSet ==
    /\ Call("deleteManager")
    /\ manager' = [manager EXCEPT ![flags.ns] =
                      IF @ = None THEN None ELSE [@ EXCEPT !.deleting = TRUE]]
    /\ Done /\ UNCHANGED unguarded
    /\ UNCHANGED <<crds, established, prereqs, certManager, certmgr, webhook, service, ca>>

WaitForDelete ==
    /\ Call("awaitManager") /\ manager[flags.ns] = None
    /\ Done /\ UNCHANGED unguarded
    /\ UNCHANGED <<cluster, ca>>

DeleteTimeout ==
    /\ Call("awaitManager") /\ manager[flags.ns] # None
    /\ Failed /\ UNCHANGED cluster

InstallStatefulSet ==
    /\ Call("createManager")
    /\ manager' = [manager EXCEPT ![flags.ns] = Manager(flags)]
    /\ Done /\ UNCHANGED unguarded
    /\ UNCHANGED <<crds, established, prereqs, certManager, certmgr, webhook, service, ca>>

\* The service is deleted and created again as well.
UninstallService ==
    /\ Call("deleteService")
    /\ service' = service \ {flags.ns}
    /\ Done /\ UNCHANGED unguarded
    /\ UNCHANGED <<crds, established, prereqs, certManager, certmgr, webhook, manager, ca>>

InstallService ==
    /\ Call("createService")
    /\ service' = service \cup {flags.ns}
    /\ Done /\ UNCHANGED unguarded
    /\ UNCHANGED <<crds, established, prereqs, certManager, certmgr, webhook, manager, ca>>

\* --wait verifies again and again, and gives up some time.
WatchUntilReady ==
    /\ at = "wait"
    /\ \/ /\ \E result \in BOOLEAN : CheckWebhook(result) /\ VerifyInstallation(flags, result)
          /\ ~ VerifyPanics(flags) /\ End("success")
       \/ End("error") /\ UNCHANGED faults
    /\ UNCHANGED <<cluster, unguarded, edits>>

\* A call fails, or the command is killed, perhaps right after a call.
Interrupted ==
    /\ at # "idle" /\ faults < MaxFaults
    /\ faults' = faults + 1
    /\ End("error")
    /\ UNCHANGED <<cluster, unguarded, edits>>

(* ------------------------------- the cluster --------------------------- *)

Establish ==
    /\ established # {c \in CRDs : crds[c] # None}
    /\ established' = {c \in CRDs : crds[c] # None}
    /\ UNCHANGED <<crds, prereqs, certManager, certmgr, webhook, runtime, process, history, bounds>>

\* cert-manager issues the certificate that the Issuer signs, and replaces
\* the content of a secret that another CA has signed.
IssueCertificate(ns) ==
    /\ certManager = "running" /\ ns \in issuer \cap certificate
    /\ secret[ns] # CertManagerCA
    /\ secret' = [secret EXCEPT ![ns] = CertManagerCA]
    /\ UNCHANGED <<crds, established, prereqs, certManager, issuer, certificate, webhook, runtime,
                   process, history, bounds>>

InjectCA ==
    /\ certManager = "running" /\ webhook # None
    /\ webhook.inject /\ webhook.ca = None /\ secret[webhook.ns] = CertManagerCA
    /\ webhook' = [webhook EXCEPT !.ca = CertManagerCA]
    /\ UNCHANGED <<crds, established, prereqs, certManager, certmgr, runtime, process, history, bounds>>

\* The pod starts with its account and the secret it mounts, and the process
\* listens after it has set up its controllers, which needs the CRDs.
ManagerReady(ns) ==
    /\ manager[ns] # None
    /\ ~ manager[ns].deleting /\ ~ manager[ns].ready
    /\ <<ns, manager[ns].account>> \in accounts /\ secret[ns] # None /\ established = CRDs
    /\ manager' = [manager EXCEPT ![ns].ready = TRUE]
    /\ UNCHANGED <<crds, established, prereqs, certManager, certmgr, webhook, service,
                   process, history, bounds>>

ManagerGone(ns) ==
    /\ manager[ns] # None
    /\ manager[ns].deleting
    /\ manager' = [manager EXCEPT ![ns] = None]
    /\ UNCHANGED <<crds, established, prereqs, certManager, certmgr, webhook, service,
                   process, history, bounds>>

\* Everything in a namespace goes with it; what is cluster-wide stays.
NamespaceGone(ns) ==
    /\ namespace[ns] = "terminating"
    /\ namespace' = [namespace EXCEPT ![ns] = "absent"]
    /\ accounts' = {a \in accounts : a[1] # ns}
    /\ issuer' = issuer \ {ns} /\ certificate' = certificate \ {ns}
    /\ secret' = [secret EXCEPT ![ns] = None]
    /\ manager' = [manager EXCEPT ![ns] = None] /\ service' = service \ {ns}
    /\ UNCHANGED <<crds, established, admins, binding, certManager, webhook, process, history, bounds>>

(* --------------------------------- users ------------------------------- *)

Edit == edits < MaxEdits /\ edits' = edits + 1 /\ disturbed' = (at = "install")
        /\ UNCHANGED <<faults, leftover, unguarded, uncertified>>

CreateNamespace(ns) ==
    /\ Edit /\ namespace[ns] = "absent"
    /\ namespace' = [namespace EXCEPT ![ns] = "active"]
    /\ UNCHANGED <<crds, established, accounts, admins, binding, certManager, certmgr, webhook, runtime, process>>

DeleteNamespace(ns) ==
    /\ Edit /\ namespace[ns] = "active"
    /\ namespace' = [namespace EXCEPT ![ns] = "terminating"]
    /\ UNCHANGED <<crds, established, accounts, admins, binding, certManager, certmgr, webhook, runtime, process>>

\* A service account with the role, as --service-account expects it.
GrantAdmin(a) ==
    /\ Edit /\ namespace[a[1]] = "active" /\ a \notin admins \cap accounts
    /\ accounts' = accounts \cup {a} /\ admins' = admins \cup {a}
    /\ UNCHANGED <<crds, established, namespace, binding, certManager, certmgr, webhook, runtime, process>>

\* "kudo init --crd-only --dry-run --output yaml | kubectl delete -f -"
DeleteCRDs ==
    /\ Edit /\ ~ NoCRD
    /\ crds' = [c \in CRDs |-> None] /\ established' = {}
    /\ UNCHANGED <<prereqs, certManager, certmgr, webhook, runtime, process>>

(* ---------------------------- specification ---------------------------- *)

Command ==
    \/ VerifyExisting \/ Refuse \/ DryRun \/ Proceed \/ CallRefused
    \/ \E c \in CRDs : ApplyCRD(c)
    \/ InstallNamespace \/ InstallServiceAccount \/ InstallRoleBinding
    \/ InstallCerts \/ InstallPanics
    \/ InstallAdmissionWebhook \/ NoCertificates \/ InstallWebhookSecret
    \/ UninstallWebHook \/ UninstallStatefulSet \/ WaitForDelete \/ DeleteTimeout
    \/ InstallStatefulSet \/ UninstallService \/ InstallService
    \/ WatchUntilReady

Cluster ==
    \/ Establish \/ InjectCA
    \/ \E ns \in Namespaces :
          IssueCertificate(ns) \/ ManagerReady(ns) \/ ManagerGone(ns) \/ NamespaceGone(ns)

Users ==
    \/ \E f \in Flags : Start(f)
    \/ DeleteCRDs
    \/ \E ns \in Namespaces : CreateNamespace(ns) \/ DeleteNamespace(ns)
    \/ \E a \in Namespaces \X Accounts : GrantAdmin(a)

Next == Command \/ Interrupted \/ Cluster \/ Users

\* A command goes on until it ends, a stateful set that is being deleted goes,
\* and users repeat the upgrade.
Spec ==
    /\ Init /\ [][Next]_vars
    /\ WF_vars(Command) /\ \A ns \in Namespaces : WF_vars(ManagerGone(ns))
    /\ SF_vars(Start(Repair))

(* ------------------------------ properties ----------------------------- *)

\* No manager runs without the admission webhook, which is the only guard of
\* the plans of Instances: an upgrade stops the manager before it removes the
\* webhook and starts it after, wherever it is interrupted.  Two managers are
\* exempt until the webhook is installed again: that of another namespace when
\* an upgrade removes the webhook (UninstallWebHook), and that of an
\* installation whose self-signed certificates failed (NoCertificates).
ManagerBehindWebhook ==
    \A ns \in Namespaces :
        manager[ns] # None /\ webhook = None => ns \in unguarded

\* The webhook and its certificates, which a command has to leave behind.
WebhookComplete(f) ==
    /\ webhook # None
    /\ webhook.ns = f.ns /\ webhook.inject = ~ f.selfSigned
    /\ IF f.selfSigned THEN secret[f.ns] # None
       ELSE f.ns \in issuer /\ f.ns \in certificate

\* The other objects.
ManagerComplete(f) ==
    /\ namespace[f.ns] = "active" /\ AccountValid(f)
    /\ manager[f.ns] # None
    /\ manager[f.ns].version = f.version /\ ~ manager[f.ns].deleting
    /\ f.ns \in service

CRDsComplete(f) == crds = [c \in CRDs |-> f.version]

Complete(f) == CRDsComplete(f) /\ (~ f.crdOnly => WebhookComplete(f) /\ ManagerComplete(f))

\* Installer.Install ends without an error only if everything it is about is
\* there and of one version, whatever earlier commands have left: every call
\* that is skipped for an existing object is skipped rightly.  Exempt are parts
\* of another installation, what users do meanwhile, and, only for the webhook
\* and its secret, a self-signed installation whose certificates failed.
InstalledIsComplete ==
    [][at = "install" /\ report' = "success" /\ ~ leftover /\ ~ disturbed
          => \A f \in Flags : f = flags =>
                /\ CRDsComplete(f)'
                /\ ~ f.crdOnly => /\ ManagerComplete(f)'
                                  /\ ~ uncertified => WebhookComplete(f)']_vars

\* What an upgrade asks for before it starts.
Repairable == PreUpgradeVerify(Repair) /\ (Repair.selfSigned \/ CertManagerListed)

\* Whatever an interrupted installation or upgrade has left behind, also one of
\* another namespace, an upgrade that users repeat and that is not refused for
\* good gets to its end: everything that it is about is there, of its version.
UpgradeRepairs == []<>(Repairable => Complete(Repair))

(* ---------- what comments and help say, and the code does not ---------- *)

\* "Execute Installation/Upgrade (this enables webhooks again and starts new
\* manager": an upgrade that ends without an error has enabled the webhook.
UpgradeEnablesWebhook ==
    [][at = "install" /\ flags.upgrade /\ report' = "success" => webhook' # None]_vars

\* "Running 'kudo init' on server-side is idempotent": where KUDO is installed
\* as asked for, installing it again is not refused.
InstallIsIdempotent ==
    at = "verify" /\ ~ flags.upgrade /\ ~ flags.verify
    /\ VerifyInstallation(flags, WebhookVerified(flags))
        => Verified(flags)

\* "Block until KUDO manager is running and ready to receive requests": the API
\* server trusts the manager that --wait has found, with a self-signed CA.
ReadyManagerTrusted ==
    at = "wait" /\ flags.selfSigned /\ VerifyInstallation(flags, WebhookVerified(flags))
        => webhook.ca = secret[flags.ns]
=============================================================================
