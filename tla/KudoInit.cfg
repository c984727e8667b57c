SPECIFICATION Spec
CONSTANTS
    Versions = {"v1", "v2"}
    Namespaces = {"kudo-system", "other"}
    DefaultNamespace = "kudo-system"
    SelfSignedCAs = {"ca1", "ca2", "ca3"}
    CertManagerCA = "cert-manager"
    None = None
    Flags <- MCFlags
    Repair <- MCRepair
    CertManagers = {"incomplete", "unsupported", "running"}
    MaxFaults = 1
    MaxEdits = 1
INVARIANT ManagerBehindWebhook
PROPERTIES InstalledIsComplete UpgradeRepairs
CHECK_DEADLOCK FALSE
