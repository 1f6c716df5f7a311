SPECIFICATION Spec
CONSTANTS
    ollama = ollama
    qdrant = qdrant
    kiwix = kiwix
    c1 = c1
    c2 = c2
    c3 = c3
    Seed = Seed
    None = None
    Service = {qdrant}
    Call = {c1, c2}
    Preinstalled = {}
    Syncs = FALSE
    Faults = {}
    DependsOn <- MCDependsOn
    Offers <- InstallOnly
INVARIANTS
    AtMostOneInstall
CHECK_DEADLOCK FALSE
