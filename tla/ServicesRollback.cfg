SPECIFICATION Spec
CONSTANTS
    ollama = ollama
    qdrant = qdrant
    kiwix = kiwix
    c1 = c1
    c2 = c2
    c3 = c3
    Seed = Seed
    None = None
    Service = {kiwix}
    Call = {c1}
    Preinstalled = {kiwix}
    Syncs = FALSE
    Faults = {"launch"}
    DependsOn <- MCDependsOn
    Offers <- UpdateOnly
INVARIANTS
    RolledBack
CHECK_DEADLOCK FALSE
