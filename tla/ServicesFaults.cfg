SPECIFICATION Spec
CONSTANTS
    ollama = ollama
    qdrant = qdrant
    kiwix = kiwix
    c1 = c1
    c2 = c2
    c3 = c3
    Seed = Seed
    None = None
    Service = {ollama, qdrant, kiwix}
    Call = {c1, c2}
    Preinstalled = {kiwix, qdrant}
    Syncs = TRUE
    Faults = {"create", "start", "remove", "pull", "stop", "launch", "exit", "list"}
    DependsOn <- MCDependsOn
    Offers <- MCOffers
SYMMETRY Calls
INVARIANTS
    TypeOK
    InstallingHasCall
    NeverLost
CHECK_DEADLOCK FALSE
