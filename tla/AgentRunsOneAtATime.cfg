SPECIFICATION Spec
CONSTANTS
    Runs = {r1, r2}
    Handlers = {h1, h2}
    edit = edit
    fetch = fetch
    install = install
    script = script
    Actions = {edit, fetch, install}
    Categories <- MCCategories
    Category <- MCCategory
    Routine <- MCRoutine
    Grantable <- MCGrantable
    Offers = {"start", "approve", "approve_category", "deny", "pause", "resume", "stop"}
    Early = {"start"}
    Leftovers = FALSE
    MaxCrashes = 0
    NoRun = NoRun
    NoAction = NoAction
    NoOne = NoOne
INVARIANTS
    NoUnapprovedExecution
    AtMostOneActiveRun
    EvidenceIsComplete
    WaitingRunsCanBeDecided
PROPERTIES
    ImplementsAuthority
SYMMETRY MCSymmetry
CHECK_DEADLOCK FALSE
