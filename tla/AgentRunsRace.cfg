SPECIFICATION Spec
CONSTANTS
    Runs = {r1}
    Handlers = {h1, h2}
    edit = edit
    fetch = fetch
    install = install
    script = script
    Actions = {fetch, install}
    Categories <- MCCategories
    Category <- MCCategory
    Routine <- MCRoutine
    Grantable <- MCGrantable
    Offers = {"start", "approve", "approve_category", "deny", "pause", "resume", "stop"}
    Early = {"start", "approve", "approve_category", "deny", "stop"}
    Leftovers = TRUE
    MaxCrashes = 0
    NoRun = NoRun
    NoAction = NoAction
    NoOne = NoOne
INVARIANTS
    TypeOK
    GrantsComeFromApprovals
    UnaskedExecutionHasGrant
PROPERTIES
    DecisionsAreFinal
    ManifestFirstWins
SYMMETRY MCSymmetry
CHECK_DEADLOCK FALSE
