SPECIFICATION Spec
CONSTANTS
    Runs = {r1, r2}
    Handlers = {h1}
    edit = edit
    fetch = fetch
    install = install
    script = script
    Actions = {fetch}
    Categories <- MCCategories
    Category <- MCCategory
    Routine <- MCRoutine
    Grantable <- MCGrantable
    Offers = {"start", "approve_category", "stop"}
    Early = {"start", "stop"}
    Leftovers = TRUE
    MaxCrashes = 1
    NoRun = NoRun
    NoAction = NoAction
    NoOne = NoOne
INVARIANTS
    SingleWriter
    TerminalRunsHaveEvidence
CHECK_DEADLOCK FALSE
