SPECIFICATION Spec
CONSTANTS
    Runs = {r1, r2}
    Handlers = {h1}
    edit = edit
    fetch = fetch
    install = install
    script = script
    Actions = {script}
    Categories <- MCCategories
    Category <- MCCategory
    Routine <- MCRoutine
    Grantable <- MCGrantable
    Offers = {"start", "approve", "approve_category", "deny", "pause", "resume", "stop"}
    Early = {"start", "stop"}
    Leftovers = FALSE
    MaxCrashes = 0
    NoRun = NoRun
    NoAction = NoAction
    NoOne = NoOne
INVARIANT AtMostOneActiveRun
CHECK_DEADLOCK FALSE
