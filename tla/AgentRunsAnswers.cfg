SPECIFICATION FairSpec
CONSTANTS
    Runs = {r1}
    Handlers = {h1, h2}
    edit = edit
    fetch = fetch
    install = install
    script = script
    Actions = {script}
    Categories <- MCCategories
    Category <- MCCategory
    Routine <- MCRoutine
    Grantable <- MCGrantable
    Offers = {"start", "deny", "stop"}
    Early = {"start", "deny", "stop"}
    Leftovers = TRUE
    MaxCrashes = 1
    NoRun = NoRun
    NoAction = NoAction
    NoOne = NoOne
PROPERTIES
    WriterReleases
    RequestsFinish
    RecoveryEnds
CHECK_DEADLOCK FALSE
