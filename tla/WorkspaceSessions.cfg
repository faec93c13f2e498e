SPECIFICATION FairSpec
CONSTANTS
    first = first
    second = second
    again = again
    here = here
    there = there
    Workspaces = {here, there}
    Sessions = {first, second, again}
    WorkspaceOf <- MCWorkspaceOf
    Runs = {r1}
    Requests = {q1}
    Handlers = {h1, h2}
    Manners = {TRUE, FALSE}
    Returning = {TRUE}
    NoSession = NoSession
    NoRun = NoRun
    NoRef = NoRef
INVARIANTS
    TypeOK
    NothingStartsAfterReady
    SessionsEndQuietly
    OneSession
PROPERTIES
    CanAlwaysClose
CHECK_DEADLOCK FALSE
