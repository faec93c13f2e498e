SPECIFICATION Spec
CONSTANTS
    Paths <- MCPaths
    Workspaces <- MCWorkspaces
    Small = {"x", "y"}
    Large = {"l", "m"}
    Actions = {a1, a2}
    FileLimit = 2
    MaxWrites = 2
SYMMETRY Symmetry
INVARIANTS
    ChangesAreReal
    AttributionIsFounded
    ValidationIsCurrent
CHECK_DEADLOCK FALSE
