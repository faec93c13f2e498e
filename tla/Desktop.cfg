SPECIFICATION Spec
CONSTANTS
    MaxLaunches = 3
    Restarts = {"settings"}
INVARIANTS
    LivingBackendsKeepTheirRoot
    NoWorkIsKilled
PROPERTIES
    ShellSettles
CHECK_DEADLOCK FALSE
