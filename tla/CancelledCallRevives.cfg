\* A cancellation during a call that awaits a module.
SPECIFICATION Spec
CONSTANTS
    r1 = r1
    r2 = r2
    c1 = c1
    NoOne = NoOne
    Runs = {r1, r2}
    Callers = {c1}
    MaxActions = 2
    MaxChanges = 2
    MaxResets = 1
    MaxCrashes = 1
    Overlap = TRUE
PROPERTIES
    TerminalStays
SYMMETRY RunSymmetry
CHECK_DEADLOCK FALSE
