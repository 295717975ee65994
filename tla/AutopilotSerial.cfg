\* Calls one after the other: crashes in the middle of a call, every human
\* decision, leases that expire and evidence that changes.
SPECIFICATION Spec
CONSTANTS
    r1 = r1
    r2 = r2
    c1 = c1
    NoOne = NoOne
    Runs = {r1, r2}
    Callers = {c1}
    MaxActions = 1
    MaxChanges = 2
    MaxResets = 1
    MaxCrashes = 1
    Overlap = FALSE
INVARIANTS
    TypeOK
    InvocationsBounded
    RollbackFirst
    LeaseNamesActiveRun
PROPERTIES
    TerminalStays
SYMMETRY RunSymmetry
CHECK_DEADLOCK FALSE
