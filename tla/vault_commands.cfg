SPECIFICATION Spec
CONSTANTS
    r1 = r1
    r2 = r2
    r3 = r3
    a1 = a1
    a2 = a2
    p1 = p1
    p2 = p2
    Refs <- ThreeRefs
    Accounts = {a1, a2}
    AccountOf <- TwoOwners
    Procs = {p1, p2}
    MaxCommands = 4
    MaxFaults = 1
SYMMETRY Alike
INVARIANTS
    TypeOK
    VaultIsWhole
    NoUpdateIsLost
    RowsHaveSecrets
PROPERTIES
    ReportedIsServed
    KeepsStore
CHECK_DEADLOCK FALSE
