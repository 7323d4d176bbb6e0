CONSTANTS
    old = old  new = new  zero = zero  one = one
    r1 = r1  r2 = r2
    Absent = Absent
    Restores = {r1, r2}
    Data = {old, new}
    Indexes = {zero, one}
    Saved <- Two
    Initial <- Workspace
    Written = {4}
    Overlap = FALSE
    Commands = FALSE
    Faults = {"rename", "remove", "death"}
SYMMETRY Permuted
SPECIFICATION Spec
INVARIANT IndexIsExact
PROPERTY ImplementsRestore
PROPERTY NothingIsLost
CHECK_DEADLOCK FALSE
