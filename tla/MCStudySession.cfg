CONSTANTS
    a = a  b = b  c = c
    NoOne = NoOne
    Invocations = {a, b, c}
    Times = {0, 1, 2, 3}
    IdleOf <- Timeouts
    Faults = TRUE
SYMMETRY Permuted
SPECIFICATION Spec
INVARIANT RowsValid
INVARIANT StudyIsBounded
INVARIANT ActivitiesAreCounted
INVARIANT HistoryMatches
INVARIANT ReplacedBeforeStart
INVARIANT NoStandoff
PROPERTY BeginsInScope
PROPERTY ImplementsLog
CHECK_DEADLOCK FALSE
