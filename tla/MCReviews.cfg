CONSTANTS
    c = c
    None = None
    Instances = {1, 2}
    Concepts = {c}
    First = 2
    Threshold = 80
    Day = 7
    Delay = 1
    Lag = 1
    Answers <- Offered
    Ages <- FutureAndPresent
    MaxTime = 2
    MaxEvidence = 2
    MaxItems = 2
SPECIFICATION Spec
INVARIANT OneDueDate
PROPERTY PostponementHolds
INVARIANT RecallsMatchOutcomes
INVARIANT ListingSettles
INVARIANT ListingSucceeds
CHECK_DEADLOCK FALSE
