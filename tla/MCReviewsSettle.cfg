CONSTANTS
    c = c
    None = None
    Instances = {1}
    Concepts = {c}
    First = 1
    Threshold = 80
    Day = 7
    Delay = 1
    Lag = 0
    Answers <- Offered
    Ages = {0}
    MaxTime = 2
    MaxEvidence = 2
    MaxItems = 2
SPECIFICATION Spec
INVARIANT RecalculationSettles
CHECK_DEADLOCK FALSE
