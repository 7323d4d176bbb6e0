CONSTANTS
    Creators = {1, 2, 3}
    Retention = 1
    Times = {0, 1}
    Faults = {"failed", "dead"}
SPECIFICATION Spec
INVARIANT NewestKept
INVARIANT RetentionHonoured
CHECK_DEADLOCK FALSE
