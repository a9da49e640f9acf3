SPECIFICATION Spec
CONSTANTS
    Answers <- Repeated
    Modes = {"delta"}
    MaxSends = 1
    MaxActs = 0
    MaxStored = 3
INVARIANT FullAnswer
CHECK_DEADLOCK FALSE
