SPECIFICATION Spec
CONSTANTS
    Answers <- Distinct
    Modes = {"delta", "snapshot", "plain"}
    MaxSends = 2
    MaxActs = 1
    MaxStored = 3
INVARIANTS TypeOK OwnText FullAnswer NoStuckAnswer SavedOnLeave
PROPERTIES FinalStays GenerationEnds
CHECK_DEADLOCK FALSE
