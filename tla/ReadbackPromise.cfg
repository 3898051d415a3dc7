SPECIFICATION Spec
CONSTANTS
    Batches <- ContradictoryImage
    Options <- JobOptions
    Commands <- ReaderCommands
    MaxFaults = 0
    MaxDamage = 0
INVARIANT WrittenIsAccepted
CHECK_DEADLOCK FALSE
