SPECIFICATION Spec
CONSTANTS
    Batches <- EventBatches
    Options <- JobOptions
    Commands <- ReaderCommands
    MaxFaults = 1
    MaxDamage = 2
INVARIANT TypeOK
INVARIANT WrittenReadsBack
INVARIANT ExitZeroMeansWhole
INVARIANT ExportCoversStamps
CHECK_DEADLOCK FALSE
