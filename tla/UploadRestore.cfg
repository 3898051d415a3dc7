SPECIFICATION FairSpec
CONSTANTS
    d1 = d1
    d2 = d2
    m = m
    a = a
    Dir <- OneDir
    File <- TwoFiles
    Manifest = m
    Size <- TwoSizes
    MaxFaults = 4
    MaxActiveTransfers = 1
    MaxReceiverCrashes = 0
    RestoreMayFail = TRUE
    MaxRetries = 2
    Rescan = TRUE
    Deletes = FALSE
    MaxSenderEnds = 0
PROPERTY RetryKeepsCopy
