SPECIFICATION FairSpec
CONSTANTS
    d1 = d1
    d2 = d2
    m = m
    a = a
    Dir <- TwoDirs
    File <- TwoFiles
    Manifest = m
    Size <- OneEmpty
    MaxFaults = 1
    MaxActiveTransfers = 1
    MaxReceiverCrashes = 1
    RestoreMayFail = FALSE
    MaxRetries = 2
    Rescan = TRUE
    Deletes = FALSE
    MaxSenderEnds = 1
PROPERTY Delivered
