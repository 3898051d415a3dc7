SPECIFICATION Spec
CONSTANTS
    d1 = d1
    d2 = d2
    m = m
    a = a
    Dir <- OneDir
    File <- TwoFiles
    Manifest = m
    Size <- TwoSizes
    MaxFaults = 2
    MaxActiveTransfers = 1
    MaxReceiverCrashes = 1
    RestoreMayFail = FALSE
    MaxRetries = 2
    Rescan = TRUE
    Deletes = TRUE
    MaxSenderEnds = 1
INVARIANT TypeOK
INVARIANT DataNeverLost
INVARIANT UploadedIsKept
INVARIANT PublishedIsWhole
PROPERTY FirstUploadUndisturbed
PROPERTY LastCopySurvives
