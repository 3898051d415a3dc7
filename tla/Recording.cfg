\* Two events compete for the queue and the capture table, with up to two
\* records in one batch or over both batches of an event, every kind of fault,
\* one crash and fair scheduling.
CONSTANTS
    e1 = e1
    e2 = e2
    Event <- TwoEvents
    MaxPendingJobs = 3
    MaxActiveCaptures = 2
    MaxBatch = 2
    MaxRecords = 2
    MaxCrashes = 1
    SyncRequired = TRUE
    Faults = {"prepare", "write", "checksum", "delete"}
    Unmarkable <- TheSecond
SPECIFICATION FairSpec
INVARIANT TypeOK
INVARIANT CompleteIsWhole
INVARIANT RemovedStaysGone
INVARIANT ReservationsMatch
INVARIANT QueueWithinLimit
INVARIANT PendingHasOwner
PROPERTY SweepSparesLive
PROPERTY ImplementsTransaction
PROPERTY PostBatchHasSlot
PROPERTY PendingSettles
