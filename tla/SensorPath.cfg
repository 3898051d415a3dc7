SPECIFICATION Spec
CONSTANTS
    Frame <- Frames
    Capture <- Captures
    PostOf <- Posts
    MaxSize = 3
    MaxBytes = 4
    MaxAge = 4
    QueueSize = 2
    Tolerance = 1
    MaxPairs = 4
    Pre = 2
    WallNow = 3
    MaxArrivals = 5
INVARIANT TypeOK
INVARIANT FrameAccounted
INVARIANT DropsAreHopeless
INVARIANT BufferKeepsNewest
PROPERTY BatchesExact
PROPERTY PairsCoverBatch
CHECK_DEADLOCK FALSE
