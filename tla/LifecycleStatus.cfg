SPECIFICATION FairSpec
CONSTANTS
    c1 = c1
    c2 = c2
    Capture <- TwoCaptures
    Keyed <- OneKeyed
    MaxGiveUps <- GiveUpFirst
INVARIANT TypeOK
INVARIANT LifecycleShape
INVARIANT GoodNewsIsTrue
INVARIANT RetryAnnouncedOnce
PROPERTY EveryTriggerConcluded
CHECK_DEADLOCK FALSE
