SPECIFICATION Spec
CONSTANTS
    c1 = c1
    c2 = c2
    Capture <- OneCapture
    MaxGiveUps <- GiveUpOnce
    Keyed <- NoneKeyed
INVARIANT FailureIsTrue
CHECK_DEADLOCK FALSE
