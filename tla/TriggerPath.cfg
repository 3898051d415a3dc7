SPECIFICATION Spec
CONSTANTS
    t1 = t1
    t2 = t2
    t3 = t3
    collision = collision
    Id <- TwoIds
    EventOf <- OneEvent
    DedupeTtl = 4
    NodeTtl = 3
    Cooldown = 2
    DirectCalls = TRUE
    MaxDelay = 1
    MaxTime = 6
    MaxSignals = 4
    MaxRestarts = 1
SYMMETRY Symmetry
INVARIANT TypeOK
INVARIANT IdempotentWindow
INVARIANT CooldownKept
INVARIANT TablesAgree
CHECK_DEADLOCK FALSE
