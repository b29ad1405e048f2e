\* A TTL of a second and a half, logs of two units.
SPECIFICATION FairSpec
CONSTANTS
    Second = 2
    CallbackTTL = 3
    PendingTTL = 2
    MaxPerMAC = 2
    Bare = Bare
    None = None
INVARIANTS TypeOK LogKeepsTheEnd
PROPERTIES TokenLivesItsTTL ReinstalledOnlyUnheard LoopEnds
