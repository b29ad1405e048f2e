\* Two handlers at once, every kind of entry; handlers and boxes keep going.
SPECIFICATION FairSpec
CONSTANTS
    MAC = {m1}
    Slot = {h1, h2}
    TTL = 1
    Members = {"named", "nameless"}
    None = None
    Idle = Idle
    Never = Never
INVARIANTS TypeOK DoneDisarms
PROPERTIES BootsFollowPuts NotStranded
