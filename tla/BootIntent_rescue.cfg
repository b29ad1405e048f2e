\* A rescue that ends while its box boots.
SPECIFICATION Spec
CONSTANTS
    MAC = {m1}
    Slot = {h1}
    TTL = 1
    Members = {"named"}
    None = None
    Idle = Idle
    Never = Never
INVARIANTS RescueNeverInstalls
