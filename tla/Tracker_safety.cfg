\* One box, three late notes.
SPECIFICATION Spec
CONSTANTS
    MAC = {m1}
    Slot = {s1, s2, s3}
    Stall = 1
    None = None
    Idle = Idle
SYMMETRY Symmetric
INVARIANTS TypeOK FurthestAtRest
PROPERTIES MembersListedOnce
