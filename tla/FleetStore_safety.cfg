\* Two callers, one machine, two profile contents.
SPECIFICATION Spec
CONSTANTS
    MAC = {m1}
    Content = {c1, c2}
    Rescue = {r1}
    Absent = Absent
    Broken = Broken
    NoTag = NoTag
    None = None
    Proc = {p1, p2}
    Free = Free
    Down = Down
SYMMETRY Symmetric
INVARIANTS TypeOK OwnChangeStays WriteThrough
PROPERTIES CommitsOverItsTag Linearizable
