\* Two callers, one machine, one profile content.
SPECIFICATION FairSpec
CONSTANTS
    MAC = {m1}
    Content = {c1}
    Rescue = {r1}
    Absent = Absent
    Broken = Broken
    NoTag = NoTag
    None = None
    Proc = {p1, p2}
    Free = Free
    Down = Down
PROPERTIES EveryRequestAnswered
