\* Three machines, a store of two, one DHCP handler, pages of one.
SPECIFICATION Spec
CONSTANTS
    MAC = {m1, m2, m3}
    Members = {"named", "nameless"}
    Handler = {h1}
    MaxEntries = 2
    Limit = 1
    None = None
SYMMETRY Symmetric
INVARIANTS TypeOK KeepsTheNewest WalkMissesNothing
