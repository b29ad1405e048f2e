\* Two saves at once.
SPECIFICATION Spec
CONSTANTS
    Saver = {s1, s2}
    None = None
    Overlapped = Overlapped
SYMMETRY Symmetric
INVARIANTS TypeOK SavedIsServed
PROPERTIES TwoPhoneHomesExplained
