\* Two clients, two handlers, three goroutines; time passes.
SPECIFICATION FairSpec
CONSTANTS
    MAC = {m1, m2}
    Slot = {h1, h2}
    Timer = {t1, t2, t3}
    FollowUpTimeout = 2
    None = None
    Idle = Idle
INVARIANTS TypeOK NoteHasItsTimer
PROPERTIES HintMeansSilence NotesEnd
