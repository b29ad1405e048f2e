\* One edit of fleet.yaml.
SPECIFICATION FairSpec
CONSTANTS
    MaxVersion = 1
    None = None
INVARIANTS TypeOK ExitTells
PROPERTIES ProcessEnds HangupIsHeard
