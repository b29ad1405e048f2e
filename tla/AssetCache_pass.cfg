\* One fetch at a time, forced or not, of either of two releases, that may
\* fail or be killed anywhere; one machine downloads.
SPECIFICATION Spec
CONSTANTS
    Fetcher = {f1}
    Client = {c1}
    kernel = kernel
    squashfs = squashfs
    Asset <- MCAsset
    Order <- MCOrder
    Wanted = {kernel}
    Release = {r1, r2}
    Chunks = 2
    PerName = 3
    None = None
INVARIANTS TypeOK AssetsAreWhole
PROPERTIES SuccessIsItsRelease
SYMMETRY Upstream
