SPECIFICATION Spec
CONSTANTS
    None = None
    MinimumHits = 3
    MaxAddresses = 5
    MaxEntered = 5
    LoadedAt = {0, 1000}
    Functions <- MCFunctions
    Blocks <- MCBlocks
INVARIANT
    NothingReachedUnrun
CHECK_DEADLOCK FALSE
