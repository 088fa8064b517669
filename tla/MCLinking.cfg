SPECIFICATION Spec
CONSTANTS
    None = None
    app = app
    lib = lib
    alt = alt
    put = put
    _put = _put
    hit = hit
    Processes = {p, q}
    Ubiquitous = {_put}
    MaxPasses = 3
    Stem <- MCStem
    Analyses <- MCAnalyses
INVARIANTS
    PassesComplete
    NoStrongerThanItsLinks
PROPERTIES
    AmbiguousLinksAreHedged
CHECK_DEADLOCK FALSE
