SPECIFICATION Spec
CONSTANTS
    Nothing = Nothing
    mine = mine
    other = other
    r1 = r1
    r2 = r2
    file = file
    str = str
    k1 = k1
    k2 = k2
    n1 = n1
    Projects = {mine, other}
    Runs = {r1, r2}
    Artifacts = {file, str}
    Claims = {k1, k2}
    Notes = {}
    Exported = {mine, other}
    Diffed = {}
    Decisions = {}
    MaxExports = 2
    Owner <- MCOwner
    Evidence <- MCEvidence
    Subject <- MCSubject
    Finds <- MCFindsApart
    Options <- MCStableOnly
INVARIANTS
    SameFindingsSameDigest
CHECK_DEADLOCK FALSE
