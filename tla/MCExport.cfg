SPECIFICATION Spec
CONSTANTS
    Nothing = Nothing
    mine = mine
    other = other
    r1 = r1
    r2 = r2
    file = file
    str = str
    k1 = k1
    k2 = k2
    n1 = n1
    Projects = {mine}
    Runs = {r1, r2}
    Artifacts = {file, str}
    Claims = {k1, k2}
    Notes = {}
    Exported = {mine}
    Diffed = {mine}
    Decisions = {"rejected"}
    MaxExports = 2
    Owner <- MCOwner
    Evidence <- MCEvidence
    Subject <- MCSubject
    Finds <- MCFinds
    Options <- MCOptions
INVARIANTS
    ProvenanceComplete
    NothingMissing
    ManifestHonest
    NothingIsRemoved
CHECK_DEADLOCK FALSE
