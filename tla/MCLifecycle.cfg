SPECIFICATION Spec
CONSTANTS
    None = None
    Before = Before
    p1 = p1
    p2 = p2
    p3 = p3
    Procs = {p1, p2, p3}
    Modes = {"create", "force", "open", "readonly"}
    SchemaVersion = 2
    MaxVersion = 3
CHECK_DEADLOCK FALSE
INVARIANTS
    OpenMeansMigrated
    IdentityIsWhole
PROPERTIES
    VersionNeverGoesBack
