SPECIFICATION FairSpec
CONSTANTS
    Unknown = Unknown
    a = a
    b = b
    c = c
    d = d
    sh = sh
    ssl = ssl
    one = one
    two = two
    x = x
    y = y
    z = z
    MinShared = 1
    MaxFinds = 4
    MaxJobs = 1
    Labels <- MCLabels
    Finds <- MCFinds
INVARIANTS
    CampaignsAreComponents
    EdgesStand
    ChangesAreFounded
PROPERTIES
    JobsEnd
CHECK_DEADLOCK FALSE
