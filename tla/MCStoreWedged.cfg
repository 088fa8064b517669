SPECIFICATION FairSpec
CONSTANTS
    None = None
    s = s
    p = p
    r1 = r1
    r2 = r2
    file = file
    str = str
    k0 = k0
    k1 = k1
    k2 = k2
    n1 = n1
    Conns = {s, p}
    Servers = {s}
    Runs = {r1, r2}
    Artifacts = {file, str}
    Claims = {k0, k1, k2}
    Notes = {n1}
    Owner <- MCOwner
    Evidence <- MCEvidence
    Subject <- MCSubject
PROPERTY
    RunsAreClosed
