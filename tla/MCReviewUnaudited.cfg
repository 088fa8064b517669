SPECIFICATION ReviewSpec
CONSTANTS
    None = None
    s = s
    u = u
    v = v
    r0 = r0
    r1 = r1
    r2 = r2
    r3 = r3
    file = file
    tool = tool
    agent = agent
    Conns = {s, u, v}
    Servers = {s}
    Reviewers = {u, v}
    Runs = {r0, r1, r2, r3}
    AgentRuns = {r1}
    ToolRun = r0
    Artifacts = {file}
    Claims = {tool, agent}
    ToolClaims = {tool}
    PageLimit = 1
    Notes <- MCNotes
    Owner <- MCOwner
    Evidence <- MCEvidence
    Subject <- MCSubject
    ClaimOrder <- MCOrder
INVARIANT
    AuditTrail
