SPECIFICATION FairSpec
CONSTANTS
    NaN = NaN
    Garbage = Garbage
    Odd = Odd
    s1 = s1
    s2 = s2
    s3 = s3
    s4 = s4
    Agents = {a1, a2}
    Texts <- MCTexts
    Rules <- MCRules
    Responses <- MCResponses
    MaxClaims = 2
    MinConfidence = 50
    BatchSize = 2
    PageLimit = 3
    MaxStarts = 2
INVARIANTS
    ProposalsAreNew
    NobodyIsOverlooked
PROPERTIES
    AgentsEnd
CHECK_DEADLOCK FALSE
