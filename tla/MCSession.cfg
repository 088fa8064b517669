SPECIFICATION Spec
CONSTANTS
    None = None
    bin = bin
    sbin = sbin
    str = str
    name = name
    ClaimOrder <- MCClaimOrder
    ArtifactOrder <- MCArtifactOrder
    KindOf <- MCKindOf
    Holder <- MCHolder
    Matches <- MCMatches
    Vocabulary <- MCVocabulary
    Started <- MCStarted
    Lines <- MCLines
    Submitted <- MCSubmitted
    Refinements <- MCRefinements
    MaxRows = 100
    EdgeLimit = 2
    AskLimit = 2
    PageSize = 2
    MaxLines = 1
    MaxChanges = 1
INVARIANTS
    AnsweredInOrder
    PagesMissNothing
    AnswersAreFounded
    NeighborsAreNear
CHECK_DEADLOCK FALSE
