SPECIFICATION Spec
CONSTANTS
    None = None
    Producers = {"ultron-triage", "ultron-ghidra", "ultron-qemu", "agent"}
    Jobs <- AdapterJobs
    Script <- AdapterScript
    Startable <- AdapterStartable
    MaxRuns = 3
    Headers <- MCHeaders
    Disassembly <- MCDisassembly
    Traces <- MCTraces
    Submissions <- MCSubmissions
    Detections <- MCDetections
    RiskyApis <- MCRiskyApis
    AutoNamed = {"FUN_60"}
    Stripped <- MCStripped
    StringLimit = 3
    SuspiciousLimit = 1
    MaxXrefs = 2
    MaxXrefEvidence = 1
    MinimumHits = 2
    MaxAddresses = 4
INVARIANTS
    EvidenceTypeOK
    FirstObservationWins
    EnginesConverge
    NothingUnbacked
    LineageRecorded
PROPERTIES
    ConfidenceNeverDrops
CHECK_DEADLOCK FALSE
