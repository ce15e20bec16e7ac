SPECIFICATION FairHarnessSpec
CONSTANTS
    Tests <- MCTests
    Policies <- MCPolicies
    Disks <- MCDisks
    MaxFaults = 1
    SafeName <- MCSafeName
    ShortHash <- MCShortHash
    BodyLike = {}
    ManagerAndInstance <- MCManagerAndInstance
INVARIANTS
    HarnessTypeOK
    PassIsGenuine
    OkMeansAllPassed
    ReplacedOutputIsFresh
PROPERTIES
    JudgedOutputIsKept
    HarnessEnds
