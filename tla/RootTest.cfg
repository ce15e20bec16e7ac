SPECIFICATION HarnessSpec
CONSTANTS
    Tests <- RootTests
    Policies <- CleaningPolicies
    Disks <- EmptyDisk
    MaxFaults = 0
    SafeName <- MCSafeName
    ShortHash <- MCShortHash
    BodyLike = {}
    ManagerAndInstance <- MCManagerAndInstance
INVARIANTS
    PassingTestsSucceed
