SPECIFICATION HarnessSpec
CONSTANTS
    Tests <- MCTests
    Policies <- CleaningPolicies
    Disks <- EmptyDisk
    MaxFaults = 0
    SafeName <- MCSafeName
    ShortHash <- MCShortHash
    BodyLike = {}
    ManagerAndInstance <- MCManagerAndInstance
INVARIANTS
    TimeoutIsFailure
