SPECIFICATION CmdSpec
CONSTANTS
    Registrations <- MCRegistrations
    FlagLists <- MCFlagLists
    NumInformers = 1
    Write <- CollidingWrite
    MaxWrites = 2
    OutputResources <- MCOutputResources
    Leftovers <- NoLeftovers
    SafeName <- MCSafeName
    ShortHash <- MCShortHash
    BodyLike = {}
    MaxFaults = 0
INVARIANT
    AllMutationsAreStored
