SPECIFICATION CmdSpec
CONSTANTS
    Registrations <- MCRegistrations
    FlagLists <- UnknownFlagLists
    NumInformers = 1
    Write <- MCWrite
    MaxWrites = 2
    OutputResources <- MCOutputResources
    Leftovers <- NoLeftovers
    SafeName <- MCSafeName
    ShortHash <- MCShortHash
    BodyLike = {}
    MaxFaults = 0
INVARIANT
    NeverPanics
