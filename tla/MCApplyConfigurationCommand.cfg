SPECIFICATION FairCmdSpec
CONSTANTS
    Registrations <- MCRegistrations
    FlagLists <- MCFlagLists
    NumInformers = 1
    Write <- MCWrite
    MaxWrites = 2
    OutputResources <- MCOutputResources
    Leftovers <- MCLeftovers
    SafeName <- MCSafeName
    ShortHash <- MCShortHash
    BodyLike = {"g-"}
    MaxFaults = 1
INVARIANTS
    CmdTypeOK
    ExitOkMeansComplete
    ResultsMeanAllIsWritten
    PartialOutputIsGenuine
    OnlyDeclaredObjects
PROPERTIES
    ImplementsProcess
    CommandEnds
