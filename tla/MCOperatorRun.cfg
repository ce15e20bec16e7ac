SPECIFICATION FairSpec
CONSTANTS
    Registrations <- MCRegistrations
    FlagLists <- MCFlagLists
    NumInformers = 2
    Write = {w1, w2}
    MaxWrites = 2
INVARIANTS
    TypeOK
    ReportIsComplete
    ReportTellsOutcome
    OnlyEnabledRun
    ListersAreReady
    SyncWritesAreReturned
PROPERTIES
    ReturnedIsFrozen
    RunOnceReturns
