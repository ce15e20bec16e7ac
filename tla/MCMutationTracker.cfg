SPECIFICATION FairSpec
CONSTANTS
    Client = {c1, c2}
    Reader = {r1}
    NoOne = NoOne
    HttpRequest <- MCHttpRequest
    KnownResource <- MCKnownResource
    MaxRequests = 2
INVARIANTS
    TypeOK
    AckedIsRecorded
    ListsAreOrdered
    SnapshotSeesAcked
    LogInv
PROPERTIES
    ImplementsLog
    EveryCallReturns
