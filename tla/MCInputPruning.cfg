SPECIFICATION Spec
CONSTANTS
    Nil = Nil
    Discovery <- MCDiscovery
    Parsable <- MCParsable
    Operators <- MCOperators
    MustGathers = {"lists", "singles", "both", "dead", "damaged", "updated", "spaces", "versions"}
    Content <- MCContent
    MaxRuns = 2
    MaxFaults = 1
INVARIANTS
    TypeOK
    RequiredIsFound
    SelectedIsListed
    OnlyRequired
    RetryRepairs
    PrunedReadsBack
    FailsOnUnreadableOnly
