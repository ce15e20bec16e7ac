SPECIFICATION SampleSpec
CONSTANTS
    Registrations <- MCRegistrations
    FlagLists <- MCFlagLists
    NumInformers = 3
    Write <- MCWrite
    MaxWrites = 5
    Nil = Nil
    NotANumber = NotANumber
    Discovery <- MCDiscovery
    Parsable = {"servingCert"}
    Inputs <- MCInputs
    Content <- MCContent
INVARIANTS
    DecisionFromMustGather
    UnreadableIsNotMissing
    OutputsAreDeclared
PROPERTIES
    ImplementsOperatorRun
    SampleReturns
