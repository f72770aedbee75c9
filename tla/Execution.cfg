CONSTANTS
    NoBinding = none
    d1 = d1
    d2 = d2
    python = python
    net = net
    NoAnswer = NoAnswer
    MaxRequests = 2
    Terms <- SomeTerms
    Digest <- Revisions
    Policy <- OperatorPolicy
    Supported = {python}
    Streams = {stdout}
    PipeCapacity = 1
    MaxOutput = 2
    MaxFaults = 1
    stdout = stdout
SPECIFICATION FairSpec
INVARIANTS
    ExchangeTypeOK
    OutputIsAccountedFor
    RepliesKeepUp
PROPERTIES
    ImplementsAtMostOnceCall
    RequestIsAnswered
CHECK_DEADLOCK FALSE
