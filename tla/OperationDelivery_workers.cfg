SPECIFICATION FairSpec
CONSTANTS
    Ops = {o1}
    Workers = {w1, w2}
    MaxRetries = 1
    Copies = {1, 2}
    ReadCount = 1
    WorkflowStatuses = {"waiting_provider"}
    MaxFaults = 1
    RedisMayLose = FALSE
    NoMessage = NoMessage
INVARIANTS NoLostOperation QueuedIsClaimable ActiveIsRecoverable RetriesBounded
PROPERTIES TerminalIsFinal EventuallyTerminal
