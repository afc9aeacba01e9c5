SPECIFICATION FairSpec
CONSTANTS
    Ops = {o1, o2}
    Workers = {w1}
    MaxRetries = 1
    Copies = {1, 2}
    ReadCount = 2
    WorkflowStatuses = {"waiting_provider"}
    MaxFaults = 1
    RedisMayLose = TRUE
    NoMessage = NoMessage
PROPERTY UnfinishedIsRequeued
