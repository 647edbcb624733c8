SPECIFICATION FairSpec
CONSTANTS
    j1 = j1  j2 = j2  j3 = j3  f1 = f1
    NoTask = NoTask
    Jobs <- TwoJobs
    Fetches = {f1}
    RequestOf <- OneRequest
    Slots = 1
    SyncSlots = 1
    FaultKinds = {"crash"}
    MaxFaults = 2
CHECK_DEADLOCK FALSE
PROPERTIES JobConcludes SlotReturned KeepsItsWord
