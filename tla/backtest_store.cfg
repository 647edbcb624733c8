SPECIFICATION Spec
CONSTANTS
    j1 = j1  j2 = j2  j3 = j3  f1 = f1
    NoTask = NoTask
    Jobs <- ThreeJobs
    Fetches = {}
    RequestOf <- OneRequest
    Slots = 2
    SyncSlots = 1
    FaultKinds = {"crash", "torn", "disk", "report"}
    MaxFaults = 1
CHECK_DEADLOCK FALSE
SYMMETRY Symmetric
INVARIANTS TypeOK SlotsAccounted OneVerdict CompletedIsWhole
