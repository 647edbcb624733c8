SPECIFICATION Spec
CONSTANTS
    u1 = u1  h1 = h1  h2 = h2  s1 = s1  s2 = s2  r1 = r1
    Bots <- OneBot
    Deployed <- OneBot
    Handlers = {h1, h2}
    Starters = {s1, s2}
    Recoverers = {r1}
    Ops <- EveryOp
    FaultKinds = {"docker", "db", "process", "container", "volume", "crash"}
    MaxRequests = 2
    MaxPatches = 1
    MaxFaults = 1
SYMMETRY Goroutines
INVARIANTS TypeOK StartingBacked
