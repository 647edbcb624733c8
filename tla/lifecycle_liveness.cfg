SPECIFICATION FairSpec
CONSTANTS
    u1 = u1  h1 = h1  h2 = h2  s1 = s1  s2 = s2  r1 = r1
    Bots <- OneBot
    Deployed <- OneBot
    Handlers = {h1}
    Starters = {s1, s2}
    Recoverers = {r1}
    Ops <- EveryOp
    FaultKinds = {"docker", "db", "process", "container", "crash"}
    MaxRequests = 1
    MaxPatches = 2
    MaxFaults = 2
PROPERTIES StartingClears Supervised ErrorSurfaced LeftoversReaped
