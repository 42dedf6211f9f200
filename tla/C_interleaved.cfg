SPECIFICATION Spec
CONSTANTS
    eth = eth
    gw1 = gw1
    gw2 = gw2
    Adapters = {eth}
    Gateways = {gw1}
    Direct = Direct
    None = None
    Loops = {l1, l2}
    Clients = {c1}
    Configs <- BothModes
    Cooldown = 0
    Links = {"silent"}
    Faults = {"save"}
    MaxGen = 2
    MaxCrashes = 1
    Interleaved = TRUE
SYMMETRY LoopSymmetry
INVARIANTS TypeOK OneCurrentLoop NoOrphanLoop ConfigDurable
CHECK_DEADLOCK FALSE
