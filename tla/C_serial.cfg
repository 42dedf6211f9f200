SPECIFICATION Spec
CONSTANTS
    eth = eth
    gw1 = gw1
    gw2 = gw2
    Adapters = {eth}
    Gateways = {gw1, gw2}
    Direct = Direct
    None = None
    Loops = {l1, l2}
    Clients = {c1}
    Configs <- OverlaysAndReconfig
    Cooldown = 0
    Links = {"reachable", "silent"}
    Faults = {}
    MaxGen = 6
    MaxCrashes = 0
    Interleaved = FALSE
SYMMETRY LoopSymmetry
INVARIANTS WatchedAsConfigured DisabledIsDirect
    DisabledIsIdle SnapshotIsOriginal
