SPECIFICATION FairSpec
CONSTANTS
    eth = eth
    gw1 = gw1
    gw2 = gw2
    Adapters = {eth}
    Gateways = {gw1}
    Direct = Direct
    None = None
    Loops = {l1, l2}
    Clients = {c1}
    Configs <- OverlayTwoThresholds
    Cooldown = 0
    Links = {"reachable", "silent"}
    Faults = {"create"}
    MaxGen = 5
    MaxCrashes = 1
    Interleaved = FALSE
INVARIANTS EnabledIsWatched DisabledIsDirect RuntimeDurable
PROPERTIES HealthConverges OutageIsNoticed RecoveryIsTried
