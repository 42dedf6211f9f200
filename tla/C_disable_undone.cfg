SPECIFICATION Spec
CONSTANTS
    eth = eth
    gw1 = gw1
    gw2 = gw2
    Adapters = {eth}
    Gateways = {gw1}
    Direct = Direct
    None = None
    Loops = {l1, l2}
    Clients = {c1}
    Configs <- OverlayOneAuto
    Cooldown = 0
    Links = {"reachable", "silent"}
    Faults = {}
    MaxGen = 3
    MaxCrashes = 0
    Interleaved = TRUE
INVARIANTS DisableIsFinal
