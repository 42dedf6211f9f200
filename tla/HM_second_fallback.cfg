SPECIFICATION HMSpec
CONSTANTS
    eth = eth
    gw1 = gw1
    Adapters = {eth}
    Gateways = {gw1}
    Direct = Direct
    None = None
    Loops = {l1}
    Watched = l1
    Configs <- ReconfigConfigs
    Cooldown = 2
    Links = {"reachable", "silent", "unplugged"}
    Faults = {}
INVARIANTS FallbackIsDirect
