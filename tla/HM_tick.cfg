SPECIFICATION HMFairSpec
CONSTANTS
    eth = eth
    gw1 = gw1
    Adapters = {eth}
    Gateways = {gw1}
    Direct = Direct
    None = None
    Loops = {l1}
    Watched = l1
    Configs <- AllConfigs
    Cooldown = 2
    Links = {"reachable", "silent", "unplugged"}
    Faults = {"create", "delete", "netsh", "query", "refuse", "vanish"}
INVARIANTS HMInv FallbackEarned LoopAgreesWithRuntime SavedAgreesWithRuntime
PROPERTIES ReplaysSpaced RetiredLoopExits KeepsContract
