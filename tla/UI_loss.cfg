SPECIFICATION FairSpec
CONSTANTS
    eth = eth
    wifi = wifi
    Adapters = {eth}
    Stored <- OneOverlay
    AtFirst <- OneList
    Lists <- OneList
    NoAdapter = NoAdapter
    None = None
    MaxTasks = 1
    MaxClicks = 0
    MaxTurns = 1
    Tolerated = {}
PROPERTIES LossIsShown
