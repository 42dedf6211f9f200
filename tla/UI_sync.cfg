SPECIFICATION FairSpec
CONSTANTS
    eth = eth
    wifi = wifi
    Adapters = {eth, wifi}
    Stored <- OneOverlay
    AtFirst <- WithoutFirst
    Lists <- SomeLists
    NoAdapter = NoAdapter
    None = None
    MaxTasks = 1
    MaxClicks = 2
    MaxTurns = 1
    Tolerated = {}
INVARIANTS TypeOK SavingIsShown CopyIsCores PageShowsCore
PROPERTIES StatusConverges RestartRepairs
