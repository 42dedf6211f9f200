SPECIFICATION FairSpec
CONSTANTS
    Clients = {ui, watcher}
    Subscribers = {watcher}
    Split = {ui}
    PipeCap = 1
    ChannelCap = 1
    MaxRequests = 2
    MaxEvents = 2
    MaxStarts = 1
INVARIANTS IpcTypeOK AnswersMatch
PROPERTIES RequestsEnd LatestEventArrives StopIsHeeded
CHECK_DEADLOCK FALSE
