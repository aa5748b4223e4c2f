CONSTANTS
    main = main
    stream = stream
    poller = poller
    StreamEvents = 2
    PollerEvents = 2
    Source = {main, stream, poller}
    Durable = {main, poller}
    MaxEvents <- MCMaxEvents
    QueueMax = 2
    BatchSize = 2
    STOP = STOP
    Main = main
    Stream = {stream}
    Poller = {poller}
    Aged <- MCAged
SPECIFICATION RecorderFairSpec
INVARIANTS
    AckMeansPersisted
    AcceptanceOrder
    StoredFirst
    StatusIsTrue
PROPERTY CaptureEnds
CHECK_DEADLOCK FALSE
