\* The chat endpoints over their two stores: two sends, a send beside an advanced
\* run, and a dispatch of two branches, with the browser, retention and stops.
SPECIFICATION FairSpec
CONSTANTS
    c1 = c1
    s1 = s1
    s2 = s2
    r1 = r1
    b1 = b1
    b2 = b2
    Client = Client
    Conv <- MCConv
    Thread <- MCConv
    Sends <- MCSends
    Runs <- MCRuns
    Batch <- MCBatch
    Request <- MCStreams
    Writer <- MCWriter
    Mixes <- MCMixes
    ClientStatus <- MCClientStatus
    MaxTurns = 8
    SendLimit = 2
    RunLimit = 2
    BatchLimit = 1
INVARIANTS
    ChatTypeOK
    HistoryReadable
    DeletedIsFinal
    CompletedMeansDelivered
    FramesAreFresh
    SlotsTruthful
PROPERTIES
    SettlesOnce
    StartedStreamsSettle
CHECK_DEADLOCK FALSE
