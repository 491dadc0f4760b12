\* A dispatch of two branches whose client leaves at the announce frame.
SPECIFICATION Spec
CONSTANTS
    c1 = c1
    s1 = s1
    s2 = s2
    r1 = r1
    b1 = b1
    b2 = b2
    Client = Client
    Conv <- MCConv
    Thread <- MCConv
    Sends <- MCSends
    Runs <- MCRuns
    Batch <- MCBatch
    Request <- MCStreams
    Writer <- MCWriter
    Mixes <- BatchMix
    ClientStatus <- MCClientStatus
    MaxTurns = 8
    SendLimit = 2
    RunLimit = 2
    BatchLimit = 1
INVARIANT
    DisconnectSettlesAll
CHECK_DEADLOCK FALSE
