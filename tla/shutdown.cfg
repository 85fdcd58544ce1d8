\* One process, one request, two trimmed tables; two faults.
CONSTANTS
    Requests = {r1}
    Tables <- TwoTables
    Chunk = 1
    MaxChunks = 2
    MaxRows = 2
    DrainGrace = 3
    Deadline = 4
    ReadyCache = 2
    PollEvery = 2
    MaxFaults = 2
SPECIFICATION FairSpec
INVARIANTS NoRequestRefused OutageNoticed
PROPERTIES NoRequestCutOff ShutdownEnds PromosExpire
