\* Progress of the client: overflow, a second attempt, Close.
CONSTANTS
    Sessions = {}
    NoSession = NoSession
    Streams = {g1, g2}
    Posts = {}
    Deletes = {d1}
    Shutdowns = {}
    Initializer = Initializer
    Runner = Runner
    NoStream = NoStream
    NoRequest = NoRequest
    Keys <- FreshKeys
    NoKey = NoKey
    Client = Client
    KeyOf <- FreshKeyOf
    PostMethods = {}
    MaxQueued = 1
    SSEBuffer = 1
    MaxNotes = 2
    RecvBuffer = 1
    MaxLosses = 0
SPECIFICATION FairEstablishedSpec
CHECK_DEADLOCK FALSE
PROPERTIES
    EventuallyReceived
    CancelledLoopsEnd
