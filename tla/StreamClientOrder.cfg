\* One scope from initialize on: two connection attempts, one lost connection,
\* a history of one event.
CONSTANTS
    Sessions = {}
    NoSession = NoSession
    Streams = {g1, g2}
    Posts = {}
    Deletes = {}
    Shutdowns = {}
    Initializer = Initializer
    Runner = Runner
    NoStream = NoStream
    NoRequest = NoRequest
    Keys <- FreshKeys
    NoKey = NoKey
    Client = Client
    KeyOf <- FreshKeyOf
    PostMethods = {}
    MaxQueued = 1
    SSEBuffer = 1
    MaxNotes = 3
    RecvBuffer = 1
    MaxLosses = 1
SPECIFICATION ClientSpec
SYMMETRY StreamSymmetry
CHECK_DEADLOCK FALSE
INVARIANTS
    ClientTypeOK
    EndToEnd
    GoneEndsClient
PROPERTIES
    OrderedLog
