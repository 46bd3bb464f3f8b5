\* A session is opened: its stream next to the one of the connection.
CONSTANTS
    Sessions = {s1}
    NoSession = NoSession
    Streams = {g1, g2}
    Posts = {p1}
    Deletes = {}
    Shutdowns = {x1}
    Initializer = Initializer
    Runner = Runner
    NoStream = NoStream
    NoRequest = NoRequest
    Keys <- FreshKeys
    NoKey = NoKey
    Client = Client
    KeyOf <- FreshKeyOf
    PostMethods = {"new"}
    MaxQueued = 1
    SSEBuffer = 1
    MaxNotes = 1
    RecvBuffer = 1
    MaxLosses = 0
SPECIFICATION EstablishedSpec
SYMMETRY StreamSymmetry
CHECK_DEADLOCK FALSE
INVARIANTS
    SessionStreamUsable
