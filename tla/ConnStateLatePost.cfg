\* One session, its close and a POST after the client has read the answer.
CONSTANTS
    Sessions = {s1}
    NoSession = NoSession
    Streams = {g1}
    Posts = {p1, p2}
    Deletes = {}
    Shutdowns = {}
    Initializer = Initializer
    Runner = Runner
    NoStream = NoStream
    NoRequest = NoRequest
    Keys <- FreshKeys
    NoKey = NoKey
    Client = Client
    KeyOf <- FreshKeyOf
    PostMethods = {"new", "close"}
    MaxQueued = 3
    SSEBuffer = 1
    MaxNotes = 1
SPECIFICATION Spec
CHECK_DEADLOCK FALSE
INVARIANTS
    ClosedSessionRefused
