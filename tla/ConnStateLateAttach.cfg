\* One stream and one DELETE: a stream attached to a closed connection.
CONSTANTS
    Sessions = {}
    NoSession = NoSession
    Streams = {g1}
    Posts = {}
    Deletes = {d1}
    Shutdowns = {}
    Initializer = Initializer
    Runner = Runner
    NoStream = NoStream
    NoRequest = NoRequest
    Keys <- FreshKeys
    NoKey = NoKey
    Client = Client
    KeyOf <- FreshKeyOf
    PostMethods = {}
    MaxQueued = 2
    SSEBuffer = 1
    MaxNotes = 0
SPECIFICATION Spec
CHECK_DEADLOCK FALSE
INVARIANTS
    EachChannelClosed
