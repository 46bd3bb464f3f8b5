\* Progress of streams, answers and closing: a stream that replaces another, a POST
\* that reuses the id of initialize, a DELETE, a silent or dying agent.
CONSTANTS
    Sessions = {}
    NoSession = NoSession
    Streams = {g1, g2}
    Posts = {p1}
    Deletes = {d1}
    Shutdowns = {}
    Initializer = Initializer
    Runner = Runner
    NoStream = NoStream
    NoRequest = NoRequest
    Keys <- ReusedKeys
    NoKey = NoKey
    Client = Client
    KeyOf <- ReusedKeyOf
    PostMethods = {"other", "reply"}
    MaxQueued = 1
    SSEBuffer = 1
    MaxNotes = 0
SPECIFICATION FairSpec
CHECK_DEADLOCK FALSE
PROPERTIES
    WaiterReleased
    ClosedIsForgotten
    UnlinkedIsClosed
    AnswerRecorded
