\* Requests of the client, their answers and the sessions they open and close;
\* initialize and all POSTs have one id, one after the other or at once.
CONSTANTS
    Sessions = {s1}
    NoSession = NoSession
    Streams = {}
    Posts = {p1, p2, p3}
    Deletes = {}
    Shutdowns = {}
    Initializer = Initializer
    Runner = Runner
    NoStream = NoStream
    NoRequest = NoRequest
    Keys <- OneKey
    NoKey = NoKey
    Client = Client
    KeyOf <- OneKeyOf
    PostMethods = {"new", "close"}
    MaxQueued = 3
    SSEBuffer = 1
    MaxNotes = 0
SPECIFICATION Spec
CHECK_DEADLOCK FALSE
INVARIANTS
    TypeOK
    AnswerRouting
