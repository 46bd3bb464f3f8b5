\* A client that loses its stream before it has seen an event.
CONSTANTS
    Sessions = {}
    NoSession = NoSession
    Streams = {g1, g2}
    Posts = {}
    Deletes = {}
    Shutdowns = {}
    Initializer = Initializer
    Runner = Runner
    NoStream = NoStream
    NoRequest = NoRequest
    Keys <- FreshKeys
    NoKey = NoKey
    Client = Client
    KeyOf <- FreshKeyOf
    PostMethods = {}
    MaxQueued = 1
    SSEBuffer = 1
    MaxNotes = 2
    RecvBuffer = 1
    MaxLosses = 1
SPECIFICATION EstablishedSpec
SYMMETRY StreamSymmetry
CHECK_DEADLOCK FALSE
INVARIANTS
    ReconnectMissesNothing
