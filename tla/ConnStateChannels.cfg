\* Two event streams of one scope, small channels, two ways to close, a dying agent.
CONSTANTS
    Sessions = {}
    NoSession = NoSession
    Streams = {g1, g2}
    Posts = {}
    Deletes = {d1}
    Shutdowns = {x1}
    Initializer = Initializer
    Runner = Runner
    NoStream = NoStream
    NoRequest = NoRequest
    Keys <- FreshKeys
    NoKey = NoKey
    Client = Client
    KeyOf <- FreshKeyOf
    PostMethods = {}
    MaxQueued = 2
    SSEBuffer = 1
    MaxNotes = 3
SPECIFICATION Spec
SYMMETRY StreamSymmetry
CHECK_DEADLOCK FALSE
INVARIANTS
    SafeChannels
    NoOrphanStream
    GaplessStream
    HistoryWindow
    ReplayFits
PROPERTIES
    LivesAsEntry
