\* Every text and pair of ids of the bounds and every input of up to five bytes; a
\* bridge of a connection that drains and one that does not; two connections, a
\* DELETE and a call of Server.Close.
CONSTANTS
    Values <- SmallValues
    Exponents <- SmallExponents
    MaxExponent = 1
    CR = CR
    LF = LF
    Other = Other
    InputLength = 5
    WriteLength = 2
    Writings = 3
    Sizes = {1, 2, 3}
    Ceilings = {0, 1, 2, 4, 5}
    MaxWrites = 4
    A = A
    B = B
    Drains = {A}
    MaxMessages = 2
    c1 = c1
    c2 = c2
    r1 = r1
    r2 = r2
    Conns = {c1, c2}
    RunnerOf <- RunnerOfConn
    Deletes = {d1}
    Shutdowns = {x1}
    NoConn = NoConn
SPECIFICATION PartsSpec
CHECK_DEADLOCK FALSE
INVARIANTS
    KeysIdentify
    RelayKeepsMessage
    AnswersFindCalls
    FramesExact
    BodiesExact
    TailIsEnd
    Forwarded
    NoneForgotten
PROPERTIES
    BridgeEnds
    EndsAreComplete
