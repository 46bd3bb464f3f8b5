\* A call with a nested call back, and a call the other way, over a small pipe.
CONSTANTS
    a = a
    b = b
    prompt = prompt
    read = read
    note = note
    Sides = {a, b}
    Calls = {prompt, read, note}
    NoCall = NoCall
    Caller <- MCCaller
    Nested <- MCNested
    Buffer = 1
    Impatient = {prompt}
    Stoppable = {b}
    Closers = {a}
SPECIFICATION FairSpec
CHECK_DEADLOCK FALSE
INVARIANTS
    TypeOK
    ResponseChannelSafe
    OwnAnswer
PROPERTIES
    CallReturns
    PendingReleased
