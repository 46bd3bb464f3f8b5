\* An agent that writes three lines into a connection with room for one.
CONSTANTS
    Senders = {s1}
    Waiter = Waiter
    Owner = Owner
    Closers = {Waiter, Owner}
    MsgBuffer = 1
    MaxLines = 3
SPECIFICATION FairSpec
CHECK_DEADLOCK FALSE
INVARIANTS
    TypeOK
    InOrder
    BufferedDelivered
    EOFMeansEnd
PROPERTIES
    ReceiverReleased
    ReadLoopEnds
