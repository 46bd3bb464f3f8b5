---------------------------- MODULE ConnLifecycle ----------------------------
(***************************************************************************)
(* ConnState seen from the table of connections: one entry of Server, from *)
(* putConnection on.  All that routes messages and serves streams is one   *)
(* label there, or takes no step at all.                                   *)
(***************************************************************************)
EXTENDS ConnState

Lifecycles == Deletes \cup Shutdowns \cup {Initializer, Runner}

EntryAt ==
    [a \in Lifecycles |->
        IF a = Runner /\ pc[a] \in {"scope", "register", "emit", "unregister"}
        THEN "receive" ELSE pc[a]]

(* A goroutine works on the connection once it has looked it up.           *)
EntryConn ==
    [a \in Lifecycles |->
        IF \/ a = Initializer
           \/ a \in Deletes \cup {Runner} /\ pc[a] # "idle"
           \/ a \in Shutdowns /\ pc[a] \notin {"idle", "close"}
        THEN Initializer ELSE NoRequest]

EntryLeft ==
    [a \in Lifecycles |-> IF a \in Shutdowns /\ pc[a] = "close" THEN {Initializer} ELSE {}]

Entry == INSTANCE Server WITH
    Conns    <- {Initializer},
    RunnerOf <- [c \in {Initializer} |-> Runner],
    NoConn   <- NoRequest,
    table    <- IF listed THEN {Initializer} ELSE {},
    backend  <- [c \in {Initializer} |-> IF backendOpen THEN "open" ELSE "ended"],
    closed   <- IF closed THEN {Initializer} ELSE {},
    at       <- EntryAt,
    conn     <- EntryConn,
    left     <- EntryLeft

(***************************************************************************)
(* Whatever streams, posts and the agent's messages do to a connection, it *)
(* lives and ends as Server says a connection does: what is shown there of *)
(* the whole table holds of the connections the program really has.        *)
(***************************************************************************)
LivesAsEntry == [][Entry!TableNext]_(Entry!tableVars)
=============================================================================
