------------------------------- MODULE Server -------------------------------
(***************************************************************************)
(* The connection table of src/streamhttp/server.go: how connections are   *)
(* created, closed and forgotten, each by goroutines of its own.  What a   *)
(* connection does between the two is left out; ConnState has it, and      *)
(* ConnLifecycle shows that it fits in.                                    *)
(*                                                                         *)
(* The id of a connection names the handler of the initialize POST that    *)
(* creates it as well.                                                     *)
(*                                                                         *)
(* A definition that is introduced by "fault:" is not part of the model.   *)
(***************************************************************************)
CONSTANTS
    Conns,
    RunnerOf,      \* the goroutine that runs each connection
    Deletes,       \* handlers of DELETEs
    Shutdowns,     \* calls of Server.Close
    NoConn

Runners == {RunnerOf[c] : c \in Conns}
Closers == Conns \cup Runners \cup Deletes \cup Shutdowns

ASSUME CloserAssumption ==
    /\ Conns \cap (Runners \cup Deletes \cup Shutdowns) = {}
    /\ Runners \cap (Deletes \cup Shutdowns) = {}
    /\ Deletes \cap Shutdowns = {}
    /\ \A c, e \in Conns : RunnerOf[c] = RunnerOf[e] => c = e
    /\ NoConn \notin Conns

VARIABLES
    table,         \* s.connections
    backend,       \* the agent of each connection
    closed,        \* connections whose connState is closed
    at,            \* how far each goroutine has come
    conn,          \* the connection it works on
    left           \* the connections it has taken and not closed yet

tableVars == <<table, backend, closed, at, conn, left>>

TableInit ==
    /\ table = {} /\ closed = {}
    /\ backend = [c \in Conns |-> "none"]
    /\ at = [a \in Closers |-> "idle"]
    /\ conn = [a \in Closers |-> IF a \in Conns THEN a ELSE NoConn]
    /\ left = [a \in Closers |-> {}]

MoveTo(a, label) == at' = [at EXCEPT ![a] = label]

-----------------------------------------------------------------------------
(* handleInitialize.                                                       *)

(* s.Backend starts an agent, or fails.                                    *)
StartBackend(c) ==
    /\ at[c] = "idle"
    /\ \/ MoveTo(c, "create") /\ backend' = [backend EXCEPT ![c] = "open"]
       \/ MoveTo(c, "done") /\ UNCHANGED backend
    /\ UNCHANGED <<table, closed, conn, left>>

(* fault: the handler returns without closing the backend.                 *)
CreateFailsTo == "done"

(* There is no id to be had, or the id of the request is not a valid one.  *)
CreateFails == "release"

CreateState(c) ==
    /\ at[c] = "create"
    /\ MoveTo(c, "put") \/ MoveTo(c, CreateFails)
    /\ UNCHANGED <<table, backend, closed, conn, left>>

ReleaseBackend(c) ==
    /\ at[c] = "release"
    /\ backend' = [backend EXCEPT ![c] = "ended"]
    /\ MoveTo(c, "done")
    /\ UNCHANGED <<table, closed, conn, left>>

Put(c) ==
    /\ at[c] = "put"
    /\ table' = table \cup {c}
    /\ at' = [at EXCEPT ![c] = "send", ![RunnerOf[c]] = "receive"]
    /\ conn' = [conn EXCEPT ![RunnerOf[c]] = c]
    /\ UNCHANGED <<backend, closed, left>>

(* backend.Send and waitInit, which fail when the connection is closed, the*)
(* agent has ended, or the client goes away.                               *)
SendInitialize(c) ==
    /\ at[c] = "send"
    /\ MoveTo(c, "wait") \/ MoveTo(c, "close")
    /\ UNCHANGED <<table, backend, closed, conn, left>>

AwaitInitialize(c) ==
    /\ at[c] = "wait"
    /\ MoveTo(c, "answered") \/ MoveTo(c, "close")
    /\ UNCHANGED <<table, backend, closed, conn, left>>

-----------------------------------------------------------------------------
(* run, handleDelete and Server.Close come to close a connection.          *)

(* Receive fails.                                                          *)
RunEnds(c) ==
    /\ at[RunnerOf[c]] = "receive" /\ backend[c] = "ended"
    /\ MoveTo(RunnerOf[c], "close")
    /\ UNCHANGED <<table, backend, closed, conn, left>>

LookupDelete(d, c) ==
    /\ at[d] = "idle" /\ at[c] = "answered" /\ c \in table
    /\ MoveTo(d, "close")
    /\ conn' = [conn EXCEPT ![d] = c]
    /\ UNCHANGED <<table, backend, closed, left>>

(* Server.Close takes every connection out of the table, under s.mu.       *)
TakeTable(x) ==
    /\ at[x] = "idle" /\ table # {}
    /\ left' = [left EXCEPT ![x] = table]
    /\ table' = {}
    /\ MoveTo(x, "close")
    /\ UNCHANGED <<backend, closed, conn>>

-----------------------------------------------------------------------------
(* closeWith and what follows it.                                          *)

(* What a goroutine goes on with when it has closed a connection.          *)
Afterwards(a, rest) ==
    IF rest # {} THEN "close"
    ELSE IF a \in Runners \cup Deletes THEN "unlist" ELSE "done"

(* The section under c.mu; only the first goroutine comes through it.      *)
CloseSection(a, c, rest) ==
    /\ at[a] = "close"
    /\ IF c \in closed
       THEN MoveTo(a, Afterwards(a, rest)) /\ UNCHANGED closed
       ELSE MoveTo(a, "closeBackend") /\ closed' = closed \cup {c}
    /\ UNCHANGED <<table, backend>>

CloseOne(a) ==
    /\ a \notin Shutdowns
    /\ CloseSection(a, conn[a], {})
    /\ UNCHANGED <<conn, left>>

CloseTaken(x, c) ==
    /\ c \in left[x]
    /\ CloseSection(x, c, left[x] \ {c})
    /\ conn' = [conn EXCEPT ![x] = c]
    /\ left' = [left EXCEPT ![x] = @ \ {c}]

EndBackend(a) ==
    /\ at[a] = "closeBackend"
    /\ backend' = [backend EXCEPT ![conn[a]] = "ended"]
    /\ MoveTo(a, Afterwards(a, left[a]))
    /\ UNCHANGED <<table, closed, conn, left>>

(* fault: the whole table is emptied instead of one entry.                 *)
ForgetAll(a) == {}

(* deleteConnection.                                                       *)
Forget(a) == table \ {conn[a]}

Delist(a) ==
    /\ at[a] = "unlist"
    /\ table' = Forget(a)
    /\ MoveTo(a, "done")
    /\ UNCHANGED <<backend, closed, conn, left>>

(* The agent ends by itself.                                               *)
AgentEnds(c) ==
    /\ backend[c] = "open"
    /\ backend' = [backend EXCEPT ![c] = "ended"]
    /\ UNCHANGED <<table, closed, at, conn, left>>

-----------------------------------------------------------------------------

InitializeStep(c) ==
    CreateState(c) \/ ReleaseBackend(c) \/ Put(c) \/ SendInitialize(c)

CloserStepOf(a) ==
    CloseOne(a) \/ (\E c \in Conns : CloseTaken(a, c)) \/ EndBackend(a) \/ Delist(a)

TableNext ==
    \/ \E c \in Conns :
        StartBackend(c) \/ InitializeStep(c) \/ AwaitInitialize(c) \/ RunEnds(c) \/ AgentEnds(c)
    \/ \E d \in Deletes, c \in Conns : LookupDelete(d, c)
    \/ \E x \in Shutdowns : TakeTable(x)
    \/ \E a \in Closers : CloserStepOf(a)

TableSpec == TableInit /\ [][TableNext]_tableVars

(* Every goroutine that can go on does; requests and agents are not fair.  *)
TableFairness ==
    /\ \A c \in Conns : WF_tableVars(InitializeStep(c)) /\ WF_tableVars(RunEnds(c))
    /\ \A a \in Closers : WF_tableVars(CloserStepOf(a))

-----------------------------------------------------------------------------

(* Every variable stays in its domain.                                     *)
TableTypeOK ==
    /\ table \subseteq Conns /\ closed \subseteq Conns
    /\ backend \in [Conns -> {"none", "open", "ended"}]
    /\ at \in [Closers -> {"idle", "create", "release", "put", "send", "wait", "answered",
                           "receive", "close", "closeBackend", "unlist", "done"}]
    /\ conn \in [Closers -> Conns \cup {NoConn}]
    /\ left \in [Closers -> SUBSET Conns]

(* A goroutine will close c.                                               *)
InCharge(c) ==
    \/ at[c] \in {"create", "release", "put"}
    \/ \E a \in Closers :
        \/ at[a] \in {"close", "closeBackend"} /\ conn[a] = c
        \/ at[a] \in {"close", "closeBackend"} /\ c \in left[a]

(***************************************************************************)
(* No agent is lost: one that runs belongs to a connection of the table,   *)
(* where a DELETE, the next Server.Close or its own end find it, or to a   *)
(* goroutine that is about to close it, also when Server.Close empties the *)
(* table while a connection is being created.                              *)
(***************************************************************************)
NoneForgotten ==
    \A c \in Conns : backend[c] = "open" => c \in table \/ InCharge(c)

(* The handler of initialize has failed, early or late.                    *)
Failed(c) == at[c] \in {"release", "close", "closeBackend", "done"}

(***************************************************************************)
(* A connection that has ended leaves nothing behind: once it is closed by *)
(* anyone, or initialize has failed at any point, its agent is ended and   *)
(* it leaves the table.                                                    *)
(***************************************************************************)
EndsAreComplete ==
    \A c \in Conns :
        (c \in closed \/ Failed(c)) ~> (backend[c] # "open" /\ c \notin table)
=============================================================================
