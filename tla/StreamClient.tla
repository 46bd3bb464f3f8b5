--------------------------- MODULE StreamClient ---------------------------
(***************************************************************************)
(* The streamable HTTP client of src/streamhttp/client.go, connected to    *)
(* the server side of ConnState by a network that may lose connections.    *)
(*                                                                         *)
(* The client's goroutines are the caller of Send(initialize), one         *)
(* streamLoop per scope, the caller of Close, and the application that     *)
(* calls Receive.  A response of the server is the GET handler it comes    *)
(* from: wire[st] is what handler st has written and the client has not    *)
(* read, cut holds the handlers whose connection is gone.                  *)
(*                                                                         *)
(* A definition that is introduced by "fault:" is not part of the model.   *)
(***************************************************************************)
EXTENDS ConnState

CONSTANTS
    RecvBuffer,    \* the capacity of Client.recv
    MaxLosses      \* bound: connections the network loses

ASSUME ClientAssumption == RecvBuffer \in Nat \ {0} /\ MaxLosses \in Nat

VARIABLES
    opening,       \* how far Send(initialize) has come
    closing,       \* how far Close has come
    cancelled,     \* scopes whose stream context Close has cancelled
    loop,          \* how far each streamLoop has come
    cur,           \* the handler of the GET each streamLoop has sent
    held,          \* the event a streamLoop is about to enqueue
    lastEventID,
    recv,
    received,      \* history: the newest event of each scope Receive returned
    asked,         \* the Last-Event-Id of each GET, or 0
    wire, cut, losses

loopVars   == <<loop, cur, held>>
netVars    == <<asked, wire, cut, losses>>
clientVars == <<opening, closing, cancelled, loopVars, lastEventID, recv, received,
                netVars>>
allVars    == <<vars, clientVars>>

-----------------------------------------------------------------------------

NoEvent == [id |-> 0, msg |-> Note(NoSession)]

(* What lies in recv: the answer to initialize has no event id.            *)
Item(s, id) == [scope |-> s, id |-> id]
InitItem    == Item(NoSession, 0)

(* c.done is closed.                                                       *)
Done == closing = "closed"

(* connID is set.                                                          *)
Connected == opening \in {"connected", "started", "open"}

ClientInit ==
    /\ Init
    /\ opening = "posted" /\ closing = "open" /\ cancelled = {}
    /\ loop = [s \in Scopes |-> "none"]
    /\ cur = [s \in Scopes |-> NoStream]
    /\ held = [s \in Scopes |-> NoEvent]
    /\ lastEventID = [s \in Scopes |-> 0]
    /\ recv = <<>>
    /\ received = [s \in Scopes |-> 0]
    /\ asked = [st \in Streams |-> 0]
    /\ wire = [st \in Streams |-> <<>>] /\ cut = {} /\ losses = 0

GotoLoop(s, label) == loop' = [loop EXCEPT ![s] = label]

(* startStream: one loop per scope, for the life of the client.            *)
Started(s) == IF loop[s] = "none" THEN "dial" ELSE loop[s]

(* fault: a full recv is waited for even when the client is closed.        *)
EnqueueBlocking(item) == Len(recv) < RecvBuffer /\ recv' = Append(recv, item)

(* fault: recv takes what it has no room for.                              *)
EnqueueUnbounded(item) == recv' = Append(recv, item)

(* enqueue: into recv when it has room, or nowhere once c.done is closed.  *)
Enqueue(item) ==
    \/ Len(recv) < RecvBuffer /\ recv' = Append(recv, item)
    \/ Done /\ UNCHANGED recv

(* The network loses one connection more.                                  *)
Lose == losses < MaxLosses /\ losses' = losses + 1

-----------------------------------------------------------------------------
(* Send(initialize), from the answer of the server on.                     *)

SetConnID ==
    /\ opening = "posted" /\ Announced
    /\ opening' = "connected"
    /\ UNCHANGED <<vars, closing, cancelled, loopVars, lastEventID, recv, received, netVars>>

StartFirstStream ==
    /\ opening = "connected"
    /\ GotoLoop(NoSession, Started(NoSession))
    /\ opening' = "started"
    /\ UNCHANGED <<vars, closing, cancelled, cur, held, lastEventID, recv, received, netVars>>

EnqueueInit ==
    /\ opening = "started"
    /\ Enqueue(InitItem)
    /\ opening' = "open"
    /\ UNCHANGED <<vars, closing, cancelled, loopVars, lastEventID, received, netVars>>

OpenStep == SetConnID \/ StartFirstStream \/ EnqueueInit

(* The server refuses, the answer is lost or not readable, or the caller   *)
(* gives up: there is no connID then, whatever the server has.  Another    *)
(* attempt would be another connection.                                    *)
OpenFails ==
    /\ opening = "posted"
    /\ opening' = "failed"
    /\ UNCHANGED <<vars, closing, cancelled, loopVars, lastEventID, recv, received, netVars>>

(* Send of a request for scope s.  Whatever the server says, the client's  *)
(* state does not change.                                                  *)
ClientPost(p, m, s) ==
    /\ Connected /\ loop[s] # "none"
    /\ PostLookup(p, m, s)
    /\ UNCHANGED clientVars

-----------------------------------------------------------------------------
(* streamLoop, runStream and readSSE.                                      *)

(* runStream sends a GET; st is the handler it gets.                       *)
Dial(s, st) ==
    /\ loop[s] = "dial" /\ s \notin cancelled
    /\ GetLookup(st, s)
    /\ cur' = [cur EXCEPT ![s] = st]
    /\ asked' = [asked EXCEPT ![st] = lastEventID[s]]
    /\ GotoLoop(s, "wait")
    /\ UNCHANGED <<opening, closing, cancelled, held, lastEventID, recv, received, wire,
                   cut, losses>>

(* The server does not know the connection any more: 404.                  *)
DialUnknown(s) ==
    /\ loop[s] = "dial" /\ s \notin cancelled /\ ~listed
    /\ GotoLoop(s, "sleep")
    /\ UNCHANGED <<vars, opening, closing, cancelled, cur, held, lastEventID, recv,
                   received, netVars>>

DialLost(s) ==
    /\ loop[s] = "dial" /\ s \notin cancelled
    /\ Lose
    /\ GotoLoop(s, "sleep")
    /\ UNCHANGED <<vars, opening, closing, cancelled, cur, held, lastEventID, recv,
                   received, asked, wire, cut>>

Accepted(s) ==
    /\ loop[s] = "wait" /\ cur[s] \notin cut
    /\ pc[cur[s]] \in {"streaming", "detach", "done"}
    /\ GotoLoop(s, "read")
    /\ UNCHANGED <<vars, opening, closing, cancelled, cur, held, lastEventID, recv,
                   received, netVars>>

(* fault: a stream whose history is gone is tried again.                   *)
AfterGoneRetry == "sleep"
AfterGone == "close"

(* 404 for the session, or 410 Gone.                                       *)
Rejected(s) ==
    /\ loop[s] = "wait" /\ cur[s] \notin cut
    /\ pc[cur[s]] \in {"refused", "gone"}
    /\ GotoLoop(s, IF pc[cur[s]] = "gone" THEN AfterGone ELSE "sleep")
    /\ cur' = [cur EXCEPT ![s] = NoStream]
    /\ UNCHANGED <<vars, opening, closing, cancelled, held, lastEventID, recv, received,
                   netVars>>

(* fault: what was read is not remembered.                                 *)
SeenForgotten(s, id) == lastEventID

(* setStreamLastEventID.                                                   *)
Seen(s, id) == [lastEventID EXCEPT ![s] = IF id > @ THEN id ELSE @]

(* handleSSEData of one event, up to enqueue.  A session that is named on  *)
(* the connection's own stream gets a stream of its own.                   *)
ReadEvent(s) ==
    /\ loop[s] = "read" /\ s \notin cancelled /\ wire[cur[s]] # <<>>
    /\ LET ev == Head(wire[cur[s]]) IN
       /\ lastEventID' = Seen(s, ev.id)
       /\ held' = [held EXCEPT ![s] = ev]
       /\ loop' = [t \in Scopes |->
                     IF t = s THEN "enqueue"
                     ELSE IF s = NoSession /\ t = ev.msg.sid THEN Started(t) ELSE loop[t]]
    /\ wire' = [wire EXCEPT ![cur[s]] = Tail(@)]
    /\ UNCHANGED <<vars, opening, closing, cancelled, cur, recv, received, asked, cut, losses>>

EnqueueEvent(s) ==
    /\ loop[s] = "enqueue"
    /\ Enqueue(Item(s, held[s].id))
    /\ held' = [held EXCEPT ![s] = NoEvent]
    /\ GotoLoop(s, "read")
    /\ UNCHANGED <<vars, opening, closing, cancelled, cur, lastEventID, received, netVars>>

(* fault: the end of a stream ends its loop.                               *)
AfterStreamEnd == "ended"
AfterStream == "sleep"

(* The response ends or breaks, before or after its status has come; its   *)
(* body is closed, which ends the request.                                 *)
StreamEnds(s) ==
    /\ \/ loop[s] \in {"wait", "read"} /\ cur[s] \in cut
       \/ loop[s] = "read" /\ wire[cur[s]] = <<>> /\ pc[cur[s]] \in {"detach", "done"}
    /\ GotoLoop(s, AfterStream)
    /\ cur' = [cur EXCEPT ![s] = NoStream]
    /\ wire' = [wire EXCEPT ![cur[s]] = <<>>]
    /\ cut' = cut \cup {cur[s]}
    /\ UNCHANGED <<vars, opening, closing, cancelled, held, lastEventID, recv, received,
                   asked, losses>>

(* The 200 ms between two attempts.                                        *)
Retry(s) ==
    /\ loop[s] = "sleep" /\ s \notin cancelled /\ ~Done
    /\ GotoLoop(s, "dial")
    /\ UNCHANGED <<vars, opening, closing, cancelled, cur, held, lastEventID, recv,
                   received, netVars>>

(* streamLoop returns: its context is cancelled, the client is closed, or  *)
(* Close, which it has called after 410, has returned.                     *)
LoopEnds(s) ==
    /\ \/ loop[s] \in {"dial", "sleep"} /\ s \in cancelled
       \/ loop[s] \in {"sleep", "close"} /\ Done
    /\ GotoLoop(s, "ended")
    /\ UNCHANGED <<vars, opening, closing, cancelled, cur, held, lastEventID, recv,
                   received, netVars>>

LoopStep(s) ==
    \/ \E st \in Streams : Dial(s, st)
    \/ DialUnknown(s) \/ Accepted(s) \/ Rejected(s) \/ ReadEvent(s)
    \/ EnqueueEvent(s) \/ StreamEnds(s) \/ Retry(s) \/ LoopEnds(s)

-----------------------------------------------------------------------------
(* Close, by the application or by a streamLoop that was told 410.         *)

Requested == {cur[s] : s \in Scopes} \ {NoStream}

(* The cancels are collected and called; a cancelled GET is reset.         *)
CloseBegins ==
    /\ closing = "open"
    /\ cancelled' = {s \in Scopes : loop[s] # "none"}
    /\ cut' = cut \cup Requested
    /\ closing' = IF Connected THEN "delete" ELSE "closed"
    /\ UNCHANGED <<vars, opening, loopVars, lastEventID, recv, received, asked, wire,
                   losses>>

GoneCloses == (\E s \in Scopes : loop[s] = "close") /\ CloseBegins

CloseSends(d) ==
    /\ closing = "delete"
    /\ DeleteLookup(d)
    /\ closing' = "deleting"
    /\ UNCHANGED <<opening, cancelled, loopVars, lastEventID, recv, received, netVars>>

(* The answer to DELETE, whatever it is, closes c.done.                    *)
CloseEnds ==
    /\ \/ closing = "delete" /\ ~listed
       \/ closing = "deleting" /\ \E d \in Deletes : pc[d] = "done"
    /\ closing' = "closed"
    /\ UNCHANGED <<vars, opening, cancelled, loopVars, lastEventID, recv, received, netVars>>

(* The DELETE is lost on its way.                                          *)
CloseLost ==
    /\ closing = "delete" /\ Lose
    /\ closing' = "closed"
    /\ UNCHANGED <<vars, opening, cancelled, loopVars, lastEventID, recv, received, asked,
                   wire, cut>>

CloseStep == GoneCloses \/ (\E d \in Deletes : CloseSends(d)) \/ CloseEnds

-----------------------------------------------------------------------------
(* Receive, by the application.                                            *)

Receive ==
    /\ recv # <<>>
    /\ recv' = Tail(recv)
    /\ received' = IF Head(recv) = InitItem THEN received
                   ELSE [received EXCEPT ![Head(recv).scope] = Head(recv).id]
    /\ UNCHANGED <<vars, opening, closing, cancelled, loopVars, lastEventID, netVars>>

-----------------------------------------------------------------------------
(* The network and the server.                                             *)

(* The connection of a GET breaks.                                         *)
NetworkCut(s) ==
    /\ cur[s] \in Streams \ cut
    /\ Lose
    /\ cut' = cut \cup {cur[s]}
    /\ UNCHANGED <<vars, opening, closing, cancelled, loopVars, lastEventID, recv,
                   received, asked, wire>>

(* The handler writes an event.  What it writes to a connection that is    *)
(* gone is lost, until it notices.                                         *)
ServerWrite(st) ==
    /\ GetWrite(st)
    /\ wire' = IF st \in cut THEN wire
               ELSE [wire EXCEPT ![st] = Append(@, Head(buf[st]))]
    /\ UNCHANGED <<opening, closing, cancelled, loopVars, lastEventID, recv, received,
                   asked, cut, losses>>

ServerHangup(st) ==
    /\ st \in cut /\ GetHangup(st)
    /\ UNCHANGED clientVars

(* A GET is attached, or refused, with the Last-Event-Id it came with.     *)
ServerAttach(st) == GetAttach(st, asked[st]) \/ GetGone(st, asked[st])

HandlerStep(st) == GetChecked(st) \/ ServerAttach(st) \/ GetFinish(st) \/ GetDetach(st)

(* What the server does whoever its client is.                             *)
ServerOwn ==
    \/ RunnerStep \/ PutConnection \/ InitializerStep
    \/ \E a \in Closers : CloserStep(a)
    \/ \E a \in Actors, st \in Streams : CloseStream(a, st)
    \/ \E p \in Posts : PostChecked(p, req[p].header) \/ PostRecord(p) \/ PostSend(p)
    \/ \E st \in Streams : HandlerStep(st)

EnvironmentOwn ==
    \/ opening = "failed" /\ InitHangup
    \/ \E p \in Posts : PostHangup(p)
    \/ \E x \in Shutdowns : ShutdownTake(x)
    \/ \E r \in Requests : AgentAnswer(r)
    \/ \E s \in Scopes : AgentNote(s)
    \/ AgentExit

ServerSide == (ServerOwn \/ EnvironmentOwn) /\ UNCHANGED clientVars

ClientNext ==
    \/ OpenStep \/ OpenFails \/ CloseStep \/ CloseBegins \/ CloseLost \/ Receive \/ ServerSide
    \/ \E s \in Scopes : LoopStep(s) \/ DialLost(s) \/ NetworkCut(s)
    \/ \E p \in Posts, m \in PostMethods, s \in Scopes : ClientPost(p, m, s)
    \/ \E st \in Streams : ServerWrite(st) \/ ServerHangup(st)

ClientSpec == ClientInit /\ [][ClientNext]_allVars

(***************************************************************************)
(* Fair: the goroutines of the server and of the client, and a network     *)
(* that delivers what it does not lose.  The application keeps calling     *)
(* Receive until it calls Close, if it does.  The agent is not fair.       *)
(***************************************************************************)
ClientFairness ==
    /\ WF_allVars(RunnerStep /\ UNCHANGED clientVars)
    /\ \A a \in Closers : WF_allVars(CloserStep(a) /\ UNCHANGED clientVars)
    /\ \A a \in Actors :
         WF_allVars((\E st \in Streams : CloseStream(a, st)) /\ UNCHANGED clientVars)
    /\ \A st \in Streams :
         /\ WF_allVars(HandlerStep(st) /\ UNCHANGED clientVars)
         /\ WF_allVars(ServerWrite(st))
    /\ WF_allVars(OpenStep)
    /\ WF_allVars(CloseStep)
    /\ WF_allVars(Receive /\ closing = "open")
    /\ \A s \in Scopes : WF_allVars(LoopStep(s))

FairClientSpec == ClientSpec /\ ClientFairness

-----------------------------------------------------------------------------

(* Every variable of the client stays in its domain.                       *)
ClientTypeOK ==
    /\ opening \in {"posted", "failed", "connected", "started", "open"}
    /\ closing \in {"open", "delete", "deleting", "closed"}
    /\ cancelled \subseteq Scopes
    /\ loop \in [Scopes -> {"none", "dial", "wait", "read", "enqueue", "sleep", "close",
                            "ended"}]
    /\ cur \in [Scopes -> Streams \cup {NoStream}]
    /\ held \in [Scopes -> Events]
    /\ lastEventID \in [Scopes -> Nat]
    /\ recv \in Seq([scope : Scopes, id : Nat]) /\ Len(recv) <= RecvBuffer
    /\ received \in [Scopes -> Nat]
    /\ wire \in [Streams -> Seq(Events)]
    /\ cut \subseteq Streams
    /\ losses \in 0 .. MaxLosses

(* The events of scope s between the channel of its handler and recv, the  *)
(* oldest first.                                                           *)
InHand(s)   == IF loop[s] = "enqueue" THEN <<held[s]>> ELSE <<>>
OnTheWay(s) ==
    IF cur[s] = NoStream \/ (loop[s] = "wait" /\ cur[s] \in cut) THEN <<>>
    ELSE wire[cur[s]] \o IF cur[s] \in cut THEN <<>> ELSE buf[cur[s]]

(* Which items of recv are events of scope s.  Item 0 stands for what the  *)
(* application has received of it.                                         *)
OfScope(s, i) == recv[i].scope = s /\ recv[i].id # 0
IDAt(s, i)    == IF i = 0 THEN received[s] ELSE recv[i].id

(* Item i is of scope s and nothing between it and item j is.              *)
LastBefore(s, i, j) ==
    /\ i = 0 \/ OfScope(s, i)
    /\ \A k \in i + 1 .. j - 1 : ~OfScope(s, k)

(* After the event prev, or none, comes the event id.                      *)
Follows(id, prev) == prev # 0 => id = prev + 1

(***************************************************************************)
(* End to end, through reconnections, overflow, replay and lost            *)
(* connections: what is in recv and on its way to it continues, for each   *)
(* scope, what the application has received, with no gap and no duplicate, *)
(* unless it closed the client.                                            *)
(***************************************************************************)
EndToEnd ==
    ~Done => \A s \in Scopes : \A i \in 0 .. Len(recv) :
        /\ \A j \in i + 1 .. Len(recv) :
             (LastBefore(s, i, j) /\ OfScope(s, j)) => Follows(recv[j].id, IDAt(s, i))
        /\ LastBefore(s, i, Len(recv) + 1) =>
             Resumes(InHand(s) \o OnTheWay(s), IDAt(s, i))

(* The transport implements the ordered log of EventLog: whatever the      *)
(* streams go through, Receive returns the messages of a scope in order.   *)
Log == INSTANCE EventLog WITH emitted <- nextID, over <- Done

OrderedLog == Log!Spec

(***************************************************************************)
(* Every event of a scope the client listens to reaches the application,   *)
(* after overflows and lost connections too, as long as neither side       *)
(* closes and there are handlers left (their number is a bound).           *)
(***************************************************************************)
EventuallyReceived ==
    \A s \in Scopes : \A n \in 1 .. MaxNotes :
        (nextID[s] >= n /\ loop[s] # "none")
            ~> \/ received[s] >= n
               \/ closed \/ closing # "open"
               \/ loop[s] = "dial" /\ \A st \in Streams : pc[st] # "idle"

(* Close ends every stream loop it has cancelled, even one that waits for  *)
(* room in recv.                                                           *)
CancelledLoopsEnd == \A s \in Scopes : (s \in cancelled) ~> loop[s] = "ended"

(***************************************************************************)
(* A client that has been told that its history is gone does not ask again *)
(* for the scope: it closes, so that Receive reports the end instead of    *)
(* waiting for events that cannot come.                                    *)
(***************************************************************************)
GoneEndsClient ==
    \A st \in Streams :
        (pc[st] = "gone" /\ st \notin cut) => loop[scope[st]] \in {"wait", "close", "ended"}

(***************************************************************************)
(* The client opens a stream of its own for a session as soon as it reads  *)
(* the session's id on the connection's stream; the server must know the   *)
(* session by then, and may refuse the stream only when it was closed.     *)
(***************************************************************************)
SessionStreamUsable ==
    \A st \in Streams : pc[st] = "refused" => scope[st] \in retired

-----------------------------------------------------------------------------
(* What the sources say of the program and the program does not do.        *)

(* README.md:113: a client that reconnects after the retained history is   *)
(* gone is answered 410.  So when a scope had a stream before, which was   *)
(* lost, and the next one is accepted, it starts with the event after the  *)
(* last one the client has seen.                                           *)
ReconnectMissesNothing ==
    \A s \in Scopes :
        (/\ loop[s] = "read"
         /\ cur[s] \notin cut
         /\ OnTheWay(s) # <<>>
         /\ \E st \in cut : scope[st] = s /\ cap[st] > 0)
          => OnTheWay(s)[1].id = lastEventID[s] + 1
=============================================================================
