----------------------------- MODULE ConnState -----------------------------
(***************************************************************************)
(* One connection of the streamable HTTP server: the connState of          *)
(* src/streamhttp/state.go together with the goroutines of                 *)
(* src/streamhttp/server.go that work on it.                               *)
(*                                                                         *)
(*   Initializer  the handler of the initialize POST that created it       *)
(*   Runner       the goroutine that routes what the agent sends           *)
(*   Posts        handlers of later POSTs, each with a message of its own  *)
(*   Streams      handlers of GETs, each with an event channel of its own  *)
(*   Deletes      handlers of DELETEs                                      *)
(*   Shutdowns    calls of Server.Close                                    *)
(*                                                                         *)
(* A definition that is introduced by "fault:" is not part of the model: it*)
(* is a mistake one could make in the definition after it, and shows which *)
(* property would notice.                                                  *)
(*                                                                         *)
(* A step is one section under c.mu or s.mu, or one channel operation or   *)
(* call of the backend outside the locks.  The id of a stream handler      *)
(* names its channel as well.                                              *)
(***************************************************************************)
EXTENDS EventHistory, FiniteSets

CONSTANTS
    Sessions,      \* session ids the agent gives out
    NoSession,     \* the empty session id: the connection's own scope
    Streams, Posts, Deletes, Shutdowns, Initializer, Runner,
    NoStream,      \* a nil event channel
    NoRequest,     \* what a notification of the agent answers
    Keys,          \* canonical JSON-RPC ids (jsonrpc.IDKey)
    NoKey,         \* the empty key
    KeyOf,         \* the id the client chose for each of its requests
    PostMethods,   \* the methods the client posts
    MaxQueued,     \* Server.MaxQueuedEvents
    SSEBuffer,     \* defaultSSEBuffer
    MaxNotes       \* bound: notifications the agent sends

Scopes    == Sessions \cup {NoSession}
Requests  == Posts \cup {Initializer}
Closers   == Deletes \cup Shutdowns \cup {Initializer, Runner}
Actors    == Closers \cup Streams \cup Posts

(***************************************************************************)
(* "new" and "close" stand for session/new and session/close, "other" for  *)
(* any other request, "reply" for a message that expects no answer (a      *)
(* notification, or the answer to a request of the agent), and "" for the  *)
(* method that is not there.                                               *)
(***************************************************************************)
Methods   == {"new", "close", "other", "reply"}
NoMethod  == ""

ASSUME SessionAssumption == NoSession \notin Sessions
ASSUME StreamAssumption  == NoStream \notin Streams
ASSUME RequestAssumption == NoRequest \notin Requests
ASSUME ActorAssumption ==
    /\ Initializer # Runner
    /\ {Initializer, Runner} \cap (Streams \cup Posts \cup Deletes \cup Shutdowns) = {}
    /\ Streams \cap (Posts \cup Deletes \cup Shutdowns) = {}
    /\ Posts \cap (Deletes \cup Shutdowns) = {}
    /\ Deletes \cap Shutdowns = {}
ASSUME KeyAssumption ==
    /\ KeyOf \in [Requests -> Keys]
    /\ NoKey \notin Keys
ASSUME BoundAssumption ==
    /\ PostMethods \subseteq Methods
    /\ MaxQueued \in Nat \ {0}
    /\ SSEBuffer \in Nat \ {0}
    /\ MaxNotes \in Nat

VARIABLES
    \* the agent behind backend
    toBackend,     \* requests it has received and not answered
    fromBackend,   \* what it has sent and Receive has not returned
    backendOpen,
    notes,         \* how many notifications it has sent
    \* connState, under c.mu
    nextID, queue, ch,            \* scopes: a streamScope per session id
    sessions, pendingScope, pendingMethod, initKey, initCh, closed,
    \* Server, under s.mu
    listed,        \* whether s.connections holds the connection
    \* the goroutines
    pc,
    toClose,       \* channels a goroutine has unlinked and not closed yet
    job,           \* the message Runner is routing, its scope and method
    req,           \* what each POST carries
    scope, buf, cap, last,        \* the channel of each stream handler
    \* history
    closes,        \* how often each channel was closed
    told,          \* sessions whose close a stream has reported
    retired,       \* sessions ever unregistered
    clashed        \* POSTs that had an id in common while both were in flight

backendVars == <<toBackend, fromBackend, backendOpen, notes>>
scopeVars   == <<nextID, queue, ch>>
pendingVars == <<pendingScope, pendingMethod>>
initVars    == <<initKey, initCh>>
chanVars    == <<scope, buf, cap, last>>
historyVars == <<told, retired, clashed>>
vars == <<backendVars, scopeVars, sessions, pendingVars, initVars, closed, listed,
          pc, toClose, job, req, chanVars, closes, historyVars>>

-----------------------------------------------------------------------------

(* What the agent sends: an answer to one request, or, with to = NoRequest,*)
(* a notification or a request of its own.  sid is the session id that     *)
(* SessionIDFromMessage finds in the message.                              *)
Messages == [to : Requests \cup {NoRequest}, sid : Scopes, err : BOOLEAN]

Events   == [id : Nat, msg : Messages]

Note(s)           == [to |-> NoRequest, sid |-> s, err |-> FALSE]
Answer(r, s, err) == [to |-> r, sid |-> s, err |-> err]

Post(m, s, late)  == [method |-> m, header |-> s, late |-> late]
NoPost            == Post(NoMethod, NoSession, FALSE)

Job(msg, s, m)    == [msg |-> msg, scope |-> s, method |-> m]
NoJob             == Job(Note(NoSession), NoSession, NoMethod)

(* The answer with which the agent confirms that a session is closed.      *)
ConfirmsClose(msg) ==
    /\ msg.to \in Posts
    /\ req[msg.to].method = "close"
    /\ ~msg.err

Goto(a, label) == pc' = [pc EXCEPT ![a] = label]

(* A goroutine that has unlinked channels closes them before it goes on.   *)
Free(a) == toClose[a] = {}

Init ==
    /\ toBackend = {} /\ fromBackend = <<>> /\ backendOpen = TRUE /\ notes = 0
    /\ nextID = [s \in Scopes |-> 0]
    /\ queue = [s \in Scopes |-> <<>>]
    /\ ch = [s \in Scopes |-> NoStream]
    /\ sessions = {}
    /\ pendingScope = [k \in Keys |-> NoSession]
    /\ pendingMethod = [k \in Keys |-> NoMethod]
    /\ initKey = KeyOf[Initializer] /\ initCh = <<>>
    /\ closed = FALSE /\ listed = FALSE
    /\ pc = [a \in Actors |-> IF a = Initializer THEN "put" ELSE "idle"]
    /\ toClose = [a \in Actors |-> {}]
    /\ job = NoJob
    /\ req = [p \in Posts |-> NoPost]
    /\ scope = [st \in Streams |-> NoSession]
    /\ buf = [st \in Streams |-> <<>>]
    /\ cap = [st \in Streams |-> 0]
    /\ last = [st \in Streams |-> 0]
    /\ closes = [st \in Streams |-> 0]
    /\ told = {} /\ retired = {} /\ clashed = {}

-----------------------------------------------------------------------------
(* closeWith, and the paths that lead to it.                               *)

Linked == {ch[s] : s \in Scopes} \ {NoStream}

(* fault: run ends without deleteConnection.                               *)
AfterCloseListed(a) == IF a \in Deletes THEN "unlist" ELSE "done"
(* What closeWith returns to.                                              *)
AfterClose(a) == IF a \in Deletes \cup {Runner} THEN "unlist" ELSE "done"

(* The section of closeWith under c.mu; it does nothing the second time.   *)
CloseWith(a) ==
    /\ pc[a] = "close" /\ Free(a)
    /\ IF closed
       THEN /\ Goto(a, AfterClose(a))
            /\ UNCHANGED <<closed, ch, toClose>>
       ELSE /\ closed' = TRUE
            /\ toClose' = [toClose EXCEPT ![a] = Linked]
            /\ ch' = [s \in Scopes |-> NoStream]
            /\ Goto(a, "closeBackend")
    /\ UNCHANGED <<backendVars, nextID, queue, sessions, pendingVars, initVars, listed,
                   job, req, chanVars, closes, historyVars>>

(* c.cancel() and c.backend.Close(), after the lock is released.           *)
CloseBackend(a) ==
    /\ pc[a] = "closeBackend"
    /\ backendOpen' = FALSE
    /\ Goto(a, AfterClose(a))
    /\ UNCHANGED <<toBackend, fromBackend, notes, scopeVars, sessions, pendingVars,
                   initVars, closed, listed, toClose, job, req, chanVars, closes,
                   historyVars>>

(* close() of one unlinked channel, in closeWith, emit or attachStream.    *)
CloseStream(a, st) ==
    /\ pc[a] # "closeBackend"
    /\ st \in toClose[a]
    /\ toClose' = [toClose EXCEPT ![a] = @ \ {st}]
    /\ closes' = [closes EXCEPT ![st] = @ + 1]
    /\ UNCHANGED <<backendVars, scopeVars, sessions, pendingVars, initVars, closed,
                   listed, pc, job, req, chanVars, historyVars>>

(* deleteConnection, by the DELETE handler or after run has returned.      *)
Unlist(a) ==
    /\ pc[a] = "unlist" /\ Free(a)
    /\ listed' = FALSE
    /\ Goto(a, "done")
    /\ UNCHANGED <<backendVars, scopeVars, sessions, pendingVars, initVars, closed,
                   toClose, job, req, chanVars, closes, historyVars>>

-----------------------------------------------------------------------------
(* run and routeFromBackend: the goroutine that routes the agent's         *)
(* messages to the streams.                                                *)

Receiving == pc[Runner] = "receive" /\ Free(Runner) /\ fromBackend # <<>>

IsAnswer(msg) == msg.to # NoRequest

(* fault: the message is emitted before its session is registered.         *)
AfterScopeUnregistered(msg) == "emit"

(* fault: the empty session id is registered too.                          *)
AfterScopeUnchecked(msg) == "register"

(* registerSession only when the message names a session.                  *)
AfterScope(msg) == IF msg.sid # NoSession THEN "register" ELSE "emit"

(* fault: initKey is kept, so a request with the same id gets no answer.   *)
TakeInitKept(msg) ==
    /\ initCh' = IF initCh = <<>> THEN <<msg>> ELSE initCh
    /\ UNCHANGED initKey

(* The answer to initialize is passed on without waiting, and only once.   *)
TakeInit(msg) ==
    /\ initCh' = IF initCh = <<>> THEN <<msg>> ELSE initCh
    /\ initKey' = NoKey

(* routeInit takes the answer to initialize.                               *)
RouteInit ==
    /\ Receiving /\ IsAnswer(Head(fromBackend)) /\ ~closed
    /\ KeyOf[Head(fromBackend).to] = initKey
    /\ TakeInit(Head(fromBackend))
    /\ fromBackend' = Tail(fromBackend)
    /\ UNCHANGED <<toBackend, backendOpen, notes, scopeVars, sessions, pendingVars,
                   closed, listed, pc, toClose, job, req, chanVars, closes, historyVars>>

(* routeInit drops every answer once the connection is closed.             *)
RouteClosed ==
    /\ Receiving /\ IsAnswer(Head(fromBackend)) /\ closed
    /\ fromBackend' = Tail(fromBackend)
    /\ UNCHANGED <<toBackend, backendOpen, notes, scopeVars, sessions, pendingVars,
                   initVars, closed, listed, pc, toClose, job, req, chanVars, closes,
                   historyVars>>

RouteAnswer ==
    /\ Receiving /\ IsAnswer(Head(fromBackend)) /\ ~closed
    /\ KeyOf[Head(fromBackend).to] # initKey
    /\ job' = Job(Head(fromBackend), NoSession, NoMethod)
    /\ fromBackend' = Tail(fromBackend)
    /\ Goto(Runner, "scope")
    /\ UNCHANGED <<toBackend, backendOpen, notes, scopeVars, sessions, pendingVars,
                   initVars, closed, listed, toClose, req, chanVars, closes, historyVars>>

(* A notification or a request of the agent goes to the scope it names.    *)
RouteNote ==
    /\ Receiving /\ ~IsAnswer(Head(fromBackend))
    /\ job' = Job(Head(fromBackend), Head(fromBackend).sid, NoMethod)
    /\ fromBackend' = Tail(fromBackend)
    /\ Goto(Runner, AfterScope(Head(fromBackend)))
    /\ UNCHANGED <<toBackend, backendOpen, notes, scopeVars, sessions, pendingVars,
                   initVars, closed, listed, toClose, req, chanVars, closes, historyVars>>

(* scopeFor an answer: where its request was posted, and only once.        *)
ScopeFor ==
    /\ pc[Runner] = "scope"
    /\ LET key == KeyOf[job.msg.to] IN
       /\ job' = Job(job.msg, pendingScope[key], pendingMethod[key])
       /\ pendingScope' = [pendingScope EXCEPT ![key] = NoSession]
       /\ pendingMethod' = [pendingMethod EXCEPT ![key] = NoMethod]
    /\ Goto(Runner, AfterScope(job.msg))
    /\ UNCHANGED <<backendVars, scopeVars, sessions, initVars, closed, listed, toClose,
                   req, chanVars, closes, historyVars>>

RegisterSession ==
    /\ pc[Runner] = "register"
    /\ sessions' = sessions \cup {job.msg.sid}
    /\ told' = told \ {job.msg.sid}
    /\ Goto(Runner, "emit")
    /\ UNCHANGED <<backendVars, scopeVars, pendingVars, initVars, closed, listed,
                   toClose, job, req, chanVars, closes, retired, clashed>>

AfterEmit ==
    IF job.method = "close" /\ ~job.msg.err /\ job.scope # NoSession
    THEN "unregister" ELSE "receive"

(* Whether the channel of a linked stream has no room.                     *)
Full(st) == Len(buf[st]) >= cap[st]

DeliverTo(st, ev) ==
    /\ buf' = [buf EXCEPT ![st] = Append(@, ev)]
    /\ UNCHANGED <<ch, toClose>>

NotDelivered == UNCHANGED <<ch, buf, toClose>>

(* fault: an event for which there is no room is dropped.                  *)
OverflowDropped(s) == NotDelivered

(* fault: the channel is closed and still linked.                          *)
OverflowLinked(s) ==
    /\ toClose' = [toClose EXCEPT ![Runner] = {ch[s]}]
    /\ UNCHANGED <<ch, buf>>

(* A stream that has no room is unlinked, to be closed after the lock is   *)
(* released.                                                               *)
Overflow(s) ==
    /\ toClose' = [toClose EXCEPT ![Runner] = {ch[s]}]
    /\ ch' = [ch EXCEPT ![s] = NoStream]
    /\ UNCHANGED buf

(* The event is numbered, retained and sent to the stream of its scope.    *)
Emit ==
    /\ pc[Runner] = "emit" /\ ~closed
    /\ LET s  == job.scope
           ev == [id |-> nextID[s] + 1, msg |-> job.msg]
       IN
       /\ nextID' = [nextID EXCEPT ![s] = @ + 1]
       /\ queue' = [queue EXCEPT ![s] = Trimmed(Append(@, ev), MaxQueued)]
       /\ \/ ch[s] = NoStream /\ NotDelivered
          \/ ch[s] # NoStream /\ ~Full(ch[s]) /\ DeliverTo(ch[s], ev)
          \/ ch[s] # NoStream /\ Full(ch[s]) /\ Overflow(s)
    /\ Goto(Runner, AfterEmit)
    /\ UNCHANGED <<backendVars, sessions, pendingVars, initVars, closed, listed, job,
                   req, scope, cap, last, closes, historyVars>>

EmitClosed ==
    /\ pc[Runner] = "emit" /\ closed
    /\ Goto(Runner, AfterEmit)
    /\ UNCHANGED <<backendVars, scopeVars, sessions, pendingVars, initVars, closed,
                   listed, toClose, job, req, chanVars, closes, historyVars>>

UnregisterSession ==
    /\ pc[Runner] = "unregister" /\ Free(Runner)
    /\ sessions' = sessions \ {job.scope}
    /\ retired' = retired \cup {job.scope}
    /\ Goto(Runner, "receive")
    /\ UNCHANGED <<backendVars, scopeVars, pendingVars, initVars, closed, listed,
                   toClose, job, req, chanVars, closes, told, clashed>>

(* Receive fails when the backend has ended.  A pipe may fail before it    *)
(* has handed over everything it was sent, so the queue need not be empty. *)
ReceiveFails ==
    /\ pc[Runner] = "receive" /\ Free(Runner) /\ ~backendOpen
    /\ Goto(Runner, "close")
    /\ UNCHANGED <<backendVars, scopeVars, sessions, pendingVars, initVars, closed,
                   listed, toClose, job, req, chanVars, closes, historyVars>>

RunnerStep ==
    \/ RouteInit \/ RouteClosed \/ RouteAnswer \/ RouteNote \/ ScopeFor
    \/ RegisterSession \/ Emit \/ EmitClosed \/ UnregisterSession \/ ReceiveFails

-----------------------------------------------------------------------------
(* handleInitialize, from putConnection on.                                *)

(* putConnection, and the goroutine of run is started.                     *)
PutConnection ==
    /\ pc[Initializer] = "put"
    /\ listed' = TRUE
    /\ pc' = [pc EXCEPT ![Initializer] = "send", ![Runner] = "receive"]
    /\ UNCHANGED <<backendVars, scopeVars, sessions, pendingVars, initVars, closed,
                   toClose, job, req, chanVars, closes, historyVars>>

(* backend.Send of the initialize request.  A pipe that is closed may      *)
(* still take the message: its Send chooses between two ready cases.       *)
SendInit ==
    /\ pc[Initializer] = "send"
    /\ \/ /\ backendOpen
          /\ toBackend' = toBackend \cup {Initializer}
          /\ Goto(Initializer, "wait")
       \/ /\ ~backendOpen
          /\ Goto(Initializer, "wait") \/ Goto(Initializer, "close")
          /\ UNCHANGED toBackend
    /\ UNCHANGED <<fromBackend, backendOpen, notes, scopeVars, sessions, pendingVars,
                   initVars, closed, listed, toClose, job, req, chanVars, closes,
                   historyVars>>

(* waitInit returns the answer; the response with the connection id goes   *)
(* out.                                                                    *)
WaitInitAnswer ==
    /\ pc[Initializer] = "wait" /\ initCh # <<>>
    /\ initCh' = Tail(initCh)
    /\ Goto(Initializer, "answered")
    /\ UNCHANGED <<backendVars, scopeVars, sessions, pendingVars, initKey, closed,
                   listed, toClose, job, req, chanVars, closes, historyVars>>

(* fault: closeWith forgets initCh.                                        *)
InitChOpen == FALSE

(* closeWith closes initCh in its section under c.mu.                      *)
InitChClosed == closed

(* waitInit sees that initCh is closed.                                    *)
WaitInitClosed ==
    /\ pc[Initializer] = "wait" /\ initCh = <<>> /\ InitChClosed
    /\ Goto(Initializer, "close")
    /\ UNCHANGED <<backendVars, scopeVars, sessions, pendingVars, initVars, closed,
                   listed, toClose, job, req, chanVars, closes, historyVars>>

(* The client gives the initialize request up.                             *)
InitHangup ==
    /\ pc[Initializer] \in {"send", "wait"}
    /\ Goto(Initializer, "close")
    /\ UNCHANGED <<backendVars, scopeVars, sessions, pendingVars, initVars, closed,
                   listed, toClose, job, req, chanVars, closes, historyVars>>

InitializerStep == SendInit \/ WaitInitAnswer \/ WaitInitClosed

(* The client knows the connection id once the answer to initialize is out.*)
Announced == pc[Initializer] = "answered"

-----------------------------------------------------------------------------
(* handlePost, for a connection that exists.                               *)

(* The connection is looked up; p now carries its message and header.      *)
PostLookup(p, m, s) ==
    /\ pc[p] = "idle" /\ Announced /\ listed
    /\ req' = [req EXCEPT ![p] = Post(m, s, s \in told)]
    /\ Goto(p, "check")
    /\ UNCHANGED <<backendVars, scopeVars, sessions, pendingVars, initVars, closed,
                   listed, toClose, job, chanVars, closes, historyVars>>

(* The checks of the session header s against the session id in the body   *)
(* and against hasSession.                                                 *)
Acceptable(s, body) ==
    /\ body # NoSession => s # NoSession
    /\ s # NoSession => s \in sessions
    /\ body # NoSession => s = body

PostChecked(p, body) ==
    /\ pc[p] = "check"
    /\ IF Acceptable(req[p].header, body)
       THEN Goto(p, IF req[p].method = "reply" THEN "send" ELSE "record")
       ELSE Goto(p, "refused")
    /\ UNCHANGED <<backendVars, scopeVars, sessions, pendingVars, initVars, closed,
                   listed, toClose, job, req, chanVars, closes, historyVars>>

(* A request is in flight from when its scope is recorded until scopeFor   *)
(* looks its answer up, or its POST fails.                                 *)
InFlight(p) ==
    \/ pc[p] = "send" /\ req[p].method # "reply"
    \/ p \in toBackend
    \/ \E i \in 1 .. Len(fromBackend) : fromBackend[i].to = p
    \/ pc[Runner] = "scope" /\ job.msg.to = p

(* The other requests in flight whose record p replaces.                   *)
Rivals(p) == {q \in Posts \ {p} : KeyOf[q] = KeyOf[p] /\ InFlight(q)}

(* fault: a record that is there, left over or not, is kept.               *)
RecordIfNone(p) ==
    IF pendingMethod[KeyOf[p]] = NoMethod
    THEN /\ pendingScope' = [pendingScope EXCEPT ![KeyOf[p]] = req[p].header]
         /\ pendingMethod' = [pendingMethod EXCEPT ![KeyOf[p]] = req[p].method]
    ELSE UNCHANGED pendingVars

(* sendToBackend records where the answer belongs before it sends.         *)
RecordPending(p) ==
    /\ pendingScope' = [pendingScope EXCEPT ![KeyOf[p]] = req[p].header]
    /\ pendingMethod' = [pendingMethod EXCEPT ![KeyOf[p]] = req[p].method]

PostRecord(p) ==
    /\ pc[p] = "record"
    /\ IF closed
       THEN Goto(p, "failed") /\ UNCHANGED <<pendingVars, clashed>>
       ELSE /\ Goto(p, "send") /\ RecordPending(p)
            /\ clashed' = IF Rivals(p) = {} THEN clashed
                          ELSE clashed \cup Rivals(p) \cup {p}
    /\ UNCHANGED <<backendVars, scopeVars, sessions, initVars, closed, listed, toClose,
                   job, req, chanVars, closes, told, retired>>

PostSend(p) ==
    /\ pc[p] = "send"
    /\ \/ /\ backendOpen
          /\ toBackend' = toBackend \cup (IF req[p].method = "reply" THEN {} ELSE {p})
          /\ Goto(p, "accepted")
       \/ /\ ~backendOpen
          /\ Goto(p, "accepted") \/ Goto(p, "failed")
          /\ UNCHANGED toBackend
    /\ UNCHANGED <<fromBackend, backendOpen, notes, scopeVars, sessions, pendingVars,
                   initVars, closed, listed, toClose, job, req, chanVars, closes,
                   historyVars>>

(* Send fails: the client cancels the POST, or the backend reports an error,*)
(* and a backend behind a network may have the message all the same.       *)
PostHangup(p) ==
    /\ pc[p] = "send"
    /\ Goto(p, "failed")
    /\ \/ UNCHANGED toBackend
       \/ backendOpen /\ req[p].method # "reply" /\ toBackend' = toBackend \cup {p}
    /\ UNCHANGED <<fromBackend, backendOpen, notes, scopeVars, sessions, pendingVars,
                   initVars, closed, listed, toClose, job, req, chanVars, closes,
                   historyVars>>

PostStep(p) == (\E body \in Scopes : PostChecked(p, body)) \/ PostRecord(p) \/ PostSend(p)

-----------------------------------------------------------------------------
(* handleGet: one event stream.                                            *)

GetLookup(st, s) ==
    /\ pc[st] = "idle" /\ Announced /\ listed
    /\ scope' = [scope EXCEPT ![st] = s]
    /\ Goto(st, "check")
    /\ UNCHANGED <<backendVars, scopeVars, sessions, pendingVars, initVars, closed,
                   listed, toClose, job, req, buf, cap, last, closes, historyVars>>

GetChecked(st) ==
    /\ pc[st] = "check"
    /\ Goto(st, IF scope[st] # NoSession /\ scope[st] \notin sessions
                THEN "refused" ELSE "attach")
    /\ UNCHANGED <<backendVars, scopeVars, sessions, pendingVars, initVars, closed,
                   listed, toClose, job, req, chanVars, closes, historyVars>>

(* fault: the channel does not grow with the replay.                       *)
ReplayCapFixed(replay) == SSEBuffer

(* replayCap: the default size, or the whole replay.                       *)
ReplayCap(replay) == IF Len(replay) > SSEBuffer THEN Len(replay) ELSE SSEBuffer

(* fault: the replaced channel is not closed.                              *)
ReplacedForgotten(s) == {}

(* The channel a new stream takes the place of.                            *)
Replaced(s) == {ch[s]} \ {NoStream}

(* attachStream: a new channel, filled with the replay, takes the place of *)
(* the old one, which is closed after the lock is released.                *)
GetAttach(st, after) ==
    LET s      == scope[st]
        replay == EventsAfter(queue[s], after)
    IN
    /\ pc[st] = "attach"
    /\ ~HistoryGone(queue[s], nextID[s], after)
    /\ buf' = [buf EXCEPT ![st] = replay]
    /\ cap' = [cap EXCEPT ![st] = ReplayCap(replay)]
    /\ last' = [last EXCEPT ![st] = after]
    /\ toClose' = [toClose EXCEPT ![st] = Replaced(s)]
    /\ ch' = [ch EXCEPT ![s] = st]
    /\ Goto(st, "streaming")
    /\ UNCHANGED <<backendVars, nextID, queue, sessions, pendingVars, initVars, closed,
                   listed, job, req, scope, closes, historyVars>>

(* 410 Gone.                                                               *)
GetGone(st, after) ==
    /\ pc[st] = "attach"
    /\ HistoryGone(queue[scope[st]], nextID[scope[st]], after)
    /\ Goto(st, "gone")
    /\ UNCHANGED <<backendVars, scopeVars, sessions, pendingVars, initVars, closed,
                   listed, toClose, job, req, chanVars, closes, historyVars>>

(* One event is received from the channel and written to the response.     *)
GetWrite(st) ==
    /\ pc[st] = "streaming" /\ Free(st) /\ buf[st] # <<>>
    /\ last' = [last EXCEPT ![st] = Head(buf[st]).id]
    /\ buf' = [buf EXCEPT ![st] = Tail(@)]
    /\ told' = told \cup (IF ConfirmsClose(Head(buf[st]).msg) THEN {scope[st]} \ {NoSession}
                      ELSE {})
    /\ UNCHANGED <<backendVars, scopeVars, sessions, pendingVars, initVars, closed,
                   listed, pc, toClose, job, req, scope, cap, closes, retired,
                   clashed>>

(* The channel was closed and is drained.                                  *)
GetFinish(st) ==
    /\ pc[st] = "streaming" /\ Free(st) /\ buf[st] = <<>> /\ closes[st] > 0
    /\ Goto(st, "detach")
    /\ UNCHANGED <<backendVars, scopeVars, sessions, pendingVars, initVars, closed,
                   listed, toClose, job, req, chanVars, closes, historyVars>>

(* The client goes away, or a write to it fails.                           *)
GetHangup(st) ==
    /\ pc[st] = "streaming" /\ Free(st)
    /\ Goto(st, "detach")
    /\ UNCHANGED <<backendVars, scopeVars, sessions, pendingVars, initVars, closed,
                   listed, toClose, job, req, chanVars, closes, historyVars>>

(* fault: detach unlinks whatever channel the scope has.                   *)
DetachAny(st) == [ch EXCEPT ![scope[st]] = NoStream]

(* The deferred detach unlinks only its own channel.                       *)
Detach(st) ==
    IF ch[scope[st]] = st THEN [ch EXCEPT ![scope[st]] = NoStream] ELSE ch

(* The handler ends; what is left in its channel is garbage.               *)
GetDetach(st) ==
    /\ pc[st] = "detach"
    /\ ch' = Detach(st)
    /\ buf' = [buf EXCEPT ![st] = <<>>]
    /\ Goto(st, "done")
    /\ UNCHANGED <<backendVars, nextID, queue, sessions, pendingVars, initVars, closed,
                   listed, toClose, job, req, scope, cap, last, closes, historyVars>>

GetStep(st) ==
    \/ GetChecked(st)
    \/ \E after \in 0 .. nextID[scope[st]] + 1 : GetAttach(st, after) \/ GetGone(st, after)
    \/ GetFinish(st) \/ GetDetach(st)

-----------------------------------------------------------------------------
(* handleDelete and Server.Close.                                          *)

DeleteLookup(d) ==
    /\ pc[d] = "idle" /\ Announced /\ listed
    /\ Goto(d, "close")
    /\ UNCHANGED <<backendVars, scopeVars, sessions, pendingVars, initVars, closed,
                   listed, toClose, job, req, chanVars, closes, historyVars>>

(* Server.Close takes the connection out of the table, then closes it.     *)
ShutdownTake(x) ==
    /\ pc[x] = "idle" /\ listed
    /\ listed' = FALSE
    /\ Goto(x, "close")
    /\ UNCHANGED <<backendVars, scopeVars, sessions, pendingVars, initVars, closed,
                   toClose, job, req, chanVars, closes, historyVars>>

-----------------------------------------------------------------------------
(* The agent behind the backend, which answers each request once, sends    *)
(* notifications, and may end at any time.                                 *)

Answers(r) ==
    {Answer(r, NoSession, err) : err \in BOOLEAN}
      \cup IF r \in Posts /\ req[r].method = "new"
           THEN {Answer(r, s, FALSE) : s \in Sessions} ELSE {}

AgentAnswer(r) ==
    /\ backendOpen /\ r \in toBackend
    /\ toBackend' = toBackend \ {r}
    /\ \E msg \in Answers(r) : fromBackend' = Append(fromBackend, msg)
    /\ UNCHANGED <<backendOpen, notes, scopeVars, sessions, pendingVars, initVars,
                   closed, listed, pc, toClose, job, req, chanVars, closes, historyVars>>

AgentNote(s) ==
    /\ backendOpen /\ notes < MaxNotes
    /\ notes' = notes + 1
    /\ fromBackend' = Append(fromBackend, Note(s))
    /\ UNCHANGED <<toBackend, backendOpen, scopeVars, sessions, pendingVars, initVars,
                   closed, listed, pc, toClose, job, req, chanVars, closes, historyVars>>

AgentExit ==
    /\ backendOpen
    /\ backendOpen' = FALSE
    /\ UNCHANGED <<toBackend, fromBackend, notes, scopeVars, sessions, pendingVars,
                   initVars, closed, listed, pc, toClose, job, req, chanVars, closes,
                   historyVars>>

-----------------------------------------------------------------------------
(* Steps every goroutine takes once it is started, and steps that depend   *)
(* on the client, the operator or the agent.                               *)

CloserStep(a) == CloseWith(a) \/ CloseBackend(a) \/ Unlist(a)

ServerNext ==
    \/ RunnerStep \/ PutConnection \/ InitializerStep
    \/ \E a \in Closers : CloserStep(a)
    \/ \E a \in Actors, st \in Streams : CloseStream(a, st)
    \/ \E p \in Posts : PostStep(p)
    \/ \E st \in Streams : GetStep(st)

EnvironmentNext ==
    \/ InitHangup
    \/ \E p \in Posts, m \in PostMethods, s \in Scopes : PostLookup(p, m, s)
    \/ \E p \in Posts : PostHangup(p)
    \/ \E st \in Streams, s \in Scopes : GetLookup(st, s)
    \/ \E st \in Streams : GetWrite(st) \/ GetHangup(st)
    \/ \E d \in Deletes : DeleteLookup(d)
    \/ \E x \in Shutdowns : ShutdownTake(x)
    \/ \E r \in Requests : AgentAnswer(r)
    \/ \E s \in Scopes : AgentNote(s)
    \/ AgentExit

Next == ServerNext \/ EnvironmentNext

Spec == Init /\ [][Next]_vars

(***************************************************************************)
(* Go schedules every goroutine that can run, so each goroutine of the     *)
(* server is weakly fair.  No fairness is assumed of the client or of the  *)
(* agent; a write to an event stream waits for a client that may not read, *)
(* so GetWrite is not fair either.                                         *)
(***************************************************************************)
Fairness ==
    /\ WF_vars(RunnerStep)
    /\ WF_vars(PutConnection)
    /\ WF_vars(InitializerStep)
    /\ \A a \in Closers : WF_vars(CloserStep(a))
    /\ \A a \in Actors : WF_vars(\E st \in Streams : CloseStream(a, st))
    /\ \A p \in Posts : WF_vars(PostStep(p))
    /\ \A st \in Streams : WF_vars(GetStep(st))

FairSpec == Spec /\ Fairness

-----------------------------------------------------------------------------

Labels == {"idle", "put", "send", "wait", "answered", "receive", "scope", "register",
           "emit", "unregister", "check", "record", "accepted", "refused", "failed",
           "attach", "gone", "streaming", "detach", "close", "closeBackend", "unlist",
           "done"}

(* Every variable stays in its domain.                                     *)
TypeOK ==
    /\ toBackend \subseteq Requests
    /\ fromBackend \in Seq(Messages)
    /\ backendOpen \in BOOLEAN /\ notes \in 0 .. MaxNotes
    /\ nextID \in [Scopes -> Nat]
    /\ queue \in [Scopes -> Seq(Events)]
    /\ ch \in [Scopes -> Streams \cup {NoStream}]
    /\ sessions \subseteq Sessions
    /\ pendingScope \in [Keys -> Scopes]
    /\ pendingMethod \in [Keys -> Methods \cup {NoMethod}]
    /\ initKey \in Keys \cup {NoKey}
    /\ initCh \in Seq(Messages) /\ Len(initCh) <= 1
    /\ closed \in BOOLEAN /\ listed \in BOOLEAN
    /\ pc \in [Actors -> Labels]
    /\ toClose \in [Actors -> SUBSET Streams]
    /\ job \in [msg : Messages, scope : Scopes, method : Methods \cup {NoMethod}]
    /\ req \in [Posts -> [method : Methods \cup {NoMethod}, header : Scopes, late : BOOLEAN]]
    /\ scope \in [Streams -> Scopes]
    /\ buf \in [Streams -> Seq(Events)]
    /\ cap \in [Streams -> Nat]
    /\ last \in [Streams -> Nat]
    /\ closes \in [Streams -> Nat]
    /\ told \subseteq Sessions /\ retired \subseteq Sessions /\ clashed \subseteq Posts

(***************************************************************************)
(* The hazard class the comment at state.go:13 is about: no channel is     *)
(* closed twice, sent on after it was closed, or about to be closed by two *)
(* goroutines, however emit, attachStream, detach and closeWith interleave.*)
(***************************************************************************)
SafeChannels ==
    /\ \A st \in Streams : closes[st] <= 1
    /\ \A s \in Scopes : ch[s] # NoStream => closes[ch[s]] = 0
    /\ \A a \in Actors : \A st \in toClose[a] :
         /\ closes[st] = 0
         /\ st \notin Linked
         /\ \A b \in Actors : st \in toClose[b] => a = b

(* The channel is closed, or a goroutine is about to close it.             *)
Woken(st) == closes[st] = 1 \/ \E a \in Actors : st \in toClose[a]

(***************************************************************************)
(* A handler that is streaming on an open connection is either fed by emit *)
(* or will be woken: its channel is linked, closed, or in the hands of a   *)
(* goroutine that is about to close it.  Overflow, replacement and a late  *)
(* detach of the previous handler must not lose it.                        *)
(***************************************************************************)
NoOrphanStream ==
    \A st \in Streams :
        pc[st] = "streaming" => closed \/ Woken(st) \/ ch[scope[st]] = st

(***************************************************************************)
(* What a stream delivers has no gap and no duplicate: its channel holds   *)
(* consecutive events that continue after the last one written (or after   *)
(* the Last-Event-Id it resumed from), and while it is linked nothing the  *)
(* scope has numbered is missing at the end.  A stream without a           *)
(* Last-Event-Id may start anywhere.                                       *)
(***************************************************************************)
GaplessStream ==
    \A st \in Streams : pc[st] = "streaming" =>
        /\ Resumes(buf[st], last[st])
        /\ ch[scope[st]] = st => Newest(buf[st], last[st]) = nextID[scope[st]]

(* The retained history of a scope is the newest MaxQueued events at most, *)
(* with consecutive ids: what the arithmetic of eventsAfter relies on.     *)
HistoryWindow ==
    \A s \in Scopes : Len(queue[s]) <= MaxQueued /\ Window(queue[s], nextID[s])

(* attachStream fills the new channel while it holds c.mu, so a replay     *)
(* larger than the channel would block the whole connection.               *)
ReplayFits == \A st \in Streams : Len(buf[st]) <= cap[st]

(* The request of the client that msg answers was posted in the scope s.   *)
PostedIn(msg, s) == msg.to \in Posts /\ req[msg.to].header = s

(***************************************************************************)
(* An answer of the agent reaches the scope its request was posted in,     *)
(* even when it comes before the POST has returned, when its request uses  *)
(* the id of initialize or of an earlier request again, and when one with  *)
(* that id has failed and left its record behind.  Only two requests that  *)
(* are in flight with one id are mixed up, which the server does not check;*)
(* their answers still go to a scope in which that id was used, or to the  *)
(* connection's.  The answer to initialize reaches only the waiting handler*)
(***************************************************************************)
AnswerRouting ==
    /\ \A s \in Scopes : \A i \in 1 .. Len(queue[s]) :
         LET msg == queue[s][i].msg IN
         IsAnswer(msg) =>
            /\ msg.to \in Posts
            /\ msg.to \notin clashed => PostedIn(msg, s)
            /\ s # NoSession =>
                  \E p \in Posts : KeyOf[p] = KeyOf[msg.to] /\ req[p].header = s
    /\ \A i \in 1 .. Len(initCh) : initCh[i].to = Initializer

-----------------------------------------------------------------------------

(* closeWith releases the handler that waits for the answer to initialize, *)
(* whoever closes the connection and whether or not the agent ever answers.*)
WaiterReleased == closed ~> pc[Initializer] \notin {"send", "wait"}

(* A connection that is closed leaves the server's table: closing the      *)
(* backend ends Receive, and with it the goroutine that unlists it.        *)
ClosedIsForgotten == closed ~> ~listed

(* The answer to p is among the retained events of the scope p was posted  *)
(* in, or of any scope if p had its id in common with another request.     *)
Recorded(p) ==
    \E s \in Scopes :
        /\ s = req[p].header \/ p \in clashed
        /\ \E i \in 1 .. Len(queue[s]) : queue[s][i].msg.to = p

(* An answer of the agent is not swallowed, by routeInit or by another     *)
(* request with the same id: it becomes an event of the scope its request  *)
(* was posted in, unless the connection is closed.                         *)
AnswerRecorded ==
    \A p \in Posts :
        (\E i \in 1 .. Len(fromBackend) : fromBackend[i].to = p) ~> closed \/ Recorded(p)

(* A stream that is no longer linked, because another has replaced it, is  *)
(* told: its channel is closed, so that the handler ends and the client can*)
(* reconnect.  (Until then NoOrphanStream says who is to close it, also    *)
(* after an overflow.)                                                     *)
UnlinkedIsClosed ==
    \A st \in Streams :
        (pc[st] = "streaming" /\ ~closed /\ ch[scope[st]] # st)
            ~> (closes[st] = 1 \/ pc[st] # "streaming")

-----------------------------------------------------------------------------
(* What the sources say of the program and the program does not do.        *)

(* The comment at state.go:17 says that each channel is closed exactly     *)
(* once.  Of a handler that is still streaming this would mean: its        *)
(* channel is linked in an open connection, or closed, or about to be.     *)
EachChannelClosed ==
    \A st \in Streams :
        pc[st] = "streaming" => Woken(st) \/ (ch[scope[st]] = st /\ ~closed)

(* The test at streamhttp_test.go:170 expects a POST to a session that the *)
(* client has been told is closed to fail.                                 *)
ClosedSessionRefused ==
    \A p \in Posts : req[p].late => pc[p] \notin {"record", "send", "accepted"}
=============================================================================
