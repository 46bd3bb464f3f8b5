------------------------ MODULE StreamClientProofs ------------------------
(***************************************************************************)
(* Proofs about the streamable HTTP client and its server together: the    *)
(* events of each scope reach the application in order, with no gap and no *)
(* duplicate, and a session's stream is refused only when the session was  *)
(* closed, for any number of sessions, requests, retained events, places   *)
(* in the channels and lost connections.                                   *)
(***************************************************************************)
EXTENDS StreamClient, ConnStateProofs

-----------------------------------------------------------------------------
(* What the server guarantees of the events themselves.                    *)

(* The sessions the agent has named, each registered at that moment.       *)
Known == {NoSession} \cup sessions \cup retired

(* Events that were emitted in a scope that has come to the event n, about *)
(* the sessions K.                                                         *)
Genuine(q, n, K) == \A i \in 1 .. Len(q) : q[i].id \in 1 .. n /\ q[i].msg.sid \in K

(* Labels of a handler that has no channel yet, or never will.             *)
Unattached == {"idle", "check", "attach", "refused", "gone"}
Attached   == {"streaming", "detach", "done"}

EmittedGenuine ==
    /\ \A s \in Scopes : Genuine(queue[s], nextID[s], Known)
    /\ \A st \in Streams :
         /\ Genuine(buf[st], nextID[scope[st]], Known)
         /\ pc[st] \in Unattached => buf[st] = <<>>
    /\ pc[Runner] = "emit" => job.msg.sid \in Known

ServerInv ==
    TypeInv /\ HistoryWindow /\ ChanInv /\ GaplessStream /\ EmittedGenuine

-----------------------------------------------------------------------------
(* The inductive invariant of the client.                                  *)

(* A streamLoop has a request out while it waits, reads or enqueues, and   *)
(* the handler it gets serves its scope.                                   *)
RequestsOK ==
    \A s \in Scopes :
        /\ cur[s] # NoStream <=> loop[s] \in {"wait", "read", "enqueue"}
        /\ cur[s] # NoStream => scope[cur[s]] = s /\ pc[cur[s]] # "idle"
        /\ cur[s] # NoStream /\ pc[cur[s]] \in Unattached =>
             asked[cur[s]] = lastEventID[s]

(* No Last-Event-Id is newer than the scope, and a handler that has not    *)
(* answered 200 has a client that waits for it, or has lost it, or was     *)
(* told 410 and closes.                                                    *)
HandlersOK ==
    \A st \in Streams :
        /\ pc[st] \in Unattached \cup Attached
        /\ pc[st] # "idle" => asked[st] <= nextID[scope[st]]
        /\ (st \notin cut /\ pc[st] \in {"check", "attach", "gone"}) =>
             \/ cur[scope[st]] = st /\ loop[scope[st]] = "wait"
             \/ pc[st] = "gone" /\ loop[scope[st]] \in {"close", "ended"}

(* What was written and not read continues what was read, and ends where   *)
(* the handler is; a handler that has ended has written everything, unless *)
(* its connection is gone.                                                 *)
WireOK ==
    /\ \A st \in Streams :
         /\ Genuine(wire[st], nextID[scope[st]], Known)
         /\ pc[st] \in Unattached => wire[st] = <<>>
         /\ (st \notin cut /\ pc[st] \in {"detach", "done"}) =>
              buf[st] = <<>> /\ closes[st] > 0
    /\ \A s \in Scopes : cur[s] # NoStream =>
         /\ Resumes(wire[cur[s]], lastEventID[s])
         /\ (cur[s] \notin cut /\ pc[cur[s]] = "streaming") =>
              Newest(wire[cur[s]], lastEventID[s]) = last[cur[s]]

(* The events of a scope between the application and its streamLoop are in *)
(* order, also after the client was closed, when some may be missing.      *)
BeforeHeld(s, id) == IF loop[s] = "enqueue" THEN id < lastEventID[s] ELSE id <= lastEventID[s]

Increasing ==
    /\ \A j \in 1 .. Len(recv) : recv[j].id = 0 => recv[j] = InitItem
    /\ \A s \in Scopes :
         /\ loop[s] = "enqueue" => held[s].id = lastEventID[s] /\ lastEventID[s] # 0
         /\ BeforeHeld(s, received[s])
         /\ lastEventID[s] <= nextID[s]
         /\ \A j \in 1 .. Len(recv) : OfScope(s, j) =>
              /\ received[s] < recv[j].id /\ BeforeHeld(s, recv[j].id)
              /\ \A i \in 1 .. j - 1 : OfScope(s, i) => recv[i].id < recv[j].id

(* Until then none is missing.                                             *)
Chained ==
    ~Done => \A s \in Scopes : \A i \in 0 .. Len(recv) :
        /\ \A j \in i + 1 .. Len(recv) :
             (LastBefore(s, i, j) /\ OfScope(s, j)) => Follows(recv[j].id, IDAt(s, i))
        /\ LastBefore(s, i, Len(recv) + 1) =>
             IF loop[s] = "enqueue" THEN Follows(lastEventID[s], IDAt(s, i))
             ELSE lastEventID[s] = IDAt(s, i)

(* A session the client has a stream for, or wants one for, is known.      *)
SessionsOK ==
    /\ \A s \in Scopes : loop[s] # "none" => s \in Known
    /\ \A st \in Streams :
         /\ pc[st] # "idle" => scope[st] \in Known
         /\ pc[st] = "refused" => scope[st] \in retired

ClientInv ==
    /\ ClientTypeOK /\ asked \in [Streams -> Nat]
    /\ RequestsOK /\ HandlersOK /\ WireOK /\ Increasing /\ Chained /\ SessionsOK

-----------------------------------------------------------------------------
(* The server.                                                             *)

(* Only the goroutine of run registers and unregisters sessions.           *)
LEMMA SessionSteps ==
    [Next]_vars => RegisterSession \/ UnregisterSession \/ UNCHANGED <<sessions, retired>>
PROOF
  BY DEF Next, ServerNext, EnvironmentNext, RunnerStep, InitializerStep, PostStep, GetStep,
         CloserStep, RouteInit, RouteClosed, RouteAnswer, RouteNote, ScopeFor, Emit,
         EmitClosed, ReceiveFails, PutConnection,
         SendInit, WaitInitAnswer, WaitInitClosed, InitHangup, CloseWith, CloseBackend,
         Unlist, CloseStream, PostLookup, PostChecked, PostRecord, PostSend, PostHangup,
         GetLookup, GetChecked, GetAttach, GetGone, GetWrite, GetFinish, GetHangup,
         GetDetach, DeleteLookup, ShutdownTake, AgentAnswer, AgentNote, AgentExit,
         vars, historyVars

(* A session that is known stays known.                                    *)
LEMMA KnownGrows == [Next]_vars => Known \subseteq Known'
PROOF BY SessionSteps DEF RegisterSession, UnregisterSession, Known

(* Scopes only grow.                                                       *)
LEMMA NextIDGrows ==
    ASSUME TypeInv, [Next]_vars
    PROVE  \A s \in Scopes : nextID[s] \in Nat /\ nextID'[s] \in Nat /\ nextID'[s] >= nextID[s]
PROOF
<1>1. nextID \in [Scopes -> Nat] /\ job.scope \in Scopes BY DEF TypeInv, TypeOK
<1>2. CASE Emit
  <2>1. nextID' = [nextID EXCEPT ![job.scope] = @ + 1] BY <1>2 DEF Emit
  <2> QED BY <1>1, <2>1
<1>3. CASE UNCHANGED <<nextID, queue>> BY <1>1, <1>3
<1> QED BY <1>2, <1>3, QuietHistory

(* So an event that was emitted stays one.                                 *)
LEMMA GenuineGrows ==
    ASSUME NEW q, NEW n \in Nat, NEW m \in Nat, n <= m, NEW K, NEW L, K \subseteq L,
           Genuine(q, n, K)
    PROVE  Genuine(q, m, L)
PROOF BY DEF Genuine

(* The goroutine of run emits a message only after it has registered the   *)
(* session the message names.                                              *)
LEMMA RunnerRegistersFirst ==
    ASSUME TypeInv, [Next]_vars, pc[Runner] = "emit" => job.msg.sid \in Known
    PROVE  (pc[Runner] = "emit" => job.msg.sid \in Known)'
PROOF
<1>t. pc \in [Actors -> Labels] /\ Runner \in Actors BY Distinct DEF TypeInv, TypeOK
<1>1. SUFFICES ASSUME pc'[Runner] = "emit" PROVE job'.msg.sid \in Known'
  OBVIOUS
<1>2. CASE pc[Runner] = "emit" /\ job' = job BY <1>2, KnownGrows
<1>3. CASE RegisterSession BY <1>3 DEF RegisterSession, Known
<1>4. CASE RouteNote \/ ScopeFor
  <2>1. job'.msg.sid = NoSession
    BY <1>1, <1>4, <1>t DEF RouteNote, ScopeFor, Goto, AfterScope, Job
  <2> QED BY <2>1 DEF Known
<1>5. RegisterSession \/ RouteNote \/ ScopeFor \/ (pc[Runner] = "emit" /\ job' = job)
  <2> USE <1>1, <1>t, Distinct DEF Goto
  <2>1. CASE RunnerStep
    BY <2>1 DEF RunnerStep, RouteInit, RouteClosed, RouteAnswer, Emit, EmitClosed,
       UnregisterSession, ReceiveFails, Receiving, AfterEmit
  <2>2. CASE PutConnection \/ InitializerStep \/ InitHangup
    BY <2>2 DEF InitializerStep, PutConnection, SendInit, WaitInitAnswer, WaitInitClosed,
       InitHangup
  <2>3. ASSUME NEW a \in Closers, CloserStep(a) PROVE pc[Runner] = "emit" /\ job' = job
    BY <2>3 DEF CloserStep, CloseWith, CloseBackend, Unlist, AfterClose
  <2>4. ASSUME NEW p \in Posts,
               PostStep(p) \/ PostHangup(p)
                 \/ \E m \in PostMethods, s \in Scopes : PostLookup(p, m, s)
        PROVE  pc[Runner] = "emit" /\ job' = job
    BY <2>4 DEF PostStep, PostChecked, PostRecord, PostSend, PostHangup, PostLookup
  <2>5. ASSUME NEW st \in Streams,
               \/ \E s \in Scopes : GetLookup(st, s)
               \/ GetStep(st) \/ GetWrite(st) \/ GetHangup(st)
        PROVE  pc[Runner] = "emit" /\ job' = job
    BY <2>5 DEF GetLookup, GetStep, GetChecked, GetAttach, GetGone, GetFinish, GetDetach,
                GetWrite, GetHangup
  <2>6. ASSUME NEW d \in Deletes, DeleteLookup(d) PROVE pc[Runner] = "emit" /\ job' = job
    BY <2>6 DEF DeleteLookup
  <2>7. ASSUME NEW x \in Shutdowns, ShutdownTake(x) PROVE pc[Runner] = "emit" /\ job' = job
    BY <2>7 DEF ShutdownTake
  <2>8. ASSUME \/ \E a \in Actors, st \in Streams : CloseStream(a, st)
               \/ \E r \in Requests : AgentAnswer(r)
               \/ \E s \in Scopes : AgentNote(s)
               \/ AgentExit \/ UNCHANGED vars
        PROVE  pc[Runner] = "emit" /\ job' = job
    BY <2>8 DEF CloseStream, AgentAnswer, AgentNote, AgentExit, vars
  <2> QED
    BY <2>1, <2>2, <2>3, <2>4, <2>5, <2>6, <2>7, <2>8, Zenon
    DEF Next, ServerNext, EnvironmentNext
<1> QED BY <1>2, <1>3, <1>4, <1>5

(* What is left of a sequence without its head.                            *)
LEMMA TailRest ==
    ASSUME NEW S, NEW q \in Seq(S), q # <<>>
    PROVE  /\ Len(q) \in Nat \ {0} /\ Head(q) = q[1] /\ Head(q) \in S
           /\ Tail(q) \in Seq(S) /\ Len(Tail(q)) = Len(q) - 1
           /\ \A i \in 1 .. Len(q) - 1 : Tail(q)[i] = q[i + 1]
PROOF OBVIOUS

(* Sequences of emitted events, as emit, the handler and the client use    *)
(* them.                                                                   *)
LEMMA GenuineAppend ==
    ASSUME NEW q \in Seq(Events), NEW n, NEW K, NEW ev \in Events,
           Genuine(q, n, K), ev.id \in 1 .. n, ev.msg.sid \in K
    PROVE  Genuine(Append(q, ev), n, K)
PROOF
<1>1. /\ Len(Append(q, ev)) = Len(q) + 1
      /\ \A i \in 1 .. Len(q) : Append(q, ev)[i] = q[i]
      /\ Append(q, ev)[Len(q) + 1] = ev
  OBVIOUS
<1> QED BY <1>1 DEF Genuine

(* A streamLoop or a handler takes the first.                              *)
LEMMA GenuineTail ==
    ASSUME NEW q \in Seq(Events), NEW n, NEW K, Genuine(q, n, K), q # <<>>
    PROVE  /\ Genuine(Tail(q), n, K)
           /\ Head(q).id \in 1 .. n /\ Head(q).msg.sid \in K
PROOF BY TailRest DEF Genuine

(* The newest of them.                                                     *)
LEMMA GenuineSubSeq ==
    ASSUME NEW q \in Seq(Events), NEW n, NEW K, Genuine(q, n, K), NEW a \in 1 .. Len(q) + 1
    PROVE  Genuine(SubSeq(q, a, Len(q)), n, K)
PROOF
<1> DEFINE r == SubSeq(q, a, Len(q))
<1>1. /\ Len(q) \in Nat /\ a \in Nat \ {0}
      /\ Len(r) = Len(q) + 1 - a
      /\ \A i \in 1 .. Len(r) : r[i] = q[a + i - 1] /\ a + i - 1 \in 1 .. Len(q)
  OBVIOUS
<1> QED BY <1>1 DEF Genuine

(* What emit retains.                                                      *)
LEMMA GenuineTrimmed ==
    ASSUME NEW q \in Seq(Events), NEW n, NEW K, Genuine(q, n, K), NEW max \in Nat \ {0}
    PROVE  Genuine(Trimmed(q, max), n, K)
PROOF
<1>1. CASE Len(q) > max
  <2>1. Len(q) - max + 1 \in 1 .. Len(q) + 1 BY <1>1
  <2> QED BY <1>1, <2>1, GenuineSubSeq DEF Trimmed
<1>2. CASE ~(Len(q) > max) BY <1>2 DEF Trimmed
<1> QED BY <1>1, <1>2

(* What attachStream replays.                                              *)
LEMMA GenuineReplay ==
    ASSUME NEW q \in Seq(Events), NEW n \in Nat, NEW K, Genuine(q, n, K), Window(q, n),
           NEW after \in Nat, ~HistoryGone(q, n, after)
    PROVE  Genuine(EventsAfter(q, after), n, K)
PROOF
<1>1. CASE after = 0 BY <1>1 DEF EventsAfter
<1>2. CASE after # 0
  <2>1. Skipped(q, after) \in 0 .. Len(q) BY <1>2, SkippedExact
  <2>2. Len(q) \in Nat OBVIOUS
  <2>3. Skipped(q, after) + 1 \in 1 .. Len(q) + 1 BY <2>1, <2>2
  <2> QED BY <1>2, <2>3, GenuineSubSeq DEF EventsAfter
<1> QED BY <1>1, <1>2

(* At the start nothing has been emitted.                                  *)
LEMMA EmittedInit == Init => EmittedGenuine
PROOF BY Distinct DEF Init, EmittedGenuine, Genuine

(* What a step of the server other than these three does not touch: an     *)
(* event is emitted, replayed or taken out of a channel.                   *)
LEMMA BufferSteps ==
    ASSUME TypeInv, [Next]_vars
    PROVE  \/ Emit
           \/ \E st \in Streams : \/ \E after \in Nat : GetAttach(st, after)
                                  \/ GetWrite(st) \/ GetDetach(st)
                                  \/ \E s \in Scopes : GetLookup(st, s)
           \/ /\ UNCHANGED <<nextID, queue, buf, scope>>
              /\ \A st \in Streams : pc'[st] \in Unattached => pc[st] \in Unattached
PROOF
<1>t. pc \in [Actors -> Labels] BY DEF TypeInv, TypeOK
<1> USE <1>t, Distinct DEF Goto, Unattached, scopeVars, chanVars
<1>1. CASE StreamsQuiet BY <1>1 DEF StreamsQuiet
<1>2. ASSUME NEW a \in Closers, CloseWith(a)
      PROVE  /\ UNCHANGED <<nextID, queue, buf, scope>>
             /\ \A st \in Streams : pc'[st] \in Unattached => pc[st] \in Unattached
  BY <1>2 DEF CloseWith, AfterClose
<1>3. ASSUME NEW a \in Actors, NEW st \in Streams, CloseStream(a, st)
      PROVE  /\ UNCHANGED <<nextID, queue, buf, scope>>
             /\ \A x \in Streams : pc'[x] \in Unattached => pc[x] \in Unattached
  BY <1>3 DEF CloseStream
<1>4. ASSUME NEW st \in Streams,
             \/ GetChecked(st) \/ (\E after \in Nat : GetGone(st, after))
             \/ GetFinish(st) \/ GetHangup(st)
      PROVE  /\ UNCHANGED <<nextID, queue, buf, scope>>
             /\ \A x \in Streams : pc'[x] \in Unattached => pc[x] \in Unattached
  BY <1>4 DEF GetChecked, GetGone, GetFinish, GetHangup
<1> QED BY <1>1, <1>2, <1>3, <1>4, StreamCases, Zenon DEF StreamStep

(* Only a handler with a channel has events in it, and they were emitted   *)
(* in its scope.                                                           *)
LEMMA EmittedNext ==
    ASSUME TypeInv, HistoryWindow, ChanInv, EmittedGenuine, [Next]_vars
    PROVE  EmittedGenuine'
PROOF
<1>t. /\ pc \in [Actors -> Labels] /\ scope \in [Streams -> Scopes]
      /\ nextID \in [Scopes -> Nat] /\ queue \in [Scopes -> Seq(Events)]
      /\ buf \in [Streams -> Seq(Events)] /\ ch \in [Scopes -> Streams \cup {NoStream}]
      /\ job.scope \in Scopes /\ job.msg \in Messages
  BY DEF TypeInv, TypeOK
<1>e. /\ \A s \in Scopes : Genuine(queue[s], nextID[s], Known)
      /\ \A st \in Streams : Genuine(buf[st], nextID[scope[st]], Known)
      /\ \A st \in Streams : pc[st] \in Unattached => buf[st] = <<>>
  BY DEF EmittedGenuine
<1>k. Known \subseteq Known' BY KnownGrows
<1>n. \A s \in Scopes : nextID[s] \in Nat /\ nextID'[s] \in Nat /\ nextID'[s] >= nextID[s]
  BY NextIDGrows
(* What is there now stays genuine.                                        *)
<1>q. \A s \in Scopes : Genuine(queue[s], nextID'[s], Known')
  BY <1>e, <1>k, <1>n, GenuineGrows
<1>b. \A st \in Streams : Genuine(buf[st], nextID'[scope[st]], Known')
  BY <1>t, <1>e, <1>k, <1>n, GenuineGrows
<1> DEFINE Queues == \A s \in Scopes : Genuine(queue'[s], nextID'[s], Known')
           Buffers == \A st \in Streams :
               /\ Genuine(buf'[st], nextID'[scope'[st]], Known')
               /\ pc'[st] \in Unattached => buf'[st] = <<>>
<1>r. job'.msg.sid \in Known' \/ pc'[Runner] # "emit"
  BY RunnerRegistersFirst DEF EmittedGenuine
<1>1. CASE Emit
  <2> DEFINE s == job.scope
             ev == [id |-> nextID[s] + 1, msg |-> job.msg]
  <2>1. /\ nextID' = [nextID EXCEPT ![s] = @ + 1]
        /\ queue' = [queue EXCEPT ![s] = Trimmed(Append(@, ev), MaxQueued)]
        /\ scope' = scope /\ job.msg.sid \in Known
    BY <1>1 DEF Emit, EmittedGenuine
  <2>2. ev \in Events /\ ev.id \in 1 .. nextID'[s] /\ ev.msg.sid \in Known'
    BY <1>t, <1>k, <2>1 DEF Events
  <2>p. \A st \in Streams : pc'[st] = pc[st] BY <1>1, <1>t, Distinct DEF Emit, Goto
  <2>3. \/ buf' = buf
        \/ /\ ch[s] # NoStream /\ buf' = [buf EXCEPT ![ch[s]] = Append(@, ev)]
    BY <1>1 DEF Emit, NotDelivered, DeliverTo, Overflow
  <2> HIDE DEF ev
  <2>4. Genuine(Append(queue[s], ev), nextID'[s], Known') /\ Append(queue[s], ev) \in Seq(Events)
    BY <1>t, <1>q, <2>2, GenuineAppend
  <2>5. Genuine(Trimmed(Append(queue[s], ev), MaxQueued), nextID'[s], Known')
    BY <2>4, GenuineTrimmed, BoundAssumption
  <2>6. Queues BY <1>t, <1>q, <2>1, <2>5
  <2>7. CASE buf' = buf BY <1>b, <1>e, <2>1, <2>p, <2>6, <2>7, <1>r DEF EmittedGenuine
  <2>8. CASE ch[s] # NoStream /\ buf' = [buf EXCEPT ![ch[s]] = Append(@, ev)]
    <3>1. PICK x \in Streams : x = ch[s] BY <1>t, <2>8
    <3>2. scope[x] = s /\ pc[x] \notin Unattached
      BY <1>t, <2>8, <3>1 DEF ChanInv, LinkedChannels, Unattached
    <3>3. Genuine(buf[x], nextID'[s], Known') BY <1>b, <3>2
    <3>4. Genuine(Append(buf[x], ev), nextID'[s], Known')
      BY <1>t, <2>2, <3>3, GenuineAppend
    <3>5. Buffers BY <1>t, <1>b, <1>e, <2>1, <2>p, <2>8, <3>1, <3>2, <3>4
    <3> QED BY <1>r, <2>6, <3>5 DEF EmittedGenuine
  <2> QED BY <2>3, <2>7, <2>8
<1>2. ASSUME NEW st \in Streams, NEW after \in Nat, GetAttach(st, after) PROVE EmittedGenuine'
  <2> DEFINE s == scope[st]
             replay == EventsAfter(queue[s], after)
  <2>1. /\ ~HistoryGone(queue[s], nextID[s], after)
        /\ buf' = [buf EXCEPT ![st] = replay]
        /\ pc' = [pc EXCEPT ![st] = "streaming"]
        /\ UNCHANGED <<nextID, queue, scope>>
    BY <1>2 DEF GetAttach, Goto
  <2>2. Window(queue[s], nextID[s]) BY <1>t DEF HistoryWindow
  <2>3. Genuine(replay, nextID[s], Known)
    BY <1>t, <1>e, <2>1, <2>2, GenuineReplay
  <2> HIDE DEF replay
  <2>4. Genuine(replay, nextID'[s], Known')
    BY <1>t, <1>k, <1>n, <2>3, GenuineGrows
  <2>5. Buffers BY <1>t, <1>b, <1>e, <2>1, <2>4, Distinct DEF Unattached
  <2> QED BY <1>q, <1>r, <2>1, <2>5 DEF EmittedGenuine
<1>3. ASSUME NEW st \in Streams, GetWrite(st) PROVE EmittedGenuine'
  <2>1. /\ pc[st] = "streaming" /\ buf[st] # <<>> /\ buf' = [buf EXCEPT ![st] = Tail(@)]
        /\ UNCHANGED <<nextID, queue, scope, pc>>
    BY <1>3 DEF GetWrite, scopeVars
  <2>2. Genuine(Tail(buf[st]), nextID'[scope[st]], Known')
    BY <1>t, <1>b, <2>1, GenuineTail
  <2>3. Buffers BY <1>t, <1>b, <1>e, <2>1, <2>2 DEF Unattached
  <2> QED BY <1>q, <1>r, <2>1, <2>3 DEF EmittedGenuine
<1>4. ASSUME NEW st \in Streams, GetDetach(st) PROVE EmittedGenuine'
  <2>1. /\ buf' = [buf EXCEPT ![st] = <<>>] /\ pc' = [pc EXCEPT ![st] = "done"]
        /\ UNCHANGED <<nextID, queue, scope>>
    BY <1>4 DEF GetDetach, Goto
  <2>2. Genuine(<<>>, nextID'[scope[st]], Known') BY DEF Genuine
  <2>3. Buffers BY <1>t, <1>b, <1>e, <2>1, <2>2, Distinct DEF Unattached
  <2> QED BY <1>q, <1>r, <2>1, <2>3 DEF EmittedGenuine
<1>5. ASSUME NEW st \in Streams, NEW s \in Scopes, GetLookup(st, s) PROVE EmittedGenuine'
  <2>1. /\ pc[st] = "idle" /\ scope' = [scope EXCEPT ![st] = s]
        /\ pc' = [pc EXCEPT ![st] = "check"] /\ UNCHANGED <<nextID, queue, buf>>
    BY <1>5 DEF GetLookup, Goto, scopeVars
  <2>2. buf[st] = <<>> BY <1>e, <2>1 DEF Unattached
  <2>3. Genuine(<<>>, nextID'[s], Known') BY DEF Genuine
  <2>4. Buffers BY <1>t, <1>b, <1>e, <2>1, <2>2, <2>3, Distinct DEF Unattached
  <2> QED BY <1>q, <1>r, <2>1, <2>4 DEF EmittedGenuine
<1>6. ASSUME UNCHANGED <<nextID, queue, buf, scope>>,
             \A st \in Streams : pc'[st] \in Unattached => pc[st] \in Unattached
      PROVE  EmittedGenuine'
  BY <1>q, <1>b, <1>e, <1>r, <1>6 DEF EmittedGenuine
<1> QED BY <1>1, <1>2, <1>3, <1>4, <1>5, <1>6, BufferSteps

(* The invariant of the server, as one.                                    *)
LEMMA ServerInit == Init => ServerInv
PROOF BY TypeInit, WindowInit, ChanInit, GaplessInit, EmittedInit DEF ServerInv

(* Every step of the server keeps it.                                      *)
LEMMA ServerNextInv ==
    ASSUME ServerInv, [Next]_vars
    PROVE  ServerInv'
PROOF BY TypeNext, WindowNext, ChanNext, GaplessNext, EmittedNext DEF ServerInv

-----------------------------------------------------------------------------
(* The steps of the client and the network, seen from the server.          *)

(* Steps of the server that no event stream notices.                       *)
ServerQuiet ==
    /\ UNCHANGED <<nextID, queue, scope, buf, last>>
    /\ \A st \in Streams : pc'[st] = pc[st] /\ (closes[st] > 0 => closes'[st] > 0)

(* Steps of the client that the server does not notice, or only a handler  *)
(* of DELETE.                                                              *)
ClientOnly ==
    \/ SetConnID \/ StartFirstStream \/ EnqueueInit \/ OpenFails
    \/ CloseBegins \/ (\E d \in Deletes : CloseSends(d)) \/ CloseEnds \/ CloseLost \/ Receive
    \/ \E s \in Scopes :
         \/ DialUnknown(s) \/ DialLost(s) \/ Accepted(s) \/ Rejected(s) \/ ReadEvent(s)
         \/ EnqueueEvent(s) \/ StreamEnds(s) \/ Retry(s) \/ LoopEnds(s) \/ NetworkCut(s)

(* Steps of one handler.                                                   *)
HandlerSteps(st) == GetChecked(st) \/ ServerAttach(st) \/ GetFinish(st) \/ GetDetach(st)

(* A step of the client changes nothing of the server, or sends a DELETE.  *)
LEMMA ClientOnlyQuiet ==
    ASSUME TypeInv, ClientOnly
    PROVE  [Next]_vars /\ ServerQuiet
PROOF
<1>t. pc \in [Actors -> Labels] BY DEF TypeInv, TypeOK
<1>1. UNCHANGED vars => ServerQuiet BY DEF vars, scopeVars, chanVars, ServerQuiet
<1>2. ASSUME NEW d \in Deletes, CloseSends(d) PROVE [Next]_vars /\ ServerQuiet
  <2>1. DeleteLookup(d) BY <1>2 DEF CloseSends
  <2>2. ServerQuiet
    BY <1>t, <2>1, Distinct DEF DeleteLookup, Goto, ServerQuiet, scopeVars, chanVars
  <2> QED BY <2>1, <2>2 DEF Next, EnvironmentNext
<1>3. ASSUME NEW s \in Scopes,
             \/ DialUnknown(s) \/ DialLost(s) \/ Accepted(s) \/ Rejected(s) \/ ReadEvent(s)
             \/ EnqueueEvent(s) \/ StreamEnds(s) \/ Retry(s) \/ LoopEnds(s) \/ NetworkCut(s)
      PROVE  UNCHANGED vars
  BY <1>3 DEF DialUnknown, DialLost, Accepted, Rejected, ReadEvent, EnqueueEvent, StreamEnds,
              Retry, LoopEnds, NetworkCut
<1>4. ASSUME SetConnID \/ StartFirstStream \/ EnqueueInit \/ OpenFails \/ CloseBegins
               \/ CloseEnds \/ CloseLost \/ Receive
      PROVE  UNCHANGED vars
  BY <1>4 DEF SetConnID, StartFirstStream, EnqueueInit, OpenFails, CloseBegins, CloseEnds,
              CloseLost, Receive
<1> QED BY <1>1, <1>2, <1>3, <1>4 DEF ClientOnly

(* Steps of the server that do not change the state of the client.         *)
LEMMA ServerSideCases ==
    ASSUME TypeInv, HandlersOK, asked \in [Streams -> Nat], ServerSide
    PROVE  /\ [Next]_vars /\ UNCHANGED clientVars
           /\ Emit \/ ServerQuiet \/ \E st \in Streams : HandlerSteps(st)
PROOF
<1>t. /\ pc \in [Actors -> Labels] /\ scope \in [Streams -> Scopes]
      /\ nextID \in [Scopes -> Nat]
      /\ req \in [Posts -> [method : Methods \cup {NoMethod}, header : Scopes, late : BOOLEAN]]
  BY DEF TypeInv, TypeOK
<1>c. UNCHANGED clientVars /\ (ServerOwn \/ EnvironmentOwn) BY DEF ServerSide
<1> DEFINE Fine == [Next]_vars /\ (Emit \/ ServerQuiet \/ \E st \in Streams : HandlerSteps(st))
<1> USE <1>t, Distinct DEF ServerQuiet, Goto, scopeVars, chanVars
<1>1. ASSUME RunnerStep PROVE Fine
  <2>1. Next BY <1>1 DEF Next, ServerNext
  <2>2. Emit \/ ServerQuiet
    BY <1>1 DEF RunnerStep, RouteInit, RouteClosed, RouteAnswer, RouteNote, ScopeFor,
       RegisterSession, EmitClosed, UnregisterSession, ReceiveFails, Receiving, AfterEmit
  <2> QED BY <2>1, <2>2
<1>2. ASSUME PutConnection \/ InitializerStep \/ InitHangup PROVE Fine
  <2>1. Next BY <1>2 DEF Next, ServerNext, EnvironmentNext
  <2>2. ServerQuiet
    BY <1>2 DEF InitializerStep, PutConnection, SendInit, WaitInitAnswer, WaitInitClosed,
       InitHangup
  <2> QED BY <2>1, <2>2
<1>3. ASSUME NEW a \in Closers, CloserStep(a) PROVE Fine
  <2>1. Next BY <1>3 DEF Next, ServerNext
  <2>2. ServerQuiet BY <1>3 DEF CloserStep, CloseWith, CloseBackend, Unlist, AfterClose
  <2> QED BY <2>1, <2>2
<1>4. ASSUME NEW a \in Actors, NEW st \in Streams, CloseStream(a, st) PROVE Fine
  <2>1. Next BY <1>4 DEF Next, ServerNext
  <2>2. \A x \in Streams : closes[x] > 0 => closes'[x] > 0
    <3>1. closes' = [closes EXCEPT ![st] = @ + 1] /\ closes \in [Streams -> Nat]
      BY <1>4 DEF CloseStream, TypeInv, TypeOK
    <3>2. \A x \in Streams : closes[x] \in Nat /\ closes'[x] \in {closes[x], closes[x] + 1}
      BY <3>1
    <3> QED BY <3>2
  <2>3. ServerQuiet BY <1>4, <2>2 DEF CloseStream
  <2> QED BY <2>1, <2>3
<1>5. ASSUME NEW p \in Posts,
             PostChecked(p, req[p].header) \/ PostRecord(p) \/ PostSend(p) \/ PostHangup(p)
      PROVE  Fine
  <2>1. req[p].header \in Scopes OBVIOUS
  <2>2. Next BY <1>5, <2>1 DEF Next, ServerNext, EnvironmentNext, PostStep
  <2>3. ServerQuiet BY <1>5 DEF PostChecked, PostRecord, PostSend, PostHangup
  <2> QED BY <2>2, <2>3
<1>6. ASSUME NEW st \in Streams, HandlerStep(st) PROVE Fine
  <2>1. HandlerSteps(st) BY <1>6 DEF HandlerStep, HandlerSteps
  <2>2. pc[st] = "attach" => asked[st] \in 0 .. nextID[scope[st]] + 1
    BY DEF HandlersOK
  <2>3. ServerAttach(st) => pc[st] = "attach" BY DEF ServerAttach, GetAttach, GetGone
  <2>4. GetStep(st) BY <2>1, <2>2, <2>3 DEF HandlerSteps, ServerAttach, GetStep
  <2> QED BY <2>1, <2>4 DEF Next, ServerNext
<1>7. ASSUME NEW x \in Shutdowns, ShutdownTake(x) PROVE Fine
  <2>1. Next BY <1>7 DEF Next, EnvironmentNext
  <2>2. ServerQuiet BY <1>7 DEF ShutdownTake
  <2> QED BY <2>1, <2>2
<1>8. ASSUME NEW r \in Requests, AgentAnswer(r) PROVE Fine
  <2>1. Next BY <1>8 DEF Next, EnvironmentNext
  <2>2. ServerQuiet BY <1>8 DEF AgentAnswer
  <2> QED BY <2>1, <2>2
<1>9. ASSUME NEW s \in Scopes, AgentNote(s) PROVE Fine
  <2>1. Next BY <1>9 DEF Next, EnvironmentNext
  <2>2. ServerQuiet BY <1>9 DEF AgentNote
  <2> QED BY <2>1, <2>2
<1>10. ASSUME AgentExit PROVE Fine
  <2>1. Next BY <1>10 DEF Next, EnvironmentNext
  <2>2. ServerQuiet BY <1>10 DEF AgentExit
  <2> QED BY <2>1, <2>2
<1> HIDE DEF Fine
<1>11. Fine
  BY <1>c, <1>1, <1>2, <1>3, <1>4, <1>5, <1>6, <1>7, <1>8, <1>9, <1>10, Zenon
  DEF ServerOwn, EnvironmentOwn
<1> QED BY <1>c, <1>11 DEF Fine

(* Every step of the two together is a step of the server or none, and one *)
(* of these as far as event streams are concerned.                         *)
LEMMA ClientCases ==
    ASSUME TypeInv, HandlersOK, asked \in [Streams -> Nat], [ClientNext]_allVars
    PROVE  /\ [Next]_vars
           /\ \/ UNCHANGED clientVars /\ ServerQuiet
              \/ UNCHANGED clientVars /\ Emit
              \/ UNCHANGED clientVars /\ \E st \in Streams : HandlerSteps(st)
              \/ \E s \in Scopes, st \in Streams : Dial(s, st)
              \/ \E st \in Streams : ServerWrite(st) \/ ServerHangup(st)
              \/ ServerQuiet /\ ClientOnly
PROOF
<1>t. pc \in [Actors -> Labels] BY DEF TypeInv, TypeOK
<1> DEFINE Cases ==
        \/ UNCHANGED clientVars /\ ServerQuiet
        \/ UNCHANGED clientVars /\ Emit
        \/ UNCHANGED clientVars /\ \E st \in Streams : HandlerSteps(st)
        \/ \E s \in Scopes, st \in Streams : Dial(s, st)
        \/ \E st \in Streams : ServerWrite(st) \/ ServerHangup(st)
        \/ ServerQuiet /\ ClientOnly
<1>1. CASE ServerSide BY <1>1, ServerSideCases
<1>2. CASE ClientOnly BY <1>2, ClientOnlyQuiet
<1>3. ASSUME NEW s \in Scopes, NEW st \in Streams, Dial(s, st) PROVE [Next]_vars /\ Cases
  BY <1>3 DEF Dial, Next, EnvironmentNext
<1>4. ASSUME NEW st \in Streams, ServerWrite(st) \/ ServerHangup(st) PROVE [Next]_vars /\ Cases
  BY <1>4 DEF ServerWrite, ServerHangup, Next, EnvironmentNext
<1>5. ASSUME NEW p \in Posts, NEW m \in PostMethods, NEW s \in Scopes, ClientPost(p, m, s)
      PROVE  [Next]_vars /\ Cases
  <2>1. PostLookup(p, m, s) /\ UNCHANGED clientVars BY <1>5 DEF ClientPost
  <2>2. ServerQuiet
    BY <1>t, <2>1, Distinct DEF PostLookup, Goto, ServerQuiet, scopeVars, chanVars
  <2> QED BY <2>1, <2>2 DEF Next, EnvironmentNext
<1>6. CASE UNCHANGED allVars
  BY <1>6 DEF allVars, vars, ServerQuiet, scopeVars, chanVars
<1>7. ClientNext => \/ ServerSide \/ ClientOnly
                    \/ \E s \in Scopes, st \in Streams : Dial(s, st)
                    \/ \E st \in Streams : ServerWrite(st) \/ ServerHangup(st)
                    \/ \E p \in Posts, m \in PostMethods, s \in Scopes : ClientPost(p, m, s)
  BY Zenon DEF ClientNext, ClientOnly, OpenStep, CloseStep, GoneCloses, LoopStep
<1> HIDE DEF Cases
<1>8. [Next]_vars /\ Cases
  <2>1. Cases BY <1>1, <1>2, <1>3, <1>4, <1>5, <1>6, <1>7 DEF Cases
  <2>2. [Next]_vars BY <1>1, <1>2, <1>3, <1>4, <1>5, <1>6, <1>7, ServerSideCases DEF allVars
  <2> QED BY <2>1, <2>2
<1> QED BY <1>8 DEF Cases

-----------------------------------------------------------------------------
(* The steps of the client, seen from its event streams.                   *)

(* Steps that at most end connections, or close the client.                *)
Still ==
    /\ UNCHANGED <<loop, cur, held, lastEventID, recv, received, asked, wire>>
    /\ cut \subseteq cut' /\ (Done => Done')

(* A streamLoop without a request starts, waits, tries again or ends.      *)
LoopTurns(s) ==
    /\ loop[s] \in {"none", "dial", "sleep", "close"}
    /\ loop[s] = "none" => s = NoSession
    /\ \E label \in {"dial", "sleep", "ended"} :
         /\ loop[s] = "close" => label = "ended"
         /\ GotoLoop(s, label)
    /\ UNCHANGED <<cur, held, lastEventID, recv, received, asked, wire, cut, closing>>

(* The steps of the client sorted by what they do to its streamLoops, to   *)
(* recv and to its requests.                                               *)
LEMMA ClientOnlyCases ==
    ASSUME TypeInv, ClientTypeOK, ClientOnly
    PROVE  \/ Still \/ EnqueueInit \/ Receive
           \/ \E s \in Scopes : \/ LoopTurns(s) \/ Accepted(s) \/ Rejected(s) \/ ReadEvent(s)
                               \/ EnqueueEvent(s) \/ StreamEnds(s)
PROOF
<1> USE DEF Still, loopVars, netVars
<1>1. CASE SetConnID \/ OpenFails \/ CloseBegins \/ (\E d \in Deletes : CloseSends(d))
             \/ CloseEnds \/ CloseLost
  BY <1>1 DEF SetConnID, OpenFails, CloseBegins, CloseSends, CloseEnds, CloseLost, Done
<1>2. ASSUME NEW s \in Scopes, NetworkCut(s) PROVE Still
  BY <1>2 DEF NetworkCut, Done
<1>3. CASE StartFirstStream
  <2>1. NoSession \in Scopes BY DEF Scopes
  <2>2. loop \in [Scopes -> {"none", "dial", "wait", "read", "enqueue", "sleep", "close",
                            "ended"}]
    BY DEF ClientTypeOK
  <2>3. /\ UNCHANGED <<cur, held, lastEventID, recv, received, asked, wire, cut, closing>>
        /\ GotoLoop(NoSession, Started(NoSession))
    BY <1>3 DEF StartFirstStream
  <2>4. CASE loop[NoSession] = "none"
    <3>1. LoopTurns(NoSession) BY <2>3, <2>4 DEF LoopTurns, Started
    <3> QED BY <2>1, <3>1
  <2>5. CASE loop[NoSession] # "none"
    <3>1. loop' = loop BY <2>1, <2>2, <2>3, <2>5 DEF Started, GotoLoop
    <3> QED BY <2>3, <3>1 DEF Done
  <2> QED BY <2>4, <2>5
<1>4. ASSUME NEW s \in Scopes, DialUnknown(s) \/ DialLost(s) \/ Retry(s) \/ LoopEnds(s)
      PROVE  LoopTurns(s)
  BY <1>4 DEF DialUnknown, DialLost, Retry, LoopEnds, LoopTurns
<1> QED BY <1>1, <1>2, <1>3, <1>4 DEF ClientOnly

(* Every step of the two together, with what its invariant is about.       *)
StreamSteps ==
    \/ Still /\ (\/ ServerQuiet \/ Emit
                 \/ \E st \in Streams :
                      HandlerSteps(st) \/ (st \in cut /\ GetHangup(st)))
    \/ \E st \in Streams : ServerWrite(st) \/ \E s \in Scopes : Dial(s, st)
    \/ /\ ServerQuiet
       /\ \/ EnqueueInit \/ Receive
          \/ \E s \in Scopes : \/ LoopTurns(s) \/ Accepted(s) \/ Rejected(s) \/ ReadEvent(s)
                              \/ EnqueueEvent(s) \/ StreamEnds(s)

(* No step is anything else.                                               *)
LEMMA ClientStep ==
    ASSUME TypeInv, ClientInv, [ClientNext]_allVars
    PROVE  [Next]_vars /\ StreamSteps
PROOF
<1>1. UNCHANGED clientVars => Still BY DEF clientVars, loopVars, netVars, Still, Done
<1>2. \A st \in Streams : ServerHangup(st) => Still /\ st \in cut /\ GetHangup(st)
  BY <1>1 DEF ServerHangup
<1>3. ClientOnly => \/ Still \/ EnqueueInit \/ Receive
                    \/ \E s \in Scopes : \/ LoopTurns(s) \/ Accepted(s) \/ Rejected(s)
                                        \/ ReadEvent(s) \/ EnqueueEvent(s) \/ StreamEnds(s)
  BY ClientOnlyCases DEF ClientInv
<1>4. HandlersOK /\ asked \in [Streams -> Nat] BY DEF ClientInv
<1> QED BY <1>1, <1>2, <1>3, <1>4, ClientCases, Zenon DEF StreamSteps

-----------------------------------------------------------------------------
(* The invariant of the client holds at the start.                         *)

LEMMA ClientTypesInit == ClientInit => ClientTypeOK /\ asked \in [Streams -> Nat]
PROOF
<1> SUFFICES ASSUME ClientInit PROVE ClientTypeOK /\ asked \in [Streams -> Nat]
  OBVIOUS
<1> USE DEF ClientInit
<1>1. NoEvent \in Events BY DEF NoEvent, Events, Note, Messages, Scopes
<1>2. held \in [Scopes -> Events] BY <1>1
<1>3. recv \in Seq([scope : Scopes, id : Nat]) /\ Len(recv) <= RecvBuffer
  BY ClientAssumption
<1>4. wire \in [Streams -> Seq(Events)] /\ losses \in 0 .. MaxLosses
  BY ClientAssumption
<1> QED BY <1>2, <1>3, <1>4 DEF ClientTypeOK

(* Nothing is requested, written or read yet.                              *)
LEMMA ClientInvInit == ClientInit => ClientInv
PROOF
<1> SUFFICES ASSUME ClientInit PROVE ClientInv
  OBVIOUS
<1>1. \A st \in Streams : pc[st] = "idle" /\ scope[st] = NoSession /\ NoSession \in Scopes
  BY Distinct DEF ClientInit, Init, Scopes
<1>2. /\ nextID = [s \in Scopes |-> 0]
      /\ loop = [s \in Scopes |-> "none"] /\ cur = [s \in Scopes |-> NoStream]
      /\ lastEventID = [s \in Scopes |-> 0] /\ received = [s \in Scopes |-> 0]
      /\ recv = <<>> /\ wire = [st \in Streams |-> <<>>] /\ asked = [st \in Streams |-> 0]
  BY DEF ClientInit, Init
<1>3. RequestsOK BY <1>2 DEF RequestsOK
<1>4. HandlersOK BY <1>1, <1>2 DEF HandlersOK, Unattached
<1>5. WireOK BY <1>1, <1>2 DEF WireOK, Genuine
<1>6. Increasing BY <1>2 DEF Increasing, BeforeHeld
<1>7. Chained
  <2>1. Len(recv) = 0 BY <1>2
  <2>2. ASSUME NEW s \in Scopes, NEW i \in 0 .. Len(recv)
        PROVE  IDAt(s, i) = 0 /\ lastEventID[s] = 0 /\ loop[s] # "enqueue"
    BY <1>2, <2>1, <2>2 DEF IDAt
  <2> QED BY <2>1, <2>2 DEF Chained
<1>8. SessionsOK BY <1>1, <1>2 DEF SessionsOK
<1> QED BY <1>3, <1>4, <1>5, <1>6, <1>7, <1>8, ClientTypesInit DEF ClientInv

-----------------------------------------------------------------------------
(* Types.                                                                  *)

(* What enqueue leaves in recv.                                            *)
LEMMA EnqueueTypes ==
    ASSUME recv \in Seq([scope : Scopes, id : Nat]), Len(recv) <= RecvBuffer,
           NEW item \in [scope : Scopes, id : Nat], Enqueue(item)
    PROVE  recv' \in Seq([scope : Scopes, id : Nat]) /\ Len(recv') <= RecvBuffer
PROOF
<1>1. CASE Len(recv) < RecvBuffer /\ recv' = Append(recv, item)
  <2>1. Len(recv') = Len(recv) + 1 /\ Len(recv) \in Nat BY <1>1
  <2> QED BY <1>1, <2>1, ClientAssumption
<1>2. CASE UNCHANGED recv BY <1>2
<1> QED BY <1>1, <1>2 DEF Enqueue

(* What a handler writes comes out of its channel.                         *)
LEMMA WriteTypes ==
    ASSUME TypeInv, wire \in [Streams -> Seq(Events)], NEW st \in Streams, ServerWrite(st)
    PROVE  /\ buf[st] \in Seq(Events) /\ buf[st] # <<>>
           /\ Head(buf[st]) \in Events /\ wire' \in [Streams -> Seq(Events)]
PROOF
<1>1. buf[st] \in Seq(Events) /\ buf[st] # <<>>
  BY DEF ServerWrite, GetWrite, TypeInv, TypeOK
<1>2. Head(buf[st]) \in Events BY <1>1
<1>3. Append(wire[st], Head(buf[st])) \in Seq(Events) BY <1>2
<1> QED BY <1>1, <1>2, <1>3 DEF ServerWrite

(* What a streamLoop reads.                                                *)
LEMMA ReadTypes ==
    ASSUME ClientTypeOK, RequestsOK, NEW s \in Scopes, ReadEvent(s)
    PROVE  /\ cur[s] \in Streams /\ scope[cur[s]] = s
           /\ wire[cur[s]] \in Seq(Events) /\ wire[cur[s]] # <<>>
           /\ Head(wire[cur[s]]) \in Events /\ Tail(wire[cur[s]]) \in Seq(Events)
PROOF
<1>1. /\ cur[s] \in Streams /\ scope[cur[s]] = s
      /\ wire[cur[s]] \in Seq(Events) /\ wire[cur[s]] # <<>>
  BY DEF ReadEvent, ClientTypeOK, RequestsOK
<1> QED BY <1>1

(* Every step keeps the variables of the client in their domains.          *)
LEMMA ClientTypesNext ==
    ASSUME TypeInv, ClientInv, [ClientNext]_allVars
    PROVE  ClientTypeOK' /\ (asked \in [Streams -> Nat])'
PROOF
<1> DEFINE Fine == ClientTypeOK' /\ (asked \in [Streams -> Nat])'
<1>t. /\ ClientTypeOK /\ asked \in [Streams -> Nat] /\ RequestsOK
      /\ \A s \in Scopes : cur[s] # NoStream <=> loop[s] \in {"wait", "read", "enqueue"}
      /\ NoSession \in Scopes
  BY DEF ClientInv, RequestsOK, Scopes
<1> USE DEF GotoLoop, loopVars, netVars
<1>1. ASSUME UNCHANGED clientVars PROVE Fine
  BY <1>1, <1>t DEF clientVars, ClientTypeOK
<1>2. CASE SetConnID \/ StartFirstStream \/ OpenFails
  BY <1>2, <1>t DEF SetConnID, StartFirstStream, Started, OpenFails, ClientTypeOK
<1>3. CASE EnqueueInit
  <2>1. InitItem \in [scope : Scopes, id : Nat] BY <1>t DEF InitItem, Item
  <2>2. (recv \in Seq([scope : Scopes, id : Nat]) /\ Len(recv) <= RecvBuffer)'
    BY <1>3, <1>t, <2>1, EnqueueTypes DEF EnqueueInit, ClientTypeOK
  <2> QED BY <1>3, <1>t, <2>2 DEF EnqueueInit, ClientTypeOK
<1>4. CASE CloseBegins
  <2>1. Requested \subseteq Streams BY <1>t DEF Requested, ClientTypeOK
  <2> QED BY <1>4, <1>t, <2>1 DEF CloseBegins, ClientTypeOK
<1>5. CASE (\E d \in Deletes : CloseSends(d)) \/ CloseEnds
  BY <1>5, <1>t DEF CloseSends, CloseEnds, ClientTypeOK
<1>l. Lose => losses' \in 0 .. MaxLosses
  BY <1>t, ClientAssumption DEF Lose, ClientTypeOK
<1>6. CASE CloseLost
  BY <1>6, <1>t, <1>l DEF CloseLost, ClientTypeOK
<1>7. CASE Receive
  <2>1. /\ recv \in Seq([scope : Scopes, id : Nat]) /\ recv # <<>> /\ recv' = Tail(recv)
        /\ Len(recv) <= RecvBuffer
    BY <1>7, <1>t DEF Receive, ClientTypeOK
  <2>2. /\ recv' \in Seq([scope : Scopes, id : Nat]) /\ Len(recv') <= RecvBuffer
        /\ Head(recv) \in [scope : Scopes, id : Nat]
    <3>1. /\ Len(recv) \in Nat /\ Len(recv') = Len(recv) - 1
          /\ recv' \in Seq([scope : Scopes, id : Nat])
          /\ Head(recv) \in [scope : Scopes, id : Nat]
      BY <2>1, TailRest
    <3> DEFINE n == Len(recv)
    <3>2. n \in Nat /\ n <= RecvBuffer /\ Len(recv') = n - 1 /\ RecvBuffer \in Nat
      BY <2>1, <3>1, ClientAssumption
    <3> HIDE DEF n
    <3> QED BY <3>1, <3>2
  <2>3. received' \in [Scopes -> Nat] BY <1>7, <1>t, <2>2 DEF Receive, ClientTypeOK
  <2> QED BY <1>7, <1>t, <2>2, <2>3 DEF Receive, ClientTypeOK
<1>8. ASSUME NEW s \in Scopes, DialUnknown(s) \/ Accepted(s) \/ Rejected(s) \/ Retry(s)
                                 \/ LoopEnds(s)
      PROVE  Fine
  BY <1>8, <1>t DEF DialUnknown, Accepted, Rejected, AfterGone, Retry, LoopEnds, ClientTypeOK
<1>9. ASSUME NEW s \in Scopes, DialLost(s) PROVE Fine
  BY <1>9, <1>t, <1>l DEF DialLost, ClientTypeOK
<1>10. ASSUME NEW s \in Scopes, NetworkCut(s) PROVE Fine
  BY <1>10, <1>t, <1>l DEF NetworkCut, ClientTypeOK
<1>11. ASSUME NEW s \in Scopes, ReadEvent(s) PROVE Fine
  <2>1. /\ cur[s] \in Streams /\ Head(wire[cur[s]]) \in Events
        /\ Tail(wire[cur[s]]) \in Seq(Events)
    BY <1>11, <1>t, ReadTypes
  <2>2. held' \in [Scopes -> Events] BY <1>11, <1>t, <2>1 DEF ReadEvent, ClientTypeOK
  <2>3. lastEventID' \in [Scopes -> Nat]
    BY <1>11, <1>t, <2>1 DEF ReadEvent, Seen, Events, ClientTypeOK
  <2>4. wire' \in [Streams -> Seq(Events)] BY <1>11, <1>t, <2>1 DEF ReadEvent, ClientTypeOK
  <2>5. loop' \in [Scopes -> {"none", "dial", "wait", "read", "enqueue", "sleep", "close",
                              "ended"}]
    BY <1>11, <1>t DEF ReadEvent, Started, ClientTypeOK
  <2> QED BY <1>11, <1>t, <2>2, <2>3, <2>4, <2>5 DEF ReadEvent, ClientTypeOK
<1>12. ASSUME NEW s \in Scopes, EnqueueEvent(s) PROVE Fine
  <2>1. /\ Item(s, held[s].id) \in [scope : Scopes, id : Nat]
        /\ NoEvent \in Events
    BY <1>t DEF Item, ClientTypeOK, Events, NoEvent, Note, Messages
  <2>2. (recv \in Seq([scope : Scopes, id : Nat]) /\ Len(recv) <= RecvBuffer)'
    BY <1>12, <1>t, <2>1, EnqueueTypes DEF EnqueueEvent, ClientTypeOK
  <2> QED BY <1>12, <1>t, <2>1, <2>2 DEF EnqueueEvent, ClientTypeOK
<1>13. ASSUME NEW s \in Scopes, StreamEnds(s) PROVE Fine
  <2>1. cur[s] \in Streams BY <1>13, <1>t DEF StreamEnds, ClientTypeOK
  <2>2. wire' \in [Streams -> Seq(Events)] BY <1>13, <1>t, <2>1 DEF StreamEnds, ClientTypeOK
  <2> QED BY <1>13, <1>t, <2>1, <2>2 DEF StreamEnds, AfterStream, ClientTypeOK
<1>14. ASSUME NEW s \in Scopes, NEW st \in Streams, Dial(s, st) PROVE Fine
  BY <1>14, <1>t DEF Dial, ClientTypeOK
<1>15. ASSUME NEW st \in Streams, ServerWrite(st) PROVE Fine
  <2>1. wire' \in [Streams -> Seq(Events)] BY <1>15, <1>t, WriteTypes DEF ClientTypeOK
  <2> QED BY <1>15, <1>t, <2>1 DEF ServerWrite, ClientTypeOK
<1>16. ASSUME NEW st \in Streams, ServerHangup(st) PROVE UNCHANGED clientVars
  BY <1>16 DEF ServerHangup
<1> HIDE DEF Fine
<1>17. HandlersOK BY DEF ClientInv
<1>18. Fine
  <2>1. ClientOnly => Fine
    BY <1>2, <1>3, <1>4, <1>5, <1>6, <1>7, <1>8, <1>9, <1>10, <1>11, <1>12, <1>13, Zenon
    DEF ClientOnly, Fine
  <2> QED BY <1>1, <1>t, <1>14, <1>15, <1>16, <1>17, <2>1, ClientCases, Zenon
<1> QED BY <1>18 DEF Fine

-----------------------------------------------------------------------------
(* Requests and handlers.                                                  *)

(* What every step is analysed with.                                       *)
StepTypes ==
    /\ pc \in [Actors -> Labels] /\ Streams \subseteq Actors /\ scope \in [Streams -> Scopes]
    /\ loop \in [Scopes -> {"none", "dial", "wait", "read", "enqueue", "sleep", "close",
                            "ended"}]
    /\ cur \in [Scopes -> Streams \cup {NoStream}] /\ NoStream \notin Streams
    /\ lastEventID \in [Scopes -> Nat] /\ asked \in [Streams -> Nat]

(* They follow from the two type invariants.                               *)
LEMMA TypesOfStep == TypeInv /\ ClientInv => StepTypes
PROOF BY Distinct, StreamAssumption DEF StepTypes, TypeInv, TypeOK, ClientInv, ClientTypeOK

(* Two streamLoops never share a handler.                                  *)
LEMMA OwnHandler ==
    ASSUME StepTypes, RequestsOK, NEW s \in Scopes, NEW t \in Scopes, cur[s] # NoStream,
           cur[s] = cur[t]
    PROVE  s = t
PROOF BY DEF StepTypes, RequestsOK

(* A streamLoop has a handler exactly while it waits, reads or enqueues;   *)
(* the handler started with what the streamLoop had seen.                  *)
LEMMA RequestsNext ==
    ASSUME StepTypes, RequestsOK, WireOK, StreamSteps
    PROVE  RequestsOK'
PROOF
<1> USE DEF StepTypes, GotoLoop, Goto
<1>i. \A s \in Scopes :
        /\ cur[s] # NoStream <=> loop[s] \in {"wait", "read", "enqueue"}
        /\ cur[s] # NoStream => scope[cur[s]] = s /\ pc[cur[s]] # "idle"
        /\ cur[s] # NoStream /\ pc[cur[s]] \in Unattached => asked[cur[s]] = lastEventID[s]
  BY DEF RequestsOK
<1> DEFINE SameLoops == UNCHANGED <<loop, cur, asked, lastEventID, scope>>
<1>q. ASSUME UNCHANGED <<cur, asked, lastEventID>>, ServerQuiet,
             \A s \in Scopes : loop'[s] = loop[s]
                \/ (loop'[s] \notin {"wait", "read", "enqueue"} /\ cur[s] = NoStream)
                \/ (loop'[s] \in {"wait", "read", "enqueue"} /\ cur[s] # NoStream)
      PROVE  RequestsOK'
  BY <1>q, <1>i DEF RequestsOK, ServerQuiet
<1>p. ASSUME SameLoops,
             \A st \in Streams : /\ pc'[st] # "idle" \/ pc[st] = "idle"
                                 /\ pc'[st] \in Unattached => pc[st] \in Unattached
      PROVE  RequestsOK'
  BY <1>p, <1>i DEF RequestsOK
<1>1. CASE Still /\ ServerQuiet BY <1>1, <1>q DEF Still
<1>2. CASE Still /\ Emit
  <2>1. \A st \in Streams : pc'[st] = pc[st] BY <1>2, Distinct DEF Emit
  <2> QED BY <1>2, <1>p, <2>1 DEF Still, Emit
<1>3. ASSUME NEW st \in Streams, Still,
             HandlerSteps(st) \/ GetHangup(st)
      PROVE  RequestsOK'
  <2>1. \A x \in Streams : /\ pc'[x] # "idle" \/ pc[x] = "idle"
                           /\ pc'[x] \in Unattached => pc[x] \in Unattached
    BY <1>3 DEF HandlerSteps, GetChecked, ServerAttach, GetAttach, GetGone, GetFinish,
                GetDetach, GetHangup, Unattached
  <2>2. UNCHANGED scope
    BY <1>3 DEF HandlerSteps, GetChecked, ServerAttach, GetAttach, GetGone, GetFinish,
                GetDetach, GetHangup, chanVars
  <2> QED BY <1>3, <1>p, <2>1, <2>2 DEF Still
<1>4. ASSUME NEW st \in Streams, ServerWrite(st) PROVE RequestsOK'
  BY <1>4, <1>p DEF ServerWrite, GetWrite, loopVars
<1>5. ASSUME NEW s \in Scopes, NEW st \in Streams, Dial(s, st) PROVE RequestsOK'
  <2>1. /\ pc[st] = "idle" /\ loop[s] = "dial" /\ lastEventID' = lastEventID
        /\ cur' = [cur EXCEPT ![s] = st] /\ loop' = [loop EXCEPT ![s] = "wait"]
        /\ asked' = [asked EXCEPT ![st] = lastEventID[s]]
        /\ scope' = [scope EXCEPT ![st] = s] /\ pc' = [pc EXCEPT ![st] = "check"]
    BY <1>5 DEF Dial, GetLookup
  <2>2. \A t \in Scopes : t # s => cur'[t] = cur[t] /\ loop'[t] = loop[t] /\ cur[t] # st
    BY <1>i, <2>1
  <2>3. \A x \in Streams : x # st =>
          pc'[x] = pc[x] /\ scope'[x] = scope[x] /\ asked'[x] = asked[x]
    BY <2>1
  <2>4. /\ cur'[s] = st /\ loop'[s] = "wait" /\ scope'[st] = s /\ pc'[st] = "check"
        /\ asked'[st] = lastEventID[s]
    BY <2>1
  <2> QED BY <1>i, <2>1, <2>2, <2>3, <2>4 DEF RequestsOK
<1>6. CASE EnqueueInit /\ ServerQuiet BY <1>6, <1>q DEF EnqueueInit, loopVars, netVars
<1>7. CASE Receive /\ ServerQuiet BY <1>7, <1>q DEF Receive, loopVars, netVars
<1>8. ASSUME NEW s \in Scopes, LoopTurns(s) \/ Accepted(s) \/ EnqueueEvent(s), ServerQuiet
      PROVE  RequestsOK'
  BY <1>8, <1>q, <1>i DEF LoopTurns, Accepted, EnqueueEvent, netVars
<1>9. ASSUME NEW s \in Scopes, ReadEvent(s), ServerQuiet PROVE RequestsOK'
  <2>1. /\ UNCHANGED <<cur, asked>> /\ loop[s] = "read" /\ wire[cur[s]] # <<>>
        /\ \A t \in Scopes : t # s => lastEventID'[t] = lastEventID[t]
        /\ \A t \in Scopes : loop'[t] = loop[t] \/ (loop[t] = "none" /\ loop'[t] = "dial")
             \/ (t = s /\ loop'[t] = "enqueue")
    BY <1>9 DEF ReadEvent, Seen, Started
  <2>2. pc[cur[s]] \notin Unattached BY <1>i, <2>1 DEF WireOK
  <2> QED BY <1>9, <1>i, <2>1, <2>2 DEF RequestsOK, ServerQuiet
<1>10. ASSUME NEW s \in Scopes, Rejected(s) \/ StreamEnds(s), ServerQuiet PROVE RequestsOK'
  <2>1. /\ cur' = [cur EXCEPT ![s] = NoStream] /\ UNCHANGED <<asked, lastEventID>>
        /\ \E label \in {"sleep", "close"} : loop' = [loop EXCEPT ![s] = label]
    BY <1>10 DEF Rejected, StreamEnds, AfterGone, AfterStream, netVars
  <2> QED BY <1>10, <1>i, <2>1 DEF RequestsOK, ServerQuiet
<1> HIDE DEF StepTypes
<1> QED
  BY <1>1, <1>2, <1>3, <1>4, <1>5, <1>6, <1>7, <1>8, <1>9, <1>10, Zenon DEF StreamSteps

(* A handler that has not been accepted has a streamLoop that waits for    *)
(* it, or nobody, or a streamLoop that has been told 410.                  *)
LEMMA HandlersNext ==
    ASSUME StepTypes, RequestsOK, HandlersOK, Increasing, StreamSteps,
           \A s \in Scopes : nextID[s] \in Nat /\ nextID'[s] \in Nat /\ nextID'[s] >= nextID[s]
    PROVE  HandlersOK'
PROOF
<1> USE DEF StepTypes, GotoLoop, Goto
<1>i. \A st \in Streams :
        /\ pc[st] \in Unattached \cup Attached
        /\ pc[st] # "idle" => asked[st] <= nextID[scope[st]]
        /\ (st \notin cut /\ pc[st] \in {"check", "attach", "gone"}) =>
             \/ cur[scope[st]] = st /\ loop[scope[st]] = "wait"
             \/ pc[st] = "gone" /\ loop[scope[st]] \in {"close", "ended"}
  BY DEF HandlersOK
<1>n. \A s \in Scopes : nextID[s] \in Nat /\ nextID'[s] \in Nat /\ nextID'[s] >= nextID[s]
  OBVIOUS
<1>a. \A st \in Streams : pc[st] # "idle" => asked[st] <= nextID'[scope[st]]
  BY <1>i, <1>n
(* The streamLoops go on, and the handlers stay where they are.            *)
<1>q. ASSUME ServerQuiet, UNCHANGED asked, cut \subseteq cut',
             \A s \in Scopes :
               \/ cur'[s] = cur[s] /\ loop'[s] = loop[s]
               \/ loop[s] \notin {"wait", "close", "ended"}
               \/ loop[s] = "close" /\ loop'[s] = "ended"
               \/ /\ loop[s] = "wait"
                  /\ \/ pc[cur[s]] \notin {"check", "attach", "gone"} \/ cur[s] \in cut'
                     \/ pc[cur[s]] = "gone" /\ loop'[s] = "close"
      PROVE  HandlersOK'
  BY <1>q, <1>i, <1>a DEF HandlersOK, ServerQuiet
(* One handler goes on.                                                    *)
<1>p. ASSUME NEW st \in Streams, UNCHANGED <<scope, asked, loop, cur>>, cut \subseteq cut',
             \A x \in Streams : x # st => pc'[x] = pc[x],
             \/ pc'[st] = pc[st]
             \/ pc[st] = "check" /\ pc'[st] \in {"refused", "attach"}
             \/ pc[st] = "attach" /\ pc'[st] \in {"gone", "streaming"}
             \/ pc[st] \in {"streaming", "detach"} /\ pc'[st] \in {"detach", "done"}
      PROVE  HandlersOK'
  BY <1>p, <1>i, <1>a DEF HandlersOK, Unattached, Attached
<1>1. CASE Still /\ ServerQuiet BY <1>1, <1>q DEF Still
<1>2. CASE Still /\ Emit
  <2>1. \A st \in Streams : pc'[st] = pc[st] BY <1>2, Distinct DEF Emit
  <2> QED BY <1>2, <1>i, <1>a, <2>1 DEF Still, Emit, HandlersOK
<1>3. ASSUME NEW st \in Streams, Still, HandlerSteps(st) \/ GetHangup(st)
      PROVE  HandlersOK'
  <2>1. /\ \A x \in Streams : x # st => pc'[x] = pc[x]
        /\ \/ pc[st] = "check" /\ pc'[st] \in {"refused", "attach"}
           \/ pc[st] = "attach" /\ pc'[st] \in {"gone", "streaming"}
           \/ pc[st] \in {"streaming", "detach"} /\ pc'[st] \in {"detach", "done"}
    BY <1>3 DEF HandlerSteps, GetChecked, ServerAttach, GetAttach, GetGone, GetFinish,
                GetDetach, GetHangup
  <2>2. UNCHANGED scope
    BY <1>3 DEF HandlerSteps, GetChecked, ServerAttach, GetAttach, GetGone, GetFinish,
                GetDetach, GetHangup, chanVars
  <2> QED BY <1>3, <1>p, <2>1, <2>2 DEF Still
<1>4. ASSUME NEW st \in Streams, ServerWrite(st) PROVE HandlersOK'
  BY <1>4, <1>p DEF ServerWrite, GetWrite, loopVars
<1>5. ASSUME NEW s \in Scopes, NEW st \in Streams, Dial(s, st) PROVE HandlersOK'
  <2>1. /\ pc[st] = "idle" /\ loop[s] = "dial" /\ UNCHANGED cut
        /\ cur' = [cur EXCEPT ![s] = st] /\ loop' = [loop EXCEPT ![s] = "wait"]
        /\ asked' = [asked EXCEPT ![st] = lastEventID[s]]
        /\ scope' = [scope EXCEPT ![st] = s] /\ pc' = [pc EXCEPT ![st] = "check"]
    BY <1>5 DEF Dial, GetLookup
  <2>2. lastEventID[s] <= nextID'[s] BY <1>n DEF Increasing
  <2>3. \A x \in Streams : x # st =>
          pc'[x] = pc[x] /\ scope'[x] = scope[x] /\ asked'[x] = asked[x]
    BY <2>1
  <2>4. /\ scope'[st] = s /\ pc'[st] = "check" /\ cur'[s] = st /\ loop'[s] = "wait"
        /\ asked'[st] = lastEventID[s]
    BY <2>1
  <2>5. \A x \in Streams : x # st =>
        ((x \notin cut' /\ pc'[x] \in {"check", "attach", "gone"}) =>
             \/ cur'[scope'[x]] = x /\ loop'[scope'[x]] = "wait"
             \/ pc'[x] = "gone" /\ loop'[scope'[x]] \in {"close", "ended"})
    BY <1>i, <2>1, <2>3
  <2> QED BY <1>i, <1>a, <2>2, <2>3, <2>4, <2>5 DEF HandlersOK, Unattached
<1>6. CASE EnqueueInit /\ ServerQuiet BY <1>6, <1>q DEF EnqueueInit, loopVars, netVars
<1>7. CASE Receive /\ ServerQuiet BY <1>7, <1>q DEF Receive, loopVars, netVars
<1>8. ASSUME NEW s \in Scopes, LoopTurns(s) \/ EnqueueEvent(s), ServerQuiet PROVE HandlersOK'
  BY <1>8, <1>q DEF LoopTurns, EnqueueEvent, netVars
<1>9. ASSUME NEW s \in Scopes, Accepted(s), ServerQuiet PROVE HandlersOK'
  BY <1>9, <1>q DEF Accepted, netVars
<1>10. ASSUME NEW s \in Scopes, ReadEvent(s), ServerQuiet PROVE HandlersOK'
  BY <1>10, <1>q DEF ReadEvent, Started
<1>11. ASSUME NEW s \in Scopes, Rejected(s), ServerQuiet PROVE HandlersOK'
  BY <1>11, <1>q DEF Rejected, AfterGone, netVars
<1>12. ASSUME NEW s \in Scopes, StreamEnds(s), ServerQuiet PROVE HandlersOK'
  BY <1>12, <1>q DEF StreamEnds, AfterStream
<1> HIDE DEF StepTypes
<1> QED
  BY <1>1, <1>2, <1>3, <1>4, <1>5, <1>6, <1>7, <1>8, <1>9, <1>10, <1>11, <1>12, Zenon
  DEF StreamSteps

-----------------------------------------------------------------------------
(* What was written and not read.                                          *)

(* The next event of a handler, after those that were not read yet.        *)
LEMMA WrittenResumes ==
    ASSUME NEW q \in Seq(Events), NEW seen \in Nat, NEW n, NEW K, Genuine(q, n, K), n \in Nat,
           NEW prev \in Nat, Resumes(q, seen), Newest(q, seen) = prev,
           NEW ev \in Events, Follows(ev.id, prev)
    PROVE  /\ Resumes(Append(q, ev), seen)
           /\ Newest(Append(q, ev), seen) = ev.id
PROOF
<1>1. CASE prev # 0
  <2>1. ev.id = prev + 1 /\ \A e \in Events : e.id \in Nat BY <1>1 DEF Follows, Events
  <2> QED BY <2>1, ResumesAppend
<1>2. CASE prev = 0
  <2>1. q = <<>>
    <3> SUFFICES ASSUME q # <<>> PROVE FALSE
      OBVIOUS
    <3>1. Len(q) \in 1 .. Len(q) BY TailRest
    <3>2. q[Len(q)].id \in 1 .. n BY <3>1 DEF Genuine
    <3> QED BY <1>2, <3>2 DEF Newest
  <2>2. seen = 0 BY <1>2, <2>1 DEF Newest
  <2>3. ev.id \in Nat BY DEF Events
  <2>4. Append(q, ev) = <<ev>> BY <2>1
  <2>5. Resumes(<<ev>>, seen) BY <2>2, <2>3 DEF Resumes
  <2>6. Newest(<<ev>>, seen) = ev.id BY DEF Newest
  <2> QED BY <2>4, <2>5, <2>6
<1> QED BY <1>1, <1>2

(* The first event of what continues the event seen.                       *)
LEMMA HeadFollows ==
    ASSUME NEW q \in Seq(Events), q # <<>>, NEW seen \in Nat, Resumes(q, seen)
    PROVE  Follows(Head(q).id, seen)
PROOF
<1>1. Head(q) = q[1] /\ 1 \in 1 .. Len(q) BY TailRest
<1> QED BY <1>1 DEF Resumes, Follows

(* What a streamLoop reads is newer than what it has read.                 *)
LEMMA ReadsNext ==
    ASSUME ClientTypeOK, RequestsOK, WireOK, nextID \in [Scopes -> Nat],
           NEW s \in Scopes, ReadEvent(s)
    PROVE  LET ev == Head(wire[cur[s]]) IN
           /\ ev.id \in 1 .. nextID[s] /\ ev.msg.sid \in Known
           /\ ev.id > lastEventID[s] /\ Follows(ev.id, lastEventID[s])
           /\ lastEventID' = [lastEventID EXCEPT ![s] = ev.id]
PROOF
<1> DEFINE q  == wire[cur[s]]
           ev == Head(q)
<1>1. cur[s] \in Streams /\ scope[cur[s]] = s /\ q \in Seq(Events) /\ q # <<>>
  BY ReadTypes
<1>2. NoStream \notin Streams /\ lastEventID \in [Scopes -> Nat]
  BY StreamAssumption DEF ClientTypeOK
<1>3. Genuine(q, nextID[s], Known) /\ Resumes(q, lastEventID[s])
  BY <1>1, <1>2 DEF WireOK
<1>4. ev.id \in 1 .. nextID[s] /\ ev.msg.sid \in Known
  BY <1>1, <1>3, GenuineTail
<1>5. Follows(ev.id, lastEventID[s]) BY <1>1, <1>2, <1>3, HeadFollows
<1>6. lastEventID' = Seen(s, ev.id) BY DEF ReadEvent
<1> HIDE DEF q
<1>7. ev.id > lastEventID[s] BY <1>2, <1>4, <1>5 DEF Follows
<1> HIDE DEF ev
<1>8. lastEventID' = [lastEventID EXCEPT ![s] = ev.id]
  BY <1>2, <1>6, <1>7 DEF Seen
<1> QED BY <1>4, <1>5, <1>7, <1>8 DEF ev, q

(* Only one handler's events are read, and only the end of its stream or a *)
(* write to it changes them otherwise.                                     *)
WrittenOK(st) ==
    /\ Genuine(wire[st], nextID[scope[st]], Known)
    /\ pc[st] \in Unattached => wire[st] = <<>>
    /\ (st \notin cut /\ pc[st] \in {"detach", "done"}) => buf[st] = <<>> /\ closes[st] > 0

(* A handler that ends has written everything in its channel, unless its   *)
(* connection is gone.                                                     *)
LEMMA WrittenNext ==
    ASSUME TypeInv, ChanInv, EmittedGenuine, StepTypes, ClientTypeOK, RequestsOK, WireOK,
           [Next]_vars, StreamSteps
    PROVE  \A st \in Streams : WrittenOK(st)'
PROOF
<1>t. /\ nextID \in [Scopes -> Nat] /\ closes \in [Streams -> Nat]
      /\ buf \in [Streams -> Seq(Events)] /\ wire \in [Streams -> Seq(Events)]
      /\ ch \in [Scopes -> Streams \cup {NoStream}]
      /\ scope \in [Streams -> Scopes]
  BY DEF TypeInv, TypeOK, ClientTypeOK
<1>n. \A s \in Scopes : nextID[s] \in Nat /\ nextID'[s] \in Nat /\ nextID'[s] >= nextID[s]
  BY NextIDGrows
<1>k. Known \subseteq Known' BY KnownGrows
<1>i. \A st \in Streams : WrittenOK(st) BY DEF WireOK, WrittenOK
<1>w. \A st \in Streams : Genuine(wire[st], nextID'[scope[st]], Known')
  BY <1>t, <1>n, <1>k, <1>i, GenuineGrows DEF WrittenOK
<1>e. \A q : q = <<>> => Genuine(q, 0, {}) /\ \A n, K : Genuine(q, n, K) BY DEF Genuine
<1> DEFINE Fine == \A st \in Streams : WrittenOK(st)'
<1> USE DEF Goto
(* Nothing of one handler changes but its label.                           *)
<1>q. ASSUME NEW x \in Streams, wire'[x] = wire[x] \/ wire'[x] = <<>>, scope'[x] = scope[x],
             cut \subseteq cut', pc'[x] = pc[x], buf'[x] = buf[x],
             closes[x] > 0 => closes'[x] > 0
      PROVE  WrittenOK(x)'
  BY <1>q, <1>w, <1>i, <1>e DEF WrittenOK
<1>1. CASE ServerQuiet /\ cut \subseteq cut' /\ UNCHANGED wire
  BY <1>1, <1>q DEF ServerQuiet
<1>2. CASE Still /\ Emit
  <2>1. /\ \A st \in Streams : pc'[st] = pc[st]
        /\ UNCHANGED <<scope, closes, wire>> /\ cut \subseteq cut'
    BY <1>2, Distinct DEF Emit, Still, StepTypes
  <2>2. \A st \in Streams : buf'[st] = buf[st] \/ (closes[st] = 0 /\ pc[st] # "done")
    <3>1. \/ buf' = buf
          \/ /\ ch[job.scope] # NoStream
             /\ buf' = [buf EXCEPT ![ch[job.scope]] =
                          Append(@, [id |-> nextID[job.scope] + 1, msg |-> job.msg])]
      BY <1>2 DEF Emit, NotDelivered, DeliverTo, Overflow
    <3>2. job.scope \in Scopes BY DEF TypeInv, TypeOK
    <3>3. ch[job.scope] # NoStream =>
            closes[ch[job.scope]] = 0 /\ pc[ch[job.scope]] \in {"streaming", "detach"}
      BY <3>2 DEF ChanInv, LinkedChannels
    <3> QED BY <1>t, <3>1, <3>3
  <2>3. ASSUME NEW x \in Streams, buf'[x] # buf[x] PROVE WrittenOK(x)'
    BY <1>w, <1>i, <2>1, <2>2, <2>3 DEF WrittenOK
  <2> QED BY <2>1, <2>3, <1>q
<1>3. ASSUME NEW st \in Streams, Still, HandlerSteps(st) \/ (st \in cut /\ GetHangup(st))
      PROVE  Fine
  <2>1. /\ \A x \in Streams : x # st => pc'[x] = pc[x] /\ buf'[x] = buf[x]
        /\ UNCHANGED <<scope, closes, wire>> /\ cut \subseteq cut'
    BY <1>3, <1>t DEF HandlerSteps, GetChecked, ServerAttach, GetAttach, GetGone, GetFinish,
                GetDetach, GetHangup, Still, chanVars, StepTypes
  <2>2. WrittenOK(st)'
    <3>1. CASE GetChecked(st) \/ ServerAttach(st)
      BY <3>1, <1>w, <1>i, <2>1
      DEF WrittenOK, GetChecked, ServerAttach, GetAttach, GetGone, Unattached, StepTypes
    <3>2. CASE GetFinish(st)
      BY <3>2, <1>w, <1>i, <2>1 DEF WrittenOK, GetFinish, Unattached, StepTypes, chanVars
    <3>3. CASE GetDetach(st)
      BY <3>3, <1>t, <1>w, <1>i, <2>1 DEF WrittenOK, GetDetach, Unattached, StepTypes
    <3>4. CASE st \in cut /\ GetHangup(st)
      BY <3>4, <1>w, <1>i, <2>1 DEF WrittenOK, GetHangup, Unattached, StepTypes
    <3> QED BY <1>3, <3>1, <3>2, <3>3, <3>4 DEF HandlerSteps
  <2> QED BY <2>1, <2>2, <1>q
<1>4. ASSUME NEW st \in Streams, ServerWrite(st) PROVE Fine
  <2>1. /\ pc[st] = "streaming" /\ UNCHANGED <<pc, scope, closes, cut>>
        /\ buf' = [buf EXCEPT ![st] = Tail(@)]
        /\ wire' = IF st \in cut THEN wire
                   ELSE [wire EXCEPT ![st] = Append(@, Head(buf[st]))]
    BY <1>4 DEF ServerWrite, GetWrite
  <2>2. \A x \in Streams : x # st => wire'[x] = wire[x] /\ buf'[x] = buf[x]
    BY <1>t, <2>1
  <2>3. Genuine(wire'[st], nextID'[scope'[st]], Known')
    <3>1. /\ buf[st] \in Seq(Events) /\ buf[st] # <<>> /\ Head(buf[st]) \in Events
      BY <1>4, <1>t, WriteTypes
    <3>2. Genuine(buf[st], nextID[scope[st]], Known) BY DEF EmittedGenuine
    <3>3. Head(buf[st]).id \in 1 .. nextID[scope[st]] /\ Head(buf[st]).msg.sid \in Known
      BY <3>1, <3>2, GenuineTail
    <3>4. Head(buf[st]).id \in 1 .. nextID'[scope[st]] /\ Head(buf[st]).msg.sid \in Known'
      BY <1>t, <1>n, <1>k, <3>3
    <3>5. Genuine(Append(wire[st], Head(buf[st])), nextID'[scope[st]], Known')
      BY <1>t, <1>w, <3>1, <3>4, GenuineAppend
    <3> QED BY <1>t, <1>w, <2>1, <3>5
  <2>4. WrittenOK(st)' BY <2>1, <2>3 DEF WrittenOK, Unattached
  <2> QED BY <2>1, <2>2, <2>4, <1>q
<1>5. ASSUME NEW s \in Scopes, NEW st \in Streams, Dial(s, st) PROVE Fine
  <2>1. /\ pc[st] = "idle" /\ pc' = [pc EXCEPT ![st] = "check"]
        /\ scope' = [scope EXCEPT ![st] = s] /\ UNCHANGED <<wire, cut, buf, closes>>
    BY <1>5 DEF Dial, GetLookup
  <2>2. \A x \in Streams : x # st => pc'[x] = pc[x] /\ scope'[x] = scope[x]
    BY <1>t, <2>1 DEF StepTypes
  <2>3. WrittenOK(st)'
    BY <1>t, <1>i, <1>e, <2>1 DEF WrittenOK, Unattached, StepTypes
  <2> QED BY <2>1, <2>2, <2>3, <1>q
<1>6. ASSUME NEW s \in Scopes, ReadEvent(s), ServerQuiet PROVE Fine
  <2> PICK st \in Streams : st = cur[s] BY <1>6, ReadTypes
  <2>1. /\ wire[st] \in Seq(Events) /\ wire[st] # <<>>
        /\ wire' = [wire EXCEPT ![st] = Tail(@)] /\ UNCHANGED cut
    BY <1>6, ReadTypes DEF ReadEvent
  <2>2. \A x \in Streams : x # st => wire'[x] = wire[x] BY <1>t, <2>1
  <2>3. WrittenOK(st)'
    <3>1. Genuine(Tail(wire[st]), nextID'[scope[st]], Known')
      BY <1>w, <2>1, GenuineTail
    <3>2. wire'[st] = Tail(wire[st]) BY <1>t, <2>1
    <3> QED BY <1>i, <1>6, <2>1, <3>1, <3>2 DEF WrittenOK, ServerQuiet
  <2> QED BY <1>6, <2>1, <2>2, <2>3, <1>q DEF ServerQuiet
<1>7. ASSUME NEW s \in Scopes, StreamEnds(s), ServerQuiet PROVE Fine
  <2>1. /\ wire' = [wire EXCEPT ![cur[s]] = <<>>] /\ cut \subseteq cut'
    BY <1>7 DEF StreamEnds
  <2>2. \A x \in Streams : wire'[x] = wire[x] \/ wire'[x] = <<>> BY <1>t, <2>1
  <2> QED BY <1>7, <2>1, <2>2, <1>q DEF ServerQuiet
<1>8. CASE (EnqueueInit \/ Receive) /\ ServerQuiet
  BY <1>8, <1>1 DEF EnqueueInit, Receive, netVars
<1>9. ASSUME NEW s \in Scopes,
             LoopTurns(s) \/ Accepted(s) \/ Rejected(s) \/ EnqueueEvent(s), ServerQuiet
      PROVE  Fine
  BY <1>9, <1>1 DEF LoopTurns, Accepted, Rejected, EnqueueEvent, netVars
<1>10. Still /\ ServerQuiet => Fine BY <1>1 DEF Still
<1> QED
  BY <1>1, <1>2, <1>3, <1>4, <1>5, <1>6, <1>7, <1>8, <1>9, <1>10, Zenon DEF StreamSteps

(* What a streamLoop has in front of it continues what it has read.        *)
InFront(s) ==
    cur[s] # NoStream =>
        /\ Resumes(wire[cur[s]], lastEventID[s])
        /\ (cur[s] \notin cut /\ pc[cur[s]] = "streaming") =>
             Newest(wire[cur[s]], lastEventID[s]) = last[cur[s]]

(* A handler resumes where its streamLoop is and writes what comes next;   *)
(* the streamLoop reads what comes next.                                   *)
LEMMA InFrontNext ==
    ASSUME TypeInv, GaplessStream, StepTypes, ClientTypeOK, RequestsOK, WireOK, StreamSteps
    PROVE  \A s \in Scopes : InFront(s)'
PROOF
<1>t. /\ nextID \in [Scopes -> Nat] /\ last \in [Streams -> Nat]
      /\ buf \in [Streams -> Seq(Events)] /\ wire \in [Streams -> Seq(Events)]
  BY DEF TypeInv, TypeOK, ClientTypeOK
<1>i. \A s \in Scopes : InFront(s) BY DEF WireOK, InFront
<1>u. \A st \in Streams : pc[st] \in Unattached => wire[st] = <<>> BY DEF WireOK
<1>e. \A seen : Resumes(<<>>, seen) /\ Newest(<<>>, seen) = seen BY DEF Resumes, Newest
<1> DEFINE Fine == \A s \in Scopes : InFront(s)'
<1> USE DEF Goto, GotoLoop
(* The handler does not write, and the streamLoop does not read.           *)
<1>q. ASSUME NEW s \in Scopes, cur'[s] = cur[s], lastEventID'[s] = lastEventID[s],
             cut \subseteq cut',
             cur[s] # NoStream => /\ wire'[cur[s]] = wire[cur[s]] /\ last'[cur[s]] = last[cur[s]]
                                  /\ pc'[cur[s]] = "streaming" => pc[cur[s]] = "streaming"
      PROVE  InFront(s)'
  BY <1>q, <1>i DEF InFront, StepTypes
<1>1. CASE UNCHANGED <<cur, lastEventID, wire>> /\ cut \subseteq cut' /\ ServerQuiet
  <2>1. \A s \in Scopes : cur[s] # NoStream => cur[s] \in Streams BY DEF StepTypes
  <2> QED BY <1>1, <1>q, <2>1 DEF ServerQuiet
<1>2. CASE Still /\ Emit
  <2>1. \A st \in Streams : pc'[st] = pc[st] BY <1>2, Distinct DEF Emit, StepTypes
  <2>2. \A s \in Scopes : cur[s] # NoStream => cur[s] \in Streams BY DEF StepTypes
  <2> QED BY <1>2, <1>q, <2>1, <2>2 DEF Still, Emit
<1>3. ASSUME NEW st \in Streams, Still, HandlerSteps(st) \/ GetHangup(st) PROVE Fine
  <2>0. \A s \in Scopes : cur[s] # NoStream => cur[s] \in Streams BY DEF StepTypes
  <2>1. CASE GetAttach(st, asked[st])
    <3>1. /\ pc[st] = "attach" /\ pc' = [pc EXCEPT ![st] = "streaming"]
          /\ last' = [last EXCEPT ![st] = asked[st]]
          /\ UNCHANGED <<cur, lastEventID, wire>> /\ cut \subseteq cut'
      BY <1>3, <2>1 DEF GetAttach, Still
    <3>2. wire[st] = <<>> BY <1>u, <3>1 DEF Unattached
    <3>3. ASSUME NEW s \in Scopes, cur[s] = st PROVE InFront(s)'
      <4>1. asked[st] = lastEventID[s] BY <3>1, <3>3 DEF RequestsOK, StepTypes, Unattached
      <4>2. last'[st] = lastEventID[s] BY <1>t, <3>1, <4>1
      <4> QED BY <1>e, <3>1, <3>2, <3>3, <4>2 DEF InFront
    <3>4. \A x \in Streams : x # st => pc'[x] = pc[x] /\ last'[x] = last[x]
      BY <1>t, <3>1 DEF StepTypes
    <3> QED BY <1>q, <2>0, <3>1, <3>3, <3>4
  <2>2. CASE GetChecked(st) \/ GetGone(st, asked[st]) \/ GetFinish(st) \/ GetDetach(st)
               \/ GetHangup(st)
    <3>1. /\ UNCHANGED <<cur, lastEventID, wire, last>> /\ cut \subseteq cut'
          /\ \A x \in Streams : pc'[x] = "streaming" => pc[x] = "streaming"
      BY <1>3, <2>2 DEF GetChecked, GetGone, GetFinish, GetDetach, GetHangup, Still, chanVars,
                        StepTypes
    <3> QED BY <1>q, <2>0, <3>1
  <2> QED BY <1>3, <2>1, <2>2 DEF HandlerSteps, ServerAttach
<1>4. ASSUME NEW st \in Streams, ServerWrite(st) PROVE Fine
  <2> DEFINE ev == Head(buf[st])
  <2>0. \A s \in Scopes : cur[s] # NoStream => cur[s] \in Streams BY DEF StepTypes
  <2>1. /\ pc[st] = "streaming" /\ UNCHANGED <<pc, cut, cur, lastEventID>>
        /\ last' = [last EXCEPT ![st] = ev.id]
        /\ wire' = IF st \in cut THEN wire ELSE [wire EXCEPT ![st] = Append(@, ev)]
    BY <1>4 DEF ServerWrite, GetWrite, loopVars
  <2>2. buf[st] \in Seq(Events) /\ buf[st] # <<>> /\ ev \in Events
    BY <1>4, <1>t, WriteTypes
  <2>3. Follows(ev.id, last[st])
    <3>1. Resumes(buf[st], last[st]) BY <2>1 DEF GaplessStream
    <3> QED BY <1>t, <2>2, <3>1, HeadFollows
  <2> HIDE DEF ev
  <2>4. \A x \in Streams : x # st => wire'[x] = wire[x] /\ last'[x] = last[x]
    BY <1>t, <2>1
  <2>5. ASSUME NEW s \in Scopes, cur[s] = st, st \in cut PROVE InFront(s)'
    BY <1>i, <2>1, <2>5 DEF InFront
  <2>6. ASSUME NEW s \in Scopes, cur[s] = st, st \notin cut PROVE InFront(s)'
    <3>1. Resumes(wire[st], lastEventID[s]) /\ Newest(wire[st], lastEventID[s]) = last[st]
      BY <1>i, <2>1, <2>6 DEF InFront, StepTypes
    <3>2. Genuine(wire[st], nextID[scope[st]], Known) /\ nextID[scope[st]] \in Nat
      BY <1>t DEF WireOK, StepTypes
    <3>3. lastEventID[s] \in Nat /\ wire[st] \in Seq(Events) /\ last[st] \in Nat
      BY <1>t DEF StepTypes
    <3>4. /\ Resumes(Append(wire[st], ev), lastEventID[s])
          /\ Newest(Append(wire[st], ev), lastEventID[s]) = ev.id
      BY <2>2, <2>3, <3>1, <3>2, <3>3, WrittenResumes
    <3>5. wire'[st] = Append(wire[st], ev) /\ last'[st] = ev.id BY <1>t, <2>1, <2>6
    <3> QED BY <2>1, <2>6, <3>4, <3>5 DEF InFront
  <2> QED BY <1>q, <2>0, <2>1, <2>4, <2>5, <2>6
<1>5. ASSUME NEW s \in Scopes, NEW st \in Streams, Dial(s, st) PROVE Fine
  <2>0. \A t \in Scopes : cur[t] # NoStream => cur[t] \in Streams BY DEF StepTypes
  <2>1. /\ pc[st] = "idle" /\ pc' = [pc EXCEPT ![st] = "check"]
        /\ cur' = [cur EXCEPT ![s] = st] /\ UNCHANGED <<wire, cut, lastEventID, last>>
    BY <1>5 DEF Dial, GetLookup
  <2>2. \A t \in Scopes : t # s => cur'[t] = cur[t] BY <2>1 DEF StepTypes
  <2>3. \A x \in Streams : pc'[x] = "streaming" => pc[x] = "streaming"
    BY <2>1 DEF StepTypes
  <2>4. wire[st] = <<>> BY <1>u, <2>1 DEF Unattached
  <2>5. cur'[s] = st /\ pc'[st] = "check" BY <2>1 DEF StepTypes
  <2>6. InFront(s)' BY <1>e, <2>1, <2>4, <2>5 DEF InFront
  <2> QED BY <1>q, <2>0, <2>1, <2>2, <2>3, <2>6
<1>6. ASSUME NEW s \in Scopes, ReadEvent(s), ServerQuiet PROVE Fine
  <2>1. PICK st \in Streams : st = cur[s] BY <1>6, ReadTypes
  <2>2. /\ wire[st] \in Seq(Events) /\ wire[st] # <<>>
        /\ wire' = [wire EXCEPT ![st] = Tail(@)] /\ UNCHANGED <<cur, cut>>
    BY <1>6, <2>1, ReadTypes DEF ReadEvent
  <2> DEFINE ev == Head(wire[st])
  <2>3. lastEventID' = [lastEventID EXCEPT ![s] = ev.id] /\ ev.id \in Nat
    <3>1. /\ lastEventID' = [lastEventID EXCEPT ![s] = ev.id] /\ ev.id \in 1 .. nextID[s]
      BY <1>6, <1>t, <2>1, ReadsNext
    <3> QED BY <3>1
  <2>4. Resumes(wire[st], lastEventID[s]) /\ lastEventID[s] \in Nat
    BY <1>i, <2>1 DEF InFront, StepTypes
  <2>5. \A e \in Events : e.id \in Nat BY DEF Events
  <2>6. /\ Resumes(Tail(wire[st]), ev.id)
        /\ Newest(Tail(wire[st]), ev.id) = Newest(wire[st], lastEventID[s])
    BY <2>2, <2>4, <2>5, ResumesTail
  <2> HIDE DEF ev
  <2>7. wire'[st] = Tail(wire[st]) /\ lastEventID'[s] = ev.id
    BY <1>t, <2>2, <2>3 DEF StepTypes
  <2>8. pc'[st] = pc[st] /\ last'[st] = last[st] /\ cur'[s] = st
    BY <1>6, <2>1, <2>2 DEF ServerQuiet
  <2>9. InFront(s)'
    BY <1>i, <2>1, <2>2, <2>6, <2>7, <2>8 DEF InFront, StepTypes
  <2>10. ASSUME NEW t \in Scopes, t # s PROVE InFront(t)'
    <3>1. cur[t] # st BY <2>1, <2>10, OwnHandler DEF StepTypes
    <3>2. cur[t] # NoStream => cur[t] \in Streams /\ wire'[cur[t]] = wire[cur[t]]
      BY <1>t, <2>2, <3>1 DEF StepTypes
    <3>3. lastEventID'[t] = lastEventID[t] BY <2>3, <2>10 DEF StepTypes
    <3> QED BY <1>6, <1>q, <2>2, <3>2, <3>3 DEF ServerQuiet
  <2> QED BY <2>9, <2>10
<1>7. ASSUME NEW s \in Scopes, StreamEnds(s), ServerQuiet PROVE Fine
  <2>1. PICK st \in Streams : st = cur[s]
    BY <1>7 DEF StreamEnds, RequestsOK, StepTypes
  <2>2. /\ wire' = [wire EXCEPT ![st] = <<>>] /\ cut \subseteq cut'
        /\ cur' = [cur EXCEPT ![s] = NoStream] /\ UNCHANGED lastEventID
    BY <1>7, <2>1 DEF StreamEnds
  <2>3. InFront(s)' BY <2>2 DEF InFront, StepTypes
  <2>4. ASSUME NEW t \in Scopes, t # s PROVE InFront(t)'
    <3>1. cur[t] # st BY <2>1, <2>4, OwnHandler DEF StepTypes
    <3>2. cur[t] # NoStream => cur[t] \in Streams /\ wire'[cur[t]] = wire[cur[t]]
      BY <1>t, <2>2, <3>1 DEF StepTypes
    <3> QED BY <1>7, <1>q, <2>2, <2>4, <3>2 DEF ServerQuiet, StepTypes
  <2> QED BY <2>3, <2>4
<1>8. ASSUME NEW s \in Scopes, Rejected(s), ServerQuiet PROVE Fine
  <2>1. /\ UNCHANGED <<wire, cut, lastEventID>> /\ cur' = [cur EXCEPT ![s] = NoStream]
    BY <1>8 DEF Rejected, netVars
  <2>2. InFront(s)' BY <2>1 DEF InFront, StepTypes
  <2>3. \A t \in Scopes : cur[t] # NoStream => cur[t] \in Streams BY DEF StepTypes
  <2>4. ASSUME NEW t \in Scopes, t # s PROVE InFront(t)'
    BY <1>8, <1>q, <2>1, <2>3, <2>4 DEF ServerQuiet, StepTypes
  <2> QED BY <2>2, <2>4
<1>9. CASE (EnqueueInit \/ Receive) /\ ServerQuiet
  BY <1>9, <1>1 DEF EnqueueInit, Receive, loopVars, netVars
<1>10. ASSUME NEW s \in Scopes, LoopTurns(s) \/ Accepted(s) \/ EnqueueEvent(s), ServerQuiet
      PROVE  Fine
  BY <1>10, <1>1 DEF LoopTurns, Accepted, EnqueueEvent, netVars
<1>11. CASE Still /\ ServerQuiet BY <1>11, <1>1 DEF Still
<1> QED
  BY <1>2, <1>3, <1>4, <1>5, <1>6, <1>7, <1>8, <1>9, <1>10, <1>11, Zenon DEF StreamSteps

(* The two together.                                                       *)
LEMMA WireNext ==
    ASSUME ServerInv, ClientInv, [Next]_vars, StreamSteps
    PROVE  WireOK'
PROOF
<1>1. /\ TypeInv /\ ChanInv /\ GaplessStream /\ EmittedGenuine
      /\ StepTypes /\ ClientTypeOK /\ RequestsOK /\ WireOK
  BY TypesOfStep DEF ServerInv, ClientInv
<1>2. \A st \in Streams : WrittenOK(st)' BY <1>1, WrittenNext
<1>3. \A s \in Scopes : InFront(s)' BY <1>1, InFrontNext
<1> QED BY <1>2, <1>3 DEF WireOK, WrittenOK, InFront

-----------------------------------------------------------------------------
(* The order of what has been read.                                        *)

Items == [scope : Scopes, id : Nat]

(* What a streamLoop, enqueue and Receive do to recv, item by item.        *)
Grown(item) ==
    /\ Len(recv') = Len(recv) + 1
    /\ \A i \in 1 .. Len(recv) : recv'[i] = recv[i]
    /\ recv'[Len(recv) + 1] = item

Shrunk ==
    /\ Len(recv) \in Nat \ {0} /\ Len(recv') = Len(recv) - 1
    /\ \A i \in 1 .. Len(recv) - 1 : recv'[i] = recv[i + 1]

PathTypes ==
    /\ recv \in Seq(Items) /\ Len(recv) \in Nat
    /\ \A j \in 1 .. Len(recv) : recv[j].id \in Nat
    /\ received \in [Scopes -> Nat]
    /\ held \in [Scopes -> Events] /\ nextID \in [Scopes -> Nat]
    /\ StepTypes

(* They follow from the two type invariants.                               *)
LEMMA TypesOfPath == TypeInv /\ ClientInv => PathTypes
PROOF
<1> SUFFICES ASSUME TypeInv, ClientInv PROVE PathTypes
  OBVIOUS
<1>1. recv \in Seq(Items) /\ received \in [Scopes -> Nat] /\ held \in [Scopes -> Events]
  BY DEF ClientInv, ClientTypeOK, Items
<1>2. Len(recv) \in Nat /\ \A j \in 1 .. Len(recv) : recv[j] \in Items BY <1>1
<1>3. \A item \in Items : item.id \in Nat BY DEF Items
<1> QED BY <1>1, <1>2, <1>3, TypesOfStep DEF PathTypes, TypeInv, TypeOK

(* A sequence with one element more.                                       *)
LEMMA OneMore ==
    ASSUME NEW S, NEW q \in Seq(S), NEW e \in S
    PROVE  /\ Len(Append(q, e)) = Len(q) + 1 /\ Append(q, e)[Len(q) + 1] = e
           /\ \A i \in 1 .. Len(q) : Append(q, e)[i] = q[i]
PROOF OBVIOUS

(* enqueue puts an item at the end of recv, or drops it after Close.       *)
LEMMA Enqueued ==
    ASSUME recv \in Seq(Items), NEW item, item \in Items, Enqueue(item)
    PROVE  Grown(item) \/ (Done /\ UNCHANGED recv)
PROOF BY OneMore DEF Enqueue, Grown

(* Receive takes the first item.                                           *)
LEMMA Taken == recv \in Seq(Items) /\ Receive => Shrunk /\ Head(recv) = recv[1]
PROOF BY TailRest DEF Receive, Shrunk

(* What a step may do to the events of scope s on their way.               *)
Untouched(s) ==
    /\ lastEventID'[s] = lastEventID[s]
    /\ loop'[s] = "enqueue" <=> loop[s] = "enqueue"
    /\ loop[s] = "enqueue" => held'[s] = held[s]

Moved(s) ==
    \/ UNCHANGED recv /\ received'[s] = received[s] /\ Untouched(s)
    \/ /\ UNCHANGED recv /\ received'[s] = received[s]
       /\ loop[s] # "enqueue" /\ loop'[s] = "enqueue"
       /\ lastEventID'[s] = held'[s].id /\ held'[s].id > lastEventID[s]
       /\ held'[s].id \in 1 .. nextID[s] /\ Follows(held'[s].id, lastEventID[s])
    \/ /\ loop[s] = "enqueue" /\ loop'[s] # "enqueue"
       /\ lastEventID'[s] = lastEventID[s] /\ received'[s] = received[s]
       /\ Grown(Item(s, held[s].id)) \/ (Done /\ UNCHANGED recv)
    \/ /\ \E item \in Items : /\ item.scope = s => item.id = 0
                              /\ item.id = 0 => item = InitItem
                              /\ Grown(item)
       /\ Untouched(s) /\ received'[s] = received[s]
    \/ /\ Shrunk /\ Untouched(s)
       /\ received'[s] = IF OfScope(s, 1) THEN recv[1].id ELSE received[s]

(* Every step does one of these to every scope.                            *)
LEMMA StepsMove ==
    ASSUME PathTypes, ClientTypeOK, RequestsOK, WireOK, Increasing, StreamSteps
    PROVE  (Done => Done') /\ \A s \in Scopes : Moved(s)
PROOF
<1> USE DEF PathTypes, StepTypes
<1> DEFINE Fine == (Done => Done') /\ \A s \in Scopes : Moved(s)
<1>q. ASSUME UNCHANGED <<recv, received, lastEventID, held>>, Done => Done',
             \A s \in Scopes : loop'[s] = "enqueue" <=> loop[s] = "enqueue"
      PROVE  Fine
  BY <1>q DEF Moved, Untouched
<1>1. CASE Still BY <1>1, <1>q DEF Still
<1>2. ASSUME NEW st \in Streams, ServerWrite(st) PROVE Fine
  BY <1>2, <1>q DEF ServerWrite, loopVars, Done
<1>3. ASSUME NEW s \in Scopes, NEW st \in Streams, Dial(s, st) PROVE Fine
  BY <1>3, <1>q DEF Dial, GotoLoop, Done
<1>4. ASSUME NEW s \in Scopes, LoopTurns(s) PROVE Fine
  BY <1>4, <1>q DEF LoopTurns, GotoLoop, Done
<1>5. ASSUME NEW s \in Scopes, Accepted(s) \/ Rejected(s) \/ StreamEnds(s) PROVE Fine
  BY <1>5, <1>q DEF Accepted, Rejected, AfterGone, StreamEnds, AfterStream, GotoLoop, Done
<1>6. CASE EnqueueInit
  <2>1. /\ InitItem \in Items /\ InitItem.id = 0 BY DEF InitItem, Item, Items, Scopes
  <2>2. /\ UNCHANGED <<closing, received, lastEventID, loop, held>>
        /\ Grown(InitItem) \/ UNCHANGED recv
    BY <1>6, <2>1, Enqueued DEF EnqueueInit, loopVars
  <2> QED BY <2>1, <2>2 DEF Moved, Untouched, Done
<1>7. CASE Receive
  <2>1. /\ UNCHANGED <<closing, lastEventID, loop, held>>
        /\ received' = IF Head(recv) = InitItem THEN received
                       ELSE [received EXCEPT ![Head(recv).scope] = Head(recv).id]
    BY <1>7 DEF Receive, loopVars
  <2>3. InitItem.id = 0 BY DEF InitItem, Item
  <2>4. Shrunk /\ Head(recv) = recv[1] BY <1>7, Taken
  <2>5. 1 \in 1 .. Len(recv) BY <2>4 DEF Shrunk
  <2>6. recv[1].id = 0 <=> recv[1] = InitItem BY <2>3, <2>5 DEF Increasing
  <2>7. ASSUME NEW s \in Scopes
        PROVE  received'[s] = IF OfScope(s, 1) THEN recv[1].id ELSE received[s]
    BY <2>1, <2>4, <2>6 DEF OfScope
  <2> QED BY <2>1, <2>4, <2>7 DEF Moved, Untouched, Done
<1>8. ASSUME NEW s \in Scopes, ReadEvent(s) PROVE Fine
  <2> DEFINE ev == Head(wire[cur[s]])
  <2>1. /\ UNCHANGED <<closing, recv, received>>
        /\ held' = [held EXCEPT ![s] = ev] /\ loop[s] = "read"
        /\ \A t \in Scopes : t # s => (loop'[t] = "enqueue" <=> loop[t] = "enqueue")
        /\ loop'[s] = "enqueue"
    BY <1>8 DEF ReadEvent, Started
  <2>2. /\ ev.id \in 1 .. nextID[s] /\ ev.id > lastEventID[s] /\ Follows(ev.id, lastEventID[s])
        /\ lastEventID' = [lastEventID EXCEPT ![s] = ev.id]
    BY <1>8, ReadsNext
  <2> HIDE DEF ev
  <2>3. \A t \in Scopes : t # s => held'[t] = held[t] /\ lastEventID'[t] = lastEventID[t]
    BY <2>1, <2>2
  <2>4. held'[s] = ev /\ lastEventID'[s] = ev.id BY <2>1, <2>2
  <2>5. Moved(s) BY <2>1, <2>2, <2>4 DEF Moved
  <2> QED BY <2>1, <2>3, <2>5 DEF Moved, Untouched, Done
<1>9. ASSUME NEW s \in Scopes, EnqueueEvent(s) PROVE Fine
  <2> DEFINE item == Item(s, held[s].id)
  <2>1. /\ UNCHANGED <<closing, received, lastEventID>>
        /\ loop[s] = "enqueue" /\ loop' = [loop EXCEPT ![s] = "read"]
        /\ held' = [held EXCEPT ![s] = NoEvent] /\ Enqueue(item)
    BY <1>9 DEF EnqueueEvent, GotoLoop
  <2>2. item \in Items /\ item.scope = s /\ item.id # 0
    <3>1. held[s].id # 0 /\ held[s].id \in Nat BY <2>1 DEF Increasing, Events
    <3> QED BY <3>1 DEF Item, Items
  <2>3. Grown(item) \/ (Done /\ UNCHANGED recv) BY <2>1, <2>2, Enqueued
  <2>4. Moved(s) BY <2>1, <2>3 DEF Moved
  <2> HIDE DEF item
  <2>5. ASSUME NEW t \in Scopes, t # s PROVE Moved(t)
    <3>1. Untouched(t) /\ received'[t] = received[t] BY <2>1, <2>5 DEF Untouched
    <3> QED BY <2>2, <2>3, <2>5, <3>1 DEF Moved
  <2> QED BY <2>1, <2>4, <2>5 DEF Done
<1> HIDE DEF PathTypes, StepTypes
<1> QED
  BY <1>1, <1>2, <1>3, <1>4, <1>5, <1>6, <1>7, <1>8, <1>9, Zenon DEF StreamSteps

(* Increasing, for one scope.                                              *)
IncreasingAt(s) ==
    /\ loop[s] = "enqueue" => held[s].id = lastEventID[s] /\ lastEventID[s] # 0
    /\ BeforeHeld(s, received[s])
    /\ lastEventID[s] <= nextID[s]
    /\ \A j \in 1 .. Len(recv) : OfScope(s, j) =>
         /\ received[s] < recv[j].id /\ BeforeHeld(s, recv[j].id)
         /\ \A i \in 1 .. j - 1 : OfScope(s, i) => recv[i].id < recv[j].id

(* Whatever is done, the events of a scope stay in order.                  *)
LEMMA IncreasingMoves ==
    ASSUME PathTypes, NEW s \in Scopes, IncreasingAt(s), Moved(s),
           nextID'[s] \in Nat, nextID'[s] >= nextID[s]
    PROVE  IncreasingAt(s)'
PROOF
<1> DEFINE n == Len(recv)
           L == lastEventID[s]
           r == received[s]
<1>t. /\ n \in Nat /\ L \in Nat /\ r \in Nat /\ nextID[s] \in Nat
      /\ \A j \in 1 .. n : recv[j].id \in Nat
      /\ held[s].id \in Nat
  BY DEF PathTypes, StepTypes, Events
<1>1. /\ loop[s] = "enqueue" => held[s].id = L /\ L # 0
      /\ BeforeHeld(s, r) /\ L <= nextID[s]
      /\ \A j \in 1 .. n : OfScope(s, j) =>
           /\ r < recv[j].id /\ BeforeHeld(s, recv[j].id)
           /\ \A i \in 1 .. j - 1 : OfScope(s, i) => recv[i].id < recv[j].id
  BY DEF IncreasingAt
<1>2. CASE UNCHANGED recv /\ received'[s] = received[s] /\ Untouched(s)
  BY <1>t, <1>2 DEF IncreasingAt, Untouched, OfScope, BeforeHeld
<1>3. ASSUME UNCHANGED recv, received'[s] = received[s],
             loop[s] # "enqueue", loop'[s] = "enqueue",
             lastEventID'[s] = held'[s].id, held'[s].id > L, held'[s].id \in 1 .. nextID[s]
      PROVE  IncreasingAt(s)'
  <2> DEFINE id == held'[s].id
  <2>1. \A j \in 1 .. n : OfScope(s, j) => recv[j].id <= L /\ r < recv[j].id
    BY <1>1, <1>3 DEF BeforeHeld
  <2>2. r <= L BY <1>1, <1>3 DEF BeforeHeld
  <2> HIDE DEF id, n, L, r
  <2>3. id \in Nat /\ id > L /\ id <= nextID'[s] /\ id # 0
    BY <1>t, <1>3 DEF id
  <2>4. r < id /\ \A j \in 1 .. n : OfScope(s, j) => recv[j].id < id
    BY <1>t, <2>1, <2>2, <2>3
  <2> QED BY <1>1, <1>3, <2>3, <2>4 DEF IncreasingAt, OfScope, BeforeHeld, id, n, L, r
<1>4. ASSUME loop[s] = "enqueue", loop'[s] # "enqueue",
             lastEventID'[s] = L, received'[s] = r,
             Grown(Item(s, held[s].id)) \/ (Done /\ UNCHANGED recv)
      PROVE  IncreasingAt(s)'
  <2>1. \A j \in 1 .. n : OfScope(s, j) => recv[j].id < L /\ r < recv[j].id
    BY <1>1, <1>4 DEF BeforeHeld
  <2>2. r < L /\ held[s].id = L /\ L # 0 BY <1>1, <1>4 DEF BeforeHeld
  <2>3. CASE UNCHANGED recv
    BY <1>t, <1>1, <1>4, <2>1, <2>2, <2>3 DEF IncreasingAt, OfScope, BeforeHeld
  <2>4. CASE Grown(Item(s, held[s].id))
    <3>1. /\ Len(recv') = n + 1 /\ \A i \in 1 .. n : recv'[i] = recv[i]
          /\ recv'[n + 1].id = L
      BY <2>2, <2>4 DEF Grown, Item
    <3> HIDE DEF n, L, r
    <3>2. ASSUME NEW j \in 1 .. n + 1, OfScope(s, j)'
          PROVE  /\ r < recv'[j].id /\ recv'[j].id <= L
                 /\ \A i \in 1 .. j - 1 : OfScope(s, i)' => recv'[i].id < recv'[j].id
      <4>1. CASE j \in 1 .. n
        <5>1. \A i \in 1 .. j : recv'[i] = recv[i] BY <1>t, <3>1, <4>1
        <5>2. OfScope(s, j) BY <3>1, <3>2, <4>1 DEF OfScope
        <5>3. recv[j].id < L /\ r < recv[j].id BY <2>1, <4>1, <5>2 DEF n, L, r
        <5>4. \A i \in 1 .. j - 1 : OfScope(s, i) => recv[i].id < recv[j].id
          BY <1>1, <4>1, <5>2 DEF n, L, r
        <5>5. recv'[j] = recv[j] BY <3>1, <4>1
        <5>6. recv[j].id \in Nat /\ r \in Nat /\ L \in Nat BY <1>t, <4>1 DEF n, L, r
        <5>7. r < recv'[j].id /\ recv'[j].id <= L BY <5>3, <5>5, <5>6
        <5>8. ASSUME NEW i \in 1 .. j - 1, OfScope(s, i)' PROVE recv'[i].id < recv'[j].id
          <6>1. i \in 1 .. j BY <4>1
          <6>2. recv'[i] = recv[i] BY <5>1, <6>1
          <6>3. OfScope(s, i) BY <5>8, <6>2 DEF OfScope
          <6> QED BY <5>4, <5>5, <5>8, <6>2, <6>3
        <5> QED BY <5>7, <5>8
      <4>2. CASE j = n + 1
        <5>1. \A i \in 1 .. n : OfScope(s, i)' => recv'[i].id < L
          BY <2>1, <3>1 DEF OfScope, n, L, r
        <5> QED BY <1>t, <2>2, <3>1, <4>2, <5>1
      <4> QED BY <1>t, <4>1, <4>2
    <3>3. lastEventID'[s] <= nextID'[s] BY <1>t, <1>1, <1>4 DEF L
    <3>4. r <= L BY <1>t, <2>2
    <3>5. BeforeHeld(s, received[s])' BY <1>4, <3>4 DEF BeforeHeld, L, r
    <3>6. \A j \in 1 .. Len(recv') : OfScope(s, j)' =>
            /\ received'[s] < recv'[j].id /\ recv'[j].id <= lastEventID'[s]
            /\ \A i \in 1 .. j - 1 : OfScope(s, i)' => recv'[i].id < recv'[j].id
      BY <1>4, <3>1, <3>2 DEF L, r
    <3> QED BY <1>4, <3>3, <3>5, <3>6 DEF IncreasingAt, BeforeHeld
  <2> QED BY <1>4, <2>3, <2>4
<1>5. ASSUME NEW item \in Items, item.scope = s => item.id = 0, Grown(item),
             Untouched(s), received'[s] = r
      PROVE  IncreasingAt(s)'
  <2>1. /\ Len(recv') = n + 1 /\ \A i \in 1 .. n : recv'[i] = recv[i]
        /\ recv'[n + 1].scope = s => recv'[n + 1].id = 0
    BY <1>5 DEF Grown
  <2> HIDE DEF n, L, r
  <2>2. ASSUME NEW j \in 1 .. n + 1, OfScope(s, j)'
        PROVE  /\ r < recv'[j].id /\ BeforeHeld(s, recv'[j].id)
               /\ \A i \in 1 .. j - 1 : OfScope(s, i)' => recv'[i].id < recv'[j].id
    <3>1. j \in 1 .. n BY <1>t, <2>1, <2>2 DEF OfScope
    <3>2. \A i \in 1 .. j : recv'[i] = recv[i] BY <1>t, <2>1, <3>1
    <3>3. recv'[j] = recv[j] /\ OfScope(s, j) BY <2>1, <2>2, <3>1 DEF OfScope
    <3>4. /\ r < recv[j].id /\ BeforeHeld(s, recv[j].id)
          /\ \A i \in 1 .. j - 1 : OfScope(s, i) => recv[i].id < recv[j].id
      BY <1>1, <3>1, <3>3 DEF n, r
    <3>5. ASSUME NEW i \in 1 .. j - 1, OfScope(s, i)' PROVE recv'[i].id < recv'[j].id
      <4>1. i \in 1 .. j BY <3>1
      <4>2. recv'[i] = recv[i] BY <3>2, <4>1
      <4>3. OfScope(s, i) BY <3>5, <4>2 DEF OfScope
      <4> QED BY <3>3, <3>4, <3>5, <4>2, <4>3
    <3> QED BY <3>3, <3>4, <3>5
  <2> QED BY <1>t, <1>1, <1>5, <2>1, <2>2 DEF IncreasingAt, Untouched, BeforeHeld, n, L, r
<1>6. ASSUME Shrunk, Untouched(s), received'[s] = IF OfScope(s, 1) THEN recv[1].id ELSE r
      PROVE  IncreasingAt(s)'
  <2>1. /\ n \in Nat \ {0} /\ Len(recv') = n - 1
        /\ \A i \in 1 .. n - 1 : recv'[i] = recv[i + 1]
    BY <1>6 DEF Shrunk
  <2>2. OfScope(s, 1) => r < recv[1].id /\ BeforeHeld(s, recv[1].id)
    BY <1>1, <2>1
  <2> HIDE DEF n, L, r
  <2>3. ASSUME NEW j \in 1 .. n - 1, OfScope(s, j)'
        PROVE  /\ received'[s] < recv'[j].id /\ BeforeHeld(s, recv'[j].id)
               /\ \A i \in 1 .. j - 1 : OfScope(s, i)' => recv'[i].id < recv'[j].id
    <3> DEFINE k == j + 1
    <3>1. k \in 1 .. n /\ recv'[j] = recv[k] /\ 1 \in 1 .. k - 1 BY <1>t, <2>1
    <3>2. OfScope(s, k) BY <2>3, <3>1 DEF OfScope
    <3>3. /\ r < recv[k].id /\ BeforeHeld(s, recv[k].id)
          /\ \A i \in 1 .. k - 1 : OfScope(s, i) => recv[i].id < recv[k].id
      BY <1>1, <3>1, <3>2 DEF n, r
    <3>4. received'[s] < recv[k].id BY <1>6, <3>1, <3>3
    <3>5. ASSUME NEW i \in 1 .. j - 1, OfScope(s, i)' PROVE recv'[i].id < recv[k].id
      <4>1. i + 1 \in 1 .. k - 1 /\ i \in 1 .. n - 1 /\ recv'[i] = recv[i + 1]
        BY <1>t, <2>1
      <4>2. OfScope(s, i + 1) BY <3>5, <4>1 DEF OfScope
      <4> QED BY <3>3, <4>1, <4>2
    <3> QED BY <3>1, <3>3, <3>4, <3>5
  <2>4. BeforeHeld(s, received'[s]) BY <1>1, <1>6, <2>2 DEF r
  <2> QED BY <1>t, <1>1, <1>6, <2>1, <2>3, <2>4 DEF IncreasingAt, Untouched, BeforeHeld, L, r
<1> QED BY <1>2, <1>3, <1>4, <1>5, <1>6 DEF Moved

(* So they do in every step, and an item without an id stays the answer to *)
(* initialize.                                                             *)
LEMMA IncreasingNext ==
    ASSUME PathTypes, Increasing, NoSession \in Scopes, \A s \in Scopes : Moved(s),
           \A s \in Scopes : nextID[s] \in Nat /\ nextID'[s] \in Nat /\ nextID'[s] >= nextID[s]
    PROVE  Increasing'
PROOF
<1>1. \A s \in Scopes : IncreasingAt(s) BY DEF Increasing, IncreasingAt
<1>2. \A s \in Scopes : IncreasingAt(s)' BY <1>1, IncreasingMoves
(* One scope tells what becomes of recv.                                   *)
<1>3. \/ UNCHANGED recv \/ Shrunk
      \/ \E item : Grown(item) /\ (item.id = 0 => item = InitItem)
  <2>1. loop[NoSession] = "enqueue" => held[NoSession].id # 0 BY <1>1 DEF IncreasingAt
  <2>2. \A id : Item(NoSession, id).id = id BY DEF Item
  <2> QED BY <2>1, <2>2 DEF Moved
<1>i. \A j \in 1 .. Len(recv) : recv[j].id = 0 => recv[j] = InitItem BY DEF Increasing
<1>n. Len(recv) \in Nat BY DEF PathTypes
<1>4. \A j \in 1 .. Len(recv') : recv'[j].id = 0 => recv'[j] = InitItem
  <2>1. CASE UNCHANGED recv BY <1>i, <2>1
  <2>2. CASE Shrunk
    <3>1. ASSUME NEW j \in 1 .. Len(recv') PROVE j + 1 \in 1 .. Len(recv) /\ recv'[j] = recv[j + 1]
      BY <1>n, <2>2 DEF Shrunk
    <3> QED BY <1>i, <3>1
  <2>3. ASSUME NEW item, Grown(item), item.id = 0 => item = InitItem
        PROVE  \A j \in 1 .. Len(recv') : recv'[j].id = 0 => recv'[j] = InitItem
    <3>1. ASSUME NEW j \in 1 .. Len(recv'), j # Len(recv) + 1 PROVE j \in 1 .. Len(recv)
      BY <1>n, <2>3, <3>1 DEF Grown
    <3> QED BY <1>i, <2>3, <3>1 DEF Grown
  <2> QED BY <1>3, <2>1, <2>2, <2>3
<1> QED BY <1>2, <1>4 DEF Increasing, IncreasingAt

(* Chained, for one scope.                                                 *)
ChainedAt(s) ==
    \A i \in 0 .. Len(recv) :
        /\ \A j \in i + 1 .. Len(recv) :
             (LastBefore(s, i, j) /\ OfScope(s, j)) => Follows(recv[j].id, IDAt(s, i))
        /\ LastBefore(s, i, Len(recv) + 1) =>
             IF loop[s] = "enqueue" THEN Follows(lastEventID[s], IDAt(s, i))
             ELSE lastEventID[s] = IDAt(s, i)

(* Until the client is closed no event is dropped, so none is missing: a   *)
(* new item follows the newest one, and the item that is taken leaves the  *)
(* next one to follow it.                                                  *)
LEMMA ChainedMoves ==
    ASSUME PathTypes, NEW s \in Scopes, IncreasingAt(s), ChainedAt(s), Moved(s), ~Done
    PROVE  ChainedAt(s)'
PROOF
<1> DEFINE n == Len(recv)
           m == Len(recv')
           Of(k) == recv'[k].scope = s /\ recv'[k].id # 0
           Last(i, j) == (i = 0 \/ Of(i)) /\ \A k \in i + 1 .. j - 1 : ~Of(k)
           ID(i) == IF i = 0 THEN received'[s] ELSE recv'[i].id
           End(id) == IF loop'[s] = "enqueue" THEN Follows(lastEventID'[s], id)
                      ELSE lastEventID'[s] = id
           Goal == \A i \in 0 .. m :
             /\ \A j \in i + 1 .. m : (Last(i, j) /\ Of(j)) => Follows(recv'[j].id, ID(i))
             /\ Last(i, m + 1) => End(ID(i))
<1>g. SUFFICES Goal
  BY DEF ChainedAt, LastBefore, OfScope, IDAt
<1>n. n \in Nat BY DEF PathTypes
<1>1. \A i \in 0 .. n :
        /\ \A j \in i + 1 .. n :
             (LastBefore(s, i, j) /\ OfScope(s, j)) => Follows(recv[j].id, IDAt(s, i))
        /\ LastBefore(s, i, n + 1) =>
             IF loop[s] = "enqueue" THEN Follows(lastEventID[s], IDAt(s, i))
             ELSE lastEventID[s] = IDAt(s, i)
  BY DEF ChainedAt
<1>2. CASE UNCHANGED recv /\ received'[s] = received[s] /\ Untouched(s)
  BY <1>1, <1>2 DEF LastBefore, OfScope, IDAt, Untouched
<1>3. ASSUME UNCHANGED recv, received'[s] = received[s],
             loop[s] # "enqueue", loop'[s] = "enqueue",
             lastEventID'[s] = held'[s].id, Follows(held'[s].id, lastEventID[s])
      PROVE  Goal
  BY <1>1, <1>3 DEF LastBefore, OfScope, IDAt
<1>4. ASSUME loop[s] = "enqueue", loop'[s] # "enqueue", lastEventID'[s] = lastEventID[s],
             received'[s] = received[s], Grown(Item(s, held[s].id))
      PROVE  Goal
  <2> DEFINE L == lastEventID[s]
  <2>1. /\ m = n + 1 /\ \A k \in 1 .. n : recv'[k] = recv[k]
        /\ recv'[n + 1].scope = s /\ recv'[n + 1].id = L /\ L # 0
    BY <1>4 DEF Grown, Item, IncreasingAt
  <2> HIDE DEF n, m, L
  <2>2. ASSUME NEW i \in 0 .. m PROVE
          /\ \A j \in i + 1 .. m : (Last(i, j) /\ Of(j)) => Follows(recv'[j].id, ID(i))
          /\ Last(i, m + 1) => End(ID(i))
    <3>1. CASE i = n + 1
      <4>1. i + 1 .. m = {} /\ i # 0 BY <1>n, <2>1, <3>1
      <4>2. End(ID(i)) BY <1>4, <2>1, <3>1, <4>1 DEF L
      <4> QED BY <4>1, <4>2
    <3>2. CASE i \in 0 .. n
      <4>1. ID(i) = IDAt(s, i) BY <1>4, <1>n, <2>1, <3>2 DEF IDAt
      <4>2. ASSUME NEW j \in i + 1 .. n + 1, Last(i, j) PROVE LastBefore(s, i, j)
        <5>1. i = 0 \/ OfScope(s, i) BY <1>n, <2>1, <3>2, <4>2 DEF OfScope
        <5>2. ASSUME NEW k \in i + 1 .. j - 1 PROVE ~OfScope(s, k)
          <6>1. k \in 1 .. n BY <1>n, <3>2
          <6> QED BY <2>1, <4>2, <6>1 DEF OfScope
        <5> QED BY <5>1, <5>2 DEF LastBefore
      <4>3. ASSUME NEW j \in i + 1 .. m, Last(i, j), Of(j)
            PROVE  Follows(recv'[j].id, IDAt(s, i))
        <5>1. LastBefore(s, i, j) BY <2>1, <4>2, <4>3
        <5>2. CASE j = n + 1
          <6>1. LastBefore(s, i, n + 1) BY <5>1, <5>2
          <6>2. Follows(L, IDAt(s, i)) BY <1>1, <1>4, <3>2, <6>1 DEF n, L
          <6> QED BY <2>1, <5>2, <6>2
        <5>3. CASE j \in i + 1 .. n
          <6>1. recv'[j] = recv[j] BY <1>n, <2>1, <3>2, <5>3
          <6>2. OfScope(s, j) BY <4>3, <6>1 DEF OfScope
          <6> QED BY <1>1, <3>2, <5>1, <5>3, <6>1, <6>2 DEF n
        <5> QED BY <1>n, <2>1, <3>2, <5>2, <5>3
      <4>4. ~Last(i, m + 1)
        <5>1. n + 1 \in i + 1 .. (m + 1) - 1 BY <1>n, <2>1, <3>2
        <5>2. Of(n + 1) BY <2>1
        <5> QED BY <5>1, <5>2
      <4> QED BY <4>1, <4>3, <4>4
    <3> QED BY <1>n, <2>1, <3>1, <3>2
  <2> QED BY <2>2
<1>5. ASSUME NEW item \in Items, item.scope = s => item.id = 0, Grown(item),
             Untouched(s), received'[s] = received[s]
      PROVE  Goal
  <2>1. /\ m = n + 1 /\ \A k \in 1 .. n : recv'[k] = recv[k]
        /\ ~Of(n + 1)
    BY <1>5 DEF Grown
  <2> HIDE DEF n, m
  <2>2. ASSUME NEW i \in 0 .. m PROVE
          /\ \A j \in i + 1 .. m : (Last(i, j) /\ Of(j)) => Follows(recv'[j].id, ID(i))
          /\ Last(i, m + 1) => End(ID(i))
    <3>1. CASE i = n + 1
      <4>1. i + 1 .. m = {} /\ i # 0 BY <1>n, <2>1, <3>1
      <4>2. ~Of(i) BY <2>1, <3>1
      <4> QED BY <4>1, <4>2
    <3>2. CASE i \in 0 .. n
      <4>1. ID(i) = IDAt(s, i) BY <1>5, <1>n, <2>1, <3>2 DEF IDAt
      <4>2. ASSUME NEW j \in i + 1 .. n + 1, Last(i, j) PROVE LastBefore(s, i, j)
        <5>1. i = 0 \/ OfScope(s, i) BY <1>n, <2>1, <3>2, <4>2 DEF OfScope
        <5>2. ASSUME NEW k \in i + 1 .. j - 1 PROVE ~OfScope(s, k)
          <6>1. k \in 1 .. n BY <1>n, <3>2
          <6> QED BY <2>1, <4>2, <6>1 DEF OfScope
        <5> QED BY <5>1, <5>2 DEF LastBefore
      <4>3. ASSUME NEW j \in i + 1 .. m, Last(i, j), Of(j)
            PROVE  Follows(recv'[j].id, IDAt(s, i))
        <5>1. LastBefore(s, i, j) BY <2>1, <4>2, <4>3
        <5>2. j # n + 1 BY <2>1, <4>3
        <5>3. j \in i + 1 .. n BY <1>n, <2>1, <3>2, <5>2
        <5>4. recv'[j] = recv[j] BY <1>n, <2>1, <3>2, <5>3
        <5>5. OfScope(s, j) BY <4>3, <5>4 DEF OfScope
        <5> QED BY <1>1, <3>2, <5>1, <5>3, <5>4, <5>5 DEF n
      <4>4. ASSUME Last(i, m + 1) PROVE End(IDAt(s, i))
        <5>1. Last(i, n + 1) BY <1>n, <2>1, <3>2, <4>4
        <5>2. n + 1 \in i + 1 .. n + 1 BY <1>n, <3>2
        <5>3. LastBefore(s, i, n + 1) BY <4>2, <5>1, <5>2
        <5> QED BY <1>1, <1>5, <3>2, <5>3 DEF Untouched, n
      <4> QED BY <4>1, <4>3, <4>4
    <3> QED BY <1>n, <2>1, <3>1, <3>2
  <2> QED BY <2>2
<1>6. ASSUME Shrunk, Untouched(s),
             received'[s] = IF OfScope(s, 1) THEN recv[1].id ELSE received[s]
      PROVE  Goal
  <2>1. /\ n \in Nat \ {0} /\ m = n - 1
        /\ \A k \in 1 .. n - 1 : recv'[k] = recv[k + 1]
    BY <1>6 DEF Shrunk
  <2> HIDE DEF n, m
  <2>2. \A k \in 1 .. m : Of(k) <=> OfScope(s, k + 1) BY <2>1 DEF OfScope
  <2>3. ASSUME NEW i \in 0 .. m PROVE
          /\ \A j \in i + 1 .. m : (Last(i, j) /\ Of(j)) => Follows(recv'[j].id, ID(i))
          /\ Last(i, m + 1) => End(ID(i))
    (* The item before, with the one taken out in front of the others.     *)
    <3> DEFINE p == IF i # 0 THEN i + 1 ELSE IF OfScope(s, 1) THEN 1 ELSE 0
    <3>1. p \in 0 .. n /\ p <= i + 1 BY <2>1
    <3>2. ID(i) = IDAt(s, p)
      <4>1. CASE i = 0 BY <1>6, <4>1 DEF IDAt
      <4>2. CASE i # 0
        <5>1. i \in 1 .. n - 1 /\ i + 1 # 0 BY <2>1, <4>2
        <5> QED BY <2>1, <4>2, <5>1 DEF IDAt
      <4> QED BY <4>1, <4>2
    <3>3. ASSUME NEW j \in i + 1 .. m + 1, Last(i, j) PROVE LastBefore(s, p, j + 1)
      <4>1. p = 0 \/ OfScope(s, p) BY <2>1, <2>2, <3>3
      <4>2. ASSUME NEW k \in p + 1 .. j PROVE ~OfScope(s, k)
        <5>1. CASE k = 1
          <6>1. i = 0 /\ p = 0 BY <3>1, <4>2, <5>1
          <6> QED BY <5>1, <6>1
        <5>2. CASE k # 1
          <6>1. k - 1 \in i + 1 .. j - 1 /\ k - 1 \in 1 .. m BY <2>1, <3>1, <4>2, <5>2
          <6>2. ~Of(k - 1) BY <3>3, <6>1
          <6>3. (k - 1) + 1 = k BY <6>1
          <6> QED BY <2>2, <6>1, <6>2, <6>3
        <5> QED BY <5>1, <5>2
      <4>3. (j + 1) - 1 = j BY <2>1
      <4> QED BY <4>1, <4>2, <4>3 DEF LastBefore
    <3> HIDE DEF p
    <3>4. ASSUME NEW j \in i + 1 .. m, Last(i, j), Of(j)
          PROVE  Follows(recv'[j].id, IDAt(s, p))
      <4>1. /\ j \in i + 1 .. m + 1 /\ j \in 1 .. n - 1 /\ j \in 1 .. m
            /\ j + 1 \in p + 1 .. n
        BY <2>1, <3>1
      <4>2. LastBefore(s, p, j + 1) BY <3>3, <3>4, <4>1
      <4>3. OfScope(s, j + 1) /\ recv'[j] = recv[j + 1] BY <2>1, <2>2, <3>4, <4>1
      <4> QED BY <1>1, <3>1, <4>1, <4>2, <4>3 DEF n
    <3>5. ASSUME Last(i, m + 1) PROVE End(IDAt(s, p))
      <4>1. m + 1 \in i + 1 .. m + 1 /\ (m + 1) + 1 = n + 1 BY <2>1
      <4>2. LastBefore(s, p, n + 1) BY <3>3, <3>5, <4>1
      <4> QED BY <1>1, <1>6, <3>1, <4>2 DEF Untouched, n
    <3> QED BY <3>2, <3>4, <3>5
  <2> QED BY <2>3
<1> HIDE DEF Goal
<1> QED BY <1>2, <1>3, <1>4, <1>5, <1>6 DEF Moved

(* So it is in every step.                                                 *)
LEMMA ChainedNext ==
    ASSUME PathTypes, Increasing, Chained, Done => Done', \A s \in Scopes : Moved(s)
    PROVE  Chained'
PROOF
<1> SUFFICES ASSUME ~Done' PROVE \A s \in Scopes : ChainedAt(s)'
  BY DEF Chained, ChainedAt
<1>1. \A s \in Scopes : IncreasingAt(s) /\ ChainedAt(s)
  BY DEF Increasing, IncreasingAt, Chained, ChainedAt
<1> QED BY <1>1, ChainedMoves

-----------------------------------------------------------------------------
(* Sessions.                                                               *)

(* A session gets a stream when it is named, and its handler is refused    *)
(* only after the session was unregistered.                                *)
LEMMA SessionsNext ==
    ASSUME TypeInv, StepTypes, ClientTypeOK, RequestsOK, WireOK, SessionsOK,
           [Next]_vars, StreamSteps
    PROVE  SessionsOK'
PROOF
<1>k. Known \subseteq Known' /\ retired \subseteq retired'
  BY KnownGrows, SessionSteps DEF RegisterSession, UnregisterSession
<1>i. /\ \A s \in Scopes : loop[s] # "none" => s \in Known
      /\ \A st \in Streams : /\ pc[st] # "idle" => scope[st] \in Known
                             /\ pc[st] = "refused" => scope[st] \in retired
  BY DEF SessionsOK
<1> USE DEF StepTypes, Goto, GotoLoop
(* No loop starts, and no handler starts or is refused.                    *)
<1>q. ASSUME \A s \in Scopes : loop'[s] # "none" => loop[s] # "none" \/ s \in Known',
             UNCHANGED scope,
             \A st \in Streams : /\ pc'[st] # "idle" => pc[st] # "idle"
                                 /\ pc'[st] = "refused" => pc[st] = "refused"
      PROVE  SessionsOK'
  BY <1>q, <1>i, <1>k DEF SessionsOK
<1>1. CASE Still /\ ServerQuiet BY <1>1, <1>q DEF Still, ServerQuiet
<1>2. CASE Still /\ Emit
  <2>1. \A st \in Streams : pc'[st] = pc[st] BY <1>2, Distinct DEF Emit
  <2> QED BY <1>2, <1>q, <2>1 DEF Still, Emit
<1>3. ASSUME NEW st \in Streams, Still, HandlerSteps(st) \/ GetHangup(st)
      PROVE  SessionsOK'
  <2>1. /\ UNCHANGED <<loop, scope>> /\ pc[st] # "idle"
        /\ \A x \in Streams : x # st => pc'[x] = pc[x]
        /\ pc'[st] = "refused" => pc[st] = "check" /\ scope[st] # NoSession
                                    /\ scope[st] \notin sessions
    BY <1>3 DEF Still, HandlerSteps, GetChecked, ServerAttach, GetAttach, GetGone, GetFinish,
                GetDetach, GetHangup, chanVars
  <2>2. pc'[st] = "refused" => scope[st] \in retired BY <1>i, <2>1 DEF Known
  <2> QED BY <1>i, <1>k, <2>1, <2>2 DEF SessionsOK
<1>4. ASSUME NEW st \in Streams, ServerWrite(st) PROVE SessionsOK'
  BY <1>4, <1>q DEF ServerWrite, GetWrite, loopVars
<1>5. ASSUME NEW s \in Scopes, NEW st \in Streams, Dial(s, st) PROVE SessionsOK'
  <2>1. /\ loop[s] = "dial" /\ loop' = [loop EXCEPT ![s] = "wait"]
        /\ scope' = [scope EXCEPT ![st] = s] /\ pc' = [pc EXCEPT ![st] = "check"]
    BY <1>5 DEF Dial, GetLookup
  <2>2. s \in Known' BY <1>i, <1>k, <2>1
  <2>3. \A x \in Streams : x # st => scope'[x] = scope[x] /\ pc'[x] = pc[x] BY <2>1
  <2>4. scope'[st] = s /\ pc'[st] = "check" BY <2>1
  <2>5. \A t \in Scopes : loop'[t] # "none" => loop[t] # "none" BY <2>1
  <2> QED BY <1>i, <1>k, <2>2, <2>3, <2>4, <2>5 DEF SessionsOK
<1>6. ASSUME NEW s \in Scopes, ReadEvent(s), ServerQuiet PROVE SessionsOK'
  <2>1. nextID \in [Scopes -> Nat] BY DEF TypeInv, TypeOK
  <2> DEFINE sid == Head(wire[cur[s]]).msg.sid
  <2>2. sid \in Known BY <1>6, <2>1, ReadsNext
  <2>3. /\ loop[s] = "read"
        /\ \A t \in Scopes : loop'[t] # "none" => loop[t] # "none" \/ t = s \/ t = sid
    BY <1>6 DEF ReadEvent, Started
  <2> HIDE DEF sid
  <2>4. \A t \in Scopes : loop'[t] # "none" => loop[t] # "none" \/ t \in Known'
    BY <1>k, <2>2, <2>3
  <2> QED BY <1>6, <1>q, <2>4 DEF ServerQuiet
<1>7. ASSUME NEW s \in Scopes, LoopTurns(s), ServerQuiet PROVE SessionsOK'
  <2>1. \A t \in Scopes : loop'[t] # "none" => loop[t] # "none" \/ t = NoSession
    BY <1>7 DEF LoopTurns
  <2>2. NoSession \in Known' BY DEF Known
  <2> QED BY <1>7, <1>q, <2>1, <2>2 DEF ServerQuiet
<1>8. ASSUME NEW s \in Scopes,
             Accepted(s) \/ Rejected(s) \/ EnqueueEvent(s) \/ StreamEnds(s), ServerQuiet
      PROVE  SessionsOK'
  <2>1. loop[s] # "none" /\ \E label : loop' = [loop EXCEPT ![s] = label]
    BY <1>8 DEF Accepted, Rejected, EnqueueEvent, StreamEnds
  <2>2. \A t \in Scopes : loop'[t] # "none" => loop[t] # "none" BY <2>1
  <2> QED BY <1>8, <1>q, <2>2 DEF ServerQuiet
<1>9. CASE (EnqueueInit \/ Receive) /\ ServerQuiet
  BY <1>9, <1>q DEF EnqueueInit, Receive, loopVars, ServerQuiet
<1> HIDE DEF StepTypes
<1> QED
  BY <1>1, <1>2, <1>3, <1>4, <1>5, <1>6, <1>7, <1>8, <1>9, Zenon DEF StreamSteps

-----------------------------------------------------------------------------
(* The whole invariant.                                                    *)

(* Every step of the two together keeps the invariants of both.            *)
LEMMA ClientInvNext ==
    ASSUME ServerInv, ClientInv, [ClientNext]_allVars
    PROVE  ServerInv' /\ ClientInv'
PROOF
<1>1. TypeInv BY DEF ServerInv
<1>2. [Next]_vars /\ StreamSteps BY <1>1, ClientStep
<1>3. ServerInv' BY <1>2, ServerNextInv
<1>4. ClientTypeOK' /\ (asked \in [Streams -> Nat])' BY <1>1, ClientTypesNext
<1>5. \A s \in Scopes : nextID[s] \in Nat /\ nextID'[s] \in Nat /\ nextID'[s] >= nextID[s]
  BY <1>1, <1>2, NextIDGrows
<1>6. /\ StepTypes /\ PathTypes /\ NoSession \in Scopes
      /\ ClientTypeOK /\ RequestsOK /\ HandlersOK /\ WireOK /\ Increasing /\ Chained
      /\ SessionsOK
  BY <1>1, TypesOfStep, TypesOfPath DEF ClientInv, Scopes
<1>7. RequestsOK' BY <1>2, <1>6, RequestsNext
<1>8. HandlersOK' BY <1>2, <1>5, <1>6, HandlersNext
<1>9. WireOK' BY <1>2, WireNext
<1>10. (Done => Done') /\ \A s \in Scopes : Moved(s) BY <1>2, <1>6, StepsMove
<1>11. Increasing' BY <1>5, <1>6, <1>10, IncreasingNext
<1>12. Chained' BY <1>6, <1>10, ChainedNext
<1>13. SessionsOK' BY <1>1, <1>2, <1>6, SessionsNext
<1> QED BY <1>3, <1>4, <1>7, <1>8, <1>9, <1>11, <1>12, <1>13 DEF ClientInv

(* The client and the server together never leave the invariant.           *)
LEMMA ClientAlways == ClientSpec => [](ServerInv /\ ClientInv)
PROOF
<1>1. ClientInit => ServerInv /\ ClientInv
  BY ServerInit, ClientInvInit DEF ClientInit
<1>2. (ServerInv /\ ClientInv) /\ [ClientNext]_allVars => (ServerInv /\ ClientInv)'
  BY ClientInvNext
<1> QED BY <1>1, <1>2, PTL DEF ClientSpec

-----------------------------------------------------------------------------
(* What the application may rely on.                                       *)

(* One sequence of events after another.                                   *)
LEMMA ConcatResumes ==
    ASSUME NEW p \in Seq(Events), NEW q \in Seq(Events), NEW seen \in Nat,
           Resumes(p, seen), p # <<>> => Newest(p, seen) # 0,
           Resumes(q, Newest(p, seen))
    PROVE  Resumes(p \o q, seen)
PROOF
<1>1. CASE p = <<>>
  <2>1. p \o q = q BY <1>1
  <2> QED BY <1>1, <2>1 DEF Newest
<1>2. CASE p # <<>>
  <2> DEFINE r == p \o q
             a == Len(p)
             b == Len(q)
  <2>1. a \in Nat \ {0} /\ b \in Nat BY <1>2
  <2>2. /\ Len(r) = a + b
        /\ \A i \in 1 .. a : r[i] = p[i]
        /\ \A i \in 1 .. b : r[a + i] = q[i]
    OBVIOUS
  <2>3. \A i \in 1 .. a : p[i].id \in Nat
    <3>1. \A i \in 1 .. a : p[i] \in Events OBVIOUS
    <3> QED BY <3>1 DEF Events
  <2>4. /\ \A i \in 1 .. a : p[i].id = p[1].id + (i - 1)
        /\ seen # 0 => \A i \in 1 .. a : p[i].id = seen + i
    BY DEF Resumes
  <2>5. Newest(p, seen) = p[a].id /\ p[a].id # 0 BY <1>2 DEF Newest
  <2>6. \A i \in 1 .. b : q[i].id = p[a].id + i BY <2>5 DEF Resumes
  <2> HIDE DEF r, a, b
  <2>7. p[a].id = p[1].id + (a - 1) /\ p[1].id \in Nat /\ p[a].id \in Nat
    BY <2>1, <2>3, <2>4
  <2>8. ASSUME NEW i \in 1 .. a + b
        PROVE  r[i].id = r[1].id + (i - 1) /\ (seen # 0 => r[i].id = seen + i)
    <3>0. r[1] = p[1] BY <2>1, <2>2
    <3>1. CASE i \in 1 .. a BY <2>2, <2>4, <3>0, <3>1
    <3>2. CASE i \notin 1 .. a
      <4>1. i - a \in 1 .. b /\ a + (i - a) = i BY <2>1, <3>2
      <4>2. r[i] = q[i - a] BY <2>2, <4>1
      <4>3. r[i].id = p[a].id + (i - a) BY <2>6, <4>1, <4>2
      <4>4. seen # 0 => p[a].id = seen + a BY <2>1, <2>4
      <4>5. i \in Nat /\ i - a \in Nat BY <2>1, <4>1
      <4>6. r[i].id = p[1].id + (i - 1) BY <2>1, <2>7, <4>3, <4>5
      <4>7. seen # 0 => r[i].id = seen + i BY <2>1, <4>3, <4>4, <4>5
      <4> QED BY <3>0, <4>6, <4>7
    <3> QED BY <3>1, <3>2
  <2> QED BY <2>2, <2>8 DEF Resumes, r
<1> QED BY <1>1, <1>2

(* What is on its way to a streamLoop continues what it has read.          *)
LEMMA OnTheWayResumes ==
    ASSUME ServerInv, ClientInv, NEW s \in Scopes
    PROVE  /\ OnTheWay(s) \in Seq(Events)
           /\ Resumes(OnTheWay(s), lastEventID[s])
PROOF
<1>t. StepTypes /\ buf \in [Streams -> Seq(Events)] /\ wire \in [Streams -> Seq(Events)]
  BY TypesOfStep DEF ServerInv, TypeInv, TypeOK, ClientInv, ClientTypeOK
<1>e. \A seen : Resumes(<<>>, seen) BY DEF Resumes
<1>1. CASE OnTheWay(s) = <<>>
  BY <1>1, <1>e
<1>2. CASE ~(cur[s] = NoStream \/ (loop[s] = "wait" /\ cur[s] \in cut))
  <2>1. PICK st \in Streams : st = cur[s] BY <1>2, <1>t DEF StepTypes
  <2> DEFINE q == IF st \in cut THEN <<>> ELSE buf[st]
  <2>2. OnTheWay(s) = wire[st] \o q BY <1>2, <2>1 DEF OnTheWay
  <2>3. /\ wire[st] \in Seq(Events) /\ q \in Seq(Events) /\ lastEventID[s] \in Nat
        /\ nextID[scope[st]] \in Nat
    BY <1>t DEF StepTypes, ServerInv, TypeInv, TypeOK
  <2>4. /\ Resumes(wire[st], lastEventID[s]) /\ Genuine(wire[st], nextID[scope[st]], Known)
        /\ st \notin cut /\ pc[st] = "streaming" =>
             Newest(wire[st], lastEventID[s]) = last[st]
    BY <1>2, <2>1 DEF ClientInv, WireOK
  <2>5. wire[st] # <<>> => Newest(wire[st], lastEventID[s]) # 0
    <3> SUFFICES ASSUME wire[st] # <<>> PROVE wire[st][Len(wire[st])].id # 0
      BY DEF Newest
    <3>1. Len(wire[st]) \in 1 .. Len(wire[st]) BY <2>3, TailRest
    <3>2. wire[st][Len(wire[st])].id \in 1 .. nextID[scope[st]] BY <2>4, <3>1 DEF Genuine
    <3> QED BY <2>3, <3>2
  <2>6. Resumes(q, Newest(wire[st], lastEventID[s]))
    <3>1. CASE st \in cut BY <3>1, <1>e
    <3>2. CASE st \notin cut /\ pc[st] = "streaming"
      BY <2>4, <3>2 DEF ServerInv, GaplessStream
    <3>3. CASE st \notin cut /\ pc[st] # "streaming"
      <4>1. buf[st] = <<>>
        BY <3>3 DEF ServerInv, EmittedGenuine, ClientInv, HandlersOK, WireOK, Attached
      <4> QED BY <4>1, <1>e
    <3> QED BY <3>1, <3>2, <3>3
  <2> HIDE DEF q
  <2>7. Resumes(wire[st] \o q, lastEventID[s])
    BY <2>3, <2>4, <2>5, <2>6, ConcatResumes
  <2> QED BY <2>2, <2>3, <2>7
<1> QED BY <1>1, <1>2 DEF OnTheWay

(* recv is chained up to what the streamLoop has read, and what is on the  *)
(* way continues from there.                                               *)
LEMMA InvEndToEnd == ServerInv /\ ClientInv => EndToEnd
PROOF
<1> SUFFICES ASSUME ServerInv, ClientInv, ~Done, NEW s \in Scopes, NEW i \in 0 .. Len(recv)
             PROVE  /\ \A j \in i + 1 .. Len(recv) :
                         (LastBefore(s, i, j) /\ OfScope(s, j)) => Follows(recv[j].id, IDAt(s, i))
                    /\ LastBefore(s, i, Len(recv) + 1) =>
                         Resumes(InHand(s) \o OnTheWay(s), IDAt(s, i))
  BY DEF EndToEnd
<1>t. PathTypes BY TypesOfPath DEF ServerInv
<1>c. /\ \A j \in i + 1 .. Len(recv) :
           (LastBefore(s, i, j) /\ OfScope(s, j)) => Follows(recv[j].id, IDAt(s, i))
      /\ LastBefore(s, i, Len(recv) + 1) =>
           IF loop[s] = "enqueue" THEN Follows(lastEventID[s], IDAt(s, i))
           ELSE lastEventID[s] = IDAt(s, i)
  BY DEF ClientInv, Chained
<1>i. IDAt(s, i) \in Nat
  <2>1. CASE i = 0 BY <1>t, <2>1 DEF IDAt, PathTypes
  <2>2. CASE i # 0
    <3>1. i \in 1 .. Len(recv) BY <1>t, <2>2 DEF PathTypes
    <3> QED BY <1>t, <2>2, <3>1 DEF IDAt, PathTypes
  <2> QED BY <2>1, <2>2
<1>w. OnTheWay(s) \in Seq(Events) /\ Resumes(OnTheWay(s), lastEventID[s])
  BY OnTheWayResumes
<1>1. SUFFICES ASSUME LastBefore(s, i, Len(recv) + 1)
               PROVE  Resumes(InHand(s) \o OnTheWay(s), IDAt(s, i))
  BY <1>c
<1>2. CASE loop[s] = "enqueue"
  <2> DEFINE id == IDAt(s, i)
             p  == <<held[s]>>
  <2>1. /\ held[s] \in Events /\ held[s].id = lastEventID[s] /\ lastEventID[s] # 0
        /\ InHand(s) = p
    BY <1>2, <1>t DEF PathTypes, ClientInv, Increasing, InHand
  <2>2. Follows(held[s].id, id) /\ held[s].id \in Nat
    BY <1>c, <1>1, <1>2, <1>t, <2>1 DEF PathTypes, StepTypes
  <2>3. p \in Seq(Events) /\ Len(p) = 1 /\ p[1] = held[s] /\ p # <<>> BY <2>1
  <2>4. Resumes(p, id) /\ Newest(p, id) = lastEventID[s]
    <3>1. \A k \in 1 .. Len(p) : k = 1 BY <2>3
    <3> QED BY <1>i, <2>1, <2>2, <2>3, <3>1 DEF Resumes, Newest, Follows
  <2> HIDE DEF p, id
  <2>5. Resumes(p \o OnTheWay(s), id)
    BY <1>i, <1>w, <2>1, <2>3, <2>4, ConcatResumes DEF id
  <2> QED BY <2>1, <2>5 DEF id
<1>3. CASE loop[s] # "enqueue"
  <2>1. InHand(s) \o OnTheWay(s) = OnTheWay(s) BY <1>3, <1>w DEF InHand
  <2> QED BY <1>c, <1>w, <1>1, <1>3, <2>1
<1> QED BY <1>2, <1>3

(***************************************************************************)
(* Every variable of the client stays in its domain, and recv within its   *)
(* capacity.                                                               *)
(***************************************************************************)
THEOREM ClientTypeCorrect == ClientSpec => []ClientTypeOK
PROOF
<1>1. ServerInv /\ ClientInv => ClientTypeOK BY DEF ClientInv
<1> QED BY <1>1, ClientAlways, PTL

(***************************************************************************)
(* End to end: through reconnections, overflow of the server's channels,   *)
(* replay and lost connections, for each scope what is in recv and on its  *)
(* way to it continues what the application has received, with no gap and  *)
(* no duplicate, unless the application closed the client.                 *)
(***************************************************************************)
THEOREM NoEventLost == ClientSpec => []EndToEnd
PROOF BY InvEndToEnd, ClientAlways, PTL

(***************************************************************************)
(* A streamLoop that was told that its history is gone does not ask again: *)
(* it closes the client.                                                   *)
(***************************************************************************)
THEOREM GoneIsFinal == ClientSpec => []GoneEndsClient
PROOF
<1>1. ServerInv /\ ClientInv => GoneEndsClient
  BY DEF ClientInv, HandlersOK, GoneEndsClient
<1> QED BY <1>1, ClientAlways, PTL

(***************************************************************************)
(* The server refuses a session's stream, which the client opens as soon   *)
(* as it reads the session's id, only when the session was closed.         *)
(***************************************************************************)
THEOREM SessionStreamKnown == ClientSpec => []SessionStreamUsable
PROOF
<1>1. ServerInv /\ ClientInv => SessionStreamUsable
  BY DEF ClientInv, SessionsOK, SessionStreamUsable
<1> QED BY <1>1, ClientAlways, PTL

-----------------------------------------------------------------------------
(* The transport implements the ordered log of EventLog.                   *)

(* Of the steps of the client only Receive, and the two that end Close,    *)
(* are seen there.                                                         *)
LEMMA ClientOnlyLog ==
    ASSUME ClientOnly, nextID' = nextID
    PROVE  \/ UNCHANGED <<nextID, received, Done>>
           \/ Receive /\ UNCHANGED <<nextID, Done>>
           \/ Log!Close
PROOF
<1>1. CASE SetConnID \/ StartFirstStream \/ EnqueueInit \/ OpenFails
             \/ \E d \in Deletes : CloseSends(d)
  BY <1>1 DEF SetConnID, StartFirstStream, EnqueueInit, OpenFails, CloseSends, Done
<1>2. CASE CloseBegins \/ CloseEnds \/ CloseLost
  <2>1. received' = received /\ closing' \in {"delete", "closed"} /\ ~Done
    BY <1>2 DEF CloseBegins, CloseEnds, CloseLost, Done
  <2>2. CASE closing' = "closed" BY <2>1, <2>2 DEF Log!Close, Done
  <2>3. CASE closing' # "closed" BY <2>1, <2>3 DEF Done
  <2> QED BY <2>2, <2>3
<1>3. CASE Receive BY <1>3 DEF Receive, Done
<1>4. ASSUME NEW s \in Scopes,
             \/ DialUnknown(s) \/ DialLost(s) \/ Accepted(s) \/ Rejected(s) \/ ReadEvent(s)
             \/ EnqueueEvent(s) \/ StreamEnds(s) \/ Retry(s) \/ LoopEnds(s) \/ NetworkCut(s)
      PROVE  UNCHANGED <<nextID, received, Done>>
  BY <1>4 DEF DialUnknown, DialLost, Accepted, Rejected, ReadEvent, EnqueueEvent, StreamEnds,
              Retry, LoopEnds, NetworkCut, Done
<1> QED BY <1>1, <1>2, <1>3, <1>4 DEF ClientOnly

(* Receive returns the next message of a scope, or the answer to           *)
(* initialize.                                                             *)
LEMMA ReceiveDelivers ==
    ASSUME PathTypes, ClientTypeOK, Increasing, Chained, Receive, UNCHANGED <<nextID, Done>>
    PROVE  received' = received \/ \E s \in Scopes : Log!Deliver(s)
PROOF
<1> DEFINE h == recv[1]
<1>1. /\ recv \in Seq(Items) /\ recv # <<>> /\ Head(recv) = h /\ h \in Items
      /\ Len(recv) \in Nat \ {0}
  BY TailRest DEF PathTypes, Receive
<1>2. CASE h = InitItem BY <1>1, <1>2 DEF Receive
<1>3. CASE h # InitItem
  <2> PICK s \in Scopes : s = h.scope BY <1>1 DEF Items
  <2>1. received' = [received EXCEPT ![s] = h.id] BY <1>1, <1>3 DEF Receive
  <2>2. OfScope(s, 1) /\ 1 \in 1 .. Len(recv)
    BY <1>1, <1>3 DEF Increasing, OfScope
  <2>3. received[s] < h.id /\ BeforeHeld(s, h.id) /\ lastEventID[s] <= nextID[s]
    BY <2>2 DEF Increasing
  <2>4. /\ h.id \in Nat /\ received[s] \in Nat /\ nextID[s] \in Nat /\ lastEventID[s] \in Nat
    BY <1>1 DEF PathTypes, StepTypes, Items
  <2>5. Done \/ Follows(h.id, received[s])
    <3>1. LastBefore(s, 0, 1) /\ IDAt(s, 0) = received[s] BY DEF LastBefore, IDAt
    <3>2. 0 \in 0 .. Len(recv) /\ 1 \in 0 + 1 .. Len(recv) BY <1>1
    <3> QED BY <2>2, <3>1, <3>2 DEF Chained
  <2> HIDE DEF h
  <2>6. h.id \in received[s] + 1 .. nextID[s] BY <2>3, <2>4 DEF BeforeHeld
  <2>7. h.id = received[s] + 1 \/ received[s] = 0 \/ Done BY <2>5 DEF Follows
  <2>8. Log!Deliver(s) BY <2>1, <2>6, <2>7 DEF Log!Deliver
  <2> QED BY <2>8
<1> QED BY <1>2, <1>3

(***************************************************************************)
(* Refinement: whatever the streams go through, the client and the server  *)
(* together implement the log in which the application receives the        *)
(* messages of a scope in the order they were emitted, each at most once   *)
(* and with no gap after the first.                                        *)
(***************************************************************************)
THEOREM ImplementsOrderedLog == ClientSpec => OrderedLog
PROOF
<1>1. ClientInit => Log!Init
  BY DEF ClientInit, Init, Log!Init, Done
<1>2. ASSUME ServerInv, ClientInv, [ClientNext]_allVars
      PROVE  [Log!Next]_<<nextID, received, Done>>
  <2>t. /\ TypeInv /\ HandlersOK /\ asked \in [Streams -> Nat] /\ PathTypes /\ ClientTypeOK
        /\ Increasing /\ Chained
    BY <1>2, TypesOfPath DEF ServerInv, ClientInv
  <2>c. UNCHANGED clientVars => UNCHANGED <<received, Done>> BY DEF clientVars, Done
  <2>1. CASE UNCHANGED clientVars /\ ServerQuiet BY <2>c, <2>1 DEF ServerQuiet
  <2>2. CASE UNCHANGED clientVars /\ Emit
    <3>1. job.scope \in Scopes BY <2>t DEF TypeInv, TypeOK
    <3>2. Log!Emit(job.scope) BY <2>c, <2>2 DEF Emit, Log!Emit
    <3> QED BY <3>1, <3>2 DEF Log!Next
  <2>3. ASSUME NEW st \in Streams, UNCHANGED clientVars, HandlerSteps(st)
        PROVE  UNCHANGED <<nextID, received, Done>>
    BY <2>c, <2>3 DEF HandlerSteps, GetChecked, ServerAttach, GetAttach, GetGone, GetFinish,
                      GetDetach, scopeVars
  <2>4. ASSUME NEW s \in Scopes, NEW st \in Streams, Dial(s, st)
        PROVE  UNCHANGED <<nextID, received, Done>>
    BY <2>4 DEF Dial, GetLookup, scopeVars, Done
  <2>5. ASSUME NEW st \in Streams, ServerWrite(st) \/ ServerHangup(st)
        PROVE  UNCHANGED <<nextID, received, Done>>
    BY <2>c, <2>5 DEF ServerWrite, ServerHangup, GetWrite, GetHangup, scopeVars, Done
  <2>6. CASE ServerQuiet /\ ClientOnly
    <3>1. nextID' = nextID BY <2>6 DEF ServerQuiet
    <3>2. CASE Receive /\ UNCHANGED <<nextID, Done>>
      BY <2>t, <3>2, ReceiveDelivers DEF Log!Next
    <3>3. CASE Log!Close BY <3>3 DEF Log!Next
    <3> QED BY <2>6, <3>1, <3>2, <3>3, ClientOnlyLog
  <2> QED BY <1>2, <2>t, <2>1, <2>2, <2>3, <2>4, <2>5, <2>6, ClientCases
<1> QED BY <1>1, <1>2, ClientAlways, PTL DEF ClientSpec, OrderedLog, Log!Spec
=============================================================================
