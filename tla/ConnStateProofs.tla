-------------------------- MODULE ConnStateProofs --------------------------
(***************************************************************************)
(* Theorems about ConnState, for any number of sessions, handlers,         *)
(* retained events and notifications: the arithmetic of eventsAfter, type  *)
(* correctness, the retained history, the event streams, of which no       *)
(* channel is closed twice or sent on after it was closed, no handler is   *)
(* lost, and what a handler delivers has no gap, and the routing of answers.*)
(***************************************************************************)
EXTENDS ConnState, SequenceTheorems, TLAPS

-----------------------------------------------------------------------------
(* The operators of EventHistory.                                          *)

(* emit keeps a window, one event further, of the bounded length.          *)
LEMMA TrimmedWindow ==
    ASSUME NEW S, NEW q \in Seq(S), NEW n \in Nat, Window(q, n),
           NEW ev \in S, ev.id = n + 1,
           NEW max \in Nat \ {0}, Len(q) <= max
    PROVE  LET r == Trimmed(Append(q, ev), max) IN
           r \in Seq(S) /\ Len(r) <= max /\ Window(r, n + 1)
<1> DEFINE q1 == Append(q, ev)
<1>1. q1 \in Seq(S) /\ Len(q1) = Len(q) + 1
  OBVIOUS
<1>2. \A i \in 1 .. Len(q1) : q1[i].id = (n + 1) - Len(q1) + i
  <2> TAKE i \in 1 .. Len(q1)
  <2>1. CASE i = Len(q1)
    BY <1>1, <2>1
  <2>2. CASE i # Len(q1)
    <3>1. i \in 1 .. Len(q) /\ q1[i] = q[i]
      BY <1>1, <2>2
    <3> QED
      BY <1>1, <3>1 DEF Window
  <2> QED
    BY <2>1, <2>2
<1> HIDE DEF q1
<1>3. CASE Len(q1) <= max
  <2>1. Trimmed(q1, max) = q1
    BY <1>1, <1>3 DEF Trimmed
  <2> QED
    BY <1>1, <1>2, <1>3, <2>1 DEF Window, q1
<1>4. CASE Len(q1) > max
  <2> DEFINE r == SubSeq(q1, Len(q1) - max + 1, Len(q1))
  <2>1. Trimmed(q1, max) = r /\ Len(q1) = max + 1
    BY <1>1, <1>4 DEF Trimmed
  <2>2. r \in Seq(S) /\ Len(r) = max
    BY <1>1, <2>1
  <2>3. \A i \in 1 .. max : r[i] = q1[i + 1]
    BY <1>1, <2>1
  <2>4. \A i \in 1 .. max : r[i].id = (n + 1) - max + i
    BY <1>1, <1>2, <2>1, <2>3
  <2>5. max <= n + 1
    BY <1>1, <2>1, <2>2 DEF Window
  <2> HIDE DEF r
  <2>6. r # <<>>
    BY <2>2
  <2> QED
    BY <2>1, <2>2, <2>4, <2>5, <2>6 DEF Window, q1
<1> QED
  BY <1>1, <1>3, <1>4 DEF q1

(* The loop of eventsAfter stops right behind the event the client has     *)
(* seen last, when the history still reaches back that far.                *)
LEMMA SkippedExact ==
    ASSUME NEW S, NEW q \in Seq(S), NEW n \in Nat, Window(q, n),
           NEW after \in Nat, after # 0, ~HistoryGone(q, n, after)
    PROVE  Skipped(q, after) = after - (n - Len(q)) /\ Skipped(q, after) \in 0 .. Len(q)
<1> DEFINE k == after - (n - Len(q))
           Stops(i) == /\ \A j \in 1 .. i : q[j].id <= after
                       /\ i < Len(q) => q[i + 1].id > after
<1>1. \A i \in 1 .. Len(q) : q[i].id = n - Len(q) + i
  BY DEF Window
<1>2. k \in 0 .. Len(q)
  BY <1>1 DEF HistoryGone, Window
<1>3. Stops(k)
  <2>1. /\ Len(q) \in Nat /\ n - Len(q) \in Int /\ k \in Int
        /\ after = n - Len(q) + k
    OBVIOUS
  <2>2. ASSUME NEW j \in 1 .. k PROVE q[j].id <= after
    <3>1. j \in 1 .. Len(q) /\ j \in Int /\ j <= k
      BY <1>2, <2>1
    <3>2. q[j].id = n - Len(q) + j
      BY <1>1, <3>1
    <3> HIDE DEF k
    <3> QED
      BY <2>1, <3>1, <3>2
  <2>3. ASSUME k < Len(q) PROVE q[k + 1].id > after
    <3>1. k + 1 \in 1 .. Len(q)
      BY <1>2, <2>1, <2>3
    <3>2. q[k + 1].id = n - Len(q) + (k + 1)
      BY <1>1, <3>1
    <3> QED
      BY <2>1, <3>2
  <2> QED
    BY <2>2, <2>3
<1>4. \A i \in 0 .. Len(q) : Stops(i) => i = k
  <2> SUFFICES ASSUME NEW i \in 0 .. Len(q), Stops(i), i # k PROVE FALSE
    OBVIOUS
  <2>1. CASE i < k
    <3>1. i + 1 \in 1 .. Len(q) /\ q[i + 1].id > after
      BY <1>2, <2>1
    <3> QED
      BY <1>1, <1>2, <2>1, <3>1
  <2>2. CASE i > k
    <3>1. k + 1 \in 1 .. i /\ q[k + 1].id <= after
      BY <1>2, <2>2
    <3> QED
      BY <1>1, <1>2, <2>2, <3>1
  <2> QED
    BY <1>2, <2>1, <2>2
<1>5. Skipped(q, after) = CHOOSE i \in 0 .. Len(q) : Stops(i)
  BY DEF Skipped
<1> HIDE DEF k, Stops
<1>6. Skipped(q, after) = k
  BY <1>2, <1>3, <1>4, <1>5
<1> QED
  BY <1>2, <1>6 DEF k

(* What a stream is replayed when its history is not gone: with a          *)
(* Last-Event-Id exactly the events after it, without one everything that  *)
(* is retained; in both cases up to the newest event.                      *)
LEMMA ReplayExact ==
    ASSUME NEW S, NEW q \in Seq(S), NEW n \in Nat, Window(q, n),
           NEW after \in Nat, ~HistoryGone(q, n, after)
    PROVE  LET r == EventsAfter(q, after) IN
           /\ r \in Seq(S)
           /\ Len(r) <= n
           /\ \A i \in 1 .. Len(r) : r[i].id = n - Len(r) + i
           /\ after # 0 => n - Len(r) = after
           /\ r = <<>> => n = after
<1>1. CASE after = 0
  BY <1>1 DEF EventsAfter, Window
<1>2. CASE after # 0
  <2> DEFINE k == Skipped(q, after)
             r == SubSeq(q, k + 1, Len(q))
  <2>1. k = after - (n - Len(q)) /\ k \in 0 .. Len(q)
    BY <1>2, SkippedExact
  <2>2. EventsAfter(q, after) = r
    BY <1>2 DEF EventsAfter
  <2> HIDE DEF k
  <2>3. r \in Seq(S) /\ Len(r) = Len(q) - k
    BY <2>1
  <2>4. \A i \in 1 .. Len(r) : r[i] = q[k + i]
    BY <2>1, <2>3
  <2>5. \A i \in 1 .. Len(r) : r[i].id = n - Len(q) + k + i
    BY <2>1, <2>3, <2>4 DEF Window
  <2>6. Len(r) <= n /\ n - Len(r) = after
    BY <2>1, <2>3 DEF Window
  <2> HIDE DEF r
  <2>7. r = <<>> => Len(r) = 0
    OBVIOUS
  <2>8. \A i \in 1 .. Len(r) : r[i].id = n - Len(r) + i
    BY <2>1, <2>3, <2>5
  <2> QED
    BY <1>2, <2>2, <2>3, <2>6, <2>7, <2>8
<1> QED
  BY <1>1, <1>2

-----------------------------------------------------------------------------

(* A channel that is up to date stays so when the next event is sent to it.*)
LEMMA ResumesAppend ==
    ASSUME NEW S, \A e \in S : e.id \in Nat,
           NEW q \in Seq(S), NEW seen \in Nat, NEW n \in Nat, NEW ev \in S,
           Resumes(q, seen), Newest(q, seen) = n, ev.id = n + 1
    PROVE  Resumes(Append(q, ev), seen) /\ Newest(Append(q, ev), seen) = n + 1
<1> DEFINE r == Append(q, ev)
<1>1. /\ r \in Seq(S) /\ Len(r) = Len(q) + 1 /\ r[Len(r)] = ev
      /\ \A i \in 1 .. Len(q) : r[i] = q[i]
  OBVIOUS
<1> HIDE DEF r
<1>2. r # <<>>
  BY <1>1
<1>3. Newest(r, seen) = n + 1
  BY <1>1, <1>2 DEF Newest
<1>4. Resumes(r, seen)
  <2> SUFFICES ASSUME NEW i \in 1 .. Len(r)
               PROVE  /\ seen # 0 => r[i].id = seen + i
                      /\ r[i].id = r[1].id + (i - 1)
    BY DEF Resumes
  <2>1. CASE q = <<>>
    <3>1. i = 1 /\ Len(r) = 1 /\ r[i] = ev
      BY <1>1, <2>1
    <3>2. n = seen
      BY <2>1 DEF Newest
    <3>3. r[1].id = seen + 1
      BY <3>1, <3>2
    <3>4. seen # 0 => r[i].id = seen + i
      BY <3>1, <3>3
    <3>5. r[i].id = r[1].id + (i - 1)
      <4>1. r[1].id \in Int /\ i - 1 = 0 /\ r[i].id = r[1].id
        BY <3>1, <3>3
      <4> QED
        BY <4>1
    <3> QED
      BY <3>4, <3>5
  <2>2. CASE q # <<>>
    <3>1. Len(q) \in Nat \ {0} /\ q[1] \in S /\ r[1] = q[1]
      BY <1>1, <2>2
    <3>2. n = q[1].id + (Len(q) - 1) /\ (seen # 0 => n = seen + Len(q))
      <4>1. n = q[Len(q)].id
        BY <2>2 DEF Newest
      <4>2. Len(q) \in 1 .. Len(q)
        BY <3>1
      <4> QED
        BY <4>1, <4>2 DEF Resumes
    <3>3. CASE i = Len(r)
      <4>1. r[i].id = n + 1 /\ i = Len(q) + 1 /\ r[1].id = q[1].id
        BY <1>1, <3>1, <3>3
      <4>2. q[1].id \in Nat
        BY <3>1
      <4>3. seen # 0 => r[i].id = seen + i
        BY <3>1, <3>2, <4>1
      <4>4. r[i].id = r[1].id + (i - 1)
        <5>1. r[i].id = (q[1].id + (Len(q) - 1)) + 1 /\ i - 1 = Len(q)
          BY <3>1, <3>2, <4>1
        <5>2. (q[1].id + (Len(q) - 1)) + 1 = q[1].id + Len(q)
          BY <3>1, <4>2
        <5> QED
          BY <4>1, <5>1, <5>2
      <4> QED
        BY <4>3, <4>4
    <3>4. CASE i # Len(r)
      <4>1. i \in 1 .. Len(q) /\ r[i] = q[i]
        BY <1>1, <3>4
      <4> QED
        BY <3>1, <4>1 DEF Resumes
    <3> QED
      BY <3>3, <3>4
  <2> QED
    BY <2>1, <2>2
<1> QED
  BY <1>3, <1>4 DEF r

(* Writing the first event of a channel is progress of the client.         *)
LEMMA ResumesTail ==
    ASSUME NEW S, \A e \in S : e.id \in Nat,
           NEW q \in Seq(S), q # <<>>, NEW seen \in Nat, Resumes(q, seen)
    PROVE  /\ Resumes(Tail(q), Head(q).id)
           /\ Newest(Tail(q), Head(q).id) = Newest(q, seen)
<1> DEFINE r == Tail(q)
<1>1. /\ Len(q) \in Nat \ {0} /\ r \in Seq(S) /\ Len(r) = Len(q) - 1
      /\ \A i \in 1 .. Len(r) : r[i] = q[i + 1]
      /\ Head(q) = q[1] /\ q[1] \in S
  OBVIOUS
<1> HIDE DEF r
<1>2. \A i \in 1 .. Len(q) : q[i].id = q[1].id + (i - 1)
  BY DEF Resumes
<1>3. \A i \in 1 .. Len(r) : r[i].id = q[1].id + i
  <2> TAKE i \in 1 .. Len(r)
  <2>1. i + 1 \in 1 .. Len(q) /\ r[i] = q[i + 1]
    BY <1>1
  <2>2. q[i + 1].id = q[1].id + ((i + 1) - 1)
    BY <1>2, <2>1
  <2> QED
    BY <1>1, <2>1, <2>2
<1>4. Resumes(r, Head(q).id)
  <2> SUFFICES ASSUME NEW i \in 1 .. Len(r)
               PROVE  r[i].id = q[1].id + i /\ r[i].id = r[1].id + (i - 1)
    BY <1>1 DEF Resumes
  <2>1. 1 \in 1 .. Len(r)
    BY <1>1
  <2>2. r[1].id = q[1].id + 1
    BY <1>3, <2>1
  <2> QED
    BY <1>1, <1>3, <2>2
<1>5. Newest(r, Head(q).id) = Newest(q, seen)
  <2>1. CASE r = <<>>
    <3>1. Len(q) = 1
      BY <1>1, <2>1
    <3> QED
      BY <1>1, <2>1, <3>1 DEF Newest
  <2>2. CASE r # <<>>
    <3>1. Len(r) # 0
      BY <1>1, <2>2
    <3>2. r[Len(r)] = q[Len(q)]
      BY <1>1, <3>1
    <3> QED
      BY <2>2, <3>2 DEF Newest
  <2> QED
    BY <2>1, <2>2
<1> QED
  BY <1>4, <1>5 DEF r

(* A replay leaves out nothing after the Last-Event-Id and reaches the     *)
(* newest event.                                                           *)
LEMMA ResumesReplay ==
    ASSUME NEW S, NEW q \in Seq(S), NEW n \in Nat, Window(q, n),
           NEW after \in Nat, ~HistoryGone(q, n, after)
    PROVE  /\ EventsAfter(q, after) \in Seq(S)
           /\ Resumes(EventsAfter(q, after), after)
           /\ Newest(EventsAfter(q, after), after) = n
<1> DEFINE r == EventsAfter(q, after)
<1>1. /\ r \in Seq(S)
      /\ Len(r) <= n
      /\ \A i \in 1 .. Len(r) : r[i].id = n - Len(r) + i
      /\ after # 0 => n - Len(r) = after
      /\ r = <<>> => n = after
  BY ReplayExact
<1> HIDE DEF r
<1>2. Resumes(r, after)
  <2> SUFFICES ASSUME NEW i \in 1 .. Len(r)
               PROVE  /\ after # 0 => r[i].id = after + i
                      /\ r[i].id = r[1].id + (i - 1)
    BY DEF Resumes
  <2>1. Len(r) \in Nat /\ 1 \in 1 .. Len(r)
    BY <1>1
  <2>2. r[i].id = n - Len(r) + i /\ r[1].id = n - Len(r) + 1
    BY <1>1, <2>1
  <2>3. r[i].id = r[1].id + (i - 1)
    BY <2>1, <2>2
  <2>4. after # 0 => n - Len(r) = after
    BY <1>1
  <2> QED
    BY <2>1, <2>2, <2>3, <2>4
<1>3. Newest(r, after) = n
  <2>1. CASE r = <<>>
    BY <1>1, <2>1 DEF Newest
  <2>2. CASE r # <<>>
    <3>1. Len(r) \in Nat /\ Len(r) \in 1 .. Len(r)
      BY <1>1, <2>2
    <3>2. r[Len(r)].id = n - Len(r) + Len(r)
      BY <1>1, <3>1
    <3> QED
      BY <2>2, <3>1, <3>2 DEF Newest
  <2> QED
    BY <2>1, <2>2
<1> QED
  BY <1>1, <1>2, <1>3 DEF r

-----------------------------------------------------------------------------
(* Types and the retained history.                                         *)

(***************************************************************************)
(* What the goroutine of run holds between two sections under c.mu: the    *)
(* facts TypeOK needs to be inductive.                                     *)
(***************************************************************************)
JobOK ==
    /\ pc[Runner] = "scope" => IsAnswer(job.msg)
    /\ pc[Runner] = "register" => job.msg.sid # NoSession
    /\ pc[Runner] = "unregister" => job.scope # NoSession

TypeInv == TypeOK /\ JobOK

USE SessionAssumption, StreamAssumption, RequestAssumption, KeyAssumption,
    BoundAssumption

(* The goroutines are different ones.                                      *)
LEMMA Distinct ==
    /\ Runner \in Actors /\ Initializer \in Actors /\ Initializer # Runner
    /\ Runner \notin Streams /\ Runner \notin Posts /\ Runner \notin Deletes
    /\ Runner \notin Shutdowns
    /\ \A st \in Streams : st \in Actors /\ st # Initializer /\ st \notin Closers
    /\ \A p \in Posts : p \in Actors /\ p # Initializer /\ p \notin Closers /\ p \notin Streams
    /\ \A d \in Deletes : d \in Actors /\ d # Initializer /\ d \notin Streams
    /\ \A x \in Shutdowns : x \in Actors /\ x # Initializer /\ x \notin Streams
    /\ \A a \in Closers : a \in Actors
  BY ActorAssumption DEF Actors, Closers

LEMMA TypeInit == Init => TypeInv
<1> SUFFICES ASSUME Init PROVE TypeInv
  OBVIOUS
<1> USE DEF Init
<1>1. KeyOf[Initializer] \in Keys
  BY DEF Requests
<1>2. pc \in [Actors -> Labels]
  BY DEF Labels
<1>3. job \in [msg : Messages, scope : Scopes, method : Methods \cup {NoMethod}]
  BY DEF NoJob, Job, Note, Messages, Scopes
<1>4. req \in [Posts -> [method : Methods \cup {NoMethod}, header : Scopes, late : BOOLEAN]]
  BY DEF NoPost, Post, Scopes
<1>5. /\ queue \in [Scopes -> Seq(Events)]
      /\ buf \in [Streams -> Seq(Events)]
  OBVIOUS
<1>6. /\ ch \in [Scopes -> Streams \cup {NoStream}]
      /\ scope \in [Streams -> Scopes]
      /\ pendingScope \in [Keys -> Scopes]
      /\ pendingMethod \in [Keys -> Methods \cup {NoMethod}]
      /\ toClose \in [Actors -> SUBSET Streams]
  BY DEF Scopes
<1>7. /\ fromBackend \in Seq(Messages)
      /\ initCh \in Seq(Messages) /\ Len(initCh) <= 1
      /\ notes \in 0 .. MaxNotes
      /\ nextID \in [Scopes -> Nat]
      /\ cap \in [Streams -> Nat]
      /\ last \in [Streams -> Nat]
      /\ closes \in [Streams -> Nat]
  OBVIOUS
<1>8. /\ toBackend \subseteq Requests
      /\ backendOpen \in BOOLEAN /\ closed \in BOOLEAN /\ listed \in BOOLEAN
      /\ sessions \subseteq Sessions
      /\ initKey \in Keys \cup {NoKey}
      /\ told \subseteq Sessions /\ retired \subseteq Sessions /\ clashed \subseteq Posts
  BY <1>1
<1> HIDE DEF Init
<1>9. TypeOK
  BY <1>2, <1>3, <1>4, <1>5, <1>6, <1>7, <1>8 DEF TypeOK
<1>10. JobOK
  BY Distinct DEF JobOK, Init
<1> QED
  BY <1>9, <1>10 DEF TypeInv

LEMMA TypeNext == TypeInv /\ HistoryWindow /\ [Next]_vars => TypeInv'
<1> SUFFICES ASSUME TypeInv, HistoryWindow, [Next]_vars PROVE TypeInv'
  OBVIOUS
<1> USE DEF TypeInv, TypeOK, JobOK, Goto, scopeVars, pendingVars, initVars, chanVars,
            historyVars, backendVars
<1> USE Distinct
<1>1. CASE RouteInit
  <2>1. Head(fromBackend) \in Messages /\ Tail(fromBackend) \in Seq(Messages)
    BY <1>1 DEF RouteInit, Receiving
  <2>2. initCh' = initCh \/ initCh' = <<Head(fromBackend)>>
    BY <1>1 DEF RouteInit, TakeInit
  <2>3. initCh' \in Seq(Messages) /\ Len(initCh') <= 1
    <3>1. CASE initCh' = initCh
      BY <3>1
    <3>2. CASE initCh' = <<Head(fromBackend)>>
      <4> HIDE DEF TypeInv, TypeOK, JobOK
      <4> QED
        BY <2>1, <3>2
    <3> QED
      BY <2>2, <3>1, <3>2
  <2>4. initKey' \in Keys \cup {NoKey}
    BY <1>1 DEF RouteInit, TakeInit
  <2>5. /\ UNCHANGED <<toBackend, backendOpen, notes, nextID, queue, ch, sessions,
                       pendingScope, pendingMethod, closed, listed, pc, toClose, job, req,
                       scope, buf, cap, last, closes, told, retired, clashed>>
        /\ fromBackend' = Tail(fromBackend)
    BY <1>1 DEF RouteInit
  <2> QED
    BY <2>1, <2>3, <2>4, <2>5
<1>2. CASE RouteClosed
  BY <1>2 DEF RouteClosed, Receiving
<1>3. CASE RouteAnswer
  <2>1. Head(fromBackend) \in Messages /\ Tail(fromBackend) \in Seq(Messages)
    BY <1>3 DEF RouteAnswer, Receiving
  <2>2. job' \in [msg : Messages, scope : Scopes, method : Methods \cup {NoMethod}]
    BY <1>3, <2>1 DEF RouteAnswer, Job, Scopes
  <2>3. JobOK'
    BY <1>3 DEF RouteAnswer, Job, Labels
  <2>4. pc' \in [Actors -> Labels]
    BY <1>3 DEF RouteAnswer, Labels
  <2> QED
    BY <1>3, <2>1, <2>2, <2>3, <2>4 DEF RouteAnswer
<1>4. CASE RouteNote
  <2>1. Head(fromBackend) \in Messages /\ Tail(fromBackend) \in Seq(Messages)
    BY <1>4 DEF RouteNote, Receiving
  <2>2. job' \in [msg : Messages, scope : Scopes, method : Methods \cup {NoMethod}]
    BY <1>4, <2>1 DEF RouteNote, Job, Messages
  <2>3. JobOK'
    BY <1>4 DEF RouteNote, Job, AfterScope, Labels
  <2>4. pc' \in [Actors -> Labels]
    BY <1>4 DEF RouteNote, AfterScope, Labels
  <2> QED
    BY <1>4, <2>1, <2>2, <2>3, <2>4 DEF RouteNote
<1>5. CASE ScopeFor
  BY <1>5 DEF ScopeFor, IsAnswer, Job, AfterScope, Messages, Scopes, Labels
<1>6. CASE RegisterSession
  <2>1. pc' \in [Actors -> Labels] /\ pc'[Runner] = "emit"
    BY <1>6 DEF RegisterSession, Labels
  <2>2. job.msg.sid \in Sessions
    BY <1>6 DEF RegisterSession, Messages, Scopes
  <2>3. sessions' \subseteq Sessions /\ told' \subseteq Sessions
    BY <1>6, <2>2 DEF RegisterSession
  <2> QED
    BY <1>6, <2>1, <2>3 DEF RegisterSession
<1>7. CASE Emit
  <2> DEFINE s == job.scope
             ev == [id |-> nextID[s] + 1, msg |-> job.msg]
  <2>1. s \in Scopes /\ ev \in Events
    BY DEF Events
  <2>2. nextID' \in [Scopes -> Nat]
    BY <1>7, <2>1, SMTT(30) DEF Emit
  <2>3. queue' \in [Scopes -> Seq(Events)]
    <3>1. Append(queue[s], ev) \in Seq(Events)
      BY <2>1
    <3>2. Trimmed(Append(queue[s], ev), MaxQueued) \in Seq(Events)
      BY <2>1, TrimmedWindow DEF HistoryWindow
    <3> QED
      BY <1>7, <2>1, <3>2 DEF Emit
  <2>4. /\ buf' \in [Streams -> Seq(Events)]
        /\ ch' \in [Scopes -> Streams \cup {NoStream}]
        /\ toClose' \in [Actors -> SUBSET Streams]
    <3>1. CASE ch[s] = NoStream /\ NotDelivered
      BY <3>1 DEF NotDelivered
    <3>2. CASE ch[s] # NoStream /\ DeliverTo(ch[s], ev)
      <4>1. ch[s] \in Streams
        BY <2>1, <3>2
      <4>2. Append(buf[ch[s]], ev) \in Seq(Events)
        BY <2>1, <4>1
      <4> QED
        BY <3>2, <4>1, <4>2 DEF DeliverTo
    <3>3. CASE ch[s] # NoStream /\ Overflow(s)
      <4>1. ch[s] \in Streams
        BY <2>1, <3>3
      <4> QED
        BY <2>1, <3>3, <4>1 DEF Overflow
    <3> QED
      BY <1>7, <3>1, <3>2, <3>3 DEF Emit
  <2>5. JobOK' /\ pc' \in [Actors -> Labels]
    BY <1>7 DEF Emit, AfterEmit, Labels
  <2> QED
    BY <1>7, <2>2, <2>3, <2>4, <2>5 DEF Emit
<1>8. CASE EmitClosed
  BY <1>8 DEF EmitClosed, AfterEmit, Labels
<1>9. CASE UnregisterSession
  BY <1>9 DEF UnregisterSession, Scopes, Labels
<1>10. CASE ReceiveFails
  BY <1>10 DEF ReceiveFails, Labels
<1>11. CASE PutConnection
  BY <1>11 DEF PutConnection, Labels
<1>12. CASE SendInit
  <2>1. pc' \in [Actors -> Labels] /\ pc'[Runner] = pc[Runner]
    BY <1>12 DEF SendInit, Labels
  <2>2. toBackend' \subseteq Requests
    BY <1>12 DEF SendInit, Requests
  <2> QED
    BY <1>12, <2>1, <2>2 DEF SendInit
<1>13. CASE WaitInitAnswer
  BY <1>13 DEF WaitInitAnswer, Labels
<1>14. CASE WaitInitClosed
  BY <1>14 DEF WaitInitClosed, Labels
<1>15. CASE InitHangup
  BY <1>15 DEF InitHangup, Labels
<1>16. ASSUME NEW a \in Closers, CloserStep(a) PROVE TypeInv'
  <2>1. CASE CloseWith(a)
    <3>1. Linked \in SUBSET Streams /\ a \in Actors
      BY DEF Linked
    <3>2. toClose' = toClose \/ toClose' = [toClose EXCEPT ![a] = Linked]
      BY <2>1 DEF CloseWith
    <3>3. toClose' \in [Actors -> SUBSET Streams]
      <4>1. toClose \in [Actors -> SUBSET Streams]
        OBVIOUS
      <4> HIDE DEF TypeInv
      <4> QED
        BY <3>1, <3>2, <4>1
    <3>4. ch' \in [Scopes -> Streams \cup {NoStream}]
      BY <2>1 DEF CloseWith
    <3>5. \E l \in {"closeBackend", "unlist", "done"} : pc' = [pc EXCEPT ![a] = l]
      BY <2>1 DEF CloseWith, AfterClose
    <3>6. pc' \in [Actors -> Labels]
      BY <3>5 DEF Labels
    <3>7. JobOK'
      BY <2>1, <3>5 DEF CloseWith
    <3>8. closed' \in BOOLEAN
      BY <2>1 DEF CloseWith
    <3> QED
      BY <2>1, <3>3, <3>4, <3>6, <3>7, <3>8 DEF CloseWith
  <2>2. CASE CloseBackend(a)
    BY <2>2 DEF CloseBackend, AfterClose, Labels
  <2>3. CASE Unlist(a)
    BY <2>3 DEF Unlist, Labels
  <2> QED
    BY <1>16, <2>1, <2>2, <2>3 DEF CloserStep
<1>17. ASSUME NEW a \in Actors, NEW st \in Streams, CloseStream(a, st) PROVE TypeInv'
  <2>1. toClose' \in [Actors -> SUBSET Streams] /\ closes' \in [Streams -> Nat]
    BY <1>17 DEF CloseStream
  <2> QED
    BY <1>17, <2>1 DEF CloseStream
<1>18. ASSUME NEW p \in Posts, NEW m \in PostMethods, NEW s \in Scopes, PostLookup(p, m, s) PROVE TypeInv'
  <2>1. pc' \in [Actors -> Labels] /\ pc'[Runner] = pc[Runner]
    BY <1>18 DEF PostLookup, Labels
  <2>2. Post(m, s, s \in told) \in
          [method : Methods \cup {NoMethod}, header : Scopes, late : BOOLEAN]
    BY DEF Post
  <2>3. req' \in [Posts -> [method : Methods \cup {NoMethod}, header : Scopes, late : BOOLEAN]]
    BY <1>18, <2>2 DEF PostLookup
  <2> QED
    BY <1>18, <2>1, <2>3 DEF PostLookup
<1>19. ASSUME NEW p \in Posts, NEW body \in Scopes, PostChecked(p, body) PROVE TypeInv'
  <2>1. \E l \in {"send", "record", "refused"} : pc' = [pc EXCEPT ![p] = l]
    BY <1>19 DEF PostChecked
  <2>2. pc' \in [Actors -> Labels] /\ pc'[Runner] = pc[Runner]
    BY <2>1 DEF Labels
  <2> QED
    BY <1>19, <2>2 DEF PostChecked
<1>20. ASSUME NEW p \in Posts, PostRecord(p) PROVE TypeInv'
  <2>p. \E l \in {"failed", "send"} : pc' = [pc EXCEPT ![p] = l]
    BY <1>20 DEF PostRecord
  <2>1. pc' \in [Actors -> Labels] /\ pc'[Runner] = pc[Runner]
    BY <2>p DEF Labels
  <2>2. /\ pendingScope' \in [Keys -> Scopes]
        /\ pendingMethod' \in [Keys -> Methods \cup {NoMethod}]
    <3>1. req[p].header \in Scopes /\ req[p].method \in Methods \cup {NoMethod}
      OBVIOUS
    <3>2. CASE RecordPending(p)
      BY <3>1, <3>2 DEF RecordPending
    <3>3. CASE UNCHANGED pendingVars
      BY <3>3
    <3> QED
      BY <1>20, <3>2, <3>3 DEF PostRecord
  <2>3. clashed' \subseteq Posts
    BY <1>20 DEF PostRecord, Rivals
  <2> QED
    BY <1>20, <2>1, <2>2, <2>3 DEF PostRecord
<1>21. ASSUME NEW p \in Posts, PostSend(p) PROVE TypeInv'
  <2>1. \E l \in {"accepted", "failed"} : pc' = [pc EXCEPT ![p] = l]
    BY <1>21 DEF PostSend
  <2>2. pc' \in [Actors -> Labels] /\ pc'[Runner] = pc[Runner]
    BY <2>1 DEF Labels
  <2>3. toBackend' \subseteq Requests
    BY <1>21 DEF PostSend, Requests
  <2> QED
    BY <1>21, <2>2, <2>3 DEF PostSend
<1>22. ASSUME NEW p \in Posts, PostHangup(p) PROVE TypeInv'
  <2>1. pc' \in [Actors -> Labels] /\ pc'[Runner] = pc[Runner]
    BY <1>22 DEF PostHangup, Labels
  <2>2. toBackend' \subseteq Requests
    BY <1>22 DEF PostHangup, Requests
  <2> QED
    BY <1>22, <2>1, <2>2 DEF PostHangup
<1>23. ASSUME NEW st \in Streams, NEW s \in Scopes, GetLookup(st, s) PROVE TypeInv'
  BY <1>23 DEF GetLookup, Labels
<1>24. ASSUME NEW st \in Streams, GetChecked(st) PROVE TypeInv'
  BY <1>24 DEF GetChecked, Labels
<1>25. ASSUME NEW st \in Streams, NEW after \in Nat, GetAttach(st, after) PROVE TypeInv'
  <2> DEFINE replay == EventsAfter(queue[scope[st]], after)
  <2>1. replay \in Seq(Events)
    BY <1>25, ReplayExact DEF GetAttach, HistoryWindow
  <2>2. ReplayCap(replay) \in Nat
    BY <2>1 DEF ReplayCap
  <2>3. buf' \in [Streams -> Seq(Events)] /\ cap' \in [Streams -> Nat]
    BY <1>25, <2>1, <2>2 DEF GetAttach
  <2>4. JobOK' /\ pc' \in [Actors -> Labels]
    BY <1>25 DEF GetAttach, Labels
  <2> HIDE DEF replay
  <2>5. /\ ch' \in [Scopes -> Streams \cup {NoStream}]
        /\ toClose' \in [Actors -> SUBSET Streams]
    <3>1. Replaced(scope[st]) \in SUBSET Streams
      BY DEF Replaced
    <3>2. /\ ch' = [ch EXCEPT ![scope[st]] = st]
          /\ toClose' = [toClose EXCEPT ![st] = Replaced(scope[st])]
      BY <1>25 DEF GetAttach
    <3> QED
      BY <3>1, <3>2
  <2>6. last' \in [Streams -> Nat]
    BY <1>25 DEF GetAttach
  <2> QED
    BY <1>25, <2>3, <2>4, <2>5, <2>6 DEF GetAttach
<1>26. ASSUME NEW st \in Streams, NEW after \in Nat, GetGone(st, after) PROVE TypeInv'
  BY <1>26 DEF GetGone, Labels
<1>27. ASSUME NEW st \in Streams, GetWrite(st) PROVE TypeInv'
  <2>1. Head(buf[st]) \in Events /\ Tail(buf[st]) \in Seq(Events)
    BY <1>27 DEF GetWrite
  <2>2. last' \in [Streams -> Nat] /\ buf' \in [Streams -> Seq(Events)]
    BY <1>27, <2>1 DEF GetWrite, Events
  <2>3. told' \subseteq Sessions
    BY <1>27 DEF GetWrite, Scopes
  <2> QED
    BY <1>27, <2>2, <2>3 DEF GetWrite
<1>28. ASSUME NEW st \in Streams, GetFinish(st) PROVE TypeInv'
  BY <1>28 DEF GetFinish, Labels
<1>29. ASSUME NEW st \in Streams, GetHangup(st) PROVE TypeInv'
  <2>1. pc' \in [Actors -> Labels] /\ pc'[Runner] = pc[Runner]
    BY <1>29 DEF GetHangup, Labels
  <2> QED
    BY <1>29, <2>1 DEF GetHangup
<1>30. ASSUME NEW st \in Streams, GetDetach(st) PROVE TypeInv'
  <2>1. pc' \in [Actors -> Labels] /\ pc'[Runner] = pc[Runner]
    BY <1>30 DEF GetDetach, Labels
  <2>2. ch' \in [Scopes -> Streams \cup {NoStream}]
    BY <1>30 DEF GetDetach, Detach
  <2>3. buf' \in [Streams -> Seq(Events)]
    BY <1>30 DEF GetDetach
  <2> QED
    BY <1>30, <2>1, <2>2, <2>3 DEF GetDetach
<1>31. ASSUME NEW d \in Deletes, DeleteLookup(d) PROVE TypeInv'
  BY <1>31 DEF DeleteLookup, Labels
<1>32. ASSUME NEW x \in Shutdowns, ShutdownTake(x) PROVE TypeInv'
  BY <1>32 DEF ShutdownTake, Labels
<1>33. ASSUME NEW r \in Requests, AgentAnswer(r) PROVE TypeInv'
  <2>1. \A s \in Scopes, err \in BOOLEAN : Answer(r, s, err) \in Messages
    BY DEF Answer, Messages
  <2>2. NoSession \in Scopes /\ Sessions \subseteq Scopes
    BY DEF Scopes
  <2> HIDE DEF TypeInv
  <2>3. Answers(r) \subseteq Messages
    BY <2>1, <2>2, Zenon DEF Answers
  <2> QED
    BY <1>33, <2>3, SMTT(30) DEF AgentAnswer, TypeInv
<1>34. ASSUME NEW s \in Scopes, AgentNote(s) PROVE TypeInv'
  <2>1. Note(s) \in Messages
    BY DEF Note, Messages
  <2>2. Append(fromBackend, Note(s)) \in Seq(Messages)
    BY <2>1
  <2>3. notes' \in 0 .. MaxNotes
    BY <1>34 DEF AgentNote
  <2> QED
    BY <1>34, <2>2, <2>3 DEF AgentNote
<1>35. CASE AgentExit
  BY <1>35 DEF AgentExit
<1>36. CASE UNCHANGED vars
  BY <1>36 DEF vars
<1>q. \A st \in Streams : 0 .. nextID[scope[st]] + 1 \subseteq Nat
  OBVIOUS
<1> HIDE DEF TypeInv
<1> QED
  BY <1>1, <1>2, <1>3, <1>4, <1>5, <1>6, <1>7, <1>8, <1>9, <1>10, <1>11, <1>12, <1>13, <1>14, <1>15, <1>16, <1>17, <1>18, <1>19, <1>20, <1>21, <1>22, <1>23, <1>24, <1>25, <1>26, <1>27, <1>28, <1>29, <1>30, <1>31, <1>32, <1>33, <1>34, <1>35, <1>36, <1>q
  DEF Next, ServerNext, EnvironmentNext, RunnerStep, InitializerStep, PostStep, GetStep

(* Only emit touches the retained history.                                 *)
LEMMA QuietHistory == [Next]_vars => Emit \/ UNCHANGED <<nextID, queue>>
  BY DEF Next, ServerNext, EnvironmentNext, RunnerStep, InitializerStep, PostStep, GetStep,
         CloserStep, RouteInit, RouteClosed, RouteAnswer, RouteNote, ScopeFor,
         RegisterSession, EmitClosed, UnregisterSession, ReceiveFails, PutConnection,
         SendInit, WaitInitAnswer, WaitInitClosed, InitHangup, CloseWith, CloseBackend,
         Unlist, CloseStream, PostLookup, PostChecked, PostRecord, PostSend, PostHangup,
         GetLookup, GetChecked, GetAttach, GetGone, GetWrite, GetFinish, GetHangup,
         GetDetach, DeleteLookup, ShutdownTake, AgentAnswer, AgentNote, AgentExit,
         vars, scopeVars

LEMMA WindowInit == Init => HistoryWindow
  BY DEF Init, HistoryWindow, Window

LEMMA WindowNext == TypeInv /\ HistoryWindow /\ [Next]_vars => HistoryWindow'
<1> SUFFICES ASSUME TypeInv, HistoryWindow, [Next]_vars PROVE HistoryWindow'
  OBVIOUS
<1>1. CASE Emit
  <2> DEFINE s == job.scope
             ev == [id |-> nextID[s] + 1, msg |-> job.msg]
             q  == Trimmed(Append(queue[s], ev), MaxQueued)
  <2>1. s \in Scopes /\ ev \in Events /\ ev.id = nextID[s] + 1
    BY DEF TypeInv, TypeOK, Events
  <2>2. queue[s] \in Seq(Events) /\ nextID[s] \in Nat
    BY <2>1 DEF TypeInv, TypeOK
  <2>3. Len(queue[s]) <= MaxQueued /\ Window(queue[s], nextID[s])
    BY <2>1 DEF HistoryWindow
  <2> HIDE DEF ev
  <2>4. Len(q) <= MaxQueued /\ Window(q, nextID[s] + 1)
    BY <2>1, <2>2, <2>3, TrimmedWindow
  <2> HIDE DEF q
  <2>5. queue' = [queue EXCEPT ![s] = q] /\ nextID' = [nextID EXCEPT ![s] = @ + 1]
    BY <1>1 DEF Emit, q, ev
  <2> QED
    BY <2>1, <2>4, <2>5 DEF HistoryWindow, TypeInv, TypeOK
<1>2. CASE UNCHANGED <<nextID, queue>>
  BY <1>2 DEF HistoryWindow
<1> QED
  BY <1>1, <1>2, QuietHistory

(***************************************************************************)
(* Every variable stays in its domain: in particular only a real session   *)
(* is registered, unregistered or reported closed, and only an answer is   *)
(* looked up among the pending requests.                                   *)
(***************************************************************************)
THEOREM TypeCorrect == Spec => []TypeOK
<1>1. Spec => [](TypeInv /\ HistoryWindow)
  BY TypeInit, TypeNext, WindowInit, WindowNext, PTL DEF Spec
<1> QED
  BY <1>1, PTL DEF TypeInv

(***************************************************************************)
(* emit keeps the retained history of every scope a window of consecutive  *)
(* ids that ends at the newest one, at most MaxQueued long: the arithmetic *)
(* of eventsAfter relies on it.                                            *)
(***************************************************************************)
THEOREM HistoryContiguous == Spec => []HistoryWindow
<1>1. Spec => [](TypeInv /\ HistoryWindow)
  BY TypeInit, TypeNext, WindowInit, WindowNext, PTL DEF Spec
<1> QED
  BY <1>1, PTL

-----------------------------------------------------------------------------
(* The event streams.                                                      *)

(***************************************************************************)
(* The inductive invariant of the channels.  A channel belongs to nobody   *)
(* before attachStream, then to one scope, then to the one goroutine that  *)
(* unlinked it.  The goroutine of run has no channel in its hands when it  *)
(* comes to emit, nor a handler when it comes to attachStream, so neither  *)
(* forgets one.                                                            *)
(***************************************************************************)
FreshChannels ==
    \A st \in Streams : pc[st] \notin {"streaming", "detach", "done"} =>
        /\ closes[st] = 0 /\ toClose[st] = {}
        /\ \A s \in Scopes : ch[s] # st
        /\ \A a \in Actors : st \notin toClose[a]

LinkedChannels ==
    \A s \in Scopes : ch[s] # NoStream =>
        /\ scope[ch[s]] = s /\ closes[ch[s]] = 0
        /\ pc[ch[s]] \in {"streaming", "detach"}
        /\ \A a \in Actors : ch[s] \notin toClose[a]

HeldChannels ==
    \A a \in Actors : \A st \in toClose[a] :
        closes[st] = 0 /\ \A b \in Actors : st \in toClose[b] => a = b

ClosedOnce == \A st \in Streams : closes[st] <= 1

Routing == {"scope", "register", "emit"}
RunnerFree == pc[Runner] \in Routing => Free(Runner)

ChanInv ==
    FreshChannels /\ LinkedChannels /\ HeldChannels /\ ClosedOnce /\ RunnerFree
      /\ NoOrphanStream

LEMMA ChanInit == Init => ChanInv
<1> SUFFICES ASSUME Init PROVE ChanInv
  OBVIOUS
<1>1. \A st \in Streams : pc[st] = "idle"
  BY Distinct DEF Init
<1>2. pc[Runner] = "idle"
  BY Distinct DEF Init
<1>3. /\ \A st \in Streams : closes[st] = 0
      /\ \A s \in Scopes : ch[s] = NoStream
      /\ \A a \in Actors : toClose[a] = {}
  BY DEF Init
<1>4. FreshChannels /\ LinkedChannels /\ HeldChannels
  BY <1>3, Distinct DEF FreshChannels, LinkedChannels, HeldChannels
<1>5. ClosedOnce /\ RunnerFree /\ NoOrphanStream
  BY <1>1, <1>2, <1>3 DEF ClosedOnce, RunnerFree, Routing, NoOrphanStream
<1> QED
  BY <1>4, <1>5 DEF ChanInv

LEMMA ChanSafe == TypeInv /\ ChanInv => SafeChannels
<1> SUFFICES ASSUME TypeInv, ChanInv PROVE SafeChannels
  OBVIOUS
<1> USE DEF TypeInv, TypeOK, ChanInv
<1>1. \A st \in Streams : closes[st] <= 1
  BY DEF FreshChannels, ClosedOnce
<1>2. \A s \in Scopes : ch[s] # NoStream => closes[ch[s]] = 0
  BY DEF LinkedChannels
<1>3. \A a \in Actors : \A st \in toClose[a] :
        /\ closes[st] = 0
        /\ st \notin Linked
        /\ \A b \in Actors : st \in toClose[b] => a = b
  BY DEF HeldChannels, LinkedChannels, Linked
<1> QED
  BY <1>1, <1>2, <1>3 DEF SafeChannels

-----------------------------------------------------------------------------

(* The steps that leave the event streams alone.                           *)
StreamsQuiet ==
    /\ UNCHANGED <<nextID, queue, ch, closed, toClose, chanVars, closes>>
    /\ \A st \in Streams : pc'[st] = pc[st]
    /\ pc'[Runner] \in Routing => pc[Runner] \in Routing \/ Free(Runner)

StreamStep ==
    \/ Emit
    \/ \E a \in Closers : CloseWith(a)
    \/ \E a \in Actors, st \in Streams : CloseStream(a, st)
    \/ \E st \in Streams :
        \/ \E s \in Scopes : GetLookup(st, s)
        \/ GetChecked(st)
        \/ \E after \in Nat : GetAttach(st, after) \/ GetGone(st, after)
        \/ GetWrite(st) \/ GetFinish(st) \/ GetHangup(st) \/ GetDetach(st)

LEMMA StreamCases ==
    TypeInv /\ [Next]_vars => StreamStep \/ StreamsQuiet
<1> SUFFICES ASSUME TypeInv, [Next]_vars PROVE StreamStep \/ StreamsQuiet
  OBVIOUS
<1>t. pc \in [Actors -> Labels]
  BY DEF TypeInv, TypeOK
<1> USE <1>t, Distinct DEF StreamsQuiet, Routing, Goto, Free, scopeVars, chanVars
<1>1. CASE RunnerStep
  BY <1>1 DEF RunnerStep, StreamStep, RouteInit, RouteClosed, RouteAnswer, RouteNote,
     ScopeFor, RegisterSession, EmitClosed, UnregisterSession, ReceiveFails, Receiving, AfterEmit
<1>2. CASE PutConnection \/ InitializerStep \/ InitHangup
  BY <1>2 DEF InitializerStep, PutConnection, SendInit, WaitInitAnswer, WaitInitClosed, InitHangup
<1>3. ASSUME NEW a \in Closers, CloserStep(a) PROVE StreamStep \/ StreamsQuiet
  BY <1>3 DEF CloserStep, CloseBackend, Unlist, AfterClose, StreamStep
<1>4. ASSUME NEW p \in Posts, PostStep(p) \/ PostHangup(p) PROVE StreamsQuiet
  BY <1>4 DEF PostStep, PostChecked, PostRecord, PostSend, PostHangup
<1>5. ASSUME NEW p \in Posts, NEW m \in PostMethods, NEW s \in Scopes, PostLookup(p, m, s)
      PROVE  StreamsQuiet
  BY <1>5 DEF PostLookup
<1>6. ASSUME NEW d \in Deletes, DeleteLookup(d) PROVE StreamsQuiet
  BY <1>6 DEF DeleteLookup
<1>7. ASSUME NEW x \in Shutdowns, ShutdownTake(x) PROVE StreamsQuiet
  BY <1>7 DEF ShutdownTake
<1>8. ASSUME NEW r \in Requests, AgentAnswer(r) PROVE StreamsQuiet
  BY <1>8 DEF AgentAnswer
<1>9. ASSUME NEW s \in Scopes, AgentNote(s) PROVE StreamsQuiet
  BY <1>9 DEF AgentNote
<1>10. CASE AgentExit
  BY <1>10 DEF AgentExit
<1>11. CASE UNCHANGED vars
  BY <1>11 DEF vars
<1>12. ASSUME NEW st \in Streams, GetStep(st) PROVE StreamStep
  <2>1. 0 .. nextID[scope[st]] + 1 \subseteq Nat
    OBVIOUS
  <2> QED
    BY <1>12, <2>1 DEF GetStep, StreamStep
<1> HIDE DEF StreamsQuiet
<1> QED
  BY <1>1, <1>2, <1>3, <1>4, <1>5, <1>6, <1>7, <1>8, <1>9, <1>10, <1>11, <1>12
  DEF Next, ServerNext, EnvironmentNext, StreamStep
-----------------------------------------------------------------------------

LEMMA ChanNext == TypeInv /\ ChanInv /\ [Next]_vars => ChanInv'
<1> SUFFICES ASSUME TypeInv, ChanInv, [Next]_vars PROVE ChanInv'
  OBVIOUS
<1>t. /\ pc \in [Actors -> Labels] /\ toClose \in [Actors -> SUBSET Streams]
      /\ ch \in [Scopes -> Streams \cup {NoStream}] /\ scope \in [Streams -> Scopes]
      /\ closes \in [Streams -> Nat] /\ job.scope \in Scopes
  BY DEF TypeInv, TypeOK
<1> USE <1>t, Distinct DEF Goto, Free, scopeVars, chanVars
<1>i. FreshChannels /\ LinkedChannels /\ HeldChannels /\ ClosedOnce /\ RunnerFree
        /\ NoOrphanStream
  BY DEF ChanInv
<1> USE DEF FreshChannels, LinkedChannels, HeldChannels, ClosedOnce, RunnerFree, Routing,
            NoOrphanStream, Woken
<1>1. CASE Emit
  <2>1. CASE UNCHANGED <<ch, toClose>>
    BY <1>i, <1>1, <2>1 DEF Emit, AfterEmit, ChanInv
  <2>2. CASE ch[job.scope] # NoStream /\ Overflow(job.scope)
    <3> DEFINE s == job.scope
               st == ch[job.scope]
    <3>1. st \in Streams /\ toClose[Runner] = {} /\ scope[st] = s
      BY <1>i, <1>1, <2>2 DEF Emit
    <3>2. toClose' = [toClose EXCEPT ![Runner] = {st}] /\ ch' = [ch EXCEPT ![s] = NoStream]
      BY <2>2 DEF Overflow
    <3>3. /\ UNCHANGED <<closes, scope, closed>>
          /\ \A x \in Streams : pc'[x] = pc[x]
          /\ pc'[Runner] \in {"receive", "unregister"}
      BY <1>1 DEF Emit, AfterEmit
    <3> HIDE DEF st, s
    <3>4. FreshChannels'
      BY <1>i, <3>1, <3>2, <3>3 DEF s, st
    <3>5. LinkedChannels'
      BY <1>i, <3>1, <3>2, <3>3 DEF s, st
    <3>6. HeldChannels'
      BY <1>i, <3>1, <3>2, <3>3 DEF s, st
    <3>7. ClosedOnce' /\ RunnerFree'
      BY <1>i, <3>3
    <3>8. NoOrphanStream'
      BY <1>i, <3>1, <3>2, <3>3 DEF s, st
    <3> QED
      BY <3>4, <3>5, <3>6, <3>7, <3>8 DEF ChanInv
  <2> QED
    BY <1>1, <2>1, <2>2 DEF Emit, NotDelivered, DeliverTo
<1>2. ASSUME NEW a \in Closers, CloseWith(a) PROVE ChanInv'
  <2>1. CASE closed
    BY <1>i, <1>2, <2>1 DEF CloseWith, AfterClose, ChanInv
  <2>2. CASE ~closed
    <3>1. /\ closed' = TRUE /\ toClose[a] = {}
          /\ toClose' = [toClose EXCEPT ![a] = Linked]
          /\ ch' = [s \in Scopes |-> NoStream]
          /\ pc' = [pc EXCEPT ![a] = "closeBackend"]
          /\ UNCHANGED <<closes, scope>>
      BY <1>2, <2>2 DEF CloseWith
    <3>2. \A st \in Linked : st \in Streams /\ \E s \in Scopes : ch[s] = st /\ st # NoStream
      BY DEF Linked
    <3> HIDE DEF Linked
    <3>3. \A st \in Streams : pc'[st] = pc[st]
      BY <3>1
    <3>4. FreshChannels'
      BY <1>i, <3>1, <3>2, <3>3
    <3>5. LinkedChannels' /\ ClosedOnce' /\ RunnerFree' /\ NoOrphanStream'
      BY <1>i, <3>1, <3>3
    <3>6. HeldChannels'
      BY <1>i, <3>1, <3>2
    <3> QED
      BY <3>4, <3>5, <3>6 DEF ChanInv
  <2> QED
    BY <2>1, <2>2
<1>3. ASSUME NEW a \in Actors, NEW st \in Streams, CloseStream(a, st) PROVE ChanInv'
  <2>1. /\ st \in toClose[a] /\ closes[st] = 0
        /\ toClose' = [toClose EXCEPT ![a] = @ \ {st}]
        /\ closes' = [closes EXCEPT ![st] = @ + 1]
        /\ UNCHANGED <<ch, closed, pc, scope>>
    BY <1>i, <1>3 DEF CloseStream
  <2>2. closes'[st] = 1 /\ \A x \in Streams : x # st => closes'[x] = closes[x]
    BY <2>1
  <2>3. \A b \in Actors : st \notin toClose'[b] /\ toClose'[b] \subseteq toClose[b]
    BY <1>i, <2>1
  <2>4. \A b \in Actors, x \in Streams : x # st => (x \in toClose'[b] <=> x \in toClose[b])
    BY <2>1
  <2>5. FreshChannels' /\ LinkedChannels' /\ HeldChannels' /\ ClosedOnce' /\ RunnerFree'
    BY <1>i, <2>1, <2>2, <2>3
  <2>6. NoOrphanStream'
    BY <1>i, <2>1, <2>2, <2>4
  <2> QED
    BY <2>5, <2>6 DEF ChanInv
<1>4. ASSUME NEW st \in Streams, NEW s \in Scopes, GetLookup(st, s) PROVE ChanInv'
  BY <1>i, <1>4 DEF GetLookup, ChanInv
<1>5. ASSUME NEW st \in Streams, GetChecked(st) PROVE ChanInv'
  BY <1>i, <1>5 DEF GetChecked, ChanInv
<1>6. ASSUME NEW st \in Streams, NEW after \in Nat, GetAttach(st, after) PROVE ChanInv'
  <2> DEFINE s == scope[st]
             old == ch[scope[st]]
  <2>1. /\ pc[st] = "attach" /\ toClose[st] = {} /\ s \in Scopes
        /\ closes[st] = 0 /\ \A x \in Scopes : ch[x] # st
        /\ \A a \in Actors : st \notin toClose[a]
    BY <1>i, <1>6 DEF GetAttach
  <2>2. /\ toClose' = [toClose EXCEPT ![st] = {old} \ {NoStream}]
        /\ ch' = [ch EXCEPT ![s] = st]
        /\ pc' = [pc EXCEPT ![st] = "streaming"]
        /\ UNCHANGED <<closes, closed, scope>>
    BY <1>6 DEF GetAttach, Replaced
  <2>3. old # NoStream => /\ old \in Streams /\ old # st /\ scope[old] = s /\ closes[old] = 0
                          /\ pc[old] \in {"streaming", "detach"}
                          /\ \A a \in Actors : old \notin toClose[a]
    BY <1>i, <2>1
  <2>4. \A x \in Scopes : x # s => ch[x] # old \/ old = NoStream
    BY <1>i, <2>3
  <2> HIDE DEF s, old
  <2>5. FreshChannels'
    BY <1>i, <2>1, <2>2, <2>3
  <2>6. LinkedChannels'
    BY <1>i, <2>1, <2>2, <2>3, <2>4 DEF s
  <2>7. HeldChannels'
    BY <1>i, <2>1, <2>2, <2>3
  <2>8. ClosedOnce' /\ RunnerFree'
    BY <1>i, <2>2
  <2>9. NoOrphanStream'
    BY <1>i, <2>1, <2>2, <2>3, <2>4 DEF s, old
  <2> QED
    BY <2>5, <2>6, <2>7, <2>8, <2>9 DEF ChanInv
<1>7. ASSUME NEW st \in Streams, NEW after \in Nat, GetGone(st, after) PROVE ChanInv'
  BY <1>i, <1>7 DEF GetGone, ChanInv
<1>8. ASSUME NEW st \in Streams, GetWrite(st) PROVE ChanInv'
  BY <1>i, <1>8 DEF GetWrite, ChanInv
<1>9. ASSUME NEW st \in Streams, GetFinish(st) \/ GetHangup(st) PROVE ChanInv'
  BY <1>i, <1>9 DEF GetFinish, GetHangup, ChanInv
<1>10. ASSUME NEW st \in Streams, GetDetach(st) PROVE ChanInv'
  <2>1. /\ pc[st] = "detach" /\ pc' = [pc EXCEPT ![st] = "done"]
        /\ UNCHANGED <<toClose, closes, closed, scope>>
        /\ \A x \in Scopes : ch'[x] = ch[x] \/ (ch[x] = st /\ ch'[x] = NoStream)
        /\ ch'[scope[st]] # st
    BY <1>10 DEF GetDetach, Detach
  <2>2. FreshChannels' /\ HeldChannels' /\ ClosedOnce' /\ RunnerFree'
    BY <1>i, <2>1
  <2>3. LinkedChannels'
    BY <1>i, <2>1
  <2>4. NoOrphanStream'
    BY <1>i, <2>1
  <2> QED
    BY <2>2, <2>3, <2>4 DEF ChanInv
<1>11. CASE StreamsQuiet
  BY <1>i, <1>11 DEF StreamsQuiet, ChanInv
<1> HIDE DEF ChanInv, StreamsQuiet
<1> QED
  BY <1>1, <1>2, <1>3, <1>4, <1>5, <1>6, <1>7, <1>8, <1>9, <1>10, <1>11, StreamCases
  DEF StreamStep

(***************************************************************************)
(* The hazard the comment at state.go:13 names is excluded: no interleaving*)
(* of emit, attachStream, detach and closeWith closes a channel twice or   *)
(* sends on a closed one.                                                  *)
(***************************************************************************)
THEOREM ChannelsSafe == Spec => []SafeChannels
<1>1. TypeInv /\ HistoryWindow /\ ChanInv /\ [Next]_vars
        => (TypeInv /\ HistoryWindow /\ ChanInv)'
  BY TypeNext, WindowNext, ChanNext
<1> QED
  BY <1>1, TypeInit, WindowInit, ChanInit, ChanSafe, PTL DEF Spec

(* While the connection is open no streaming handler is left waiting on a  *)
(* channel that nobody feeds and nobody will close.                        *)
THEOREM NoStreamLost == Spec => []NoOrphanStream
<1>1. TypeInv /\ HistoryWindow /\ ChanInv /\ [Next]_vars
        => (TypeInv /\ HistoryWindow /\ ChanInv)'
  BY TypeNext, WindowNext, ChanNext
<1>2. ChanInv => NoOrphanStream
  BY DEF ChanInv
<1> QED
  BY <1>1, <1>2, TypeInit, WindowInit, ChanInit, PTL DEF Spec
-----------------------------------------------------------------------------

LEMMA GaplessInit == Init => GaplessStream
<1> SUFFICES ASSUME Init PROVE GaplessStream
  OBVIOUS
<1>1. \A st \in Streams : pc[st] = "idle"
  BY Distinct DEF Init
<1> QED
  BY <1>1 DEF GaplessStream

LEMMA GaplessNext ==
    TypeInv /\ HistoryWindow /\ ChanInv /\ GaplessStream /\ [Next]_vars => GaplessStream'
<1> SUFFICES ASSUME TypeInv, HistoryWindow, ChanInv, GaplessStream, [Next]_vars
             PROVE  GaplessStream'
  OBVIOUS
<1>t. /\ pc \in [Actors -> Labels] /\ ch \in [Scopes -> Streams \cup {NoStream}]
      /\ scope \in [Streams -> Scopes] /\ nextID \in [Scopes -> Nat]
      /\ queue \in [Scopes -> Seq(Events)] /\ buf \in [Streams -> Seq(Events)]
      /\ last \in [Streams -> Nat]
      /\ job.scope \in Scopes /\ job.msg \in Messages
  BY DEF TypeInv, TypeOK
<1>i. \A s \in Scopes : ch[s] # NoStream => scope[ch[s]] = s
  BY DEF ChanInv, LinkedChannels
<1>e. \A e \in Events : e.id \in Nat
  BY DEF Events
<1>r. \A q \in Seq(Events), l \in Nat, n \in Nat, e \in Events :
        Resumes(q, l) /\ Newest(q, l) = n /\ e.id = n + 1
          => Resumes(Append(q, e), l) /\ Newest(Append(q, e), l) = n + 1
  BY <1>e, ResumesAppend
<1> USE <1>t, Distinct DEF Goto, scopeVars, chanVars
<1> SUFFICES ASSUME NEW x \in Streams, pc'[x] = "streaming"
             PROVE  /\ Resumes(buf'[x], last'[x])
                    /\ ch'[scope'[x]] = x => Newest(buf'[x], last'[x]) = nextID'[scope'[x]]
  BY DEF GaplessStream
<1> DEFINE Goal == /\ Resumes(buf'[x], last'[x])
                   /\ ch'[scope'[x]] = x => Newest(buf'[x], last'[x]) = nextID'[scope'[x]]
           Same == /\ pc[x] = "streaming"
                   /\ UNCHANGED <<buf[x], last[x], scope[x], nextID[scope[x]]>>
                   /\ ch'[scope[x]] = x => ch[scope[x]] = x
<1>g. pc[x] = "streaming" => /\ Resumes(buf[x], last[x])
                             /\ ch[scope[x]] = x => Newest(buf[x], last[x]) = nextID[scope[x]]
  BY DEF GaplessStream
<1>s. Same => Goal
  BY <1>g
<1>1. ASSUME Emit PROVE Goal
  <2> DEFINE s == job.scope
             ev == [id |-> nextID[s] + 1, msg |-> job.msg]
  <2>1. /\ nextID' = [nextID EXCEPT ![s] = @ + 1]
        /\ UNCHANGED <<scope, last>> /\ pc[x] = "streaming"
    BY <1>1 DEF Emit
  <2>2. CASE ch[s] = x /\ DeliverTo(x, ev)
    <3>1. /\ scope[x] = s /\ s \in Scopes
          /\ Resumes(buf[x], last[x]) /\ Newest(buf[x], last[x]) = nextID[s]
      BY <1>i, <1>g, <2>1, <2>2, StreamAssumption
    <3>2. ev \in Events /\ ev.id = nextID[s] + 1
      BY DEF Events
    <3>3. buf'[x] = Append(buf[x], ev) /\ last'[x] = last[x]
      BY <2>1, <2>2 DEF DeliverTo
    <3>4. nextID'[scope'[x]] = nextID[s] + 1
      BY <2>1, <3>1
    <3>5. buf[x] \in Seq(Events) /\ last[x] \in Nat /\ nextID[s] \in Nat
      OBVIOUS
    <3> HIDE DEF ev, s
    <3>6. Resumes(buf'[x], last'[x]) /\ Newest(buf'[x], last'[x]) = nextID[s] + 1
      <4>1. /\ Resumes(Append(buf[x], ev), last[x])
            /\ Newest(Append(buf[x], ev), last[x]) = nextID[s] + 1
        <5> HIDE DEF TypeInv, TypeOK, Goal, Same
        <5> QED
          BY <1>r, <3>1, <3>2, <3>5
      <4> QED
        BY <3>3, <4>1
    <3> QED
      BY <3>4, <3>6
  <2>3. CASE ch[s] # x /\ (NotDelivered \/ (ch[s] # NoStream /\ DeliverTo(ch[s], ev)))
    <3>1. buf'[x] = buf[x] /\ UNCHANGED ch
      BY <2>3 DEF NotDelivered, DeliverTo
    <3>2. CASE ch[scope[x]] = x
      <4>1. nextID'[scope[x]] = nextID[scope[x]]
        BY <2>1, <2>3, <3>2
      <4> QED
        BY <1>s, <2>1, <3>1, <4>1
    <3>3. CASE ch[scope[x]] # x
      BY <1>g, <2>1, <3>1, <3>3
    <3> QED
      BY <3>2, <3>3
  <2>4. CASE ch[s] # NoStream /\ Overflow(s)
    <3>1. buf'[x] = buf[x] /\ ch' = [ch EXCEPT ![s] = NoStream]
      BY <2>4 DEF Overflow
    <3>2. CASE scope[x] = s
      <4>1. ch'[scope'[x]] # x
        BY <2>1, <3>1, <3>2, StreamAssumption
      <4> QED
        BY <1>g, <2>1, <3>1, <4>1
    <3>3. CASE scope[x] # s
      BY <1>s, <2>1, <3>1, <3>3
    <3> QED
      BY <3>2, <3>3
  <2>5. CASE ch[s] = NoStream /\ NotDelivered
    BY <2>3, <2>5, StreamAssumption
  <2> QED
    BY <1>1, <2>2, <2>3, <2>4, <2>5 DEF Emit
<1>2. ASSUME NEW a \in Closers, CloseWith(a) PROVE Goal
  <2>1. \A s \in Scopes : ch'[s] = ch[s] \/ ch'[s] = NoStream
    BY <1>2 DEF CloseWith
  <2>2. UNCHANGED <<buf, last, scope, nextID>> /\ pc[x] = "streaming"
    BY <1>2 DEF CloseWith, AfterClose
  <2> QED
    BY <1>s, <2>1, <2>2, StreamAssumption
<1>3. ASSUME NEW a \in Actors, NEW st \in Streams, CloseStream(a, st) PROVE Goal
  BY <1>s, <1>3 DEF CloseStream
<1>4. ASSUME NEW st \in Streams, NEW s \in Scopes, GetLookup(st, s) PROVE Goal
  <2>1. pc[x] = "streaming" /\ x # st
    BY <1>4 DEF GetLookup
  <2> QED
    BY <1>s, <1>4, <2>1 DEF GetLookup
<1>5. ASSUME NEW st \in Streams, GetChecked(st) PROVE Goal
  BY <1>s, <1>5 DEF GetChecked
<1>6. ASSUME NEW st \in Streams, NEW after \in Nat, GetAttach(st, after) PROVE Goal
  <2> DEFINE s == scope[st]
             replay == EventsAfter(queue[s], after)
  <2>1. /\ ~HistoryGone(queue[s], nextID[s], after)
        /\ buf' = [buf EXCEPT ![st] = replay]
        /\ last' = [last EXCEPT ![st] = after]
        /\ ch' = [ch EXCEPT ![s] = st]
        /\ pc' = [pc EXCEPT ![st] = "streaming"]
        /\ UNCHANGED <<nextID, scope>>
    BY <1>6 DEF GetAttach
  <2>2. CASE x # st
    BY <1>s, <2>1, <2>2
  <2>3. CASE x = st
    <3>1. /\ queue[s] \in Seq(Events) /\ nextID[s] \in Nat
          /\ Window(queue[s], nextID[s])
      BY DEF HistoryWindow
    <3>2. buf'[x] = replay /\ last'[x] = after /\ nextID'[scope'[x]] = nextID[s]
      BY <2>1, <2>3
    <3> HIDE DEF s
    <3>3. Resumes(replay, after) /\ Newest(replay, after) = nextID[s]
      BY <2>1, <3>1, ResumesReplay
    <3> QED
      BY <3>2, <3>3
  <2> QED
    BY <2>2, <2>3
<1>7. ASSUME NEW st \in Streams, NEW after \in Nat, GetGone(st, after) PROVE Goal
  BY <1>s, <1>7 DEF GetGone
<1>8. ASSUME NEW st \in Streams, GetWrite(st) PROVE Goal
  <2>1. /\ buf[st] # <<>> /\ pc[st] = "streaming"
        /\ last' = [last EXCEPT ![st] = Head(buf[st]).id]
        /\ buf' = [buf EXCEPT ![st] = Tail(@)]
        /\ UNCHANGED <<ch, nextID, scope, pc>>
    BY <1>8 DEF GetWrite
  <2>2. CASE x # st
    BY <1>s, <2>1, <2>2
  <2>3. CASE x = st
    <3>1. /\ Resumes(buf[x], last[x])
          /\ ch[scope[x]] = x => Newest(buf[x], last[x]) = nextID[scope[x]]
      BY <1>g, <2>1, <2>3
    <3>2. buf'[x] = Tail(buf[x]) /\ last'[x] = Head(buf[x]).id /\ buf[x] # <<>>
      BY <2>1, <2>3
    <3>3. buf[x] \in Seq(Events) /\ last[x] \in Nat
      OBVIOUS
    <3>4. /\ Resumes(buf'[x], last'[x])
          /\ Newest(buf'[x], last'[x]) = Newest(buf[x], last[x])
      BY <1>e, <3>1, <3>2, <3>3, ResumesTail
    <3> QED
      BY <2>1, <3>1, <3>4
  <2> QED
    BY <2>2, <2>3
<1>9. ASSUME NEW st \in Streams, GetFinish(st) \/ GetHangup(st) PROVE Goal
  BY <1>s, <1>9 DEF GetFinish, GetHangup
<1>10. ASSUME NEW st \in Streams, GetDetach(st) PROVE Goal
  <2>1. /\ pc' = [pc EXCEPT ![st] = "done"]
        /\ buf' = [buf EXCEPT ![st] = <<>>]
        /\ UNCHANGED <<last, scope, nextID>>
        /\ \A s \in Scopes : ch'[s] = ch[s] \/ ch'[s] = NoStream
    BY <1>10 DEF GetDetach, Detach
  <2>2. x # st /\ pc[x] = "streaming"
    BY <2>1
  <2> QED
    BY <1>s, <2>1, <2>2, StreamAssumption
<1>11. ASSUME StreamsQuiet PROVE Goal
  BY <1>s, <1>11 DEF StreamsQuiet
<1> HIDE DEF Goal, Same
<1>12. Goal
  BY <1>1, <1>2, <1>3, <1>4, <1>5, <1>6, <1>7, <1>8, <1>9, <1>10, <1>11, StreamCases
  DEF StreamStep
<1> QED
  BY <1>12 DEF Goal

(***************************************************************************)
(* A stream delivers consecutive events that continue where the client's   *)
(* Last-Event-Id left off, and as long as it is linked it misses none, for *)
(* every size of the history and of the channels.                          *)
(***************************************************************************)
THEOREM StreamGapless == Spec => []GaplessStream
<1> DEFINE I == TypeInv /\ HistoryWindow /\ ChanInv /\ GaplessStream
<1>1. Init => I
  BY TypeInit, WindowInit, ChanInit, GaplessInit
<1>2. I /\ [Next]_vars => I'
  BY TypeNext, WindowNext, ChanNext, GaplessNext
<1>3. I => GaplessStream
  OBVIOUS
<1> HIDE DEF I
<1> QED
  BY <1>1, <1>2, <1>3, PTL DEF Spec

-----------------------------------------------------------------------------

LEMMA FitsNext ==
    TypeInv /\ HistoryWindow /\ ReplayFits /\ [Next]_vars => ReplayFits'
<1> SUFFICES ASSUME TypeInv, HistoryWindow, ReplayFits, [Next]_vars,
                    NEW x \in Streams
             PROVE  Len(buf'[x]) <= cap'[x]
  BY DEF ReplayFits
<1>t. /\ ch \in [Scopes -> Streams \cup {NoStream}] /\ scope \in [Streams -> Scopes]
      /\ nextID \in [Scopes -> Nat] /\ queue \in [Scopes -> Seq(Events)]
      /\ buf \in [Streams -> Seq(Events)] /\ cap \in [Streams -> Nat]
      /\ job.scope \in Scopes /\ job.msg \in Messages
  BY DEF TypeInv, TypeOK
<1>i. Len(buf[x]) <= cap[x] /\ Len(buf[x]) \in Nat /\ cap[x] \in Nat
  BY <1>t DEF ReplayFits
<1> DEFINE Fits == Len(buf'[x]) <= cap'[x]
<1>s. buf'[x] = buf[x] /\ cap'[x] = cap[x] => Fits
  BY <1>i
<1>1. ASSUME Emit PROVE Fits
  <2> DEFINE s == job.scope
             ev == [id |-> nextID[s] + 1, msg |-> job.msg]
  <2>1. cap' = cap
    BY <1>1 DEF Emit
  <2>2. CASE ch[s] # NoStream /\ ~Full(ch[s]) /\ DeliverTo(ch[s], ev)
    <3>1. CASE ch[s] = x
      <4>1. buf'[x] = Append(buf[x], ev)
        BY <1>t, <2>2, <3>1 DEF DeliverTo
      <4>2. ev \in Events
        BY <1>t DEF Events
      <4> HIDE DEF ev
      <4>3. Len(buf'[x]) = Len(buf[x]) + 1
        BY <1>t, <4>1, <4>2
      <4>4. ~(Len(buf[x]) >= cap[x])
        BY <2>2, <3>1 DEF Full
      <4> QED
        BY <1>i, <2>1, <4>3, <4>4
    <3>2. CASE ch[s] # x
      BY <1>s, <1>t, <2>1, <2>2, <3>2 DEF DeliverTo
    <3> QED
      BY <3>1, <3>2
  <2>3. CASE NotDelivered \/ Overflow(s)
    BY <1>s, <2>1, <2>3 DEF NotDelivered, Overflow
  <2> QED
    BY <1>1, <2>2, <2>3 DEF Emit
<1>2. ASSUME NEW st \in Streams, NEW after \in Nat, GetAttach(st, after) PROVE Fits
  <2> DEFINE q == queue[scope[st]]
             n == nextID[scope[st]]
             replay == EventsAfter(q, after)
  <2>1. /\ ~HistoryGone(q, n, after)
        /\ buf' = [buf EXCEPT ![st] = replay] /\ cap' = [cap EXCEPT ![st] = ReplayCap(replay)]
    BY <1>2 DEF GetAttach
  <2>2. q \in Seq(Events) /\ n \in Nat /\ Window(q, n)
    BY <1>t DEF HistoryWindow
  <2> HIDE DEF q, n
  <2>3. Len(replay) \in Nat
    BY <2>1, <2>2, ReplayExact
  <2> HIDE DEF replay
  <2>4. Len(replay) <= ReplayCap(replay)
    BY <2>3 DEF ReplayCap
  <2> QED
    BY <1>s, <1>t, <2>1, <2>4
<1>3. ASSUME NEW st \in Streams, GetWrite(st) PROVE Fits
  <2>1. buf[st] # <<>> /\ buf' = [buf EXCEPT ![st] = Tail(@)] /\ cap' = cap
    BY <1>3 DEF GetWrite, chanVars
  <2>2. CASE x = st
    <3>1. Len(Tail(buf[x])) = Len(buf[x]) - 1
      BY <1>t, <2>1, <2>2
    <3> QED
      BY <1>i, <1>t, <2>1, <2>2, <3>1
  <2> QED
    BY <1>s, <2>1, <2>2
<1>4. ASSUME NEW st \in Streams, GetDetach(st) PROVE Fits
  <2>1. buf' = [buf EXCEPT ![st] = <<>>] /\ cap' = cap
    BY <1>4 DEF GetDetach
  <2> QED
    BY <1>i, <1>s, <1>t, <2>1
<1>5. ASSUME UNCHANGED <<buf, cap>> PROVE Fits
  BY <1>s, <1>5
<1>6. \/ Emit \/ UNCHANGED <<buf, cap>>
      \/ \E st \in Streams : \/ \E after \in Nat : GetAttach(st, after)
                             \/ GetWrite(st) \/ GetDetach(st)
  BY StreamCases DEF StreamStep, StreamsQuiet, CloseWith, CloseStream, GetLookup, GetChecked,
     GetGone, GetFinish, GetHangup, chanVars
<1> QED
  BY <1>1, <1>2, <1>3, <1>4, <1>5, <1>6

(***************************************************************************)
(* attachStream and emit fill a channel while they hold c.mu, and never    *)
(* beyond its capacity: no sender ever waits on an event channel with the  *)
(* lock of the whole connection in its hands, whatever the size of the     *)
(* history that is replayed.                                               *)
(***************************************************************************)
THEOREM ReplayNeverBlocks == Spec => []ReplayFits
<1> DEFINE I == TypeInv /\ HistoryWindow /\ ReplayFits
<1>1. Init => I
  BY TypeInit, WindowInit DEF Init, ReplayFits
<1>2. I /\ [Next]_vars => I'
  BY TypeNext, WindowNext, FitsNext
<1>3. I => ReplayFits
  OBVIOUS
<1> HIDE DEF I
<1> QED
  BY <1>1, <1>2, <1>3, PTL DEF Spec

-----------------------------------------------------------------------------
(* Every answer of the agent goes where its request was posted, for any    *)
(* number of requests and whatever ids the client chose, unless two with   *)
(* one id are in flight at once.                                           *)

(* Where the answer to a request is, until scopeFor has looked it up.      *)
Queued(r) == \E i \in 1 .. Len(fromBackend) : fromBackend[i].to = r
Scoped(r) == pc[Runner] = "scope" /\ job.msg.to = r
UnderWay(r) == r \in toBackend \/ Queued(r) \/ Scoped(r)

(* A request is answered once, so its answer is in one place at most.      *)
AnsweredOnce ==
    /\ \A r \in toBackend : ~Queued(r) /\ ~Scoped(r)
    /\ \A i \in 1 .. Len(fromBackend) : ~Scoped(fromBackend[i].to)
    /\ \A i, j \in 1 .. Len(fromBackend) :
         IsAnswer(fromBackend[i]) /\ fromBackend[i].to = fromBackend[j].to => i = j

(***************************************************************************)
(* A POST of the client can use the id of initialize again, but not before *)
(* routeInit has taken the answer to initialize and cleared initKey.       *)
(***************************************************************************)
StageInv ==
    /\ \A p \in Posts : UnderWay(p) => pc[p] \in {"accepted", "failed"}
    /\ \A p \in Posts : pc[p] # "idle" => pc[Initializer] = "answered"
    /\ pc[Initializer] = "put" => pc[Runner] = "idle"
    /\ pc[Initializer] = "answered" \/ initCh # <<>> => initKey = NoKey
    /\ pc[Initializer] \in {"put", "send"} =>
         ~UnderWay(Initializer) /\ initKey = KeyOf[Initializer]
    /\ UnderWay(Initializer) => initKey = KeyOf[Initializer] /\ ~Scoped(Initializer)

(***************************************************************************)
(* sendToBackend has recorded the scope before the agent can answer, and   *)
(* only the answer itself, or another request with the same id that is in  *)
(* flight, removes the record.                                             *)
(***************************************************************************)
PendingInv ==
    \A p \in Posts :
        InFlight(p) /\ p \notin clashed => pendingScope[KeyOf[p]] = req[p].header

(* Requests that are in flight with one id have clashed.                   *)
ClashInv ==
    \A p, q \in Posts :
        p # q /\ KeyOf[p] = KeyOf[q] /\ InFlight(p) /\ InFlight(q) => p \in clashed

(* The client has posted something with the id k in the scope s.           *)
UsedIn(k, s) == \E p \in Posts : pc[p] # "idle" /\ KeyOf[p] = k /\ req[p].header = s

(* A record is of a scope in which its id was used, whoever left it.       *)
UsedInv == \A k \in Keys : pendingScope[k] # NoSession => UsedIn(k, pendingScope[k])

(* The message may become an event of the scope s.                         *)
Belongs(msg, s) ==
    IsAnswer(msg) =>
        /\ msg.to \in Posts /\ pc[msg.to] # "idle"
        /\ msg.to \notin clashed => req[msg.to].header = s
        /\ s # NoSession => UsedIn(KeyOf[msg.to], s)

RoutedInv ==
    /\ \A s \in Scopes : \A i \in 1 .. Len(queue[s]) : Belongs(queue[s][i].msg, s)
    /\ pc[Runner] \in {"register", "emit"} => Belongs(job.msg, job.scope)
    /\ \A i \in 1 .. Len(initCh) : initCh[i].to = Initializer

RouteInv ==
    AnsweredOnce /\ StageInv /\ PendingInv /\ ClashInv /\ UsedInv /\ RoutedInv

(* What InFlight of ConnState says, in the terms of this section.          *)
LEMMA InFlightSplit ==
    \A p : InFlight(p) <=> UnderWay(p) \/ (pc[p] = "send" /\ req[p].method # "reply")
BY DEF InFlight, UnderWay, Queued, Scoped

LEMMA RouteInvInit == Init => RouteInv
<1> SUFFICES ASSUME Init PROVE RouteInv
  OBVIOUS
<1>1. /\ pc[Initializer] = "put" /\ pc[Runner] = "idle" /\ \A p \in Posts : pc[p] = "idle"
      /\ toBackend = {} /\ fromBackend = <<>> /\ initCh = <<>>
      /\ initKey = KeyOf[Initializer] /\ \A s \in Scopes : queue[s] = <<>>
  BY Distinct DEF Init
<1>2. \A r : ~UnderWay(r)
  BY <1>1 DEF UnderWay, Queued, Scoped
<1>3. AnsweredOnce
  BY <1>1 DEF AnsweredOnce
<1>4. StageInv
  BY <1>1, <1>2 DEF StageInv
<1>5. PendingInv /\ ClashInv
  BY <1>1, <1>2, InFlightSplit DEF PendingInv, ClashInv
<1>6. UsedInv
  BY DEF Init, UsedInv
<1>7. RoutedInv
  BY <1>1 DEF RoutedInv
<1> QED
  BY <1>3, <1>4, <1>5, <1>6, <1>7 DEF RouteInv

-----------------------------------------------------------------------------
(* What the steps do to the answers on their way.                          *)

(* Nothing moves.                                                          *)
SameFlight ==
    /\ UNCHANGED <<toBackend, fromBackend>>
    /\ pc'[Runner] = "scope" <=> pc[Runner] = "scope"
    /\ pc[Runner] = "scope" => job' = job

LEMMA SameFlightKeeps ==
    ASSUME AnsweredOnce, SameFlight
    PROVE  AnsweredOnce' /\ \A r : UnderWay(r)' <=> UnderWay(r)
<1>1. \A r : (Queued(r)' <=> Queued(r)) /\ (Scoped(r)' <=> Scoped(r))
  BY DEF SameFlight, Queued, Scoped
<1>2. AnsweredOnce'
  BY <1>1 DEF AnsweredOnce, SameFlight
<1> QED
  BY <1>1, <1>2 DEF UnderWay, SameFlight

(* The agent gets a request that was not under way.                        *)
LEMMA SentKeeps ==
    ASSUME AnsweredOnce, NEW r, ~UnderWay(r), toBackend' = toBackend \cup {r},
           UNCHANGED <<fromBackend, job>>, pc'[Runner] = pc[Runner]
    PROVE  AnsweredOnce' /\ \A x : UnderWay(x)' <=> UnderWay(x) \/ x = r
<1>1. \A x : (Queued(x)' <=> Queued(x)) /\ (Scoped(x)' <=> Scoped(x))
  BY DEF Queued, Scoped
<1>2. AnsweredOnce'
  BY <1>1 DEF AnsweredOnce, UnderWay
<1>3. \A x : UnderWay(x)' <=> UnderWay(x) \/ x = r
  BY <1>1 DEF UnderWay
<1> QED
  BY <1>2, <1>3

(* The agent sends something.                                              *)
LEMMA AppendedKeeps ==
    ASSUME TypeInv, AnsweredOnce, NEW msg \in Messages,
           fromBackend' = Append(fromBackend, msg),
           IF IsAnswer(msg) THEN msg.to \in toBackend /\ toBackend' = toBackend \ {msg.to}
           ELSE toBackend' = toBackend,
           UNCHANGED <<pc, job>>
    PROVE  AnsweredOnce' /\ \A r \in Requests : UnderWay(r)' <=> UnderWay(r)
<1>1. /\ Len(fromBackend) \in Nat /\ Len(fromBackend') = Len(fromBackend) + 1
      /\ \A i \in 1 .. Len(fromBackend) : fromBackend'[i] = fromBackend[i]
      /\ fromBackend'[Len(fromBackend) + 1] = msg
  BY AppendProperties DEF TypeInv, TypeOK
<1>2. \A r : Queued(r)' <=> Queued(r) \/ r = msg.to
  BY <1>1 DEF Queued
<1>3. \A r : Scoped(r)' <=> Scoped(r)
  BY DEF Scoped
<1>4. ~Scoped(NoRequest)
  BY DEF TypeInv, JobOK, IsAnswer, Scoped
<1>5. IsAnswer(msg) => ~Queued(msg.to) /\ ~Scoped(msg.to)
  BY DEF AnsweredOnce
<1>6. \A r \in toBackend' : ~Queued(r)' /\ ~Scoped(r)'
  <2>1. toBackend \subseteq Requests
    BY DEF TypeInv, TypeOK
  <2> QED
    BY <1>2, <1>3, <2>1 DEF AnsweredOnce, IsAnswer
<1>7. ASSUME NEW i \in 1 .. Len(fromBackend') PROVE ~Scoped(fromBackend'[i].to)
  BY <1>1, <1>4, <1>5, <1>7 DEF AnsweredOnce, IsAnswer
<1>8. ASSUME NEW i \in 1 .. Len(fromBackend'), NEW j \in 1 .. Len(fromBackend'),
             IsAnswer(fromBackend'[i]), fromBackend'[i].to = fromBackend'[j].to
      PROVE  i = j
  <2>1. i \in 1 .. Len(fromBackend) \/ i = Len(fromBackend) + 1
    BY <1>1
  <2>2. j \in 1 .. Len(fromBackend) \/ j = Len(fromBackend) + 1
    BY <1>1
  <2>3. CASE i \in 1 .. Len(fromBackend) /\ j \in 1 .. Len(fromBackend)
    BY <1>1, <1>8, <2>3 DEF AnsweredOnce
  <2>4. CASE i \in 1 .. Len(fromBackend) /\ j = Len(fromBackend) + 1
    BY <1>1, <1>5, <1>8, <2>4 DEF Queued, IsAnswer
  <2>5. CASE i = Len(fromBackend) + 1 /\ j \in 1 .. Len(fromBackend)
    BY <1>1, <1>5, <1>8, <2>5 DEF Queued, IsAnswer
  <2> QED
    BY <2>1, <2>2, <2>3, <2>4, <2>5
<1>9. AnsweredOnce'
  BY <1>3, <1>6, <1>7, <1>8 DEF AnsweredOnce
<1>10. \A r \in Requests : UnderWay(r)' <=> UnderWay(r)
  BY <1>2, <1>3 DEF UnderWay, IsAnswer
<1> QED
  BY <1>9, <1>10

(* The goroutine of run takes the next message, to look its scope up or not*)
LEMMA TakenKeeps ==
    ASSUME TypeInv, AnsweredOnce, fromBackend # <<>>, fromBackend' = Tail(fromBackend),
           NEW first, first = Head(fromBackend), pc[Runner] # "scope", UNCHANGED toBackend,
           pc'[Runner] = "scope" => IsAnswer(first) /\ job'.msg = first
    PROVE  /\ AnsweredOnce'
           /\ \A r : UnderWay(r)' => UnderWay(r)
           /\ UnderWay(first.to)
           /\ pc'[Runner] # "scope" /\ IsAnswer(first) => ~UnderWay(first.to)'
<1>1. /\ first = fromBackend[1] /\ Len(fromBackend) \in Nat \ {0}
      /\ Len(fromBackend') = Len(fromBackend) - 1
      /\ \A i \in 1 .. Len(fromBackend') : fromBackend'[i] = fromBackend[i + 1]
  BY HeadTailProperties, EmptySeq DEF TypeInv, TypeOK
<1>2. \A r : Queued(r)' => Queued(r)
  BY <1>1 DEF Queued
<1>3. Queued(first.to)
  BY <1>1 DEF Queued
<1>4. IsAnswer(first) => ~Queued(first.to)'
  <2>1. ASSUME IsAnswer(first), NEW i \in 1 .. Len(fromBackend'), fromBackend'[i].to = first.to
        PROVE  FALSE
    <3>1. i + 1 \in 1 .. Len(fromBackend) /\ 1 \in 1 .. Len(fromBackend) /\ i + 1 # 1
      BY <1>1
    <3>2. fromBackend[i + 1].to = fromBackend[1].to /\ IsAnswer(fromBackend[1])
      BY <1>1, <2>1
    <3> QED
      BY <3>1, <3>2 DEF AnsweredOnce
  <2> QED
    BY <2>1 DEF Queued
<1>5. \A r : Scoped(r)' => r = first.to /\ pc'[Runner] = "scope"
  BY DEF Scoped
<1>6. first.to \notin toBackend
  BY <1>3 DEF AnsweredOnce
<1>7. \A r \in toBackend' : ~Queued(r)' /\ ~Scoped(r)'
  BY <1>2, <1>5, <1>6 DEF AnsweredOnce
<1>8. \A i \in 1 .. Len(fromBackend') : ~Scoped(fromBackend[i].to)'
  BY <1>4, <1>5 DEF Queued
<1>9. ASSUME NEW i \in 1 .. Len(fromBackend'), NEW j \in 1 .. Len(fromBackend'),
             IsAnswer(fromBackend'[i]), fromBackend'[i].to = fromBackend'[j].to
      PROVE  i = j
  <2>1. /\ i + 1 \in 1 .. Len(fromBackend) /\ j + 1 \in 1 .. Len(fromBackend)
        /\ fromBackend'[i] = fromBackend[i + 1] /\ fromBackend'[j] = fromBackend[j + 1]
        /\ i \in Nat /\ j \in Nat
    BY <1>1
  <2>2. i + 1 = j + 1
    BY <1>9, <2>1 DEF AnsweredOnce
  <2> QED
    BY <2>1, <2>2
<1>10. AnsweredOnce'
  BY <1>7, <1>8, <1>9 DEF AnsweredOnce
<1> QED
  BY <1>2, <1>3, <1>4, <1>5, <1>6, <1>10 DEF UnderWay

(* scopeFor is done with an answer.                                        *)
LEMMA LookedUpKeeps ==
    ASSUME TypeInv, AnsweredOnce, pc[Runner] = "scope", pc'[Runner] # "scope",
           UNCHANGED <<toBackend, fromBackend>>, NEW r, r = job.msg.to
    PROVE  /\ AnsweredOnce'
           /\ \A x : UnderWay(x)' <=> UnderWay(x) /\ x # r
           /\ UnderWay(r)
<1>1. \A x : (Queued(x)' <=> Queued(x)) /\ ~Scoped(x)' /\ (Scoped(x) <=> x = r)
  BY DEF Queued, Scoped
<1>2. r \notin toBackend /\ ~Queued(r)
  BY <1>1 DEF AnsweredOnce, Queued
<1>3. AnsweredOnce'
  BY <1>1 DEF AnsweredOnce
<1> QED
  BY <1>1, <1>2, <1>3 DEF UnderWay

(* Each element of r is e or one of q.                                     *)
Among(r, q, e) ==
    \A i \in 1 .. Len(r) : r[i] = e \/ \E j \in 1 .. Len(q) : r[i] = q[j]

(* What emit retains is the new event, or was retained before.             *)
LEMMA TrimmedElements ==
    ASSUME NEW q \in Seq(Events), NEW ev \in Events, NEW max \in Nat \ {0}
    PROVE  Among(Trimmed(Append(q, ev), max), q, ev)
<1> DEFINE q1 == Append(q, ev)
           r  == Trimmed(q1, max)
<1>1. /\ q1 \in Seq(Events) /\ Len(q1) = Len(q) + 1 /\ Len(q) \in Nat
      /\ \A j \in 1 .. Len(q) : q1[j] = q[j]
      /\ q1[Len(q) + 1] = ev
  BY AppendProperties
<1> HIDE DEF q1
<1>2. \A i \in 1 .. Len(q1) : q1[i] = ev \/ \E j \in 1 .. Len(q) : q1[i] = q[j]
  <2>1. ASSUME NEW i \in 1 .. Len(q1)
        PROVE  q1[i] = ev \/ \E j \in 1 .. Len(q) : q1[i] = q[j]
    <3>1. i = Len(q) + 1 \/ i \in 1 .. Len(q)
      BY <1>1
    <3> QED
      BY <1>1, <3>1
  <2> QED
    BY <2>1
<1>3. \A i \in 1 .. Len(r) : \E k \in 1 .. Len(q1) : r[i] = q1[k]
  <2>1. CASE Len(q1) > max
    <3> DEFINE m == Len(q1) - max + 1
    <3>d. r = SubSeq(q1, m, Len(q1))
      BY <2>1, Zenon DEF Trimmed
    <3>1. m \in 1 .. Len(q1)
      BY <1>1, <2>1
    <3> HIDE DEF m, r
    <3>e. \A i \in m .. Len(q1) : q1[i] \in Events
      <4>1. \A i \in m .. Len(q1) : i \in 1 .. Len(q1)
        BY <1>1, <3>1
      <4> QED
        BY <1>1, <4>1
    <3>2. /\ Len(r) = Len(q1) - m + 1
          /\ \A i \in 1 .. Len(r) : r[i] = q1[m + i - 1]
      <4>1. m \in Int /\ Len(q1) \in Int /\ m <= Len(q1)
        BY <1>1, <3>1
      <4>2. /\ Len(r) = IF m <= Len(q1) THEN Len(q1) - m + 1 ELSE 0
            /\ \A i \in 1 .. Len(q1) - m + 1 : r[i] = q1[m + i - 1]
        BY <3>d, <3>e, <4>1, SubSeqProperties
      <4> QED
        BY <4>1, <4>2
    <3>3. \A i \in 1 .. Len(r) : m + i - 1 \in 1 .. Len(q1)
      BY <1>1, <3>1, <3>2
    <3> QED
      BY <3>2, <3>3
  <2>2. CASE ~(Len(q1) > max)
    BY <2>2 DEF Trimmed
  <2> QED
    BY <2>1, <2>2
<1> HIDE DEF r
<1>4. \A i \in 1 .. Len(r) : r[i] = ev \/ \E j \in 1 .. Len(q) : r[i] = q[j]
  BY <1>2, <1>3
<1> QED
  BY <1>4 DEF r, q1, Among

-----------------------------------------------------------------------------
(* What the steps do to the records.                                       *)

(* Nothing a POST carries changes once it is there.                        *)
PostsAdvance ==
    \A p \in Posts : pc[p] # "idle" => pc'[p] # "idle" /\ req'[p] = req[p]

LEMMA UsedInKeeps ==
    ASSUME PostsAdvance, NEW k, NEW s, UsedIn(k, s)
    PROVE  UsedIn(k, s)'
BY DEF PostsAdvance, UsedIn

LEMMA BelongsKeeps ==
    ASSUME PostsAdvance, clashed \subseteq clashed', NEW msg, NEW s, Belongs(msg, s)
    PROVE  Belongs(msg, s)'
<1>1. SUFFICES ASSUME IsAnswer(msg) PROVE Belongs(msg, s)'
  BY DEF Belongs
<1>2. /\ msg.to \in Posts /\ pc[msg.to] # "idle"
      /\ msg.to \notin clashed => req[msg.to].header = s
      /\ s # NoSession => UsedIn(KeyOf[msg.to], s)
  BY <1>1 DEF Belongs
<1>3. pc'[msg.to] # "idle" /\ req'[msg.to] = req[msg.to]
  BY <1>2 DEF PostsAdvance
<1>4. s # NoSession => UsedIn(KeyOf[msg.to], s)'
  BY <1>2, UsedInKeeps
<1> QED
  BY <1>2, <1>3, <1>4 DEF Belongs

(* What is retained stays where it belongs.                                *)
LEMMA QueuedKeep ==
    ASSUME RoutedInv, PostsAdvance, clashed \subseteq clashed', queue' = queue
    PROVE  (\A s \in Scopes : \A i \in 1 .. Len(queue[s]) : Belongs(queue[s][i].msg, s))'
<1> SUFFICES ASSUME NEW s \in Scopes, NEW i \in 1 .. Len(queue'[s])
             PROVE  Belongs(queue[s][i].msg, s)'
  OBVIOUS
<1>1. PICK msg : msg = queue[s][i].msg
  OBVIOUS
<1>2. Belongs(msg, s)
  BY <1>1 DEF RoutedInv
<1>3. Belongs(msg, s)'
  BY <1>2, BelongsKeeps
<1> QED
  BY <1>1, <1>3 DEF Belongs, UsedIn

(* And so does what is about to be retained.                               *)
LEMMA RoutedKeep ==
    ASSUME RoutedInv, PostsAdvance, clashed \subseteq clashed', queue' = queue,
           pc'[Runner] \in {"register", "emit"} =>
               pc[Runner] \in {"register", "emit"} /\ job' = job,
           \A i \in 1 .. Len(initCh') : initCh'[i].to = Initializer
    PROVE  RoutedInv'
<1>1. (\A s \in Scopes : \A i \in 1 .. Len(queue[s]) : Belongs(queue[s][i].msg, s))'
  BY QueuedKeep
<1>2. (pc[Runner] \in {"register", "emit"} => Belongs(job.msg, job.scope))'
  <2> SUFFICES ASSUME pc'[Runner] \in {"register", "emit"}
               PROVE  Belongs(job.msg, job.scope)'
    OBVIOUS
  <2>1. PICK msg, s : msg = job.msg /\ s = job.scope
    OBVIOUS
  <2>2. Belongs(msg, s)
    BY <2>1 DEF RoutedInv
  <2>3. Belongs(msg, s)'
    BY <2>2, BelongsKeeps
  <2> QED
    BY <2>1, <2>3 DEF Belongs, UsedIn
<1> QED
  BY <1>1, <1>2 DEF RoutedInv

(* No record changes, and no request is in flight that was not before.     *)
LEMMA RecordsKeep ==
    ASSUME PendingInv, ClashInv, UsedInv, PostsAdvance,
           UNCHANGED <<pendingScope, clashed>>,
           \A p \in Posts : InFlight(p)' => InFlight(p) /\ pc[p] # "idle"
    PROVE  PendingInv' /\ ClashInv' /\ UsedInv'
<1>1. PendingInv'
  BY DEF PendingInv, PostsAdvance
<1>2. ClashInv'
  BY DEF ClashInv
<1>3. UsedInv'
  <2>1. ASSUME NEW k \in Keys, pendingScope'[k] # NoSession PROVE UsedIn(k, pendingScope[k])'
    <3>1. UsedIn(k, pendingScope[k])
      BY <2>1 DEF UsedInv
    <3>2. PICK s : s = pendingScope[k]
      OBVIOUS
    <3> QED
      BY <3>1, <3>2, UsedInKeeps
  <2> QED
    BY <2>1 DEF UsedInv
<1> QED
  BY <1>1, <1>2, <1>3

(* As RecordsKeep, in the terms of UnderWay.                               *)
LEMMA NotSentKeeps ==
    ASSUME RouteInv, UNCHANGED <<pendingScope, clashed, req>>,
           \A p \in Posts : pc'[p] = pc[p],
           \A p \in Posts : UnderWay(p)' => UnderWay(p)
    PROVE  PostsAdvance /\ PendingInv' /\ ClashInv' /\ UsedInv'
<1>1. PostsAdvance
  BY DEF PostsAdvance
<1>2. \A p \in Posts : InFlight(p)' => InFlight(p)
  <2>1. \A p : InFlight(p)' <=> UnderWay(p)' \/ (pc'[p] = "send" /\ req'[p].method # "reply")
    BY DEF InFlight, UnderWay, Queued, Scoped
  <2> QED
    BY <2>1, InFlightSplit
<1>3. \A p \in Posts : InFlight(p) => pc[p] # "idle"
  BY InFlightSplit DEF RouteInv, StageInv
<1> QED
  BY <1>1, <1>2, <1>3, RecordsKeep DEF RouteInv

-----------------------------------------------------------------------------

(* The steps that leave the requests and their answers alone.              *)
RouteQuiet ==
    /\ SameFlight
    /\ UNCHANGED <<initKey, initCh, pendingScope, req, queue, clashed>>
    /\ \A p \in Posts : pc'[p] = pc[p]
    /\ \/ pc'[Initializer] = pc[Initializer]
       \/ pc[Initializer] = "put" /\ pc'[Initializer] = "send"
       \/ pc[Initializer] # "answered" /\ pc'[Initializer] \notin {"put", "send", "answered"}
    /\ pc'[Initializer] = "put" /\ pc[Runner] = "idle" => pc'[Runner] = "idle"
    /\ pc'[Runner] \in {"register", "emit"} => pc[Runner] \in {"register", "emit"} /\ job' = job

LEMMA QuietKeepsRoutes == RouteInv /\ RouteQuiet => RouteInv'
<1> SUFFICES ASSUME RouteInv, RouteQuiet PROVE RouteInv'
  OBVIOUS
<1>1. AnsweredOnce' /\ \A r : UnderWay(r)' <=> UnderWay(r)
  BY SameFlightKeeps DEF RouteInv, RouteQuiet
<1>2. ~Scoped(Initializer) => ~Scoped(Initializer)'
  BY DEF RouteQuiet, SameFlight, Scoped
<1>3. StageInv'
  BY <1>1, <1>2 DEF RouteInv, StageInv, RouteQuiet
<1>4. PostsAdvance /\ PendingInv' /\ ClashInv' /\ UsedInv'
  BY <1>1, NotSentKeeps DEF RouteQuiet
<1>5. RoutedInv'
  <2>1. \A i \in 1 .. Len(initCh') : initCh'[i].to = Initializer
    BY DEF RouteInv, RoutedInv, RouteQuiet
  <2> QED
    BY <1>4, <2>1, RoutedKeep DEF RouteInv, RouteQuiet
<1> QED
  BY <1>1, <1>3, <1>4, <1>5 DEF RouteInv

-----------------------------------------------------------------------------
(* run and routeFromBackend.                                               *)

LEMMA RouteInitKeeps == TypeInv /\ RouteInv /\ (RouteInit \/ RouteClosed) => RouteInv'
<1> SUFFICES ASSUME TypeInv, RouteInv, RouteInit \/ RouteClosed PROVE RouteInv'
  OBVIOUS
<1>1. PICK first : first = Head(fromBackend)
  OBVIOUS
<1>2. /\ fromBackend # <<>> /\ fromBackend' = Tail(fromBackend) /\ IsAnswer(first)
      /\ pc[Runner] = "receive"
      /\ UNCHANGED <<toBackend, pc, job, pendingScope, req, queue, clashed>>
  BY <1>1 DEF RouteInit, RouteClosed, Receiving, backendVars, pendingVars, scopeVars, historyVars
<1>3. /\ AnsweredOnce' /\ \A x : UnderWay(x)' => UnderWay(x)
      /\ UnderWay(first.to) /\ ~UnderWay(first.to)'
  BY <1>1, <1>2, TakenKeeps DEF RouteInv
<1>4. \/ UNCHANGED <<initKey, initCh>>
      \/ /\ KeyOf[first.to] = initKey /\ initKey' = NoKey
         /\ initCh' = initCh \/ (initCh = <<>> /\ initCh' = <<first>>)
  BY <1>1 DEF RouteInit, RouteClosed, TakeInit, initVars
<1>5. first.to \in Requests
  <2>1. fromBackend \in Seq(Messages)
    BY DEF TypeInv, TypeOK
  <2>2. first \in Messages
    BY <1>1, <1>2, <2>1, HeadTailProperties
  <2> QED
    BY <1>2, <2>2 DEF Messages, IsAnswer
<1>6. initKey' # initKey => first.to = Initializer
  BY <1>3, <1>4, <1>5 DEF RouteInv, StageInv, Requests
<1>7. \A x : ~Scoped(x)'
  BY <1>2 DEF Scoped
<1>8. StageInv'
  <2>1. CASE UNCHANGED <<initKey, initCh>>
    BY <1>2, <1>3, <1>7, <2>1 DEF RouteInv, StageInv
  <2>2. CASE KeyOf[first.to] = initKey /\ initKey' = NoKey
    <3>1. first.to = Initializer
      BY <1>3, <1>5, <2>2 DEF RouteInv, StageInv, Requests
    <3>2. pc[Initializer] \notin {"put", "send"} /\ ~UnderWay(Initializer)'
      BY <1>3, <3>1 DEF RouteInv, StageInv
    <3> QED
      BY <1>2, <1>3, <2>2, <3>2 DEF RouteInv, StageInv
  <2> QED
    BY <1>4, <2>1, <2>2
<1>9. PostsAdvance /\ PendingInv' /\ ClashInv' /\ UsedInv'
  BY <1>2, <1>3, NotSentKeeps
<1>10. RoutedInv'
  <2>1. \A i \in 1 .. Len(initCh') : initCh'[i].to = Initializer
    <3>1. CASE initCh' = initCh
      BY <3>1 DEF RouteInv, RoutedInv
    <3>2. CASE initCh' = <<first>> /\ KeyOf[first.to] = initKey
      <4>1. first.to = Initializer
        BY <1>3, <1>5, <3>2 DEF RouteInv, StageInv, Requests
      <4> QED
        BY <3>2, <4>1
    <3> QED
      BY <1>4, <3>1, <3>2
  <2> QED
    BY <1>2, <1>9, <2>1, RoutedKeep DEF RouteInv
<1> QED
  BY <1>3, <1>8, <1>9, <1>10 DEF RouteInv

LEMMA RouteTakenKeeps == TypeInv /\ RouteInv /\ (RouteAnswer \/ RouteNote) => RouteInv'
<1> SUFFICES ASSUME TypeInv, RouteInv, RouteAnswer \/ RouteNote PROVE RouteInv'
  OBVIOUS
<1>1. PICK first : first = Head(fromBackend)
  OBVIOUS
<1>t. pc \in [Actors -> Labels]
  BY DEF TypeInv, TypeOK
<1>2. /\ fromBackend # <<>> /\ fromBackend' = Tail(fromBackend) /\ pc[Runner] = "receive"
      /\ job'.msg = first
      /\ \E l \in Labels : pc' = [pc EXCEPT ![Runner] = l]
      /\ UNCHANGED <<toBackend, pendingScope, initKey, initCh, req, queue, clashed>>
  BY <1>1 DEF RouteAnswer, RouteNote, Receiving, AfterScope, Job, Goto, pendingVars, initVars,
     scopeVars, historyVars, Labels
<1>3. \/ IsAnswer(first) /\ KeyOf[first.to] # initKey /\ pc'[Runner] = "scope"
      \/ ~IsAnswer(first) /\ pc'[Runner] \in {"register", "emit"}
  BY <1>1, <1>t, Distinct DEF RouteAnswer, RouteNote, AfterScope, Goto
<1>4. \A a \in Actors : a # Runner => pc'[a] = pc[a]
  BY <1>2, <1>t
<1>5. /\ AnsweredOnce' /\ \A x : UnderWay(x)' => UnderWay(x)
      /\ UnderWay(first.to)
  BY <1>1, <1>2, <1>3, TakenKeeps DEF RouteInv
<1>6. ~Scoped(Initializer)'
  BY <1>2, <1>3, <1>5 DEF Scoped, RouteInv, StageInv, IsAnswer, Requests
<1>7. StageInv'
  BY <1>2, <1>4, <1>5, <1>6, Distinct DEF RouteInv, StageInv
<1>8. PostsAdvance /\ PendingInv' /\ ClashInv' /\ UsedInv'
  BY <1>2, <1>4, <1>5, NotSentKeeps, Distinct
<1>9. RoutedInv'
  <2>1. CASE pc'[Runner] = "scope"
    BY <1>2, <1>8, <2>1, RoutedKeep DEF RouteInv, RoutedInv
  <2>2. CASE ~IsAnswer(first)
    <3>1. (\A s \in Scopes : \A i \in 1 .. Len(queue[s]) : Belongs(queue[s][i].msg, s))'
      BY <1>2, <1>8, QueuedKeep DEF RouteInv
    <3>2. Belongs(job.msg, job.scope)'
      BY <1>2, <2>2 DEF Belongs, IsAnswer
    <3> QED
      BY <1>2, <3>1, <3>2 DEF RouteInv, RoutedInv
  <2> QED
    BY <1>3, <2>1, <2>2
<1> QED
  BY <1>5, <1>7, <1>8, <1>9 DEF RouteInv

LEMMA ScopeForKeeps == TypeInv /\ RouteInv /\ ScopeFor => RouteInv'
<1> SUFFICES ASSUME TypeInv, RouteInv, ScopeFor PROVE RouteInv'
  OBVIOUS
<1>t. pc \in [Actors -> Labels] /\ pendingScope \in [Keys -> Scopes]
  BY DEF TypeInv, TypeOK
<1>1. PICK r : r = job.msg.to
  OBVIOUS
<1>2. /\ pc[Runner] = "scope" /\ pc'[Runner] \in {"register", "emit"}
      /\ job'.msg = job.msg /\ job'.scope = pendingScope[KeyOf[r]]
      /\ pendingScope' = [pendingScope EXCEPT ![KeyOf[r]] = NoSession]
      /\ \A a \in Actors : a # Runner => pc'[a] = pc[a]
      /\ UNCHANGED <<toBackend, fromBackend, initKey, initCh, req, queue, clashed>>
  BY <1>1, <1>t, Distinct DEF ScopeFor, Job, AfterScope, Goto, backendVars, scopeVars, initVars,
     historyVars
<1>3. /\ AnsweredOnce' /\ \A x : UnderWay(x)' <=> UnderWay(x) /\ x # r
      /\ UnderWay(r) /\ Scoped(r)
  BY <1>1, <1>2, LookedUpKeeps DEF RouteInv, Scoped
<1>4. r \in Requests
  BY <1>1, <1>2 DEF TypeInv, TypeOK, JobOK, Messages, IsAnswer
<1>5. r \in Posts
  BY <1>3, <1>4 DEF RouteInv, StageInv, Requests
<1>6. /\ pc[r] # "idle" /\ KeyOf[r] \in Keys
      /\ r \notin clashed => pendingScope[KeyOf[r]] = req[r].header
  BY <1>3, <1>5, InFlightSplit DEF RouteInv, StageInv, PendingInv, Requests
<1>7. StageInv'
  <2>1. ~Scoped(Initializer)'
    BY <1>2 DEF Scoped
  <2> QED
    BY <1>2, <1>3, <2>1, Distinct DEF RouteInv, StageInv
<1>8. PostsAdvance
  BY <1>2, Distinct DEF PostsAdvance
<1>9. \A p \in Posts : InFlight(p)' => InFlight(p) /\ p # r
  <2>1. \A p : InFlight(p)' <=> UnderWay(p)' \/ (pc'[p] = "send" /\ req'[p].method # "reply")
    BY DEF InFlight, UnderWay, Queued, Scoped
  <2>2. pc'[r] # "send"
    BY <1>2, <1>3, <1>5, Distinct DEF RouteInv, StageInv
  <2> QED
    BY <1>2, <1>3, <2>1, <2>2, InFlightSplit, Distinct
<1>10. PendingInv'
  <2>1. ASSUME NEW p \in Posts, InFlight(p)', p \notin clashed
        PROVE  pendingScope'[KeyOf[p]] = req'[p].header
    <3>1. p # r /\ InFlight(p) /\ InFlight(r)
      BY <1>3, <1>9, <2>1, InFlightSplit
    <3>2. KeyOf[p] # KeyOf[r] /\ KeyOf[p] \in Keys
      BY <1>5, <2>1, <3>1 DEF RouteInv, ClashInv, Requests
    <3>3. pendingScope[KeyOf[p]] = req[p].header
      BY <2>1, <3>1 DEF RouteInv, PendingInv
    <3> QED
      BY <1>2, <1>t, <3>2, <3>3
  <2> QED
    BY <1>2, <2>1 DEF PendingInv
<1>11. ClashInv'
  BY <1>2, <1>9 DEF RouteInv, ClashInv
<1>12. UsedInv'
  <2>1. ASSUME NEW k \in Keys, pendingScope'[k] # NoSession PROVE UsedIn(k, pendingScope[k])'
    <3>1. pendingScope'[k] = pendingScope[k]
      BY <1>2, <1>t, <2>1
    <3>2. PICK s : s = pendingScope[k]
      OBVIOUS
    <3>3. UsedIn(k, s)'
      BY <1>8, <2>1, <3>1, <3>2, UsedInKeeps DEF RouteInv, UsedInv
    <3> QED
      BY <3>1, <3>2, <3>3
  <2> QED
    BY <2>1 DEF UsedInv
<1>13. RoutedInv'
  <2>1. (\A s \in Scopes : \A i \in 1 .. Len(queue[s]) : Belongs(queue[s][i].msg, s))'
    BY <1>2, <1>8, QueuedKeep DEF RouteInv
  <2>2. Belongs(job.msg, pendingScope[KeyOf[r]])
    BY <1>1, <1>5, <1>6 DEF Belongs, RouteInv, UsedInv
  <2>3. PICK msg, s : msg = job.msg /\ s = pendingScope[KeyOf[r]]
    OBVIOUS
  <2>4. Belongs(msg, s)'
    BY <1>2, <1>8, <2>2, <2>3, BelongsKeeps
  <2>5. Belongs(job.msg, job.scope)'
    BY <1>2, <2>3, <2>4 DEF Belongs, UsedIn
  <2> QED
    BY <1>2, <2>1, <2>5 DEF RouteInv, RoutedInv
<1> QED
  BY <1>3, <1>7, <1>10, <1>11, <1>12, <1>13 DEF RouteInv

LEMMA EmitKeepsRoutes == TypeInv /\ RouteInv /\ Emit => RouteInv'
<1> SUFFICES ASSUME TypeInv, RouteInv, Emit PROVE RouteInv'
  OBVIOUS
<1> DEFINE s  == job.scope
           ev == [id |-> nextID[s] + 1, msg |-> job.msg]
<1>t. /\ pc \in [Actors -> Labels] /\ queue \in [Scopes -> Seq(Events)] /\ s \in Scopes
      /\ nextID[s] \in Nat /\ job.msg \in Messages
  BY DEF TypeInv, TypeOK
<1>e. ev \in Events /\ queue[s] \in Seq(Events)
  <2>1. nextID[s] + 1 \in Nat /\ queue[s] \in Seq(Events)
    BY <1>t
  <2>2. ev \in Events
    BY <1>t, <2>1 DEF Events
  <2> QED
    BY <2>1, <2>2
<1>1. /\ pc[Runner] = "emit" /\ pc'[Runner] \notin {"scope", "register", "emit"}
      /\ queue' = [queue EXCEPT ![s] = Trimmed(Append(queue[s], ev), MaxQueued)]
      /\ \A a \in Actors : a # Runner => pc'[a] = pc[a]
      /\ UNCHANGED <<toBackend, fromBackend, job, pendingScope, initKey, initCh, req, clashed>>
  BY <1>t, Distinct DEF Emit, AfterEmit, Goto, backendVars, pendingVars, initVars, historyVars
<1>2. AnsweredOnce' /\ \A r : UnderWay(r)' <=> UnderWay(r)
  BY <1>1, SameFlightKeeps DEF RouteInv, SameFlight
<1>3. StageInv'
  <2>1. ~Scoped(Initializer)'
    BY <1>1 DEF Scoped
  <2> QED
    BY <1>1, <1>2, <2>1, Distinct DEF RouteInv, StageInv
<1>4. PostsAdvance /\ PendingInv' /\ ClashInv' /\ UsedInv'
  BY <1>1, <1>2, NotSentKeeps, Distinct
<1>5. RoutedInv'
  <2>1. Belongs(ev.msg, s) /\ ev \in Events
    BY <1>1, <1>e DEF RouteInv, RoutedInv
  <2>2. \A x \in Scopes : \A i \in 1 .. Len(queue[x]) : Belongs(queue[x][i].msg, x)
    BY DEF RouteInv, RoutedInv
  <2>3. PICK q, e, new : q = queue[s] /\ e = ev /\ new = Trimmed(Append(q, e), MaxQueued)
    OBVIOUS
  <2>4. \A i \in 1 .. Len(new) : new[i] = e \/ \E j \in 1 .. Len(q) : new[i] = q[j]
    <3>1. MaxQueued \in Nat \ {0} /\ q \in Seq(Events) /\ e \in Events
      BY <1>e, <2>3
    <3>2. Among(Trimmed(Append(q, e), MaxQueued), q, e)
      BY <3>1, TrimmedElements
    <3>3. Among(new, q, e)
      BY <2>3, <3>2
    <3> QED
      BY <3>3 DEF Among
  <2> HIDE DEF ev
  <2>5. ASSUME NEW x \in Scopes, NEW i \in 1 .. Len(queue'[x]) PROVE Belongs(queue'[x][i].msg, x)
    <3>1. CASE x = s
      <4>1. queue'[x] = new
        BY <1>1, <1>t, <2>3, <3>1
      <4>2. new[i] = e \/ \E j \in 1 .. Len(q) : new[i] = q[j]
        BY <2>4, <4>1
      <4>3. CASE new[i] = e
        BY <2>1, <2>3, <3>1, <4>1, <4>3
      <4>4. CASE \E j \in 1 .. Len(q) : new[i] = q[j]
        BY <1>t, <2>2, <2>3, <3>1, <4>1, <4>4
      <4> QED
        BY <4>2, <4>3, <4>4
    <3>2. CASE x # s
      <4>1. queue'[x] = queue[x]
        BY <1>1, <1>t, <3>2
      <4> QED
        BY <2>2, <4>1
    <3> QED
      BY <3>1, <3>2
  <2>6. (\A x \in Scopes : \A i \in 1 .. Len(queue[x]) : Belongs(queue[x][i].msg, x))'
    <3> SUFFICES ASSUME NEW x \in Scopes, NEW i \in 1 .. Len(queue'[x])
                 PROVE  Belongs(queue[x][i].msg, x)'
      OBVIOUS
    <3>1. PICK msg : msg = queue'[x][i].msg
      OBVIOUS
    <3>2. Belongs(msg, x)
      BY <2>5, <3>1
    <3>3. Belongs(msg, x)'
      BY <1>1, <1>4, <3>2, BelongsKeeps
    <3> QED
      BY <3>1, <3>3 DEF Belongs, UsedIn
  <2> QED
    BY <1>1, <2>6 DEF RouteInv, RoutedInv
<1> QED
  BY <1>2, <1>3, <1>4, <1>5 DEF RouteInv

-----------------------------------------------------------------------------
(* handleInitialize.                                                       *)

LEMMA SendInitKeeps == TypeInv /\ RouteInv /\ SendInit => RouteInv'
<1> SUFFICES ASSUME TypeInv, RouteInv, SendInit PROVE RouteInv'
  OBVIOUS
<1>t. pc \in [Actors -> Labels]
  BY DEF TypeInv, TypeOK
<1>1. /\ pc[Initializer] = "send" /\ pc'[Initializer] \in {"wait", "close"}
      /\ \A a \in Actors : a # Initializer => pc'[a] = pc[a]
      /\ UNCHANGED <<fromBackend, job, pendingScope, initKey, initCh, req, queue, clashed>>
      /\ toBackend' = toBackend \cup {Initializer} \/ toBackend' = toBackend
  BY <1>t, Distinct DEF SendInit, Goto, pendingVars, initVars, scopeVars, historyVars
<1>2. ~UnderWay(Initializer) /\ initKey = KeyOf[Initializer]
  BY <1>1 DEF RouteInv, StageInv
<1>3. pc'[Runner] = pc[Runner] /\ \A p \in Posts : pc'[p] = pc[p]
  BY <1>1, Distinct
<1>4. CASE toBackend' = toBackend
  <2>1. RouteQuiet
    BY <1>1, <1>3, <1>4 DEF RouteQuiet, SameFlight
  <2> QED
    BY <2>1, QuietKeepsRoutes
<1>5. CASE toBackend' = toBackend \cup {Initializer}
  <2>1. AnsweredOnce' /\ \A x : UnderWay(x)' <=> UnderWay(x) \/ x = Initializer
    BY <1>1, <1>2, <1>3, <1>5, SentKeeps DEF RouteInv
  <2>2. ~Scoped(Initializer)' /\ \A p \in Posts : p # Initializer
    BY <1>1, <1>2, <1>3, Distinct DEF Scoped, UnderWay
  <2>3. StageInv'
    BY <1>1, <1>2, <1>3, <2>1, <2>2 DEF RouteInv, StageInv
  <2>4. PostsAdvance /\ PendingInv' /\ ClashInv' /\ UsedInv'
    BY <1>1, <1>3, <2>1, <2>2, NotSentKeeps
  <2>5. RoutedInv'
    BY <1>1, <1>3, <2>4, RoutedKeep DEF RouteInv, RoutedInv
  <2> QED
    BY <2>1, <2>3, <2>4, <2>5 DEF RouteInv
<1> QED
  BY <1>1, <1>4, <1>5

LEMMA WaitInitKeeps == TypeInv /\ RouteInv /\ WaitInitAnswer => RouteInv'
<1> SUFFICES ASSUME TypeInv, RouteInv, WaitInitAnswer PROVE RouteInv'
  OBVIOUS
<1>t. pc \in [Actors -> Labels] /\ initCh \in Seq(Messages)
  BY DEF TypeInv, TypeOK
<1>1. /\ pc[Initializer] = "wait" /\ pc'[Initializer] = "answered"
      /\ initCh # <<>> /\ initCh' = Tail(initCh)
      /\ \A a \in Actors : a # Initializer => pc'[a] = pc[a]
      /\ UNCHANGED <<toBackend, fromBackend, job, pendingScope, initKey, req, queue, clashed>>
  BY <1>t, Distinct DEF WaitInitAnswer, Goto, backendVars, pendingVars, scopeVars, historyVars
<1>2. pc'[Runner] = pc[Runner] /\ \A p \in Posts : pc'[p] = pc[p]
  BY <1>1, Distinct
<1>3. AnsweredOnce' /\ \A x : UnderWay(x)' <=> UnderWay(x)
  BY <1>1, <1>2, SameFlightKeeps DEF RouteInv, SameFlight
<1>4. StageInv'
  <2>1. Scoped(Initializer)' <=> Scoped(Initializer)
    BY <1>1, <1>2 DEF Scoped
  <2> QED
    BY <1>1, <1>2, <1>3, <2>1 DEF RouteInv, StageInv
<1>5. PostsAdvance /\ PendingInv' /\ ClashInv' /\ UsedInv'
  BY <1>1, <1>2, <1>3, NotSentKeeps
<1>6. \A i \in 1 .. Len(initCh') : initCh'[i].to = Initializer
  <2>1. /\ Len(initCh) \in Nat /\ Len(initCh') = Len(initCh) - 1
        /\ \A i \in 1 .. Len(initCh') : initCh'[i] = initCh[i + 1]
    BY <1>t, <1>1, HeadTailProperties, EmptySeq
  <2> QED
    BY <2>1 DEF RouteInv, RoutedInv
<1>7. RoutedInv'
  BY <1>1, <1>2, <1>5, <1>6, RoutedKeep DEF RouteInv
<1> QED
  BY <1>3, <1>4, <1>5, <1>7 DEF RouteInv

-----------------------------------------------------------------------------
(* handlePost.                                                             *)

(* The step of p in which its record is made.                              *)
LEMMA RecordKeeps ==
    ASSUME NEW p \in Posts, TypeInv, RouteInv, PostRecord(p), ~closed,
           pc'[p] = "send", PostsAdvance,
           \A q \in Posts : InFlight(q)' => InFlight(q) \/ q = p
    PROVE  PendingInv' /\ ClashInv' /\ UsedInv'
<1>t. pendingScope \in [Keys -> Scopes] /\ KeyOf \in [Requests -> Keys] /\ p \in Requests
  BY KeyAssumption DEF TypeInv, TypeOK, Requests
<1>1. /\ pendingScope' = [pendingScope EXCEPT ![KeyOf[p]] = req[p].header]
      /\ clashed' = IF Rivals(p) = {} THEN clashed ELSE clashed \cup Rivals(p) \cup {p}
      /\ req' = req
  BY DEF PostRecord, RecordPending
<1>2. clashed \subseteq clashed' /\ Rivals(p) \subseteq clashed'
  BY <1>1
<1>3. \A q \in Posts : q # p /\ KeyOf[q] = KeyOf[p] /\ InFlight(q) => q \in Rivals(p)
  BY DEF Rivals
<1>4. KeyOf[p] \in Keys /\ \A q \in Posts : KeyOf[q] \in Keys
  BY <1>t DEF Requests
<1>5. PendingInv'
  <2>1. ASSUME NEW q \in Posts, InFlight(q)', q \notin clashed'
        PROVE  pendingScope'[KeyOf[q]] = req'[q].header
    <3>1. CASE q = p
      BY <1>1, <1>t, <1>4, <3>1
    <3>2. CASE q # p
      <4>1. InFlight(q) /\ KeyOf[q] # KeyOf[p]
        BY <1>2, <1>3, <2>1, <3>2
      <4>2. pendingScope[KeyOf[q]] = req[q].header
        BY <1>2, <2>1, <4>1 DEF RouteInv, PendingInv
      <4> QED
        BY <1>1, <1>t, <1>4, <4>1, <4>2
    <3> QED
      BY <3>1, <3>2
  <2> QED
    BY <2>1 DEF PendingInv
<1>6. ClashInv'
  <2>1. ASSUME NEW q \in Posts, NEW r \in Posts, q # r, KeyOf[q] = KeyOf[r],
               InFlight(q)', InFlight(r)'
        PROVE  q \in clashed'
    <3>1. CASE q = p
      <4>1. r \in Rivals(p)
        BY <1>3, <2>1, <3>1
      <4> QED
        BY <1>1, <3>1, <4>1
    <3>2. CASE q # p /\ r = p
      BY <1>2, <1>3, <2>1, <3>2
    <3>3. CASE q # p /\ r # p
      BY <1>2, <2>1, <3>3 DEF RouteInv, ClashInv
    <3> QED
      BY <3>1, <3>2, <3>3
  <2> QED
    BY <2>1 DEF ClashInv
<1>7. UsedInv'
  <2>1. ASSUME NEW k \in Keys, pendingScope'[k] # NoSession PROVE UsedIn(k, pendingScope[k])'
    <3>1. PICK s : s = pendingScope'[k]
      OBVIOUS
    <3>2. CASE k = KeyOf[p]
      <4>1. pendingScope'[k] = req'[p].header
        BY <1>1, <1>t, <3>2
      <4> QED
        BY <3>2, <4>1 DEF UsedIn
    <3>3. CASE k # KeyOf[p]
      <4>1. pendingScope'[k] = pendingScope[k]
        BY <1>1, <1>t, <3>3
      <4>2. UsedIn(k, s)'
        BY <2>1, <3>1, <4>1, UsedInKeeps DEF RouteInv, UsedInv
      <4> QED
        BY <3>1, <4>2 DEF UsedIn
    <3> QED
      BY <3>2, <3>3
  <2> QED
    BY <2>1 DEF UsedInv
<1> QED
  BY <1>5, <1>6, <1>7

LEMMA PostKeeps ==
    ASSUME NEW p \in Posts, TypeInv, RouteInv,
           \/ \E m \in PostMethods, s \in Scopes : PostLookup(p, m, s)
           \/ \E body \in Scopes : PostChecked(p, body)
           \/ PostRecord(p) \/ PostSend(p) \/ PostHangup(p)
    PROVE  RouteInv'
<1>t. /\ pc \in [Actors -> Labels]
      /\ req \in [Posts -> [method : Methods \cup {NoMethod}, header : Scopes, late : BOOLEAN]]
  BY DEF TypeInv, TypeOK
<1>1. /\ \A a \in Actors : a # p => pc'[a] = pc[a]
      /\ UNCHANGED <<fromBackend, job, initKey, initCh, queue>>
  BY <1>t, Distinct DEF PostLookup, PostChecked, PostRecord, PostSend, PostHangup, Goto,
     backendVars, initVars, scopeVars
<1>2. /\ pc'[Runner] = pc[Runner] /\ pc'[Initializer] = pc[Initializer]
      /\ \A q \in Posts : q # p => pc'[q] = pc[q]
  BY <1>1, Distinct
<1>3. pc[p] \in {"idle", "check", "record", "send"} /\ pc'[p] # "idle"
  BY <1>t, Distinct DEF PostLookup, PostChecked, PostRecord, PostSend, PostHangup, Goto
<1>4. ~UnderWay(p) /\ (pc[p] = "idle" => Announced)
  BY <1>3 DEF RouteInv, StageInv, PostLookup, PostChecked, PostRecord, PostSend, PostHangup
<1>5. pc[Initializer] = "answered"
  BY <1>4 DEF Announced, RouteInv, StageInv
<1>6. /\ AnsweredOnce'
      /\ \A x : x # p => (UnderWay(x)' <=> UnderWay(x))
      /\ UnderWay(p)' => (PostSend(p) \/ PostHangup(p)) /\ toBackend' # toBackend
  <2>1. CASE toBackend' = toBackend
    BY <1>1, <1>2, <1>4, <2>1, SameFlightKeeps DEF RouteInv, SameFlight
  <2>2. CASE toBackend' # toBackend
    <3>1. toBackend' = toBackend \cup {p} /\ (PostSend(p) \/ PostHangup(p))
      BY <2>2 DEF PostLookup, PostChecked, PostRecord, PostSend, PostHangup, backendVars
    <3> QED
      BY <1>1, <1>2, <1>4, <2>2, <3>1, SentKeeps DEF RouteInv
  <2> QED
    BY <2>1, <2>2
<1>7. UnderWay(p)' => /\ pc[p] = "send" /\ req[p].method # "reply"
                      /\ pc'[p] \in {"accepted", "failed"}
  <2>1. PostSend(p) /\ toBackend' # toBackend => pc'[p] = "accepted"
    BY <1>t, Distinct DEF PostSend, Goto
  <2>2. PostHangup(p) => pc'[p] = "failed"
    BY <1>t, Distinct DEF PostHangup, Goto
  <2>3. (PostSend(p) \/ PostHangup(p)) /\ toBackend' # toBackend
          => pc[p] = "send" /\ req[p].method # "reply"
    BY DEF PostSend, PostHangup
  <2> QED
    BY <1>6, <2>1, <2>2, <2>3
<1>8. StageInv'
  <2>1. p # Initializer
    BY Distinct
  <2>2. \A q \in Posts : UnderWay(q)' => pc'[q] \in {"accepted", "failed"}
    BY <1>2, <1>6, <1>7 DEF RouteInv, StageInv
  <2>3. Scoped(Initializer)' <=> Scoped(Initializer)
    BY <1>1, <1>2 DEF Scoped
  <2> QED
    BY <1>1, <1>2, <1>5, <1>6, <2>1, <2>2, <2>3 DEF RouteInv, StageInv
<1>9. /\ \A q \in Posts : q # p => req'[q] = req[q]
      /\ pc[p] # "idle" => req' = req
      /\ clashed \subseteq clashed'
  BY <1>t DEF PostLookup, PostChecked, PostRecord, PostSend, PostHangup, historyVars
<1>10. PostsAdvance
  BY <1>2, <1>3, <1>9 DEF PostsAdvance
<1>11. /\ \A q \in Posts : q # p => (InFlight(q)' <=> InFlight(q))
       /\ InFlight(p)' <=> UnderWay(p)' \/ (pc'[p] = "send" /\ req'[p].method # "reply")
  <2>1. \A q : InFlight(q)' <=> UnderWay(q)' \/ (pc'[q] = "send" /\ req'[q].method # "reply")
    BY DEF InFlight, UnderWay, Queued, Scoped
  <2> QED
    BY <1>2, <1>6, <1>9, <2>1, InFlightSplit
<1>12. PendingInv' /\ ClashInv' /\ UsedInv'
  <2>1. CASE PostRecord(p) /\ ~closed
    <3>1. pc'[p] = "send"
      BY <1>t, <2>1, Distinct DEF PostRecord, Goto
    <3> QED
      BY <1>10, <1>11, <2>1, <3>1, RecordKeeps
  <2>2. CASE ~(PostRecord(p) /\ ~closed)
    <3>1. UNCHANGED <<pendingScope, clashed>>
      BY <2>2 DEF PostLookup, PostChecked, PostRecord, PostSend, PostHangup, pendingVars,
         historyVars
    <3>2. ~(pc'[p] = "send" /\ req'[p].method # "reply")
      BY <1>t, <2>2, Distinct DEF PostLookup, PostChecked, PostRecord, PostSend, PostHangup, Goto
    <3>3. \A q \in Posts : InFlight(q)' => InFlight(q)
      BY <1>7, <1>11, <3>2, InFlightSplit
    <3>4. \A q \in Posts : InFlight(q) => pc[q] # "idle"
      BY InFlightSplit DEF RouteInv, StageInv
    <3> QED
      BY <1>10, <3>1, <3>3, <3>4, RecordsKeep DEF RouteInv
  <2> QED
    BY <2>1, <2>2
<1>13. RoutedInv'
  BY <1>1, <1>2, <1>9, <1>10, RoutedKeep DEF RouteInv, RoutedInv
<1> QED
  BY <1>6, <1>8, <1>12, <1>13 DEF RouteInv

-----------------------------------------------------------------------------
(* The agent.                                                              *)

LEMMA AgentKeeps ==
    ASSUME TypeInv, RouteInv,
           (\E r \in Requests : AgentAnswer(r)) \/ (\E s \in Scopes : AgentNote(s))
    PROVE  RouteInv'
<1>t. fromBackend \in Seq(Messages)
  BY DEF TypeInv, TypeOK
<1>1. PICK msg \in Messages :
        /\ fromBackend' = Append(fromBackend, msg)
        /\ IF IsAnswer(msg) THEN msg.to \in toBackend /\ toBackend' = toBackend \ {msg.to}
           ELSE toBackend' = toBackend
  <2>1. ASSUME NEW r \in Requests, AgentAnswer(r)
        PROVE  \E msg \in Messages :
                 /\ fromBackend' = Append(fromBackend, msg)
                 /\ IsAnswer(msg) /\ msg.to \in toBackend /\ toBackend' = toBackend \ {msg.to}
    <3>1. \A s \in Scopes, err \in BOOLEAN :
            Answer(r, s, err) \in Messages /\ Answer(r, s, err).to = r
      BY DEF Answer, Messages
    <3>2. NoSession \in Scopes /\ \A s \in Sessions : s \in Scopes
      BY DEF Scopes
    <3>3. \A msg \in Answers(r) : msg \in Messages /\ msg.to = r
      BY <3>1, <3>2, Zenon DEF Answers
    <3> QED
      BY <2>1, <3>3 DEF AgentAnswer, IsAnswer
  <2>2. ASSUME NEW s \in Scopes, AgentNote(s)
        PROVE  \E msg \in Messages :
                 /\ fromBackend' = Append(fromBackend, msg)
                 /\ ~IsAnswer(msg) /\ toBackend' = toBackend
    <3>1. Note(s) \in Messages /\ ~IsAnswer(Note(s))
      BY DEF Note, Messages, IsAnswer
    <3> QED
      BY <2>2, <3>1 DEF AgentNote
  <2> QED
    BY <2>1, <2>2
<1>2. UNCHANGED <<pc, job, initKey, initCh, pendingScope, req, queue, clashed>>
  BY DEF AgentAnswer, AgentNote, initVars, pendingVars, scopeVars, historyVars
<1>3. AnsweredOnce' /\ \A r \in Requests : UnderWay(r)' <=> UnderWay(r)
  BY <1>1, <1>2, AppendedKeeps DEF RouteInv
<1>4. Scoped(Initializer)' <=> Scoped(Initializer)
  BY <1>2 DEF Scoped
<1>5. StageInv'
  BY <1>2, <1>3, <1>4 DEF RouteInv, StageInv, Requests
<1>6. PostsAdvance /\ PendingInv' /\ ClashInv' /\ UsedInv'
  BY <1>2, <1>3, NotSentKeeps DEF Requests
<1>7. RoutedInv'
  BY <1>2, <1>6, RoutedKeep DEF RouteInv, RoutedInv
<1> QED
  BY <1>3, <1>5, <1>6, <1>7 DEF RouteInv

-----------------------------------------------------------------------------
(* Everything else is quiet.                                               *)

LEMMA RunnerIsQuiet ==
    TypeInv /\ (RegisterSession \/ EmitClosed \/ UnregisterSession \/ ReceiveFails)
        => RouteQuiet
<1> SUFFICES ASSUME TypeInv,
                    RegisterSession \/ EmitClosed \/ UnregisterSession \/ ReceiveFails
             PROVE  RouteQuiet
  OBVIOUS
<1>t. pc \in [Actors -> Labels]
  BY DEF TypeInv, TypeOK
<1>1. UNCHANGED <<toBackend, fromBackend, initKey, initCh, pendingScope, req, queue, job, clashed>>
  BY DEF RegisterSession, EmitClosed, UnregisterSession, ReceiveFails, backendVars,
     pendingVars, initVars, scopeVars, historyVars
<1>2. /\ pc[Runner] \notin {"scope", "idle"} /\ pc'[Runner] # "scope"
      /\ pc'[Runner] \in {"register", "emit"} => pc[Runner] \in {"register", "emit"}
      /\ \A a \in Actors : a # Runner => pc'[a] = pc[a]
  BY <1>t, Distinct DEF RegisterSession, EmitClosed, UnregisterSession, ReceiveFails,
     AfterEmit, Goto
<1> QED
  BY <1>1, <1>2, Distinct DEF RouteQuiet, SameFlight

LEMMA InitializerIsQuiet ==
    TypeInv /\ RouteInv /\ (PutConnection \/ WaitInitClosed \/ InitHangup) => RouteQuiet
<1> SUFFICES ASSUME TypeInv, RouteInv, PutConnection \/ WaitInitClosed \/ InitHangup
             PROVE  RouteQuiet
  OBVIOUS
<1>t. pc \in [Actors -> Labels]
  BY DEF TypeInv, TypeOK
<1>1. UNCHANGED <<toBackend, fromBackend, initKey, initCh, pendingScope, req, queue, job, clashed>>
  BY DEF PutConnection, WaitInitClosed, InitHangup, backendVars, pendingVars, initVars,
     scopeVars, historyVars
<1>2. CASE PutConnection
  <2>1. /\ pc[Initializer] = "put" /\ pc'[Initializer] = "send"
        /\ pc'[Runner] = "receive" /\ \A p \in Posts : pc'[p] = pc[p]
    BY <1>t, <1>2, Distinct DEF PutConnection
  <2>2. pc[Runner] = "idle"
    BY <2>1 DEF RouteInv, StageInv
  <2> QED
    BY <1>1, <2>1, <2>2 DEF RouteQuiet, SameFlight
<1>3. CASE WaitInitClosed \/ InitHangup
  <2>1. /\ pc[Initializer] # "answered" /\ pc'[Initializer] = "close"
        /\ \A a \in Actors : a # Initializer => pc'[a] = pc[a]
    BY <1>t, <1>3, Distinct DEF WaitInitClosed, InitHangup, Goto
  <2> QED
    BY <1>1, <2>1, Distinct DEF RouteQuiet, SameFlight
<1> QED
  BY <1>2, <1>3

LEMMA CloserIsQuiet ==
    ASSUME TypeInv, NEW a \in Closers, CloserStep(a)
    PROVE  RouteQuiet
<1>t. pc \in [Actors -> Labels]
  BY DEF TypeInv, TypeOK
<1>1. UNCHANGED <<toBackend, fromBackend, initKey, initCh, pendingScope, req, queue, job, clashed>>
  BY DEF CloserStep, CloseWith, CloseBackend, Unlist, backendVars, pendingVars, initVars,
     scopeVars, historyVars
<1>2. /\ pc[a] \in {"close", "closeBackend", "unlist"}
      /\ pc'[a] \in {"closeBackend", "unlist", "done"}
      /\ \A b \in Actors : b # a => pc'[b] = pc[b]
  BY <1>t, Distinct DEF CloserStep, CloseWith, CloseBackend, Unlist, AfterClose, Goto
<1>3. a \notin Posts
  BY Distinct
<1> QED
  BY <1>1, <1>2, <1>3, Distinct DEF RouteQuiet, SameFlight

LEMMA StreamsAreQuiet ==
    ASSUME TypeInv,
           \/ \E a \in Actors, st \in Streams : CloseStream(a, st)
           \/ \E st \in Streams, s \in Scopes : GetLookup(st, s)
           \/ \E st \in Streams : GetStep(st) \/ GetWrite(st) \/ GetHangup(st)
           \/ \E d \in Deletes : DeleteLookup(d)
           \/ \E x \in Shutdowns : ShutdownTake(x)
           \/ AgentExit
    PROVE  RouteQuiet
<1>t. pc \in [Actors -> Labels]
  BY DEF TypeInv, TypeOK
<1>1. UNCHANGED <<toBackend, fromBackend, initKey, initCh, pendingScope, req, queue, job, clashed>>
  BY DEF CloseStream, GetLookup, GetStep, GetChecked, GetAttach, GetGone, GetFinish, GetDetach,
     GetWrite, GetHangup, DeleteLookup, ShutdownTake, AgentExit, backendVars, pendingVars,
     initVars, scopeVars, historyVars
<1>2. \A b \in Posts \cup {Initializer, Runner} : pc'[b] = pc[b]
  <2>1. ASSUME NEW a \in Streams \cup Deletes \cup Shutdowns, NEW l, Goto(a, l)
        PROVE  \A b \in Posts \cup {Initializer, Runner} : pc'[b] = pc[b]
    BY <1>t, <2>1, Distinct DEF Goto, Closers
  <2>2. CASE \E st \in Streams, s \in Scopes : GetLookup(st, s)
    BY <2>1, <2>2 DEF GetLookup
  <2>3. CASE \E st \in Streams : GetStep(st) \/ GetWrite(st) \/ GetHangup(st)
    <3>1. PICK st \in Streams : pc' = pc \/ \E l : Goto(st, l)
      BY <2>3 DEF GetStep, GetChecked, GetAttach, GetGone, GetFinish, GetDetach, GetWrite,
         GetHangup
    <3> QED
      BY <2>1, <3>1
  <2>4. CASE \E d \in Deletes : DeleteLookup(d)
    BY <2>1, <2>4 DEF DeleteLookup
  <2>5. CASE \E x \in Shutdowns : ShutdownTake(x)
    BY <2>1, <2>5 DEF ShutdownTake
  <2>6. CASE AgentExit \/ \E a \in Actors, st \in Streams : CloseStream(a, st)
    BY <2>6 DEF AgentExit, CloseStream
  <2> QED
    BY <2>2, <2>3, <2>4, <2>5, <2>6
<1> QED
  BY <1>1, <1>2 DEF RouteQuiet, SameFlight

LEMMA RouteInvNext == TypeInv /\ RouteInv /\ [Next]_vars => RouteInv'
<1> SUFFICES ASSUME TypeInv, RouteInv, [Next]_vars PROVE RouteInv'
  OBVIOUS
<1>1. CASE RunnerStep
  BY <1>1, RouteInitKeeps, RouteTakenKeeps, ScopeForKeeps, EmitKeepsRoutes, RunnerIsQuiet,
     QuietKeepsRoutes DEF RunnerStep
<1>2. CASE PutConnection \/ InitializerStep \/ InitHangup
  BY <1>2, SendInitKeeps, WaitInitKeeps, InitializerIsQuiet, QuietKeepsRoutes
  DEF InitializerStep
<1>3. CASE \E a \in Closers : CloserStep(a)
  BY <1>3, CloserIsQuiet, QuietKeepsRoutes
<1>4. CASE \/ \E p \in Posts : PostStep(p) \/ PostHangup(p)
           \/ \E p \in Posts, m \in PostMethods, s \in Scopes : PostLookup(p, m, s)
  BY <1>4, PostKeeps DEF PostStep
<1>5. CASE (\E r \in Requests : AgentAnswer(r)) \/ (\E s \in Scopes : AgentNote(s))
  BY <1>5, AgentKeeps
<1>6. CASE \/ \E a \in Actors, st \in Streams : CloseStream(a, st)
           \/ \E st \in Streams, s \in Scopes : GetLookup(st, s)
           \/ \E st \in Streams : GetStep(st) \/ GetWrite(st) \/ GetHangup(st)
           \/ \E d \in Deletes : DeleteLookup(d)
           \/ \E x \in Shutdowns : ShutdownTake(x)
           \/ AgentExit
  BY <1>6, StreamsAreQuiet, QuietKeepsRoutes
<1>7. CASE UNCHANGED vars
  <2>1. RouteQuiet
    BY <1>7 DEF RouteQuiet, SameFlight, vars, backendVars, pendingVars, initVars, scopeVars,
       historyVars
  <2> QED
    BY <2>1, QuietKeepsRoutes
<1> QED
  BY <1>1, <1>2, <1>3, <1>4, <1>5, <1>6, <1>7 DEF Next, ServerNext, EnvironmentNext

(***************************************************************************)
(* routeInit, scopeFor and emit put every answer of the agent into the     *)
(* history of the scope its request was posted in, and hand the waiting    *)
(* handler nothing but the answer to initialize, however many requests are *)
(* under way, in whatever order they are answered and whatever ids they    *)
(* have: that of initialize, that of a request which has been answered, or *)
(* that of one which has failed and left its record behind.  Only requests *)
(* that are in flight at once with one id may be mixed up, among the scopes*)
(* in which this id was used and the connection's own.                     *)
(***************************************************************************)
THEOREM AnswersRouted == Spec => []AnswerRouting
<1>1. Init => TypeInv /\ HistoryWindow /\ RouteInv
  BY TypeInit, WindowInit, RouteInvInit
<1>2. TypeInv /\ HistoryWindow /\ RouteInv /\ [Next]_vars
        => (TypeInv /\ HistoryWindow /\ RouteInv)'
  BY TypeNext, WindowNext, RouteInvNext
<1>3. RouteInv => AnswerRouting
  BY DEF RouteInv, RoutedInv, Belongs, UsedIn, AnswerRouting, PostedIn
<1> QED
  BY <1>1, <1>2, <1>3, PTL DEF Spec
=============================================================================
