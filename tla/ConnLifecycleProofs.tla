------------------------ MODULE ConnLifecycleProofs ------------------------
(***************************************************************************)
(* ConnState implements an entry of Server: every step maps to a step of   *)
(* the table or to a stutter.                                              *)
(***************************************************************************)
EXTENDS ConnLifecycle, ConnStateProofs

USE SessionAssumption, StreamAssumption, RequestAssumption, KeyAssumption,
    BoundAssumption

Inside == {"receive", "scope", "register", "emit", "unregister"}

(* The goroutines of an entry, told apart.                                 *)
LEMMA Kinds ==
    /\ Initializer \in Lifecycles /\ Runner \in Lifecycles /\ Initializer # Runner
    /\ Initializer \notin Deletes \cup Shutdowns /\ Runner \notin Deletes \cup Shutdowns
    /\ Deletes \cap Shutdowns = {}
    /\ Lifecycles = Closers /\ Lifecycles \subseteq Actors
    /\ \A st \in Streams : st \notin Lifecycles
    /\ \A p \in Posts : p \notin Lifecycles
  BY ActorAssumption DEF Lifecycles, Closers, Actors

LEMMA EntryClosers == Entry!Closers = Lifecycles /\ Entry!Runners = {Runner}
  BY DEF Entry!Closers, Entry!Runners, Lifecycles

(* Steps that take no goroutine of the entry anywhere.                     *)
EntryQuiet ==
    /\ UNCHANGED <<backendOpen, listed, closed>>
    /\ \A a \in Lifecycles : pc'[a] = pc[a] \/ (a = Runner /\ pc[a] \in Inside /\ pc'[a] \in Inside)

LEMMA QuietStutters == EntryQuiet => UNCHANGED Entry!tableVars
<1> SUFFICES ASSUME EntryQuiet PROVE UNCHANGED Entry!tableVars
  OBVIOUS
<1>1. EntryAt' = EntryAt
  BY DEF EntryQuiet, EntryAt, Inside
<1>2. EntryConn' = EntryConn
  BY Kinds DEF EntryQuiet, EntryConn, Inside
<1>3. EntryLeft' = EntryLeft
  BY Kinds DEF EntryQuiet, EntryLeft
<1> QED
  BY <1>1, <1>2, <1>3 DEF EntryQuiet, Entry!tableVars

(* One goroutine goes from one label to another, both seen from the table. *)
LEMMA EntryMoves ==
    ASSUME NEW a \in Lifecycles, NEW l, pc \in [Actors -> Labels], pc' = [pc EXCEPT ![a] = l],
           l \notin Inside \ {"receive"}
    PROVE  /\ EntryAt' = [EntryAt EXCEPT ![a] = l]
           /\ EntryConn' = [EntryConn EXCEPT ![a] =
                              IF \/ a = Initializer
                                 \/ a \in Deletes \cup {Runner} /\ l # "idle"
                                 \/ a \in Shutdowns /\ l \notin {"idle", "close"}
                              THEN Initializer ELSE NoRequest]
           /\ EntryLeft' = [EntryLeft EXCEPT ![a] =
                              IF a \in Shutdowns /\ l = "close" THEN {Initializer} ELSE {}]
<1>1. pc'[a] = l /\ \A b \in Lifecycles : b # a => pc'[b] = pc[b]
  BY Kinds
<1>2. EntryAt' = [EntryAt EXCEPT ![a] = l]
  BY <1>1 DEF EntryAt, Inside
<1>3. EntryConn' = [EntryConn EXCEPT ![a] =
                              IF \/ a = Initializer
                                 \/ a \in Deletes \cup {Runner} /\ l # "idle"
                                 \/ a \in Shutdowns /\ l \notin {"idle", "close"}
                              THEN Initializer ELSE NoRequest]
  BY <1>1 DEF EntryConn
<1>4. EntryLeft' = [EntryLeft EXCEPT ![a] =
                              IF a \in Shutdowns /\ l = "close" THEN {Initializer} ELSE {}]
  BY <1>1 DEF EntryLeft
<1> QED
  BY <1>2, <1>3, <1>4

LEMMA EntryKeeps ==
    ASSUME NEW a \in Lifecycles
    PROVE  /\ [EntryConn EXCEPT ![a] = EntryConn[a]] = EntryConn
           /\ [EntryLeft EXCEPT ![a] = EntryLeft[a]] = EntryLeft
<1>1. ASSUME NEW S, NEW f \in [Lifecycles -> S] PROVE [f EXCEPT ![a] = f[a]] = f
  OBVIOUS
<1>2. EntryConn \in [Lifecycles -> {Initializer, NoRequest}]
  BY DEF EntryConn
<1>3. EntryLeft \in [Lifecycles -> {{Initializer}, {}}]
  BY DEF EntryLeft
<1> QED
  BY <1>1, <1>2, <1>3

-----------------------------------------------------------------------------
(* The steps that the table sees.                                          *)

LEMMA PutMaps == TypeInv /\ PutConnection => Entry!TableNext
<1> SUFFICES ASSUME TypeInv, PutConnection PROVE Entry!Put(Initializer)
  BY DEF Entry!TableNext, Entry!InitializeStep
<1>1. /\ pc[Initializer] = "put" /\ listed' = TRUE
      /\ pc' = [pc EXCEPT ![Initializer] = "send", ![Runner] = "receive"]
      /\ UNCHANGED <<backendOpen, closed>> /\ pc \in [Actors -> Labels]
  BY DEF PutConnection, backendVars, TypeInv, TypeOK
<1>2. /\ pc'[Initializer] = "send" /\ pc'[Runner] = "receive"
      /\ \A b \in Lifecycles \ {Initializer, Runner} : pc'[b] = pc[b]
  BY <1>1, Kinds
<1>3. EntryAt' = [EntryAt EXCEPT ![Initializer] = "send", ![Runner] = "receive"]
  BY <1>2, Kinds DEF EntryAt
<1>4. EntryConn' = [EntryConn EXCEPT ![Runner] = Initializer]
  BY <1>2, Kinds DEF EntryConn
<1>5. EntryLeft' = EntryLeft
  BY <1>2, Kinds DEF EntryLeft
<1>6. EntryAt[Initializer] = "put"
  BY <1>1, Kinds DEF EntryAt
<1> QED
  BY <1>1, <1>3, <1>4, <1>5, <1>6 DEF Entry!Put

LEMMA InitializerMaps ==
    TypeInv /\ (InitializerStep \/ InitHangup) => Entry!TableNext
<1> SUFFICES ASSUME TypeInv, InitializerStep \/ InitHangup PROVE Entry!TableNext
  OBVIOUS
<1>1. PICK l \in {"wait", "close", "answered"} :
        /\ pc' = [pc EXCEPT ![Initializer] = l]
        /\ \/ pc[Initializer] = "send" /\ l \in {"wait", "close"}
           \/ pc[Initializer] = "wait" /\ l \in {"answered", "close"}
        /\ UNCHANGED <<backendOpen, listed, closed>>
  BY DEF InitializerStep, InitHangup, SendInit, WaitInitAnswer, WaitInitClosed, Goto,
         backendVars
<1>2. /\ EntryAt' = [EntryAt EXCEPT ![Initializer] = l]
      /\ EntryConn' = [EntryConn EXCEPT ![Initializer] = Initializer]
      /\ EntryLeft' = [EntryLeft EXCEPT ![Initializer] = {}]
  BY <1>1, EntryMoves, Kinds DEF TypeInv, TypeOK, Inside
<1>3. /\ EntryAt[Initializer] = pc[Initializer] /\ EntryConn[Initializer] = Initializer
      /\ EntryLeft[Initializer] = {}
  BY Kinds DEF EntryAt, EntryConn, EntryLeft
<1>4. EntryConn' = EntryConn /\ EntryLeft' = EntryLeft
  BY <1>2, <1>3, EntryKeeps, Kinds
<1>5. Entry!SendInitialize(Initializer) \/ Entry!AwaitInitialize(Initializer)
  BY <1>1, <1>2, <1>3, <1>4 DEF Entry!SendInitialize, Entry!AwaitInitialize, Entry!MoveTo
<1> QED
  BY <1>5 DEF Entry!TableNext, Entry!InitializeStep

(* What a goroutine that is closing the connection works on.               *)
LEMMA ClosingEntry ==
    ASSUME NEW a \in Lifecycles, pc[a] \in {"close", "closeBackend", "unlist"}
    PROVE  /\ EntryAt[a] = pc[a]
           /\ a \notin Shutdowns => EntryConn[a] = Initializer /\ EntryLeft[a] = {}
           /\ a \in Shutdowns => EntryLeft[a] = IF pc[a] = "close" THEN {Initializer} ELSE {}
           /\ a \in Shutdowns /\ pc[a] # "close" => EntryConn[a] = Initializer
  BY Kinds DEF EntryAt, EntryConn, EntryLeft, Lifecycles

LEMMA AfterCloseMaps ==
    ASSUME NEW a \in Lifecycles
    PROVE  Entry!Afterwards(a, {}) = AfterClose(a)
  BY EntryClosers DEF Entry!Afterwards, AfterClose

LEMMA CloseWithMaps ==
    ASSUME NEW a \in Lifecycles, TypeInv, CloseWith(a) PROVE Entry!CloserStepOf(a)
<1>1. PICK l \in {"closeBackend", "unlist", "done"} :
        /\ pc[a] = "close" /\ pc' = [pc EXCEPT ![a] = l]
        /\ l = (IF closed THEN AfterClose(a) ELSE "closeBackend")
        /\ closed' = TRUE
        /\ UNCHANGED <<backendOpen, listed>> /\ pc \in [Actors -> Labels]
  BY DEF CloseWith, AfterClose, Goto, backendVars, TypeInv, TypeOK
<1>2. EntryAt' = [EntryAt EXCEPT ![a] = l]
  BY <1>1, EntryMoves DEF Inside
<1>3. EntryAt[a] = "close"
  BY <1>1, ClosingEntry
<1>4. Entry!CloseSection(a, Initializer, {})
  BY <1>1, <1>2, <1>3, AfterCloseMaps DEF Entry!CloseSection, Entry!MoveTo
<1>5. CASE a \notin Shutdowns
  <2>1. EntryConn[a] = Initializer /\ EntryLeft[a] = {}
    BY <1>1, <1>5, ClosingEntry
  <2>2. EntryConn' = [EntryConn EXCEPT ![a] = Initializer]
        /\ EntryLeft' = [EntryLeft EXCEPT ![a] = {}]
    BY <1>1, <1>5, EntryMoves, Kinds DEF Inside, Lifecycles
  <2>3. UNCHANGED <<EntryConn, EntryLeft>>
    BY <2>1, <2>2, EntryKeeps
  <2> QED
    BY <1>4, <1>5, <2>1, <2>3 DEF Entry!CloserStepOf, Entry!CloseOne
<1>6. CASE a \in Shutdowns
  <2>1. EntryLeft[a] = {Initializer}
    BY <1>1, <1>6, ClosingEntry
  <2>2. EntryConn' = [EntryConn EXCEPT ![a] = Initializer]
        /\ EntryLeft' = [EntryLeft EXCEPT ![a] = {}]
    BY <1>1, <1>6, EntryMoves DEF Inside
  <2>3. EntryLeft[a] \ {Initializer} = {}
    BY <2>1
  <2>4. EntryLeft' = [EntryLeft EXCEPT ![a] = @ \ {Initializer}]
    BY <2>2, <2>3
  <2>5. Entry!CloseTaken(a, Initializer)
    BY <1>4, <2>1, <2>2, <2>3, <2>4 DEF Entry!CloseTaken
  <2> QED
    BY <2>5 DEF Entry!CloserStepOf
<1> QED
  BY <1>5, <1>6

LEMMA CloseBackendMaps ==
    ASSUME NEW a \in Lifecycles, TypeInv, CloseBackend(a) PROVE Entry!CloserStepOf(a)
<1>1. /\ pc[a] = "closeBackend" /\ pc' = [pc EXCEPT ![a] = AfterClose(a)]
      /\ AfterClose(a) \in {"unlist", "done"}
      /\ backendOpen' = FALSE /\ UNCHANGED <<listed, closed>> /\ pc \in [Actors -> Labels]
  BY DEF CloseBackend, AfterClose, Goto, TypeInv, TypeOK
<1>2. EntryAt[a] = "closeBackend" /\ EntryConn[a] = Initializer /\ EntryLeft[a] = {}
  BY <1>1, ClosingEntry
<1>3. /\ EntryAt' = [EntryAt EXCEPT ![a] = AfterClose(a)]
      /\ EntryConn' = [EntryConn EXCEPT ![a] = Initializer]
      /\ EntryLeft' = [EntryLeft EXCEPT ![a] = {}]
  BY <1>1, EntryMoves DEF Inside, Lifecycles
<1>4. UNCHANGED <<EntryConn, EntryLeft>>
  BY <1>2, <1>3, EntryKeeps
<1>5. Entry!EndBackend(a)
  BY <1>1, <1>2, <1>3, <1>4, AfterCloseMaps DEF Entry!EndBackend, Entry!MoveTo
<1> QED
  BY <1>5 DEF Entry!CloserStepOf

LEMMA UnlistMaps ==
    ASSUME NEW a \in Lifecycles, TypeInv, Unlist(a) PROVE Entry!CloserStepOf(a)
<1>1. /\ pc[a] = "unlist" /\ pc' = [pc EXCEPT ![a] = "done"]
      /\ listed' = FALSE /\ UNCHANGED <<backendOpen, closed>> /\ pc \in [Actors -> Labels]
  BY DEF Unlist, Goto, backendVars, TypeInv, TypeOK
<1>2. EntryAt[a] = "unlist" /\ EntryConn[a] = Initializer /\ EntryLeft[a] = {}
  BY <1>1, ClosingEntry
<1>3. /\ EntryAt' = [EntryAt EXCEPT ![a] = "done"]
      /\ EntryConn' = [EntryConn EXCEPT ![a] = Initializer]
      /\ EntryLeft' = [EntryLeft EXCEPT ![a] = {}]
  <2>1. "done" \notin Inside \ {"receive"} /\ "done" \notin {"idle", "close"}
    BY DEF Inside
  <2> QED
    BY <1>1, <2>1, EntryMoves DEF Lifecycles
<1>4. UNCHANGED <<EntryConn, EntryLeft>>
  BY <1>2, <1>3, EntryKeeps
<1>5. Entry!Delist(a)
  BY <1>1, <1>2, <1>3, <1>4 DEF Entry!Delist, Entry!Forget, Entry!MoveTo
<1> QED
  BY <1>5 DEF Entry!CloserStepOf

LEMMA ReceiveFailsMaps == TypeInv /\ ReceiveFails => Entry!TableNext
<1> SUFFICES ASSUME TypeInv, ReceiveFails PROVE Entry!RunEnds(Initializer)
  BY DEF Entry!TableNext
<1>1. /\ pc[Runner] = "receive" /\ pc' = [pc EXCEPT ![Runner] = "close"] /\ ~backendOpen
      /\ UNCHANGED <<backendOpen, listed, closed>> /\ pc \in [Actors -> Labels]
  BY DEF ReceiveFails, Goto, backendVars, TypeInv, TypeOK
<1>2. /\ EntryAt' = [EntryAt EXCEPT ![Runner] = "close"]
      /\ EntryConn' = [EntryConn EXCEPT ![Runner] = Initializer]
      /\ EntryLeft' = [EntryLeft EXCEPT ![Runner] = {}]
  BY <1>1, EntryMoves, Kinds DEF Inside
<1>3. EntryAt[Runner] = "receive" /\ EntryConn[Runner] = Initializer /\ EntryLeft[Runner] = {}
  BY <1>1, Kinds DEF EntryAt, EntryConn, EntryLeft
<1>4. UNCHANGED <<EntryConn, EntryLeft>>
  BY <1>2, <1>3, EntryKeeps, Kinds
<1> QED
  BY <1>1, <1>2, <1>3, <1>4 DEF Entry!RunEnds, Entry!MoveTo

LEMMA DeleteMaps ==
    ASSUME NEW d \in Deletes, TypeInv, DeleteLookup(d) PROVE Entry!LookupDelete(d, Initializer)
<1>1. /\ pc[d] = "idle" /\ pc' = [pc EXCEPT ![d] = "close"] /\ listed
      /\ pc[Initializer] = "answered"
      /\ UNCHANGED <<backendOpen, listed, closed>> /\ pc \in [Actors -> Labels]
      /\ d \in Lifecycles /\ d \notin Shutdowns
  BY Kinds DEF DeleteLookup, Announced, Goto, backendVars, TypeInv, TypeOK, Lifecycles
<1>2. /\ EntryAt' = [EntryAt EXCEPT ![d] = "close"]
      /\ EntryConn' = [EntryConn EXCEPT ![d] = Initializer]
      /\ EntryLeft' = [EntryLeft EXCEPT ![d] = {}]
  BY <1>1, EntryMoves DEF Inside
<1>3. EntryAt[d] = "idle" /\ EntryAt[Initializer] = "answered" /\ EntryLeft[d] = {}
  BY <1>1, Kinds DEF EntryAt, EntryLeft
<1>4. UNCHANGED EntryLeft
  BY <1>1, <1>2, <1>3, EntryKeeps
<1> QED
  BY <1>1, <1>2, <1>3, <1>4 DEF Entry!LookupDelete, Entry!MoveTo

LEMMA ShutdownMaps ==
    ASSUME NEW x \in Shutdowns, TypeInv, ShutdownTake(x) PROVE Entry!TakeTable(x)
<1>1. /\ pc[x] = "idle" /\ pc' = [pc EXCEPT ![x] = "close"] /\ listed /\ listed' = FALSE
      /\ UNCHANGED <<backendOpen, closed>> /\ pc \in [Actors -> Labels]
      /\ x \in Lifecycles /\ x \notin Deletes /\ x # Initializer /\ x # Runner
  BY Kinds DEF ShutdownTake, Goto, backendVars, TypeInv, TypeOK, Lifecycles
<1>2. /\ EntryAt' = [EntryAt EXCEPT ![x] = "close"]
      /\ EntryConn' = [EntryConn EXCEPT ![x] = NoRequest]
      /\ EntryLeft' = [EntryLeft EXCEPT ![x] = {Initializer}]
  BY <1>1, EntryMoves DEF Inside
<1>3. EntryAt[x] = "idle" /\ EntryConn[x] = NoRequest
  BY <1>1 DEF EntryAt, EntryConn
<1>4. UNCHANGED EntryConn
  BY <1>1, <1>2, <1>3, EntryKeeps
<1> QED
  BY <1>1, <1>2, <1>3, <1>4 DEF Entry!TakeTable, Entry!MoveTo

LEMMA AgentExitMaps == AgentExit => Entry!TableNext
<1> SUFFICES ASSUME AgentExit PROVE Entry!AgentEnds(Initializer)
  BY DEF Entry!TableNext
<1>1. backendOpen /\ backendOpen' = FALSE /\ UNCHANGED <<listed, closed, pc>>
  BY DEF AgentExit
<1> QED
  BY <1>1 DEF Entry!AgentEnds, EntryAt, EntryConn, EntryLeft

-----------------------------------------------------------------------------

(* Everything else routes messages or serves streams.                      *)
LEMMA EntryCases ==
    TypeInv /\ [Next]_vars =>
        \/ EntryQuiet \/ PutConnection \/ InitializerStep \/ InitHangup \/ ReceiveFails
        \/ \E a \in Lifecycles : CloserStep(a)
        \/ (\E d \in Deletes : DeleteLookup(d)) \/ (\E x \in Shutdowns : ShutdownTake(x))
        \/ AgentExit
<1> SUFFICES ASSUME TypeInv, [Next]_vars,
                    ~(\/ PutConnection \/ InitializerStep \/ InitHangup \/ ReceiveFails
                      \/ \E a \in Lifecycles : CloserStep(a)
                      \/ (\E d \in Deletes : DeleteLookup(d))
                      \/ (\E x \in Shutdowns : ShutdownTake(x)) \/ AgentExit)
             PROVE  EntryQuiet
  OBVIOUS
<1>t. pc \in [Actors -> Labels]
  BY DEF TypeInv, TypeOK
<1> USE <1>t, Kinds DEF EntryQuiet, Inside, Goto, backendVars
<1>1. CASE RunnerStep
  BY <1>1 DEF RunnerStep, RouteInit, RouteClosed, RouteAnswer, RouteNote, ScopeFor, Receiving,
     AfterScope, RegisterSession, Emit, EmitClosed, AfterEmit, UnregisterSession
<1>2. ASSUME NEW a \in Actors, NEW st \in Streams, CloseStream(a, st) PROVE EntryQuiet
  BY <1>2 DEF CloseStream
<1>3. ASSUME NEW p \in Posts, PostStep(p) \/ PostHangup(p) PROVE EntryQuiet
  BY <1>3 DEF PostStep, PostChecked, PostRecord, PostSend, PostHangup
<1>4. ASSUME NEW p \in Posts, NEW m \in PostMethods, NEW s \in Scopes, PostLookup(p, m, s)
      PROVE  EntryQuiet
  BY <1>4 DEF PostLookup
<1>5. ASSUME NEW st \in Streams, GetStep(st) \/ GetWrite(st) \/ GetHangup(st) PROVE EntryQuiet
  BY <1>5 DEF GetStep, GetChecked, GetAttach, GetGone, GetFinish, GetDetach, GetWrite, GetHangup
<1>6. ASSUME NEW st \in Streams, NEW s \in Scopes, GetLookup(st, s) PROVE EntryQuiet
  BY <1>6 DEF GetLookup
<1>7. ASSUME NEW r \in Requests, AgentAnswer(r) PROVE EntryQuiet
  BY <1>7 DEF AgentAnswer
<1>8. ASSUME NEW s \in Scopes, AgentNote(s) PROVE EntryQuiet
  BY <1>8 DEF AgentNote
<1>9. CASE UNCHANGED vars
  BY <1>9 DEF vars
<1> HIDE DEF EntryQuiet
<1> QED
  BY <1>1, <1>2, <1>3, <1>4, <1>5, <1>6, <1>7, <1>8, <1>9, Kinds
  DEF Next, ServerNext, EnvironmentNext

LEMMA EntryStep == TypeInv /\ [Next]_vars => [Entry!TableNext]_(Entry!tableVars)
<1> SUFFICES ASSUME TypeInv, [Next]_vars PROVE [Entry!TableNext]_(Entry!tableVars)
  OBVIOUS
<1>1. ASSUME NEW a \in Lifecycles, CloserStep(a) PROVE Entry!TableNext
  <2>1. Entry!CloserStepOf(a)
    BY <1>1, CloseWithMaps, CloseBackendMaps, UnlistMaps DEF CloserStep
  <2> QED
    BY <2>1, EntryClosers DEF Entry!TableNext
<1>2. ASSUME NEW d \in Deletes, DeleteLookup(d) PROVE Entry!TableNext
  BY <1>2, DeleteMaps DEF Entry!TableNext
<1>3. ASSUME NEW x \in Shutdowns, ShutdownTake(x) PROVE Entry!TableNext
  BY <1>3, ShutdownMaps DEF Entry!TableNext
<1> QED
  BY <1>1, <1>2, <1>3, EntryCases, QuietStutters, PutMaps, InitializerMaps, ReceiveFailsMaps,
     AgentExitMaps

(***************************************************************************)
(* A connection with all that it routes and serves lives and ends as one   *)
(* entry of Server's table (ConnLifecycle.LivesAsEntry), for any number of *)
(* sessions, handlers and messages.                                        *)
(***************************************************************************)
THEOREM ConnectionIsEntry == Spec => LivesAsEntry
<1>1. TypeInv /\ HistoryWindow /\ [Next]_vars => (TypeInv /\ HistoryWindow)'
  BY TypeNext, WindowNext
<1> QED
  BY <1>1, TypeInit, WindowInit, EntryStep, PTL DEF Spec, LivesAsEntry

-----------------------------------------------------------------------------
(* What is proved of the table holds of the connection.                    *)

Table == INSTANCE ServerProofs WITH
    Conns    <- {Initializer},
    RunnerOf <- [c \in {Initializer} |-> Runner],
    NoConn   <- NoRequest,
    table    <- IF listed THEN {Initializer} ELSE {},
    backend  <- [c \in {Initializer} |-> IF backendOpen THEN "open" ELSE "ended"],
    closed   <- IF closed THEN {Initializer} ELSE {},
    at       <- EntryAt,
    conn     <- EntryConn,
    left     <- EntryLeft

LEMMA SameTable == [Entry!TableNext]_(Entry!tableVars) => [Table!TableNext]_(Table!tableVars)
  BY DEF Entry!TableNext, Entry!tableVars, Table!TableNext, Table!tableVars,
     Entry!StartBackend, Entry!InitializeStep, Entry!CreateState, Entry!ReleaseBackend,
     Entry!Put, Entry!SendInitialize, Entry!AwaitInitialize, Entry!RunEnds, Entry!AgentEnds,
     Entry!LookupDelete, Entry!TakeTable, Entry!CloserStepOf, Entry!CloseOne,
     Entry!CloseTaken, Entry!CloseSection, Entry!EndBackend, Entry!Delist, Entry!Forget,
     Entry!Afterwards, Entry!MoveTo, Entry!CreateFails, Entry!Closers, Entry!Runners,
     Table!StartBackend, Table!InitializeStep, Table!CreateState, Table!ReleaseBackend,
     Table!Put, Table!SendInitialize, Table!AwaitInitialize, Table!RunEnds, Table!AgentEnds,
     Table!LookupDelete, Table!TakeTable, Table!CloserStepOf, Table!CloseOne,
     Table!CloseTaken, Table!CloseSection, Table!EndBackend, Table!Delist, Table!Forget,
     Table!Afterwards, Table!MoveTo, Table!CreateFails, Table!Closers, Table!Runners

LEMMA TableKeeps == Table!TableInv /\ [Table!TableNext]_(Table!tableVars) => Table!TableInv'
<1>1. /\ {Initializer} \cap (Table!Runners \cup Deletes \cup Shutdowns) = {}
      /\ Table!Runners \cap (Deletes \cup Shutdowns) = {}
      /\ Deletes \cap Shutdowns = {}
      /\ \A c, e \in {Initializer} : [k \in {Initializer} |-> Runner][c]
                                       = [k \in {Initializer} |-> Runner][e] => c = e
      /\ NoRequest \notin {Initializer}
  BY Kinds DEF Table!Runners, Requests
<1> QED
  BY <1>1, Table!TableInvNext

LEMMA TableHolds == Init => Table!TableInv
<1> SUFFICES ASSUME Init PROVE Table!TableInv
  OBVIOUS
<1>1. /\ pc[Initializer] = "put" /\ \A a \in Lifecycles : a # Initializer => pc[a] = "idle"
      /\ ~listed /\ ~closed
  BY Kinds DEF Init
<1>2. /\ EntryAt[Initializer] = "put" /\ EntryConn[Initializer] = Initializer
      /\ \A a \in Lifecycles : a # Initializer => EntryAt[a] = "idle" /\ EntryConn[a] = NoRequest
      /\ \A a \in Lifecycles : EntryLeft[a] = {}
  BY <1>1, Kinds DEF EntryAt, EntryConn, EntryLeft
<1>3. Table!Closers = Lifecycles
  BY DEF Table!Closers, Table!Runners, Lifecycles
<1>4. Table!TableTypeOK
  BY <1>1, <1>3 DEF Table!TableTypeOK, EntryAt, EntryConn, EntryLeft
<1>5. Table!LeftInv /\ Table!MarkedInv
  BY <1>1, <1>2, <1>3 DEF Table!LeftInv, Table!MarkedInv
<1>6. Table!ClosingInv
  BY <1>1, <1>2, <1>3, Kinds DEF Table!ClosingInv
<1>7. Table!OwnersInv /\ Table!FreshInv
  BY <1>1, <1>2, <1>3, Kinds, RequestAssumption
  DEF Table!OwnersInv, Table!FreshInv, Requests
<1>8. Table!NoneForgotten
  BY <1>2, Kinds DEF Table!NoneForgotten, Table!InCharge
<1> QED
  BY <1>4, <1>5, <1>6, <1>7, <1>8 DEF Table!TableInv

(***************************************************************************)
(* The agent of a connection that has really served sessions and streams   *)
(* is never lost (Server.NoneForgotten): while it runs, the connection is  *)
(* in the table, or a goroutine is about to put it there or to close it.   *)
(***************************************************************************)
THEOREM AgentNeverLost == Spec => []Entry!NoneForgotten
<1>1. TypeInv /\ HistoryWindow /\ Table!TableInv /\ [Next]_vars
        => (TypeInv /\ HistoryWindow /\ Table!TableInv)'
  BY TypeNext, WindowNext, EntryStep, SameTable, TableKeeps
<1>2. Table!TableInv => Entry!NoneForgotten
  BY DEF Table!TableInv, Table!NoneForgotten, Table!InCharge, Table!Closers, Table!Runners,
     Entry!NoneForgotten, Entry!InCharge, Entry!Closers, Entry!Runners
<1> QED
  BY <1>1, <1>2, TypeInit, WindowInit, TableHolds, PTL DEF Spec

LEMMA EndKeeps ==
    /\ Table!TableInv /\ Table!RunnerInv /\ Table!DoneInv
    /\ [Table!TableNext]_(Table!tableVars)
    => (Table!TableInv /\ Table!RunnerInv /\ Table!DoneInv)'
<1>1. /\ {Initializer} \cap (Table!Runners \cup Deletes \cup Shutdowns) = {}
      /\ Table!Runners \cap (Deletes \cup Shutdowns) = {}
      /\ Deletes \cap Shutdowns = {}
      /\ \A c, e \in {Initializer} : [k \in {Initializer} |-> Runner][c]
                                       = [k \in {Initializer} |-> Runner][e] => c = e
      /\ NoRequest \notin {Initializer}
  BY Kinds DEF Table!Runners, Requests
<1> QED
  BY <1>1, TableKeeps, Table!RunnerInvNext, Table!DoneInvNext

LEMMA EndHolds ==
    Init => Table!RunnerInv /\ Table!DoneInv
<1> SUFFICES ASSUME Init PROVE Table!RunnerInv /\ Table!DoneInv
  OBVIOUS
<1>1. pc[Initializer] = "put" /\ ~listed
  BY Kinds DEF Init
<1>2. EntryAt[Initializer] = "put"
  BY <1>1, Kinds DEF EntryAt
<1> QED
  BY <1>1, <1>2 DEF Table!RunnerInv, Table!DoneInv

(***************************************************************************)
(* What a connection that has ended leaves behind is attended to           *)
(* (ServerProofs.EndsAttended), also when its handlers, its streams and    *)
(* the runner's routing are there: an agent that runs has a goroutine that *)
(* is about to close it, and an entry in the table has its runner.         *)
(***************************************************************************)
THEOREM ConnectionEndsAttended == Spec => []Table!EndsAttended
<1> DEFINE I == Table!TableInv /\ Table!RunnerInv /\ Table!DoneInv
<1>1. TypeInv /\ HistoryWindow /\ I /\ [Next]_vars => (TypeInv /\ HistoryWindow /\ I)'
  BY TypeNext, WindowNext, EntryStep, SameTable, EndKeeps
<1>2. I => Table!EndsAttended
  BY Kinds, Table!EndsFollow DEF Table!Runners, Requests
<1> HIDE DEF I
<1> QED
  BY <1>1, <1>2, TypeInit, WindowInit, TableHolds, EndHolds, PTL DEF Spec, I
=============================================================================
