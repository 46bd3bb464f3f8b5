---------------------------- MODULE ServerProofs ----------------------------
(***************************************************************************)
(* The table of the Server loses no agent, and a connection that has ended *)
(* leaves nothing that nobody will remove, for any number of connections,  *)
(* DELETEs and calls of Server.Close.                                      *)
(***************************************************************************)
EXTENDS Server, TLAPS

(* Only Server.Close holds connections in hand, and it closes them all.    *)
LeftInv ==
    \A a \in Closers :
        left[a] # {} => a \in Shutdowns /\ at[a] \in {"close", "closeBackend"}

(* What a goroutine is closing, and that it has been marked closed when it *)
(* comes out of the section under c.mu.                                    *)
ClosingInv ==
    \A a \in Closers :
        /\ at[a] \in {"closeBackend", "unlist"} => conn[a] \in closed
        /\ a \in Shutdowns /\ at[a] = "idle" => conn[a] = NoConn
        /\ a \in Shutdowns /\ at[a] = "close" => conn[a] \in closed \cup {NoConn}
        /\ a \notin Shutdowns /\ at[a] = "close" => conn[a] \in Conns

(* A connection has a handler of initialize, and a goroutine once it is put*)
(* into the table.                                                         *)
OwnersInv ==
    \A c \in Conns :
        /\ conn[c] = c
        /\ at[c] \in {"idle", "create", "release", "put"} => at[RunnerOf[c]] = "idle"
        /\ at[RunnerOf[c]] = "receive" => conn[RunnerOf[c]] = c

(* A connection that is being created is known to its handler alone.       *)
FreshInv ==
    \A c \in Conns :
        at[c] \in {"idle", "create", "release", "put"} =>
            /\ c \notin table \cup closed
            /\ \A a \in Closers : c \notin left[a] /\ (a # c => conn[a] # c)

(* Whoever marks a connection closed closes its agent.                     *)
MarkedInv ==
    \A c \in closed :
        backend[c] = "open" => \E a \in Closers : at[a] = "closeBackend" /\ conn[a] = c

(***************************************************************************)
(* NoneForgotten is not inductive by itself: a goroutine that finds a      *)
(* connection closed leaves it, which is right because of MarkedInv, and   *)
(* one that takes an entry out of the table does so because of ClosingInv. *)
(***************************************************************************)
TableInv ==
    TableTypeOK /\ LeftInv /\ ClosingInv /\ OwnersInv /\ FreshInv /\ MarkedInv /\ NoneForgotten

USE CloserAssumption

(* The goroutines are different ones.                                      *)
LEMMA Apart ==
    /\ \A c \in Conns : /\ c \in Closers /\ c \notin Runners
                        /\ c \notin Shutdowns /\ c \notin Deletes
    /\ \A c \in Conns : /\ RunnerOf[c] \in Closers /\ RunnerOf[c] \in Runners
                        /\ RunnerOf[c] \notin Shutdowns /\ RunnerOf[c] \notin Deletes
                        /\ RunnerOf[c] \notin Conns
    /\ \A d \in Deletes : d \in Closers /\ d \notin Shutdowns /\ d \notin Runners /\ d \notin Conns
    /\ \A x \in Shutdowns : x \in Closers /\ x \notin Runners /\ x \notin Conns
  BY DEF Closers, Runners

LEMMA TableInvInit == TableInit => TableInv
<1> SUFFICES ASSUME TableInit PROVE TableInv
  OBVIOUS
<1>1. TableTypeOK
  BY DEF TableInit, TableTypeOK
<1>2. LeftInv /\ MarkedInv /\ NoneForgotten
  BY DEF TableInit, LeftInv, MarkedInv, NoneForgotten
<1>3. ClosingInv
  BY Apart DEF TableInit, ClosingInv
<1>4. OwnersInv /\ FreshInv
  BY Apart DEF TableInit, OwnersInv, FreshInv
<1> QED
  BY <1>1, <1>2, <1>3, <1>4 DEF TableInv

-----------------------------------------------------------------------------
(* The handler of initialize.                                              *)

LEMMA StartBackendKeeps ==
    ASSUME NEW c \in Conns, TableInv, StartBackend(c) PROVE TableInv'
<1> USE Apart DEF TableInv, TableTypeOK, StartBackend, MoveTo
<1>1. TableTypeOK'
  OBVIOUS
<1>2. LeftInv'
  BY DEF LeftInv
<1>3. ClosingInv'
  BY DEF ClosingInv
<1>4. OwnersInv'
  BY DEF OwnersInv
<1>5. FreshInv'
  BY DEF FreshInv
<1>6. MarkedInv'
  BY DEF MarkedInv, FreshInv
<1>7. NoneForgotten'
  <2>1. \A e \in Conns : e # c /\ InCharge(e) => InCharge(e)'
    BY DEF InCharge
  <2>2. backend'[c] = "open" => c \in table \/ InCharge(c)'
    BY DEF NoneForgotten, InCharge
  <2> QED
    BY <2>1, <2>2 DEF NoneForgotten
<1> QED
  BY <1>1, <1>2, <1>3, <1>4, <1>5, <1>6, <1>7

LEMMA InitializeKeeps ==
    ASSUME NEW c \in Conns, TableInv,
           CreateState(c) \/ SendInitialize(c) \/ AwaitInitialize(c)
    PROVE  TableInv'
<1> USE Apart DEF TableInv, TableTypeOK, CreateState, CreateFails, SendInitialize,
        AwaitInitialize, MoveTo
<1>1. TableTypeOK'
  OBVIOUS
<1>2. LeftInv'
  BY DEF LeftInv
<1>3. ClosingInv'
  BY DEF ClosingInv, OwnersInv
<1>4. OwnersInv'
  BY DEF OwnersInv
<1>5. FreshInv'
  BY DEF FreshInv
<1>6. MarkedInv'
  BY DEF MarkedInv
<1>7. NoneForgotten'
  BY DEF NoneForgotten, InCharge
<1> QED
  BY <1>1, <1>2, <1>3, <1>4, <1>5, <1>6, <1>7

LEMMA ReleaseKeeps ==
    ASSUME NEW c \in Conns, TableInv, ReleaseBackend(c) PROVE TableInv'
<1> USE Apart DEF TableInv, TableTypeOK, ReleaseBackend, MoveTo
<1>1. TableTypeOK'
  OBVIOUS
<1>2. LeftInv'
  BY DEF LeftInv
<1>3. ClosingInv'
  BY DEF ClosingInv
<1>4. OwnersInv'
  BY DEF OwnersInv
<1>5. FreshInv'
  BY DEF FreshInv
<1>6. MarkedInv'
  BY DEF MarkedInv
<1>7. NoneForgotten'
  BY DEF NoneForgotten, InCharge
<1> QED
  BY <1>1, <1>2, <1>3, <1>4, <1>5, <1>6, <1>7

LEMMA PutKeeps ==
    ASSUME NEW c \in Conns, TableInv, Put(c) PROVE TableInv'
<1> USE Apart DEF TableInv, TableTypeOK, Put
<1>1. TableTypeOK'
  OBVIOUS
<1>2. LeftInv'
  BY DEF LeftInv
<1>3. ClosingInv'
  BY DEF ClosingInv
<1>4. OwnersInv'
  BY DEF OwnersInv
<1>5. FreshInv'
  BY DEF FreshInv
<1>6. MarkedInv'
  BY DEF MarkedInv, OwnersInv
<1>7. NoneForgotten'
  BY DEF NoneForgotten, InCharge, OwnersInv
<1> QED
  BY <1>1, <1>2, <1>3, <1>4, <1>5, <1>6, <1>7

-----------------------------------------------------------------------------
(* The ways that lead to closeWith, and the end of an agent.               *)

LEMMA RunEndsKeeps ==
    ASSUME NEW c \in Conns, TableInv, RunEnds(c) PROVE TableInv'
<1> USE Apart DEF TableInv, TableTypeOK, RunEnds, MoveTo
<1>1. TableTypeOK'
  OBVIOUS
<1>2. LeftInv'
  BY DEF LeftInv
<1>3. ClosingInv'
  BY DEF ClosingInv, OwnersInv
<1>4. OwnersInv'
  BY DEF OwnersInv
<1>5. FreshInv'
  BY DEF FreshInv
<1>6. MarkedInv'
  BY DEF MarkedInv
<1>7. NoneForgotten'
  BY DEF NoneForgotten, InCharge
<1> QED
  BY <1>1, <1>2, <1>3, <1>4, <1>5, <1>6, <1>7

LEMMA LookupKeeps ==
    ASSUME NEW d \in Deletes, NEW c \in Conns, TableInv, LookupDelete(d, c)
    PROVE  TableInv'
<1> USE Apart DEF TableInv, TableTypeOK, LookupDelete, MoveTo
<1>1. TableTypeOK'
  OBVIOUS
<1>2. LeftInv'
  BY DEF LeftInv
<1>3. ClosingInv'
  BY DEF ClosingInv
<1>4. OwnersInv'
  BY DEF OwnersInv
<1>5. FreshInv'
  BY DEF FreshInv
<1>6. MarkedInv'
  BY DEF MarkedInv
<1>7. NoneForgotten'
  BY DEF NoneForgotten, InCharge
<1> QED
  BY <1>1, <1>2, <1>3, <1>4, <1>5, <1>6, <1>7

LEMMA TakeKeeps ==
    ASSUME NEW x \in Shutdowns, TableInv, TakeTable(x) PROVE TableInv'
<1> USE Apart DEF TableInv, TableTypeOK, TakeTable, MoveTo
<1>1. TableTypeOK'
  OBVIOUS
<1>2. LeftInv'
  BY DEF LeftInv
<1>3. ClosingInv'
  BY DEF ClosingInv
<1>4. OwnersInv'
  BY DEF OwnersInv
<1>5. FreshInv'
  BY DEF FreshInv
<1>6. MarkedInv'
  BY DEF MarkedInv
<1>7. NoneForgotten'
  BY DEF NoneForgotten, InCharge
<1> QED
  BY <1>1, <1>2, <1>3, <1>4, <1>5, <1>6, <1>7

LEMMA AgentEndsKeeps ==
    ASSUME NEW c \in Conns, TableInv, AgentEnds(c) PROVE TableInv'
<1> USE DEF TableInv, TableTypeOK, AgentEnds
<1>1. TableTypeOK' /\ LeftInv' /\ ClosingInv' /\ OwnersInv' /\ FreshInv'
  BY DEF LeftInv, ClosingInv, OwnersInv, FreshInv
<1>2. MarkedInv'
  BY DEF MarkedInv
<1>3. NoneForgotten'
  BY DEF NoneForgotten, InCharge
<1> QED
  BY <1>1, <1>2, <1>3

-----------------------------------------------------------------------------
(* closeWith.                                                              *)

LEMMA CloseOneKeeps ==
    ASSUME NEW a \in Closers, TableInv, CloseOne(a) PROVE TableInv'
<1> USE Apart DEF TableInv, TableTypeOK, CloseOne, CloseSection, Afterwards, MoveTo
<1>1. conn[a] \in Conns /\ left[a] = {}
  BY DEF ClosingInv, LeftInv
<1>2. TableTypeOK'
  BY <1>1
<1>3. LeftInv'
  BY <1>1 DEF LeftInv
<1>4. ClosingInv'
  BY <1>1 DEF ClosingInv
<1>5. OwnersInv'
  BY DEF OwnersInv
<1>6. FreshInv'
  BY <1>1 DEF FreshInv
<1>7. MarkedInv'
  BY <1>1 DEF MarkedInv
<1>8. NoneForgotten'
  BY <1>1 DEF NoneForgotten, InCharge, MarkedInv
<1> QED
  BY <1>2, <1>3, <1>4, <1>5, <1>6, <1>7, <1>8

LEMMA CloseTakenKeeps ==
    ASSUME NEW x \in Closers, NEW c \in Conns, TableInv, CloseTaken(x, c)
    PROVE  TableInv'
<1> USE Apart DEF TableInv, TableTypeOK, CloseTaken, CloseSection, Afterwards, MoveTo
<1>1. x \in Shutdowns
  BY DEF LeftInv
<1>2. conn[x] \in closed \cup {NoConn}
  BY <1>1 DEF ClosingInv
<1>3. TableTypeOK'
  OBVIOUS
<1>4. LeftInv'
  BY <1>1 DEF LeftInv
<1>5. ClosingInv'
  BY <1>1 DEF ClosingInv
<1>6. OwnersInv'
  BY <1>1 DEF OwnersInv
<1>7. FreshInv'
  BY <1>1 DEF FreshInv
<1>8. MarkedInv'
  BY DEF MarkedInv
<1>9. NoneForgotten'
  BY <1>1, <1>2 DEF NoneForgotten, InCharge, MarkedInv
<1> QED
  BY <1>3, <1>4, <1>5, <1>6, <1>7, <1>8, <1>9

LEMMA EndBackendKeeps ==
    ASSUME NEW a \in Closers, TableInv, EndBackend(a) PROVE TableInv'
<1> USE Apart DEF TableInv, TableTypeOK, EndBackend, Afterwards, MoveTo
<1>1. conn[a] \in closed /\ conn[a] \in Conns
  BY DEF ClosingInv
<1>2. TableTypeOK'
  BY <1>1
<1>3. LeftInv'
  BY DEF LeftInv
<1>4. ClosingInv'
  BY <1>1 DEF ClosingInv, LeftInv
<1>5. OwnersInv'
  BY DEF OwnersInv
<1>6. FreshInv'
  BY <1>1 DEF FreshInv
<1>7. MarkedInv'
  BY <1>1 DEF MarkedInv
<1>8. NoneForgotten'
  BY <1>1 DEF NoneForgotten, InCharge
<1> QED
  BY <1>2, <1>3, <1>4, <1>5, <1>6, <1>7, <1>8

LEMMA DelistKeeps ==
    ASSUME NEW a \in Closers, TableInv, Delist(a) PROVE TableInv'
<1> USE Apart DEF TableInv, TableTypeOK, Delist, Forget, MoveTo
<1>1. conn[a] \in closed
  BY DEF ClosingInv
<1>2. TableTypeOK'
  OBVIOUS
<1>3. LeftInv'
  BY DEF LeftInv
<1>4. ClosingInv'
  BY DEF ClosingInv
<1>5. OwnersInv'
  BY DEF OwnersInv
<1>6. FreshInv'
  BY <1>1 DEF FreshInv
<1>7. MarkedInv'
  BY DEF MarkedInv
<1>8. NoneForgotten'
  BY <1>1 DEF NoneForgotten, InCharge, MarkedInv
<1> QED
  BY <1>2, <1>3, <1>4, <1>5, <1>6, <1>7, <1>8

-----------------------------------------------------------------------------

LEMMA TableInvNext == TableInv /\ [TableNext]_tableVars => TableInv'
<1> SUFFICES ASSUME TableInv, [TableNext]_tableVars PROVE TableInv'
  OBVIOUS
<1>1. ASSUME NEW c \in Conns, StartBackend(c) PROVE TableInv'
  BY <1>1, StartBackendKeeps
<1>2. ASSUME NEW c \in Conns, InitializeStep(c) \/ AwaitInitialize(c) PROVE TableInv'
  BY <1>2, InitializeKeeps, ReleaseKeeps, PutKeeps DEF InitializeStep
<1>3. ASSUME NEW c \in Conns, RunEnds(c) \/ AgentEnds(c) PROVE TableInv'
  BY <1>3, RunEndsKeeps, AgentEndsKeeps
<1>4. ASSUME NEW d \in Deletes, NEW c \in Conns, LookupDelete(d, c) PROVE TableInv'
  BY <1>4, LookupKeeps
<1>5. ASSUME NEW x \in Shutdowns, TakeTable(x) PROVE TableInv'
  BY <1>5, TakeKeeps
<1>6. ASSUME NEW a \in Closers, CloserStepOf(a) PROVE TableInv'
  BY <1>6, CloseOneKeeps, CloseTakenKeeps, EndBackendKeeps, DelistKeeps DEF CloserStepOf
<1>7. CASE UNCHANGED tableVars
  BY <1>7 DEF tableVars, TableInv, TableTypeOK, LeftInv, ClosingInv, OwnersInv, FreshInv,
              MarkedInv, NoneForgotten, InCharge
<1> QED
  BY <1>1, <1>2, <1>3, <1>4, <1>5, <1>6, <1>7 DEF TableNext

(* Every variable of the table stays in its domain.                        *)
THEOREM TableTypeCorrect == TableSpec => []TableTypeOK
<1>1. TableInv => TableTypeOK
  BY DEF TableInv
<1> QED
  BY <1>1, TableInvInit, TableInvNext, PTL DEF TableSpec

(***************************************************************************)
(* No agent is lost (Server.NoneForgotten): however creation, DELETE,      *)
(* Server.Close and the ends of agents interleave, an agent that runs is   *)
(* in the table or in the hands of a goroutine that is about to close it.  *)
(***************************************************************************)
THEOREM AgentsFound == TableSpec => []NoneForgotten
<1>1. TableInv => NoneForgotten
  BY DEF TableInv
<1> QED
  BY <1>1, TableInvInit, TableInvNext, PTL DEF TableSpec

-----------------------------------------------------------------------------
(* What is left to do when a connection has ended.                         *)

(* The runner of a connection in the table is still there to take it out.  *)
RunnerInv ==
    \A c \in table :
        /\ conn[RunnerOf[c]] = c
        /\ at[RunnerOf[c]] \in {"receive", "close", "closeBackend", "unlist"}

(* A handler of initialize that has failed leaves no agent behind, unless  *)
(* somebody else has closed the connection before it.                      *)
DoneInv ==
    \A c \in Conns :
        /\ at[c] = "idle" => backend[c] = "none"
        /\ at[c] = "done" => backend[c] # "open" \/ c \in closed

(***************************************************************************)
(* Once a connection is closed, or its initialize has failed, whatever it  *)
(* leaves has a goroutine that works on it: an agent that runs has one     *)
(* that is about to close it, and an entry in the table has its runner,    *)
(* which has yet to come to deleteConnection.                              *)
(***************************************************************************)
EndsAttended ==
    \A c \in Conns : c \in closed \/ Failed(c) =>
        /\ backend[c] = "open" => InCharge(c)
        /\ c \in table =>
              /\ conn[RunnerOf[c]] = c
              /\ at[RunnerOf[c]] \in {"receive", "close", "closeBackend", "unlist"}

LEMMA RunnerInvNext ==
    ASSUME TableInv, RunnerInv, [TableNext]_tableVars PROVE RunnerInv'
<1> USE Apart DEF TableInv, TableTypeOK, MoveTo
<1>1. ASSUME NEW c \in Conns,
             StartBackend(c) \/ CreateState(c) \/ ReleaseBackend(c) \/ SendInitialize(c)
                \/ AwaitInitialize(c) \/ AgentEnds(c)
      PROVE  RunnerInv'
  <2>1. /\ UNCHANGED <<table, conn>>
        /\ \A a \in Closers \ Conns : at'[a] = at[a]
    BY <1>1 DEF StartBackend, CreateState, CreateFails, ReleaseBackend, SendInitialize,
                AwaitInitialize, AgentEnds
  <2> QED
    BY <2>1 DEF RunnerInv
<1>2. ASSUME NEW c \in Conns, Put(c) PROVE RunnerInv'
  BY <1>2 DEF RunnerInv, Put
<1>3. ASSUME NEW c \in Conns, RunEnds(c) PROVE RunnerInv'
  BY <1>3 DEF RunnerInv, RunEnds
<1>4. ASSUME NEW d \in Deletes, NEW c \in Conns, LookupDelete(d, c) PROVE RunnerInv'
  BY <1>4 DEF RunnerInv, LookupDelete
<1>5. ASSUME NEW x \in Shutdowns, TakeTable(x) PROVE RunnerInv'
  BY <1>5 DEF RunnerInv, TakeTable
<1>6. ASSUME NEW a \in Closers, CloseOne(a) PROVE RunnerInv'
  <2>1. left[a] = {}
    BY <1>6 DEF LeftInv, CloseOne, CloseSection
  <2> QED
    BY <1>6, <2>1 DEF RunnerInv, CloseOne, CloseSection, Afterwards
<1>7. ASSUME NEW x \in Closers, NEW c \in Conns, CloseTaken(x, c) PROVE RunnerInv'
  <2>1. x \in Shutdowns
    BY <1>7 DEF LeftInv, CloseTaken
  <2>2. /\ UNCHANGED table
        /\ \A a \in Closers : a # x => at'[a] = at[a] /\ conn'[a] = conn[a]
    BY <1>7 DEF CloseTaken, CloseSection
  <2> QED
    BY <2>1, <2>2 DEF RunnerInv
<1>8. ASSUME NEW a \in Closers, EndBackend(a) PROVE RunnerInv'
  <2>1. a \in Runners => left[a] = {}
    BY DEF LeftInv, Runners
  <2> QED
    BY <1>8, <2>1 DEF RunnerInv, EndBackend, Afterwards
<1>9. ASSUME NEW a \in Closers, Delist(a) PROVE RunnerInv'
  BY <1>9 DEF RunnerInv, Delist, Forget
<1>10. CASE UNCHANGED tableVars
  BY <1>10 DEF RunnerInv, tableVars
<1> QED
  BY <1>1, <1>2, <1>3, <1>4, <1>5, <1>6, <1>7, <1>8, <1>9, <1>10
  DEF TableNext, InitializeStep, CloserStepOf

LEMMA DoneInvNext ==
    ASSUME TableInv, DoneInv, [TableNext]_tableVars PROVE DoneInv'
<1> USE Apart DEF TableInv, TableTypeOK, MoveTo
<1>1. ASSUME NEW c \in Conns, StartBackend(c) PROVE DoneInv'
  BY <1>1 DEF DoneInv, StartBackend
<1>2. ASSUME NEW c \in Conns,
             CreateState(c) \/ SendInitialize(c) \/ AwaitInitialize(c) \/ Put(c)
      PROVE  DoneInv'
  BY <1>2 DEF DoneInv, CreateState, CreateFails, SendInitialize, AwaitInitialize, Put
<1>3. ASSUME NEW c \in Conns, ReleaseBackend(c) \/ AgentEnds(c) \/ RunEnds(c) PROVE DoneInv'
  BY <1>3 DEF DoneInv, ReleaseBackend, AgentEnds, RunEnds
<1>4. ASSUME NEW d \in Deletes, NEW c \in Conns, LookupDelete(d, c) PROVE DoneInv'
  BY <1>4 DEF DoneInv, LookupDelete
<1>5. ASSUME NEW x \in Shutdowns, TakeTable(x) PROVE DoneInv'
  BY <1>5 DEF DoneInv, TakeTable
<1>6. ASSUME NEW a \in Closers, CloseOne(a) PROVE DoneInv'
  <2>1. a \in Conns => conn[a] = a
    BY DEF OwnersInv
  <2> QED
    BY <1>6, <2>1 DEF DoneInv, CloseOne, CloseSection, Afterwards
<1>7. ASSUME NEW x \in Closers, NEW c \in Conns, CloseTaken(x, c) PROVE DoneInv'
  <2>1. x \in Shutdowns
    BY <1>7 DEF LeftInv, CloseTaken
  <2>2. /\ UNCHANGED backend /\ closed \subseteq closed'
        /\ \A a \in Closers : a # x => at'[a] = at[a]
    BY <1>7 DEF CloseTaken, CloseSection
  <2> QED
    BY <2>1, <2>2 DEF DoneInv
<1>8. ASSUME NEW a \in Closers, EndBackend(a) PROVE DoneInv'
  <2>1. /\ conn[a] \in Conns /\ (a \in Conns => conn[a] = a)
        /\ \A c \in Conns : at[c] = "idle" => conn[a] # c
    BY <1>8 DEF OwnersInv, ClosingInv, FreshInv, EndBackend
  <2>2. /\ conn[a] \in closed
        /\ at[a] = "closeBackend" /\ at'[a] \in {"close", "unlist", "done"}
        /\ \A c \in Closers : c # a => at'[c] = at[c]
        /\ \A c \in Conns : c # conn[a] => backend'[c] = backend[c]
        /\ backend'[conn[a]] = "ended" /\ closed' = closed
    BY <1>8, <2>1 DEF ClosingInv, EndBackend, Afterwards
  <2> QED
    BY <2>1, <2>2 DEF DoneInv
<1>9. ASSUME NEW a \in Closers, Delist(a) PROVE DoneInv'
  <2>1. a \in Conns => conn[a] = a /\ conn[a] \in closed
    BY <1>9 DEF OwnersInv, ClosingInv, Delist
  <2> QED
    BY <1>9, <2>1 DEF DoneInv, Delist
<1>10. CASE UNCHANGED tableVars
  BY <1>10 DEF DoneInv, tableVars
<1> QED
  BY <1>1, <1>2, <1>3, <1>4, <1>5, <1>6, <1>7, <1>8, <1>9, <1>10
  DEF TableNext, InitializeStep, CloserStepOf

LEMMA EndsFollow ==
    TableInv /\ RunnerInv /\ DoneInv => EndsAttended
<1> SUFFICES ASSUME TableInv, RunnerInv, DoneInv, NEW c \in Conns, c \in closed \/ Failed(c)
             PROVE  /\ backend[c] = "open" => InCharge(c)
                    /\ c \in table =>
                          /\ conn[RunnerOf[c]] = c
                          /\ at[RunnerOf[c]] \in {"receive", "close", "closeBackend", "unlist"}
  BY DEF EndsAttended
<1>1. c \in closed /\ backend[c] = "open" => InCharge(c)
  BY DEF TableInv, MarkedInv, InCharge
<1>2. Failed(c) /\ c \notin closed /\ backend[c] = "open" => InCharge(c)
  BY Apart DEF TableInv, OwnersInv, DoneInv, Failed, InCharge
<1> QED
  BY <1>1, <1>2 DEF RunnerInv

(***************************************************************************)
(* Whichever of a failing initialize, DELETE, Server.Close and the end of  *)
(* the agent come together, what an ended connection leaves behind, an     *)
(* agent or an entry of the table, is in the hands of a goroutine that has *)
(* yet to remove it.                                                       *)
(***************************************************************************)
THEOREM NothingLeftAlone == TableSpec => []EndsAttended
<1> DEFINE I == TableInv /\ RunnerInv /\ DoneInv
<1>1. TableInit => I
  BY TableInvInit DEF TableInit, RunnerInv, DoneInv, Closers
<1>2. I /\ [TableNext]_tableVars => I'
  BY TableInvNext, RunnerInvNext, DoneInvNext
<1>3. I => EndsAttended
  BY EndsFollow
<1> HIDE DEF I
<1> QED
  BY <1>1, <1>2, <1>3, PTL DEF TableSpec
=============================================================================
