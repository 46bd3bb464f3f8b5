---------------------------- MODULE PeerProofs ----------------------------
(***************************************************************************)
(* Proofs about two peers over a pipe: type correctness, safety of the     *)
(* response channels, and that every call gets the answer to its own       *)
(* request, for any number of calls, any nesting and any buffer.           *)
(***************************************************************************)
EXTENDS Peer, FiniteSetTheorems, SequenceTheorems, TLAPS

(* Ids are positive numbers.                                               *)
LEMMA IdsNat == \A n \in Ids : n \in Nat /\ n # 0
PROOF
<1>1. Cardinality(Calls) \in Nat BY PeerAssumption, FS_CardinalityType
<1> QED BY <1>1 DEF Ids

(* There is another peer.                                                  *)
LEMMA OtherSide ==
    ASSUME NEW x \in Sides
    PROVE  Other(x) \in Sides
PROOF
<1>1. SUFFICES \E y \in Sides : y # x BY DEF Other
<1>2. SUFFICES ASSUME \A y \in Sides : y = x PROVE FALSE OBVIOUS
<1>3. Sides = {x} BY <1>2
<1>4. Cardinality(Sides) = 1 BY <1>3, FS_Singleton
<1> QED BY <1>4, PeerAssumption

(* The callee of a call is a peer.                                         *)
LEMMA CalleeSide ==
    ASSUME NEW c \in Calls
    PROVE  Callee(c) \in Sides
PROOF BY OtherSide, PeerAssumption DEF Callee

-----------------------------------------------------------------------------
(* Ids.                                                                    *)

(* The calls peer x has begun; the counter counts them, so an id is never  *)
(* given out twice and never exceeds the number of calls.                  *)
Begun(x) == {c \in Calls : Caller[c] = x /\ call[c] # "idle"}

CounterOK == \A x \in Sides : nextID[x] = Cardinality(Begun(x))

(* The id of a call that has begun is one its peer has given out, and no   *)
(* two calls of a peer share one.                                          *)
IdsUnique ==
    /\ \A c \in Calls : call[c] # "idle" => id[c] \in 1 .. nextID[Caller[c]]
    /\ \A c, d \in Calls :
         (call[c] # "idle" /\ call[d] # "idle" /\ Caller[c] = Caller[d] /\ id[c] = id[d])
           => c = d

(* What peer x has not received yet.                                       *)
Underway(x) == {inbox[x][i] : i \in 1 .. Len(inbox[x])}

(* A message is about a call that has begun, with its id, and a response   *)
(* is on the way to the peer that made the call.                           *)
Genuine(x, m) ==
    /\ call[m.of] # "idle" /\ m.id = id[m.of]
    /\ m.kind = "response" => Caller[m.of] = x

MessagesOK ==
    \A x \in Sides :
        /\ \A m \in Underway(x) : Genuine(x, m)
        /\ hand[x] # NoMessage => Genuine(x, hand[x])

(* Only a call that has begun has a handler.                               *)
HandlersOK == \A c \in Calls : handler[c] # "none" => call[c] # "idle"

(* While Serve handles a response it holds one, and it has the call the    *)
(* response is for when it is about to deliver.                            *)
ServeOK ==
    \A x \in Sides :
        /\ serve[x] \in {"take", "deliver"} =>
               hand[x] \in Messages /\ hand[x].kind = "response"
        /\ (serve[x] = "deliver") <=> (target[x] # NoCall)

TypeInv == TypeOK /\ CounterOK /\ IdsUnique /\ MessagesOK /\ HandlersOK /\ ServeOK

(* The counter stays within the ids when another call begins.              *)
LEMMA NewIDInRange ==
    ASSUME TypeInv, NEW c \in Calls, call[c] = "idle"
    PROVE  /\ NewID(Caller[c]) \in Ids
           /\ Cardinality(Begun(Caller[c]) \cup {c}) = NewID(Caller[c])
PROOF
<1> DEFINE x == Caller[c]
<1>1. x \in Sides BY PeerAssumption
<1>2. IsFiniteSet(Calls) /\ Cardinality(Calls) \in Nat
  BY PeerAssumption, FS_CardinalityType
<1>3. Begun(x) \subseteq Calls /\ c \notin Begun(x) BY DEF Begun
<1>4. IsFiniteSet(Begun(x)) /\ Cardinality(Begun(x)) \in Nat
  BY <1>2, <1>3, FS_Subset, FS_CardinalityType
<1>5. Cardinality(Begun(x) \cup {c}) = Cardinality(Begun(x)) + 1
  BY <1>3, <1>4, FS_AddElement
<1>6. Cardinality(Begun(x) \cup {c}) <= Cardinality(Calls)
  BY <1>2, <1>3, FS_Subset
<1>7. nextID[x] = Cardinality(Begun(x)) BY <1>1 DEF TypeInv, CounterOK
<1> QED BY <1>2, <1>4, <1>5, <1>6, <1>7 DEF NewID, Ids

(* The counters are numbers.                                               *)
LEMMA CounterNat ==
    ASSUME TypeOK, NEW x \in Sides
    PROVE  nextID[x] \in Nat
PROOF
<1>1. nextID \in [Sides -> Ids \cup {0}] BY DEF TypeOK
<1>2. nextID[x] \in Ids \cup {0} BY <1>1
<1> QED BY <1>2, IdsNat

-----------------------------------------------------------------------------
(* Type correctness.                                                       *)

(* Every variable has its type at the start.                               *)
LEMMA InitTyped == Init => TypeInv
PROOF
<1> SUFFICES ASSUME Init PROVE TypeInv OBVIOUS
<1>1. TypeOK
  <2>1. inbox \in [Sides -> Seq(Messages)] /\ \A x \in Sides : Len(inbox[x]) <= Buffer
    BY PeerAssumption DEF Init
  <2>2. pending \in [Sides -> [Ids -> Calls \cup {NoCall}]] BY DEF Init
  <2> QED BY <2>1, <2>2 DEF Init, TypeOK
<1>2. CounterOK
  <2>1. \A x \in Sides : Begun(x) = {} BY DEF Init, Begun
  <2> QED BY <2>1, FS_EmptySet DEF Init, CounterOK
<1>3. IdsUnique BY DEF Init, IdsUnique
<1>4. MessagesOK BY DEF Init, MessagesOK, Underway
<1>5. HandlersOK /\ ServeOK BY DEF Init, HandlersOK, ServeOK
<1> QED BY <1>1, <1>2, <1>3, <1>4, <1>5 DEF TypeInv

(* A step that begins no call leaves the ids as they are.                  *)
LEMMA SameIds ==
    ASSUME TypeInv, UNCHANGED <<nextID, id>>,
           \A c \in Calls : (call'[c] = "idle") <=> (call[c] = "idle")
    PROVE  CounterOK' /\ IdsUnique'
PROOF
<1>1. \A x \in Sides : Begun(x)' = Begun(x) BY DEF Begun
<1>2. CounterOK' BY <1>1 DEF TypeInv, CounterOK
<1>3. IdsUnique' BY DEF TypeInv, IdsUnique
<1> QED BY <1>2, <1>3

(* Begin gives the call an id of its own.                                  *)
LEMMA BeginTyped ==
    ASSUME TypeInv, NEW c \in Calls, Begin(c)
    PROVE  TypeInv'
PROOF
<1> DEFINE x == Caller[c]
           n == NewID(x)
<1>1. x \in Sides BY PeerAssumption
<1>2. TypeOK BY DEF TypeInv
<1>3. call[c] = "idle" BY DEF Begin
<1>4. n \in Ids /\ Cardinality(Begun(x) \cup {c}) = n BY <1>3, NewIDInRange
<1>5. n = nextID[x] + 1 /\ nextID[x] \in Nat BY <1>1, <1>2, CounterNat DEF NewID
<1>6. /\ nextID' = [nextID EXCEPT ![x] = n]
      /\ id' = [id EXCEPT ![c] = n]
      /\ call' = [call EXCEPT ![c] = "send"]
      /\ pending' = [pending EXCEPT ![x][n] = c]
  BY <1>5 DEF Begin, Goto
<1>7. TypeOK'
  <2>1. UNCHANGED <<inbox, done, result, answer, sends, closes, handler, serve, hand, target, closing>>
    BY DEF Begin, pipeVars, chanVars
  <2>2. nextID' \in [Sides -> Ids \cup {0}] BY <1>1, <1>2, <1>4, <1>6 DEF TypeOK
  <2>3. pending' \in [Sides -> [Ids -> Calls \cup {NoCall}]]
    BY <1>1, <1>2, <1>4, <1>6 DEF TypeOK
  <2>4. call' \in [Calls -> {"idle", "send", "wait", "drop", "forget", "cancel",
                              "returned"}]
    BY <1>2, <1>6 DEF TypeOK
  <2>5. id' \in [Calls -> Ids \cup {0}] BY <1>2, <1>4, <1>6 DEF TypeOK
  <2>6. \A d \in Calls : id'[d] = 0 <=> call'[d] = "idle"
    BY <1>2, <1>4, <1>6, IdsNat DEF TypeOK
  <2> QED BY <1>2, <2>1, <2>2, <2>3, <2>4, <2>5, <2>6 DEF TypeOK
<1>8. CounterOK'
  <2> SUFFICES ASSUME NEW y \in Sides PROVE nextID'[y] = Cardinality(Begun(y)') BY DEF CounterOK
  <2>1. CASE y = x
    <3>1. Begun(x)' = Begun(x) \cup {c} BY <1>2, <1>6 DEF Begun, TypeOK
    <3> QED BY <1>1, <1>2, <1>4, <1>6, <2>1, <3>1 DEF TypeOK
  <2>2. CASE y # x
    <3>1. Begun(y)' = Begun(y) BY <1>2, <1>6, <2>2 DEF Begun, TypeOK
    <3> QED BY <1>2, <1>6, <2>2, <3>1 DEF TypeOK, TypeInv, CounterOK
  <2> QED BY <2>1, <2>2
<1>9. IdsUnique'
  <2>1. \A d \in Calls : Caller[d] \in Sides BY PeerAssumption
  <2>2. \A y \in Sides : nextID[y] \in Nat BY <1>2, CounterNat
  <2>3. \A d \in Calls : d # c => id'[d] = id[d] /\ call'[d] = call[d] BY <1>2, <1>6 DEF TypeOK
  <2>4. id'[c] = n BY <1>2, <1>6 DEF TypeOK
  <2>5. \A y \in Sides : nextID'[y] \in {nextID[y], nextID[y] + 1} BY <1>2, <1>5, <1>6 DEF TypeOK
  <2>6. nextID'[x] = n BY <1>1, <1>2, <1>6 DEF TypeOK
  <2>7. \A d \in Calls : call[d] # "idle" => id[d] \in 1 .. nextID[Caller[d]] BY DEF TypeInv, IdsUnique
  <2>8. \A d \in Calls : call'[d] # "idle" => id'[d] \in 1 .. nextID'[Caller[d]]
    <3> SUFFICES ASSUME NEW d \in Calls, call'[d] # "idle"
                 PROVE  id'[d] \in 1 .. nextID'[Caller[d]]
      OBVIOUS
    <3>1. CASE d = c BY <1>5, <2>4, <2>6, <3>1
    <3>2. CASE d # c BY <2>1, <2>2, <2>3, <2>5, <2>7, <3>2
    <3> QED BY <3>1, <3>2
  <2>9. \A d \in Calls : (d # c /\ call'[d] # "idle" /\ Caller[d] = x) => id'[d] # n
    BY <1>1, <1>5, <2>2, <2>3, <2>7
  <2> QED BY <2>3, <2>4, <2>8, <2>9 DEF TypeInv, IdsUnique
<1>10. MessagesOK'
  <2>1. \A m \in Messages, y \in Sides : Genuine(y, m) => Genuine(y, m)'
    BY <1>2, <1>3, <1>6 DEF Genuine, Messages, TypeOK
  <2>2. \A y \in Sides : Underway(y) \subseteq Messages BY <1>2 DEF Underway, TypeOK
  <2>3. UNCHANGED <<inbox, hand>> BY DEF Begin, pipeVars
  <2> QED BY <1>2, <2>1, <2>2, <2>3 DEF TypeInv, MessagesOK, Underway, TypeOK
<1>11. HandlersOK' BY <1>2, <1>6 DEF TypeInv, HandlersOK, TypeOK, Begin
<1>12. ServeOK' BY DEF TypeInv, ServeOK, Begin
<1> QED BY <1>7, <1>8, <1>9, <1>10, <1>11, <1>12 DEF TypeInv

(* Messages stay genuine in a step that begins no call.                    *)
LEMMA SameGenuine ==
    ASSUME TypeOK, UNCHANGED id,
           \A c \in Calls : (call'[c] = "idle") <=> (call[c] = "idle")
    PROVE  \A x \in Sides, m \in Messages : Genuine(x, m)' <=> Genuine(x, m)
PROOF BY DEF Genuine, Messages

(* A message that is put into the pipe is all that is new in it.           *)
LEMMA PutTyped ==
    ASSUME TypeOK, NEW x \in Sides, NEW msg \in Messages, Put(x, msg)
    PROVE  /\ inbox' \in [Sides -> Seq(Messages)]
           /\ \A y \in Sides : Len(inbox'[y]) <= Buffer
           /\ \A y \in Sides : Underway(y)' \subseteq Underway(y)
                                                   \cup IF y = x THEN {msg} ELSE {}
PROOF
<1>1. /\ inbox \in [Sides -> Seq(Messages)]
      /\ \A y \in Sides : Len(inbox[y]) <= Buffer
  BY DEF TypeOK
<1>2. Len(inbox[x]) < Buffer /\ inbox' = [inbox EXCEPT ![x] = Append(@, msg)] BY DEF Put
<1>3. Buffer \in Nat BY PeerAssumption
<1>4. inbox'[x] = Append(inbox[x], msg) /\ inbox[x] \in Seq(Messages) BY <1>1, <1>2
<1>5. Len(inbox'[x]) = Len(inbox[x]) + 1 /\ Len(inbox[x]) \in Nat BY <1>4
<1>6. \A i \in 1 .. Len(inbox'[x]) :
        inbox'[x][i] = IF i <= Len(inbox[x]) THEN inbox[x][i] ELSE msg
  BY <1>4, <1>5
<1>7. Underway(x)' \subseteq Underway(x) \cup {msg} BY <1>5, <1>6 DEF Underway
<1>8. \A y \in Sides : y # x => inbox'[y] = inbox[y] BY <1>1, <1>2
<1>9. inbox' \in [Sides -> Seq(Messages)] BY <1>1, <1>2, <1>4
<1>10. \A y \in Sides : Len(inbox'[y]) <= Buffer BY <1>1, <1>2, <1>3, <1>5, <1>8
<1> QED BY <1>7, <1>8, <1>9, <1>10 DEF Underway

(* A message that is received was on its way, and the others still are.    *)
LEMMA TookTyped ==
    ASSUME TypeOK, NEW x \in Sides, inbox[x] # <<>>,
           inbox' = [inbox EXCEPT ![x] = Tail(@)]
    PROVE  /\ inbox' \in [Sides -> Seq(Messages)]
           /\ \A y \in Sides : Len(inbox'[y]) <= Buffer
           /\ \A y \in Sides : Underway(y)' \subseteq Underway(y)
           /\ Head(inbox[x]) \in Messages \cap Underway(x)
PROOF
<1>1. /\ inbox \in [Sides -> Seq(Messages)]
      /\ \A y \in Sides : Len(inbox[y]) <= Buffer
  BY DEF TypeOK
<1>2. Buffer \in Nat BY PeerAssumption
<1>3. inbox'[x] = Tail(inbox[x]) /\ inbox[x] \in Seq(Messages) BY <1>1
<1>4. Len(inbox'[x]) = Len(inbox[x]) - 1 /\ Len(inbox[x]) \in Nat \ {0}
  BY <1>3, EmptySeq, HeadTailProperties
<1>5. \A i \in 1 .. Len(inbox'[x]) : inbox'[x][i] = inbox[x][i + 1] BY <1>3, <1>4
<1>6. Underway(x)' \subseteq Underway(x) BY <1>4, <1>5 DEF Underway
<1>7. \A y \in Sides : y # x => inbox'[y] = inbox[y] BY <1>1
<1>8. inbox' \in [Sides -> Seq(Messages)] BY <1>1, <1>3
<1>9. \A y \in Sides : Len(inbox'[y]) <= Buffer BY <1>1, <1>2, <1>4, <1>7
<1>10. Head(inbox[x]) = inbox[x][1] /\ Head(inbox[x]) \in Messages BY <1>3, <1>4
<1> QED BY <1>4, <1>6, <1>7, <1>8, <1>9, <1>10 DEF Underway

(* A step that touches neither the pipe nor an id keeps what TypeInv says  *)
(* of them.                                                                *)
LEMMA Quiet ==
    ASSUME TypeInv, TypeOK', UNCHANGED <<inbox, nextID, id>>,
           \A c \in Calls : (call'[c] = "idle") <=> (call[c] = "idle"),
           \A x \in Sides : hand'[x] \in {hand[x], NoMessage},
           \A c \in Calls : (handler'[c] # "none") => (handler[c] # "none"),
           ServeOK'
    PROVE  TypeInv'
PROOF
<1>1. TypeOK BY DEF TypeInv
<1>2. CounterOK' /\ IdsUnique' BY SameIds
<1>3. \A x \in Sides, m \in Messages : Genuine(x, m)' <=> Genuine(x, m) BY <1>1, SameGenuine
<1>4. \A x \in Sides : Underway(x) \subseteq Messages /\ Underway(x)' = Underway(x)
  BY <1>1 DEF Underway, TypeOK
<1>5. \A x \in Sides : hand[x] \in Messages \cup {NoMessage} BY <1>1 DEF TypeOK
<1>6. MessagesOK' BY <1>3, <1>4, <1>5 DEF TypeInv, MessagesOK
<1>7. HandlersOK' BY DEF TypeInv, HandlersOK
<1> QED BY <1>2, <1>6, <1>7 DEF TypeInv

(* A step that puts a genuine message into the pipe.                       *)
LEMMA Sending ==
    ASSUME TypeInv, TypeOK', NEW x \in Sides, NEW msg \in Messages,
           Put(x, msg), Genuine(x, msg), UNCHANGED <<nextID, id, hand>>,
           \A c \in Calls : (call'[c] = "idle") <=> (call[c] = "idle"),
           \A c \in Calls : (handler'[c] # "none") => (handler[c] # "none"),
           ServeOK'
    PROVE  TypeInv'
PROOF
<1>1. TypeOK BY DEF TypeInv
<1>2. CounterOK' /\ IdsUnique' BY SameIds
<1>3. \A y \in Sides, m \in Messages : Genuine(y, m)' <=> Genuine(y, m) BY <1>1, SameGenuine
<1>4. \A y \in Sides : Underway(y) \subseteq Messages BY <1>1 DEF Underway, TypeOK
<1>5. \A y \in Sides : hand[y] \in Messages \cup {NoMessage} BY <1>1 DEF TypeOK
<1>6. \A y \in Sides : Underway(y)' \subseteq Underway(y) \cup IF y = x THEN {msg} ELSE {}
  BY <1>1, PutTyped
<1>7. MessagesOK' BY <1>3, <1>4, <1>5, <1>6 DEF TypeInv, MessagesOK
<1>8. HandlersOK' BY DEF TypeInv, HandlersOK
<1> QED BY <1>2, <1>7, <1>8 DEF TypeInv

(* The goroutine of a call.                                                *)
LEMMA CallTyped ==
    ASSUME TypeInv, NEW c \in Calls, GiveUp(c) \/ CallStep(c)
    PROVE  TypeInv'
PROOF
<1>1. TypeOK BY DEF TypeInv
<1>2. Caller[c] \in Sides /\ Callee(c) \in Sides BY PeerAssumption, CalleeSide
<1>3. call[c] # "idle"
  BY DEF GiveUp, CallStep, SendRequest, DeletePending, SendCancel, ReturnAnswer
<1>4. id[c] \in Ids BY <1>1, <1>3 DEF TypeOK
<1>5. \A kind \in {"request", "cancel"} :
        /\ Msg(kind, id[c], c) \in Messages
        /\ Genuine(Callee(c), Msg(kind, id[c], c))
  BY <1>3, <1>4 DEF Msg, Messages, Kinds, Genuine
<1>6. CASE GiveUp(c)
  <2>1. /\ UNCHANGED <<inbox, nextID, id, hand, handler, serve, target>>
        /\ \A d \in Calls : (call'[d] = "idle") <=> (call[d] = "idle")
    BY <1>1, <1>6 DEF GiveUp, Goto, pipeVars, TypeOK
  <2>2. TypeOK' BY <1>1, <1>6 DEF GiveUp, Goto, pipeVars, chanVars, TypeOK
  <2>3. ServeOK' BY <2>1 DEF TypeInv, ServeOK
  <2> QED BY <2>1, <2>2, <2>3, Quiet
<1>7. CASE SendRequest(c)
  <2>1. /\ UNCHANGED <<nextID, id, hand, handler, serve, target>>
        /\ \A d \in Calls : (call'[d] = "idle") <=> (call[d] = "idle")
    BY <1>1, <1>7 DEF SendRequest, Goto, TypeOK
  <2>2. ServeOK' BY <2>1 DEF TypeInv, ServeOK
  <2>3. ASSUME Put(Callee(c), Msg("request", id[c], c)), Goto(c, "wait") PROVE TypeInv'
    <3>1. TypeOK'
      BY <1>1, <1>2, <1>5, <1>7, <2>3, PutTyped DEF SendRequest, Goto, chanVars, TypeOK
    <3> QED BY <1>2, <1>5, <2>1, <2>2, <2>3, <3>1, Sending
  <2>4. ASSUME SendFails, Goto(c, "drop") PROVE TypeInv'
    <3>1. TypeOK' BY <1>1, <1>7, <2>4 DEF SendRequest, SendFails, Goto, chanVars, TypeOK
    <3> QED BY <2>1, <2>2, <2>4, <3>1, Quiet DEF SendFails
  <2> QED BY <1>7, <2>3, <2>4 DEF SendRequest
<1>8. CASE DeletePending(c)
  <2>1. /\ UNCHANGED <<inbox, nextID, id, hand, handler, serve, target>>
        /\ \A d \in Calls : (call'[d] = "idle") <=> (call[d] = "idle")
    BY <1>1, <1>8 DEF DeletePending, Returns, Goto, pipeVars, TypeOK
  <2>2. TypeOK'
    <3>1. call' \in [Calls -> {"idle", "send", "wait", "drop", "forget", "cancel",
                               "returned"}]
      <4>1. \E l \in {"returned", "cancel"} : call' = [call EXCEPT ![c] = l]
        BY <1>8 DEF DeletePending, Returns, Goto
      <4> QED
        BY <1>1, <4>1 DEF TypeOK
    <3>3. result' \in [Calls -> {"none", "answered", "closed", "failed", "cancelled"}]
      BY <1>1, <1>8 DEF DeletePending, Returns, TypeOK
    <3>2. pending' \in [Sides -> [Ids -> Calls \cup {NoCall}]]
      <4>1. pending \in [Sides -> [Ids -> Calls \cup {NoCall}]] /\ Caller[c] \in Sides
        BY <1>1, <1>2 DEF TypeOK
      <4> DEFINE left == [pending[Caller[c]] EXCEPT ![id[c]] = NoCall]
      <4>2. left \in [Ids -> Calls \cup {NoCall}]
        BY <4>1
      <4>3. pending' = [pending EXCEPT ![Caller[c]] = left]
        BY <1>8 DEF DeletePending
      <4> HIDE DEF left
      <4> QED
        BY <4>1, <4>2, <4>3
    <3> QED
      BY <1>1, <1>8, <2>1, <3>1, <3>2, <3>3, SMTT(30)
      DEF DeletePending, pipeVars, chanVars, TypeOK
  <2>3. ServeOK' BY <2>1 DEF TypeInv, ServeOK
  <2> QED BY <2>1, <2>2, <2>3, Quiet
<1>9. CASE SendCancel(c)
  <2>1. /\ UNCHANGED <<nextID, id, hand, handler, serve, target>>
        /\ \A d \in Calls : (call'[d] = "idle") <=> (call[d] = "idle")
    BY <1>1, <1>9 DEF SendCancel, Returns, Goto, TypeOK
  <2>2. ServeOK' BY <2>1 DEF TypeInv, ServeOK
  <2>3. ASSUME Put(Callee(c), Msg("cancel", id[c], c)) PROVE TypeInv'
    <3>1. TypeOK'
      BY <1>1, <1>2, <1>5, <1>9, <2>3, PutTyped
      DEF SendCancel, Returns, Goto, chanVars, TypeOK
    <3> QED BY <1>2, <1>5, <2>1, <2>2, <2>3, <3>1, Sending
  <2>4. ASSUME SendFails PROVE TypeInv'
    <3>1. TypeOK'
      BY <1>1, <1>9, <2>4 DEF SendCancel, SendFails, Returns, Goto, chanVars, TypeOK
    <3> QED BY <2>1, <2>2, <2>4, <3>1, Quiet DEF SendFails
  <2> QED BY <1>9, <2>3, <2>4 DEF SendCancel
<1>10. CASE ReturnAnswer(c)
  <2>1. /\ UNCHANGED <<inbox, nextID, id, hand, handler, serve, target>>
        /\ \A d \in Calls : (call'[d] = "idle") <=> (call[d] = "idle")
    BY <1>1, <1>10 DEF ReturnAnswer, Returns, Goto, pipeVars, TypeOK
  <2>2. TypeOK' BY <1>1, <1>10 DEF ReturnAnswer, Returns, Goto, pipeVars, chanVars, TypeOK
  <2>3. ServeOK' BY <2>1 DEF TypeInv, ServeOK
  <2> QED BY <2>1, <2>2, <2>3, Quiet
<1> QED BY <1>6, <1>7, <1>8, <1>9, <1>10 DEF CallStep

(* The goroutine of a handler.                                             *)
LEMMA HandlerTyped ==
    ASSUME TypeInv, NEW c \in Calls, HandlerStep(c)
    PROVE  TypeInv'
PROOF
<1>1. TypeOK BY DEF TypeInv
<1>2. /\ UNCHANGED <<nextID, id, call, hand, serve, target>>
      /\ \A d \in Calls : (handler'[d] # "none") => (handler[d] # "none")
  BY <1>1 DEF HandlerStep, HandlerEnds, SendResponse, callVars, TypeOK
<1>3. ServeOK' BY <1>2 DEF TypeInv, ServeOK
<1>4. CASE HandlerEnds(c)
  <2>1. TypeOK' BY <1>1, <1>4 DEF HandlerEnds, pipeVars, callVars, chanVars, TypeOK
  <2> QED BY <1>2, <1>3, <1>4, <2>1, Quiet DEF HandlerEnds, pipeVars
<1>5. CASE SendResponse(c)
  <2> DEFINE msg == Msg("response", id[c], c)
  <2>1. Caller[c] \in Sides BY PeerAssumption
  <2>2. call[c] # "idle" BY <1>5 DEF SendResponse, TypeInv, HandlersOK
  <2>3. msg \in Messages /\ Genuine(Caller[c], msg)
    BY <1>1, <2>2 DEF Msg, Messages, Kinds, Genuine, TypeOK
  <2>4. ASSUME Put(Caller[c], msg) PROVE TypeInv'
    <3>1. TypeOK'
      BY <1>1, <1>5, <2>1, <2>3, <2>4, PutTyped DEF SendResponse, callVars, chanVars, TypeOK
    <3> QED BY <1>2, <1>3, <2>1, <2>3, <2>4, <3>1, Sending
  <2>5. ASSUME SendFails PROVE TypeInv'
    <3>1. TypeOK'
      BY <1>1, <1>5, <2>5 DEF SendResponse, SendFails, callVars, chanVars, TypeOK
    <3> QED BY <1>2, <1>3, <2>5, <3>1, Quiet DEF SendFails
  <2> QED BY <1>5, <2>4, <2>5 DEF SendResponse
<1> QED BY <1>4, <1>5 DEF HandlerStep

(* Serve receives a message: a request starts a handler.                   *)
LEMMA ReceiveTyped ==
    ASSUME TypeInv, NEW x \in Sides, ServeRequest(x) \/ ServeOther(x)
    PROVE  TypeInv'
PROOF
<1> DEFINE m == Head(inbox[x])
<1>1. TypeOK BY DEF TypeInv
<1>2. /\ inbox[x] # <<>> /\ inbox' = [inbox EXCEPT ![x] = Tail(@)]
      /\ hand' = [hand EXCEPT ![x] = m]
      /\ UNCHANGED <<done, nextID, pending, call, id, result, answer, sends, closes, target,
                     closing>>
      /\ serve[x] = "receive"
  BY DEF ServeRequest, ServeOther, callVars, chanVars
<1>3. m \in Messages /\ m \in Underway(x) BY <1>1, <1>2, TookTyped
<1>4. Genuine(x, m) BY <1>3 DEF TypeInv, MessagesOK
<1>5. m.of \in Calls /\ m.kind \in Kinds BY <1>3 DEF Messages
<1>6. /\ inbox' \in [Sides -> Seq(Messages)]
      /\ \A y \in Sides : Len(inbox'[y]) <= Buffer
      /\ \A y \in Sides : Underway(y)' \subseteq Underway(y)
  BY <1>1, <1>2, TookTyped
<1>7. /\ handler' \in [Calls -> {"none", "run", "reply", "done"}]
      /\ \A d \in Calls : handler'[d] # "none" => (handler[d] # "none" \/ d = m.of)
  <2>1. handler' = handler \/ handler' = [handler EXCEPT ![m.of] = "run"]
    BY DEF ServeRequest, ServeOther
  <2> QED
    <3>1. handler \in [Calls -> {"none", "run", "reply", "done"}]
      BY <1>1 DEF TypeOK
    <3> HIDE DEF m
    <3> QED
      BY <1>5, <2>1, <3>1
<1>8. /\ serve' \in [Sides -> {"receive", "take", "busy", "deliver", "fail", "ended"}]
      /\ \A y \in Sides : y # x => serve'[y] = serve[y]
      /\ serve'[x] \in {"receive", "take", "busy"}
      /\ serve'[x] = "take" => m.kind = "response"
  BY <1>1 DEF ServeRequest, ServeOther, GotoServe, AfterRequest, TypeOK
<1>9. TypeOK' BY <1>1, <1>2, <1>3, <1>6, <1>7, <1>8 DEF TypeOK
<1>10. CounterOK' /\ IdsUnique' BY <1>1, <1>2, SameIds
<1>11. MessagesOK'
  <2>1. \A y \in Sides, n \in Messages : Genuine(y, n)' <=> Genuine(y, n)
    BY <1>1, <1>2, SameGenuine
  <2>2. \A y \in Sides : Underway(y) \subseteq Messages BY <1>1 DEF Underway, TypeOK
  <2>3. \A y \in Sides : hand[y] \in Messages \cup {NoMessage} BY <1>1 DEF TypeOK
  <2>4. \A y \in Sides : hand'[y] = IF y = x THEN m ELSE hand[y] BY <1>1, <1>2 DEF TypeOK
  <2> QED BY <1>3, <1>4, <1>6, <2>1, <2>2, <2>3, <2>4 DEF TypeInv, MessagesOK
<1>12. HandlersOK' BY <1>2, <1>4, <1>5, <1>7 DEF TypeInv, HandlersOK, Genuine
<1>13. ServeOK'
  <2>1. \A y \in Sides : hand'[y] = IF y = x THEN m ELSE hand[y] BY <1>1, <1>2 DEF TypeOK
  <2> QED BY <1>2, <1>3, <1>8, <2>1 DEF TypeInv, ServeOK
<1> QED BY <1>9, <1>10, <1>11, <1>12, <1>13 DEF TypeInv

(* failPending keeps the types of what it changes.                         *)
LEMMA FailTyped ==
    ASSUME TypeOK, NEW x \in Sides, FailPending(x)
    PROVE  /\ pending' \in [Sides -> [Ids -> Calls \cup {NoCall}]]
           /\ closes' \in [Calls -> Nat]
PROOF
<1>1. /\ pending \in [Sides -> [Ids -> Calls \cup {NoCall}]]
      /\ closes \in [Calls -> Nat]
  BY DEF TypeOK
<1> QED BY <1>1 DEF FailPending

(* The other steps of Serve.                                               *)
LEMMA ServeTyped ==
    ASSUME TypeInv, NEW x \in Sides,
           \/ NotificationHandled(x) \/ TakePending(x) \/ Deliver(x)
           \/ ReceiveFails(x) \/ ServeEnds(x) \/ ServeCancelled(x)
    PROVE  TypeInv'
PROOF
<1>1. TypeOK BY DEF TypeInv
<1>2. UNCHANGED <<inbox, nextID, id, call, handler>>
  BY DEF NotificationHandled, TakePending, Deliver, ReceiveFails, ServeEnds, ServeCancelled,
         pipeVars, callVars
<1>3. hand' \in {hand, [hand EXCEPT ![x] = NoMessage]}
  BY DEF NotificationHandled, TakePending, Deliver, ReceiveFails, ServeEnds, ServeCancelled
<1>4. \A y \in Sides : hand'[y] \in {hand[y], NoMessage} BY <1>1, <1>3 DEF TypeOK
<1>5. SUFFICES TypeOK' /\ ServeOK' BY <1>2, <1>4, Quiet
<1>6. CASE NotificationHandled(x)
  <2>1. TypeOK'
    BY <1>1, <1>6 DEF NotificationHandled, GotoServe, pipeVars, callVars, chanVars, TypeOK
  <2>2. ServeOK' BY <1>1, <1>6 DEF NotificationHandled, GotoServe, TypeOK, TypeInv, ServeOK
  <2> QED BY <2>1, <2>2
<1>7. CASE TakePending(x)
  <2> DEFINE n == hand[x].id
  <2>1. hand[x] \in Messages /\ hand[x].kind = "response" /\ serve[x] = "take"
    BY <1>7 DEF TakePending, TypeInv, ServeOK
  <2>2. n \in Ids BY <2>1 DEF Messages
  <2>3. pending[x][n] \in Calls \cup {NoCall} BY <1>1, <2>2 DEF TypeOK
  <2>4. /\ target' = [target EXCEPT ![x] = pending[x][n]]
        /\ pending' = [pending EXCEPT ![x][n] = NoCall]
        /\ serve' = [serve EXCEPT ![x] = IF pending[x][n] = NoCall THEN "receive"
                                         ELSE "deliver"]
    BY <1>1, <1>7 DEF TakePending, Taken, GotoServe, TypeOK
  <2>5. UNCHANGED <<inbox, done, nextID, call, id, result, answer, sends, closes, handler,
                    hand, closing>>
    BY <1>7 DEF TakePending, pipeVars, callVars, chanVars
  <2>6. TypeOK' BY <1>1, <2>2, <2>3, <2>4, <2>5 DEF TypeOK
  <2>7. ServeOK' BY <1>1, <2>1, <2>4, <2>5 DEF TypeOK, TypeInv, ServeOK
  <2> QED BY <2>6, <2>7
<1>8. CASE Deliver(x)
  <2>1. /\ answer' = [answer EXCEPT ![target[x]] = hand[x]]
        /\ sends' = [sends EXCEPT ![target[x]] = @ + 1]
        /\ closes' = [closes EXCEPT ![target[x]] = @ + 1]
        /\ UNCHANGED <<inbox, done, nextID, pending, call, id, result, handler, closing>>
    BY <1>8 DEF Deliver, pipeVars, callVars
  <2>2. /\ answer' \in [Calls -> Messages \cup {NoMessage}]
        /\ sends' \in [Calls -> Nat] /\ closes' \in [Calls -> Nat]
    <3>1. target[x] \in Calls
      BY <1>1, <1>8 DEF Deliver, TypeOK, TypeInv, ServeOK
    <3>2. /\ answer \in [Calls -> Messages \cup {NoMessage}]
          /\ hand[x] \in Messages \cup {NoMessage}
          /\ sends \in [Calls -> Nat] /\ closes \in [Calls -> Nat]
      BY <1>1 DEF TypeOK
    <3> QED BY <2>1, <3>1, <3>2
  <2>3. /\ serve' \in [Sides -> {"receive", "take", "busy", "deliver", "fail", "ended"}]
        /\ hand' \in [Sides -> Messages \cup {NoMessage}]
        /\ target' \in [Sides -> Calls \cup {NoCall}]
    BY <1>1, <1>8 DEF Deliver, GotoServe, TypeOK
  <2>4. TypeOK' BY <1>1, <2>1, <2>2, <2>3 DEF TypeOK
  <2>5. ServeOK' BY <1>1, <1>8 DEF Deliver, GotoServe, TypeOK, TypeInv, ServeOK
  <2> QED BY <2>4, <2>5
<1>9. CASE ReceiveFails(x) \/ ServeCancelled(x)
  <2>1. TypeOK'
    BY <1>1, <1>9
    DEF ReceiveFails, ServeCancelled, GotoServe, pipeVars, callVars, chanVars, TypeOK
  <2>2. ServeOK'
    BY <1>1, <1>9 DEF ReceiveFails, ServeCancelled, GotoServe, TypeOK, TypeInv, ServeOK
  <2> QED BY <2>1, <2>2
<1>10. CASE ServeEnds(x)
  <2>1. TypeOK'
    BY <1>1, <1>10, FailTyped DEF ServeEnds, GotoServe, pipeVars, callVars, TypeOK
  <2>2. ServeOK' BY <1>1, <1>10 DEF ServeEnds, GotoServe, TypeOK, TypeInv, ServeOK
  <2> QED BY <2>1, <2>2
<1> QED BY <1>6, <1>7, <1>8, <1>9, <1>10

(* Peer.Close.                                                             *)
LEMMA CloseTyped ==
    ASSUME TypeInv, NEW x \in Sides, CloseFails(x) \/ ClosePipe(x)
    PROVE  TypeInv'
PROOF
<1>1. TypeOK BY DEF TypeInv
<1>2. UNCHANGED <<inbox, nextID, id, call, handler, hand, serve, target>>
  BY DEF CloseFails, ClosePipe, pipeVars, callVars
<1>3. ServeOK' BY <1>2 DEF TypeInv, ServeOK
<1>4. TypeOK'
  <2>1. CASE CloseFails(x)
    BY <1>1, <2>1, FailTyped DEF CloseFails, pipeVars, callVars, TypeOK
  <2>2. CASE ClosePipe(x)
    BY <1>1, <2>2 DEF ClosePipe, callVars, chanVars, TypeOK
  <2> QED BY <2>1, <2>2
<1> QED BY <1>2, <1>3, <1>4, Quiet

(* Every step keeps the types.                                             *)
LEMMA NextTyped == TypeInv /\ [Next]_vars => TypeInv'
PROOF
<1> SUFFICES ASSUME TypeInv, [Next]_vars PROVE TypeInv' OBVIOUS
<1>1. CASE UNCHANGED vars
  BY <1>1
  DEF vars, pipeVars, callVars, chanVars, TypeInv, TypeOK, CounterOK, Begun, IdsUnique,
      MessagesOK, Underway, Genuine, HandlersOK, ServeOK
<1>2. CASE Next
  BY <1>2, BeginTyped, CallTyped, HandlerTyped, ReceiveTyped, ServeTyped, CloseTyped
  DEF Next, ServeStep
<1> QED BY <1>1, <1>2

(***************************************************************************)
(* Every variable of the two peers stays in its domain: in particular the  *)
(* ids never run out of the number of calls, and what is in the pipe or in *)
(* the hands of Serve is a message about a call that was made.             *)
(***************************************************************************)
THEOREM TypesKept == Spec => []TypeOK
PROOF
<1>1. TypeInv => TypeOK BY DEF TypeInv
<1> QED BY <1>1, InitTyped, NextTyped, PTL DEF Spec

-----------------------------------------------------------------------------
(* The response channels.                                                  *)

(* A pending call is registered by its peer under its id, and its response *)
(* channel is untouched.                                                   *)
Registered ==
    \A x \in Sides : \A n \in Ids :
        pending[x][n] # NoCall =>
            LET c == pending[x][n] IN
            /\ Caller[c] = x /\ id[c] = n /\ call[c] # "idle"
            /\ sends[c] = 0 /\ closes[c] = 0

(* The call whose channel Serve has taken is the one the response in its   *)
(* hands is for; it is pending no more, and its channel is untouched.      *)
TakenAlone ==
    \A x \in Sides :
        target[x] # NoCall =>
            LET c == target[x] IN
            /\ Caller[c] = x /\ id[c] = hand[x].id /\ call[c] # "idle"
            /\ \A n \in Ids : pending[x][n] # c
            /\ sends[c] = 0 /\ closes[c] = 0

(* A channel is used at most once, and not before its call has begun.      *)
UsedOnce ==
    \A c \in Calls :
        /\ sends[c] <= 1 /\ closes[c] <= 1
        /\ call[c] = "idle" => sends[c] = 0 /\ closes[c] = 0

ChanInv == Registered /\ TakenAlone /\ UsedOnce /\ OwnAnswer

(* The channels are untouched at the start.                                *)
LEMMA InitChannels == Init => ChanInv
PROOF BY DEF Init, ChanInv, Registered, TakenAlone, UsedOnce, OwnAnswer

(* A step that leaves the channels and the table of calls alone.           *)
LEMMA SameChannels ==
    ASSUME TypeInv, ChanInv, UNCHANGED <<pending, id, answer, sends, closes, target>>,
           \A c \in Calls : (call'[c] = "idle") <=> (call[c] = "idle"),
           \A x \in Sides : target[x] # NoCall => hand'[x] = hand[x]
    PROVE  ChanInv'
PROOF
<1>1. TypeOK BY DEF TypeInv
<1>2. /\ pending \in [Sides -> [Ids -> Calls \cup {NoCall}]]
      /\ target \in [Sides -> Calls \cup {NoCall}]
  BY <1>1 DEF TypeOK
<1>3. Registered' BY <1>2 DEF ChanInv, Registered
<1>4. TakenAlone' BY <1>2 DEF ChanInv, TakenAlone
<1>5. UsedOnce' /\ OwnAnswer' BY DEF ChanInv, UsedOnce, OwnAnswer
<1> QED BY <1>3, <1>4, <1>5 DEF ChanInv

(* Begin registers the call.                                               *)
LEMMA BeginChannels ==
    ASSUME TypeInv, ChanInv, NEW c \in Calls, Begin(c)
    PROVE  ChanInv'
PROOF
<1> DEFINE x == Caller[c]
           n == NewID(x)
<1>1. TypeOK /\ x \in Sides BY PeerAssumption DEF TypeInv
<1>2. call[c] = "idle" BY DEF Begin
<1>3. n \in Ids BY <1>2, NewIDInRange
<1>4. /\ id' = [id EXCEPT ![c] = n] /\ call' = [call EXCEPT ![c] = "send"]
      /\ pending' = [pending EXCEPT ![x][n] = c]
      /\ UNCHANGED <<answer, sends, closes, target, hand>>
  BY DEF Begin, Goto, NewID, chanVars
<1>5. /\ pending \in [Sides -> [Ids -> Calls \cup {NoCall}]]
      /\ target \in [Sides -> Calls \cup {NoCall}]
      /\ \A d \in Calls : d # c => id'[d] = id[d] /\ call'[d] = call[d]
      /\ id'[c] = n /\ call'[c] = "send"
  BY <1>1, <1>4 DEF TypeOK
<1>6. \A y \in Sides : \A k \in Ids :
        pending'[y][k] = IF y = x /\ k = n THEN c ELSE pending[y][k]
  BY <1>1, <1>3, <1>4, <1>5
<1>7. NoCall \notin Calls BY PeerAssumption
<1>8. Registered'
  BY <1>2, <1>4, <1>5, <1>6 DEF ChanInv, Registered, UsedOnce
<1>9. \A y \in Sides : target[y] # c BY <1>2, <1>7 DEF ChanInv, TakenAlone
<1>10. TakenAlone' BY <1>4, <1>5, <1>6, <1>9 DEF ChanInv, TakenAlone
<1>11. UsedOnce' BY <1>4, <1>5 DEF ChanInv, UsedOnce
<1>12. OwnAnswer' BY <1>4 DEF ChanInv, OwnAnswer
<1> QED BY <1>8, <1>10, <1>11, <1>12 DEF ChanInv

(* The other steps of a call: giving up takes it out of the table.         *)
LEMMA CallChannels ==
    ASSUME TypeInv, ChanInv, NEW c \in Calls, GiveUp(c) \/ CallStep(c)
    PROVE  ChanInv'
PROOF
<1>1. TypeOK BY DEF TypeInv
<1>2. /\ UNCHANGED <<id, answer, sends, closes, target, hand>>
      /\ \A d \in Calls : (call'[d] = "idle") <=> (call[d] = "idle")
  BY <1>1
  DEF GiveUp, CallStep, SendRequest, DeletePending, SendCancel, ReturnAnswer, Returns, Goto,
      chanVars, TypeOK
<1>3. CASE UNCHANGED pending BY <1>2, <1>3, SameChannels
<1>4. CASE DeletePending(c)
  <2> DEFINE x == Caller[c]
  <2>1. /\ pending \in [Sides -> [Ids -> Calls \cup {NoCall}]]
        /\ target \in [Sides -> Calls \cup {NoCall}] /\ x \in Sides
    BY <1>1, PeerAssumption DEF TypeOK
  <2>2. pending' = [pending EXCEPT ![x][id[c]] = NoCall] BY <1>4 DEF DeletePending
  <2>3. \A y \in Sides : \A k \in Ids : pending'[y][k] \in {pending[y][k], NoCall}
    BY <2>1, <2>2
  <2>4. Registered' BY <1>2, <2>1, <2>3 DEF ChanInv, Registered
  <2>5. TakenAlone' BY <1>2, <2>1, <2>3 DEF ChanInv, TakenAlone
  <2>6. UsedOnce' /\ OwnAnswer' BY <1>2 DEF ChanInv, UsedOnce, OwnAnswer
  <2> QED BY <2>4, <2>5, <2>6 DEF ChanInv
<1>5. UNCHANGED pending \/ DeletePending(c)
  BY DEF GiveUp, CallStep, SendRequest, SendCancel, ReturnAnswer
<1> QED BY <1>3, <1>4, <1>5

(* Serve takes the call of a response out of the table.                    *)
LEMMA TakeChannels ==
    ASSUME TypeInv, ChanInv, NEW x \in Sides, TakePending(x)
    PROVE  ChanInv'
PROOF
<1> DEFINE n == hand[x].id
           c == pending[x][n]
<1>1. TypeOK BY DEF TypeInv
<1>2. /\ hand[x] \in Messages /\ target[x] = NoCall
  BY DEF TakePending, TypeInv, ServeOK
<1>3. n \in Ids BY <1>2 DEF Messages
<1>4. /\ pending \in [Sides -> [Ids -> Calls \cup {NoCall}]]
      /\ target \in [Sides -> Calls \cup {NoCall}]
  BY <1>1 DEF TypeOK
<1>5. /\ target' = [target EXCEPT ![x] = c]
      /\ pending' = [pending EXCEPT ![x][n] = NoCall]
      /\ UNCHANGED <<id, call, answer, sends, closes, hand>>
  BY DEF TakePending, Taken, callVars, chanVars
<1>6. /\ \A y \in Sides : \A k \in Ids :
           pending'[y][k] = IF y = x /\ k = n THEN NoCall ELSE pending[y][k]
      /\ \A y \in Sides : target'[y] = IF y = x THEN c ELSE target[y]
  BY <1>3, <1>4, <1>5
<1>7. Registered' BY <1>5, <1>6 DEF ChanInv, Registered
<1>8. TakenAlone'
  <2> SUFFICES ASSUME NEW y \in Sides, target'[y] # NoCall
               PROVE  LET d == target'[y] IN
                      /\ Caller[d] = y /\ id[d] = hand[y].id /\ call[d] # "idle"
                      /\ \A k \in Ids : pending'[y][k] # d
                      /\ sends[d] = 0 /\ closes[d] = 0
    BY <1>5 DEF TakenAlone
  <2>1. CASE y = x
    <3>1. target'[y] = c /\ c # NoCall BY <1>6, <2>1
    <3>2. /\ Caller[c] = x /\ id[c] = n /\ call[c] # "idle"
          /\ sends[c] = 0 /\ closes[c] = 0
      BY <1>3, <3>1 DEF ChanInv, Registered
    <3>3. \A k \in Ids : pending'[x][k] # c
      BY <1>6, <3>1, <3>2 DEF ChanInv, Registered
    <3> QED BY <2>1, <3>1, <3>2, <3>3
  <2>2. CASE y # x BY <1>6, <2>2 DEF ChanInv, TakenAlone
  <2> QED BY <2>1, <2>2
<1>9. UsedOnce' /\ OwnAnswer' BY <1>5 DEF ChanInv, UsedOnce, OwnAnswer
<1> QED BY <1>7, <1>8, <1>9 DEF ChanInv

(* Serve delivers the response: the two calls with the id of the response, *)
(* the one it was written for and the one it is delivered to, are one.     *)
LEMMA DeliverChannels ==
    ASSUME TypeInv, ChanInv, NEW x \in Sides, Deliver(x)
    PROVE  ChanInv'
PROOF
<1> DEFINE c == target[x]
<1>1. TypeOK BY DEF TypeInv
<1>2. /\ hand[x] \in Messages /\ hand[x].kind = "response" /\ c # NoCall
  BY DEF Deliver, TypeInv, ServeOK
<1>3. /\ target \in [Sides -> Calls \cup {NoCall}]
      /\ answer \in [Calls -> Messages \cup {NoMessage}]
      /\ sends \in [Calls -> Nat] /\ closes \in [Calls -> Nat]
  BY <1>1 DEF TypeOK
<1>4. c \in Calls BY <1>2, <1>3
<1>5. /\ answer' = [answer EXCEPT ![c] = hand[x]]
      /\ sends' = [sends EXCEPT ![c] = @ + 1]
      /\ closes' = [closes EXCEPT ![c] = @ + 1]
      /\ target' = [target EXCEPT ![x] = NoCall]
      /\ UNCHANGED <<id, call, pending>>
      /\ \A y \in Sides : y # x => hand'[y] = hand[y]
  BY <1>1 DEF Deliver, callVars, TypeOK
<1>6. /\ Caller[c] = x /\ id[c] = hand[x].id /\ call[c] # "idle"
      /\ \A k \in Ids : pending[x][k] # c
      /\ sends[c] = 0 /\ closes[c] = 0
  BY <1>2 DEF ChanInv, TakenAlone
<1>7. /\ sends'[c] = 1 /\ closes'[c] = 1 /\ answer'[c] = hand[x]
      /\ \A d \in Calls : d # c =>
           sends'[d] = sends[d] /\ closes'[d] = closes[d] /\ answer'[d] = answer[d]
  BY <1>3, <1>4, <1>5, <1>6
<1>8. /\ pending \in [Sides -> [Ids -> Calls \cup {NoCall}]]
      /\ \A y \in Sides : target'[y] = IF y = x THEN NoCall ELSE target[y]
  BY <1>1, <1>3, <1>5 DEF TypeOK
<1>9. Registered'
  <2>1. \A y \in Sides : \A k \in Ids : pending[y][k] # c
    BY <1>2, <1>6 DEF ChanInv, Registered
  <2> QED BY <1>5, <1>7, <1>8, <2>1 DEF ChanInv, Registered
<1>10. TakenAlone'
  <2>1. \A y \in Sides : y # x => target[y] # c
    BY <1>2, <1>6 DEF ChanInv, TakenAlone
  <2> QED BY <1>3, <1>5, <1>7, <1>8, <2>1 DEF ChanInv, TakenAlone
<1>11. UsedOnce' BY <1>5, <1>6, <1>7 DEF ChanInv, UsedOnce
<1>12. OwnAnswer'
  <2>1. Genuine(x, hand[x]) BY <1>1, <1>2 DEF TypeInv, MessagesOK, NoMessage
  <2>2. hand[x].of \in Calls BY <1>2 DEF Messages
  <2>3. hand[x].of = c
    BY <1>2, <1>4, <1>6, <2>1, <2>2 DEF Genuine, TypeInv, IdsUnique
  <2> QED BY <1>2, <1>7, <2>3 DEF ChanInv, OwnAnswer
<1> QED BY <1>9, <1>10, <1>11, <1>12 DEF ChanInv

(* failPending, by the end of Serve or by Close.                           *)
LEMMA FailChannels ==
    ASSUME TypeInv, ChanInv, NEW x \in Sides, FailPending(x),
           UNCHANGED <<id, call, answer, sends, target, hand>>
    PROVE  ChanInv'
PROOF
<1>1. /\ pending \in [Sides -> [Ids -> Calls \cup {NoCall}]]
      /\ target \in [Sides -> Calls \cup {NoCall}] /\ closes \in [Calls -> Nat]
  BY DEF TypeInv, TypeOK
<1>2. /\ \A y \in Sides : \A k \in Ids :
           pending'[y][k] = IF y = x THEN NoCall ELSE pending[y][k]
      /\ \A d \in Calls : closes'[d] = closes[d] + IF d \in PendingCalls(x) THEN 1 ELSE 0
  BY <1>1 DEF FailPending
<1>3. NoCall \notin Calls BY PeerAssumption
<1>4. \A d \in PendingCalls(x) :
        /\ Caller[d] = x /\ call[d] # "idle" /\ closes[d] = 0
        /\ target[x] # d
  BY <1>3 DEF PendingCalls, ChanInv, Registered, TakenAlone
<1>5. \A d \in Calls : d \notin PendingCalls(x) => closes'[d] = closes[d]
  BY <1>1, <1>2
<1>6. Registered'
  <2>1. \A y \in Sides : \A k \in Ids :
          (y # x /\ pending[y][k] # NoCall) => pending[y][k] \in Calls \ PendingCalls(x)
    BY <1>1, <1>4 DEF ChanInv, Registered
  <2> QED BY <1>2, <1>5, <2>1 DEF ChanInv, Registered
<1>7. TakenAlone'
  <2>1. \A y \in Sides : target[y] # NoCall => target[y] \in Calls \ PendingCalls(x)
    BY <1>1, <1>4 DEF ChanInv, TakenAlone
  <2> QED BY <1>2, <1>5, <2>1 DEF ChanInv, TakenAlone
<1>8. UsedOnce' BY <1>2, <1>4, <1>5 DEF ChanInv, UsedOnce
<1>9. OwnAnswer' BY DEF ChanInv, OwnAnswer
<1> QED BY <1>6, <1>7, <1>8, <1>9 DEF ChanInv

(* Every step keeps the channels safe.                                     *)
LEMMA NextChannels == TypeInv /\ ChanInv /\ [Next]_vars => ChanInv'
PROOF
<1> SUFFICES ASSUME TypeInv, ChanInv, [Next]_vars PROVE ChanInv' OBVIOUS
<1>1. CASE UNCHANGED vars
  BY <1>1, SameChannels DEF vars, callVars, chanVars
<1>2. ASSUME NEW c \in Calls, HandlerStep(c) PROVE ChanInv'
  BY <1>2, SameChannels DEF HandlerStep, HandlerEnds, SendResponse, callVars, chanVars
<1>3. ASSUME NEW x \in Sides, ServeRequest(x) \/ ServeOther(x) \/ NotificationHandled(x)
      PROVE  ChanInv'
  <2>1. /\ UNCHANGED <<pending, id, call, answer, sends, closes, target>>
        /\ serve[x] # "deliver"
    BY <1>3 DEF ServeRequest, ServeOther, NotificationHandled, callVars, chanVars
  <2>2. \A y \in Sides : y # x => hand'[y] = hand[y]
    BY <1>3 DEF ServeRequest, ServeOther, NotificationHandled, TypeInv, TypeOK
  <2>3. target[x] = NoCall BY <2>1 DEF TypeInv, ServeOK
  <2> QED BY <2>1, <2>2, <2>3, SameChannels
<1>4. ASSUME NEW x \in Sides, ReceiveFails(x) \/ ServeCancelled(x) \/ ClosePipe(x)
      PROVE  ChanInv'
  BY <1>4, SameChannels DEF ReceiveFails, ServeCancelled, ClosePipe, callVars, chanVars
<1>5. ASSUME NEW x \in Sides, ServeEnds(x) \/ CloseFails(x) PROVE ChanInv'
  BY <1>5, FailChannels DEF ServeEnds, CloseFails, callVars
<1>6. CASE Next
  BY <1>2, <1>3, <1>4, <1>5, <1>6, BeginChannels, CallChannels, TakeChannels,
     DeliverChannels
  DEF Next, ServeStep
<1> QED BY <1>1, <1>6

(* What the channel invariant says of a goroutine that is about to deliver.*)
LEMMA SafeToDeliver ==
    ASSUME TypeInv, ChanInv
    PROVE  ResponseChannelSafe
PROOF
<1>1. \A c \in Calls : sends[c] <= 1 /\ closes[c] <= 1 BY DEF ChanInv, UsedOnce
<1>2. ASSUME NEW x \in Sides, serve[x] = "deliver"
      PROVE  closes[target[x]] = 0 /\ target[x] \notin PendingCalls(x)
  <2>1. target[x] # NoCall BY <1>2 DEF TypeInv, ServeOK
  <2> QED BY <2>1 DEF ChanInv, TakenAlone, PendingCalls
<1> QED BY <1>1, <1>2 DEF ResponseChannelSafe

(***************************************************************************)
(* However calls, cancellations, late answers, the end of Serve and        *)
(* Peer.Close interleave, a response channel is sent on and closed at most *)
(* once, and is still open when Serve is about to send on it.              *)
(***************************************************************************)
THEOREM ChannelsUsedOnce == Spec => []ResponseChannelSafe
PROOF
<1>1. Init => TypeInv /\ ChanInv BY InitTyped, InitChannels
<1>2. TypeInv /\ ChanInv /\ [Next]_vars => (TypeInv /\ ChanInv)'
  BY NextTyped, NextChannels
<1>3. TypeInv /\ ChanInv => ResponseChannelSafe BY SafeToDeliver
<1> QED BY <1>1, <1>2, <1>3, PTL DEF Spec

(* No call is ever handed the answer to another one.                       *)
THEOREM AnswersOwn == Spec => []OwnAnswer
PROOF
<1>1. Init => TypeInv /\ ChanInv BY InitTyped, InitChannels
<1>2. TypeInv /\ ChanInv /\ [Next]_vars => (TypeInv /\ ChanInv)'
  BY NextTyped, NextChannels
<1>3. TypeInv /\ ChanInv => OwnAnswer BY DEF ChanInv
<1> QED BY <1>1, <1>2, <1>3, PTL DEF Spec

-----------------------------------------------------------------------------
(* What a caller that waits is waiting for.                                *)

(* The answer to a call is still to come: its request is in the pipe, its  *)
(* handler has it, or its response is in the pipe or in the hands of Serve.*)
ToCome(c) ==
    \/ \E m \in Underway(Callee(c)) : m.kind = "request" /\ m.of = c
    \/ handler[c] \in {"run", "reply"}
    \/ \E m \in Underway(Caller[c]) : m.kind = "response" /\ m.of = c
    \/ serve[Caller[c]] = "take" /\ hand[Caller[c]].of = c

InTable(c) == pending[Caller[c]][id[c]] = c

(* The channel of a call is closed, or is about to be, or the call is in   *)
(* the table and, once its request is out, its answer is still to come.    *)
Awaited(c) ==
    \/ closes[c] > 0
    \/ target[Caller[c]] = c
    \/ InTable(c) /\ (call[c] = "wait" => done \/ ToCome(c))

AwaitedInv == \A c \in Calls : call[c] \in {"send", "wait"} => Awaited(c)

(***************************************************************************)
(* A call waits for something: its channel is closed, or Serve is about to *)
(* close it, or it is among the pending calls and its answer is to come,   *)
(* unless the pipe is closed.                                              *)
(***************************************************************************)
NoWaitForgotten == \A c \in Calls : call[c] = "wait" => Awaited(c)

(* What is put into the pipe is in it, beside what was there.              *)
LEMMA PutUnderway ==
    ASSUME TypeOK, NEW x \in Sides, NEW msg \in Messages, Put(x, msg)
    PROVE  /\ msg \in Underway(x)'
           /\ \A y \in Sides : Underway(y) \subseteq Underway(y)'
PROOF
<1>1. inbox \in [Sides -> Seq(Messages)] BY DEF TypeOK
<1>2. inbox' = [inbox EXCEPT ![x] = Append(@, msg)] BY DEF Put
<1>3. inbox'[x] = Append(inbox[x], msg) /\ inbox[x] \in Seq(Messages) BY <1>1, <1>2
<1>4. Len(inbox'[x]) = Len(inbox[x]) + 1 /\ Len(inbox[x]) \in Nat BY <1>3
<1>5. /\ \A i \in 1 .. Len(inbox[x]) : inbox'[x][i] = inbox[x][i]
      /\ inbox'[x][Len(inbox[x]) + 1] = msg
  BY <1>3, <1>4
<1>6. msg \in Underway(x)' BY <1>4, <1>5 DEF Underway
<1>7. Underway(x) \subseteq Underway(x)' BY <1>4, <1>5 DEF Underway
<1>8. \A y \in Sides : y # x => inbox'[y] = inbox[y] BY <1>1, <1>2
<1> QED BY <1>6, <1>7, <1>8 DEF Underway

(* Only the first message leaves the pipe.                                 *)
LEMMA TookUnderway ==
    ASSUME TypeOK, NEW x \in Sides, inbox[x] # <<>>,
           inbox' = [inbox EXCEPT ![x] = Tail(@)]
    PROVE  \A y \in Sides :
               Underway(y) \subseteq Underway(y)' \cup IF y = x THEN {Head(inbox[x])} ELSE {}
PROOF
<1>1. inbox \in [Sides -> Seq(Messages)] BY DEF TypeOK
<1>2. inbox'[x] = Tail(inbox[x]) /\ inbox[x] \in Seq(Messages) BY <1>1
<1>3. Len(inbox'[x]) = Len(inbox[x]) - 1 /\ Len(inbox[x]) \in Nat \ {0}
  BY <1>2, EmptySeq, HeadTailProperties
<1>4. /\ Head(inbox[x]) = inbox[x][1]
      /\ \A i \in 1 .. Len(inbox'[x]) : inbox'[x][i] = inbox[x][i + 1]
  BY <1>2, <1>3
<1>5. ASSUME NEW i \in 1 .. Len(inbox[x])
      PROVE  inbox[x][i] \in Underway(x)' \cup {Head(inbox[x])}
  <2>1. CASE i = 1 BY <1>4, <2>1
  <2>2. CASE i # 1
    <3>1. i - 1 \in 1 .. Len(inbox'[x]) /\ (i - 1) + 1 = i BY <1>3, <2>2
    <3> QED BY <1>4, <3>1 DEF Underway
  <2> QED BY <2>1, <2>2
<1>6. Underway(x) \subseteq Underway(x)' \cup {Head(inbox[x])} BY <1>5 DEF Underway
<1>7. ASSUME NEW y \in Sides, y # x PROVE Underway(y)' = Underway(y)
  <2>1. inbox'[y] = inbox[y] BY <1>1, <1>7
  <2> QED BY <2>1 DEF Underway
<1> QED BY <1>6, <1>7

(* An answer that is to come is not lost by a step that leaves the call    *)
(* where it is.                                                            *)
LEMMA StillAwaited ==
    ASSUME AwaitedInv, NEW c \in Calls, call'[c] \in {"send", "wait"}, call'[c] = call[c],
           closes[c] > 0 => closes'[c] > 0,
           target[Caller[c]] = c => (target'[Caller[c]] = c \/ closes'[c] > 0),
           InTable(c) => (InTable(c)' \/ target'[Caller[c]] = c \/ closes'[c] > 0),
           done => done',
           InTable(c) /\ ToCome(c) => (ToCome(c)' \/ done' \/ target'[Caller[c]] = c)
    PROVE  Awaited(c)'
PROOF BY DEF AwaitedInv, Awaited

(* Begin registers the call under an id that no other one has.             *)
LEMMA BeginAwaits ==
    ASSUME TypeInv, AwaitedInv, NEW d \in Calls, Begin(d)
    PROVE  AwaitedInv'
PROOF
<1> DEFINE x == Caller[d]
           n == NewID(x)
<1>1. TypeOK /\ x \in Sides BY PeerAssumption DEF TypeInv
<1>2. call[d] = "idle" BY DEF Begin
<1>3. n \in Ids BY <1>2, NewIDInRange
<1>4. /\ id' = [id EXCEPT ![d] = n] /\ call' = [call EXCEPT ![d] = "send"]
      /\ pending' = [pending EXCEPT ![x][n] = d]
      /\ UNCHANGED <<inbox, done, closes, target, hand, handler, serve>>
  BY DEF Begin, Goto, NewID, chanVars, pipeVars
<1>5. /\ pending \in [Sides -> [Ids -> Calls \cup {NoCall}]]
      /\ \A c \in Calls : c # d => id'[c] = id[c] /\ call'[c] = call[c]
      /\ id'[d] = n /\ call'[d] = "send"
  BY <1>1, <1>4 DEF TypeOK
<1>6. \A y \in Sides : \A k \in Ids :
        pending'[y][k] = IF y = x /\ k = n THEN d ELSE pending[y][k]
  BY <1>1, <1>3, <1>4, <1>5
<1>7. n = nextID[x] + 1 /\ nextID[x] \in Nat BY <1>1, CounterNat DEF NewID
<1>8. ASSUME NEW c \in Calls, call'[c] \in {"send", "wait"} PROVE Awaited(c)'
  <2>1. CASE c = d
    <3>1. InTable(d)' BY <1>1, <1>3, <1>5, <1>6 DEF InTable
    <3> QED BY <1>5, <2>1, <3>1 DEF Awaited
  <2>2. CASE c # d
    <3>1. call[c] # "idle" /\ call'[c] = call[c] /\ id'[c] = id[c]
      BY <1>5, <1>8, <2>2
    <3>2. id[c] \in 1 .. nextID[Caller[c]] BY <3>1 DEF TypeInv, IdsUnique
    <3>3. id[c] \in Ids /\ Caller[c] \in Sides
      BY <1>1, <3>1, PeerAssumption DEF TypeOK
    <3>4. Caller[c] = x => id[c] # n BY <1>7, <3>2
    <3>5. pending'[Caller[c]][id'[c]] = pending[Caller[c]][id[c]]
      BY <1>6, <3>1, <3>3, <3>4
    <3>6. InTable(c) => InTable(c)' BY <3>5 DEF InTable
    <3>7. ToCome(c) => ToCome(c)' BY <1>4 DEF ToCome, Underway
    <3> QED BY <1>4, <1>8, <3>1, <3>6, <3>7, StillAwaited
  <2> QED BY <2>1, <2>2
<1> QED BY <1>8 DEF AwaitedInv

(* What a call does takes only itself out of the table.                    *)
LEMMA CallAwaits ==
    ASSUME TypeInv, AwaitedInv, NEW d \in Calls, GiveUp(d) \/ CallStep(d)
    PROVE  AwaitedInv'
PROOF
<1>1. TypeOK BY DEF TypeInv
<1>2. /\ UNCHANGED <<id, closes, target, hand, serve, handler, done>>
      /\ \A c \in Calls : c # d => call'[c] = call[c]
      /\ call[d] # "idle"
  BY <1>1
  DEF GiveUp, CallStep, SendRequest, DeletePending, SendCancel, ReturnAnswer, Returns, Goto,
      chanVars, pipeVars, TypeOK
<1>3. pending \in [Sides -> [Ids -> Calls \cup {NoCall}]] BY <1>1 DEF TypeOK
<1>4. \A y \in Sides : Underway(y) \subseteq Underway(y)'
  <2>1. CASE UNCHANGED inbox BY <2>1 DEF Underway
  <2>2. CASE SendRequest(d) \/ SendCancel(d)
    <3>1. Msg("request", id[d], d) \in Messages /\ Msg("cancel", id[d], d) \in Messages
      BY <1>1, <1>2 DEF Msg, Messages, Kinds, TypeOK
    <3>2. Callee(d) \in Sides BY CalleeSide
    <3> QED
      BY <1>1, <2>1, <2>2, <3>1, <3>2, PutUnderway DEF SendRequest, SendCancel, SendFails
  <2> QED
    BY <2>1, <2>2 DEF GiveUp, CallStep, DeletePending, ReturnAnswer, pipeVars
<1>5. ASSUME NEW c \in Calls, call'[c] \in {"send", "wait"} PROVE Awaited(c)'
  <2>1. CASE c = d
    <3>1. SendRequest(d) /\ call[d] = "send" /\ call'[d] = "wait"
          /\ Put(Callee(d), Msg("request", id[d], d))
      BY <1>1, <1>5, <2>1
      DEF GiveUp, CallStep, SendRequest, DeletePending, SendCancel, ReturnAnswer, Returns,
          Goto, TypeOK
    <3>2. Msg("request", id[d], d) \in Messages
      BY <1>1, <1>2 DEF Msg, Messages, Kinds, TypeOK
    <3>3. Msg("request", id[d], d) \in Underway(Callee(d))'
      BY <1>1, <3>1, <3>2, CalleeSide, PutUnderway
    <3>4. ToCome(d)' BY <3>3 DEF ToCome, Msg, Callee
    <3>5. UNCHANGED pending BY <3>1 DEF SendRequest
    <3>6. InTable(d) => InTable(d)' BY <1>2, <3>5 DEF InTable
    <3> QED BY <1>2, <2>1, <3>1, <3>4, <3>6 DEF AwaitedInv, Awaited
  <2>2. CASE c # d
    <3>1. call'[c] = call[c] /\ call[c] # "idle" BY <1>2, <1>5, <2>2
    <3>2. ToCome(c) => ToCome(c)'
      <4>1. Callee(c) \in Sides /\ Caller[c] \in Sides BY CalleeSide, PeerAssumption
      <4> QED BY <1>2, <1>4, <4>1 DEF ToCome, Callee
    <3>3. InTable(c) => InTable(c)'
      <4>1. CASE UNCHANGED pending BY <1>2, <4>1 DEF InTable
      <4>2. CASE DeletePending(d)
        <5>1. pending' = [pending EXCEPT ![Caller[d]][id[d]] = NoCall]
          BY <4>2 DEF DeletePending
        <5>2. Caller[c] \in Sides /\ id[c] \in Ids
          BY <1>1, <3>1, PeerAssumption DEF TypeOK
        <5>3. ~(Caller[c] = Caller[d] /\ id[c] = id[d])
          BY <1>2, <2>2, <3>1 DEF TypeInv, IdsUnique
        <5>4. pending'[Caller[c]][id[c]] = pending[Caller[c]][id[c]]
          BY <1>3, <5>1, <5>2, <5>3
        <5> QED BY <1>2, <5>4 DEF InTable
      <4>3. UNCHANGED pending \/ DeletePending(d)
        BY DEF GiveUp, CallStep, SendRequest, SendCancel, ReturnAnswer
      <4> QED BY <4>1, <4>2, <4>3
    <3> QED BY <1>2, <1>5, <3>1, <3>2, <3>3, StillAwaited
  <2> QED BY <2>1, <2>2
<1> QED BY <1>5 DEF AwaitedInv

(* A handler that has answered has put the answer into the pipe.           *)
LEMMA HandlerAwaits ==
    ASSUME TypeInv, AwaitedInv, NEW d \in Calls, HandlerStep(d)
    PROVE  AwaitedInv'
PROOF
<1>1. TypeOK BY DEF TypeInv
<1>2. UNCHANGED <<call, id, closes, target, hand, serve, pending, done>>
  BY DEF HandlerStep, HandlerEnds, SendResponse, pipeVars, callVars, chanVars
<1>3. \A c \in Calls : c # d => handler'[c] = handler[c]
  BY <1>1 DEF HandlerStep, HandlerEnds, SendResponse, TypeOK
<1>4. Caller[d] \in Sides /\ call[d] # "idle" /\ id[d] \in Ids
  BY <1>1, PeerAssumption DEF HandlerStep, HandlerEnds, SendResponse, TypeInv, HandlersOK, TypeOK
<1>5. Msg("response", id[d], d) \in Messages BY <1>4 DEF Msg, Messages, Kinds
<1>6. \A y \in Sides : Underway(y) \subseteq Underway(y)'
  <2>1. CASE UNCHANGED inbox BY <2>1 DEF Underway
  <2>2. CASE SendResponse(d)
    BY <1>1, <1>4, <1>5, <2>1, <2>2, PutUnderway DEF SendResponse, SendFails
  <2> QED BY <2>1, <2>2 DEF HandlerStep, HandlerEnds, pipeVars
<1>7. ToCome(d)' \/ done'
  <2>1. CASE HandlerEnds(d)
    <3>1. handler'[d] = "reply" BY <1>1, <2>1 DEF HandlerEnds, TypeOK
    <3> QED BY <3>1 DEF ToCome
  <2>2. CASE SendResponse(d)
    <3>1. CASE Put(Caller[d], Msg("response", id[d], d))
      <4>1. Msg("response", id[d], d) \in Underway(Caller[d])'
        BY <1>1, <1>4, <1>5, <3>1, PutUnderway
      <4> QED BY <4>1 DEF ToCome, Msg
    <3>2. CASE SendFails BY <1>2, <3>2 DEF SendFails
    <3> QED BY <2>2, <3>1, <3>2 DEF SendResponse
  <2> QED BY <2>1, <2>2 DEF HandlerStep
<1>8. ASSUME NEW c \in Calls, call'[c] \in {"send", "wait"} PROVE Awaited(c)'
  <2>1. ToCome(c) => ToCome(c)' \/ done'
    <3>1. CASE c = d BY <1>7, <3>1
    <3>2. CASE c # d
      <4>1. Callee(c) \in Sides /\ Caller[c] \in Sides BY CalleeSide, PeerAssumption
      <4> QED BY <1>2, <1>3, <1>6, <3>2, <4>1 DEF ToCome, Callee
    <3> QED BY <3>1, <3>2
  <2>2. InTable(c) => InTable(c)' BY <1>2 DEF InTable
  <2> QED BY <1>2, <1>8, <2>1, <2>2, StillAwaited
<1> QED BY <1>8 DEF AwaitedInv

(* Serve turns a request into a handler, and takes a response in hand.     *)
LEMMA ReceiveAwaits ==
    ASSUME TypeInv, AwaitedInv, NEW x \in Sides, ServeRequest(x) \/ ServeOther(x)
    PROVE  AwaitedInv'
PROOF
<1> DEFINE m == Head(inbox[x])
<1>1. TypeOK BY DEF TypeInv
<1>2. /\ UNCHANGED <<call, id, closes, target, pending, done>>
      /\ serve[x] = "receive" /\ inbox[x] # <<>>
      /\ inbox' = [inbox EXCEPT ![x] = Tail(@)]
      /\ hand' = [hand EXCEPT ![x] = m]
  BY DEF ServeRequest, ServeOther, callVars, chanVars
<1>3. m \in Messages BY <1>1, <1>2, TookTyped
<1>4. \A y \in Sides : Underway(y) \subseteq Underway(y)' \cup IF y = x THEN {m} ELSE {}
  BY <1>1, <1>2, TookUnderway
<1>5. m.kind = "request" => handler'[m.of] = "run"
  BY <1>1, <1>3 DEF ServeRequest, ServeOther, Messages, TypeOK
<1>6. \A c \in Calls : handler'[c] \in {handler[c], "run"}
  BY <1>1, <1>3 DEF ServeRequest, ServeOther, Messages, TypeOK
<1>7. m.kind = "response" => serve'[x] = "take" /\ hand'[x] = m
  BY <1>1, <1>2 DEF ServeRequest, ServeOther, GotoServe, TypeOK
<1>8. \A y \in Sides : y # x => serve'[y] = serve[y] /\ hand'[y] = hand[y]
  BY <1>1, <1>2 DEF ServeRequest, ServeOther, GotoServe, TypeOK
<1> HIDE DEF m
<1>9. ASSUME NEW c \in Calls, call'[c] \in {"send", "wait"} PROVE Awaited(c)'
  <2>1. ASSUME ToCome(c) PROVE ToCome(c)'
    <3>0. Callee(c) \in Sides /\ Caller[c] \in Sides BY CalleeSide, PeerAssumption
    <3>1. CASE \E r \in Underway(Callee(c)) : r.kind = "request" /\ r.of = c
      <4>1. PICK r \in Underway(Callee(c)) : r.kind = "request" /\ r.of = c BY <3>1
      <4>2. r = m \/ r \in Underway(Callee(c))' BY <1>4, <3>0, <4>1
      <4>3. CASE r = m BY <1>5, <4>1, <4>3 DEF ToCome
      <4>4. CASE r \in Underway(Callee(c))' BY <4>1, <4>4 DEF ToCome, Callee
      <4> QED BY <4>2, <4>3, <4>4
    <3>2. CASE handler[c] \in {"run", "reply"} BY <1>6, <3>2 DEF ToCome
    <3>3. CASE \E r \in Underway(Caller[c]) : r.kind = "response" /\ r.of = c
      <4>1. PICK r \in Underway(Caller[c]) : r.kind = "response" /\ r.of = c BY <3>3
      <4>2. (r = m /\ Caller[c] = x) \/ r \in Underway(Caller[c])' BY <1>4, <3>0, <4>1
      <4>3. CASE r = m /\ Caller[c] = x BY <1>7, <4>1, <4>3 DEF ToCome
      <4>4. CASE r \in Underway(Caller[c])' BY <4>1, <4>4 DEF ToCome
      <4> QED BY <4>2, <4>3, <4>4
    <3>4. CASE serve[Caller[c]] = "take" /\ hand[Caller[c]].of = c
      <4>1. Caller[c] # x BY <1>2, <3>4
      <4> QED BY <1>8, <3>0, <3>4, <4>1 DEF ToCome
    <3> QED BY <2>1, <3>1, <3>2, <3>3, <3>4 DEF ToCome
  <2>2. InTable(c) => InTable(c)' BY <1>2 DEF InTable
  <2> QED BY <1>2, <1>9, <2>1, <2>2, StillAwaited
<1> QED BY <1>9 DEF AwaitedInv

(* The call whose response Serve has in hand is the one it takes out of the*)
(* table.                                                                  *)
LEMMA TakeAwaits ==
    ASSUME TypeInv, AwaitedInv, NEW x \in Sides, TakePending(x)
    PROVE  AwaitedInv'
PROOF
<1> DEFINE n == hand[x].id
<1>1. TypeOK BY DEF TypeInv
<1>2. /\ hand[x] \in Messages /\ target[x] = NoCall /\ serve[x] = "take"
      /\ hand[x].kind = "response"
  BY DEF TakePending, TypeInv, ServeOK
<1>3. n \in Ids BY <1>2 DEF Messages
<1>4. /\ pending \in [Sides -> [Ids -> Calls \cup {NoCall}]]
      /\ target \in [Sides -> Calls \cup {NoCall}]
  BY <1>1 DEF TypeOK
<1>5. /\ target' = [target EXCEPT ![x] = pending[x][n]]
      /\ pending' = [pending EXCEPT ![x][n] = NoCall]
      /\ UNCHANGED <<inbox, done, id, call, closes, hand, handler>>
      /\ \A y \in Sides : y # x => serve'[y] = serve[y]
  BY <1>1 DEF TakePending, Taken, GotoServe, pipeVars, callVars, chanVars, TypeOK
<1>6. /\ \A y \in Sides : \A k \in Ids :
           pending'[y][k] = IF y = x /\ k = n THEN NoCall ELSE pending[y][k]
      /\ target'[x] = pending[x][n]
      /\ \A y \in Sides : y # x => target'[y] = target[y]
  BY <1>3, <1>4, <1>5
<1>7. NoCall \notin Calls BY PeerAssumption
<1>8. Genuine(x, hand[x]) BY <1>2 DEF TypeInv, MessagesOK, NoMessage
<1> HIDE DEF n
<1>9. ASSUME NEW c \in Calls, call'[c] \in {"send", "wait"} PROVE Awaited(c)'
  <2>0. Caller[c] \in Sides /\ id[c] \in Ids
    BY <1>1, <1>5, <1>9, PeerAssumption DEF TypeOK
  <2>1. CASE Caller[c] = x /\ id[c] = n
    <3>1. InTable(c) => target'[x] = c BY <1>6, <2>1 DEF InTable
    <3> QED BY <1>2, <1>5, <1>7, <1>9, <2>1, <3>1, StillAwaited
  <2>2. CASE ~(Caller[c] = x /\ id[c] = n)
    <3>1. InTable(c) => InTable(c)' BY <1>5, <1>6, <2>0, <2>2 DEF InTable
    <3>2. ~(Caller[c] = x /\ hand[x].of = c) BY <1>8, <2>2 DEF Genuine, n
    <3>3. ToCome(c) => ToCome(c)'
      BY <1>5, <2>0, <3>2 DEF ToCome, Underway
    <3>4. target[Caller[c]] = c => target'[Caller[c]] = c BY <1>2, <1>6, <1>7, <2>0
    <3> QED BY <1>5, <1>9, <3>1, <3>3, <3>4, StillAwaited
  <2> QED BY <2>1, <2>2
<1> QED BY <1>9 DEF AwaitedInv

(* Delivering closes the channel.                                          *)
LEMMA DeliverAwaits ==
    ASSUME TypeInv, AwaitedInv, NEW x \in Sides, Deliver(x)
    PROVE  AwaitedInv'
PROOF
<1>1. TypeOK BY DEF TypeInv
<1>2. /\ target \in [Sides -> Calls \cup {NoCall}] /\ closes \in [Calls -> Nat]
      /\ serve[x] = "deliver" /\ target[x] # NoCall
  BY <1>1 DEF TypeOK, Deliver, TypeInv, ServeOK
<1>3. /\ closes' = [closes EXCEPT ![target[x]] = @ + 1]
      /\ UNCHANGED <<inbox, done, id, call, pending, handler>>
      /\ \A y \in Sides : y # x => /\ serve'[y] = serve[y] /\ hand'[y] = hand[y]
                                   /\ target'[y] = target[y]
  BY <1>1 DEF Deliver, GotoServe, pipeVars, callVars, TypeOK
<1>4. /\ closes'[target[x]] > 0
      /\ \A c \in Calls : closes[c] > 0 => closes'[c] > 0
  BY <1>2, <1>3
<1>5. ASSUME NEW c \in Calls, call'[c] \in {"send", "wait"} PROVE Awaited(c)'
  <2>0. Caller[c] \in Sides BY PeerAssumption
  <2>1. InTable(c) => InTable(c)' BY <1>3 DEF InTable
  <2>2. ToCome(c) => ToCome(c)' BY <1>2, <1>3, <2>0 DEF ToCome, Underway
  <2>3. target[Caller[c]] = c => (target'[Caller[c]] = c \/ closes'[c] > 0)
    BY <1>3, <1>4, <2>0
  <2> QED BY <1>3, <1>4, <1>5, <2>1, <2>2, <2>3, StillAwaited
<1> QED BY <1>5 DEF AwaitedInv

(* failPending closes the channels of the calls that were in the table.    *)
LEMMA FailAwaits ==
    ASSUME TypeInv, AwaitedInv, NEW x \in Sides, FailPending(x),
           UNCHANGED <<inbox, done, id, call, target, hand, handler>>,
           \A y \in Sides : serve[y] = "take" => serve'[y] = "take"
    PROVE  AwaitedInv'
PROOF
<1>1. TypeOK BY DEF TypeInv
<1>2. /\ pending \in [Sides -> [Ids -> Calls \cup {NoCall}]] /\ closes \in [Calls -> Nat]
  BY <1>1 DEF TypeOK
<1>3. /\ \A y \in Sides : \A k \in Ids :
           y # x => pending'[y][k] = pending[y][k]
      /\ \A c \in Calls : closes'[c] = closes[c] + IF c \in PendingCalls(x) THEN 1 ELSE 0
  BY <1>2 DEF FailPending
<1>4. ASSUME NEW c \in Calls, call'[c] \in {"send", "wait"} PROVE Awaited(c)'
  <2>0. Caller[c] \in Sides /\ id[c] \in Ids
    BY <1>1, <1>4, PeerAssumption DEF TypeOK
  <2>1. closes[c] > 0 => closes'[c] > 0 BY <1>2, <1>3
  <2>2. InTable(c) => (InTable(c)' \/ closes'[c] > 0)
    <3>1. CASE Caller[c] = x
      <4>1. InTable(c) => c \in PendingCalls(x) BY <2>0, <3>1 DEF InTable, PendingCalls
      <4>2. c \in PendingCalls(x) => closes'[c] > 0 BY <1>2, <1>3
      <4> QED BY <4>1, <4>2
    <3>2. CASE Caller[c] # x BY <1>3, <2>0, <3>2 DEF InTable
    <3> QED BY <3>1, <3>2
  <2>3. ToCome(c) => ToCome(c)' BY <2>0 DEF ToCome, Underway
  <2> QED BY <1>4, <2>1, <2>2, <2>3, StillAwaited
<1> QED BY <1>4 DEF AwaitedInv

(* The steps of Serve and Close that touch no call.                        *)
LEMMA QuietAwaits ==
    ASSUME TypeInv, AwaitedInv,
           UNCHANGED <<inbox, call, id, closes, target, pending, handler>>, done => done',
           \A y \in Sides : serve[y] = "take" => serve'[y] = "take" /\ hand'[y] = hand[y]
    PROVE  AwaitedInv'
PROOF
<1>1. ASSUME NEW c \in Calls, call'[c] \in {"send", "wait"} PROVE Awaited(c)'
  <2>0. Caller[c] \in Sides BY PeerAssumption
  <2>1. InTable(c) => InTable(c)' BY DEF InTable
  <2>2. ToCome(c) => ToCome(c)' BY <2>0 DEF ToCome, Underway
  <2> QED BY <1>1, <2>1, <2>2, StillAwaited
<1> QED BY <1>1 DEF AwaitedInv

(* Every step keeps what a caller waits for.                               *)
LEMMA NextAwaits == TypeInv /\ AwaitedInv /\ [Next]_vars => AwaitedInv'
PROOF
<1> SUFFICES ASSUME TypeInv, AwaitedInv, [Next]_vars PROVE AwaitedInv' OBVIOUS
<1>1. CASE UNCHANGED vars
  BY <1>1, QuietAwaits DEF vars, pipeVars, callVars, chanVars
<1>2. ASSUME NEW x \in Sides,
             NotificationHandled(x) \/ ReceiveFails(x) \/ ServeCancelled(x) \/ ClosePipe(x)
      PROVE  AwaitedInv'
  <2>1. /\ UNCHANGED <<inbox, call, id, closes, target, pending, handler>>
        /\ done => done'
    BY <1>2
    DEF NotificationHandled, ReceiveFails, ServeCancelled, ClosePipe, pipeVars, callVars,
        chanVars
  <2>2. \A y \in Sides : serve[y] = "take" => serve'[y] = "take" /\ hand'[y] = hand[y]
    BY <1>2
    DEF NotificationHandled, ReceiveFails, ServeCancelled, ClosePipe, GotoServe, TypeInv,
        TypeOK
  <2> QED BY <2>1, <2>2, QuietAwaits
<1>3. ASSUME NEW x \in Sides, ServeEnds(x) \/ CloseFails(x) PROVE AwaitedInv'
  <2>1. \A y \in Sides : serve[y] = "take" => serve'[y] = "take"
    BY <1>3 DEF ServeEnds, CloseFails, GotoServe, TypeInv, TypeOK
  <2> QED BY <1>3, <2>1, FailAwaits DEF ServeEnds, CloseFails, pipeVars, callVars
<1>4. CASE Next
  BY <1>2, <1>3, <1>4, BeginAwaits, CallAwaits, HandlerAwaits, ReceiveAwaits, TakeAwaits,
     DeliverAwaits
  DEF Next, ServeStep
<1> QED BY <1>1, <1>4

(***************************************************************************)
(* No caller is forgotten, however calls, cancellations, the end of Serve  *)
(* and Peer.Close interleave: while the pipe is open, a Call that waits is *)
(* among the pending ones and its request, its handler or its response is  *)
(* under way, or its channel is closed or about to be.                     *)
(***************************************************************************)
THEOREM CallersRemembered == Spec => []NoWaitForgotten
PROOF
<1>1. Init => TypeInv /\ AwaitedInv BY InitTyped DEF Init, AwaitedInv
<1>2. TypeInv /\ AwaitedInv /\ [Next]_vars => (TypeInv /\ AwaitedInv)'
  BY NextTyped, NextAwaits
<1>3. TypeInv /\ AwaitedInv => NoWaitForgotten BY DEF AwaitedInv, NoWaitForgotten
<1> QED BY <1>1, <1>2, <1>3, PTL DEF Spec
=============================================================================
