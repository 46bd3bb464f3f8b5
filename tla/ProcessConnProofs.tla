------------------------- MODULE ProcessConnProofs -------------------------
(***************************************************************************)
(* Proofs about a stdio.Conn to an agent process: type correctness, order, *)
(* and what the caller of Receive may conclude from its error, for any     *)
(* number of lines, any buffer and any number of concurrent Sends.         *)
(***************************************************************************)
EXTENDS ProcessConn, SequenceTheorems, TLAPS

-----------------------------------------------------------------------------
(* The inductive invariant.                                                *)

(* Lines are numbered one after the other from first on.                   *)
Numbered(q, first) == \A i \in 1 .. Len(q) : q[i].n = first + i

(* What readLoop holds while it waits for room in msgs.                    *)
InHand == IF reader = "offer" THEN 1 ELSE 0

(* While readLoop offers a line, it holds one.                             *)
TypeInv == TypeOK /\ (reader = "offer" => line \in Lines)

(* What is in msgs follows what was received and ends with what was put    *)
(* there last, also when readLoop has ended with a line in its hand.       *)
BufferInOrder ==
    /\ Len(msgs) = enqueued - received
    /\ Numbered(msgs, received)

(* The line in hand is the next one for msgs, and what is left in the pipe *)
(* follows.  A line that readLoop did not accept is missing, but then      *)
(* readLoop has ended.                                                     *)
ReaderInOrder ==
    /\ reader = "offer" => line.n = enqueued + 1
    /\ reader # "ended" =>
         /\ Len(in) = written - enqueued - InHand
         /\ Numbered(in, enqueued + InHand)

(* The first error is there when the connection is closed, and what was in *)
(* msgs then still is, or was received.                                    *)
ClosedOnce ==
    /\ err = "none" <=> ~done
    /\ done => before <= enqueued

(* Receive fails only after it has found msgs empty and done closed.       *)
ReceiverOrder ==
    /\ receiver # "report"
    /\ receiver = "drain" => done
    /\ (receiver = "failed" /\ connErr # "cancelled") => done /\ received >= before

(* When readLoop has seen the end of the pipe, nothing is left in it, and  *)
(* nothing is added.                                                       *)
EndSeen ==
    /\ err = "EOF" => inState # "open" /\ reader = "ended" /\ enqueued = written
    /\ connErr = "EOF" => err = "EOF" /\ msgs = <<>>

OrderInv == BufferInOrder /\ ReaderInOrder
CloseInv == ClosedOnce /\ ReceiverOrder /\ EndSeen

PipelineInv == TypeInv /\ OrderInv /\ CloseInv

-----------------------------------------------------------------------------
(* The steps.                                                              *)

(* Every step of the program is one of these, and the steps of callers of  *)
(* Send and of Close touch nothing but the flags below.                    *)
LEMMA StepCases ==
    ASSUME Next
    PROVE  \/ \E ok \in BOOLEAN : PeerWrites(ok) /\ UNCHANGED processVars
           \/ PeerEnds /\ UNCHANGED processVars
           \/ ReadLoop /\ UNCHANGED processVars
           \/ (ReceiveStep \/ ReceiveCancelled) /\ UNCHANGED processVars
           \/ \E s \in Senders : (SendChecks(s) \/ SendWrites(s)) /\ UNCHANGED processVars
           \/ \E x \in Closers : CloseStep(x) /\ UNCHANGED processVars
           \/ \E how \in {"clean", "failure"} : AgentExits(how)
           \/ WaiterStep \/ OwnerCloses \/ Report \/ ReportCancelled
PROOF BY Zenon DEF Next, StdioNext

-----------------------------------------------------------------------------
(* Type correctness.                                                       *)

LEMMA ProcessTypeInit == Init => TypeInv
PROOF
<1>1. 0 \in 0 .. MaxLines BY StdioAssumption
<1>2. <<>> \in Seq(Lines) /\ Len(<<>>) <= MsgBuffer BY StdioAssumption
<1> QED BY <1>1, <1>2 DEF Init, StdioInit, TypeInv, TypeOK, StdioTypeOK

(* Closing stores a known error and a known line number.                   *)
LEMMA CloseWithTyped ==
    ASSUME TypeInv, NEW e \in {"EOF", "readClosed", "invalid", "write", "ErrClosedPipe"},
           CloseWith(e)
    PROVE  /\ done' \in BOOLEAN
           /\ err' \in {"none", "EOF", "readClosed", "invalid", "write", "ErrClosedPipe"}
           /\ before' \in 0 .. MaxLines
PROOF BY DEF TypeInv, TypeOK, StdioTypeOK, CloseWith, closeVars

(* The other side and readLoop.                                            *)
LEMMA PipeTyped ==
    ASSUME TypeInv, UNCHANGED processVars,
           (\E ok \in BOOLEAN : PeerWrites(ok)) \/ PeerEnds \/ ReadLoop
    PROVE  TypeInv'
PROOF
<1>1. MaxLines \in Nat BY StdioAssumption
<1> USE DEF connVars, inVars, readerVars, closeVars, recvVars, processVars, TypeInv
<1>2. ASSUME NEW ok \in BOOLEAN, PeerWrites(ok) PROVE TypeInv'
  <2>1. written' \in 1 .. MaxLines BY <1>1, <1>2 DEF PeerWrites, TypeOK, StdioTypeOK
  <2>2. Line(written', ok) \in Lines BY <2>1 DEF Line, Lines
  <2>3. in' \in Seq(Lines)
    BY <1>2, <2>2, AppendProperties DEF PeerWrites, TypeOK, StdioTypeOK
  <2> QED BY <1>2, <2>1, <2>3 DEF PeerWrites, TypeOK, StdioTypeOK
<1>3. CASE PeerEnds BY <1>3 DEF PeerEnds, TypeOK, StdioTypeOK
<1>4. CASE ReadNext
  <2>1. in' \in Seq(Lines) /\ Head(in) \in Lines
    BY <1>4, HeadTailProperties DEF ReadNext, TypeOK, StdioTypeOK
  <2>2. CASE Head(in).ok BY <1>4, <2>1, <2>2 DEF ReadNext, TypeOK, StdioTypeOK
  <2>3. CASE ~Head(in).ok
    BY <1>4, <2>1, <2>3, CloseWithTyped DEF ReadNext, TypeOK, StdioTypeOK
  <2> QED BY <2>2, <2>3
<1>5. CASE ReadFails
  <2>1. CloseWith("EOF") \/ CloseWith("readClosed") BY <1>5 DEF ReadFails
  <2> QED BY <1>5, <2>1, CloseWithTyped DEF ReadFails, TypeOK, StdioTypeOK
<1>6. CASE Offer
  <2>1. CASE NoRoom BY <1>6, <2>1 DEF Offer, NoRoom, TypeOK, StdioTypeOK
  <2>2. CASE ~NoRoom
    <3>1. /\ Len(msgs) < MsgBuffer /\ msgs' = Append(msgs, line) /\ enqueued' = line.n
          /\ reader' = "read" /\ line' = NoLine /\ reader = "offer"
          /\ UNCHANGED <<inVars, closeVars, recvVars, sender, outState, closer>>
      BY <1>6, <2>2 DEF Offer
    <3>2. line \in Lines /\ msgs \in Seq(Lines) BY <3>1 DEF TypeOK, StdioTypeOK
    <3>3. /\ msgs' \in Seq(Lines) /\ Len(msgs') = Len(msgs) + 1
      BY <3>1, <3>2, AppendProperties
    <3>4. Len(msgs) \in Nat /\ MsgBuffer \in Nat BY <3>2, StdioAssumption, LenProperties
    <3>5. Len(msgs') <= MsgBuffer BY <3>1, <3>3, <3>4
    <3>6. enqueued' \in 0 .. MaxLines BY <1>1, <3>1, <3>2 DEF Lines
    <3> QED BY <3>1, <3>3, <3>5, <3>6 DEF TypeOK, StdioTypeOK
  <2> QED BY <2>1, <2>2
<1> QED BY <1>2, <1>3, <1>4, <1>5, <1>6 DEF ReadLoop

(* Receive.                                                                *)
LEMMA ReceiveTyped ==
    ASSUME TypeInv, UNCHANGED processVars, ReceiveStep \/ ReceiveCancelled
    PROVE  TypeInv'
PROOF
<1> USE DEF connVars, inVars, readerVars, closeVars, recvVars, processVars, TypeInv
<1>1. CASE ReceiveMessage
  <2>1. msgs \in Seq(Lines) /\ msgs # <<>> BY <1>1 DEF ReceiveMessage, TypeOK, StdioTypeOK
  <2>2. /\ Head(msgs) \in Lines /\ Tail(msgs) \in Seq(Lines)
        /\ Len(Tail(msgs)) = Len(msgs) - 1
    BY <2>1, HeadTailProperties
  <2>3. Len(msgs) \in Nat /\ MsgBuffer \in Nat /\ MaxLines \in Nat
    BY <2>1, StdioAssumption, LenProperties
  <2>4. Len(msgs') <= MsgBuffer
    BY <1>1, <2>2, <2>3 DEF ReceiveMessage, TypeOK, StdioTypeOK
  <2>5. received' \in 0 .. MaxLines BY <1>1, <2>2, <2>3 DEF ReceiveMessage, Lines
  <2> QED BY <1>1, <2>2, <2>4, <2>5 DEF ReceiveMessage, TypeOK, StdioTypeOK
<1>2. CASE ReceiveDone BY <1>2 DEF ReceiveDone, OnDone, TypeOK, StdioTypeOK
<1>3. CASE ReceiveFails BY <1>3 DEF ReceiveFails, CloseErr, TypeOK, StdioTypeOK
<1>4. CASE ReceiveCancelled BY <1>4 DEF ReceiveCancelled, TypeOK, StdioTypeOK
<1> QED BY <1>1, <1>2, <1>3, <1>4 DEF ReceiveStep

(* Send and Close.                                                         *)
LEMMA CallersTyped ==
    ASSUME TypeInv, UNCHANGED processVars,
           \/ \E s \in Senders : SendChecks(s) \/ SendWrites(s)
           \/ \E x \in Closers : CloseStep(x)
    PROVE  TypeInv'
PROOF
<1> USE DEF connVars, inVars, readerVars, closeVars, recvVars, processVars, TypeInv
<1>1. ASSUME NEW s \in Senders, SendChecks(s) PROVE TypeInv'
  <2>1. sender' \in [Senders -> {"idle", "write", "returned", "failed"}]
    BY <1>1 DEF SendChecks, GotoSender, TypeOK, StdioTypeOK
  <2> QED BY <1>1, <2>1 DEF SendChecks, TypeOK, StdioTypeOK
<1>2. ASSUME NEW s \in Senders, SendWrites(s) PROVE TypeInv'
  <2>1. sender' \in [Senders -> {"idle", "write", "returned", "failed"}]
    BY <1>2 DEF SendWrites, GotoSender, TypeOK, StdioTypeOK
  <2>2. UNCHANGED closeVars \/ CloseWith("write") BY <1>2 DEF SendWrites
  <2> QED BY <1>2, <2>1, <2>2, CloseWithTyped DEF SendWrites, TypeOK, StdioTypeOK
<1>3. ASSUME NEW x \in Closers, CloseIn(x) PROVE TypeInv'
  BY <1>3 DEF CloseIn, TypeOK, StdioTypeOK
<1>4. ASSUME NEW x \in Closers, CloseOut(x) PROVE TypeInv'
  BY <1>4 DEF CloseOut, TypeOK, StdioTypeOK
<1> QED BY <1>1, <1>2, <1>3, <1>4 DEF CloseStep

(* A Close begins.                                                         *)
LEMMA CloseBeginsTyped ==
    ASSUME TypeInv, NEW x \in Closers, CloseBegins(x)
    PROVE  StdioTypeOK' /\ (reader' = "offer" => line' \in Lines)
PROOF BY CloseWithTyped DEF CloseBegins, TypeInv, TypeOK, StdioTypeOK, inVars, readerVars,
                            recvVars

(* The process, the goroutine that waits for it, and the owner.            *)
LEMMA ProcessTyped ==
    ASSUME TypeInv,
           \/ \E how \in {"clean", "failure"} : AgentExits(how)
           \/ WaiterStep \/ OwnerCloses \/ Report \/ ReportCancelled
    PROVE  TypeInv'
PROOF
<1> USE DEF connVars, inVars, readerVars, closeVars, recvVars, processVars
<1>1. ASSUME NEW how \in {"clean", "failure"}, AgentExits(how) PROVE TypeInv'
  BY <1>1 DEF AgentExits, TypeInv, TypeOK, StdioTypeOK
<1>2. CASE WaitReturns BY <1>2 DEF WaitReturns, TypeInv, TypeOK, StdioTypeOK
<1>3. CASE WaitStored BY <1>3 DEF WaitStored, TypeInv, TypeOK, StdioTypeOK
<1>4. CASE WaiterCloses
  <2>1. Waiter \in Closers BY ProcessAssumption
  <2> QED BY <1>4, <2>1, CloseBeginsTyped DEF WaiterCloses, TypeInv, TypeOK
<1>5. CASE OwnerCloses
  <2>1. Owner \in Closers BY ProcessAssumption
  <2> QED BY <1>5, <2>1, CloseBeginsTyped DEF OwnerCloses, TypeInv, TypeOK
<1>6. CASE Report BY <1>6 DEF Report, ProcessError, TypeInv, TypeOK, StdioTypeOK
<1>7. CASE ReportCancelled BY <1>7 DEF ReportCancelled, TypeInv, TypeOK, StdioTypeOK
<1> QED BY <1>1, <1>2, <1>3, <1>4, <1>5, <1>6, <1>7 DEF WaiterStep

(* Every step keeps the variables in their domains and the line that is    *)
(* offered a line.                                                         *)
LEMMA ProcessTypeNext ==
    ASSUME TypeInv, [Next]_vars
    PROVE  TypeInv'
PROOF
<1>1. CASE UNCHANGED vars
  BY <1>1 DEF vars, connVars, inVars, readerVars, closeVars, recvVars, processVars,
              TypeInv, TypeOK, StdioTypeOK
<1>2. CASE Next
  BY <1>2, StepCases, PipeTyped, ReceiveTyped, CallersTyped, ProcessTyped, Zenon
<1> QED BY <1>1, <1>2

(* Every variable stays in its domain, however many lines, callers of Send *)
(* and places in msgs there are.                                           *)
THEOREM ProcessTypeCorrect == Spec => []TypeOK
PROOF
<1>1. TypeInv => TypeOK BY DEF TypeInv
<1> QED BY <1>1, ProcessTypeInit, ProcessTypeNext, PTL DEF Spec

-----------------------------------------------------------------------------
(* Order.                                                                  *)

(* The lengths and counters that the order is about.                       *)
LEMMA Counters ==
    ASSUME TypeInv
    PROVE  /\ in \in Seq(Lines) /\ msgs \in Seq(Lines)
           /\ {written, enqueued, received, before, Len(in), Len(msgs)} \subseteq Nat
           /\ \A m \in Lines : m.n \in Nat
PROOF BY StdioAssumption, LenProperties DEF TypeInv, TypeOK, StdioTypeOK, Lines

(* Numbering goes on when the next line is appended.                       *)
LEMMA NumberedAppend ==
    ASSUME NEW q \in Seq(Lines), NEW first \in Nat, NEW m \in Lines,
           Numbered(q, first), m.n = first + Len(q) + 1
    PROVE  Numbered(Append(q, m), first)
PROOF
<1>1. /\ Len(Append(q, m)) = Len(q) + 1
      /\ \A i \in 1 .. Len(q) : Append(q, m)[i] = q[i]
      /\ Append(q, m)[Len(q) + 1] = m
  BY AppendProperties
<1>2. Len(q) \in Nat BY LenProperties
<1>3. SUFFICES ASSUME NEW i \in 1 .. Len(q) + 1 PROVE Append(q, m)[i].n = first + i
  BY <1>1 DEF Numbered
<1>4. CASE i = Len(q) + 1 BY <1>1, <1>2, <1>4
<1>5. CASE i # Len(q) + 1 BY <1>1, <1>2, <1>5 DEF Numbered
<1> QED BY <1>4, <1>5

(* Without its first line, a numbered sequence starts one later.           *)
LEMMA NumberedTail ==
    ASSUME NEW q \in Seq(Lines), NEW first \in Nat, Numbered(q, first), q # <<>>
    PROVE  /\ Head(q) \in Lines /\ Head(q).n = first + 1
           /\ Len(Tail(q)) = Len(q) - 1
           /\ Numbered(Tail(q), first + 1)
PROOF
<1>1. /\ Tail(q) \in Seq(Lines) /\ Len(Tail(q)) = Len(q) - 1
      /\ \A i \in 1 .. Len(Tail(q)) : Tail(q)[i] = q[i + 1]
      /\ Head(q) = q[1] /\ Head(q) \in Lines
  BY HeadTailProperties
<1>2. Len(q) \in Nat /\ Len(q) # 0 BY LenProperties, EmptySeq
<1>3. Head(q).n = first + 1 BY <1>1, <1>2 DEF Numbered
<1>4. ASSUME NEW i \in 1 .. Len(Tail(q)) PROVE Tail(q)[i].n = (first + 1) + i
  <2>1. i + 1 \in 1 .. Len(q) BY <1>1, <1>2, <1>4
  <2>2. q[i + 1].n = first + (i + 1) BY <2>1 DEF Numbered
  <2> QED BY <1>1, <2>2
<1> QED BY <1>1, <1>3, <1>4 DEF Numbered

(* The order of a pipeline none of whose variables change.                 *)
orderVars == <<in, written, reader, line, enqueued, msgs, received>>

(* Steps that touch none of the variables of the order.                    *)
LEMMA OrderUnchanged ==
    ASSUME OrderInv, UNCHANGED orderVars
    PROVE  OrderInv'
PROOF BY DEF OrderInv, BufferInOrder, ReaderInOrder, Numbered, InHand, orderVars

(* Nothing has been read yet.                                              *)
LEMMA OrderInit == Init => OrderInv
PROOF BY EmptySeq DEF Init, StdioInit, OrderInv, BufferInOrder, ReaderInOrder, Numbered,
                      InHand

(* A line is written to the pipe.                                          *)
LEMMA OrderWritten ==
    ASSUME TypeInv, OrderInv, NEW ok \in BOOLEAN, PeerWrites(ok)
    PROVE  OrderInv'
PROOF
<1>1. UNCHANGED <<reader, line, enqueued, msgs, received>>
  BY DEF PeerWrites, readerVars, recvVars
<1>2. BufferInOrder' BY <1>1 DEF OrderInv, BufferInOrder, Numbered
<1>3. CASE reader = "ended" BY <1>1, <1>2, <1>3 DEF OrderInv, ReaderInOrder
<1>4. CASE reader # "ended"
  <2> DEFINE first == enqueued + InHand
             m     == Line(written + 1, ok)
  <2>1. first \in Nat BY Counters DEF InHand
  <2>2. in' = Append(in, m) /\ written' = written + 1 BY DEF PeerWrites
  <2>3. m \in Lines /\ m.n = written + 1
    BY StdioAssumption DEF PeerWrites, TypeInv, TypeOK, StdioTypeOK, Line, Lines
  <2>4. Numbered(in, first) /\ Len(in) = written - first
    BY <1>4, Counters DEF OrderInv, ReaderInOrder, InHand
  <2>5. m.n = first + Len(in) + 1 BY <2>1, <2>3, <2>4, Counters
  <2>6. Numbered(Append(in, m), first) BY <2>1, <2>3, <2>4, <2>5, Counters, NumberedAppend
  <2>7. Len(in') = written' - first
    BY <2>1, <2>2, <2>3, <2>4, Counters, AppendProperties
  <2>8. first' = first BY <1>1 DEF InHand
  <2>9. Numbered(in', first') BY <2>2, <2>6, <2>8
  <2>10. Len(in') = written' - enqueued' - InHand'
    BY <1>1, <2>2, <2>7, Counters DEF InHand
  <2> QED BY <1>1, <1>2, <2>9, <2>10 DEF OrderInv, ReaderInOrder
<1> QED BY <1>2, <1>3, <1>4 DEF OrderInv

(* readLoop takes a line out of the pipe.                                  *)
LEMMA OrderRead ==
    ASSUME TypeInv, OrderInv, ReadNext
    PROVE  OrderInv'
PROOF
<1>1. UNCHANGED <<written, enqueued, msgs, received>> /\ reader = "read" /\ in # <<>>
  BY DEF ReadNext, recvVars
<1>2. BufferInOrder' BY <1>1 DEF OrderInv, BufferInOrder, Numbered
<1>3. /\ in' = Tail(in) /\ Len(Tail(in)) = Len(in) - 1
      /\ Head(in).n = enqueued + 1 /\ Numbered(Tail(in), enqueued + 1)
      /\ Len(in) = written - enqueued
  <2>1. Numbered(in, enqueued) /\ Len(in) = written - enqueued
    BY <1>1, Counters DEF OrderInv, ReaderInOrder, InHand
  <2> QED BY <1>1, <2>1, Counters, NumberedTail DEF ReadNext
<1>4. CASE Head(in).ok
  <2>1. reader' = "offer" /\ line' = Head(in) BY <1>4 DEF ReadNext
  <2>2. InHand' = 1 BY <2>1 DEF InHand
  <2>3. Len(in') = written' - enqueued' - InHand' BY <1>1, <1>3, <2>2, Counters
  <2>4. Numbered(in', enqueued' + InHand') BY <1>1, <1>3, <2>2
  <2> QED BY <1>1, <1>2, <1>3, <2>1, <2>3, <2>4 DEF OrderInv, ReaderInOrder
<1>5. CASE ~Head(in).ok
  <2>1. reader' = "ended" BY <1>5 DEF ReadNext
  <2> QED BY <1>2, <2>1 DEF OrderInv, ReaderInOrder
<1> QED BY <1>4, <1>5

(* readLoop puts its line into msgs, or gives it up and ends.              *)
LEMMA OrderOffered ==
    ASSUME TypeInv, OrderInv, Offer
    PROVE  OrderInv'
PROOF
<1>1. UNCHANGED <<in, written, received>> /\ reader = "offer" BY DEF Offer, inVars, recvVars
<1>2. CASE NoRoom
  <2>1. reader' = "ended" /\ UNCHANGED <<msgs, enqueued>> BY <1>2 DEF NoRoom
  <2> QED BY <1>1, <2>1 DEF OrderInv, BufferInOrder, ReaderInOrder, Numbered
<1>3. CASE ~NoRoom
  <2>1. /\ msgs' = Append(msgs, line) /\ enqueued' = line.n /\ reader' = "read"
    BY <1>3 DEF Offer
  <2>2. line \in Lines /\ line.n = enqueued + 1
    BY <1>1 DEF TypeInv, OrderInv, ReaderInOrder
  <2>3. Numbered(msgs, received) /\ Len(msgs) = enqueued - received
    BY DEF OrderInv, BufferInOrder
  <2>4. line.n = received + Len(msgs) + 1 BY <2>2, <2>3, Counters
  <2>5. Numbered(Append(msgs, line), received)
    BY <2>2, <2>3, <2>4, Counters, NumberedAppend
  <2>6. Len(msgs') = enqueued' - received'
    BY <1>1, <2>1, <2>2, <2>3, Counters, AppendProperties
  <2>7. BufferInOrder' BY <1>1, <2>1, <2>5, <2>6 DEF BufferInOrder
  <2>8. InHand = 1 /\ InHand' = 0 BY <1>1, <2>1 DEF InHand
  <2>9. Len(in) = written - enqueued - 1 /\ Numbered(in, enqueued + 1)
    BY <1>1, <2>8 DEF OrderInv, ReaderInOrder
  <2>10. Len(in') = written' - enqueued' - InHand'
    BY <1>1, <2>1, <2>2, <2>8, <2>9, Counters
  <2>11. enqueued' + InHand' = enqueued + 1 BY <2>1, <2>2, <2>8, Counters
  <2>12. Numbered(in', enqueued' + InHand') BY <1>1, <2>9, <2>11
  <2> QED BY <2>1, <2>7, <2>10, <2>12 DEF OrderInv, ReaderInOrder
<1> QED BY <1>2, <1>3

(* The caller of Receive gets the oldest message.                          *)
LEMMA OrderReceived ==
    ASSUME TypeInv, OrderInv, ReceiveMessage
    PROVE  OrderInv'
PROOF
<1>1. /\ UNCHANGED <<in, written, reader, line, enqueued>> /\ msgs # <<>>
      /\ received' = Head(msgs).n /\ msgs' = Tail(msgs)
  BY DEF ReceiveMessage, inVars, readerVars
<1>2. Numbered(msgs, received) /\ Len(msgs) = enqueued - received
  BY DEF OrderInv, BufferInOrder
<1>3. /\ Head(msgs).n = received + 1 /\ Len(Tail(msgs)) = Len(msgs) - 1
      /\ Numbered(Tail(msgs), received + 1)
  BY <1>1, <1>2, Counters, NumberedTail
<1>4. Len(msgs') = enqueued' - received' BY <1>1, <1>2, <1>3, Counters
<1>5. BufferInOrder' BY <1>1, <1>3, <1>4 DEF BufferInOrder
<1>6. ReaderInOrder' BY <1>1 DEF OrderInv, ReaderInOrder, Numbered, InHand
<1> QED BY <1>5, <1>6 DEF OrderInv

(* All other steps leave the pipeline as it is, or only end readLoop.      *)
LEMMA OrderNext ==
    ASSUME TypeInv, OrderInv, [Next]_vars
    PROVE  OrderInv'
PROOF
<1> USE DEF inVars, readerVars, recvVars, closeVars, connVars
<1>1. CASE UNCHANGED orderVars BY <1>1, OrderUnchanged
<1>2. CASE ReadFails
  <2>1. reader' = "ended" /\ UNCHANGED <<enqueued, msgs, received>> BY <1>2 DEF ReadFails
  <2> QED BY <2>1 DEF OrderInv, BufferInOrder, ReaderInOrder, Numbered
<1>3. ASSUME ~UNCHANGED orderVars, ~ReadFails, Next PROVE OrderInv'
  <2>1. CASE \E ok \in BOOLEAN : PeerWrites(ok) BY <2>1, OrderWritten
  <2>2. CASE PeerEnds BY <1>3, <2>2 DEF PeerEnds, orderVars
  <2>3. CASE ReadLoop BY <1>3, <2>3, OrderRead, OrderOffered DEF ReadLoop
  <2>4. CASE ReceiveStep \/ ReceiveCancelled
    BY <1>3, <2>4, OrderReceived
    DEF ReceiveStep, ReceiveDone, ReceiveFails, ReceiveCancelled, orderVars
  <2>5. ASSUME NEW s \in Senders, SendChecks(s) \/ SendWrites(s) PROVE FALSE
    BY <1>3, <2>5 DEF SendChecks, SendWrites, orderVars
  <2>6. ASSUME NEW x \in Closers, CloseStep(x) PROVE FALSE
    BY <1>3, <2>6 DEF CloseStep, CloseIn, CloseOut, orderVars
  <2>7. ASSUME NEW how \in {"clean", "failure"}, AgentExits(how) PROVE FALSE
    BY <1>3, <2>7 DEF AgentExits, orderVars
  <2>8. CASE WaiterStep \/ OwnerCloses \/ Report \/ ReportCancelled
    BY <1>3, <2>8
    DEF WaiterStep, WaitReturns, WaitStored, WaiterCloses, OwnerCloses, CloseBegins,
        Report, ReportCancelled, orderVars
  <2> QED BY <1>3, <2>1, <2>2, <2>3, <2>4, <2>5, <2>6, <2>7, <2>8, StepCases, Zenon
<1>4. CASE UNCHANGED vars BY <1>1, <1>4 DEF vars, orderVars
<1> QED BY <1>1, <1>2, <1>3, <1>4

-----------------------------------------------------------------------------
(* Closing.                                                                *)

LEMMA CloseInit == Init => CloseInv
PROOF BY DEF Init, StdioInit, CloseInv, ClosedOnce, ReceiverOrder, EndSeen

(* What closing relies on, when a step changes none of it.                 *)
reportVars == <<inState, written, reader, enqueued, msgs, closeVars, recvVars>>

(* Steps that touch none of the variables of closing.                      *)
LEMMA CloseUnchanged ==
    ASSUME CloseInv, UNCHANGED reportVars
    PROVE  CloseInv'
PROOF BY DEF CloseInv, ClosedOnce, ReceiverOrder, EndSeen, reportVars, closeVars, recvVars

(* Any error other than the end of the pipe may close the connection at    *)
(* any moment, with readLoop and Receive wherever they are.                *)
LEMMA CloseByOther ==
    ASSUME TypeInv, CloseInv, NEW e \in {"readClosed", "invalid", "write", "ErrClosedPipe"},
           CloseWith(e), UNCHANGED <<written, enqueued, msgs, recvVars>>,
           inState' = inState,
           reader' \in {reader, "ended"}
    PROVE  CloseInv'
PROOF
<1>1. CASE done
  BY <1>1 DEF CloseWith, CloseInv, ClosedOnce, ReceiverOrder, EndSeen, closeVars, recvVars
<1>2. CASE ~done
  <2>1. done' /\ err' = e /\ before' = enqueued BY <1>2 DEF CloseWith
  <2>2. err = "none" /\ receiver # "drain" /\ connErr # "EOF"
    BY <1>2 DEF CloseInv, ClosedOnce, ReceiverOrder, EndSeen
  <2>3. ClosedOnce' BY <2>1, Counters DEF ClosedOnce
  <2>4. ReceiverOrder'
    BY <1>2, <2>1, <2>2 DEF CloseInv, ReceiverOrder, recvVars
  <2>5. EndSeen' BY <2>1, <2>2 DEF EndSeen, recvVars
  <2> QED BY <2>3, <2>4, <2>5 DEF CloseInv
<1>3. done \in BOOLEAN BY DEF TypeInv, TypeOK, StdioTypeOK
<1> QED BY <1>1, <1>2, <1>3

(* readLoop sees the end of the pipe: it has put everything into msgs.     *)
LEMMA CloseByReader ==
    ASSUME TypeInv, OrderInv, CloseInv, ReadFails
    PROVE  CloseInv'
PROOF
<1>1. /\ UNCHANGED <<inState, written, enqueued, msgs, recvVars>>
      /\ reader = "read" /\ reader' = "ended"
  BY DEF ReadFails, inVars
<1>2. CASE CloseWith("readClosed") BY <1>1, <1>2, CloseByOther
<1>3. CASE in = <<>> /\ inState = "ended" /\ CloseWith("EOF")
  <2>1. Len(in) = 0 BY <1>3, EmptySeq
  <2>2. enqueued = written BY <1>1, <2>1, Counters DEF OrderInv, ReaderInOrder, InHand
  <2>3. CASE done
    BY <1>1, <2>3, <1>3
    DEF CloseWith, CloseInv, ClosedOnce, ReceiverOrder, EndSeen, closeVars, recvVars
  <2>4. CASE ~done
    <3>1. done' /\ err' = "EOF" /\ before' = enqueued BY <1>3, <2>4 DEF CloseWith
    <3>2. err = "none" /\ receiver # "drain" /\ connErr # "EOF"
      BY <2>4 DEF CloseInv, ClosedOnce, ReceiverOrder, EndSeen
    <3>3. ClosedOnce' BY <1>1, <3>1, Counters DEF ClosedOnce
    <3>4. ReceiverOrder' BY <1>1, <2>4, <3>1, <3>2 DEF CloseInv, ReceiverOrder, recvVars
    <3>5. EndSeen' BY <1>1, <1>3, <2>2, <3>1, <3>2 DEF EndSeen, recvVars
    <3> QED BY <3>3, <3>4, <3>5 DEF CloseInv
  <2>5. done \in BOOLEAN BY DEF TypeInv, TypeOK, StdioTypeOK
  <2> QED BY <2>3, <2>4, <2>5
<1> QED BY <1>2, <1>3 DEF ReadFails

(* The other side, and readLoop as it goes on.                             *)
LEMMA CloseByPipe ==
    ASSUME TypeInv, OrderInv, CloseInv,
           (\E ok \in BOOLEAN : PeerWrites(ok)) \/ PeerEnds \/ ReadLoop
    PROVE  CloseInv'
PROOF
<1> USE DEF inVars, readerVars, closeVars, recvVars
<1>1. ASSUME NEW ok \in BOOLEAN, PeerWrites(ok) PROVE CloseInv'
  BY <1>1 DEF PeerWrites, CloseInv, ClosedOnce, ReceiverOrder, EndSeen
<1>2. CASE PeerEnds BY <1>2 DEF PeerEnds, CloseInv, ClosedOnce, ReceiverOrder, EndSeen
<1>3. CASE ReadNext
  <2>1. CASE Head(in).ok
    BY <1>3, <2>1 DEF ReadNext, CloseInv, ClosedOnce, ReceiverOrder, EndSeen
  <2>2. CASE ~Head(in).ok
    <3>1. CloseWith("invalid") /\ reader' = "ended" BY <1>3, <2>2 DEF ReadNext
    <3> QED BY <1>3, <3>1, CloseByOther DEF ReadNext
  <2> QED BY <2>1, <2>2
<1>4. CASE ReadFails BY <1>4, CloseByReader
<1>5. CASE Offer
  <2>1. err # "EOF" /\ connErr # "EOF" BY <1>5 DEF Offer, CloseInv, EndSeen
  <2>2. EndSeen' BY <1>5, <2>1 DEF Offer, EndSeen
  <2>3. enqueued' >= enqueued
    BY <1>5, Counters DEF Offer, NoRoom, OrderInv, ReaderInOrder
  <2>4. enqueued' \in Nat
    BY <1>5, Counters DEF Offer, NoRoom, OrderInv, ReaderInOrder
  <2>5. ClosedOnce' BY <1>5, <2>3, <2>4, Counters DEF Offer, CloseInv, ClosedOnce
  <2>6. ReceiverOrder' BY <1>5 DEF Offer, CloseInv, ReceiverOrder
  <2> QED BY <2>2, <2>5, <2>6 DEF CloseInv
<1> QED BY <1>1, <1>2, <1>3, <1>4, <1>5 DEF ReadLoop

(* Receive: it has found msgs empty after done, so nothing that was there  *)
(* at the closing is left.                                                 *)
LEMMA CloseByReceive ==
    ASSUME TypeInv, OrderInv, CloseInv, ReceiveStep \/ ReceiveCancelled
    PROVE  CloseInv'
PROOF
<1> USE DEF inVars, readerVars, closeVars, recvVars
<1>1. CASE ReceiveMessage
  <2>1. msgs # <<>> BY <1>1 DEF ReceiveMessage
  <2>2. connErr # "EOF" BY <2>1 DEF CloseInv, EndSeen
  <2> QED BY <1>1, <2>2 DEF ReceiveMessage, CloseInv, ClosedOnce, ReceiverOrder, EndSeen
<1>2. CASE ReceiveDone
  BY <1>2 DEF ReceiveDone, OnDone, CloseInv, ClosedOnce, ReceiverOrder, EndSeen
<1>3. CASE ReceiveFails
  <2>1. receiver = "drain" /\ msgs = <<>> /\ done
    BY <1>3 DEF ReceiveFails, CloseInv, ReceiverOrder
  <2>2. received = enqueued BY <2>1, EmptySeq, Counters DEF OrderInv, BufferInOrder
  <2>3. received >= before BY <2>1, <2>2, Counters DEF CloseInv, ClosedOnce
  <2>4. connErr' = "EOF" => err = "EOF" BY <1>3 DEF ReceiveFails, CloseErr
  <2> QED BY <1>3, <2>1, <2>3, <2>4
          DEF ReceiveFails, CloseInv, ClosedOnce, ReceiverOrder, EndSeen
<1>4. CASE ReceiveCancelled
  BY <1>4 DEF ReceiveCancelled, CloseInv, ClosedOnce, ReceiverOrder, EndSeen
<1> QED BY <1>1, <1>2, <1>3, <1>4 DEF ReceiveStep

(* Send, Close, the process and the goroutine that waits for it.           *)
LEMMA CloseByCallers ==
    ASSUME TypeInv, CloseInv,
           \/ \E s \in Senders : SendChecks(s) \/ SendWrites(s)
           \/ \E x \in Closers : CloseStep(x)
           \/ \E how \in {"clean", "failure"} : AgentExits(how)
           \/ WaiterStep \/ OwnerCloses \/ Report \/ ReportCancelled
    PROVE  CloseInv'
PROOF
<1> USE DEF inVars, readerVars
<1>1. ASSUME NEW s \in Senders, SendChecks(s) PROVE CloseInv'
  BY <1>1, CloseUnchanged DEF SendChecks, reportVars
<1>2. ASSUME NEW s \in Senders, SendWrites(s) PROVE CloseInv'
  <2>1. UNCHANGED closeVars \/ CloseWith("write") BY <1>2 DEF SendWrites
  <2>2. CASE UNCHANGED closeVars BY <1>2, <2>2, CloseUnchanged DEF SendWrites, reportVars
  <2>3. CASE CloseWith("write") BY <1>2, <2>3, CloseByOther DEF SendWrites
  <2> QED BY <2>1, <2>2, <2>3
<1>3. ASSUME NEW x \in Closers, CloseBegins(x) PROVE CloseInv'
  BY <1>3, CloseByOther DEF CloseBegins
<1>4. ASSUME inState' \in {inState, "ended", "closed"}, inState' = "open" => inState = "open",
             UNCHANGED <<written, reader, enqueued, msgs, closeVars, recvVars>>,
             inState = "open" \/ inState' # "open"
      PROVE  CloseInv'
  BY <1>4 DEF CloseInv, ClosedOnce, ReceiverOrder, EndSeen, closeVars, recvVars
<1>5. ASSUME NEW x \in Closers, CloseStep(x) PROVE CloseInv'
  BY <1>4, <1>5, CloseUnchanged DEF CloseStep, CloseIn, CloseOut, reportVars
<1>6. ASSUME NEW how \in {"clean", "failure"}, AgentExits(how) PROVE CloseInv'
  BY <1>4, <1>6 DEF AgentExits
<1>7. CASE WaitReturns BY <1>4, <1>7 DEF WaitReturns
<1>8. CASE WaitStored \/ Report \/ ReportCancelled
  BY <1>8, CloseUnchanged DEF WaitStored, Report, ReportCancelled, reportVars, connVars
<1>9. CASE WaiterCloses \/ OwnerCloses
  BY <1>3, <1>9, ProcessAssumption DEF WaiterCloses, OwnerCloses
<1> QED BY <1>1, <1>2, <1>5, <1>6, <1>7, <1>8, <1>9 DEF WaiterStep

(* Every step keeps it.                                                    *)
LEMMA CloseNext ==
    ASSUME TypeInv, OrderInv, CloseInv, [Next]_vars
    PROVE  CloseInv'
PROOF
<1>1. CASE UNCHANGED vars
  BY <1>1, CloseUnchanged DEF vars, connVars, inVars, readerVars, reportVars
<1>2. CASE Next
  BY <1>2, StepCases, CloseByPipe, CloseByReceive, CloseByCallers, Zenon
<1> QED BY <1>1, <1>2

-----------------------------------------------------------------------------
(* What the parts of the pipeline mean together.                           *)

(* The lines of two sequences put together.                                *)
LEMMA Joined ==
    ASSUME NEW p \in Seq(Lines), NEW q \in Seq(Lines)
    PROVE  /\ Len(p \o q) = Len(p) + Len(q)
           /\ \A i \in 1 .. Len(p) + Len(q) :
                 (p \o q)[i] = IF i <= Len(p) THEN p[i] ELSE q[i - Len(p)]
PROOF OBVIOUS

(* What is on its way is numbered from what was received to what was       *)
(* written.                                                                *)
LEMMA PipelineInOrder == PipelineInv => InOrder
PROOF
<1>1. SUFFICES ASSUME PipelineInv, reader # "ended" PROVE
          /\ Len(Pipeline) = written - received
          /\ \A i \in 1 .. Len(Pipeline) : Pipeline[i].n = received + i
  BY DEF InOrder
<1> DEFINE hand == IF reader = "offer" THEN <<line>> ELSE <<>>
           front == msgs \o hand
<1>2. TypeInv /\ BufferInOrder /\ ReaderInOrder BY <1>1 DEF PipelineInv, OrderInv
<1>3. hand \in Seq(Lines) /\ Len(hand) = InHand
  BY <1>2 DEF TypeInv, InHand
<1>4. \A i \in 1 .. Len(hand) : hand[i].n = enqueued + i
  BY <1>2, <1>3 DEF ReaderInOrder, InHand
<1> HIDE DEF hand
<1>5. /\ front \in Seq(Lines) /\ Len(front) = Len(msgs) + Len(hand)
      /\ \A i \in 1 .. Len(front) :
            front[i] = IF i <= Len(msgs) THEN msgs[i] ELSE hand[i - Len(msgs)]
  BY <1>2, <1>3, Counters, ConcatProperties
<1>6. Pipeline = front \o in BY DEF Pipeline, hand
<1> HIDE DEF front
<1>7. /\ Len(Pipeline) = Len(front) + Len(in)
      /\ \A i \in 1 .. Len(Pipeline) :
            Pipeline[i] = IF i <= Len(front) THEN front[i] ELSE in[i - Len(front)]
  <2>1. in \in Seq(Lines) BY <1>2, Counters
  <2>2. /\ Len(front \o in) = Len(front) + Len(in)
        /\ \A i \in 1 .. Len(front) + Len(in) :
              (front \o in)[i] = IF i <= Len(front) THEN front[i] ELSE in[i - Len(front)]
    BY <1>5, <2>1, Joined
  <2> QED BY <1>6, <2>2
<1>8. /\ Len(msgs) = enqueued - received /\ Len(hand) = InHand /\ InHand \in Nat
      /\ Len(in) = written - enqueued - InHand
  BY <1>1, <1>2, <1>3 DEF BufferInOrder, ReaderInOrder, InHand
<1>9. Len(front) = (enqueued + InHand) - received BY <1>2, <1>5, <1>8, Counters
<1>10. Len(Pipeline) = written - received BY <1>2, <1>7, <1>8, <1>9, Counters
<1>n. /\ received \in Nat /\ enqueued \in Nat /\ InHand \in Nat
      /\ Len(msgs) \in Nat /\ Len(front) \in Nat /\ Len(in) \in Nat
  BY <1>2, <1>5, <1>8, Counters
<1>11. ASSUME NEW i \in 1 .. Len(Pipeline) PROVE Pipeline[i].n = received + i
  <2>1. CASE i <= Len(msgs)
    <3>1. i \in 1 .. Len(front) BY <1>2, <1>5, <1>8, <2>1, Counters
    <3>2. Pipeline[i] = msgs[i] BY <1>5, <1>7, <2>1, <3>1
    <3>3. i \in 1 .. Len(msgs) BY <1>n, <2>1, <3>1
    <3>4. msgs[i].n = received + i BY <1>2, <3>3 DEF BufferInOrder, Numbered
    <3> QED BY <3>2, <3>4
  <2>2. CASE i > Len(msgs) /\ i <= Len(front)
    <3>1. i \in 1 .. Len(front) /\ i - Len(msgs) \in 1 .. Len(hand)
      BY <1>2, <1>5, <1>8, <2>2, Counters
    <3>2. Pipeline[i] = hand[i - Len(msgs)] BY <1>2, <1>5, <1>7, <2>2, <3>1, Counters
    <3>3. Pipeline[i].n = enqueued + (i - Len(msgs)) BY <1>4, <3>1, <3>2
    <3>4. Len(msgs) = enqueued - received /\ i \in Nat BY <1>8, <1>11
    <3>5. enqueued + (i - Len(msgs)) = received + i BY <1>n, <3>4
    <3> QED BY <3>3, <3>5, Zenon
  <2>3. CASE i > Len(front)
    <3>0. i \in Nat /\ i <= Len(front) + Len(in) BY <1>n, <1>7, <1>11
    <3>1. i - Len(front) \in 1 .. Len(in) BY <1>n, <2>3, <3>0
    <3>2. Pipeline[i] = in[i - Len(front)] BY <1>n, <1>7, <1>11, <2>3
    <3>3. in[i - Len(front)].n = (enqueued + InHand) + (i - Len(front))
      BY <1>1, <1>2, <3>1 DEF ReaderInOrder, Numbered
    <3>4. (enqueued + InHand) + (i - Len(front)) = received + i BY <1>n, <1>9, <3>0
    <3> QED BY <3>2, <3>3, <3>4, Zenon
  <2>4. i \in Nat BY <1>11
  <2> QED BY <1>n, <2>1, <2>2, <2>3, <2>4
<1> QED BY <1>10, <1>11

(* What is buffered when the reader has ended is still delivered.          *)
LEMMA PipelineDelivered == PipelineInv => BufferedDelivered
PROOF BY DEF PipelineInv, CloseInv, ReceiverOrder, BufferedDelivered

(* io.EOF of stdio.Conn is the last thing its Receive returns.             *)
LEMMA PipelineComplete ==
    ASSUME PipelineInv, connErr = "EOF"
    PROVE  received = written /\ inState # "open"
PROOF
<1>1. enqueued = written /\ inState # "open" /\ msgs = <<>>
  BY DEF PipelineInv, CloseInv, EndSeen
<1>2. Len(msgs) = 0 /\ Len(msgs) = enqueued - received
  BY <1>1, EmptySeq DEF PipelineInv, OrderInv, BufferInOrder
<1> QED BY <1>1, <1>2, Counters DEF PipelineInv

(* The inductive invariant holds.                                          *)
LEMMA PipelineCorrect == Spec => []PipelineInv
PROOF
<1>1. Init => PipelineInv BY ProcessTypeInit, OrderInit, CloseInit DEF PipelineInv
<1>2. PipelineInv /\ [Next]_vars => PipelineInv'
  BY ProcessTypeNext, OrderNext, CloseNext DEF PipelineInv
<1> QED BY <1>1, <1>2, PTL DEF Spec

-----------------------------------------------------------------------------

(***************************************************************************)
(* readLoop and Receive hand the lines of the other side to the caller in  *)
(* the order in which they were written, none missing and none twice,      *)
(* whatever the room in msgs, until readLoop has stopped.                  *)
(***************************************************************************)
THEOREM LinesInOrder == Spec => []InOrder
PROOF BY PipelineCorrect, PipelineInOrder, PTL

(***************************************************************************)
(* Receive says that the connection is closed only after it has returned   *)
(* every message that was in msgs at the closing: the second select after  *)
(* done does what its comment claims.                                      *)
(***************************************************************************)
THEOREM NothingBufferedLost == Spec => []BufferedDelivered
PROOF BY PipelineCorrect, PipelineDelivered, PTL

-----------------------------------------------------------------------------
(* What processConn.Receive makes of the error of stdio.Conn.              *)

(* The exit status is stored once, before waitDone, and by the goroutine   *)
(* that waits for the process to end.                                      *)
StatusStored ==
    /\ waitErr = "none" <=> ~waitDone
    /\ waiter \in {"wait", "store"} => ~waitDone
    /\ waiter = "wait" \/ proc # "running"
    /\ waitErr = "EOF" => proc = "clean"

(* Receive has failed once, and io.EOF is what it failed with, or takes the*)
(* place of ErrClosed once a clean exit is known.                          *)
ErrorReported ==
    /\ connErr # "none" \/ reported # "none" => receiver = "failed"
    /\ connErr = "ErrClosed" => done /\ err = "ErrClosedPipe"
    /\ reported = "EOF" =>
         connErr = "EOF" \/ (connErr = "ErrClosed" /\ waitErr = "EOF")

ReportInv == StatusStored /\ ErrorReported

LEMMA ReportInit == Init => ReportInv
PROOF BY DEF Init, StdioInit, ReportInv, StatusStored, ErrorReported

(* The first error stays.                                                  *)
LEMMA FirstErrorStays ==
    ASSUME TypeInv, Next, done
    PROVE  done' /\ err' = err
PROOF
<1> USE DEF closeVars, connVars
<1>c. \A e : CloseWith(e) => done' /\ err' = err BY DEF CloseWith
<1>u. UNCHANGED closeVars => done' /\ err' = err OBVIOUS
<1>1. ASSUME \/ \E ok \in BOOLEAN : PeerWrites(ok)
             \/ PeerEnds \/ ReceiveStep \/ ReceiveCancelled
             \/ \E how \in {"clean", "failure"} : AgentExits(how)
             \/ WaitReturns \/ WaitStored \/ Report \/ ReportCancelled
      PROVE  UNCHANGED closeVars
  BY <1>1 DEF PeerWrites, PeerEnds, ReceiveStep, ReceiveMessage, ReceiveDone, ReceiveFails,
     ReceiveCancelled, AgentExits, WaitReturns, WaitStored, Report, ReportCancelled
<1>2. CASE ReadLoop
  BY <1>2, <1>c, <1>u DEF ReadLoop, ReadNext, ReadFails, Offer
<1>3. ASSUME NEW s \in Senders, SendChecks(s) \/ SendWrites(s) PROVE done' /\ err' = err
  BY <1>3, <1>c, <1>u DEF SendChecks, SendWrites
<1>4. ASSUME NEW x \in Closers, CloseStep(x) PROVE done' /\ err' = err
  BY <1>4, <1>u DEF CloseStep, CloseIn, CloseOut
<1>5. CASE WaiterCloses \/ OwnerCloses
  BY <1>5, <1>c DEF WaiterCloses, OwnerCloses, CloseBegins
<1> QED BY <1>1, <1>2, <1>3, <1>4, <1>5, <1>u, StepCases DEF WaiterStep

(* Steps that leave the process, the status and the caller alone.          *)
LEMMA ReportUnchanged ==
    ASSUME ReportInv, UNCHANGED <<processVars, recvVars>>, done => done' /\ err' = err
    PROVE  ReportInv'
PROOF BY DEF ReportInv, StatusStored, ErrorReported, processVars, recvVars

(* Receive of stdio.Conn.                                                  *)
LEMMA ReportOfReceive ==
    ASSUME PipelineInv, ReportInv, UNCHANGED processVars, ReceiveStep \/ ReceiveCancelled
    PROVE  ReportInv'
PROOF
<1> USE DEF processVars, closeVars
<1>1. StatusStored' BY DEF ReportInv, StatusStored
<1>2. UNCHANGED <<done, err>>
  BY DEF ReceiveStep, ReceiveMessage, ReceiveDone, ReceiveFails, ReceiveCancelled
<1>3. connErr = "none" /\ reported = "none"
  BY DEF ReceiveStep, ReceiveMessage, ReceiveDone, ReceiveFails, ReceiveCancelled, ReportInv,
     ErrorReported
<1>4. \/ connErr' = connErr
      \/ receiver' = "failed" /\ connErr' = "cancelled"
      \/ receiver' = "failed" /\ connErr' = CloseErr /\ done
  BY DEF ReceiveStep, ReceiveMessage, ReceiveDone, ReceiveFails, ReceiveCancelled, recvVars,
     PipelineInv, CloseInv, ReceiverOrder
<1>5. CloseErr = "ErrClosed" => err = "ErrClosedPipe"
  BY DEF CloseErr, PipelineInv, TypeInv, TypeOK, StdioTypeOK
<1>6. ErrorReported' BY <1>2, <1>3, <1>4, <1>5 DEF ErrorReported
<1> QED BY <1>1, <1>6 DEF ReportInv

(* The process and the goroutine that waits for it.                        *)
LEMMA ReportOfProcess ==
    ASSUME PipelineInv, ReportInv,
           (\E how \in {"clean", "failure"} : AgentExits(how)) \/ WaiterStep
    PROVE  ReportInv'
PROOF
<1> USE DEF connVars, recvVars, closeVars
<1>1. ASSUME NEW how \in {"clean", "failure"}, AgentExits(how) PROVE ReportInv'
  BY <1>1 DEF AgentExits, ReportInv, StatusStored, ErrorReported
<1>2. CASE WaitReturns BY <1>2 DEF WaitReturns, ReportInv, StatusStored, ErrorReported
<1>3. CASE WaitStored BY <1>3 DEF WaitStored, ReportInv, StatusStored, ErrorReported
<1>4. CASE WaiterCloses
  <2>1. done => done' /\ err' = err BY <1>4 DEF WaiterCloses, CloseBegins, CloseWith
  <2> QED BY <1>4, <2>1 DEF WaiterCloses, CloseBegins, ReportInv, StatusStored, ErrorReported
<1> QED BY <1>1, <1>2, <1>3, <1>4 DEF WaiterStep

(* processError.                                                           *)
LEMMA ReportOfError ==
    ASSUME PipelineInv, ReportInv, Report \/ ReportCancelled
    PROVE  ReportInv'
PROOF
<1> USE DEF connVars, recvVars, closeVars
<1>1. UNCHANGED <<connErr, receiver, done, err, proc, waiter, waitErr, waitDone>>
  BY DEF Report, ReportCancelled
<1>2. receiver = "failed" /\ (reported' = ProcessError(connErr) \/ reported' = "cancelled")
  BY DEF Report, ReportCancelled
<1>3. waitErr \in {"none", "EOF", "exit"} BY DEF PipelineInv, TypeInv, TypeOK
<1>4. ProcessError(connErr) = "EOF" =>
        connErr = "EOF" \/ (connErr = "ErrClosed" /\ waitErr = "EOF")
  BY <1>3 DEF ProcessError, ReportInv, StatusStored
<1>5. StatusStored' BY <1>1 DEF ReportInv, StatusStored
<1>6. ErrorReported' BY <1>1, <1>2, <1>4 DEF ReportInv, ErrorReported
<1> QED BY <1>5, <1>6 DEF ReportInv

LEMMA ReportNext ==
    ASSUME PipelineInv, ReportInv, [Next]_vars
    PROVE  ReportInv'
PROOF
<1>1. CASE UNCHANGED vars
  BY <1>1, ReportUnchanged DEF vars, connVars, closeVars
<1>2. CASE Next
  <2>t. TypeInv BY DEF PipelineInv
  <2>0. done => done' /\ err' = err BY <1>2, <2>t, FirstErrorStays
  <2>1. CASE UNCHANGED <<processVars, recvVars>> BY <2>0, <2>1, ReportUnchanged
  <2>2. CASE \/ \E ok \in BOOLEAN : PeerWrites(ok) /\ UNCHANGED processVars
             \/ PeerEnds /\ UNCHANGED processVars
             \/ ReadLoop /\ UNCHANGED processVars
             \/ \E s \in Senders : (SendChecks(s) \/ SendWrites(s)) /\ UNCHANGED processVars
             \/ \E x \in Closers : CloseStep(x) /\ UNCHANGED processVars
             \/ OwnerCloses
    <3>1. UNCHANGED <<processVars, recvVars>>
      BY <2>2 DEF PeerWrites, PeerEnds, ReadLoop, ReadNext, ReadFails, Offer, SendChecks,
         SendWrites, CloseStep, CloseIn, CloseOut, OwnerCloses, CloseBegins
    <3> QED BY <2>1, <3>1
  <2> QED
    BY <1>2, <2>2, StepCases, ReportOfReceive, ReportOfProcess, ReportOfError, Zenon
<1> QED BY <1>1, <1>2

(***************************************************************************)
(* What io.EOF from processConn.Receive means, whatever the agent writes   *)
(* and however its end, the goroutine that waits for it, a Close of the    *)
(* server and the 250 ms interleave: the caller has all, or our side was   *)
(* closed and the process has ended without an error.                      *)
(***************************************************************************)
THEOREM EOFExplained == Spec => []EOFMeansEnd
PROOF
<1>1. Init => ReportInv BY ReportInit
<1>2. PipelineInv /\ ReportInv /\ [Next]_vars => ReportInv' BY ReportNext
<1>3. PipelineInv /\ ReportInv => EOFMeansEnd
  BY PipelineComplete DEF ReportInv, StatusStored, ErrorReported, EOFMeansEnd
<1> QED BY <1>1, <1>2, <1>3, PipelineCorrect, PTL DEF Spec
=============================================================================
