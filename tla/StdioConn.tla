----------------------------- MODULE StdioConn -----------------------------
(***************************************************************************)
(* A stdio.Conn of src/stdio/stdio.go between the two pipes of a process:  *)
(* readLoop reads lines from one, Send writes lines to the other, one      *)
(* goroutine calls Receive until it fails, and Close may be called by      *)
(* several goroutines.                                                     *)
(*                                                                         *)
(* A definition that is introduced by "fault:" is not part of the model.   *)
(***************************************************************************)
EXTENDS Integers, Sequences

CONSTANTS
    Senders,             \* goroutines that call Send, once each
    Closers,             \* goroutines that call Close
    MsgBuffer,           \* the capacity of msgs
    MaxLines             \* bound: lines the other side writes

ASSUME StdioAssumption ==
    MsgBuffer \in Nat \ {0} /\ MaxLines \in Nat

VARIABLES
    in, inState,         \* the lines in the pipe we read, and its ends
    written,             \* history: lines the other side has written
    reader, line,        \* how far readLoop has come, and the line it holds
    msgs, done, err,
    receiver,            \* how far Receive has come
    connErr,             \* the error Receive has returned
    received,            \* history: the newest line Receive has returned
    enqueued, before,    \* history: the newest line put into msgs; when closed
    sender,              \* how far each Send has come
    outState,            \* whether the pipe we write to can still take a line
    closer               \* how far each Close has come

inVars     == <<in, inState, written>>
readerVars == <<reader, line, enqueued>>
closeVars  == <<done, err, before>>
recvVars   == <<receiver, connErr, received>>
connVars   == <<inVars, readerVars, msgs, closeVars, recvVars, sender, outState, closer>>

(* A line that does not hold a message, or is too long, is not ok.  Blank  *)
(* lines, which readLoop skips, are left out.                              *)
Line(n, ok) == [n |-> n, ok |-> ok]
NoLine == Line(0, FALSE)
Lines  == [n : 1 .. MaxLines, ok : BOOLEAN]

StdioInit ==
    /\ in = <<>> /\ inState = "open" /\ written = 0
    /\ reader = "read" /\ line = NoLine /\ enqueued = 0
    /\ msgs = <<>> /\ done = FALSE /\ err = "none" /\ before = 0
    /\ receiver = "wait" /\ connErr = "none" /\ received = 0
    /\ sender = [s \in Senders |-> "idle"] /\ outState = "open"
    /\ closer = [x \in Closers |-> "idle"]

-----------------------------------------------------------------------------
(* closeWith.  The first error is the one that stays.                      *)

CloseWith(e) ==
    IF done THEN UNCHANGED closeVars
    ELSE done' = TRUE /\ err' = e /\ before' = enqueued

(* fault: what a local Close reports is not told apart from other errors.  *)
CloseErrRaw == err

(* closeErr.                                                               *)
CloseErr == IF err = "ErrClosedPipe" THEN "ErrClosed" ELSE err

-----------------------------------------------------------------------------
(* The other side of the pipes.                                            *)

PeerWrites(ok) ==
    /\ inState = "open" /\ written < MaxLines
    /\ written' = written + 1
    /\ in' = Append(in, Line(written', ok))
    /\ UNCHANGED <<inState, readerVars, msgs, closeVars, recvVars, sender, outState, closer>>

(* It closes its end: what it has written can still be read.               *)
PeerEnds ==
    /\ inState = "open"
    /\ inState' = "ended"
    /\ UNCHANGED <<in, written, readerVars, msgs, closeVars, recvVars, sender, outState,
                   closer>>

-----------------------------------------------------------------------------
(* readLoop.                                                               *)

(* The next line.  Once our end is closed, only lines that are already in  *)
(* the reader's buffer can be read; how many these are is left open.       *)
ReadNext ==
    /\ reader = "read" /\ in # <<>>
    /\ in' = Tail(in)
    /\ IF Head(in).ok
       THEN /\ reader' = "offer" /\ line' = Head(in)
            /\ UNCHANGED closeVars
       ELSE /\ reader' = "ended" /\ UNCHANGED line
            /\ CloseWith("invalid")
    /\ UNCHANGED <<inState, written, enqueued, msgs, recvVars, sender, outState, closer>>

(* Reading fails: at the end of what was written, or because our end has   *)
(* been closed.                                                            *)
ReadFails ==
    /\ reader = "read"
    /\ \/ in = <<>> /\ inState = "ended" /\ CloseWith("EOF")
       \/ inState = "closed" /\ CloseWith("readClosed")
    /\ reader' = "ended"
    /\ UNCHANGED <<inVars, line, enqueued, msgs, recvVars, sender, outState, closer>>

(* fault: a message for which there is no room is dropped.                 *)
NoRoomDropped ==
    /\ Len(msgs) = MsgBuffer /\ reader' = "read" /\ line' = NoLine
    /\ UNCHANGED <<msgs, enqueued>>

(* fault: readLoop waits for room even when the connection is closed.      *)
NoRoomBlocked == FALSE /\ UNCHANGED <<reader, line, msgs, enqueued>>

(* The loop gives up waiting when the connection is closed; when there is  *)
(* room as well, select takes either.                                      *)
NoRoom ==
    /\ done /\ reader' = "ended" /\ line' = NoLine
    /\ UNCHANGED <<msgs, enqueued>>

Offer ==
    /\ reader = "offer"
    /\ \/ /\ Len(msgs) < MsgBuffer
          /\ msgs' = Append(msgs, line) /\ enqueued' = line.n
          /\ reader' = "read" /\ line' = NoLine
       \/ NoRoom
    /\ UNCHANGED <<inVars, closeVars, recvVars, sender, outState, closer>>

ReadLoop == ReadNext \/ ReadFails \/ Offer

-----------------------------------------------------------------------------
(* Receive.                                                                *)

(* A message is there: in the first select, or in the one that follows     *)
(* when done was chosen.                                                   *)
ReceiveMessage ==
    /\ receiver \in {"wait", "drain"} /\ msgs # <<>>
    /\ received' = Head(msgs).n
    /\ msgs' = Tail(msgs)
    /\ receiver' = "wait"
    /\ UNCHANGED <<inVars, readerVars, closeVars, connErr, sender, outState, closer>>

(* fault: closing is reported without a look at what is left.              *)
OnDoneReport == "report"

OnDone == "drain"

ReceiveDone ==
    /\ receiver = "wait" /\ done
    /\ receiver' = OnDone
    /\ UNCHANGED <<inVars, readerVars, msgs, closeVars, connErr, received, sender, outState,
                   closer>>

ReceiveFails ==
    /\ \/ receiver = "drain" /\ msgs = <<>>
       \/ receiver = "report"
    /\ receiver' = "failed" /\ connErr' = CloseErr
    /\ UNCHANGED <<inVars, readerVars, msgs, closeVars, received, sender, outState, closer>>

(* The caller's context ends.                                              *)
ReceiveCancelled ==
    /\ receiver = "wait"
    /\ receiver' = "failed" /\ connErr' = "cancelled"
    /\ UNCHANGED <<inVars, readerVars, msgs, closeVars, received, sender, outState, closer>>

ReceiveStep == ReceiveMessage \/ ReceiveDone \/ ReceiveFails

-----------------------------------------------------------------------------
(* Send.                                                                   *)

GotoSender(s, label) == sender' = [sender EXCEPT ![s] = label]

(* The caller's context may have ended.                                    *)
SendChecks(s) ==
    /\ sender[s] = "idle"
    /\ GotoSender(s, IF done THEN "failed" ELSE "write") \/ GotoSender(s, "failed")
    /\ UNCHANGED <<inVars, readerVars, msgs, closeVars, recvVars, outState, closer>>

(* The write of a line, under writeMu.  It fails when our end is closed, or *)
(* the other side does not read any more.                                  *)
SendWrites(s) ==
    /\ sender[s] = "write"
    /\ IF outState = "open"
       THEN GotoSender(s, "returned") /\ UNCHANGED closeVars
       ELSE GotoSender(s, "failed") /\ CloseWith("write")
    /\ UNCHANGED <<inVars, readerVars, msgs, recvVars, outState, closer>>

-----------------------------------------------------------------------------
(* Close: closeWith, then our ends of both pipes.                          *)

CloseBegins(x) ==
    /\ closer[x] = "idle"
    /\ CloseWith("ErrClosedPipe")
    /\ closer' = [closer EXCEPT ![x] = "in"]
    /\ UNCHANGED <<inVars, readerVars, msgs, recvVars, sender, outState>>

CloseIn(x) ==
    /\ closer[x] = "in"
    /\ inState' = "closed"
    /\ closer' = [closer EXCEPT ![x] = "out"]
    /\ UNCHANGED <<in, written, readerVars, msgs, closeVars, recvVars, sender, outState>>

CloseOut(x) ==
    /\ closer[x] = "out"
    /\ outState' = "closed"
    /\ closer' = [closer EXCEPT ![x] = "closed"]
    /\ UNCHANGED <<inVars, readerVars, msgs, closeVars, recvVars, sender>>

CloseStep(x) == CloseIn(x) \/ CloseOut(x)

-----------------------------------------------------------------------------
(* What the connection, its callers and the other side do; who begins a    *)
(* Close, and when, is for the module that uses this one to say.           *)
StdioNext ==
    \/ \E ok \in BOOLEAN : PeerWrites(ok)
    \/ PeerEnds \/ ReadLoop \/ ReceiveStep \/ ReceiveCancelled
    \/ \E s \in Senders : SendChecks(s) \/ SendWrites(s)
    \/ \E x \in Closers : CloseStep(x)

(* Every variable of the connection stays in its domain.                   *)
StdioTypeOK ==
    /\ in \in Seq(Lines) /\ inState \in {"open", "ended", "closed"}
    /\ written \in 0 .. MaxLines
    /\ reader \in {"read", "offer", "ended"} /\ line \in Lines \cup {NoLine}
    /\ msgs \in Seq(Lines) /\ Len(msgs) <= MsgBuffer
    /\ done \in BOOLEAN
    /\ err \in {"none", "EOF", "readClosed", "invalid", "write", "ErrClosedPipe"}
    /\ receiver \in {"wait", "drain", "report", "failed"}
    /\ connErr \in {"none", "EOF", "readClosed", "invalid", "write", "ErrClosed", "cancelled"}
    /\ {received, enqueued, before} \subseteq 0 .. MaxLines
    /\ sender \in [Senders -> {"idle", "write", "returned", "failed"}]
    /\ outState \in {"open", "closed"}
    /\ closer \in [Closers -> {"idle", "in", "out", "closed"}]

(* What lies between the other side and the caller of Receive.             *)
Pipeline == msgs \o (IF reader = "offer" THEN <<line>> ELSE <<>>) \o in

(***************************************************************************)
(* Messages reach the caller in the order they were written, none missing  *)
(* and none twice, however slow the caller is: what is on its way is what  *)
(* was written after what it has received, until readLoop has stopped.     *)
(***************************************************************************)
InOrder ==
    reader # "ended" =>
        /\ Len(Pipeline) = written - received
        /\ \A i \in 1 .. Len(Pipeline) : Pipeline[i].n = received + i

(***************************************************************************)
(* The caller is told that the connection is closed only after it has been *)
(* given every message that was there when it was closed, whoever closed it*)
(* and whatever readLoop does at that moment.                              *)
(***************************************************************************)
BufferedDelivered ==
    (receiver = "failed" /\ connErr # "cancelled") => received >= before
=============================================================================
