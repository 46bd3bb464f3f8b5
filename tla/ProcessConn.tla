---------------------------- MODULE ProcessConn ----------------------------
(***************************************************************************)
(* The processConn of src/cmd/acp-transport/main.go: a stdio.Conn to an    *)
(* agent process, a goroutine that waits for the process to end, and a     *)
(* Receive that asks for the exit status.                                  *)
(***************************************************************************)
EXTENDS StdioConn

CONSTANTS
    Waiter, Owner      \* who calls Close: the goroutine that waits, and the server

ASSUME ProcessAssumption == Closers = {Waiter, Owner} /\ Waiter # Owner

VARIABLES
    proc,              \* "running", or how the process has ended
    waiter,            \* how far the goroutine that waits has come
    waitErr, waitDone,
    reported           \* the error processConn.Receive has returned

processVars == <<proc, waiter, waitErr, waitDone, reported>>
vars == <<connVars, processVars>>

Init ==
    /\ StdioInit
    /\ proc = "running" /\ waiter = "wait" /\ waitErr = "none" /\ waitDone = FALSE
    /\ reported = "none"

(* The process ends, by itself or because its context was cancelled; its   *)
(* ends of the pipes are closed.                                           *)
AgentExits(how) ==
    /\ proc = "running"
    /\ proc' = how
    /\ inState' = IF inState = "open" THEN "ended" ELSE inState
    /\ outState' = "closed"
    /\ UNCHANGED <<in, written, readerVars, msgs, closeVars, recvVars, sender, closer,
                   waiter, waitErr, waitDone, reported>>

(* cmd.Wait: it closes our ends of the pipes once the process has ended.   *)
WaitReturns ==
    /\ waiter = "wait" /\ proc # "running"
    /\ inState' = "closed" /\ outState' = "closed"
    /\ waiter' = "store"
    /\ UNCHANGED <<in, written, readerVars, msgs, closeVars, recvVars, sender, closer,
                   proc, waitErr, waitDone, reported>>

(* Its result is stored and waitDone closed.                               *)
WaitStored ==
    /\ waiter = "store"
    /\ waitErr' = IF proc = "clean" THEN "EOF" ELSE "exit"
    /\ waitDone' = TRUE
    /\ waiter' = "close"
    /\ UNCHANGED <<connVars, proc, reported>>

WaiterCloses ==
    /\ waiter = "close"
    /\ CloseBegins(Waiter)
    /\ waiter' = "done"
    /\ UNCHANGED <<proc, waitErr, waitDone, reported>>

WaiterStep == WaitReturns \/ WaitStored \/ WaiterCloses

OwnerCloses == CloseBegins(Owner) /\ UNCHANGED processVars

(* fault: a clean exit is told as io.EOF, whatever has made Receive fail.  *)
ProcessErrorEOF(fallback) ==
    IF ~waitDone THEN fallback
    ELSE IF waitErr = "exit" THEN "exit"
    ELSE "EOF"

(* processError.                                                           *)
ProcessError(fallback) ==
    IF ~waitDone THEN fallback
    ELSE IF waitErr = "exit" THEN "exit"
    ELSE IF fallback \in {"EOF", "ErrClosed"} THEN "EOF"
    ELSE fallback

(* fault: the exit status is waited for however long it takes.             *)
TimedOutNever == FALSE

(* The 250 ms may be over at any moment.                                   *)
TimedOut == TRUE

Report ==
    /\ receiver = "failed" /\ reported = "none"
    /\ connErr \in {"EOF", "ErrClosed"} => waitDone \/ TimedOut
    /\ reported' = ProcessError(connErr)
    /\ UNCHANGED <<connVars, proc, waiter, waitErr, waitDone>>

(* The caller's context ends while it waits for the exit status.           *)
ReportCancelled ==
    /\ receiver = "failed" /\ reported = "none" /\ connErr \in {"EOF", "ErrClosed"}
    /\ reported' = "cancelled"
    /\ UNCHANGED <<connVars, proc, waiter, waitErr, waitDone>>

Next ==
    \/ StdioNext /\ UNCHANGED processVars
    \/ \E how \in {"clean", "failure"} : AgentExits(how)
    \/ WaiterStep \/ OwnerCloses \/ Report \/ ReportCancelled

Spec == Init /\ [][Next]_vars

(***************************************************************************)
(* Every goroutine runs when it can: readLoop, the caller of Receive, the  *)
(* one that waits for the process and closes, and the owner once it closes.*)
(* The agent need not write, end or exit, and the owner need not close.    *)
(***************************************************************************)
Fairness ==
    /\ WF_vars(ReadLoop /\ UNCHANGED processVars)
    /\ WF_vars((ReceiveStep /\ UNCHANGED processVars) \/ Report)
    /\ WF_vars(WaiterStep \/ (CloseStep(Waiter) /\ UNCHANGED processVars))
    /\ WF_vars(CloseStep(Owner) /\ UNCHANGED processVars)

FairSpec == Spec /\ Fairness

-----------------------------------------------------------------------------

(* Every variable stays in its domain.                                     *)
TypeOK ==
    /\ StdioTypeOK
    /\ proc \in {"running", "clean", "failure"}
    /\ waiter \in {"wait", "store", "close", "done"}
    /\ waitErr \in {"none", "EOF", "exit"} /\ waitDone \in BOOLEAN
    /\ reported \in {"none", "EOF", "readClosed", "invalid", "write", "ErrClosed",
                     "cancelled", "exit"}

(***************************************************************************)
(* What io.EOF from processConn.Receive means.  Either the agent has ended *)
(* its output and the caller has every line of it, or the connection was   *)
(* closed on our side, by the owner or because cmd.Wait has returned, and  *)
(* the process has ended without an error.  In the second case lines may   *)
(* be missing, and the code does not tell.  But when a line is missing     *)
(* because one was not a message, because reading or writing failed, or    *)
(* because of a process that failed or still runs, Receive never says      *)
(* io.EOF.                                                                 *)
(***************************************************************************)
EOFMeansEnd ==
    reported = "EOF" =>
        \/ received = written /\ inState # "open"
        \/ err = "ErrClosedPipe" /\ waitErr = "EOF" /\ proc = "clean"

(* Once the connection is closed, by whatever side, the caller of Receive  *)
(* is told, even when the process goes on running.                         *)
ReceiverReleased == done ~> reported # "none"

(***************************************************************************)
(* Close, and the end of the process, end readLoop, also when nobody calls *)
(* Receive any more and msgs is full.                                      *)
(***************************************************************************)
ReadLoopEnds ==
    (proc # "running" \/ \E x \in Closers : closer[x] # "idle") ~> reader = "ended"
=============================================================================
