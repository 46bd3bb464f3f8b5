------------------------------- MODULE Peer -------------------------------
(***************************************************************************)
(* Two Peers of src/jsonrpc/peer.go, joined by the Pipe of                 *)
(* src/jsonrpc/conn.go.  A call is a goroutine in Peer.Call; its request is*)
(* handled by a goroutine of the other peer, which may call back before it *)
(* answers.                                                                *)
(*                                                                         *)
(* A definition that is introduced by "fault:" is not part of the model.   *)
(***************************************************************************)
EXTENDS Integers, Sequences, FiniteSets

CONSTANTS
    Sides,         \* the two peers
    Calls, NoCall,
    Caller,        \* the peer that makes a call
    Nested,        \* the call the handler of a call makes, or NoCall
    Buffer,        \* the buffer of the pipe, each way
    Impatient,     \* bound: calls whose caller may give up
    Stoppable,     \* bound: peers whose Serve may be cancelled
    Closers        \* bound: peers that may be closed

Other(x) == CHOOSE y \in Sides : y # x

Callee(c) == Other(Caller[c])

(* Ids, as the numbers Peer.nextID gives out; 0 for a call without one.    *)
Ids == 1 .. Cardinality(Calls)

ASSUME PeerAssumption ==
    /\ Cardinality(Sides) = 2
    /\ IsFiniteSet(Calls) /\ NoCall \notin Calls
    /\ Caller \in [Calls -> Sides]
    /\ Nested \in [Calls -> Calls \cup {NoCall}]
    /\ \A c \in Calls : Nested[c] # NoCall => Caller[Nested[c]] = Callee(c)
    /\ Buffer \in Nat \ {0}
    /\ Impatient \subseteq Calls /\ Stoppable \subseteq Sides /\ Closers \subseteq Sides

VARIABLES
    inbox,         \* the pipe: what each peer has not received yet
    done,          \* the pipe is closed
    nextID, pending,
    call,          \* how far each Call has come
    id,            \* its id
    answer,        \* what its response channel holds
    sends, closes, \* history: operations on its response channel
    result,        \* what it returned
    handler,       \* how far the handler of its request has come
    serve,         \* how far Serve has come
    hand, target,  \* the message it handles, the call whose channel it has taken
    closing        \* how far Peer.Close has come

pipeVars == <<inbox, done>>
chanVars == <<answer, sends, closes>>
callVars == <<call, id, result>>
vars == <<pipeVars, nextID, pending, callVars, chanVars, handler, serve, hand, target, closing>>

Kinds == {"request", "response", "cancel"}

(* A message carries the id of the call it is about.  "of" is the call it  *)
(* stems from, which the code does not see.                                *)
Messages == [kind : Kinds, id : Ids, of : Calls]

Msg(kind, n, c) == [kind |-> kind, id |-> n, of |-> c]

NoMessage == [kind |-> "none", id |-> 0, of |-> NoCall]

Init ==
    /\ inbox = [x \in Sides |-> <<>>] /\ done = FALSE
    /\ nextID = [x \in Sides |-> 0]
    /\ pending = [x \in Sides |-> [n \in Ids |-> NoCall]]
    /\ call = [c \in Calls |-> "idle"] /\ id = [c \in Calls |-> 0]
    /\ answer = [c \in Calls |-> NoMessage]
    /\ sends = [c \in Calls |-> 0] /\ closes = [c \in Calls |-> 0]
    /\ result = [c \in Calls |-> "none"]
    /\ handler = [c \in Calls |-> "none"]
    /\ serve = [x \in Sides |-> "receive"] /\ hand = [x \in Sides |-> NoMessage]
    /\ target = [x \in Sides |-> NoCall]
    /\ closing = [x \in Sides |-> "open"]

-----------------------------------------------------------------------------
(* channelConn: a send waits for room, or fails once the pipe is closed;   *)
(* when both are possible, select takes either.                            *)

Put(x, msg) ==
    /\ Len(inbox[x]) < Buffer
    /\ inbox' = [inbox EXCEPT ![x] = Append(@, msg)]

SendFails == done /\ UNCHANGED inbox

-----------------------------------------------------------------------------
(* Call.                                                                   *)

Goto(c, label) == call' = [call EXCEPT ![c] = label]

Returns(c, what) ==
    /\ Goto(c, "returned")
    /\ result' = [result EXCEPT ![c] = what]

(* A nested call is made by the handler of another one.                    *)
Callable(c) == \A outer \in Calls : Nested[outer] = c => handler[outer] = "run"

(* fault: the counter is not read and incremented in one step.             *)
NewIDStale(x) == 1

(* fault: ids start at zero, the number of a call without one.             *)
NewIDFromZero(x) == nextID[x]

NewID(x) == nextID[x] + 1

(* The id is taken from the atomic counter and the call registered under   *)
(* p.mu; nothing another goroutine does between the two can be told apart. *)
Begin(c) ==
    /\ call[c] = "idle" /\ Callable(c)
    /\ id' = [id EXCEPT ![c] = NewID(Caller[c])]
    /\ nextID' = [nextID EXCEPT ![Caller[c]] = @ + 1]
    /\ pending' = [pending EXCEPT ![Caller[c]][NewID(Caller[c])] = c]
    /\ Goto(c, "send")
    /\ UNCHANGED <<pipeVars, result, chanVars, handler, serve, hand, target, closing>>

SendRequest(c) ==
    /\ call[c] = "send"
    /\ \/ Put(Callee(c), Msg("request", id[c], c)) /\ Goto(c, "wait")
       \/ SendFails /\ Goto(c, "drop")
    /\ UNCHANGED <<done, nextID, pending, id, result, chanVars, handler, serve, hand,
                   target, closing>>

(* The caller's context ends: before the request is out, or while Call     *)
(* waits for the answer.                                                   *)
GiveUp(c) ==
    /\ c \in Impatient /\ call[c] \in {"send", "wait"}
    /\ Goto(c, IF call[c] = "send" THEN "drop" ELSE "forget")
    /\ UNCHANGED <<pipeVars, nextID, pending, id, result, chanVars, handler, serve, hand,
                   target, closing>>

(* deletePending.  After a failed Send the call returns; after it has given*)
(* up it tells the other peer.                                             *)
DeletePending(c) ==
    /\ call[c] \in {"drop", "forget"}
    /\ pending' = [pending EXCEPT ![Caller[c]][id[c]] = NoCall]
    /\ IF call[c] = "drop" THEN Returns(c, "failed")
       ELSE Goto(c, "cancel") /\ UNCHANGED result
    /\ UNCHANGED <<pipeVars, nextID, id, chanVars, handler, serve, hand, target, closing>>

SendCancel(c) ==
    /\ call[c] = "cancel"
    /\ Put(Callee(c), Msg("cancel", id[c], c)) \/ SendFails
    /\ Returns(c, "cancelled")
    /\ UNCHANGED <<done, nextID, pending, id, chanVars, handler, serve, hand, target, closing>>

(* The response channel yields the answer, or is closed without one.       *)
ReturnAnswer(c) ==
    /\ call[c] = "wait"
    /\ answer[c] # NoMessage \/ closes[c] > 0
    /\ Returns(c, IF answer[c] # NoMessage THEN "answered" ELSE "closed")
    /\ UNCHANGED <<pipeVars, nextID, pending, id, chanVars, handler, serve, hand, target, closing>>

CallStep(c) ==
    \/ SendRequest(c) \/ DeletePending(c) \/ SendCancel(c) \/ ReturnAnswer(c)

-----------------------------------------------------------------------------
(* handleRequest, in a goroutine of its own.                               *)

(* The handler is through, and with it the call it made.                   *)
HandlerEnds(c) ==
    /\ handler[c] = "run"
    /\ Nested[c] # NoCall => call[Nested[c]] = "returned"
    /\ handler' = [handler EXCEPT ![c] = "reply"]
    /\ UNCHANGED <<pipeVars, nextID, pending, callVars, chanVars, serve, hand, target, closing>>

(* The answer, or the error, is sent with a context that never ends.       *)
SendResponse(c) ==
    /\ handler[c] = "reply"
    /\ Put(Caller[c], Msg("response", id[c], c)) \/ SendFails
    /\ handler' = [handler EXCEPT ![c] = "done"]
    /\ UNCHANGED <<done, nextID, pending, callVars, chanVars, serve, hand, target, closing>>

HandlerStep(c) == HandlerEnds(c) \/ SendResponse(c)

-----------------------------------------------------------------------------
(* Serve.                                                                  *)

GotoServe(x, label) == serve' = [serve EXCEPT ![x] = label]

(* fault: Serve runs the handler of a request itself.                      *)
AfterRequestInline == "busy"

(* A request gets a goroutine; Serve receives the next message.            *)
AfterRequest == "receive"

ServeRequest(x) ==
    /\ serve[x] = "receive" /\ inbox[x] # <<>> /\ Head(inbox[x]).kind = "request"
    /\ inbox' = [inbox EXCEPT ![x] = Tail(@)]
    /\ hand' = [hand EXCEPT ![x] = Head(inbox[x])]
    /\ handler' = [handler EXCEPT ![Head(inbox[x]).of] = "run"]
    /\ GotoServe(x, AfterRequest)
    /\ UNCHANGED <<done, nextID, pending, callVars, chanVars, target, closing>>

ServeOther(x) ==
    /\ serve[x] = "receive" /\ inbox[x] # <<>> /\ Head(inbox[x]).kind # "request"
    /\ inbox' = [inbox EXCEPT ![x] = Tail(@)]
    /\ hand' = [hand EXCEPT ![x] = Head(inbox[x])]
    /\ GotoServe(x, IF Head(inbox[x]).kind = "response" THEN "take" ELSE "busy")
    /\ UNCHANGED <<done, nextID, pending, callVars, chanVars, handler, target, closing>>

(* handleNotification: the handler runs in Serve.                          *)
NotificationHandled(x) ==
    /\ serve[x] = "busy"
    /\ hand[x].kind = "request" => handler[hand[x].of] = "done"
    /\ hand' = [hand EXCEPT ![x] = NoMessage]
    /\ GotoServe(x, "receive")
    /\ UNCHANGED <<pipeVars, nextID, pending, callVars, chanVars, handler, target, closing>>

(* fault: the call stays among the pending ones.                           *)
TakenKept(x, n) == pending

Taken(x, n) == [pending EXCEPT ![x][n] = NoCall]

(* handleResponse: the section under p.mu.  A response to a call that is   *)
(* no longer pending is dropped.                                           *)
TakePending(x) ==
    /\ serve[x] = "take"
    /\ target' = [target EXCEPT ![x] = pending[x][hand[x].id]]
    /\ pending' = Taken(x, hand[x].id)
    /\ GotoServe(x, IF target'[x] = NoCall THEN "receive" ELSE "deliver")
    /\ UNCHANGED <<pipeVars, nextID, callVars, chanVars, handler, hand, closing>>

(* The answer is put into the response channel, which is closed.           *)
Deliver(x) ==
    /\ serve[x] = "deliver"
    /\ answer' = [answer EXCEPT ![target[x]] = hand[x]]
    /\ sends' = [sends EXCEPT ![target[x]] = @ + 1]
    /\ closes' = [closes EXCEPT ![target[x]] = @ + 1]
    /\ target' = [target EXCEPT ![x] = NoCall]
    /\ hand' = [hand EXCEPT ![x] = NoMessage]
    /\ GotoServe(x, "receive")
    /\ UNCHANGED <<pipeVars, nextID, pending, callVars, handler, closing>>

(* Receive fails: the pipe is closed, even with messages left in it, or    *)
(* the context of Serve has ended.                                         *)
ReceiveFails(x) ==
    /\ serve[x] = "receive" /\ done
    /\ GotoServe(x, "fail")
    /\ UNCHANGED <<pipeVars, nextID, pending, callVars, chanVars, handler, hand, target,
                   closing>>

ServeCancelled(x) ==
    /\ x \in Stoppable /\ serve[x] = "receive"
    /\ GotoServe(x, "fail")
    /\ UNCHANGED <<pipeVars, nextID, pending, callVars, chanVars, handler, hand, target,
                   closing>>

PendingCalls(x) == {c \in Calls : \E n \in Ids : pending[x][n] = c}

(* fault: the calls are forgotten, and not told.                           *)
FailPendingUntold(x) ==
    /\ pending' = [pending EXCEPT ![x] = [n \in Ids |-> NoCall]]
    /\ UNCHANGED closes

(* failPending closes the response channels of the pending calls.          *)
FailPending(x) ==
    /\ pending' = [pending EXCEPT ![x] = [n \in Ids |-> NoCall]]
    /\ closes' = [c \in Calls |-> closes[c] + IF c \in PendingCalls(x) THEN 1 ELSE 0]

ServeEnds(x) ==
    /\ serve[x] = "fail"
    /\ FailPending(x)
    /\ GotoServe(x, "ended")
    /\ UNCHANGED <<pipeVars, nextID, callVars, answer, sends, handler, hand, target,
                   closing>>

ServeStep(x) ==
    \/ ServeRequest(x) \/ ServeOther(x) \/ NotificationHandled(x) \/ TakePending(x)
    \/ Deliver(x) \/ ReceiveFails(x) \/ ServeEnds(x)

-----------------------------------------------------------------------------
(* Peer.Close: failPending, then the pipe is closed, for both peers.       *)

CloseFails(x) ==
    /\ x \in Closers /\ closing[x] = "open"
    /\ FailPending(x)
    /\ closing' = [closing EXCEPT ![x] = "pipe"]
    /\ UNCHANGED <<pipeVars, nextID, callVars, answer, sends, handler, serve, hand, target>>

ClosePipe(x) ==
    /\ closing[x] = "pipe"
    /\ done' = TRUE
    /\ closing' = [closing EXCEPT ![x] = "closed"]
    /\ UNCHANGED <<inbox, nextID, pending, callVars, chanVars, handler, serve, hand, target>>

-----------------------------------------------------------------------------

Next ==
    \/ \E c \in Calls : Begin(c) \/ GiveUp(c) \/ CallStep(c) \/ HandlerStep(c)
    \/ \E x \in Sides : ServeStep(x) \/ ServeCancelled(x) \/ CloseFails(x) \/ ClosePipe(x)

Spec == Init /\ [][Next]_vars

(***************************************************************************)
(* Every goroutine that has been started and can run does run: calls,      *)
(* handlers (which return once the call they made has), Serve, Close.      *)
(* Nobody has to make a call, give one up, cancel Serve or close; a handler*)
(* does make the call it is meant to make.                                 *)
(***************************************************************************)
Fairness ==
    /\ \A c \in Calls : WF_vars(CallStep(c)) /\ WF_vars(HandlerStep(c))
    /\ \A c \in Calls : Nested[c] # NoCall => WF_vars(Begin(Nested[c]))
    /\ \A x \in Sides : WF_vars(ServeStep(x)) /\ WF_vars(ClosePipe(x))

FairSpec == Spec /\ Fairness

-----------------------------------------------------------------------------

(* Every variable stays in its domain.                                     *)
TypeOK ==
    /\ inbox \in [Sides -> Seq(Messages)] /\ done \in BOOLEAN
    /\ \A x \in Sides : Len(inbox[x]) <= Buffer
    /\ nextID \in [Sides -> Ids \cup {0}]
    /\ pending \in [Sides -> [Ids -> Calls \cup {NoCall}]]
    /\ call \in [Calls -> {"idle", "send", "wait", "drop", "forget", "cancel",
                           "returned"}]
    /\ id \in [Calls -> Ids \cup {0}]
    /\ \A c \in Calls : id[c] = 0 <=> call[c] = "idle"
    /\ answer \in [Calls -> Messages \cup {NoMessage}]
    /\ sends \in [Calls -> Nat] /\ closes \in [Calls -> Nat]
    /\ result \in [Calls -> {"none", "answered", "closed", "failed", "cancelled"}]
    /\ handler \in [Calls -> {"none", "run", "reply", "done"}]
    /\ serve \in [Sides -> {"receive", "take", "busy", "deliver", "fail", "ended"}]
    /\ hand \in [Sides -> Messages \cup {NoMessage}]
    /\ target \in [Sides -> Calls \cup {NoCall}]
    /\ closing \in [Sides -> {"open", "pipe", "closed"}]

(***************************************************************************)
(* A response channel is sent on at most once, so that Serve never blocks  *)
(* on it, closed at most once, and never sent on after it was closed: the  *)
(* late answer, the end of Serve, Peer.Close and a call that gives up all  *)
(* take the call out of the pending ones before they touch its channel.    *)
(***************************************************************************)
ResponseChannelSafe ==
    /\ \A c \in Calls : sends[c] <= 1 /\ closes[c] <= 1
    /\ \A x \in Sides : serve[x] = "deliver" =>
         /\ closes[target[x]] = 0
         /\ target[x] \notin PendingCalls(x)

(* A call returns the answer to its own request, whatever was cancelled,   *)
(* late or called in between.                                              *)
OwnAnswer ==
    \A c \in Calls : answer[c] # NoMessage => answer[c].kind = "response" /\ answer[c].of = c

(* Both peers serve, and neither side has closed.                          *)
Serving == \A x \in Sides : serve[x] \notin {"fail", "ended"} /\ closing[x] = "open"

(***************************************************************************)
(* A call returns as long as both peers serve, even when both call at the  *)
(* same time, handlers call back and the pipe is full: Serve never waits   *)
(* for a handler of a request, nor for a caller.                           *)
(***************************************************************************)
CallReturns == \A c \in Calls : (call[c] = "wait") ~> (call[c] = "returned" \/ ~Serving)

(***************************************************************************)
(* When Serve ends, no call goes on waiting that was pending at that       *)
(* moment: it returns, unless it has given up and is stuck telling a peer  *)
(* that no longer reads.                                                   *)
(***************************************************************************)
PendingReleased ==
    \A c \in Calls :
        (serve[Caller[c]] = "fail" /\ c \in PendingCalls(Caller[c])) ~> call[c] # "wait"
=============================================================================
