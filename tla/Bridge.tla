------------------------------- MODULE Bridge -------------------------------
(***************************************************************************)
(* Bridge of src/jsonrpc/bridge.go: two MessageConns joined by a pump in   *)
(* each direction.  A pump is named after the connection it receives from. *)
(* The connections are what a caller of stdio.Conn or Client sees of them. *)
(*                                                                         *)
(* A definition that is introduced by "fault:" is not part of the model.   *)
(***************************************************************************)
EXTENDS Naturals, Sequences

CONSTANTS
    A, B,          \* the two connections
    Drains,        \* those that hand over what they hold before they report an end
    MaxMessages    \* bound: messages that come from each side

ASSUME BridgeAssumption == A # B /\ Drains \subseteq {A, B} /\ MaxMessages \in Nat

Sides       == {A, B}
Opposite(x) == IF x = A THEN B ELSE A

VARIABLES
    sent,          \* how many messages the side behind each connection has sent
    arrived,       \* those its Receive has not returned
    over,          \* whether that side has ended, or its connection is broken
    shut,          \* connections on which Bridge has called Close
    cancelled,     \* ctx
    pump, hand,    \* how far each pump has come, and the message it holds
    fault,         \* the error it has met
    taken,         \* history: the messages Send of each connection has taken
    errCh, bridge, first   \* how far Bridge has come, and the error it got

endVars    == <<sent, arrived, over>>
bridgeVars == <<endVars, shut, cancelled, pump, hand, fault, taken, errCh, bridge, first>>

NoFault == [of |-> A, err |-> "none"]

BridgeInit ==
    /\ sent = [x \in Sides |-> 0] /\ arrived = [x \in Sides |-> <<>>]
    /\ over = [x \in Sides |-> "no"] /\ shut = {} /\ cancelled = FALSE
    /\ pump = [x \in Sides |-> "receive"] /\ hand = [x \in Sides |-> 0]
    /\ fault = [x \in Sides |-> "none"] /\ taken = [x \in Sides |-> <<>>]
    /\ errCh = <<>> /\ bridge = "wait" /\ first = NoFault

-----------------------------------------------------------------------------
(* What happens behind the connections.                                    *)

Arrives(x) ==
    /\ over[x] = "no" /\ sent[x] < MaxMessages
    /\ sent' = [sent EXCEPT ![x] = @ + 1]
    /\ arrived' = [arrived EXCEPT ![x] = Append(@, sent'[x])]
    /\ UNCHANGED <<over, shut, cancelled, pump, hand, fault, taken, errCh, bridge, first>>

IsOver(x, how) ==
    /\ over[x] = "no"
    /\ over' = [over EXCEPT ![x] = how]
    /\ UNCHANGED <<sent, arrived, shut, cancelled, pump, hand, fault, taken, errCh, bridge,
                   first>>

Cancel ==
    /\ ~cancelled /\ cancelled' = TRUE
    /\ UNCHANGED <<endVars, shut, pump, hand, fault, taken, errCh, bridge, first>>

-----------------------------------------------------------------------------
(* bridgeOneWay.                                                           *)

PumpReceives(x) ==
    /\ pump[x] = "receive" /\ arrived[x] # <<>>
    /\ hand' = [hand EXCEPT ![x] = Head(arrived[x])]
    /\ arrived' = [arrived EXCEPT ![x] = Tail(@)]
    /\ pump' = [pump EXCEPT ![x] = "send"]
    /\ UNCHANGED <<sent, over, shut, cancelled, fault, taken, errCh, bridge, first>>

Fails(x, err) ==
    /\ pump' = [pump EXCEPT ![x] = "report"]
    /\ fault' = [fault EXCEPT ![x] = err]
    /\ UNCHANGED <<endVars, shut, cancelled, hand, taken, errCh, bridge, first>>

ReceiveError(x, err) ==
    /\ pump[x] = "receive"
    /\ \/ err = "cancelled" /\ cancelled
       \/ err = "ErrClosed" /\ x \in shut
       \/ /\ err = over[x] /\ err # "no"
          /\ err = "EOF" /\ x \in Drains => arrived[x] = <<>>
    /\ Fails(x, err)

PumpSends(x) ==
    /\ pump[x] = "send"
    /\ taken' = [taken EXCEPT ![Opposite(x)] = Append(@, hand[x])]
    /\ hand' = [hand EXCEPT ![x] = 0]
    /\ pump' = [pump EXCEPT ![x] = "receive"]
    /\ UNCHANGED <<endVars, shut, cancelled, fault, errCh, bridge, first>>

(* fault: a message that is refused is dropped, and the pump goes on.      *)
RefusedDropped(x, err) ==
    /\ hand' = [hand EXCEPT ![x] = 0]
    /\ pump' = [pump EXCEPT ![x] = "receive"]
    /\ UNCHANGED <<endVars, shut, cancelled, fault, taken, errCh, bridge, first>>

(* One message that is refused ends the pump.                              *)
Refused(x, err) == Fails(x, err)

(* Send can fail for this message alone, such as a POST that is refused.   *)
SendError(x, err) ==
    /\ pump[x] = "send"
    /\ \/ err = "cancelled" /\ cancelled
       \/ err = "ErrClosed" /\ Opposite(x) \in shut
       \/ err = "fault"
    /\ Refused(x, err)

PumpReports(x) ==
    /\ pump[x] = "report" /\ Len(errCh) < 2
    /\ errCh' = Append(errCh, [of |-> x, err |-> fault[x]])
    /\ pump' = [pump EXCEPT ![x] = "ended"]
    /\ UNCHANGED <<endVars, shut, cancelled, hand, fault, taken, bridge, first>>

PumpStep(x) ==
    \/ PumpReceives(x) \/ PumpSends(x) \/ PumpReports(x)
    \/ \E err \in {"EOF", "fault", "ErrClosed", "cancelled"} : ReceiveError(x, err)

-----------------------------------------------------------------------------
(* Bridge.                                                                 *)

TakeError ==
    /\ bridge = "wait" /\ errCh # <<>>
    /\ first' = Head(errCh) /\ errCh' = Tail(errCh)
    /\ bridge' = "closeA"
    /\ UNCHANGED <<endVars, shut, cancelled, pump, hand, fault, taken>>

(* fault: only the connection that has failed is closed.                   *)
AfterCloseAReturns == "returned"

AfterCloseA == "closeB"

CloseA ==
    /\ bridge = "closeA"
    /\ shut' = shut \cup {A} /\ bridge' = AfterCloseA
    /\ UNCHANGED <<endVars, cancelled, pump, hand, fault, taken, errCh, first>>

CloseB ==
    /\ bridge = "closeB"
    /\ shut' = shut \cup {B} /\ bridge' = "returned"
    /\ UNCHANGED <<endVars, cancelled, pump, hand, fault, taken, errCh, first>>

BridgeStep == TakeError \/ CloseA \/ CloseB

BridgeNext ==
    \/ \E x \in Sides :
        \/ Arrives(x) \/ IsOver(x, "EOF") \/ IsOver(x, "fault") \/ PumpStep(x)
        \/ \E err \in {"fault", "ErrClosed", "cancelled"} : SendError(x, err)
    \/ Cancel \/ BridgeStep

(* Fair: the goroutines, and sides that take what is sent to them; nothing *)
(* that is sent is ever refused by fairness.                               *)
BridgeFairness ==
    WF_bridgeVars(BridgeStep) /\ \A x \in Sides : WF_bridgeVars(PumpStep(x))

-----------------------------------------------------------------------------

(* What a pump has forwarded, and what is still before it.                 *)
Course(x) ==
    taken[Opposite(x)] \o (IF hand[x] = 0 THEN <<>> ELSE <<hand[x]>>) \o arrived[x]

(***************************************************************************)
(* A bridge neither loses nor repeats nor reorders: a message that was     *)
(* sent and is not forwarded is in the pump's hand or before it, also when *)
(* the pump has ended because the one in its hand was refused.  And when   *)
(* Bridge gets the io.EOF of a connection that drains, everything its side *)
(* has sent is forwarded, so that nothing is cut off by the closing.       *)
(***************************************************************************)
Forwarded ==
    /\ \A x \in Sides : Course(x) = [i \in 1 .. sent[x] |-> i]
    /\ \A x \in Drains : first = [of |-> x, err |-> "EOF"] => Len(taken[Opposite(x)]) = sent[x]

(***************************************************************************)
(* The end of one side spreads: Bridge returns, and neither pump stays     *)
(* behind in Receive or on errCh.                                          *)
(***************************************************************************)
BridgeEnds ==
    (cancelled \/ \E x \in Sides : over[x] # "no")
        ~> (bridge = "returned" /\ \A x \in Sides : pump[x] = "ended")
=============================================================================
