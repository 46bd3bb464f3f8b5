----------------------------- MODULE EventLog -----------------------------
(***************************************************************************)
(* What the streamable HTTP transport promises the application about the   *)
(* messages of one scope, whatever happens to the streams that carry them: *)
(* they arrive in the order in which they were emitted, each at most once  *)
(* and with no gap after the first one.  Once the application has closed   *)
(* its client messages may be missing, but never out of order.             *)
(***************************************************************************)
EXTENDS Integers

CONSTANT Scopes

VARIABLES
    emitted,    \* how many messages the server has emitted in each scope
    received,   \* the newest of them the application has received, or 0
    over        \* the client has been closed

Init ==
    /\ emitted = [s \in Scopes |-> 0]
    /\ received = [s \in Scopes |-> 0]
    /\ over = FALSE

Emit(s) ==
    /\ emitted' = [emitted EXCEPT ![s] = @ + 1]
    /\ UNCHANGED <<received, over>>

(* The next message, or any message when it is the first one.              *)
Deliver(s) ==
    /\ \E n \in received[s] + 1 .. emitted[s] :
         /\ n = received[s] + 1 \/ received[s] = 0 \/ over
         /\ received' = [received EXCEPT ![s] = n]
    /\ UNCHANGED <<emitted, over>>

Close ==
    /\ over' = TRUE
    /\ UNCHANGED <<emitted, received>>

Next == Close \/ \E s \in Scopes : Emit(s) \/ Deliver(s)

Spec == Init /\ [][Next]_<<emitted, received, over>>
=============================================================================
