--------------------------- MODULE EventHistory ---------------------------
(***************************************************************************)
(* The event history of one SSE scope of src/streamhttp/state.go, as       *)
(* operators on the retained queue of a streamScope: how emit bounds it    *)
(* and which part of it attachStream replays for a Last-Event-Id.          *)
(*                                                                         *)
(* An event is a record with a field "id".  The payload of an event is not *)
(* looked at here.                                                         *)
(***************************************************************************)
EXTENDS Integers, Sequences

(* fault: the queue is allowed one event too many.                         *)
TrimmedLate(queue, maxQueued) ==
    IF Len(queue) > maxQueued + 1
    THEN SubSeq(queue, Len(queue) - maxQueued + 1, Len(queue))
    ELSE queue

(***************************************************************************)
(* What emit keeps of a queue that is one event too long: the newest       *)
(* maxQueued events.                                                       *)
(***************************************************************************)
Trimmed(queue, maxQueued) ==
    IF Len(queue) > maxQueued
    THEN SubSeq(queue, Len(queue) - maxQueued + 1, Len(queue))
    ELSE queue

(***************************************************************************)
(* eventsAfter answers ErrEventHistoryGone: the client claims an event     *)
(* that was never numbered, or the event after the one it has seen is no   *)
(* longer retained.  A client without a Last-Event-Id (after = 0) is never *)
(* refused.                                                                *)
(***************************************************************************)
HistoryGone(queue, nextID, after) ==
    \/ after > nextID
    \/ /\ after # 0
       /\ queue = <<>>
       /\ after < nextID
    \/ /\ after # 0
       /\ queue # <<>>
       /\ after < queue[1].id - 1

(***************************************************************************)
(* The index at which the loop of eventsAfter stops: the length of the     *)
(* longest prefix of events the client has already seen.                   *)
(***************************************************************************)
Skipped(queue, after) ==
    CHOOSE i \in 0 .. Len(queue) :
        /\ \A j \in 1 .. i : queue[j].id <= after
        /\ i < Len(queue) => queue[i + 1].id > after

(* The events attachStream replays when the history is not gone.           *)
EventsAfter(queue, after) ==
    IF after = 0 THEN queue
    ELSE SubSeq(queue, Skipped(queue, after) + 1, Len(queue))

-----------------------------------------------------------------------------

(***************************************************************************)
(* The shape of every queue the server keeps: consecutive ids that end at  *)
(* the last id given out, and empty only before the first event.           *)
(***************************************************************************)
Window(queue, nextID) ==
    /\ Len(queue) <= nextID
    /\ queue = <<>> => nextID = 0
    /\ \A i \in 1 .. Len(queue) : queue[i].id = nextID - Len(queue) + i

(***************************************************************************)
(* What a channel may hold for a client that has seen the event "last" (or *)
(* none, last = 0): consecutive events that continue after it.  A client   *)
(* that has seen none may be given any start.                              *)
(***************************************************************************)
Resumes(q, last) ==
    \A i \in 1 .. Len(q) :
        /\ last # 0 => q[i].id = last + i
        /\ q[i].id = q[1].id + (i - 1)

(* The newest event that was put into the channel.                         *)
Newest(q, last) == IF q = <<>> THEN last ELSE q[Len(q)].id
=============================================================================
