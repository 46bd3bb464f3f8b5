---------------------------- MODULE EventStream ----------------------------
(***************************************************************************)
(* Server-sent events: what handleGet of src/streamhttp/server.go writes   *)
(* and readSSE of src/streamhttp/client.go reads, as sequences of lines.   *)
(* Framing has how a line is read.  The message of event n is n as well.   *)
(*                                                                         *)
(* A definition that is introduced by "fault:" is not part of the model.   *)
(***************************************************************************)
EXTENDS Integers, FiniteSets, SequencesExt

CONSTANT MaxWrites   \* bound: events and heartbeats that are written

ASSUME EventStreamAssumption == MaxWrites \in Nat

Line(name, value) == [name |-> name, value |-> value]
Blank == Line("", 0)
Truncated == -1      \* what remains of an id or a message that is cut short

(* The handler writes the event numbered n, or a heartbeat (n = 0).        *)
WrittenFor(n) ==
    IF n = 0 THEN <<Line("comment", 0), Blank>>
    ELSE <<Line("id", n), Line("event", 0), Line("data", n), Blank>>

(* Events have consecutive numbers; heartbeats come in between, as the     *)
(* ticker will have it: beats[k] says whether the k-th write is one.       *)
EventsAmong(beats, k) == Cardinality({i \in 1 .. k : ~beats[i]})
NumberOf(from, beats, k) == IF beats[k] THEN 0 ELSE from + EventsAmong(beats, k - 1)

(* What has been written after each number of writes.                      *)
Written(from, beats) ==
    LET Sent[k \in 0 .. Len(beats)] ==
            IF k = 0 THEN <<>> ELSE Sent[k - 1] \o WrittenFor(NumberOf(from, beats, k))
    IN  Sent

(* The body ends after some whole lines and a piece of the next one, which *)
(* ReadLine returns like a line.                                           *)
Pieces(line) ==
    {<<>>} \cup IF line = Blank THEN {}
                ELSE {<<Line("other", 0)>>, <<Line(line.name, Truncated)>>, <<line>>}

Bodies(lines) ==
    {lines} \cup UNION {{SubSeq(lines, 1, n) \o piece : piece \in Pieces(lines[n + 1])} :
                           n \in 0 .. Len(lines) - 1}

-----------------------------------------------------------------------------
(* readSSE: data and id are of the event that is being read, last is what  *)
(* setStreamLastEventID keeps and out what is enqueued.                    *)
NothingRead == [data |-> <<>>, id |-> 0, last |-> 0, out |-> <<>>, err |-> FALSE]

(* handleSSEData; a message that is cut short does not parse.              *)
HandleSSEData(s) ==
    IF Truncated \in {s.id} \cup ToSet(s.data) THEN [s EXCEPT !.err = TRUE]
    ELSE [s EXCEPT !.last = IF s.id > @ THEN s.id ELSE @,
                   !.out = Append(@, s.data),
                   !.data = <<>>, !.id = 0]

ReadSSELine(s, line) ==
    IF s.err THEN s
    ELSE IF line = Blank THEN IF s.data = <<>> THEN s ELSE HandleSSEData(s)
    ELSE IF line.name = "id" THEN [s EXCEPT !.id = line.value]
    ELSE IF line.name = "data" THEN [s EXCEPT !.data = Append(@, line.value)]
    ELSE s

(* fault: what is there when the body ends is taken for an event.          *)
AtBodyEndDispatched(s) == IF s.data = <<>> \/ s.err THEN s ELSE HandleSSEData(s)

(* ReadLine returns an error: the event that is being read is given up.    *)
AtBodyEnd(s) == s

(* The loop: what has been read after each number of lines.                *)
Reading(body) ==
    LET Read[i \in 0 .. Len(body)] ==
            IF i = 0 THEN NothingRead ELSE ReadSSELine(Read[i - 1], body[i])
    IN  Read

ReadSSE(body) == AtBodyEnd(Reading(body)[Len(body)])

(***************************************************************************)
(* Wherever a body ends, also in the middle of an event or of a line, what *)
(* has been read are the first events that were written, each of them whole*)
(* and once: as many as there are among the writes whose blank line has    *)
(* arrived.  The stream resumes after the last of them, and heartbeats     *)
(* change nothing.                                                         *)
(***************************************************************************)
BodyExact(from, beats, body) ==
    LET read   == ReadSSE(body)
        blanks == Cardinality({i \in 1 .. Len(body) : body[i] = Blank})
        whole  == EventsAmong(beats, blanks)
    IN  /\ ~read.err
        /\ read.out = [i \in 1 .. whole |-> <<from + i - 1>>]
        /\ read.last = IF whole = 0 THEN 0 ELSE from + whole - 1
=============================================================================
