------------------------------ MODULE Framing -------------------------------
(***************************************************************************)
(* wire.ReadLine of src/internal/wire/wire.go over a bufio.Reader, and the *)
(* tailBuffer of src/cmd/acp-transport/main.go, on sequences of bytes.     *)
(*                                                                         *)
(* A definition that is introduced by "fault:" is not part of the model.   *)
(***************************************************************************)
EXTENDS Integers, SequencesExt

CONSTANTS
    CR, LF, Other,     \* the bytes
    InputLength,       \* bound: of the inputs
    WriteLength, Writings,   \* bounds: how long the writes are, and how many
    Sizes, Ceilings    \* bounds: the reader's buffer, the ceiling max

ASSUME FramingAssumption ==
    /\ InputLength \in Nat /\ WriteLength \in Nat /\ Writings \in Nat
    /\ Sizes \subseteq Nat \ {0} /\ Ceilings \subseteq Nat
    /\ CR # LF /\ Other \notin {CR, LF}

Inputs == SeqOf({CR, LF, Other}, InputLength)
Writes == SeqOf(SeqOf({LF, Other}, WriteLength), Writings)

From(s, i)  == SubSeq(s, i, Len(s))
Upto(s, i)  == SubSeq(s, 1, i)
Ends(s, b)  == s # <<>> /\ s[Len(s)] = b
FirstLF(s)  == SelectInSeq(s, LAMBDA b : b = LF)

(* What ReadSlice('\n') returns first: through the delimiter if the buffer *)
(* holds it, a full buffer, or what is left.                               *)
Slice(s, size) ==
    LET window == Upto(s, IF Len(s) < size THEN Len(s) ELSE size)
    IN  IF FirstLF(window) # 0 THEN Upto(s, FirstLF(window)) ELSE window

SliceError(s, size) ==
    LET chunk == Slice(s, size)
    IN  IF Ends(chunk, LF) THEN "nil" ELSE IF Len(chunk) = size THEN "ErrBufferFull" ELSE "EOF"

(* fault: only the line feed is taken off.                                 *)
TrimLineEndLF(line) == IF Ends(line, LF) THEN Front(line) ELSE line

TrimLineEnd(line) ==
    LET l == IF Ends(line, LF) THEN Front(line) ELSE line
    IN  IF Ends(l, CR) THEN Front(l) ELSE l

Result(line, err) == [line |-> line, err |-> err]

(* fault: a line that was longer than the buffer ends with the input.      *)
AtEOFOfChunk(line, chunk) ==
    IF chunk # <<>> THEN Result(TrimLineEnd(line), "nil") ELSE Result(<<>>, "EOF")

AtEOF(line, chunk) ==
    IF line # <<>> THEN Result(TrimLineEnd(line), "nil") ELSE Result(<<>>, "EOF")

(* One iteration of the loop, that begins with n bytes of the input in     *)
(* line; Loop[m] is what the loop returns from m bytes on.                 *)
Iteration(input, size, max, Loop, n) ==
    LET rest  == From(input, n + 1)
        chunk == Slice(rest, size)
        line  == Upto(input, n) \o chunk
        err   == SliceError(rest, size)
    IN  CASE Len(line) > max       -> Result(<<>>, "exceeds")
          [] Len(line) <= max /\ err = "nil" -> Result(TrimLineEnd(line), "nil")
          [] Len(line) <= max /\ err = "ErrBufferFull" -> Loop[n + Len(chunk)]
          [] OTHER                 -> AtEOF(line, chunk)

ReadLine(input, size, max) ==
    LET Loop[n \in 0 .. Len(input)] == Iteration(input, size, max, Loop, n)
    IN  Loop[0]

-----------------------------------------------------------------------------
(* fault: the oldest bytes are kept.                                       *)
KeptFirst(buf, max) == Upto(buf, max)

(* The last max bytes, moved to the front.                                 *)
Kept(buf, max) == From(buf, Len(buf) - max + 1)

(* tailBuffer.Write.                                                       *)
TailWrite(buf, p, max) ==
    IF Len(buf \o p) > max THEN Kept(buf \o p, max) ELSE buf \o p

(* What is kept after each number of writes.                               *)
TailAfter(writes, max) ==
    LET Buf[k \in 0 .. Len(writes)] ==
            IF k = 0 THEN <<>> ELSE TailWrite(Buf[k - 1], writes[k], max)
    IN  Buf

-----------------------------------------------------------------------------
(***************************************************************************)
(* The size of the reader's buffer makes no difference to what a line is:  *)
(* the bytes through the first line feed, or all that is left, without the *)
(* line end; refused when they are more than the ceiling.                  *)
(***************************************************************************)
FrameExact(input, size, max) ==
    LET raw  == IF FirstLF(input) = 0 THEN input ELSE Upto(input, FirstLF(input))
        line == ReadLine(input, size, max)
    IN  IF Len(raw) > max THEN line.err = "exceeds"
        ELSE IF raw = <<>> THEN line.err = "EOF"
        ELSE /\ line.err = "nil"
             /\ \E end \in {<<LF>>, <<CR, LF>>, <<CR>>, <<>>} :
                    /\ raw = line.line \o end
                    /\ end \in {<<LF>>, <<>>} => ~Ends(line.line, CR)
                    /\ end \in {<<CR>>, <<>>} => ~Ends(raw, LF)

(* However the agent's stderr is cut into writes, the tail is its end.     *)
TailExact(writes, max) ==
    LET all  == FlattenSeq(writes)
        tail == TailAfter(writes, max)[Len(writes)]
    IN  IsSuffix(tail, all) /\ Len(tail) = IF Len(all) < max THEN Len(all) ELSE max
=============================================================================
