----------------------------- MODULE MCMessages -----------------------------
(***************************************************************************)
(* The functions of Messages, Framing and EventStream on bounded arguments:*)
(* a behaviour picks the arguments of one function, and the invariants say *)
(* what its result is.                                                     *)
(***************************************************************************)
EXTENDS Messages, Framing, EventStream

VARIABLE args

SmallValues == {-10, 0, 1, 10, 12}
SmallExponents == -2 .. 2

None == [of |-> "nothing"]

Init == args = None

PickIDs   == args = None /\ args' \in [of : {"IDKey"}, x : RawIDs, y : RawIDs]
PickText  == args = None /\ args' \in [of : {"ParseMessage"}, text : Texts]
PickInput == args = None /\ args' \in [of : {"ReadLine"}, input : Inputs, size : Sizes,
                                       max : Ceilings]
PickWrites == args = None /\ args' \in [of : {"Write"}, writes : Writes, max : Ceilings]
PickBody ==
    /\ args = None
    /\ \E from \in 1 .. MaxWrites, beats \in SeqOf(BOOLEAN, MaxWrites) :
          \E body \in Bodies(Written(from, beats)[Len(beats)]) :
              args' = [of |-> "readSSE", from |-> from, beats |-> beats, body |-> body]

Next == PickIDs \/ PickText \/ PickInput \/ PickWrites \/ PickBody

Spec == Init /\ [][Next]_args

-----------------------------------------------------------------------------

(* IDKey: an id is found again however it is spelled, and only then.       *)
KeysIdentify == args.of = "IDKey" => KeyIdentifies(args.x, args.y)

(* ParseMessage and MarshalJSONLine: what was accepted can be passed on.   *)
RelayKeepsMessage == args.of = "ParseMessage" => Relayed(args.text)

(* handleRequest and MarshalJSONLine: an accepted request is answered, and *)
(* by the right kind of answer, unless the handler's bytes are not JSON.   *)
AnswersFindCalls == args.of = "ParseMessage" => Answered(args.text)

(* ReadLine: neither the reader's buffer nor the end of the input nor the  *)
(* ceiling changes what a line is.                                         *)
FramesExact == args.of = "ReadLine" => FrameExact(args.input, args.size, args.max)

(* readSSE: an event that did not arrive whole is not taken for one, and   *)
(* the one after the last whole one is asked for again.                    *)
BodiesExact == args.of = "readSSE" => BodyExact(args.from, args.beats, args.body)

(* tailBuffer.Write: however the agent's stderr is cut, the tail is its end.*)
TailIsEnd == args.of = "Write" => TailExact(args.writes, args.max)
=============================================================================
