------------------------------ MODULE MCParts ------------------------------
(***************************************************************************)
(* The parts of the program that are small enough for one run: a behaviour *)
(* is about one of them, and the others stay as they are at the start.     *)
(***************************************************************************)
EXTENDS MCMessages, Bridge, Server

CONSTANTS c1, c2, r1, r2

RunnerOfConn == [c \in Conns |-> IF c = c1 THEN r1 ELSE r2]

VARIABLE part

partsVars == <<part, args, bridgeVars, tableVars>>

PartsInit ==
    /\ part \in {"functions", "bridge", "table"}
    /\ Init /\ BridgeInit /\ TableInit

PartsNext ==
    /\ UNCHANGED part
    /\ \/ part = "functions" /\ Next /\ UNCHANGED <<bridgeVars, tableVars>>
       \/ part = "bridge" /\ BridgeNext /\ UNCHANGED <<args, tableVars>>
       \/ part = "table" /\ TableNext /\ UNCHANGED <<args, bridgeVars>>

(* Fairness of one part holds in the behaviours that are about it.         *)
PartsFairness ==
    /\ part = "bridge" => BridgeFairness
    /\ part = "table" => TableFairness

PartsSpec == PartsInit /\ [][PartsNext]_partsVars /\ PartsFairness
=============================================================================
