------------------------------ MODULE MCPeer ------------------------------
(***************************************************************************)
(* Two peers that call each other: a calls b, whose handler calls back     *)
(* before it answers, while b makes a call of its own.                     *)
(***************************************************************************)
EXTENDS Peer, TLC

CONSTANTS a, b, prompt, read, note

MCCaller == prompt :> a @@ read :> b @@ note :> b
MCNested == prompt :> read @@ read :> NoCall @@ note :> NoCall
=============================================================================
