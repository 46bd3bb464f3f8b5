---------------------------- MODULE MCConnState ----------------------------
(***************************************************************************)
(* Instances of ConnState for TLC.                                         *)
(***************************************************************************)
EXTENDS ConnLifecycle, TLC

CONSTANTS Client   \* a key that initialize uses

(* Each POST has an id of its own; initialize has another one.             *)
FreshKeys == Posts \cup {Client}
FreshKeyOf == [r \in Requests |-> IF r = Initializer THEN Client ELSE r]

(* The client uses the id of initialize again for one of its POSTs.        *)
ReusedKeys == Posts
ReusedKeyOf ==
    [r \in Requests |-> IF r = Initializer THEN CHOOSE p \in Posts : TRUE ELSE r]

(* The client uses one id for all its requests.                            *)
OneKey == {Client}
OneKeyOf == [r \in Requests |-> Client]

StreamSymmetry == Permutations(Streams)
=============================================================================
