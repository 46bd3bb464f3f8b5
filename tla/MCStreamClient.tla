-------------------------- MODULE MCStreamClient --------------------------
(***************************************************************************)
(* Instances of StreamClient for TLC.                                      *)
(***************************************************************************)
EXTENDS StreamClient, TLC

CONSTANTS Client   \* a key that only initialize uses

(* Each POST has an id of its own; initialize has another one.             *)
FreshKeys == Posts \cup {Client}
FreshKeyOf == [r \in Requests |-> IF r = Initializer THEN Client ELSE r]

StreamSymmetry == Permutations(Streams)

(***************************************************************************)
(* A reachable state from which the runs start that are not about opening  *)
(* the connection: initialize has been answered, the application has       *)
(* received the answer, the first stream loop is about to send its GET.    *)
(***************************************************************************)
EstablishedInit ==
    /\ toBackend = {} /\ fromBackend = <<>> /\ backendOpen = TRUE /\ notes = 0
    /\ nextID = [s \in Scopes |-> 0]
    /\ queue = [s \in Scopes |-> <<>>]
    /\ ch = [s \in Scopes |-> NoStream]
    /\ sessions = {}
    /\ pendingScope = [k \in Keys |-> NoSession]
    /\ pendingMethod = [k \in Keys |-> NoMethod]
    /\ initKey = NoKey /\ initCh = <<>>
    /\ closed = FALSE /\ listed = TRUE
    /\ pc = [a \in Actors |-> IF a = Initializer THEN "answered"
                              ELSE IF a = Runner THEN "receive" ELSE "idle"]
    /\ toClose = [a \in Actors |-> {}]
    /\ job = NoJob
    /\ req = [p \in Posts |-> NoPost]
    /\ scope = [st \in Streams |-> NoSession]
    /\ buf = [st \in Streams |-> <<>>]
    /\ cap = [st \in Streams |-> 0]
    /\ last = [st \in Streams |-> 0]
    /\ closes = [st \in Streams |-> 0]
    /\ told = {} /\ retired = {} /\ clashed = {}
    /\ opening = "open" /\ closing = "open" /\ cancelled = {}
    /\ loop = [s \in Scopes |-> IF s = NoSession THEN "dial" ELSE "none"]
    /\ cur = [s \in Scopes |-> NoStream]
    /\ held = [s \in Scopes |-> NoEvent]
    /\ lastEventID = [s \in Scopes |-> 0]
    /\ recv = <<>>
    /\ received = [s \in Scopes |-> 0]
    /\ asked = [st \in Streams |-> 0]
    /\ wire = [st \in Streams |-> <<>>] /\ cut = {} /\ losses = 0

EstablishedSpec == EstablishedInit /\ [][ClientNext]_allVars
FairEstablishedSpec == EstablishedSpec /\ ClientFairness
=============================================================================
