------------------------------ MODULE Messages ------------------------------
(***************************************************************************)
(* JSON-RPC messages, as src/jsonrpc/message.go and id.go read and write   *)
(* them.  A text is what a line holds, a message what is kept in memory.   *)
(* Both are records of the same members; a member that is not there is     *)
(* "absent".  Params, which nobody looks at, are left out.                 *)
(*                                                                         *)
(* A definition that is introduced by "fault:" is not part of the model.   *)
(***************************************************************************)
EXTENDS Integers

CONSTANTS
    Values,       \* bound: the integers ids are made of
    Exponents,    \* bound: the exponents of numeric ids
    MaxExponent   \* those that big.Rat.SetString accepts, up to 1e6

ASSUME MessagesAssumption ==
    Values \subseteq Int /\ Exponents \subseteq Int /\ MaxExponent \in Nat

(* An id as it is spelled.  A number is value * 10^form, as in 10, 1e1 and *)
(* 100e-1; a string has several spellings too, by its escapes.             *)
RawID(kind, value, form) == [kind |-> kind, value |-> value, form |-> form]
AbsentID == RawID("absent", 0, 0)
NullID   == RawID("null", 0, 0)
OtherID  == RawID("other", 0, 0)      \* an object, an array or a Boolean
RawIDs ==
    {AbsentID, NullID, OtherID}
        \cup [kind : {"string"}, value : Values, form : {0, 1}]
        \cup [kind : {"number"}, value : Values, form : Exponents]

Texts ==
    [jsonrpc : {"absent", "2.0", "1.0"}, id : RawIDs, method : BOOLEAN,
     result : {"absent", "null", "value"}, error : {"absent", "null", "value"}]

-----------------------------------------------------------------------------
(* numberIDKey and IDKey.  Keys of strings keep their quotes, so that they *)
(* differ from those of numbers.                                           *)
NoKey == <<"none", 0>>

(* 10^n, by which big.Rat multiplies or divides.                           *)
Pow10[n \in Nat] == IF n = 0 THEN 1 ELSE 10 * Pow10[n - 1]

(* The exponents that are refused, unless they do not matter.              *)
TooLarge(id) == id.value # 0 /\ id.form \notin -MaxExponent .. MaxExponent

(* fault: a fraction is rounded down.                                      *)
NumberIDKeyRounded(id) ==
    IF TooLarge(id) THEN NoKey
    ELSE IF id.form >= 0 THEN <<"number", id.value * Pow10[id.form]>>
    ELSE <<"number", id.value \div Pow10[-id.form]>>

NumberIDKey(id) ==
    IF TooLarge(id) THEN NoKey
    ELSE IF id.form >= 0 THEN <<"number", id.value * Pow10[id.form]>>
    ELSE IF id.value % Pow10[-id.form] # 0 THEN NoKey
    ELSE <<"number", id.value \div Pow10[-id.form]>>

IDKey(id) ==
    CASE id.kind = "null"   -> <<"null", 0>>
      [] id.kind = "string" -> <<"string", id.value>>
      [] id.kind = "number" -> NumberIDKey(id)
      [] OTHER              -> NoKey

-----------------------------------------------------------------------------
HasMethod(m) == m.method
HasID(m)     == m.id # AbsentID
HasResult(m) == m.result # "absent"
HasError(m)  == m.error # "absent"

IsRequest(m)  == HasMethod(m) /\ HasID(m)
IsResponse(m) == ~HasMethod(m) /\ HasID(m)

(* Validate.  The id of a response is not looked at.                       *)
Valid(m) ==
    /\ m.jsonrpc \in {"absent", "2.0"}
    /\ \/ /\ HasMethod(m) /\ ~HasResult(m) /\ ~HasError(m)
          /\ HasID(m) => IDKey(m.id) # NoKey
       \/ IsResponse(m) /\ (HasResult(m) # HasError(m))

(* What decoding makes of a text: a null id or error is one that is not    *)
(* there, since these are pointers; a null result is a result.             *)
Decode(t) ==
    [t EXCEPT !.id    = IF t.id = NullID THEN AbsentID ELSE t.id,
              !.error = IF t.error = "null" THEN "absent" ELSE t.error]

(* ParseMessage accepts a text if what it decodes to is valid.             *)
Accepted(t) == Valid(Decode(t))

(* fault: a null result is left out, like the other members.               *)
LineOfNoNull(m) ==
    [m EXCEPT !.jsonrpc = IF m.jsonrpc = "absent" THEN "2.0" ELSE m.jsonrpc,
              !.result  = IF m.result = "null" THEN "absent" ELSE m.result]

(* MarshalJSONLine: the text of a clone that names the version.            *)
LineOf(m) ==
    [m EXCEPT !.jsonrpc = IF m.jsonrpc = "absent" THEN "2.0" ELSE m.jsonrpc]

(* MarshalJSONLine returns that text, and no error: the clone is valid, and*)
(* json.Marshal refuses bytes that are not JSON, which Validate accepts.   *)
Writable(m) == Valid(LineOf(m)) /\ "malformed" \notin {m.result, m.error}

-----------------------------------------------------------------------------
(* The answers to a request.  A handler returns the bytes of a result, or  *)
(* an error with bytes of data.  They are "malformed" if they are not JSON,*)
(* a result is "empty" if it is nothing or white space.  Without a handler *)
(* the answer is an error, method not found.                               *)
Handled ==
    [rpcErr : {"nil", "value", "malformed"},
     result : {"empty", "null", "value", "malformed"}]

Response(id, result, error) ==
    [jsonrpc |-> "2.0", id |-> id, method |-> FALSE, result |-> result, error |-> error]

NewRawResult(id, result) ==
    Response(id, IF result = "empty" THEN "absent" ELSE result, "absent")

NewErrorResponse(id, rpcErr) == Response(id, "absent", rpcErr)

(* fault: what Validate says of the response is not looked at.             *)
ReplyUnchecked(id, handled) ==
    IF handled.rpcErr # "nil" THEN NewErrorResponse(id, handled.rpcErr)
    ELSE NewRawResult(id, handled.result)

(* handleRequest: a response that is not valid is replaced by an error.    *)
Reply(id, handled) ==
    LET resp == IF handled.rpcErr # "nil" THEN NewErrorResponse(id, handled.rpcErr)
                ELSE NewRawResult(id, handled.result)
    IN  IF Valid(resp) THEN resp ELSE NewErrorResponse(id, "value")

-----------------------------------------------------------------------------
(* Reference: ids that are the same JSON value.                            *)
SameNumber(x, y) ==
    \/ x.form <= y.form /\ x.value = y.value * Pow10[y.form - x.form]
    \/ y.form <= x.form /\ y.value = x.value * Pow10[x.form - y.form]
SameID(x, y) ==
    x.kind = y.kind /\ (IF x.kind = "number" THEN SameNumber(x, y) ELSE x.value = y.value)

(***************************************************************************)
(* Answers are found by the key of their id.  However the two sides spell  *)
(* it, two ids have the same key only if they are the same JSON value, and *)
(* any two spellings of one value have the same key, as long as big.Rat    *)
(* accepts the exponent of the other one too.                              *)
(***************************************************************************)
KeyIdentifies(x, y) ==
    (IDKey(x) # NoKey /\ ~(y.kind = "number" /\ TooLarge(y))) =>
        (IDKey(x) = IDKey(y) <=> SameID(x, y))

(***************************************************************************)
(* What one transport has accepted, the next one can write and its other   *)
(* end accepts, as the same message.  This is about the form of messages:  *)
(* that the next transport has a session for it, and is open, is another   *)
(* matter.                                                                 *)
(***************************************************************************)
Relayed(t) ==
    Accepted(t) =>
        LET m    == Decode(t)
            line == LineOf(m)
        IN  /\ Writable(m) /\ Accepted(line)
            /\ Decode(line) = [m EXCEPT !.jsonrpc = "2.0"]
            /\ IDKey(Decode(line).id) = IDKey(m.id)

(* The bytes that a handler has returned, and that its answer takes over,  *)
(* are JSON.                                                               *)
Encodable(handled) ==
    IF handled.rpcErr = "nil" THEN handled.result # "malformed"
    ELSE handled.rpcErr # "malformed"

(***************************************************************************)
(* A request that was accepted is answered, whatever its id, exactly if    *)
(* what its handler returns is JSON or nothing: Send's error is discarded, *)
(* so that the caller of a handler whose bytes are not JSON hears nothing. *)
(* The answer is accepted at the caller's end as a response, is found under*)
(* the key of the request, and is an error if and only if the handler has  *)
(* returned one, or no result at all.                                      *)
(***************************************************************************)
Answered(t) ==
    (Accepted(t) /\ IsRequest(Decode(t))) =>
        LET id == Decode(t).id IN
        \A handled \in Handled :
            LET answer == Reply(id, handled)
                back   == Decode(LineOf(answer))
            IN  /\ Writable(answer) <=> Encodable(handled)
                /\ Writable(answer) =>
                       /\ Accepted(LineOf(answer)) /\ IsResponse(back)
                       /\ IDKey(back.id) = IDKey(id) /\ IDKey(id) # NoKey
                       /\ HasError(back) <=>
                              (handled.rpcErr # "nil" \/ handled.result = "empty")
=============================================================================
