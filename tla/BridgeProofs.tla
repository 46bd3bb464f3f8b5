---------------------------- MODULE BridgeProofs ----------------------------
(***************************************************************************)
(* A Bridge forwards every message once and in order, for any number of    *)
(* messages, and neither it nor its pumps are stuck on each other.         *)
(***************************************************************************)
EXTENDS Bridge, SequenceTheorems, TLAPS

Errors == {"none", "EOF", "fault", "ErrClosed", "cancelled"}

(* Every variable that carries messages or errors stays in its domain.     *)
BridgeTypeOK ==
    /\ sent \in [Sides -> Nat]
    /\ arrived \in [Sides -> Seq(Nat)] /\ taken \in [Sides -> Seq(Nat)]
    /\ hand \in [Sides -> Nat]
    /\ over \in [Sides -> {"no", "EOF", "fault"}]
    /\ pump \in [Sides -> {"receive", "send", "report", "ended"}]
    /\ fault \in [Sides -> Errors]
    /\ errCh \in Seq([of : Sides, err : Errors])
    /\ first \in [of : Sides, err : Errors]

(* The messages of a side are numbered as they are sent: those in t are    *)
(* forwarded, the pump may hold the next one (h), the rest is before it.   *)
Consecutive(t, h, r, n) ==
    LET held == IF h = 0 THEN 0 ELSE 1
    IN  /\ \A i \in 1 .. Len(t) : t[i] = i
        /\ h # 0 => h = Len(t) + 1
        /\ \A i \in 1 .. Len(r) : r[i] = Len(t) + held + i
        /\ Len(t) + held + Len(r) = n

Numbered(x) == Consecutive(taken[Opposite(x)], hand[x], arrived[x], sent[x])

HandInv ==
    \A x \in Sides :
        /\ pump[x] = "receive" => hand[x] = 0
        /\ pump[x] = "send" => hand[x] # 0

(* A pump whose error is io.EOF has nothing left to do.                    *)
Drained(x) == over[x] = "EOF" /\ hand[x] = 0 /\ (x \in Drains => arrived[x] = <<>>)

EndInv ==
    \A x \in Sides : fault[x] = "EOF" => pump[x] \in {"report", "ended"} /\ Drained(x)

(* What is on errCh is the error of a pump that has ended.                 *)
Settled(entry) == entry.err = fault[entry.of] /\ pump[entry.of] = "ended"

EntryInv ==
    /\ \A i \in 1 .. Len(errCh) : Settled(errCh[i])
    /\ first = NoFault \/ Settled(first)

(***************************************************************************)
(* Forwarded speaks of three sequences put together; what a step keeps is  *)
(* the number of each message (Numbered), and, for the second part of it,  *)
(* that an io.EOF was seen with nothing before the pump (EndInv).          *)
(***************************************************************************)
BridgeInv ==
    BridgeTypeOK /\ (\A x \in Sides : Numbered(x)) /\ HandInv /\ EndInv /\ EntryInv

-----------------------------------------------------------------------------
(* Numbers in their order, when a message comes, is taken and is sent.     *)

LEMMA ConsecutiveArrive ==
    ASSUME NEW t \in Seq(Nat), NEW h \in Nat, NEW r \in Seq(Nat), NEW n \in Nat,
           Consecutive(t, h, r, n)
    PROVE  Consecutive(t, h, Append(r, n + 1), n + 1)
<1> DEFINE held == IF h = 0 THEN 0 ELSE 1
           q == Append(r, n + 1)
<1>1. Len(q) = Len(r) + 1 /\ Len(r) \in Nat /\ Len(t) \in Nat /\ held \in Nat
  BY AppendProperties
<1>2. (\A i \in 1 .. Len(r) : q[i] = r[i]) /\ q[Len(r) + 1] = n + 1
  BY AppendProperties
<1>3. Len(t) + held + Len(r) = n
  BY DEF Consecutive
<1>4. /\ \A i \in 1 .. Len(t) : t[i] = i
      /\ h # 0 => h = Len(t) + 1
  BY DEF Consecutive
<1>5. \A i \in 1 .. Len(r) : r[i] = Len(t) + held + i
  BY DEF Consecutive
<1> HIDE DEF held, q
<1>6. n + 1 = Len(t) + held + (Len(r) + 1)
  <2> DEFINE a == Len(t)
             b == Len(r)
  <2>1. a \in Nat /\ b \in Nat /\ held \in Nat /\ a + held + b = n
    BY <1>1, <1>3
  <2> HIDE DEF a, b
  <2>2. n + 1 = a + held + (b + 1)
    BY <2>1
  <2> QED
    BY <2>2 DEF a, b
<1>7. ASSUME NEW i \in 1 .. Len(q) PROVE q[i] = Len(t) + held + i
  <2>1. CASE i \in 1 .. Len(r)
    BY <2>1, <1>2, <1>5
  <2>2. CASE i = Len(r) + 1
    BY <2>2, <1>2, <1>6
  <2> QED
    BY <2>1, <2>2, <1>1
<1>8. Len(t) + held + Len(q) = n + 1
  BY <1>1, <1>6
<1>9. \A i \in 1 .. Len(q) : q[i] = Len(t) + held + i
  BY <1>7
<1>10. Consecutive(t, h, q, n + 1)
  BY <1>4, <1>8, <1>9 DEF Consecutive, held
<1> QED
  BY <1>10 DEF q

LEMMA ConsecutiveReceive ==
    ASSUME NEW t \in Seq(Nat), NEW r \in Seq(Nat), NEW n \in Nat, r # <<>>,
           Consecutive(t, 0, r, n)
    PROVE  /\ Consecutive(t, Head(r), Tail(r), n)
           /\ Head(r) \in Nat \ {0} /\ Tail(r) \in Seq(Nat)
<1> DEFINE q == Tail(r)
<1>1. /\ Head(r) = r[1] /\ Len(r) \in Nat \ {0} /\ q \in Seq(Nat)
      /\ Len(q) = Len(r) - 1 /\ Len(t) \in Nat
  BY HeadTailProperties, EmptySeq
<1>2. \A i \in 1 .. Len(q) : q[i] = r[i + 1]
  BY HeadTailProperties
<1>3. /\ \A i \in 1 .. Len(t) : t[i] = i
      /\ Len(t) + Len(r) = n
  BY <1>1 DEF Consecutive
<1>4. \A i \in 1 .. Len(r) : r[i] = Len(t) + i
  BY <1>1 DEF Consecutive
<1> HIDE DEF q
<1>5. Head(r) = Len(t) + 1
  BY <1>1, <1>4
<1>6. \A i \in 1 .. Len(q) : q[i] = Len(t) + 1 + i
  BY <1>1, <1>2, <1>4
<1>7. Len(t) + 1 + Len(q) = n
  <2> DEFINE a == Len(t)
             b == Len(r)
             c == Len(q)
  <2>1. a \in Nat /\ b \in Nat /\ c = b - 1 /\ a + b = n
    BY <1>1, <1>3
  <2> HIDE DEF a, b, c
  <2>2. a + 1 + c = n
    BY <2>1
  <2> QED
    BY <2>2 DEF a, b, c
<1>8. Consecutive(t, Head(r), q, n)
  BY <1>1, <1>3, <1>5, <1>6, <1>7 DEF Consecutive
<1> QED
  BY <1>1, <1>5, <1>8 DEF q

LEMMA ConsecutiveSend ==
    ASSUME NEW t \in Seq(Nat), NEW h \in Nat \ {0}, NEW r \in Seq(Nat), NEW n \in Nat,
           Consecutive(t, h, r, n)
    PROVE  Consecutive(Append(t, h), 0, r, n)
<1> DEFINE q == Append(t, h)
<1>1. Len(q) = Len(t) + 1 /\ Len(t) \in Nat /\ Len(r) \in Nat
  BY AppendProperties
<1>2. (\A i \in 1 .. Len(t) : q[i] = t[i]) /\ q[Len(t) + 1] = h
  BY AppendProperties
<1> HIDE DEF q
<1>3. \A i \in 1 .. Len(t) : t[i] = i
  BY DEF Consecutive
<1>4. h = Len(t) + 1 /\ Len(t) + 1 + Len(r) = n
  BY DEF Consecutive
<1>5. \A i \in 1 .. Len(r) : r[i] = Len(t) + 1 + i
  BY DEF Consecutive
<1>6. ASSUME NEW i \in 1 .. Len(q) PROVE q[i] = i
  <2>1. CASE i \in 1 .. Len(t)
    BY <2>1, <1>2, <1>3
  <2>2. CASE i = Len(t) + 1
    BY <2>2, <1>2, <1>4
  <2> QED
    BY <2>1, <2>2, <1>1
<1>7. \A i \in 1 .. Len(r) : r[i] = Len(q) + 0 + i
  BY <1>1, <1>5
<1>8. Len(q) + 0 + Len(r) = n
  BY <1>1, <1>4
<1>9. Consecutive(q, 0, r, n)
  BY <1>6, <1>7, <1>8 DEF Consecutive
<1> QED
  BY <1>9 DEF q

USE BridgeAssumption

LEMMA TwoSides ==
    /\ A \in Sides /\ B \in Sides /\ Drains \subseteq Sides
    /\ \A x \in Sides : Opposite(x) \in Sides /\ Opposite(x) # x
    /\ \A x, y \in Sides : Opposite(x) = Opposite(y) => x = y
    /\ \A x, y \in Sides : Opposite(x) = y => Opposite(y) = x
  BY DEF Sides, Opposite

LEMMA BridgeInvInit == BridgeInit => BridgeInv
<1> SUFFICES ASSUME BridgeInit PROVE BridgeInv
  OBVIOUS
<1>1. BridgeTypeOK
  BY TwoSides DEF BridgeInit, BridgeTypeOK, Errors, NoFault
<1>2. ASSUME NEW x \in Sides PROVE Numbered(x)
  BY TwoSides DEF BridgeInit, Numbered, Consecutive
<1>3. HandInv
  BY DEF BridgeInit, HandInv
<1>4. EndInv /\ EntryInv
  BY DEF BridgeInit, EndInv, EntryInv
<1> QED
  BY <1>1, <1>2, <1>3, <1>4 DEF BridgeInv

-----------------------------------------------------------------------------
(* The messages.                                                           *)

LEMMA EntriesOfSides ==
    ASSUME BridgeTypeOK
    PROVE  (\A i \in 1 .. Len(errCh) : errCh[i].of \in Sides) /\ first.of \in Sides
<1>1. \A i \in 1 .. Len(errCh) : errCh[i] \in [of : Sides, err : Errors]
  BY ElementOfSeq DEF BridgeTypeOK
<1> QED
  BY <1>1 DEF BridgeTypeOK

(* A pump that has not ended can do nothing to what is on errCh.           *)
LEMMA EntriesStay ==
    ASSUME BridgeTypeOK, EntryInv, NEW x \in Sides, pump[x] # "ended",
           \A y \in Sides : y # x => pump'[y] = pump[y] /\ fault'[y] = fault[y],
           UNCHANGED <<errCh, first>>
    PROVE  EntryInv'
  BY EntriesOfSides DEF EntryInv, Settled

LEMMA ArrivesKeeps ==
    ASSUME NEW x \in Sides, BridgeInv, Arrives(x) PROVE BridgeInv'
<1>1. BridgeTypeOK /\ HandInv /\ EndInv /\ EntryInv /\ \A y \in Sides : Numbered(y)
  BY DEF BridgeInv
<1>2. /\ sent' = [sent EXCEPT ![x] = @ + 1]
      /\ arrived' = [arrived EXCEPT ![x] = Append(@, sent[x] + 1)]
      /\ over[x] = "no"
      /\ UNCHANGED <<over, hand, pump, fault, taken, errCh, first>>
  BY <1>1 DEF Arrives, BridgeTypeOK
<1>3. BridgeTypeOK'
  BY <1>1, <1>2 DEF BridgeTypeOK
<1>4. ASSUME NEW y \in Sides PROVE Numbered(y)'
  <2>1. CASE y = x
    <3>1. /\ taken[Opposite(x)] \in Seq(Nat) /\ hand[x] \in Nat
          /\ arrived[x] \in Seq(Nat) /\ sent[x] \in Nat
          /\ Consecutive(taken[Opposite(x)], hand[x], arrived[x], sent[x])
      BY <1>1, TwoSides DEF Numbered, BridgeTypeOK
    <3>2. Consecutive(taken[Opposite(x)], hand[x], Append(arrived[x], sent[x] + 1), sent[x] + 1)
      BY <3>1, ConsecutiveArrive
    <3>3. arrived'[x] = Append(arrived[x], sent[x] + 1) /\ sent'[x] = sent[x] + 1
      BY <1>1, <1>2 DEF BridgeTypeOK
    <3> QED
      BY <2>1, <1>2, <3>2, <3>3 DEF Numbered
  <2>2. CASE y # x
    BY <2>2, <1>1, <1>2 DEF Numbered, BridgeTypeOK
  <2> QED
    BY <2>1, <2>2
<1>5. HandInv'
  BY <1>1, <1>2 DEF HandInv
<1>6. \A y \in Sides : Drained(y) => Drained(y)'
  BY <1>1, <1>2 DEF Drained, BridgeTypeOK
<1>7. EndInv' /\ EntryInv'
  BY <1>1, <1>2, <1>6 DEF EndInv, EntryInv, Settled
<1> QED
  BY <1>3, <1>4, <1>5, <1>7 DEF BridgeInv

LEMMA ReceivesKeeps ==
    ASSUME NEW x \in Sides, BridgeInv, PumpReceives(x) PROVE BridgeInv'
<1>1. BridgeTypeOK /\ HandInv /\ EndInv /\ EntryInv /\ \A y \in Sides : Numbered(y)
  BY DEF BridgeInv
<1>2. /\ pump[x] = "receive" /\ arrived[x] # <<>> /\ arrived[x] \in Seq(Nat)
      /\ hand' = [hand EXCEPT ![x] = Head(arrived[x])]
      /\ arrived' = [arrived EXCEPT ![x] = Tail(arrived[x])]
      /\ pump' = [pump EXCEPT ![x] = "send"]
      /\ UNCHANGED <<sent, over, fault, taken, errCh, first>>
  BY <1>1 DEF PumpReceives, BridgeTypeOK
<1>3. hand[x] = 0
  BY <1>1, <1>2 DEF HandInv
<1>4. /\ Consecutive(taken[Opposite(x)], Head(arrived[x]), Tail(arrived[x]), sent[x])
      /\ Head(arrived[x]) \in Nat \ {0} /\ Tail(arrived[x]) \in Seq(Nat)
  BY <1>1, <1>2, <1>3, ConsecutiveReceive, TwoSides DEF Numbered, BridgeTypeOK
<1>5. BridgeTypeOK'
  BY <1>1, <1>2, <1>4 DEF BridgeTypeOK
<1>6. ASSUME NEW y \in Sides PROVE Numbered(y)'
  <2>1. CASE y = x
    BY <2>1, <1>1, <1>2, <1>4 DEF Numbered, BridgeTypeOK
  <2>2. CASE y # x
    BY <2>2, <1>1, <1>2 DEF Numbered, BridgeTypeOK
  <2> QED
    BY <2>1, <2>2
<1>7. HandInv'
  BY <1>1, <1>2, <1>4 DEF HandInv, BridgeTypeOK
<1>8. EndInv'
  <2>1. fault[x] # "EOF"
    BY <1>1, <1>2 DEF EndInv
  <2>2. \A y \in Sides : Drained(y) /\ y # x => Drained(y)'
    BY <1>1, <1>2 DEF Drained, BridgeTypeOK
  <2> QED
    BY <1>1, <1>2, <2>1, <2>2 DEF EndInv, BridgeTypeOK
<1>9. EntryInv'
  BY <1>1, <1>2, EntriesStay DEF BridgeTypeOK
<1> QED
  BY <1>5, <1>6, <1>7, <1>8, <1>9 DEF BridgeInv

LEMMA SendsKeeps ==
    ASSUME NEW x \in Sides, BridgeInv, PumpSends(x) PROVE BridgeInv'
<1>1. BridgeTypeOK /\ HandInv /\ EndInv /\ EntryInv /\ \A y \in Sides : Numbered(y)
  BY DEF BridgeInv
<1>2. /\ pump[x] = "send" /\ hand[x] \in Nat \ {0}
      /\ taken' = [taken EXCEPT ![Opposite(x)] = Append(@, hand[x])]
      /\ hand' = [hand EXCEPT ![x] = 0]
      /\ pump' = [pump EXCEPT ![x] = "receive"]
      /\ UNCHANGED <<sent, arrived, over, fault, errCh, first>>
  BY <1>1 DEF PumpSends, HandInv, BridgeTypeOK, endVars
<1>3. BridgeTypeOK'
  <2>1. Append(taken[Opposite(x)], hand[x]) \in Seq(Nat)
    BY <1>1, <1>2, TwoSides, AppendProperties DEF BridgeTypeOK
  <2>2. taken' \in [Sides -> Seq(Nat)]
    BY <1>1, <1>2, <2>1 DEF BridgeTypeOK
  <2> QED
    BY <1>1, <1>2, <2>2 DEF BridgeTypeOK
<1>4. ASSUME NEW y \in Sides PROVE Numbered(y)'
  <2>1. CASE y = x
    <3>0. Opposite(x) \in Sides
      BY TwoSides
    <3>1. /\ taken'[Opposite(x)] = Append(taken[Opposite(x)], hand[x])
          /\ hand'[x] = 0 /\ arrived'[x] = arrived[x] /\ sent'[x] = sent[x]
      BY <1>1, <1>2, <3>0 DEF BridgeTypeOK
    <3>2. Consecutive(Append(taken[Opposite(x)], hand[x]), 0, arrived[x], sent[x])
      BY <1>1, <1>2, ConsecutiveSend, TwoSides DEF Numbered, BridgeTypeOK
    <3> QED
      BY <2>1, <3>1, <3>2 DEF Numbered
  <2>2. CASE y # x
    <3>1. Opposite(y) # Opposite(x) /\ Opposite(y) \in Sides
      BY <2>2, TwoSides
    <3> QED
      BY <2>2, <3>1, <1>1, <1>2 DEF Numbered, BridgeTypeOK
  <2> QED
    BY <2>1, <2>2
<1>5. HandInv'
  BY <1>1, <1>2 DEF HandInv, BridgeTypeOK
<1>6. EndInv'
  <2>1. \A y \in Sides : Drained(y) => Drained(y)'
    BY <1>1, <1>2 DEF Drained, BridgeTypeOK
  <2> QED
    BY <1>1, <1>2, <2>1 DEF EndInv, BridgeTypeOK
<1>7. EntryInv'
  BY <1>1, <1>2, EntriesStay DEF BridgeTypeOK
<1> QED
  BY <1>3, <1>4, <1>5, <1>6, <1>7 DEF BridgeInv

-----------------------------------------------------------------------------
(* The errors.                                                             *)

LEMMA FailsKeeps ==
    ASSUME NEW x \in Sides, NEW err \in Errors, BridgeInv, Fails(x, err),
           pump[x] \in {"receive", "send"}, err = "EOF" => Drained(x)
    PROVE  BridgeInv'
<1>1. BridgeTypeOK /\ HandInv /\ EndInv /\ EntryInv /\ \A y \in Sides : Numbered(y)
  BY DEF BridgeInv
<1>2. /\ pump' = [pump EXCEPT ![x] = "report"]
      /\ fault' = [fault EXCEPT ![x] = err]
      /\ UNCHANGED <<sent, arrived, over, hand, taken, errCh, first>>
  BY DEF Fails, endVars
<1>3. BridgeTypeOK' /\ HandInv'
  BY <1>1, <1>2 DEF BridgeTypeOK, HandInv
<1>4. \A y \in Sides : Numbered(y)'
  BY <1>1, <1>2 DEF Numbered
<1>5. EndInv'
  BY <1>1, <1>2 DEF EndInv, Drained, BridgeTypeOK
<1>6. EntryInv'
  BY <1>1, <1>2, EntriesStay DEF BridgeTypeOK
<1> QED
  BY <1>3, <1>4, <1>5, <1>6 DEF BridgeInv

LEMMA ErrorsKeep ==
    ASSUME NEW x \in Sides, NEW err \in Errors, BridgeInv,
           ReceiveError(x, err) \/ (SendError(x, err) /\ err # "EOF")
    PROVE  BridgeInv'
<1>1. Fails(x, err) /\ pump[x] \in {"receive", "send"}
  BY DEF ReceiveError, SendError, Refused
<1>2. err = "EOF" => Drained(x)
  BY DEF BridgeInv, HandInv, ReceiveError, Drained
<1> QED
  BY <1>1, <1>2, FailsKeeps

LEMMA ReportsKeeps ==
    ASSUME NEW x \in Sides, BridgeInv, PumpReports(x) PROVE BridgeInv'
<1> DEFINE entry == [of |-> x, err |-> fault[x]]
<1>1. BridgeTypeOK /\ HandInv /\ EndInv /\ EntryInv /\ \A y \in Sides : Numbered(y)
  BY DEF BridgeInv
<1>2. /\ pump[x] = "report"
      /\ errCh' = Append(errCh, entry)
      /\ pump' = [pump EXCEPT ![x] = "ended"]
      /\ UNCHANGED <<sent, arrived, over, hand, fault, taken, first>>
  BY DEF PumpReports, endVars
<1>3. entry \in [of : Sides, err : Errors] /\ errCh \in Seq([of : Sides, err : Errors])
  BY <1>1 DEF BridgeTypeOK
<1>4. BridgeTypeOK' /\ HandInv'
  BY <1>1, <1>2, <1>3 DEF BridgeTypeOK, HandInv
<1>5. \A y \in Sides : Numbered(y)'
  BY <1>1, <1>2 DEF Numbered
<1>6. EndInv'
  BY <1>1, <1>2 DEF EndInv, Drained, BridgeTypeOK
<1>7. /\ Len(errCh') = Len(errCh) + 1 /\ Len(errCh) \in Nat
      /\ \A i \in 1 .. Len(errCh) : errCh'[i] = errCh[i]
      /\ errCh'[Len(errCh) + 1] = entry
  BY <1>2, <1>3, AppendProperties
<1>8. EntryInv'
  <2>1. ASSUME NEW i \in 1 .. Len(errCh) + 1 PROVE Settled(errCh[i])'
    <3>1. CASE i \in 1 .. Len(errCh)
      <4>1. Settled(errCh[i]) /\ errCh[i].of \in Sides /\ errCh'[i] = errCh[i]
        BY <3>1, <1>1, <1>7, EntriesOfSides DEF EntryInv
      <4> QED
        BY <4>1, <1>1, <1>2 DEF Settled, BridgeTypeOK
    <3>2. CASE i = Len(errCh) + 1
      <4>1. errCh'[i] = entry /\ entry.of = x /\ entry.err = fault[x]
        BY <3>2, <1>7
      <4> QED
        BY <4>1, <1>1, <1>2 DEF Settled, BridgeTypeOK
    <3> QED
      BY <3>1, <3>2, <1>7
  <2>2. (first = NoFault \/ Settled(first))'
    BY <1>1, <1>2, EntriesOfSides DEF EntryInv, Settled, BridgeTypeOK, NoFault
  <2> QED
    BY <2>1, <2>2, <1>7 DEF EntryInv
<1> QED
  BY <1>4, <1>5, <1>6, <1>8 DEF BridgeInv

LEMMA TakeErrorKeeps ==
    ASSUME BridgeInv, TakeError PROVE BridgeInv'
<1>1. BridgeTypeOK /\ HandInv /\ EndInv /\ EntryInv /\ \A y \in Sides : Numbered(y)
  BY DEF BridgeInv
<1>2. /\ errCh # <<>> /\ first' = Head(errCh) /\ errCh' = Tail(errCh)
      /\ UNCHANGED <<sent, arrived, over, pump, hand, fault, taken>>
  BY DEF TakeError, endVars
<1> DEFINE E == [of : Sides, err : Errors]
<1>0. errCh \in Seq(E)
  BY <1>1 DEF BridgeTypeOK
<1> HIDE DEF E
<1>3. /\ Head(errCh) = errCh[1] /\ Len(errCh) \in Nat \ {0}
      /\ Head(errCh) \in E
      /\ Tail(errCh) \in Seq(E)
      /\ Len(Tail(errCh)) = Len(errCh) - 1
      /\ \A i \in 1 .. Len(Tail(errCh)) : Tail(errCh)[i] = errCh[i + 1]
  BY <1>0, <1>2, HeadTailProperties, EmptySeq
<1>4. BridgeTypeOK' /\ HandInv'
  BY <1>1, <1>2, <1>3 DEF BridgeTypeOK, HandInv, E
<1>5. \A y \in Sides : Numbered(y)'
  BY <1>1, <1>2 DEF Numbered
<1>6. EndInv'
  BY <1>1, <1>2 DEF EndInv, Drained
<1>7. EntryInv'
  BY <1>1, <1>2, <1>3 DEF EntryInv, Settled
<1> QED
  BY <1>4, <1>5, <1>6, <1>7 DEF BridgeInv

LEMMA OtherStepsKeep ==
    ASSUME BridgeInv,
           \/ \E x \in Sides : IsOver(x, "EOF") \/ IsOver(x, "fault")
           \/ Cancel \/ CloseA \/ CloseB \/ UNCHANGED bridgeVars
    PROVE  BridgeInv'
<1>1. BridgeTypeOK /\ HandInv /\ EndInv /\ EntryInv /\ \A y \in Sides : Numbered(y)
  BY DEF BridgeInv
<1>2. UNCHANGED <<sent, arrived, pump, hand, fault, taken, errCh, first>>
  BY DEF IsOver, Cancel, CloseA, CloseB, bridgeVars, endVars
<1>3. /\ over' \in [Sides -> {"no", "EOF", "fault"}]
      /\ \A x \in Sides : over[x] = "EOF" => over'[x] = "EOF"
  BY <1>1 DEF IsOver, Cancel, CloseA, CloseB, bridgeVars, endVars, BridgeTypeOK
<1>4. BridgeTypeOK' /\ HandInv' /\ EntryInv'
  BY <1>1, <1>2, <1>3 DEF BridgeTypeOK, HandInv, EntryInv, Settled
<1>5. \A y \in Sides : Numbered(y)'
  BY <1>1, <1>2 DEF Numbered
<1>6. EndInv'
  BY <1>1, <1>2, <1>3 DEF EndInv, Drained
<1> QED
  BY <1>4, <1>5, <1>6 DEF BridgeInv

LEMMA BridgeInvNext == BridgeInv /\ [BridgeNext]_bridgeVars => BridgeInv'
<1> SUFFICES ASSUME BridgeInv, [BridgeNext]_bridgeVars PROVE BridgeInv'
  OBVIOUS
<1>1. ASSUME NEW x \in Sides, Arrives(x) PROVE BridgeInv'
  BY <1>1, ArrivesKeeps
<1>2. ASSUME NEW x \in Sides, PumpStep(x) PROVE BridgeInv'
  BY <1>2, ReceivesKeeps, SendsKeeps, ReportsKeeps, ErrorsKeep DEF PumpStep, Errors
<1>3. ASSUME NEW x \in Sides, NEW err \in {"fault", "ErrClosed", "cancelled"},
             SendError(x, err)
      PROVE  BridgeInv'
  BY <1>3, ErrorsKeep DEF Errors
<1>4. ASSUME TakeError PROVE BridgeInv'
  BY <1>4, TakeErrorKeeps
<1> QED
  BY <1>1, <1>2, <1>3, <1>4, OtherStepsKeep DEF BridgeNext, BridgeStep

-----------------------------------------------------------------------------

(* The three places together hold the messages in the order of their       *)
(* numbers.                                                                *)
LEMMA CourseInOrder ==
    ASSUME BridgeInv, NEW x \in Sides
    PROVE  Course(x) = [i \in 1 .. sent[x] |-> i]
<1> DEFINE T == taken[Opposite(x)]
           H == IF hand[x] = 0 THEN <<>> ELSE <<hand[x]>>
           R == arrived[x]
<1>1. T \in Seq(Nat) /\ H \in Seq(Nat) /\ R \in Seq(Nat) /\ sent[x] \in Nat
  BY TwoSides DEF BridgeInv, BridgeTypeOK
<1>2. /\ \A i \in 1 .. Len(T) : T[i] = i
      /\ \A i \in 1 .. Len(H) : H[i] = Len(T) + i
      /\ \A i \in 1 .. Len(R) : R[i] = Len(T) + Len(H) + i
      /\ Len(T) + Len(H) + Len(R) = sent[x]
  <2> DEFINE h == hand[x]
             n == sent[x]
  <2>1. Consecutive(T, h, R, n) /\ Len(T) \in Nat /\ Len(R) \in Nat /\ h \in Nat
    BY <1>1 DEF BridgeInv, Numbered, BridgeTypeOK
  <2>2. (h = 0 => Len(H) = 0) /\ (h # 0 => Len(H) = 1 /\ H[1] = h)
    OBVIOUS
  <2> HIDE DEF T, H, R, h, n
  <2>3. CASE h = 0
    <3>1. Len(H) = 0
      BY <2>2, <2>3
    <3> QED
      BY <2>1, <2>3, <3>1 DEF Consecutive, n
  <2>4. CASE h # 0
    <3>1. Len(H) = 1 /\ H[1] = h
      BY <2>2, <2>4
    <3>2. /\ \A i \in 1 .. Len(T) : T[i] = i
          /\ h = Len(T) + 1
          /\ \A i \in 1 .. Len(R) : R[i] = Len(T) + 1 + i
          /\ Len(T) + 1 + Len(R) = n
      BY <2>1, <2>4 DEF Consecutive
    <3>3. \A i \in 1 .. Len(H) : i = 1
      BY <3>1
    <3> QED
      BY <3>1, <3>2, <3>3 DEF n
  <2> QED
    BY <2>3, <2>4
<1>3. Course(x) = (T \o H) \o R
  BY DEF Course
<1> HIDE DEF T, H, R
<1>4. /\ T \o H \in Seq(Nat) /\ Len(T \o H) = Len(T) + Len(H)
      /\ \A i \in 1 .. Len(T) + Len(H) : (T \o H)[i] = i
  BY <1>1, <1>2, ConcatProperties
<1> DEFINE S == T \o H
<1>5. S \in Seq(Nat) /\ Len(S) + Len(R) = sent[x] /\ Len(S) \in Nat /\ Len(R) \in Nat
      /\ (\A i \in 1 .. Len(S) : S[i] = i)
      /\ (\A i \in 1 .. Len(R) : R[i] = Len(S) + i)
  BY <1>1, <1>2, <1>4
<1> HIDE DEF S
<1>6. /\ S \o R \in Seq(Nat) /\ Len(S \o R) = sent[x]
      /\ \A i \in 1 .. sent[x] : (S \o R)[i] = i
  BY <1>1, <1>5, ConcatProperties
<1> DEFINE W == S \o R
<1> HIDE DEF W
<1>7. W \in Seq(Nat) /\ Len(W) = sent[x] /\ \A i \in 1 .. sent[x] : W[i] = i
  BY <1>6 DEF W
<1>8. W = [i \in 1 .. sent[x] |-> i]
  BY <1>1, <1>7
<1> QED
  BY <1>3, <1>8 DEF W, S

LEMMA InvForwarded == BridgeInv => Forwarded
<1> SUFFICES ASSUME BridgeInv PROVE Forwarded
  OBVIOUS
<1>1. ASSUME NEW x \in Drains, first = [of |-> x, err |-> "EOF"]
      PROVE  Len(taken[Opposite(x)]) = sent[x]
  <2>1. x \in Sides /\ first.of = x /\ first.err = "EOF"
    BY <1>1, TwoSides
  <2>2. Settled(first)
    BY <2>1 DEF BridgeInv, EntryInv, NoFault
  <2>3. hand[x] = 0 /\ arrived[x] = <<>>
    BY <1>1, <2>1, <2>2 DEF BridgeInv, EndInv, Settled, Drained
  <2>4. Consecutive(taken[Opposite(x)], 0, <<>>, sent[x])
    BY <2>1, <2>3 DEF BridgeInv, Numbered
  <2>5. taken[Opposite(x)] \in Seq(Nat)
    BY <2>1, TwoSides DEF BridgeInv, BridgeTypeOK
  <2> QED
    BY <2>4, <2>5 DEF Consecutive
<1> QED
  BY <1>1, CourseInOrder DEF Forwarded

(***************************************************************************)
(* A bridge neither loses nor repeats nor reorders, and does not cut off   *)
(* what a draining connection held (Bridge.Forwarded), for any number of   *)
(* messages and whichever of the two connections drain.                    *)
(***************************************************************************)
THEOREM BridgeForwards == BridgeInit /\ [][BridgeNext]_bridgeVars => []Forwarded
  BY BridgeInvInit, BridgeInvNext, InvForwarded, PTL

-----------------------------------------------------------------------------
(* Bridge and its pumps never wait for each other.                         *)

HasEnded(x) == IF pump[x] = "ended" THEN 1 ELSE 0

(* Each pump has reported once when it has ended, and Bridge has taken one *)
(* report when it goes on.                                                 *)
CountInv ==
    Len(errCh) + (IF bridge = "wait" THEN 0 ELSE 1) = HasEnded(A) + HasEnded(B)

ShutInv ==
    /\ bridge \in {"wait", "closeA", "closeB", "returned"}
    /\ bridge \in {"closeB", "returned"} => A \in shut
    /\ bridge = "returned" => B \in shut

(***************************************************************************)
(* errCh has room for the error of each pump, though Bridge takes only one *)
(* of them; while Bridge waits, no pump has ended whose error it would not *)
(* find; and when it returns it has closed both connections, which is what *)
(* ends the pump that still runs.                                          *)
(***************************************************************************)
NobodyStuck ==
    /\ \A x \in Sides : pump[x] = "report" => Len(errCh) < 2
    /\ bridge = "wait" /\ (\E x \in Sides : pump[x] = "ended") => errCh # <<>>
    /\ bridge = "returned" => Sides \subseteq shut

LEMMA CountInvNext ==
    ASSUME BridgeInv, CountInv, [BridgeNext]_bridgeVars PROVE CountInv'
<1>1. /\ pump \in [Sides -> {"receive", "send", "report", "ended"}]
      /\ errCh \in Seq([of : Sides, err : Errors]) /\ Len(errCh) \in Nat
  BY DEF BridgeInv, BridgeTypeOK
<1>2. A \in Sides /\ B \in Sides /\ A # B /\ \A x \in Sides : x = A \/ x = B
  BY DEF Sides
<1>3. ASSUME NEW x \in Sides, PumpReports(x) PROVE CountInv'
  <2> DEFINE entry == [of |-> x, err |-> fault[x]]
  <2>1. /\ pump[x] = "report" /\ pump' = [pump EXCEPT ![x] = "ended"]
        /\ errCh' = Append(errCh, entry) /\ bridge' = bridge
    BY <1>3 DEF PumpReports
  <2> HIDE DEF entry
  <2>2. Len(errCh') = Len(errCh) + 1
    BY <1>1, <2>1
  <2>3. /\ HasEnded(x) = 0 /\ HasEnded(x)' = 1
        /\ \A y \in Sides : y # x => HasEnded(y)' = HasEnded(y)
    BY <1>1, <2>1 DEF HasEnded
  <2>4. HasEnded(A) \in Nat /\ HasEnded(B) \in Nat
    BY DEF HasEnded
  <2>5. HasEnded(A)' + HasEnded(B)' = HasEnded(A) + HasEnded(B) + 1
    BY <1>2, <2>3, <2>4
  <2> QED
    BY <1>1, <2>1, <2>2, <2>4, <2>5 DEF CountInv
<1>4. ASSUME TakeError PROVE CountInv'
  <2>1. /\ bridge = "wait" /\ bridge' = "closeA" /\ errCh # <<>> /\ errCh' = Tail(errCh)
        /\ UNCHANGED pump
    BY <1>4 DEF TakeError
  <2>2. Len(errCh') = Len(errCh) - 1
    BY <1>1, <2>1, HeadTailProperties
  <2>3. Len(errCh) = HasEnded(A) + HasEnded(B)
    BY <1>1, <2>1 DEF CountInv
  <2>4. Len(errCh') + 1 = Len(errCh)
    BY <1>1, <2>2
  <2> QED
    BY <2>1, <2>3, <2>4 DEF CountInv, HasEnded
<1>5. ASSUME UNCHANGED errCh, (bridge' = "wait") = (bridge = "wait"),
             \A x \in Sides : (pump'[x] = "ended") = (pump[x] = "ended")
      PROVE  CountInv'
  BY <1>2, <1>5 DEF CountInv, HasEnded
<1>6. ASSUME NEW x \in Sides,
             PumpReceives(x) \/ PumpSends(x)
               \/ (\E err \in Errors : ReceiveError(x, err) \/ SendError(x, err))
      PROVE  CountInv'
  <2>1. pump[x] \in {"receive", "send"} /\ UNCHANGED <<errCh, bridge>>
    BY <1>6 DEF PumpReceives, PumpSends, ReceiveError, SendError, Refused, Fails
  <2>2. /\ pump'[x] \in {"receive", "send", "report"}
        /\ \A y \in Sides : y # x => pump'[y] = pump[y]
    BY <1>1, <1>6 DEF PumpReceives, PumpSends, ReceiveError, SendError, Refused, Fails
  <2> QED
    BY <1>5, <2>1, <2>2
<1>7. ASSUME \/ \E x \in Sides : Arrives(x) \/ IsOver(x, "EOF") \/ IsOver(x, "fault")
             \/ Cancel \/ CloseA \/ CloseB \/ UNCHANGED bridgeVars
      PROVE  CountInv'
  <2>1. UNCHANGED <<errCh, pump>> /\ (bridge' = "wait") = (bridge = "wait")
    BY <1>7 DEF Arrives, IsOver, Cancel, CloseA, CloseB, AfterCloseA, bridgeVars
  <2> QED
    BY <1>5, <2>1
<1> QED
  BY <1>3, <1>4, <1>6, <1>7 DEF BridgeNext, BridgeStep, PumpStep, Errors

LEMMA ShutInvNext ==
    ASSUME ShutInv, [BridgeNext]_bridgeVars PROVE ShutInv'
<1>1. ASSUME UNCHANGED <<bridge, shut>> PROVE ShutInv'
  BY <1>1 DEF ShutInv
<1>2. ASSUME BridgeStep PROVE ShutInv'
  BY <1>2 DEF BridgeStep, TakeError, CloseA, CloseB, AfterCloseA, ShutInv
<1> QED
  BY <1>1, <1>2 DEF BridgeNext, PumpStep, Arrives, IsOver, Cancel, PumpReceives, PumpSends,
     PumpReports, ReceiveError, SendError, Refused, Fails, bridgeVars

(***************************************************************************)
(* No goroutine of a bridge is ever stuck on another one: a pump that has  *)
(* met an error finds room on errCh, Bridge finds the error of a pump that *)
(* has ended, and a Bridge that has returned has closed both connections.  *)
(***************************************************************************)
THEOREM BridgeNeverStuck == BridgeInit /\ [][BridgeNext]_bridgeVars => []NobodyStuck
<1> DEFINE I == BridgeInv /\ CountInv /\ ShutInv
<1>1. BridgeInit => I
  BY BridgeInvInit, TwoSides DEF BridgeInit, CountInv, ShutInv, HasEnded
<1>2. I /\ [BridgeNext]_bridgeVars => I'
  BY BridgeInvNext, CountInvNext, ShutInvNext
<1>3. I => NobodyStuck
  <2> SUFFICES ASSUME I PROVE NobodyStuck
    OBVIOUS
  <2>1. /\ errCh \in Seq([of : Sides, err : Errors]) /\ Len(errCh) \in Nat
    BY DEF BridgeInv, BridgeTypeOK
  <2>2. \A x \in Sides : x = A \/ x = B
    BY DEF Sides
  <2>3. ASSUME NEW x \in Sides, pump[x] = "report" PROVE Len(errCh) < 2
    BY <2>1, <2>2, <2>3 DEF CountInv, HasEnded
  <2>4. ASSUME bridge = "wait", NEW x \in Sides, pump[x] = "ended" PROVE errCh # <<>>
    <3>1. Len(errCh) > 0
      BY <2>1, <2>2, <2>4 DEF CountInv, HasEnded
    <3> QED
      BY <3>1
  <2>5. bridge = "returned" => Sides \subseteq shut
    BY DEF ShutInv, Sides
  <2> QED
    BY <2>1, <2>3, <2>4, <2>5 DEF NobodyStuck
<1> HIDE DEF I
<1> QED
  BY <1>1, <1>2, <1>3, PTL
=============================================================================
