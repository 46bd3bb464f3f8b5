--------------------------- MODULE MessageProofs ---------------------------
(***************************************************************************)
(* Theorems about the functions of Messages, Framing and EventStream, for  *)
(* arguments of any size.  Three of them are recursive; the induction that *)
(* they need is the one over the natural numbers, as a statement about sets*)
(* (SetInduction), which follows from the fact that < is well-founded.     *)
(***************************************************************************)
EXTENDS MCMessages, FiniteSetTheorems, SequenceTheorems, WellFoundedInduction, TLAPS

(* A nonempty set of natural numbers has a least element.                  *)
LEMMA LeastNat ==
    ASSUME NEW T, T \subseteq Nat, T # {}
    PROVE  \E x \in T : \A y \in T : x <= y
PROOF
<1> DEFINE R == {ss \in Nat \X Nat : ss[1] < ss[2]}
<1>1. IsWellFoundedOn(R, Nat) BY NatLessThanWellFounded DEF OpToRel
<1> HIDE DEF R
<1>2. PICK x \in T : \A y \in T : ~(<<y, x>> \in R) BY <1>1, WFMin
<1>3. \A y \in T : ~(y < x) BY <1>2 DEF R
<1> QED BY <1>3

(* Induction: a set that has 0 and the successors of its members.          *)
LEMMA SetInduction ==
    ASSUME NEW S, 0 \in S, \A n \in Nat : n \in S => n + 1 \in S
    PROVE  Nat \subseteq S
PROOF
<1>1. SUFFICES ASSUME Nat \ S # {} PROVE FALSE OBVIOUS
<1>2. PICK x \in Nat \ S : \A y \in Nat \ S : x <= y BY <1>1, LeastNat
<1>3. x # 0 /\ x - 1 \in Nat BY <1>2
<1>4. x - 1 \in S BY <1>2, <1>3
<1> QED BY <1>2, <1>3, <1>4

(* h is the beginning, up to n, of the sequence that f builds from b.      *)
Begins(h, n, b, f, S) ==
    /\ h \in [0 .. n -> S] /\ h[0] = b
    /\ \A i \in 0 .. n - 1 : h[i + 1] = f[i][h[i]]

LEMMA SameBeginning ==
    ASSUME NEW S, NEW b \in S, NEW f \in [Nat -> [S -> S]],
           NEW m \in Nat, NEW n \in Nat, m <= n,
           NEW g, NEW h, Begins(g, m, b, f, S), Begins(h, n, b, f, S)
    PROVE  \A i \in 0 .. m : g[i] = h[i]
PROOF
<1> DEFINE T == {i \in Nat : i <= m => g[i] = h[i]}
<1>1. 0 \in T BY DEF Begins
<1>2. ASSUME NEW i \in Nat, i \in T PROVE i + 1 \in T
  <2>1. SUFFICES ASSUME i + 1 <= m PROVE g[i + 1] = h[i + 1] OBVIOUS
  <2>2. i \in 0 .. m - 1 /\ i \in 0 .. n - 1 BY <2>1
  <2>3. g[i] = h[i] BY <1>2, <2>2
  <2> QED BY <2>2, <2>3 DEF Begins
<1> HIDE DEF T
<1>3. Nat \subseteq T BY <1>1, <1>2, SetInduction
<1> QED BY <1>3 DEF T

(* There is a sequence that f builds from b; f may differ from step to step.*)
Builds(b, f, S) == \E g \in [Nat -> S] : g[0] = b /\ \A n \in Nat : g[n + 1] = f[n][g[n]]

LEMMA PrimitiveRecursion ==
    ASSUME NEW S, NEW b \in S, NEW f \in [Nat -> [S -> S]]
    PROVE  Builds(b, f, S)
PROOF
<1> DEFINE T == {n \in Nat : \E h : Begins(h, n, b, f, S)}
<1>1. 0 \in T
  <2> DEFINE h == [i \in 0 .. 0 |-> b]
  <2>1. Begins(h, 0, b, f, S) BY DEF Begins
  <2> QED BY <2>1
<1>2. ASSUME NEW n \in Nat, n \in T PROVE n + 1 \in T
  <2>1. PICK h : Begins(h, n, b, f, S) BY <1>2
  <2> DEFINE k == [i \in 0 .. n + 1 |-> IF i <= n THEN h[i] ELSE f[n][h[n]]]
  <2>2. h \in [0 .. n -> S] /\ h[0] = b /\ \A i \in 0 .. n - 1 : h[i + 1] = f[i][h[i]]
    BY <2>1 DEF Begins
  <2>3. f[n][h[n]] \in S BY <2>2
  <2>4. k \in [0 .. n + 1 -> S] BY <2>2, <2>3
  <2>5. k[0] = b BY <2>2
  <2>6. ASSUME NEW i \in 0 .. n PROVE k[i + 1] = f[i][k[i]]
    <3>1. CASE i = n BY <2>2, <3>1
    <3>2. CASE i # n
      <4>1. i \in 0 .. n - 1 /\ i + 1 \in 0 .. n BY <3>2
      <4>2. k[i] = h[i] /\ k[i + 1] = h[i + 1] BY <4>1
      <4> QED BY <2>2, <4>1, <4>2
    <3> QED BY <3>1, <3>2
  <2>7. (n + 1) - 1 = n OBVIOUS
  <2> HIDE DEF k
  <2>8. Begins(k, n + 1, b, f, S) BY <2>4, <2>5, <2>6, <2>7 DEF Begins
  <2> QED BY <2>8
<1> HIDE DEF T
<1>3. Nat \subseteq T BY <1>1, <1>2, SetInduction
<1> DEFINE H(n) == CHOOSE h : Begins(h, n, b, f, S)
           g == [n \in Nat |-> H(n)[n]]
<1>4. ASSUME NEW n \in Nat PROVE Begins(H(n), n, b, f, S)
  <2>1. \E h : Begins(h, n, b, f, S) BY <1>3 DEF T
  <2> QED BY <2>1
<1> HIDE DEF H
<1>5. g \in [Nat -> S]
  <2>1. ASSUME NEW n \in Nat PROVE H(n)[n] \in S BY <1>4 DEF Begins
  <2> QED BY <2>1
<1>6. g[0] = b BY <1>4 DEF Begins
<1>7. ASSUME NEW n \in Nat PROVE g[n + 1] = f[n][g[n]]
  <2>1. Begins(H(n), n, b, f, S) /\ Begins(H(n + 1), n + 1, b, f, S) BY <1>4
  <2>2. H(n)[n] = H(n + 1)[n]
    <3>1. n + 1 \in Nat /\ n <= n + 1 /\ n \in 0 .. n OBVIOUS
    <3> QED BY <2>1, <3>1, SameBeginning
  <2>3. H(n + 1)[n + 1] = f[n][H(n + 1)[n]] BY <2>1 DEF Begins
  <2> QED BY <2>2, <2>3
<1> QED BY <1>5, <1>6, <1>7 DEF Builds

-----------------------------------------------------------------------------
(* Powers of ten.                                                          *)
LEMMA PowersOfTen ==
    /\ Pow10 \in [Nat -> Nat] /\ Pow10[0] = 1
    /\ \A n \in Nat : Pow10[n + 1] = 10 * Pow10[n]
PROOF
<1> DEFINE D(g) == [n \in Nat |-> IF n = 0 THEN 1 ELSE 10 * g[n - 1]]
           f == [n \in Nat |-> [x \in Nat |-> 10 * x]]
           S == Nat
           b == 1
<1>1. b \in S /\ f \in [Nat -> [S -> S]] OBVIOUS
<1> HIDE DEF f, S, b
<1>2. Builds(b, f, S) BY <1>1, PrimitiveRecursion
<1>3. \E g \in [Nat -> Nat] : g[0] = 1 /\ \A n \in Nat : g[n + 1] = f[n][g[n]]
  BY <1>2 DEF S, b, Builds
<1>4. PICK g \in [Nat -> Nat] : g[0] = 1 /\ \A n \in Nat : g[n + 1] = f[n][g[n]] BY <1>3
<1>5. g = D(g)
  <2>1. ASSUME NEW n \in Nat PROVE g[n] = D(g)[n]
    <3>1. CASE n = 0 BY <1>4, <3>1
    <3>2. CASE n # 0
      <4>1. n - 1 \in Nat /\ (n - 1) + 1 = n BY <3>2
      <4>2. g[n] = f[n - 1][g[n - 1]] BY <1>4, <4>1
      <4> QED BY <4>1, <4>2, <3>2 DEF f
    <3> QED BY <3>1, <3>2
  <2> QED BY <2>1
<1> HIDE DEF D
<1>6. Pow10 = CHOOSE h : h = D(h) BY DEF Pow10, D
<1>7. Pow10 = D(Pow10) BY <1>5, <1>6
<1>8. Pow10[0] = 1 BY <1>7 DEF D
<1>9. ASSUME NEW n \in Nat PROVE Pow10[n + 1] = 10 * Pow10[n] BY <1>7 DEF D
<1> DEFINE T == {n \in Nat : Pow10[n] \in Nat}
<1>10. Nat \subseteq T
  <2>1. 0 \in T BY <1>8
  <2>2. \A n \in Nat : n \in T => n + 1 \in T BY <1>9
  <2> HIDE DEF T
  <2> QED BY <2>1, <2>2, SetInduction
<1>11. Pow10 = [n \in Nat |-> Pow10[n]] BY <1>7 DEF D
<1> QED BY <1>8, <1>9, <1>10, <1>11

LEMMA PowersArePositive == \A n \in Nat : Pow10[n] \in Nat /\ Pow10[n] > 0
PROOF
<1> DEFINE T == {n \in Nat : Pow10[n] > 0}
<1>1. 0 \in T BY PowersOfTen
<1>2. \A n \in Nat : n \in T => n + 1 \in T BY PowersOfTen
<1> HIDE DEF T
<1>3. Nat \subseteq T BY <1>1, <1>2, SetInduction
<1> QED BY <1>3, PowersOfTen DEF T

LEMMA PowersAdd == \A m, n \in Nat : Pow10[m + n] = Pow10[m] * Pow10[n]
PROOF
<1>1. SUFFICES ASSUME NEW m \in Nat
               PROVE  \A n \in Nat : Pow10[m + n] = Pow10[m] * Pow10[n]
  OBVIOUS
<1> DEFINE T == {n \in Nat : Pow10[m + n] = Pow10[m] * Pow10[n]}
<1>2. 0 \in T BY PowersOfTen
<1>3. ASSUME NEW n \in Nat, n \in T PROVE n + 1 \in T
  <2> DEFINE p == Pow10[m]
             q == Pow10[n]
  <2>1. p \in Nat /\ q \in Nat BY PowersOfTen
  <2>2. Pow10[m + n] = p * q BY <1>3
  <2>3. Pow10[(m + n) + 1] = 10 * (p * q) BY <2>2, PowersOfTen
  <2>4. Pow10[n + 1] = 10 * q BY PowersOfTen
  <2>5. m + (n + 1) = (m + n) + 1 OBVIOUS
  <2> HIDE DEF p, q
  <2>6. 10 * (p * q) = p * (10 * q) BY <2>1
  <2> QED BY <2>3, <2>4, <2>5, <2>6 DEF p
<1> HIDE DEF T
<1>4. Nat \subseteq T BY <1>2, <1>3, SetInduction
<1> QED BY <1>4 DEF T

-----------------------------------------------------------------------------
(* Keys of ids.                                                            *)

(* What multiplication by a power of ten keeps apart.                      *)
LEMMA Cancel ==
    ASSUME NEW a \in Int, NEW b \in Int, NEW c \in Nat, c > 0
    PROVE  a * c = b * c <=> a = b
PROOF
<1>1. SUFFICES ASSUME a # b PROVE a * c # b * c OBVIOUS
<1>2. CASE a < b BY <1>2
<1>3. CASE b < a BY <1>3
<1> QED BY <1>1, <1>2, <1>3

(* c times the quotient by c, when c divides.                              *)
LEMMA Quotient ==
    ASSUME NEW a \in Int, NEW c \in Nat, c > 0, NEW q \in Int
    PROVE  (a % c = 0 /\ a \div c = q) <=> a = q * c
PROOF
<1>1. a = c * (a \div c) + (a % c) /\ a % c \in 0 .. c - 1 /\ a \div c \in Int OBVIOUS
<1> DEFINE d == a \div c
           r == a % c
<1>2. a = c * d + r /\ r \in 0 .. c - 1 /\ d \in Int BY <1>1
<1>3. r = 0 /\ d = q => a = q * c BY <1>2
<1>4. ASSUME a = q * c PROVE r = 0 /\ d = q
  <2> HIDE DEF d, r
  <2>1. c * (q - d) = r BY <1>2, <1>4
  <2>2. CASE q - d >= 1 BY <2>1, <2>2, <1>2
  <2>3. CASE q - d <= -1 BY <2>1, <2>3, <1>2
  <2>4. q - d = 0 BY <2>2, <2>3, <1>2
  <2> QED BY <2>1, <2>4, <1>2
<1> QED BY <1>3, <1>4

(* The integer that a number is, if it is one.                             *)
Denotes(x, n) ==
    IF x.form >= 0 THEN n = x.value * Pow10[x.form] ELSE x.value = n * Pow10[-x.form]

Numbers == [kind : {"number"}, value : Int, form : Int]

LEMMA KeyOfNumber ==
    ASSUME NEW x \in Numbers
    PROVE  /\ NumberIDKey(x) # NoKey =>
                  \E n \in Int : NumberIDKey(x) = <<"number", n>> /\ Denotes(x, n)
           /\ ~TooLarge(x) =>
                  \A n \in Int : Denotes(x, n) => NumberIDKey(x) = <<"number", n>>
PROOF
<1> DEFINE v == x.value
           e == x.form
<1>1. v \in Int /\ e \in Int BY DEF Numbers
<1>0. CASE TooLarge(x)
  <2>1. NumberIDKey(x) = NoKey BY <1>0 DEF NumberIDKey
  <2> QED BY <1>0, <2>1
<1>2. CASE ~TooLarge(x) /\ e >= 0
  <2>1. NumberIDKey(x) = <<"number", v * Pow10[e]>> BY <1>2 DEF NumberIDKey
  <2>2. \A n \in Int : Denotes(x, n) <=> n = v * Pow10[e] BY <1>2 DEF Denotes
  <2>3. v * Pow10[e] \in Int BY <1>1, <1>2, PowersOfTen
  <2> QED BY <2>1, <2>2, <2>3
<1>3. CASE ~TooLarge(x) /\ ~(e >= 0)
  <2> DEFINE p == Pow10[-e]
             q == v \div p
  <2>1. -e \in Nat BY <1>1, <1>3
  <2>2. p \in Nat /\ p > 0 BY <2>1, PowersArePositive
  <2>3. NumberIDKey(x) = IF v % p # 0 THEN NoKey ELSE <<"number", q>>
    BY <1>3 DEF NumberIDKey
  <2>4. \A n \in Int : Denotes(x, n) <=> v = n * p BY <1>3 DEF Denotes
  <2>5. q \in Int BY <1>1, <2>2
  <2> HIDE DEF v, p
  <2>6. \A n \in Int : v = n * p <=> (v % p = 0 /\ q = n) BY <1>1, <2>2, Quotient
  <2> HIDE DEF q
  <2> QED BY <2>3, <2>4, <2>5, <2>6
<1> QED BY <1>0, <1>2, <1>3

(* Both sides may be multiplied by a power that makes the exponents        *)
(* natural numbers.                                                        *)
LEMMA DenotesScaled ==
    ASSUME NEW x \in Numbers, NEW n \in Int, NEW k \in Nat, k + x.form >= 0
    PROVE  Denotes(x, n) <=> n * Pow10[k] = x.value * Pow10[k + x.form]
PROOF
<1> DEFINE v == x.value
           e == x.form
<1>1. v \in Int /\ e \in Int BY DEF Numbers
<1>2. CASE e >= 0
  <2> DEFINE p == Pow10[k]
             q == Pow10[e]
  <2>1. p \in Nat /\ p > 0 /\ q \in Nat BY <1>1, <1>2, PowersArePositive
  <2>2. Pow10[k + e] = p * q BY <1>1, <1>2, PowersAdd
  <2>3. Denotes(x, n) <=> n = v * q BY <1>2 DEF Denotes
  <2> HIDE DEF v, e, p, q
  <2>4. v * (p * q) = (v * q) * p BY <1>1, <2>1
  <2>5. v * q \in Int BY <1>1, <2>1
  <2>6. n * p = (v * q) * p <=> n = v * q BY <2>1, <2>5, Cancel
  <2> QED BY <2>2, <2>3, <2>4, <2>6 DEF v, e, p
<1>3. CASE ~(e >= 0)
  <2> DEFINE p == Pow10[k + e]
             q == Pow10[-e]
  <2>1. k + e \in Nat /\ -e \in Nat /\ (k + e) + (-e) = k BY <1>1, <1>3
  <2>2. p \in Nat /\ p > 0 /\ q \in Nat BY <2>1, PowersArePositive
  <2>3. Pow10[k] = p * q BY <2>1, PowersAdd
  <2>4. Denotes(x, n) <=> v = n * q BY <1>3 DEF Denotes
  <2> HIDE DEF v, e, p, q
  <2>5. n * (p * q) = (n * q) * p BY <2>2
  <2>6. n * q \in Int BY <2>2
  <2>7. v * p = (n * q) * p <=> v = n * q BY <1>1, <2>2, <2>6, Cancel
  <2> QED BY <2>3, <2>4, <2>5, <2>7 DEF v, e, p
<1> QED BY <1>2, <1>3

LEMMA SameScaled ==
    ASSUME NEW x \in Numbers, NEW y \in Numbers, x.form <= y.form,
           NEW k \in Nat, k + x.form >= 0
    PROVE  x.value = y.value * Pow10[y.form - x.form]
               <=> x.value * Pow10[k + x.form] = y.value * Pow10[k + y.form]
PROOF
<1> DEFINE u == x.value
           v == y.value
           p == Pow10[k + x.form]
           q == Pow10[y.form - x.form]
<1>1. u \in Int /\ v \in Int /\ x.form \in Int /\ y.form \in Int BY DEF Numbers
<1>2. /\ k + x.form \in Nat /\ y.form - x.form \in Nat
      /\ (k + x.form) + (y.form - x.form) = k + y.form
  BY <1>1
<1>3. Pow10[k + y.form] = p * q BY <1>2, PowersAdd
<1>4. p \in Nat /\ p > 0 /\ q \in Nat BY <1>2, PowersArePositive
<1> HIDE DEF u, v, p, q
<1>5. v * (p * q) = (v * q) * p BY <1>1, <1>4
<1>6. v * q \in Int BY <1>1, <1>4
<1>7. u * p = (v * q) * p <=> u = v * q BY <1>1, <1>4, <1>6, Cancel
<1> QED BY <1>3, <1>5, <1>7 DEF u, v, p, q

(* Numbers of which one is the integer n are the same if the other is, too.*)
LEMMA SameInteger ==
    ASSUME NEW x \in Numbers, NEW y \in Numbers, NEW n \in Int, Denotes(x, n)
    PROVE  Denotes(y, n) <=> SameNumber(x, y)
PROOF
<1>1. x.form \in Int /\ y.form \in Int /\ x.value \in Int /\ y.value \in Int BY DEF Numbers
<1>2. PICK k \in Nat : k + x.form >= 0 /\ k + y.form >= 0
  <2>1. CASE x.form >= 0 /\ y.form >= 0 BY <2>1, 0 \in Nat, <1>1
  <2>2. CASE x.form <= y.form /\ x.form < 0
    <3>1. -x.form \in Nat /\ -x.form + x.form >= 0 /\ -x.form + y.form >= 0 BY <1>1, <2>2
    <3> QED BY <3>1
  <2>3. CASE y.form <= x.form /\ y.form < 0
    <3>1. -y.form \in Nat /\ -y.form + x.form >= 0 /\ -y.form + y.form >= 0 BY <1>1, <2>3
    <3> QED BY <3>1
  <2> QED BY <1>1, <2>1, <2>2, <2>3
<1> DEFINE a == x.value * Pow10[k + x.form]
           b == y.value * Pow10[k + y.form]
<1>3. n * Pow10[k] = a BY <1>2, DenotesScaled
<1>4. Denotes(y, n) <=> n * Pow10[k] = b BY <1>2, DenotesScaled
<1>5. SameNumber(x, y) <=> a = b
  <2>1. x.form <= y.form => (x.value = y.value * Pow10[y.form - x.form] <=> a = b)
    BY <1>2, SameScaled
  <2>2. y.form <= x.form => (y.value = x.value * Pow10[x.form - y.form] <=> b = a)
    BY <1>2, SameScaled
  <2> HIDE DEF a, b
  <2> QED BY <1>1, <2>1, <2>2 DEF SameNumber
<1> QED BY <1>3, <1>4, <1>5

(* An id is found again however it is spelled, and only then.              *)
LEMMA IDsIdentified ==
    ASSUME NEW x \in RawIDs, NEW y \in RawIDs
    PROVE  KeyIdentifies(x, y)
PROOF
<1>1. SUFFICES ASSUME IDKey(x) # NoKey, y.kind = "number" => ~TooLarge(y)
               PROVE  IDKey(x) = IDKey(y) <=> SameID(x, y)
  BY DEF KeyIdentifies
<1> DEFINE kinds == {"absent", "null", "other", "string", "number"}
<1>2. ASSUME NEW z \in RawIDs
      PROVE  /\ z.kind \in {"absent", "null", "other", "string", "number"}
             /\ z.kind = "null" => z.value = 0
             /\ z.kind = "number" => z \in Numbers
             /\ z.kind \in {"absent", "other"} => IDKey(z) = NoKey
             /\ z.kind = "null" => IDKey(z) = <<"null", 0>>
             /\ z.kind = "string" => IDKey(z) = <<"string", z.value>>
             /\ z.kind = "number" => IDKey(z) = NumberIDKey(z)
  <2>1. CASE z \in {AbsentID, NullID, OtherID}
    BY <2>1 DEF AbsentID, NullID, OtherID, RawID, IDKey
  <2>2. CASE z \in [kind : {"string"}, value : Values, form : {0, 1}] BY <2>2 DEF IDKey
  <2>3. CASE z \in [kind : {"number"}, value : Values, form : Exponents]
    <3>1. z \in Numbers BY <2>3, MessagesAssumption DEF Numbers
    <3> QED BY <2>3, <3>1 DEF IDKey
  <2> QED BY <2>1, <2>2, <2>3 DEF RawIDs
<1>3. ASSUME NEW z \in RawIDs, z.kind = "number"
      PROVE  IDKey(z) = NoKey \/ \E n \in Int : IDKey(z) = <<"number", n>>
  BY <1>2, <1>3, KeyOfNumber
<1>4. CASE x.kind = "null" BY <1>2, <1>3, <1>4 DEF SameID, NoKey
<1>5. CASE x.kind = "string" BY <1>2, <1>3, <1>5 DEF SameID, NoKey
<1>6. CASE x.kind = "number"
  <2>1. PICK n \in Int : IDKey(x) = <<"number", n>> /\ Denotes(x, n)
    BY <1>1, <1>2, <1>6, KeyOfNumber
  <2>2. CASE y.kind # "number" BY <1>2, <1>6, <2>1, <2>2 DEF SameID, NoKey
  <2>3. CASE y.kind = "number"
    <3>1. x \in Numbers /\ y \in Numbers /\ IDKey(y) = NumberIDKey(y) BY <1>2, <1>6, <2>3
    <3>2. Denotes(y, n) <=> SameNumber(x, y) BY <2>1, <3>1, SameInteger
    <3>3. Denotes(y, n) => IDKey(y) = <<"number", n>> BY <1>1, <2>3, <3>1, KeyOfNumber
    <3>4. ASSUME IDKey(y) = <<"number", n>> PROVE Denotes(y, n)
      <4>1. IDKey(y) # NoKey BY <3>4 DEF NoKey
      <4>2. PICK m \in Int : NumberIDKey(y) = <<"number", m>> /\ Denotes(y, m)
        BY <3>1, <4>1, KeyOfNumber
      <4>3. <<"number", m>> = <<"number", n>> BY <3>1, <3>4, <4>2
      <4>4. m = n BY <4>3
      <4> QED BY <4>2, <4>4
    <3> QED BY <1>6, <2>1, <2>3, <3>2, <3>3, <3>4 DEF SameID
  <2> QED BY <2>2, <2>3
<1> QED BY <1>1, <1>2, <1>4, <1>5, <1>6

-----------------------------------------------------------------------------
(* Lines.                                                                  *)

(* The position of the first line feed of a sequence.                      *)
LEMMA FirstLineFeed ==
    ASSUME NEW S, NEW s \in Seq(S)
    PROVE  /\ FirstLF(s) \in 0 .. Len(s)
           /\ FirstLF(s) = 0 => \A i \in 1 .. Len(s) : s[i] # LF
           /\ FirstLF(s) # 0 => /\ s[FirstLF(s)] = LF
                                /\ \A i \in 1 .. FirstLF(s) - 1 : s[i] # LF
PROOF
<1> DEFINE I == {i \in 1 .. Len(s) : s[i] = LF}
<1>1. FirstLF(s) = IF I # {} THEN CHOOSE x \in I : \A y \in I : x <= y ELSE 0
  BY DEF FirstLF, SelectInSeq, Min
<1>2. Len(s) \in Nat BY LenProperties
<1>3. CASE I = {} BY <1>1, <1>2, <1>3
<1>4. CASE I # {}
  <2>1. I \subseteq Nat /\ I # {} BY <1>4
  <2> HIDE DEF I
  <2>2. \E x \in I : \A y \in I : x <= y BY <2>1, LeastNat
  <2>3. FirstLF(s) \in I /\ \A y \in I : FirstLF(s) <= y BY <1>1, <1>4, <2>2
  <2> QED BY <1>2, <2>3 DEF I
<1> QED BY <1>3, <1>4

(* That position, from what it is.                                         *)
LEMMA FirstLineFeedIs ==
    ASSUME NEW S, NEW s \in Seq(S), NEW p \in 1 .. Len(s), s[p] = LF,
           \A i \in 1 .. p - 1 : s[i] # LF
    PROVE  FirstLF(s) = p
PROOF
<1> DEFINE f == FirstLF(s)
<1>1. /\ Len(s) \in Nat /\ f \in 0 .. Len(s)
      /\ f = 0 => \A i \in 1 .. Len(s) : s[i] # LF
      /\ f # 0 => s[f] = LF /\ \A i \in 1 .. f - 1 : s[i] # LF
  BY LenProperties, FirstLineFeed
<1> HIDE DEF f
<1>2. f # 0 BY <1>1
<1>3. ~(f < p) BY <1>1, <1>2
<1>4. ~(p < f) BY <1>1, <1>2
<1> QED BY <1>1, <1>3, <1>4 DEF f

LEMMA NoLineFeed ==
    ASSUME NEW S, NEW s \in Seq(S), \A i \in 1 .. Len(s) : s[i] # LF
    PROVE  FirstLF(s) = 0
PROOF
<1> DEFINE f == FirstLF(s)
<1>1. Len(s) \in Nat /\ f \in 0 .. Len(s) /\ (f # 0 => s[f] = LF)
  BY LenProperties, FirstLineFeed
<1> HIDE DEF f
<1>2. f = 0 BY <1>1
<1> QED BY <1>2 DEF f

(* The beginning and the rest of a sequence.                               *)
LEMMA Beginning ==
    ASSUME NEW S, NEW s \in Seq(S), NEW k \in 0 .. Len(s)
    PROVE  /\ Upto(s, k) \in Seq(S) /\ Len(Upto(s, k)) = k
           /\ \A i \in 1 .. k : Upto(s, k)[i] = s[i]
PROOF
<1>1. Len(s) \in Nat /\ \A i \in 1 .. Len(s) : s[i] \in S BY LenProperties, ElementOfSeq
<1>2. \A i \in 1 .. k : s[i] \in S BY <1>1
<1>3. /\ SubSeq(s, 1, k) \in Seq(S)
      /\ Len(SubSeq(s, 1, k)) = IF 1 <= k THEN (k - 1) + 1 ELSE 0
      /\ \A i \in 1 .. (k - 1) + 1 : SubSeq(s, 1, k)[i] = s[(1 + i) - 1]
  BY <1>1, <1>2, SubSeqProperties
<1> QED BY <1>1, <1>3 DEF Upto

LEMMA Remainder ==
    ASSUME NEW S, NEW s \in Seq(S), NEW n \in 0 .. Len(s)
    PROVE  /\ From(s, n + 1) \in Seq(S) /\ Len(From(s, n + 1)) = Len(s) - n
           /\ \A i \in 1 .. Len(s) - n : From(s, n + 1)[i] = s[n + i]
PROOF
<1> DEFINE k == Len(s)
           m == n + 1
<1>1. k \in Nat /\ \A i \in 1 .. k : s[i] \in S BY LenProperties, ElementOfSeq
<1>2. m \in 1 .. k + 1 /\ \A i \in m .. k : s[i] \in S BY <1>1
<1>3. /\ SubSeq(s, m, k) \in Seq(S)
      /\ Len(SubSeq(s, m, k)) = IF m <= k THEN (k - m) + 1 ELSE 0
      /\ \A i \in 1 .. (k - m) + 1 : SubSeq(s, m, k)[i] = s[(m + i) - 1]
  BY <1>1, <1>2, SubSeqProperties
<1>4. /\ (IF m <= k THEN (k - m) + 1 ELSE 0) = k - n /\ (k - m) + 1 = k - n
      /\ \A i \in 1 .. k - n : (m + i) - 1 = n + i
  BY <1>1
<1> HIDE DEF k, m
<1>5. \A i \in 1 .. k - n : SubSeq(s, m, k)[i] = s[n + i] BY <1>3, <1>4
<1> QED BY <1>3, <1>4, <1>5 DEF From, k, m

(* A beginning, continued by the beginning of the rest.                    *)
LEMMA BeginningContinued ==
    ASSUME NEW S, NEW s \in Seq(S), NEW n \in 0 .. Len(s), NEW c \in 0 .. Len(s) - n
    PROVE  Upto(s, n) \o Upto(From(s, n + 1), c) = Upto(s, n + c)
PROOF
<1> DEFINE a == Upto(s, n)
           b == Upto(From(s, n + 1), c)
           d == Upto(s, n + c)
<1>1. Len(s) \in Nat /\ n + c \in 0 .. Len(s) BY LenProperties
<1>2. /\ a \in Seq(S) /\ Len(a) = n /\ \A i \in 1 .. n : a[i] = s[i] BY Beginning
<1>3. /\ d \in Seq(S) /\ Len(d) = n + c /\ \A i \in 1 .. n + c : d[i] = s[i]
  BY <1>1, Beginning
<1>4. /\ b \in Seq(S) /\ Len(b) = c /\ \A i \in 1 .. c : b[i] = s[n + i]
  <2> DEFINE r == From(s, n + 1)
  <2>1. r \in Seq(S) /\ Len(r) = Len(s) - n /\ \A i \in 1 .. Len(s) - n : r[i] = s[n + i]
    BY Remainder
  <2> HIDE DEF r
  <2>2. c \in 0 .. Len(r) BY <2>1
  <2>3. /\ Upto(r, c) \in Seq(S) /\ Len(Upto(r, c)) = c
        /\ \A i \in 1 .. c : Upto(r, c)[i] = r[i]
    BY <2>1, <2>2, Beginning
  <2>4. \A i \in 1 .. c : i \in 1 .. Len(s) - n BY <1>1
  <2> QED BY <2>1, <2>3, <2>4 DEF r
<1> HIDE DEF a, b, d
<1>5. /\ a \o b \in Seq(S) /\ Len(a \o b) = n + c
      /\ \A i \in 1 .. n + c : (a \o b)[i] = IF i <= n THEN a[i] ELSE b[i - n]
  <2>1. a \in Seq(S) /\ b \in Seq(S) /\ Len(a) = n /\ Len(b) = c BY <1>2, <1>4
  <2>2. /\ a \o b \in Seq(S) /\ Len(a \o b) = Len(a) + Len(b)
        /\ \A i \in 1 .. Len(a) + Len(b) :
               (a \o b)[i] = IF i <= Len(a) THEN a[i] ELSE b[i - Len(a)]
    BY <2>1, ConcatProperties
  <2> QED BY <2>1, <2>2
<1>6. ASSUME NEW i \in 1 .. n + c PROVE (a \o b)[i] = d[i]
  <2>1. CASE i <= n
    <3>1. i \in 1 .. n BY <2>1
    <3> QED BY <1>2, <1>3, <1>5, <2>1, <3>1
  <2>2. CASE ~(i <= n)
    <3>1. i - n \in 1 .. c /\ n + (i - n) = i BY <2>2
    <3> QED BY <1>3, <1>4, <1>5, <2>2, <3>1
  <2> QED BY <2>1, <2>2
<1>7. a \o b = d BY <1>3, <1>5, <1>6, SeqEqual
<1> QED BY <1>7 DEF a, b, d

(* Where the next chunk ends: after the first line feed if the buffer      *)
(* reaches so far, when it is full, or at the end.                         *)
LEMMA NextSlice ==
    ASSUME NEW S, NEW s \in Seq(S), NEW size \in Nat, size > 0, NEW c, NEW p,
           p = FirstLF(s),
           c = IF p # 0 /\ p <= size THEN p ELSE IF Len(s) < size THEN Len(s) ELSE size
    PROVE  /\ c \in 0 .. Len(s) /\ Slice(s, size) = Upto(s, c)
           /\ SliceError(s, size) = IF p # 0 /\ p <= size THEN "nil"
                                    ELSE IF c = size THEN "ErrBufferFull" ELSE "EOF"
PROOF
<1> DEFINE k == IF Len(s) < size THEN Len(s) ELSE size
           window == Upto(s, k)
<1>1. /\ Len(s) \in Nat /\ k \in 0 .. Len(s) /\ p \in 0 .. Len(s)
      /\ p = 0 => \A i \in 1 .. Len(s) : s[i] # LF
      /\ p # 0 => s[p] = LF /\ \A i \in 1 .. p - 1 : s[i] # LF
  BY LenProperties, FirstLineFeed
<1>2. /\ window \in Seq(S) /\ Len(window) = k /\ \A i \in 1 .. k : window[i] = s[i]
  BY <1>1, Beginning
<1>3. Slice(s, size) = IF FirstLF(window) # 0 THEN Upto(s, FirstLF(window)) ELSE window
  BY DEF Slice
<1>4. CASE p # 0 /\ p <= size
  <2>1. p \in 1 .. k BY <1>1, <1>4
  <2> HIDE DEF window, k
  <2>2. FirstLF(window) = p
    <3>1. p \in 1 .. Len(window) BY <1>2, <2>1
    <3>2. window[p] = LF BY <1>1, <1>2, <1>4, <2>1
    <3>3. \A i \in 1 .. p - 1 : i \in 1 .. k BY <1>1, <2>1
    <3>4. \A i \in 1 .. p - 1 : window[i] # LF BY <1>1, <1>2, <1>4, <3>3
    <3> QED BY <1>2, <3>1, <3>2, <3>4, FirstLineFeedIs
  <2>3. c = p /\ Slice(s, size) = Upto(s, p) BY <1>3, <1>4, <2>2
  <2>4. Upto(s, p) \in Seq(S) /\ Len(Upto(s, p)) = p /\ Upto(s, p)[p] = s[p]
    BY <1>1, <1>4, Beginning
  <2>5. Ends(Upto(s, p), LF)
    <3>1. Upto(s, p) # <<>> BY <1>1, <1>4, <2>4, EmptySeq
    <3> QED BY <1>1, <1>4, <2>4, <3>1 DEF Ends
  <2> QED BY <1>1, <1>4, <2>3, <2>5 DEF SliceError
<1>5. CASE ~(p # 0 /\ p <= size)
  <2>1. \A i \in 1 .. k : s[i] # LF BY <1>1, <1>5
  <2>2. c = k BY <1>5
  <2> HIDE DEF window, k
  <2>3. \A i \in 1 .. Len(window) : window[i] # LF BY <1>2, <2>1
  <2>4. FirstLF(window) = 0 BY <1>2, <2>3, NoLineFeed
  <2>5. Slice(s, size) = window BY <1>3, <2>4
  <2>6. ~Ends(window, LF)
    <3>1. window # <<>> => Len(window) \in 1 .. Len(window) BY <1>2, EmptySeq, LenProperties
    <3> QED BY <2>3, <3>1 DEF Ends
  <2>7. SliceError(s, size) = IF Len(window) = size THEN "ErrBufferFull" ELSE "EOF"
    BY <2>5, <2>6 DEF SliceError
  <2>8. window = Upto(s, c) BY <2>2 DEF window
  <2> QED BY <1>1, <1>2, <1>5, <2>2, <2>5, <2>7, <2>8
<1> QED BY <1>4, <1>5

(* The first line feed of the rest, once some bytes without one are gone.  *)
LEMMA LineFeedAfter ==
    ASSUME NEW S, NEW s \in Seq(S), NEW n \in 0 .. Len(s), NEW c \in 0 .. Len(s) - n,
           FirstLF(From(s, n + 1)) = 0 \/ c < FirstLF(From(s, n + 1))
    PROVE  FirstLF(From(s, (n + c) + 1)) =
               IF FirstLF(From(s, n + 1)) = 0 THEN 0 ELSE FirstLF(From(s, n + 1)) - c
PROOF
<1> DEFINE r == From(s, n + 1)
           p == FirstLF(r)
           q == From(s, (n + c) + 1)
<1>1. Len(s) \in Nat /\ n + c \in 0 .. Len(s) BY LenProperties
<1>2. /\ r \in Seq(S) /\ Len(r) = Len(s) - n
      /\ \A i \in 1 .. Len(s) - n : r[i] = s[n + i]
  BY Remainder
<1>3. /\ q \in Seq(S) /\ Len(q) = Len(s) - (n + c)
      /\ \A i \in 1 .. Len(s) - (n + c) : q[i] = s[(n + c) + i]
  BY <1>1, Remainder
<1>4. /\ p \in 0 .. Len(r)
      /\ p = 0 => \A i \in 1 .. Len(r) : r[i] # LF
      /\ p # 0 => r[p] = LF /\ \A i \in 1 .. p - 1 : r[i] # LF
  BY <1>2, FirstLineFeed
<1>8. p = 0 \/ c < p OBVIOUS
<1> HIDE DEF r, q, p
<1>5. ASSUME NEW i \in 1 .. Len(q) PROVE c + i \in 1 .. Len(r) /\ q[i] = r[c + i]
  <2>1. c + i \in 1 .. Len(s) - n /\ (n + c) + i = n + (c + i) BY <1>1, <1>2, <1>3
  <2> QED BY <1>2, <1>3, <2>1
<1>6. CASE p = 0
  <2>1. \A i \in 1 .. Len(q) : q[i] # LF BY <1>4, <1>5, <1>6
  <2>2. FirstLF(q) = 0 BY <1>3, <2>1, NoLineFeed
  <2> QED BY <1>6, <2>2 DEF q, r, p
<1>7. CASE p # 0
  <2>1. c < p BY <1>7, <1>8
  <2>2. p - c \in 1 .. Len(q) /\ c + (p - c) = p BY <1>1, <1>2, <1>3, <1>4, <2>1
  <2>3. q[p - c] = LF BY <1>4, <1>5, <1>7, <2>2
  <2>4. ASSUME NEW i \in 1 .. (p - c) - 1 PROVE q[i] # LF
    <3>1. /\ p \in Nat /\ c \in Nat /\ Len(q) \in Nat /\ c < p /\ p - c <= Len(q)
          /\ i \in Nat /\ 1 <= i /\ i <= (p - c) - 1
      BY <1>1, <1>2, <1>3, <1>4, <2>1, <2>2
    <3>2. i \in 1 .. Len(q) /\ c + i \in 1 .. p - 1 BY <3>1
    <3> QED BY <1>4, <1>5, <1>7, <3>2
  <2>5. FirstLF(q) = p - c BY <1>3, <2>2, <2>3, <2>4, FirstLineFeedIs
  <2> QED BY <1>7, <2>5 DEF q, r, p
<1> QED BY <1>6, <1>7

(* What ReadLine returns from n bytes on.                                  *)
LineFrom(input, max, n) ==
    LET p == FirstLF(From(input, n + 1))
        e == IF p = 0 THEN Len(input) ELSE n + p
    IN  IF e > max THEN Result(<<>>, "exceeds")
        ELSE IF p # 0 THEN Result(TrimLineEnd(Upto(input, e)), "nil")
        ELSE IF input # <<>> THEN Result(TrimLineEnd(input), "nil")
        ELSE Result(<<>>, "EOF")

(* An iteration returns it, if the iterations that follow do.              *)
LEMMA IterationReturns ==
    ASSUME NEW S, NEW input \in Seq(S), NEW size \in Nat, size > 0, NEW max \in Nat,
           NEW n \in 0 .. Len(input), NEW Loop,
           n + size <= Len(input) => Loop[n + size] = LineFrom(input, max, n + size)
    PROVE  Iteration(input, size, max, Loop, n) = LineFrom(input, max, n)
PROOF
<1> DEFINE k == Len(input)
           rest == From(input, n + 1)
           chunk == Slice(rest, size)
           line == Upto(input, n) \o chunk
           err == SliceError(rest, size)
           p == FirstLF(rest)
           e == IF p = 0 THEN k ELSE n + p
           c == IF p # 0 /\ p <= size THEN p ELSE IF k - n < size THEN k - n ELSE size
<1>1. k \in Nat BY LenProperties
<1>2. rest \in Seq(S) /\ Len(rest) = k - n BY Remainder
<1>3. p \in 0 .. k - n
  <2> HIDE DEF rest
  <2> QED BY <1>2, FirstLineFeed
<1>4. /\ c \in 0 .. k - n /\ chunk = Upto(rest, c)
      /\ err = IF p # 0 /\ p <= size THEN "nil" ELSE IF c = size THEN "ErrBufferFull" ELSE "EOF"
  <2> HIDE DEF rest, p
  <2>1. p = FirstLF(rest) BY DEF p
  <2> HIDE DEF k
  <2>2. c = IF p # 0 /\ p <= size THEN p ELSE IF Len(rest) < size THEN Len(rest) ELSE size
    BY <1>2
  <2> HIDE DEF c
  <2> QED BY <1>2, <2>1, <2>2, NextSlice
<1>5. Len(chunk) = c
  <2> HIDE DEF rest, chunk, c, k
  <2> QED BY <1>2, <1>4, Beginning
<1>6. line = Upto(input, n + c) /\ Len(line) = n + c
  <2>1. line = Upto(input, n) \o Upto(rest, c) BY <1>4
  <2> HIDE DEF line, c
  <2>2. line = Upto(input, n + c) BY <1>4, <2>1, BeginningContinued
  <2>3. n + c \in 0 .. Len(input) BY <1>1, <1>4
  <2> QED BY <2>2, <2>3, Beginning
<1>7. LineFrom(input, max, n) =
          IF e > max THEN Result(<<>>, "exceeds")
          ELSE IF p # 0 THEN Result(TrimLineEnd(Upto(input, e)), "nil")
          ELSE IF input # <<>> THEN Result(TrimLineEnd(input), "nil")
          ELSE Result(<<>>, "EOF")
  BY DEF LineFrom
<1>8. Iteration(input, size, max, Loop, n) =
          CASE Len(line) > max       -> Result(<<>>, "exceeds")
            [] Len(line) <= max /\ err = "nil" -> Result(TrimLineEnd(line), "nil")
            [] Len(line) <= max /\ err = "ErrBufferFull" -> Loop[n + Len(chunk)]
            [] OTHER                 -> AtEOF(line, chunk)
  BY DEF Iteration
<1>9. n \in Nat /\ c \in Nat /\ p \in Nat /\ e \in Nat BY <1>1, <1>3, <1>4
<1>10. n + c <= e BY <1>1, <1>3, <1>9
<1> HIDE DEF rest, chunk, line, err, k, c
<1>11. CASE n + c > max
  <2>1. Iteration(input, size, max, Loop, n) = Result(<<>>, "exceeds") BY <1>6, <1>8, <1>11
  <2>2. e > max BY <1>9, <1>10, <1>11
  <2> QED BY <1>7, <2>1, <2>2
<1>12. CASE n + c <= max /\ p # 0 /\ p <= size
  <2>1. err = "nil" /\ c = p BY <1>4, <1>12 DEF c
  <2>2. Iteration(input, size, max, Loop, n) = Result(TrimLineEnd(line), "nil")
    BY <1>6, <1>8, <1>9, <1>12, <2>1
  <2>3. e = n + c /\ ~(e > max) BY <1>9, <1>12, <2>1
  <2> QED BY <1>6, <1>7, <1>12, <2>2, <2>3
<1>13. CASE n + c <= max /\ ~(p # 0 /\ p <= size) /\ c = size
  <2>1. err = "ErrBufferFull" BY <1>4, <1>13
  <2>2. Iteration(input, size, max, Loop, n) = Loop[n + c]
    BY <1>5, <1>6, <1>8, <1>9, <1>13, <2>1
  <2>3. Loop[n + c] = LineFrom(input, max, n + c) BY <1>1, <1>4, <1>13 DEF k
  <2>4. FirstLF(From(input, (n + c) + 1)) = IF p = 0 THEN 0 ELSE p - c
    <3>1. c \in 0 .. Len(input) - n BY <1>4 DEF k
    <3>2. p = 0 \/ c < p
      <4> HIDE DEF p
      <4> QED BY <1>9, <1>13
    <3>3. p = FirstLF(From(input, n + 1)) BY DEF rest
    <3> HIDE DEF p
    <3>4. FirstLF(From(input, n + 1)) = 0 \/ c < FirstLF(From(input, n + 1)) BY <3>2, <3>3
    <3>5. FirstLF(From(input, (n + c) + 1)) =
              IF FirstLF(From(input, n + 1)) = 0 THEN 0 ELSE FirstLF(From(input, n + 1)) - c
      BY <3>1, <3>4, LineFeedAfter
    <3> QED BY <3>3, <3>5
  <2> DEFINE p2 == FirstLF(From(input, (n + c) + 1))
             e2 == IF p2 = 0 THEN k ELSE (n + c) + p2
  <2>5. e2 = e /\ (p2 = 0 <=> p = 0)
    <3>1. p # 0 => c < p BY <1>9, <1>13
    <3>2. p2 = IF p = 0 THEN 0 ELSE p - c BY <2>4
    <3> HIDE DEF p2, p
    <3> QED BY <1>9, <3>1, <3>2
  <2>6. LineFrom(input, max, n + c) =
            IF e2 > max THEN Result(<<>>, "exceeds")
            ELSE IF p2 # 0 THEN Result(TrimLineEnd(Upto(input, e2)), "nil")
            ELSE IF input # <<>> THEN Result(TrimLineEnd(input), "nil")
            ELSE Result(<<>>, "EOF")
    BY DEF LineFrom, k
  <2> HIDE DEF p, e, p2, e2
  <2> QED BY <1>7, <2>2, <2>3, <2>5, <2>6
<1>14. CASE n + c <= max /\ ~(p # 0 /\ p <= size) /\ c # size
  <2>1. err = "EOF" BY <1>4, <1>14
  <2>2. Iteration(input, size, max, Loop, n) = AtEOF(line, chunk)
    BY <1>6, <1>8, <1>9, <1>14, <2>1
  <2>3. c = k - n /\ k - n < size BY <1>14 DEF c
  <2>4. p = 0 BY <1>1, <1>3, <1>14, <2>3
  <2>5. e = k /\ n + c = k /\ ~(e > max) BY <1>1, <1>9, <1>14, <2>3, <2>4
  <2>6. line = input
    <3>1. k \in 0 .. k BY <1>1
    <3>2. /\ Upto(input, k) \in Seq(S) /\ Len(Upto(input, k)) = k
          /\ \A i \in 1 .. k : Upto(input, k)[i] = input[i]
      BY <3>1, Beginning DEF k
    <3>3. Upto(input, k) = input BY <3>2, SeqEqual DEF k
    <3> QED BY <1>6, <2>5, <3>3
  <2> HIDE DEF p, e
  <2> QED BY <1>7, <2>2, <2>4, <2>5, <2>6 DEF AtEOF
<1>15. n + c > max \/ n + c <= max BY <1>9
<1> HIDE DEF p
<1> QED BY <1>11, <1>12, <1>13, <1>14, <1>15

(* ReadLine returns it: the function that returns it satisfies the         *)
(* recursive definition, and it is the only one that does.                 *)
LEMMA ReadLineReturns ==
    ASSUME NEW S, NEW input \in Seq(S), NEW size \in Nat, size > 0, NEW max \in Nat
    PROVE  ReadLine(input, size, max) = LineFrom(input, max, 0)
PROOF
<1> DEFINE k == Len(input)
           D(h) == [n \in 0 .. k |-> Iteration(input, size, max, h, n)]
           F == [n \in 0 .. k |-> LineFrom(input, max, n)]
           L == CHOOSE h : h = D(h)
<1>1. k \in Nat BY LenProperties
<1>2. F = D(F)
  <2>1. ASSUME NEW n \in 0 .. k PROVE F[n] = D(F)[n]
    <3>1. n + size <= k => F[n + size] = LineFrom(input, max, n + size) BY <1>1
    <3> HIDE DEF F
    <3>2. Iteration(input, size, max, F, n) = LineFrom(input, max, n)
      BY <3>1, IterationReturns
    <3> QED BY <3>2 DEF F
  <2> HIDE DEF D
  <2>2. DOMAIN F = 0 .. k /\ DOMAIN D(F) = 0 .. k BY DEF D
  <2>3. D(F) = [n \in 0 .. k |-> D(F)[n]] BY DEF D
  <2> QED BY <2>1, <2>3
<1> HIDE DEF D
<1>3. L = D(L) BY <1>2
<1>4. ReadLine(input, size, max) = L[0] BY DEF ReadLine, D
<1> HIDE DEF L
<1> DEFINE T == {d \in Nat : d <= k /\ L[k - d] # LineFrom(input, max, k - d)}
<1>5. T = {}
  <2>1. SUFFICES ASSUME T # {} PROVE FALSE OBVIOUS
  <2>2. T \subseteq Nat OBVIOUS
  <2> HIDE DEF T
  <2>3. PICK d \in T : \A y \in T : d <= y BY <2>1, <2>2, LeastNat
  <2> DEFINE n == k - d
  <2>4. d \in Nat /\ d <= k /\ L[n] # LineFrom(input, max, n) BY <2>3 DEF T
  <2>5. n \in 0 .. k BY <1>1, <2>4
  <2>6. n + size <= k => L[n + size] = LineFrom(input, max, n + size)
    <3>1. SUFFICES ASSUME n + size <= k PROVE L[n + size] = LineFrom(input, max, n + size)
      OBVIOUS
    <3>2. /\ d - size \in Nat /\ d - size <= k /\ ~(d <= d - size)
          /\ k - (d - size) = n + size
      BY <1>1, <2>4, <3>1
    <3>3. d - size \notin T BY <2>3, <3>2
    <3> QED BY <3>2, <3>3 DEF T
  <2> HIDE DEF n
  <2>7. Iteration(input, size, max, L, n) = LineFrom(input, max, n)
    BY <2>5, <2>6, IterationReturns
  <2>8. L[n] = Iteration(input, size, max, L, n)
    <3>1. D(L)[n] = Iteration(input, size, max, L, n) BY <2>5 DEF D
    <3> QED BY <1>3, <3>1
  <2> QED BY <2>4, <2>7, <2>8 DEF n
<1>6. k \in Nat /\ k <= k /\ k - k = 0 BY <1>1
<1>7. L[0] = LineFrom(input, max, 0) BY <1>5, <1>6
<1> QED BY <1>4, <1>7

(* A line end is at most a carriage return and a line feed.                *)
LEMMA LastOff ==
    ASSUME NEW S, NEW s \in Seq(S), s # <<>>
    PROVE  /\ Front(s) \in Seq(S) /\ s[Len(s)] \in S
           /\ s = Front(s) \o <<s[Len(s)]>>
PROOF
<1> DEFINE k == Len(s)
           f == Front(s)
           l == s[k]
<1>1. k \in Nat /\ k # 0 BY LenProperties, EmptySeq
<1>2. k - 1 \in 0 .. k /\ k \in 1 .. k BY <1>1
<1>3. f \in Seq(S) /\ Len(f) = k - 1 /\ \A i \in 1 .. k - 1 : f[i] = s[i]
  <2>1. f = Upto(s, k - 1) BY DEF Front, Upto
  <2> HIDE DEF f
  <2> QED BY <1>2, <2>1, Beginning
<1>4. l \in S BY <1>2, ElementOfSeq
<1>5. <<l>> \in Seq(S) /\ Len(<<l>>) = 1 /\ <<l>>[1] = l BY <1>4
<1> HIDE DEF f, l
<1>6. /\ f \o <<l>> \in Seq(S) /\ Len(f \o <<l>>) = k
      /\ \A i \in 1 .. k : (f \o <<l>>)[i] = IF i <= k - 1 THEN f[i] ELSE <<l>>[i - (k - 1)]
  <2> DEFINE o == <<l>>
  <2>1. o \in Seq(S) /\ Len(o) = 1 BY <1>5
  <2> HIDE DEF o
  <2>2. /\ f \o o \in Seq(S) /\ Len(f \o o) = Len(f) + Len(o)
        /\ \A i \in 1 .. Len(f) + Len(o) : (f \o o)[i] = IF i <= Len(f) THEN f[i] ELSE o[i - Len(f)]
    BY <1>3, <2>1, ConcatProperties
  <2>3. Len(f) + Len(o) = k BY <1>1, <1>3, <2>1
  <2> QED BY <1>3, <2>2, <2>3 DEF o
<1>7. ASSUME NEW i \in 1 .. k PROVE (f \o <<l>>)[i] = s[i]
  <2>1. CASE i <= k - 1 BY <1>1, <1>3, <1>6, <2>1
  <2>2. CASE ~(i <= k - 1)
    <3>1. i = k /\ i - (k - 1) = 1 BY <1>1, <2>2
    <3> QED BY <1>5, <1>6, <2>2, <3>1 DEF l
  <2> QED BY <2>1, <2>2
<1>8. f \o <<l>> = s BY <1>6, <1>7, SeqEqual
<1> QED BY <1>3, <1>4, <1>8 DEF f, l

(* A line without its end.                                                 *)
IsLineOf(line, raw) ==
    \E end \in {<<LF>>, <<CR, LF>>, <<CR>>, <<>>} :
        /\ raw = line \o end
        /\ end \in {<<LF>>, <<>>} => ~Ends(line, CR)
        /\ end \in {<<CR>>, <<>>} => ~Ends(raw, LF)

LEMMA TrimmedLine ==
    ASSUME NEW S, NEW raw \in Seq(S), LF \in S, CR \in S
    PROVE  IsLineOf(TrimLineEnd(raw), raw)
PROOF
<1> DEFINE l == IF Ends(raw, LF) THEN Front(raw) ELSE raw
           line == TrimLineEnd(raw)
<1>1. line = IF Ends(l, CR) THEN Front(l) ELSE l BY DEF TrimLineEnd
<1>2. l \in Seq(S) BY LastOff DEF Ends
<1>3. Ends(raw, LF) => raw = l \o <<LF>> BY LastOff DEF Ends
<1>4. line \in Seq(S)
  <2> HIDE DEF l, line
  <2> QED BY <1>1, <1>2, LastOff DEF Ends
<1>5. Ends(l, CR) => l = line \o <<CR>>
  <2> HIDE DEF l, line
  <2> QED BY <1>1, <1>2, LastOff DEF Ends
<1>6. ~Ends(raw, LF) => l = raw OBVIOUS
<1> HIDE DEF l, line
<1>7. ~Ends(l, CR) => line = l BY <1>1
<1>8. raw \o <<>> = raw /\ line \o <<>> = line BY <1>4, ConcatEmptySeq
<1>9. CASE Ends(raw, LF) /\ Ends(l, CR)
  <2>1. raw = (line \o <<CR>>) \o <<LF>> BY <1>3, <1>5, <1>9
  <2>2. <<CR>> \in Seq(S) /\ <<LF>> \in Seq(S) /\ <<CR>> \o <<LF>> = <<CR, LF>>
    <3> DEFINE s == <<CR>>
               t == <<LF>>
               u == <<CR, LF>>
    <3>1. /\ s \in Seq(S) /\ Len(s) = 1 /\ s[1] = CR /\ t \in Seq(S) /\ Len(t) = 1 /\ t[1] = LF
          /\ u \in Seq(S) /\ Len(u) = 2 /\ u[1] = CR /\ u[2] = LF
      OBVIOUS
    <3> HIDE DEF s, t, u
    <3>2. /\ s \o t \in Seq(S) /\ Len(s \o t) = Len(s) + Len(t)
          /\ \A i \in 1 .. Len(s) + Len(t) :
                 (s \o t)[i] = IF i <= Len(s) THEN s[i] ELSE t[i - Len(s)]
      BY <3>1, ConcatProperties
    <3>3. Len(s \o t) = 2 /\ (s \o t)[1] = CR /\ (s \o t)[2] = LF BY <3>1, <3>2
    <3>4. \A i \in 1 .. 2 : (s \o t)[i] = u[i] BY <3>1, <3>3
    <3>5. s \o t = u BY <3>1, <3>2, <3>3, <3>4, SeqEqual
    <3> QED BY <3>1, <3>5 DEF s, t, u
  <2>3. (line \o <<CR>>) \o <<LF>> = line \o (<<CR>> \o <<LF>>)
    BY <1>4, <2>2, ConcatAssociative
  <2>4. raw = line \o <<CR, LF>> BY <2>1, <2>2, <2>3
  <2>5. <<CR, LF>> \notin {<<LF>>, <<>>} /\ <<CR, LF>> \notin {<<CR>>, <<>>} OBVIOUS
  <2> QED BY <2>4, <2>5 DEF IsLineOf, line
<1>10. CASE Ends(raw, LF) /\ ~Ends(l, CR)
  <2>1. raw = line \o <<LF>> /\ ~Ends(line, CR) BY <1>3, <1>7, <1>10
  <2>2. <<LF>> \notin {<<CR>>, <<>>} BY FramingAssumption
  <2> QED BY <2>1, <2>2 DEF IsLineOf, line
<1>11. CASE ~Ends(raw, LF) /\ Ends(l, CR)
  <2>1. raw = line \o <<CR>> BY <1>5, <1>6, <1>11
  <2>2. <<CR>> \notin {<<LF>>, <<>>} BY FramingAssumption
  <2> QED BY <1>11, <2>1, <2>2 DEF IsLineOf, line
<1>12. CASE ~Ends(raw, LF) /\ ~Ends(l, CR)
  <2>1. raw = line \o <<>> /\ ~Ends(line, CR) BY <1>6, <1>7, <1>8, <1>12
  <2> QED BY <1>12, <2>1 DEF IsLineOf, line
<1> QED BY <1>9, <1>10, <1>11, <1>12

(* The size of the reader's buffer makes no difference to what a line is.  *)
LEMMA FramesAreExact ==
    ASSUME NEW S, NEW input \in Seq(S), LF \in S, CR \in S,
           NEW size \in Nat, size > 0, NEW max \in Nat
    PROVE  FrameExact(input, size, max)
PROOF
<1> DEFINE p == FirstLF(input)
           raw == IF p = 0 THEN input ELSE Upto(input, p)
           line == ReadLine(input, size, max)
           e == IF p = 0 THEN Len(input) ELSE p
<1>1. Len(input) \in Nat /\ p \in 0 .. Len(input) BY LenProperties, FirstLineFeed
<1>2. raw \in Seq(S) /\ Len(raw) = e BY <1>1, Beginning
<1>3. From(input, 0 + 1) = input BY <1>1, LenProperties DEF From
<1>4. line = IF e > max THEN Result(<<>>, "exceeds")
             ELSE IF p # 0 THEN Result(TrimLineEnd(raw), "nil")
             ELSE IF input # <<>> THEN Result(TrimLineEnd(raw), "nil")
             ELSE Result(<<>>, "EOF")
  BY <1>1, <1>3, ReadLineReturns DEF LineFrom
<1>5. raw = <<>> <=> p = 0 /\ input = <<>> BY <1>1, <1>2, EmptySeq
<1> HIDE DEF raw, line, p, e
<1>6. IsLineOf(TrimLineEnd(raw), raw) BY <1>2, TrimmedLine
<1>7. /\ Len(raw) > max => line.err = "exceeds"
      /\ ~(Len(raw) > max) /\ raw = <<>> => line.err = "EOF"
      /\ ~(Len(raw) > max) /\ raw # <<>> => line.err = "nil" /\ IsLineOf(line.line, raw)
  BY <1>2, <1>4, <1>5, <1>6 DEF Result
<1> QED BY <1>7 DEF FrameExact, IsLineOf, raw, line, p

-----------------------------------------------------------------------------
(* Event streams.                                                          *)

LEMMA SameLength ==
    ASSUME NEW m \in Nat, NEW n \in Nat, 1 .. m = 1 .. n
    PROVE  m = n
PROOF
<1>1. m # 0 => m \in 1 .. n BY Z3
<1>2. n # 0 => n \in 1 .. m BY Z3
<1> QED BY <1>1, <1>2

(* The members of a set of positions among the first m.                    *)
Among(T, m) == {i \in 1 .. m : i \in T}

LEMMA CountNext ==
    ASSUME NEW T, NEW m \in Nat
    PROVE  /\ Cardinality(Among(T, 0)) = 0 /\ Cardinality(Among(T, m)) \in Nat
           /\ Cardinality(Among(T, m + 1)) =
                  Cardinality(Among(T, m)) + (IF m + 1 \in T THEN 1 ELSE 0)
PROOF
<1>1. Among(T, 0) = {} BY DEF Among
<1>2. ASSUME NEW n \in Nat
      PROVE  /\ n + 1 \notin Among(T, n)
             /\ Among(T, n + 1) = IF n + 1 \in T THEN Among(T, n) \cup {n + 1} ELSE Among(T, n)
  BY DEF Among
<1> DEFINE F == {n \in Nat : IsFiniteSet(Among(T, n))}
<1>3. 0 \in F BY <1>1, FS_EmptySet
<1>4. ASSUME NEW n \in Nat, n \in F PROVE n + 1 \in F
  <2>1. IsFiniteSet(Among(T, n)) BY <1>4
  <2>2. IsFiniteSet(Among(T, n) \cup {n + 1}) BY <2>1, FS_AddElement
  <2>3. IsFiniteSet(Among(T, n + 1)) BY <1>2, <2>1, <2>2
  <2> QED BY <2>3
<1> HIDE DEF F
<1>5. Nat \subseteq F BY <1>3, <1>4, SetInduction
<1>6. IsFiniteSet(Among(T, m)) BY <1>5 DEF F
<1>7. Cardinality(Among(T, m)) \in Nat BY <1>6, FS_CardinalityType
<1>8. Cardinality(Among(T, m) \cup {m + 1}) = Cardinality(Among(T, m)) + 1
  BY <1>2, <1>6, FS_AddElement
<1>9. Cardinality(Among(T, 0)) = 0 BY <1>1, FS_EmptySet
<1>10. CASE m + 1 \in T BY <1>2, <1>7, <1>8, <1>9, <1>10
<1>11. CASE m + 1 \notin T
  <2>1. Among(T, m + 1) = Among(T, m) BY <1>2, <1>11
  <2>2. Cardinality(Among(T, m + 1)) = Cardinality(Among(T, m)) + 0 BY <1>7, <2>1
  <2> QED BY <1>7, <1>9, <1>11, <2>2
<1> QED BY <1>10, <1>11

LEMMA EventsNext ==
    ASSUME NEW beats, NEW k \in Nat
    PROVE  /\ EventsAmong(beats, 0) = 0 /\ EventsAmong(beats, k) \in Nat
           /\ EventsAmong(beats, k + 1) = EventsAmong(beats, k) + (IF beats[k + 1] THEN 0 ELSE 1)
PROOF
<1> DEFINE T == {i \in Nat : ~beats[i]}
<1>1. ASSUME NEW n \in Nat PROVE EventsAmong(beats, n) = Cardinality(Among(T, n))
  <2>1. {i \in 1 .. n : ~beats[i]} = Among(T, n) BY DEF Among
  <2> QED BY <2>1 DEF EventsAmong
<1>2. k + 1 \in T <=> ~beats[k + 1] OBVIOUS
<1> HIDE DEF T
<1> QED BY <1>1, <1>2, CountNext

(* The blank lines among the first m.                                      *)
BlanksAmong(body, m) == Cardinality({i \in 1 .. m : body[i] = Blank})

LEMMA BlanksNext ==
    ASSUME NEW body, NEW m \in Nat
    PROVE  /\ BlanksAmong(body, 0) = 0 /\ BlanksAmong(body, m) \in Nat
           /\ BlanksAmong(body, m + 1) =
                  BlanksAmong(body, m) + (IF body[m + 1] = Blank THEN 1 ELSE 0)
PROOF
<1> DEFINE T == {i \in Nat : body[i] = Blank}
<1>1. ASSUME NEW n \in Nat PROVE BlanksAmong(body, n) = Cardinality(Among(T, n))
  <2>1. {i \in 1 .. n : body[i] = Blank} = Among(T, n) BY DEF Among
  <2> QED BY <2>1 DEF BlanksAmong
<1>2. m + 1 \in T <=> body[m + 1] = Blank OBVIOUS
<1> HIDE DEF T
<1> QED BY <1>1, <1>2, CountNext

(* The lines of a stream, and the states of its reader.                    *)
Lines == [name : {"", "comment", "id", "event", "data", "other"}, value : Int]
Reads == [data : Seq(Int), id : Int, last : Int, out : Seq(Seq(Int)), err : BOOLEAN]

LEMMA NumberIsNatural ==
    ASSUME NEW from \in Nat, NEW beats, NEW k \in Nat
    PROVE  NumberOf(from, beats, k + 1) \in Nat
PROOF
<1>1. (k + 1) - 1 = k OBVIOUS
<1> QED BY <1>1, EventsNext DEF NumberOf

LEMMA BlankIsLine == Blank \in Lines
PROOF BY DEF Blank, Line, Lines

LEMMA NamedLine ==
    ASSUME NEW n \in Int, NEW name \in {"comment", "id", "event", "data", "other"}
    PROVE  Line(name, n) \in Lines /\ Line(name, n) # Blank
PROOF
<1>1. Line(name, n) \in Lines BY DEF Line, Lines
<1>2. Line(name, n) # Blank BY DEF Line, Blank
<1> QED BY <1>1, <1>2

LEMMA LinesWritten ==
    ASSUME NEW n \in Nat
    PROVE  /\ WrittenFor(n) \in Seq(Lines) /\ Len(WrittenFor(n)) = IF n = 0 THEN 2 ELSE 4
           /\ \A i \in 1 .. Len(WrittenFor(n)) :
                  WrittenFor(n)[i] = Blank <=> i = Len(WrittenFor(n))
PROOF
<1> DEFINE c == Line("comment", 0)
           d == Line("id", n)
           e == Line("event", 0)
           l == Line("data", n)
<1>1. /\ Blank \in Lines /\ c \in Lines /\ d \in Lines /\ e \in Lines /\ l \in Lines
      /\ c # Blank /\ d # Blank /\ e # Blank /\ l # Blank
  BY BlankIsLine, NamedLine
<1>2. WrittenFor(n) = IF n = 0 THEN <<c, Blank>> ELSE <<d, e, l, Blank>> BY DEF WrittenFor
<1> HIDE DEF c, d, e, l
<1>3. CASE n = 0 BY <1>1, <1>2, <1>3
<1>4. CASE n # 0 BY <1>1, <1>2, <1>4
<1> QED BY <1>3, <1>4

(* What has been written after each number of writes.                      *)
LEMMA WrittenNext ==
    ASSUME NEW from \in Nat, NEW beats \in Seq(BOOLEAN)
    PROVE  /\ Written(from, beats)[0] = <<>>
           /\ \A k \in 0 .. Len(beats) - 1 :
                  Written(from, beats)[k + 1] =
                      Written(from, beats)[k] \o WrittenFor(NumberOf(from, beats, k + 1))
           /\ \A k \in 0 .. Len(beats) : Written(from, beats)[k] \in Seq(Lines)
PROOF
<1> DEFINE n == Len(beats)
           N(k) == WrittenFor(NumberOf(from, beats, k))
           D(h) == [k \in 0 .. n |-> IF k = 0 THEN <<>> ELSE h[k - 1] \o N(k)]
           W == Written(from, beats)
           S == Seq(Lines)
           f == [i \in Nat |-> [x \in S |-> x \o N(i + 1)]]
           b == <<>>
<1>1. n \in Nat BY LenProperties
<1>2. b \in S BY EmptySeq
<1>3. \A i \in Nat : N(i + 1) \in Seq(Lines) BY NumberIsNatural, LinesWritten
<1>4. W = CHOOSE h : h = D(h) BY DEF Written
<1> HIDE DEF N, n
<1>5. ASSUME NEW i \in Nat, NEW x \in S PROVE x \o N(i + 1) \in S
  BY <1>3, <1>5, ConcatProperties
<1>6. f \in [Nat -> [S -> S]] BY <1>5
<1>7. \A i \in Nat : \A x \in S : f[i][x] = x \o N(i + 1) OBVIOUS
<1> HIDE DEF f, S, b
<1>8. Builds(b, f, S) BY <1>2, <1>6, PrimitiveRecursion
<1>9. PICK g \in [Nat -> S] : g[0] = b /\ \A i \in Nat : g[i + 1] = f[i][g[i]]
  BY <1>8 DEF Builds
<1> DEFINE F == [k \in 0 .. n |-> g[k]]
<1>10. F = D(F)
  <2>1. ASSUME NEW k \in 0 .. n PROVE F[k] = IF k = 0 THEN <<>> ELSE F[k - 1] \o N(k)
    <3>1. CASE k = 0 BY <1>9, <3>1 DEF b
    <3>2. CASE k # 0
      <4>1. k - 1 \in Nat /\ (k - 1) + 1 = k /\ k - 1 \in 0 .. n BY <1>1, <3>2
      <4>2. g[k] = f[k - 1][g[k - 1]] /\ g[k - 1] \in S BY <1>9, <4>1
      <4>3. f[k - 1][g[k - 1]] = g[k - 1] \o N(k) BY <1>7, <4>1, <4>2
      <4> QED BY <3>2, <4>1, <4>2, <4>3
    <3> QED BY <3>1, <3>2
  <2> QED BY <2>1
<1> HIDE DEF F, W
<1>11. W = D(W) BY <1>4, <1>10
<1>12. W[0] = <<>> BY <1>1, <1>11
<1>13. ASSUME NEW k \in 0 .. n - 1 PROVE W[k + 1] = W[k] \o N(k + 1)
  <2>1. k + 1 \in 0 .. n /\ k + 1 # 0 /\ (k + 1) - 1 = k BY <1>1
  <2> QED BY <1>11, <2>1
<1> HIDE DEF D
<1> DEFINE T == {k \in Nat : k <= n => W[k] \in Seq(Lines)}
<1>14. 0 \in T BY <1>2, <1>12 DEF S, b
<1>15. ASSUME NEW k \in Nat, k \in T PROVE k + 1 \in T
  <2>1. SUFFICES ASSUME k + 1 <= n PROVE W[k + 1] \in Seq(Lines) OBVIOUS
  <2>2. k \in 0 .. n - 1 /\ W[k] \in Seq(Lines) BY <1>1, <1>15, <2>1
  <2> QED BY <1>3, <1>13, <2>2, ConcatProperties
<1> HIDE DEF T
<1>16. Nat \subseteq T BY <1>14, <1>15, SetInduction
<1>17. \A k \in 0 .. n : W[k] \in Seq(Lines) BY <1>1, <1>16 DEF T
<1> QED BY <1>12, <1>13, <1>17 DEF W, n, N

(* A line leaves the reader in one of its states; one that is not blank    *)
(* adds nothing to what has been read.                                     *)
LEMMA LineRead ==
    ASSUME NEW s \in Reads, NEW line \in Lines
    PROVE  /\ ReadSSELine(s, line) \in Reads
           /\ line # Blank => /\ ReadSSELine(s, line).out = s.out
                              /\ ReadSSELine(s, line).last = s.last
                              /\ ReadSSELine(s, line).err = s.err
PROOF
<1>1. /\ s.data \in Seq(Int) /\ s.id \in Int /\ s.last \in Int
      /\ s.out \in Seq(Seq(Int)) /\ s.err \in BOOLEAN
      /\ line.value \in Int
  BY DEF Reads, Lines
<1>2. /\ Append(s.data, line.value) \in Seq(Int) /\ Append(s.out, s.data) \in Seq(Seq(Int))
  BY <1>1, AppendProperties
<1>3. <<>> \in Seq(Int) BY EmptySeq
<1>4. HandleSSEData(s) \in Reads
  <2> DEFINE cut == Truncated \in {s.id} \cup ToSet(s.data)
  <2>1. HandleSSEData(s) =
            IF cut THEN [s EXCEPT !.err = TRUE]
            ELSE [s EXCEPT !.last = IF s.id > @ THEN s.id ELSE @,
                           !.out = Append(@, s.data),
                           !.data = <<>>, !.id = 0]
    BY DEF HandleSSEData
  <2> HIDE DEF cut
  <2>2. CASE cut BY <1>1, <2>1, <2>2 DEF Reads
  <2>3. CASE ~cut
    <3> DEFINE last == IF s.id > s.last THEN s.id ELSE s.last
               out == Append(s.out, s.data)
               nothing == <<>>
    <3>1. HandleSSEData(s) = [s EXCEPT !.last = last, !.out = out, !.data = nothing, !.id = 0]
      BY <2>1, <2>3
    <3>2. last \in Int /\ out \in Seq(Seq(Int)) /\ nothing \in Seq(Int) BY <1>1, <1>2, <1>3
    <3> HIDE DEF last, out, nothing
    <3>3. HandleSSEData(s) =
              [data |-> nothing, id |-> 0, last |-> last, out |-> out, err |-> s.err]
      BY <3>1 DEF Reads
    <3> QED BY <1>1, <3>2, <3>3 DEF Reads
  <2> QED BY <2>2, <2>3
<1>5. line # Blank =>
          /\ ReadSSELine(s, line) \in Reads
          /\ ReadSSELine(s, line).out = s.out /\ ReadSSELine(s, line).last = s.last
          /\ ReadSSELine(s, line).err = s.err
  BY <1>1, <1>2 DEF ReadSSELine, Reads
<1>6. line = Blank => ReadSSELine(s, line) \in Reads BY <1>4 DEF ReadSSELine
<1> QED BY <1>5, <1>6

(* What has been read after each number of lines.                          *)
LEMMA ReadingNext ==
    ASSUME NEW body \in Seq(Lines)
    PROVE  /\ Reading(body)[0] = NothingRead
           /\ \A i \in 0 .. Len(body) - 1 :
                  Reading(body)[i + 1] = ReadSSELine(Reading(body)[i], body[i + 1])
           /\ \A i \in 0 .. Len(body) : Reading(body)[i] \in Reads
PROOF
<1> DEFINE n == Len(body)
           l(i) == IF i <= n THEN body[i] ELSE Blank
           D(h) == [i \in 0 .. n |-> IF i = 0 THEN NothingRead ELSE ReadSSELine(h[i - 1], body[i])]
           W == Reading(body)
           f == [i \in Nat |-> [x \in Reads |-> ReadSSELine(x, l(i + 1))]]
<1>1. n \in Nat /\ \A i \in 1 .. n : body[i] \in Lines BY LenProperties, ElementOfSeq
<1>2. NothingRead \in Reads
  <2>1. <<>> \in Seq(Int) /\ <<>> \in Seq(Seq(Int)) BY EmptySeq
  <2> QED BY <2>1 DEF NothingRead, Reads
<1>3. \A i \in Nat : l(i + 1) \in Lines
  <2> QED BY <1>1, BlankIsLine
<1>4. W = CHOOSE h : h = D(h) BY DEF Reading
<1> HIDE DEF l, n
<1>5. f \in [Nat -> [Reads -> Reads]] BY <1>3, LineRead
<1>6. \A i \in Nat : \A x \in Reads : f[i][x] = ReadSSELine(x, l(i + 1)) OBVIOUS
<1> HIDE DEF f
<1>7. Builds(NothingRead, f, Reads) BY <1>2, <1>5, PrimitiveRecursion
<1>8. PICK g \in [Nat -> Reads] : g[0] = NothingRead /\ \A i \in Nat : g[i + 1] = f[i][g[i]]
  BY <1>7 DEF Builds
<1> DEFINE F == [i \in 0 .. n |-> g[i]]
<1>9. F = D(F)
  <2>1. ASSUME NEW k \in 0 .. n
        PROVE  F[k] = IF k = 0 THEN NothingRead ELSE ReadSSELine(F[k - 1], body[k])
    <3>1. CASE k = 0 BY <1>8, <3>1
    <3>2. CASE k # 0
      <4>1. k - 1 \in Nat /\ (k - 1) + 1 = k /\ k - 1 \in 0 .. n BY <1>1, <3>2
      <4>2. g[k] = f[k - 1][g[k - 1]] /\ g[k - 1] \in Reads BY <1>8, <4>1
      <4>3. f[k - 1][g[k - 1]] = ReadSSELine(g[k - 1], l(k)) BY <1>6, <4>1, <4>2
      <4>4. l(k) = body[k] BY <1>1 DEF l
      <4> QED BY <3>2, <4>1, <4>2, <4>3, <4>4
    <3> QED BY <3>1, <3>2
  <2> QED BY <2>1
<1> HIDE DEF F, W
<1>10. W = D(W) BY <1>4, <1>9
<1>11. W[0] = NothingRead BY <1>1, <1>10
<1>12. ASSUME NEW k \in 0 .. n - 1 PROVE W[k + 1] = ReadSSELine(W[k], body[k + 1])
  <2>1. k + 1 \in 0 .. n /\ k + 1 # 0 /\ (k + 1) - 1 = k BY <1>1
  <2> QED BY <1>10, <2>1
<1> HIDE DEF D
<1> DEFINE T == {k \in Nat : k <= n => W[k] \in Reads}
<1>13. 0 \in T BY <1>2, <1>11
<1>14. ASSUME NEW k \in Nat, k \in T PROVE k + 1 \in T
  <2>1. SUFFICES ASSUME k + 1 <= n PROVE W[k + 1] \in Reads OBVIOUS
  <2>2. k \in 0 .. n - 1 /\ W[k] \in Reads /\ k + 1 \in 1 .. n BY <1>1, <1>14, <2>1
  <2> QED BY <1>1, <1>12, <2>2, LineRead
<1> HIDE DEF T
<1>15. Nat \subseteq T BY <1>13, <1>14, SetInduction
<1>16. \A k \in 0 .. n : W[k] \in Reads BY <1>1, <1>15 DEF T
<1> QED BY <1>11, <1>12, <1>16 DEF W, n

(* A state of the reader that has met no error.                            *)
State(data, id, last, out) ==
    [data |-> data, id |-> id, last |-> last, out |-> out, err |-> FALSE]

Fields == {"data", "id", "last", "out", "err"}

LEMMA StateByFields ==
    ASSUME NEW r, r = [z \in Fields |-> r[z]], r.err = FALSE
    PROVE  r = State(r.data, r.id, r.last, r.out)
PROOF
<1> DEFINE t == State(r.data, r.id, r.last, r.out)
<1>1. /\ DOMAIN t = Fields
      /\ t.data = r.data /\ t.id = r.id /\ t.last = r.last /\ t.out = r.out /\ t.err = FALSE
  BY DEF Fields, State
<1>2. t = [z \in Fields |-> t[z]] BY <1>1 DEF State
<1> HIDE DEF t
<1>4. \A z \in Fields : r[z] = t[z] BY <1>1 DEF Fields
<1>5. r = t BY <1>2, <1>4
<1> QED BY <1>5 DEF t

LEMMA EachLine ==
    ASSUME NEW data, NEW id, NEW last, NEW out, NEW n \in Int
    PROVE  /\ ReadSSELine(State(data, id, last, out), Line("comment", n)) = State(data, id, last, out)
           /\ ReadSSELine(State(data, id, last, out), Line("event", n)) = State(data, id, last, out)
           /\ ReadSSELine(State(data, id, last, out), Line("id", n)) = State(data, n, last, out)
           /\ ReadSSELine(State(data, id, last, out), Line("data", n)) =
                  State(Append(data, n), id, last, out)
           /\ ReadSSELine(State(data, id, last, out), Blank) =
                  IF data = <<>> THEN State(data, id, last, out)
                  ELSE HandleSSEData(State(data, id, last, out))
PROOF
<1> DEFINE s == State(data, id, last, out)
<1>1. /\ s.data = data /\ s.id = id /\ s.last = last /\ s.out = out /\ s.err = FALSE
      /\ \A v : [s EXCEPT !.id = v] = State(data, v, last, out)
      /\ \A v : [s EXCEPT !.data = v] = State(v, id, last, out)
  <2>1. s.data = data /\ s.id = id /\ s.last = last /\ s.out = out /\ s.err = FALSE
    BY DEF State
  <2>0. DOMAIN s = Fields BY DEF State, Fields
  <2> HIDE DEF s
  <2>2. ASSUME NEW v PROVE [s EXCEPT !.id = v] = State(data, v, last, out)
    <3> DEFINE r == [s EXCEPT !.id = v]
    <3>1. r = [z \in Fields |-> r[z]] BY <2>0
    <3>2. r.data = data /\ r.id = v /\ r.last = last /\ r.out = out /\ r.err = FALSE
      BY <2>0, <2>1 DEF Fields
    <3> HIDE DEF r
    <3>3. r = State(data, v, last, out) BY <3>1, <3>2, StateByFields
    <3> QED BY <3>3 DEF r
  <2>3. ASSUME NEW v PROVE [s EXCEPT !.data = v] = State(v, id, last, out)
    <3> DEFINE r == [s EXCEPT !.data = v]
    <3>1. r = [z \in Fields |-> r[z]] BY <2>0
    <3>2. r.data = v /\ r.id = id /\ r.last = last /\ r.out = out /\ r.err = FALSE
      BY <2>0, <2>1 DEF Fields
    <3> HIDE DEF r
    <3>3. r = State(v, id, last, out) BY <3>1, <3>2, StateByFields
    <3> QED BY <3>3 DEF r
  <2> QED BY <2>1, <2>2, <2>3
<1> HIDE DEF s
<1>2. \A name \in {"comment", "event", "id", "data"} :
          /\ Line(name, n) # Blank /\ Line(name, n).name = name /\ Line(name, n).value = n
  BY DEF Line, Blank
<1>3. ReadSSELine(s, Line("comment", n)) = s BY <1>1, <1>2 DEF ReadSSELine
<1>4. ReadSSELine(s, Line("event", n)) = s BY <1>1, <1>2 DEF ReadSSELine
<1>5. ReadSSELine(s, Line("id", n)) = [s EXCEPT !.id = n] BY <1>1, <1>2 DEF ReadSSELine
<1>6. ReadSSELine(s, Line("data", n)) = [s EXCEPT !.data = Append(s.data, n)]
  BY <1>1, <1>2 DEF ReadSSELine
<1>7. ReadSSELine(s, Blank) = IF s.data = <<>> THEN s ELSE HandleSSEData(s)
  BY <1>1 DEF ReadSSELine
<1> QED BY <1>1, <1>3, <1>4, <1>5, <1>6, <1>7 DEF s

(* The messages of the first c events.                                     *)
EventMessages(from, c) == [i \in 1 .. c |-> <<(from + i) - 1>>]

LEMMA OneMoreMessage ==
    ASSUME NEW from \in Nat, NEW c \in Nat
    PROVE  Append(EventMessages(from, c), <<from + c>>) = EventMessages(from, c + 1)
PROOF
<1> DEFINE S == Seq(Int)
           a == EventMessages(from, c)
           b == EventMessages(from, c + 1)
           m == <<from + c>>
<1>1. \A i \in Nat : <<(from + i) - 1>> \in S OBVIOUS
<1>2. m \in S /\ <<(from + (c + 1)) - 1>> = m
  <2>1. (from + (c + 1)) - 1 = from + c OBVIOUS
  <2> QED BY <2>1
<1> HIDE DEF S, m
<1>3. a \in [1 .. c -> S] /\ b \in [1 .. c + 1 -> S] BY <1>1 DEF EventMessages
<1>4. a \in Seq(S) /\ b \in Seq(S) /\ c + 1 \in Nat BY <1>3, SeqDef
<1>5. Len(a) = c /\ Len(b) = c + 1
  <2>1. DOMAIN a = 1 .. c /\ DOMAIN b = 1 .. c + 1 BY <1>3
  <2> HIDE DEF a, b
  <2>2. 1 .. Len(a) = 1 .. c /\ 1 .. Len(b) = 1 .. c + 1 BY <1>4, <2>1, LenProperties
  <2> QED BY <1>4, <2>2, LenProperties, SameLength
<1>6. /\ \A i \in 1 .. c : a[i] = <<(from + i) - 1>>
      /\ \A i \in 1 .. c + 1 : b[i] = <<(from + i) - 1>>
  BY DEF EventMessages
<1> HIDE DEF a, b
<1>7. /\ Append(a, m) \in Seq(S) /\ Len(Append(a, m)) = c + 1
      /\ \A i \in 1 .. c : Append(a, m)[i] = a[i]
      /\ Append(a, m)[c + 1] = m
  BY <1>2, <1>4, <1>5, AppendProperties
<1>8. ASSUME NEW i \in 1 .. c + 1 PROVE Append(a, m)[i] = b[i]
  <2>1. CASE i = c + 1
    <3>1. b[c + 1] = <<(from + (c + 1)) - 1>> BY <1>6
    <3> QED BY <1>2, <1>7, <2>1, <3>1
  <2>2. CASE i # c + 1
    <3>1. i \in 1 .. c BY <2>2
    <3> QED BY <1>6, <1>7, <3>1
  <2> QED BY <2>1, <2>2
<1>9. Append(a, m) = b BY <1>4, <1>5, <1>7, <1>8, SeqEqual
<1> QED BY <1>9 DEF a, b, m

(* What has been read when c events have arrived, and nothing after them.  *)
LastOf(from, c) == IF c = 0 THEN 0 ELSE (from + c) - 1
AfterEvents(from, c) == State(<<>>, 0, LastOf(from, c), EventMessages(from, c))

LEMMA HeartbeatRead ==
    ASSUME NEW from, NEW c
    PROVE  ReadSSELine(ReadSSELine(AfterEvents(from, c), Line("comment", 0)), Blank) =
               AfterEvents(from, c)
PROOF BY EachLine DEF AfterEvents

LEMMA EventRead ==
    ASSUME NEW from \in Nat, from > 0, NEW c \in Nat, NEW s1, NEW s2, NEW s3,
           s1 = ReadSSELine(AfterEvents(from, c), Line("id", from + c)),
           s2 = ReadSSELine(s1, Line("event", 0)),
           s3 = ReadSSELine(s2, Line("data", from + c))
    PROVE  ReadSSELine(s3, Blank) = AfterEvents(from, c + 1)
PROOF
<1> DEFINE m == from + c
           l == LastOf(from, c)
           o == EventMessages(from, c)
           d == <<m>>
           e == <<>>
<1>1. m \in Int /\ m # Truncated /\ l \in Int /\ m > l BY DEF Truncated, LastOf
<1>2. m = LastOf(from, c + 1) BY DEF LastOf
<1>3. AfterEvents(from, c) = State(e, 0, l, o) BY DEF AfterEvents
<1>4. Append(e, m) = d /\ d # e /\ ToSet(d) = {m} BY DEF ToSet
<1>5. Append(o, d) = EventMessages(from, c + 1) BY OneMoreMessage
<1>6. AfterEvents(from, c + 1) = State(e, 0, m, Append(o, d)) BY <1>2, <1>5 DEF AfterEvents
<1>7. s1 = ReadSSELine(AfterEvents(from, c), Line("id", m)) /\ s3 = ReadSSELine(s2, Line("data", m))
  OBVIOUS
<1>8. \A x \in {m} \cup {m} : x # Truncated BY <1>1
<1>9. e = <<>> OBVIOUS
<1> HIDE DEF m, l, o, d, e
<1>10. s1 = State(e, m, l, o) BY <1>1, <1>3, <1>7, EachLine
<1>11. s2 = State(e, m, l, o) BY <1>10, EachLine
<1>12. s3 = State(d, m, l, o)
  <2>1. ReadSSELine(State(e, m, l, o), Line("data", m)) = State(Append(e, m), m, l, o)
    BY <1>1, EachLine
  <2> QED BY <1>4, <1>7, <1>11, <2>1
<1>13. ReadSSELine(s3, Blank) = HandleSSEData(State(d, m, l, o))
  BY <1>1, <1>4, <1>9, <1>12, EachLine
<1>14. HandleSSEData(State(d, m, l, o)) = State(e, 0, m, Append(o, d))
  <2> DEFINE s == State(d, m, l, o)
  <2>1. s.data = d /\ s.id = m /\ s.last = l /\ s.out = o BY DEF State
  <2>2. Truncated \notin {s.id} \cup ToSet(s.data) BY <1>4, <1>8, <2>1
  <2>3. HandleSSEData(s) = [s EXCEPT !.last = m, !.out = Append(o, d), !.data = e, !.id = 0]
    BY <1>1, <1>9, <2>1, <2>2 DEF HandleSSEData
  <2> QED BY <2>3 DEF State
<1> QED BY <1>6, <1>13, <1>14

(* The lines w are the first of a body.                                    *)
Carries(body, w) == Len(w) <= Len(body) /\ \A i \in 1 .. Len(w) : body[i] = w[i]

(* A body that carries the lines of the first k writes has the messages of *)
(* their events, and k blank lines.                                        *)
LEMMA WholeWritesRead ==
    ASSUME NEW from \in Nat, from > 0, NEW beats \in Seq(BOOLEAN), NEW body \in Seq(Lines)
    PROVE  \A k \in 0 .. Len(beats) :
               Carries(body, Written(from, beats)[k]) =>
                   LET m == Len(Written(from, beats)[k])
                   IN  /\ Reading(body)[m] = AfterEvents(from, EventsAmong(beats, k))
                       /\ BlanksAmong(body, m) = k
PROOF
<1> DEFINE W == Written(from, beats)
           R == Reading(body)
           A(k) == AfterEvents(from, EventsAmong(beats, k))
           B(m) == BlanksAmong(body, m)
           T == {k \in Nat : k <= Len(beats) /\ Carries(body, W[k]) =>
                                 R[Len(W[k])] = A(k) /\ B(Len(W[k])) = k}
<1>1. Len(beats) \in Nat /\ Len(body) \in Nat BY LenProperties
<1>2. /\ W[0] = <<>>
      /\ \A k \in 0 .. Len(beats) - 1 :
             W[k + 1] = W[k] \o WrittenFor(NumberOf(from, beats, k + 1))
      /\ \A k \in 0 .. Len(beats) : W[k] \in Seq(Lines)
  BY WrittenNext
<1>3. /\ R[0] = NothingRead
      /\ \A i \in 0 .. Len(body) - 1 : R[i + 1] = ReadSSELine(R[i], body[i + 1])
  BY ReadingNext
<1>4. B(0) = 0 /\ \A m \in Nat : B(m + 1) = B(m) + (IF body[m + 1] = Blank THEN 1 ELSE 0)
  BY BlanksNext
<1>5. A(0) = NothingRead
  <2>1. EventsAmong(beats, 0) = 0 BY EventsNext, 0 \in Nat
  <2>2. EventMessages(from, 0) = <<>> BY DEF EventMessages
  <2> QED BY <2>1, <2>2 DEF AfterEvents, State, NothingRead, LastOf
<1> HIDE DEF W, R
<1>6. 0 \in T BY <1>2, <1>3, <1>4, <1>5, EmptySeq
<1>7. ASSUME NEW k \in Nat, k \in T PROVE k + 1 \in T
  <2>1. SUFFICES ASSUME k + 1 <= Len(beats), Carries(body, W[k + 1])
                 PROVE  R[Len(W[k + 1])] = A(k + 1) /\ B(Len(W[k + 1])) = k + 1
    OBVIOUS
  <2> DEFINE n == NumberOf(from, beats, k + 1)
             l == Len(W[k])
             w == WrittenFor(n)
             c == EventsAmong(beats, k)
  <2>2. k \in 0 .. Len(beats) - 1 /\ k \in 0 .. Len(beats) /\ k <= Len(beats) BY <1>1, <2>1
  <2>3. n \in Nat BY NumberIsNatural
  <2>4. /\ W[k] \in Seq(Lines) /\ l \in Nat /\ w \in Seq(Lines) /\ W[k + 1] = W[k] \o w
        /\ Len(w) = IF n = 0 THEN 2 ELSE 4
        /\ \A i \in 1 .. Len(w) : w[i] = Blank <=> i = Len(w)
    BY <1>2, <2>2, <2>3, LinesWritten, LenProperties
  <2>5. /\ Len(W[k + 1]) = l + Len(w)
        /\ \A i \in 1 .. l + Len(w) :
               W[k + 1][i] = IF i <= l THEN W[k][i] ELSE w[i - l]
    <3> DEFINE v == W[k]
    <3>1. v \in Seq(Lines) /\ l = Len(v) BY <2>4
    <3> HIDE DEF v, w, l
    <3>2. /\ Len(v \o w) = Len(v) + Len(w)
          /\ \A i \in 1 .. Len(v) + Len(w) :
                 (v \o w)[i] = IF i <= Len(v) THEN v[i] ELSE w[i - Len(v)]
      BY <2>4, <3>1, ConcatProperties
    <3>3. W[k + 1] = v \o w BY <2>4 DEF v
    <3> QED BY <3>1, <3>2, <3>3 DEF v
  <2>6. w = IF n = 0 THEN <<Line("comment", 0), Blank>>
            ELSE <<Line("id", n), Line("event", 0), Line("data", n), Blank>>
    BY DEF WrittenFor
  <2>7. c \in Nat /\ EventsAmong(beats, k + 1) = c + (IF beats[k + 1] THEN 0 ELSE 1)
    BY EventsNext
  <2>8. n = IF beats[k + 1] THEN 0 ELSE from + c
    <3>1. (k + 1) - 1 = k OBVIOUS
    <3> QED BY <3>1 DEF NumberOf
  <2> HIDE DEF n, l, w, c
  <2>9. /\ l + Len(w) <= Len(body) /\ \A i \in 1 .. l : body[i] = W[k][i]
        /\ \A i \in 1 .. Len(w) : body[l + i] = w[i]
    <3>1. Len(w) \in Nat BY <2>4
    <3>2. l + Len(w) <= Len(body) /\ \A i \in 1 .. l + Len(w) : body[i] = W[k + 1][i]
      BY <2>1, <2>5 DEF Carries
    <3>3. \A i \in 1 .. l : i \in 1 .. l + Len(w) /\ i <= l BY <2>4, <3>1
    <3>4. \A i \in 1 .. Len(w) : l + i \in 1 .. l + Len(w) /\ ~(l + i <= l) /\ (l + i) - l = i
      BY <2>4, <3>1
    <3> QED BY <2>5, <3>2, <3>3, <3>4
  <2>10. l <= Len(body) BY <1>1, <2>4, <2>9
  <2>11. Carries(body, W[k]) BY <2>9, <2>10 DEF Carries, l
  <2>12. R[l] = A(k) /\ B(l) = k BY <1>7, <2>2, <2>11 DEF l
  <2>13. CASE beats[k + 1]
    <3>1. n = 0 /\ Len(w) = 2 /\ w = <<Line("comment", 0), Blank>> BY <2>4, <2>6, <2>8, <2>13
    <3>2. body[l + 1] = Line("comment", 0) /\ body[l + 2] = Blank /\ body[l + 1] # Blank
      <4>1. w[1] = Line("comment", 0) /\ w[2] = Blank /\ 1 \in 1 .. Len(w) /\ 2 \in 1 .. Len(w)
        BY <3>1
      <4>2. Line("comment", 0) # Blank BY NamedLine, 0 \in Int
      <4> QED BY <2>9, <4>1, <4>2
    <3>3. l \in 0 .. Len(body) - 1 /\ l + 1 \in 0 .. Len(body) - 1 /\ (l + 1) + 1 = l + 2
      BY <1>1, <2>4, <2>9, <3>1
    <3>4. R[l + 1] = ReadSSELine(R[l], body[l + 1]) /\ R[l + 2] = ReadSSELine(R[l + 1], body[l + 2])
      BY <1>3, <3>3
    <3>5. R[l + 2] = AfterEvents(from, c)
      <4>1. R[l] = AfterEvents(from, c) BY <2>12 DEF c
      <4>2. R[l + 2] = ReadSSELine(ReadSSELine(AfterEvents(from, c), Line("comment", 0)), Blank)
        BY <3>2, <3>4, <4>1
      <4> QED BY <4>2, HeartbeatRead
    <3>6. B(l + 1) = k + 0 /\ B(l + 2) = B(l + 1) + 1
      <4>1. l + 1 \in Nat BY <2>4
      <4> HIDE DEF B
      <4> QED BY <1>4, <2>4, <2>12, <3>2, <3>3, <4>1
    <3>7. EventsAmong(beats, k + 1) = c BY <2>7, <2>13
    <3>8. B(l + 2) = k + 1
      <4> HIDE DEF B
      <4> QED BY <3>6
    <3> QED BY <2>5, <3>1, <3>5, <3>7, <3>8
  <2>14. CASE ~beats[k + 1]
    <3>1. /\ n = from + c /\ Len(w) = 4
          /\ w = <<Line("id", n), Line("event", 0), Line("data", n), Blank>>
      BY <2>4, <2>6, <2>7, <2>8, <2>14
    <3>2. /\ body[l + 1] = Line("id", n) /\ body[l + 2] = Line("event", 0)
          /\ body[l + 3] = Line("data", n) /\ body[l + 4] = Blank
          /\ body[l + 1] # Blank /\ body[l + 2] # Blank /\ body[l + 3] # Blank
      <4>1. /\ w[1] = Line("id", n) /\ w[2] = Line("event", 0) /\ w[3] = Line("data", n)
            /\ w[4] = Blank
            /\ 1 \in 1 .. Len(w) /\ 2 \in 1 .. Len(w) /\ 3 \in 1 .. Len(w) /\ 4 \in 1 .. Len(w)
        <5>1. 1 \in 1 .. 4 /\ 2 \in 1 .. 4 /\ 3 \in 1 .. 4 /\ 4 \in 1 .. 4 OBVIOUS
        <5> HIDE DEF w, n
        <5> QED BY <3>1, <5>1
      <4>2. Line("id", n) # Blank /\ Line("event", 0) # Blank /\ Line("data", n) # Blank
        BY <2>3, NamedLine, 0 \in Int
      <4> QED BY <2>9, <4>1, <4>2
    <3>3. /\ l \in 0 .. Len(body) - 1 /\ l + 1 \in 0 .. Len(body) - 1
          /\ l + 2 \in 0 .. Len(body) - 1 /\ l + 3 \in 0 .. Len(body) - 1
          /\ (l + 1) + 1 = l + 2 /\ (l + 2) + 1 = l + 3 /\ (l + 3) + 1 = l + 4
      BY <1>1, <2>4, <2>9, <3>1
    <3>4. /\ R[l + 1] = ReadSSELine(R[l], body[l + 1])
          /\ R[l + 2] = ReadSSELine(R[l + 1], body[l + 2])
          /\ R[l + 3] = ReadSSELine(R[l + 2], body[l + 3])
          /\ R[l + 4] = ReadSSELine(R[l + 3], body[l + 4])
      BY <1>3, <3>3
    <3>5. R[l + 4] = AfterEvents(from, c + 1)
      <4>1. R[l] = AfterEvents(from, c) BY <2>12 DEF c
      <4>2. /\ R[l + 1] = ReadSSELine(AfterEvents(from, c), Line("id", from + c))
            /\ R[l + 2] = ReadSSELine(R[l + 1], Line("event", 0))
            /\ R[l + 3] = ReadSSELine(R[l + 2], Line("data", from + c))
            /\ R[l + 4] = ReadSSELine(R[l + 3], Blank)
        BY <3>1, <3>2, <3>4, <4>1
      <4> QED BY <2>7, <4>2, EventRead
    <3>6. B(l + 1) = B(l) + 0 /\ B(l + 2) = B(l + 1) + 0 /\ B(l + 3) = B(l + 2) + 0
          /\ B(l + 4) = B(l + 3) + 1
      <4>1. l + 1 \in Nat /\ l + 2 \in Nat /\ l + 3 \in Nat BY <2>4
      <4> HIDE DEF B
      <4> QED BY <1>4, <2>4, <3>2, <3>3, <4>1
    <3>7. EventsAmong(beats, k + 1) = c + 1 BY <2>7, <2>14
    <3>8. B(l + 4) = k + 1
      <4> HIDE DEF B
      <4> QED BY <2>12, <3>6
    <3> QED BY <2>5, <3>1, <3>5, <3>7, <3>8
  <2> QED BY <2>13, <2>14
<1> HIDE DEF T
<1>8. Nat \subseteq T BY <1>6, <1>7, SetInduction
<1>9. \A k \in 0 .. Len(beats) :
          Carries(body, W[k]) => R[Len(W[k])] = A(k) /\ B(Len(W[k])) = k
  BY <1>1, <1>8 DEF T
<1> QED BY <1>9 DEF W, R

(* The lines of the first writes begin those of more.                      *)
LEMMA WrittenPrefix ==
    ASSUME NEW from \in Nat, NEW beats \in Seq(BOOLEAN), NEW n \in 0 .. Len(beats)
    PROVE  \A k \in 0 .. n : Carries(Written(from, beats)[n], Written(from, beats)[k])
PROOF
<1> DEFINE W == Written(from, beats)
           T == {j \in Nat : j <= n => \A k \in 0 .. j : Carries(W[j], W[k])}
<1>1. Len(beats) \in Nat /\ n \in Nat BY LenProperties
<1>2. /\ \A k \in 0 .. Len(beats) - 1 :
             W[k + 1] = W[k] \o WrittenFor(NumberOf(from, beats, k + 1))
      /\ \A k \in 0 .. Len(beats) : W[k] \in Seq(Lines)
  BY WrittenNext
<1> HIDE DEF W
<1>3. ASSUME NEW w \in Seq(Lines) PROVE Carries(w, w)
  <2>1. Len(w) \in Nat BY LenProperties
  <2> QED BY <2>1 DEF Carries
<1>4. 0 \in T
  <2>1. W[0] \in Seq(Lines) BY <1>1, <1>2
  <2>2. \A k \in 0 .. 0 : k = 0 OBVIOUS
  <2> QED BY <1>3, <2>1, <2>2
<1>5. ASSUME NEW j \in Nat, j \in T PROVE j + 1 \in T
  <2>1. SUFFICES ASSUME j + 1 <= n, NEW k \in 0 .. j + 1 PROVE Carries(W[j + 1], W[k]) OBVIOUS
  <2>2. /\ j \in 0 .. Len(beats) - 1 /\ j \in 0 .. Len(beats) /\ j + 1 \in 0 .. Len(beats)
        /\ k \in 0 .. Len(beats)
    BY <1>1, <2>1
  <2>3. CASE k = j + 1 BY <1>2, <1>3, <2>2, <2>3
  <2>4. CASE k # j + 1
    <3> DEFINE u == W[k]
               v == W[j]
               w == WrittenFor(NumberOf(from, beats, j + 1))
    <3>1. k \in 0 .. j /\ j <= n BY <2>1, <2>4
    <3>2. Carries(v, u) BY <1>5, <3>1
    <3>3. u \in Seq(Lines) /\ v \in Seq(Lines) BY <1>2, <2>2
    <3>4. w \in Seq(Lines) BY NumberIsNatural, LinesWritten
    <3>5. W[j + 1] = v \o w BY <1>2, <2>2
    <3> HIDE DEF u, v, w
    <3>6. Len(u) \in Nat /\ Len(v) \in Nat /\ Len(w) \in Nat BY <3>3, <3>4, LenProperties
    <3>7. /\ Len(v \o w) = Len(v) + Len(w)
          /\ \A i \in 1 .. Len(v) + Len(w) :
                 (v \o w)[i] = IF i <= Len(v) THEN v[i] ELSE w[i - Len(v)]
      BY <3>3, <3>4, ConcatProperties
    <3>8. Carries(v \o w, u)
      <4>1. Len(u) <= Len(v) /\ \A i \in 1 .. Len(u) : v[i] = u[i] BY <3>2 DEF Carries
      <4>2. \A i \in 1 .. Len(u) : i \in 1 .. Len(v) + Len(w) /\ i <= Len(v) BY <3>6, <4>1
      <4>3. \A i \in 1 .. Len(u) : (v \o w)[i] = u[i] BY <3>7, <4>1, <4>2
      <4>4. Len(u) <= Len(v \o w) BY <3>6, <3>7, <4>1
      <4> QED BY <4>3, <4>4 DEF Carries
    <3> QED BY <3>5, <3>8 DEF u
  <2> QED BY <2>3, <2>4
<1> HIDE DEF T
<1>6. Nat \subseteq T BY <1>4, <1>5, SetInduction
<1>7. \A k \in 0 .. n : Carries(W[n], W[k]) BY <1>1, <1>6 DEF T
<1> QED BY <1>7 DEF W

(* The writes of which all lines are in the body, and no blank line after. *)
WholeWrites(from, beats, body, k) ==
    /\ k \in 0 .. Len(beats) /\ Carries(body, Written(from, beats)[k])
    /\ \A i \in Len(Written(from, beats)[k]) + 1 .. Len(body) : body[i] # Blank

(* A piece of a line is a line, and not blank.                             *)
LEMMA PiecesOfLines ==
    ASSUME NEW line \in Lines, NEW piece \in Pieces(line)
    PROVE  /\ piece \in Seq(Lines) /\ Len(piece) \in Nat /\ Len(piece) <= 1
           /\ Len(piece) = 1 => piece[1] # Blank
PROOF
<1>1. CASE piece = <<>>
  <2>1. <<>> \in Seq(Lines) /\ Len(<<>>) = 0 BY EmptySeq
  <2> QED BY <1>1, <2>1
<1>2. CASE piece # <<>>
  <2>1. line # Blank /\ piece \in {<<Line("other", 0)>>, <<Line(line.name, Truncated)>>, <<line>>}
    BY <1>2 DEF Pieces
  <2>2. Line("other", 0) \in Lines /\ Line("other", 0) # Blank BY NamedLine, 0 \in Int
  <2>3. Line(line.name, Truncated) \in Lines /\ Line(line.name, Truncated) # Blank
    <3>1. Line(line.name, Truncated) \in Lines
      <4>1. line.name \in {"", "comment", "id", "event", "data", "other"} BY DEF Lines
      <4>2. Truncated \in Int BY DEF Truncated
      <4> QED BY <4>1, <4>2 DEF Line, Lines
    <3>2. Line(line.name, Truncated) # Blank
      <4>1. Line(line.name, Truncated).value = Truncated /\ Blank.value = 0 BY DEF Line, Blank
      <4>2. Truncated # 0 BY DEF Truncated
      <4> QED BY <4>1, <4>2
    <3> QED BY <3>1, <3>2
  <2>4. PICK l \in Lines : piece = <<l>> /\ l # Blank BY <2>1, <2>2, <2>3
  <2> QED BY <2>4
<1> QED BY <1>1, <1>2

LEMMA BodyHasWholeWrites ==
    ASSUME NEW from \in Nat, NEW beats \in Seq(BOOLEAN),
           NEW body \in Bodies(Written(from, beats)[Len(beats)])
    PROVE  body \in Seq(Lines) /\ \E k : WholeWrites(from, beats, body, k)
PROOF
<1> DEFINE W == Written(from, beats)
           N == Len(beats)
           lines == W[N]
<1>1. N \in Nat /\ N \in 0 .. N BY LenProperties
<1>2. /\ \A k \in 0 .. N : W[k] \in Seq(Lines) /\ Carries(lines, W[k])
      /\ W[0] = <<>>
      /\ \A k \in 0 .. N - 1 : W[k + 1] = W[k] \o WrittenFor(NumberOf(from, beats, k + 1))
  BY <1>1, WrittenNext, WrittenPrefix
<1>3. lines \in Seq(Lines) /\ Len(lines) \in Nat BY <1>1, <1>2, LenProperties
<1> HIDE DEF W, lines, N
<1>4. CASE body = lines
  <2>1. WholeWrites(from, beats, body, N)
    <3>1. Carries(body, W[N]) BY <1>1, <1>2, <1>4
    <3>2. \A i \in Len(W[N]) + 1 .. Len(body) : FALSE BY <1>3, <1>4 DEF lines
    <3> QED BY <1>1, <3>1, <3>2 DEF WholeWrites, W, N
  <2> QED BY <1>3, <1>4, <2>1
<1>5. ASSUME NEW n \in 0 .. Len(lines) - 1, NEW piece \in Pieces(lines[n + 1]),
             body = SubSeq(lines, 1, n) \o piece
      PROVE  body \in Seq(Lines) /\ \E k : WholeWrites(from, beats, body, k)
  <2>1. n \in Nat /\ n < Len(lines) /\ n \in 0 .. Len(lines) BY <1>3
  <2>2. lines[n + 1] \in Lines
    <3>1. n + 1 \in 1 .. Len(lines) BY <1>3
    <3> QED BY <1>3, <3>1, ElementOfSeq
  <2> DEFINE q == Len(piece)
  <2>3. /\ piece \in Seq(Lines) /\ q \in Nat /\ q <= 1
        /\ q = 1 => piece[1] # Blank
    BY <2>2, PiecesOfLines
  <2> DEFINE head == SubSeq(lines, 1, n)
  <2>4. head \in Seq(Lines) /\ Len(head) = n /\ \A i \in 1 .. n : head[i] = lines[i]
    BY <1>3, <2>1, Beginning DEF Upto
  <2>5. body = head \o piece BY <1>5
  <2> HIDE DEF head
  <2>6. /\ body \in Seq(Lines) /\ Len(body) = n + q
        /\ \A i \in 1 .. n + q : body[i] = IF i <= n THEN lines[i] ELSE piece[i - n]
    <3>1. /\ head \o piece \in Seq(Lines) /\ Len(head \o piece) = Len(head) + Len(piece)
          /\ \A i \in 1 .. Len(head) + Len(piece) :
                 (head \o piece)[i] = IF i <= Len(head) THEN head[i] ELSE piece[i - Len(head)]
      BY <2>3, <2>4, ConcatProperties
    <3>2. \A i \in 1 .. n + q : i <= n => i \in 1 .. n BY <2>1
    <3> HIDE DEF q
    <3>3. Len(piece) = q BY DEF q
    <3> QED BY <2>4, <2>5, <3>1, <3>2, <3>3
  <2> HIDE DEF q
  (* k + 1 writes are the first that do not fit into n lines.              *)
  <2> DEFINE T == {j \in 0 .. N : Len(W[j]) > n}
  <2>7. N \in T BY <1>1, <2>1 DEF lines
  <2>8. T \subseteq Nat /\ T # {} BY <1>1, <2>7
  <2>9. PICK j \in T : \A y \in T : j <= y
    <3> HIDE DEF T
    <3> QED BY <2>8, LeastNat
  <2>10. j # 0
    <3>1. Len(W[0]) = 0 BY <1>2, EmptySeq
    <3> QED BY <2>1, <3>1
  <2> DEFINE k == j - 1
             l == Len(W[k])
             w == WrittenFor(NumberOf(from, beats, k + 1))
  <2>11. k \in Nat /\ k \in 0 .. N - 1 /\ k \in 0 .. N /\ k + 1 = j BY <1>1, <2>8, <2>10
  <2>12. k \notin T BY <2>9, <2>11
  <2> HIDE DEF k
  <2>13. /\ W[k] \in Seq(Lines) /\ l \in Nat /\ l <= n /\ Carries(lines, W[k])
         /\ Carries(lines, W[k + 1]) /\ W[k + 1] = W[k] \o w /\ n < Len(W[k + 1])
    <3>1. W[k] \in Seq(Lines) /\ l \in Nat BY <1>2, <2>11, LenProperties
    <3>2. l <= n BY <2>1, <2>11, <2>12, <3>1
    <3>3. j \in 0 .. N BY <2>9
    <3> QED BY <1>2, <2>9, <2>11, <3>1, <3>2, <3>3
  <2>14. /\ w \in Seq(Lines) /\ Len(w) \in Nat
         /\ \A i \in 1 .. Len(w) : w[i] = Blank <=> i = Len(w)
    BY <2>11, NumberIsNatural, LinesWritten, LenProperties
  <2>15. /\ Len(W[k + 1]) = l + Len(w)
         /\ \A i \in 1 .. l + Len(w) : W[k + 1][i] = IF i <= l THEN W[k][i] ELSE w[i - l]
    <3> DEFINE v == W[k]
    <3>1. v \in Seq(Lines) /\ l = Len(v) BY <2>13
    <3> HIDE DEF v, w, l
    <3>2. /\ Len(v \o w) = Len(v) + Len(w)
          /\ \A i \in 1 .. Len(v) + Len(w) :
                 (v \o w)[i] = IF i <= Len(v) THEN v[i] ELSE w[i - Len(v)]
      BY <2>14, <3>1, ConcatProperties
    <3>3. W[k + 1] = v \o w BY <2>13 DEF v
    <3> QED BY <3>1, <3>2, <3>3 DEF v
  <2> HIDE DEF l, w, T
  <2>16. Carries(body, W[k])
    <3>1. \A i \in 1 .. l : lines[i] = W[k][i] BY <2>13 DEF Carries, l
    <3>2. \A i \in 1 .. l : i \in 1 .. n + q /\ i <= n BY <2>1, <2>3, <2>13
    <3>3. l <= Len(body) BY <2>1, <2>3, <2>6, <2>13
    <3>4. \A i \in 1 .. l : body[i] = W[k][i] BY <2>6, <3>1, <3>2
    <3> QED BY <3>3, <3>4 DEF Carries, l
  <2>17. ASSUME NEW i \in l + 1 .. Len(body) PROVE body[i] # Blank
    <3>0. i \in Nat /\ i >= l + 1 /\ i <= n + q /\ n \in Nat
      <4>1. l \in Nat /\ n \in Nat /\ n + q \in Nat BY <2>1, <2>3, <2>13
      <4>2. i \in l + 1 .. n + q BY <2>6
      <4> QED BY <4>1, <4>2
    <3>1. CASE i <= n
      <4>1. i \in 1 .. n + q BY <2>13, <3>0
      <4>2. i \in 1 .. l + Len(w) /\ ~(i <= l) BY <2>1, <2>13, <2>14, <2>15, <3>0, <3>1
      <4>3. i - l \in 1 .. Len(w) /\ i - l # Len(w)
        BY <2>1, <2>13, <2>14, <2>15, <3>0, <3>1
      <4>4. lines[i] = W[k + 1][i]
        <5>1. i \in 1 .. Len(W[k + 1]) BY <2>15, <4>2
        <5> QED BY <2>13, <5>1 DEF Carries
      <4>5. W[k + 1][i] = w[i - l] /\ w[i - l] # Blank BY <2>14, <2>15, <4>2, <4>3
      <4>6. body[i] = lines[i] BY <2>6, <3>1, <4>1
      <4> QED BY <4>4, <4>5, <4>6
    <3>2. CASE ~(i <= n)
      <4>1. i - n = 1 /\ q = 1 /\ i \in 1 .. n + q
        <5>1. i > n BY <3>0, <3>2
        <5>2. q >= 1 BY <2>3, <3>0, <5>1
        <5>3. q = 1 BY <2>3, <5>2
        <5> QED BY <3>0, <5>1, <5>3
      <4>2. body[i] = piece[i - n] BY <2>6, <3>2, <4>1
      <4> QED BY <2>3, <4>1, <4>2
    <3> QED BY <3>1, <3>2
  <2>18. WholeWrites(from, beats, body, k)
    BY <2>11, <2>16, <2>17 DEF WholeWrites, W, N, l
  <2> QED BY <2>6, <2>18
<1> QED BY <1>4, <1>5 DEF Bodies, lines, W, N

(* Nothing is read after the last blank line.                              *)
LEMMA NothingMoreRead ==
    ASSUME NEW body \in Seq(Lines), NEW l \in 0 .. Len(body),
           \A i \in l + 1 .. Len(body) : body[i] # Blank
    PROVE  /\ Reading(body)[Len(body)].out = Reading(body)[l].out
           /\ Reading(body)[Len(body)].last = Reading(body)[l].last
           /\ Reading(body)[Len(body)].err = Reading(body)[l].err
           /\ BlanksAmong(body, Len(body)) = BlanksAmong(body, l)
PROOF
<1> DEFINE n == Len(body)
           R == Reading(body)
           B(m) == BlanksAmong(body, m)
           Same(m) == /\ R[m].out = R[l].out /\ R[m].last = R[l].last /\ R[m].err = R[l].err
                      /\ B(m) = B(l)
           T == {j \in Nat : l + j <= n => Same(l + j)}
<1>1. n \in Nat /\ l \in Nat /\ l <= n BY LenProperties
<1>2. /\ \A i \in 0 .. n - 1 : R[i + 1] = ReadSSELine(R[i], body[i + 1])
      /\ \A i \in 0 .. n : R[i] \in Reads
  BY ReadingNext
<1>3. \A m \in Nat : B(m) \in Nat /\ B(m + 1) = B(m) + (IF body[m + 1] = Blank THEN 1 ELSE 0)
  BY BlanksNext
<1> HIDE DEF n, R, B
<1>4. 0 \in T
  <2>1. l + 0 = l BY <1>1
  <2> QED BY <2>1
<1>5. ASSUME NEW j \in Nat, j \in T PROVE j + 1 \in T
  <2>1. SUFFICES ASSUME l + (j + 1) <= n PROVE Same(l + (j + 1)) OBVIOUS
  <2> DEFINE m == l + j
  <2>2. m \in Nat /\ m \in 0 .. n - 1 /\ m \in 0 .. n /\ m <= n /\ l + (j + 1) = m + 1
    BY <1>1, <2>1
  <2>3. Same(m) BY <1>5, <2>2
  <2>4. m + 1 \in l + 1 .. n /\ m + 1 \in 1 .. n BY <1>1, <2>2, <2>1
  <2> HIDE DEF m
  <2>5. body[m + 1] # Blank BY <2>4 DEF n
  <2>6. body[m + 1] \in Lines BY <2>4, ElementOfSeq DEF n
  <2>7. R[m + 1] = ReadSSELine(R[m], body[m + 1]) /\ R[m] \in Reads BY <1>2, <2>2
  <2>8. R[m + 1].out = R[m].out /\ R[m + 1].last = R[m].last /\ R[m + 1].err = R[m].err
    BY <2>5, <2>6, <2>7, LineRead
  <2>9. B(m + 1) = B(m)
    <3>1. B(m) \in Nat /\ B(m + 1) = B(m) + 0 BY <1>3, <2>2, <2>5
    <3> QED BY <3>1
  <2>10. Same(m + 1) BY <2>3, <2>8, <2>9
  <2> QED BY <2>2, <2>10
<1> HIDE DEF T
<1>6. Nat \subseteq T BY <1>4, <1>5, SetInduction
<1>7. n - l \in Nat /\ l + (n - l) = n /\ n <= n BY <1>1
<1>8. Same(n)
  <2>1. n - l \in T BY <1>6, <1>7
  <2>2. l + (n - l) <= n => Same(l + (n - l)) BY <2>1 DEF T
  <2> QED BY <1>7, <2>2
<1> QED BY <1>8 DEF n, R, B

(* Wherever the body ends, what was read are the events that arrived whole.*)
LEMMA BodiesAreExact ==
    ASSUME NEW from \in Nat, from > 0, NEW beats \in Seq(BOOLEAN),
           NEW body \in Bodies(Written(from, beats)[Len(beats)])
    PROVE  BodyExact(from, beats, body)
PROOF
<1>1. body \in Seq(Lines) BY BodyHasWholeWrites
<1>2. PICK k : WholeWrites(from, beats, body, k) BY BodyHasWholeWrites
<1> DEFINE l == Len(Written(from, beats)[k])
           n == Len(body)
           R == Reading(body)
           c == EventsAmong(beats, k)
<1>3. /\ k \in 0 .. Len(beats) /\ Carries(body, Written(from, beats)[k])
      /\ \A i \in l + 1 .. n : body[i] # Blank
  BY <1>2 DEF WholeWrites
<1>4. R[l] = AfterEvents(from, c) /\ BlanksAmong(body, l) = k BY <1>1, <1>3, WholeWritesRead
<1>5. l \in 0 .. n
  <2>1. Written(from, beats)[k] \in Seq(Lines) BY <1>3, WrittenNext
  <2>2. l \in Nat /\ n \in Nat BY <1>1, <2>1, LenProperties
  <2> QED BY <1>3, <2>2 DEF Carries
<1> HIDE DEF l
<1>6. /\ R[n].out = R[l].out /\ R[n].last = R[l].last /\ R[n].err = R[l].err
      /\ BlanksAmong(body, n) = BlanksAmong(body, l)
  BY <1>1, <1>3, <1>5, NothingMoreRead
<1>7. /\ R[l].out = EventMessages(from, c) /\ R[l].last = LastOf(from, c) /\ R[l].err = FALSE
  BY <1>4 DEF AfterEvents, State
<1>8. ReadSSE(body) = R[n] BY DEF ReadSSE, AtBodyEnd
<1>9. Cardinality({i \in 1 .. Len(body) : body[i] = Blank}) = k BY <1>4, <1>6 DEF BlanksAmong
<1> HIDE DEF R, n
<1>10. /\ ReadSSE(body).out = EventMessages(from, c) /\ ReadSSE(body).last = LastOf(from, c)
       /\ ReadSSE(body).err = FALSE
  BY <1>6, <1>7, <1>8
<1> DEFINE read == ReadSSE(body)
           blanks == Cardinality({i \in 1 .. Len(body) : body[i] = Blank})
           whole == EventsAmong(beats, blanks)
<1>11. whole = c BY <1>9
<1> HIDE DEF read, whole
<1>12. ~read.err BY <1>10 DEF read
<1>13. read.out = [i \in 1 .. whole |-> <<from + i - 1>>] BY <1>10, <1>11 DEF EventMessages, read
<1>14. read.last = IF whole = 0 THEN 0 ELSE from + whole - 1
  <2>1. c \in Nat
    <3>1. k \in Nat BY <1>3
    <3> QED BY <3>1, EventsNext
  <2> HIDE DEF c
  <2>2. from + (c - 1) = (from + c) - 1 BY <2>1
  <2> QED BY <1>10, <1>11, <2>2 DEF LastOf, read
<1> QED BY <1>12, <1>13, <1>14 DEF BodyExact, read, whole

-----------------------------------------------------------------------------
(* What is read and written of messages.                                   *)

(* A text that was accepted is passed on as the same message.              *)
LEMMA AcceptedRelayed ==
    ASSUME NEW t \in Texts
    PROVE  Relayed(t)
PROOF
<1> DEFINE m == Decode(t)
           line == LineOf(m)
<1>1. SUFFICES ASSUME Valid(m)
               PROVE  /\ Writable(m) /\ Valid(Decode(line))
                      /\ Decode(line) = [m EXCEPT !.jsonrpc = "2.0"]
                      /\ IDKey(Decode(line).id) = IDKey(m.id)
  BY DEF Relayed, Accepted
<1>2. /\ m \in Texts
      /\ m.id # NullID /\ m.error # "null"
  BY DEF Decode, Texts, RawIDs, AbsentID, NullID, OtherID, RawID
<1> HIDE DEF m
<1>3. m.jsonrpc \in {"absent", "2.0"} BY <1>1 DEF Valid
<1>4. line = [m EXCEPT !.jsonrpc = "2.0"] BY <1>2, <1>3 DEF LineOf, Texts
<1>5. Decode(line) = line BY <1>2, <1>4 DEF Decode, Texts
<1>6. Valid(line)
  BY <1>1, <1>2, <1>4 DEF Valid, HasMethod, HasID, HasResult, HasError, IsResponse, Texts
<1>7. Writable(m) BY <1>2, <1>6 DEF Writable, Texts
<1> QED BY <1>2, <1>4, <1>5, <1>6, <1>7 DEF Texts

(* A response with either a result or an error is valid, and it is what is *)
(* read of the line that is written of it.                                 *)
LEMMA ResponseDelivered ==
    ASSUME NEW id \in RawIDs, id # AbsentID, id # NullID,
           NEW result \in {"absent", "null", "value", "malformed"},
           NEW error \in {"absent", "value", "malformed"},
           (result = "absent") # (error = "absent")
    PROVE  LET answer == Response(id, result, error)
           IN  /\ Valid(answer) /\ LineOf(answer) = answer /\ Decode(answer) = answer
               /\ IsResponse(answer) /\ answer.id = id
               /\ HasError(answer) <=> error # "absent"
               /\ Writable(answer) <=> (result # "malformed" /\ error # "malformed")
PROOF
<1> DEFINE answer == Response(id, result, error)
<1>1. answer = [jsonrpc |-> "2.0", id |-> id, method |-> FALSE,
                result |-> result, error |-> error]
  BY DEF Response
<1>2. /\ answer.jsonrpc = "2.0" /\ answer.id = id /\ answer.method = FALSE
      /\ answer.result = result /\ answer.error = error
  BY <1>1
<1>3. LineOf(answer) = answer BY <1>1, <1>2 DEF LineOf
<1>4. Decode(answer) = answer BY <1>1, <1>2 DEF Decode
<1> HIDE DEF answer
<1>5. Valid(answer) /\ IsResponse(answer)
  BY <1>2 DEF Valid, IsResponse, HasID, HasMethod, HasResult, HasError
<1>6. HasError(answer) <=> error # "absent" BY <1>2 DEF HasError
<1>7. Writable(answer) <=> (result # "malformed" /\ error # "malformed")
  BY <1>2, <1>3, <1>5 DEF Writable
<1> QED BY <1>2, <1>3, <1>4, <1>5, <1>6, <1>7 DEF answer

(* Without a result or an error it is not valid.                           *)
LEMMA EmptyResponse ==
    ASSUME NEW id PROVE ~Valid(Response(id, "absent", "absent"))
PROOF BY DEF Valid, IsResponse, HasID, HasMethod, HasResult, HasError, Response

(* What handleRequest answers, in terms of what the handler has returned.  *)
LEMMA ReplyByCase ==
    ASSUME NEW id \in RawIDs, id # AbsentID, id # NullID, NEW handled \in Handled
    PROVE  Reply(id, handled) =
               IF handled.rpcErr # "nil" THEN Response(id, "absent", handled.rpcErr)
               ELSE IF handled.result = "empty" THEN Response(id, "absent", "value")
               ELSE Response(id, handled.result, "absent")
PROOF
<1>1. CASE handled.rpcErr # "nil"
  <2>1. handled.rpcErr \in {"value", "malformed"} BY <1>1 DEF Handled
  <2>2. Valid(Response(id, "absent", handled.rpcErr)) BY <2>1, ResponseDelivered
  <2> QED BY <1>1, <2>2 DEF Reply, NewErrorResponse
<1>2. CASE handled.rpcErr = "nil" /\ handled.result = "empty"
  BY <1>2, EmptyResponse DEF Reply, NewErrorResponse, NewRawResult
<1>3. CASE handled.rpcErr = "nil" /\ handled.result # "empty"
  <2>1. handled.result \in {"null", "value", "malformed"} BY <1>3 DEF Handled
  <2>2. Valid(Response(id, handled.result, "absent")) BY <2>1, ResponseDelivered
  <2> QED BY <1>3, <2>2 DEF Reply, NewRawResult
<1> QED BY <1>1, <1>2, <1>3

(* A request that was accepted is answered, if the bytes can be written.   *)
LEMMA RequestsAnswered ==
    ASSUME NEW t \in Texts
    PROVE  Answered(t)
PROOF
<1> DEFINE m == Decode(t)
<1>1. SUFFICES ASSUME Valid(m), IsRequest(m), NEW handled \in Handled
               PROVE  LET answer == Reply(m.id, handled)
                          back   == Decode(LineOf(answer))
                      IN  /\ Writable(answer) <=> Encodable(handled)
                          /\ Writable(answer) =>
                                 /\ Accepted(LineOf(answer)) /\ IsResponse(back)
                                 /\ IDKey(back.id) = IDKey(m.id) /\ IDKey(m.id) # NoKey
                                 /\ HasError(back) <=>
                                        (handled.rpcErr # "nil" \/ handled.result = "empty")
  BY DEF Answered, Accepted
<1>2. m.id \in RawIDs /\ m.id # NullID
  BY DEF Decode, Texts, RawIDs, AbsentID, NullID, OtherID, RawID
<1>3. m.id # AbsentID /\ IDKey(m.id) # NoKey
  BY <1>1 DEF Valid, IsRequest, IsResponse, HasID
<1> HIDE DEF m
<1>4. PICK result \in {"absent", "null", "value", "malformed"},
           error \in {"absent", "value", "malformed"} :
          /\ Reply(m.id, handled) = Response(m.id, result, error)
          /\ (result = "absent") # (error = "absent")
          /\ error # "absent" <=> (handled.rpcErr # "nil" \/ handled.result = "empty")
          /\ (result # "malformed" /\ error # "malformed") <=> Encodable(handled)
  <2>1. CASE handled.rpcErr # "nil"
    <3>1. handled.rpcErr \in {"value", "malformed"} BY <2>1 DEF Handled
    <3> QED BY <1>2, <1>3, <2>1, <3>1, ReplyByCase DEF Encodable
  <2>2. CASE handled.rpcErr = "nil" /\ handled.result = "empty"
    BY <1>2, <1>3, <2>2, ReplyByCase DEF Encodable
  <2>3. CASE handled.rpcErr = "nil" /\ handled.result # "empty"
    <3>1. handled.result \in {"null", "value", "malformed"} BY <2>3 DEF Handled
    <3> QED BY <1>2, <1>3, <2>3, <3>1, ReplyByCase DEF Encodable
  <2> QED BY <2>1, <2>2, <2>3
<1> DEFINE answer == Reply(m.id, handled)
<1>5. /\ Valid(answer) /\ LineOf(answer) = answer /\ Decode(answer) = answer
      /\ IsResponse(answer) /\ answer.id = m.id
      /\ HasError(answer) <=> error # "absent"
      /\ Writable(answer) <=> (result # "malformed" /\ error # "malformed")
  BY <1>2, <1>3, <1>4, ResponseDelivered
<1> HIDE DEF answer
<1>6. Accepted(LineOf(answer)) BY <1>5 DEF Accepted
<1> QED BY <1>3, <1>4, <1>5, <1>6 DEF answer

-----------------------------------------------------------------------------
(* The tail of the agent's stderr.                                         *)

(* A sequence whose elements are the last ones of another is its suffix.   *)
LEMMA SuffixByIndex ==
    ASSUME NEW S, NEW s \in Seq(S), NEW t \in Seq(S), Len(s) <= Len(t),
           \A i \in 1 .. Len(s) : s[i] = t[(Len(t) - Len(s)) + i]
    PROVE  IsSuffix(s, t)
PROOF
<1> DEFINE n == Len(s)
           k == Len(t)
           rs == Reverse(s)
           rt == Reverse(t)
<1>1. n \in Nat /\ k \in Nat /\ n <= k BY LenProperties
<1>2. /\ rs \in Seq(S) /\ Len(rs) = n /\ \A i \in 1 .. n : rs[i] = s[(n - i) + 1]
      /\ rt \in Seq(S) /\ Len(rt) = k /\ \A i \in 1 .. k : rt[i] = t[(k - i) + 1]
  <2>1. ASSUME NEW q \in Seq(S)
        PROVE  /\ Reverse(q) \in Seq(S) /\ Len(Reverse(q)) = Len(q)
               /\ \A i \in 1 .. Len(q) : Reverse(q)[i] = q[(Len(q) - i) + 1]
    <3>1. Len(q) \in Nat /\ \A i \in 1 .. Len(q) : q[i] \in S
      BY LenProperties, ElementOfSeq
    <3>2. \A i \in 1 .. Len(q) : (Len(q) - i) + 1 \in 1 .. Len(q) BY <3>1
    <3>3. Reverse(q) \in [1 .. Len(q) -> S] BY <3>1, <3>2 DEF Reverse
    <3>4. Reverse(q) \in Seq(S)
      <4> DEFINE r == Reverse(q)
                 size == Len(q)
      <4>1. size \in Nat /\ r \in [1 .. size -> S] BY <3>1, <3>3
      <4> HIDE DEF r, size
      <4>2. r \in Seq(S) BY <4>1, SeqDef
      <4> QED BY <4>2 DEF r
    <3>5. 1 .. Len(Reverse(q)) = 1 .. Len(q) /\ Len(Reverse(q)) \in Nat
      BY <3>3, <3>4, LenProperties
    <3>6. Len(Reverse(q)) = Len(q) BY <3>1, <3>5, SameLength
    <3> QED BY <3>4, <3>6 DEF Reverse
  <2>2. rs \in Seq(S) /\ rt \in Seq(S) /\ Len(rs) = n /\ Len(rt) = k BY <2>1
  <2>3. /\ \A i \in 1 .. n : rs[i] = s[(n - i) + 1]
        /\ \A i \in 1 .. k : rt[i] = t[(k - i) + 1]
    BY <2>1
  <2> QED BY <2>2, <2>3
<1>3. ASSUME NEW i \in 1 .. n PROVE rs[i] = rt[i]
  <2>1. /\ i \in 1 .. k /\ (n - i) + 1 \in 1 .. n
        /\ (k - n) + ((n - i) + 1) = (k - i) + 1
    BY <1>1
  <2> QED BY <1>2, <2>1
<1> HIDE DEF rs, rt, n, k
<1>4. SubSeq(rs, 1, n) = SubSeq(rt, 1, n)
  <2>1. \A i \in 1 .. n : rs[i] \in S /\ rt[i] \in S
    BY <1>1, <1>2, ElementOfSeq
  <2>2. /\ SubSeq(rs, 1, n) \in Seq(S) /\ SubSeq(rt, 1, n) \in Seq(S)
        /\ Len(SubSeq(rs, 1, n)) = Len(SubSeq(rt, 1, n))
        /\ Len(SubSeq(rs, 1, n)) = n
        /\ \A i \in 1 .. n : SubSeq(rs, 1, n)[i] = rs[i] /\ SubSeq(rt, 1, n)[i] = rt[i]
    BY <1>1, <2>1, SubSeqProperties
  <2> QED BY <1>3, <2>2, SeqEqual
<1> QED BY <1>1, <1>2, <1>4 DEF IsSuffix, IsPrefix, rs, rt

(* The last elements of a sequence, as many as the limit allows.           *)
EndOf(q, s, max) ==
    /\ Len(q) = IF Len(s) < max THEN Len(s) ELSE max
    /\ \A i \in 1 .. Len(q) : q[i] = s[(Len(s) - Len(q)) + i]

(* tailBuffer.Write keeps the last bytes of what it had and what it gets.  *)
LEMMA TailOfWrite ==
    ASSUME NEW S, NEW buf \in Seq(S), NEW p \in Seq(S), NEW max \in Nat
    PROVE  /\ TailWrite(buf, p, max) \in Seq(S)
           /\ EndOf(TailWrite(buf, p, max), buf \o p, max)
PROOF
<1> DEFINE all == buf \o p
           n == Len(buf) + Len(p)
<1>1. /\ all \in Seq(S) /\ Len(all) = n /\ n \in Nat
      /\ \A i \in 1 .. n : all[i] \in S
  BY ConcatProperties, LenProperties, ElementOfSeq
<1> HIDE DEF all, n
<1>2. CASE n > max
  <2> DEFINE from == (n - max) + 1
  <2>1. TailWrite(buf, p, max) = SubSeq(all, from, n)
    BY <1>1, <1>2 DEF TailWrite, Kept, From, all
  <2>2. from \in 1 .. n + 1 /\ \A i \in from .. n : all[i] \in S BY <1>1, <1>2
  <2>3. /\ SubSeq(all, from, n) \in Seq(S)
        /\ Len(SubSeq(all, from, n)) = IF from <= n THEN (n - from) + 1 ELSE 0
        /\ \A i \in 1 .. (n - from) + 1 : SubSeq(all, from, n)[i] = all[(from + i) - 1]
    BY <1>1, <2>2, SubSeqProperties
  <2>4. Len(SubSeq(all, from, n)) = max /\ (n - from) + 1 = max BY <1>1, <1>2, <2>3
  <2>5. \A i \in 1 .. max : (from + i) - 1 = (n - max) + i BY <1>1
  <2> HIDE DEF from
  <2>6. \A i \in 1 .. max : SubSeq(all, from, n)[i] = all[(n - max) + i]
    BY <2>3, <2>4, <2>5
  <2>7. max = IF n < max THEN n ELSE max BY <1>1, <1>2
  <2> QED BY <1>1, <2>1, <2>3, <2>4, <2>6, <2>7 DEF EndOf, all
<1>3. CASE ~(n > max)
  <2>1. TailWrite(buf, p, max) = all BY <1>1, <1>3 DEF TailWrite, all
  <2>2. n = IF n < max THEN n ELSE max BY <1>1, <1>3
  <2>3. \A i \in 1 .. n : (n - n) + i = i BY <1>1
  <2> QED BY <1>1, <2>1, <2>2, <2>3 DEF EndOf, all
<1> QED BY <1>2, <1>3

(* What is the end of what has been written stays it with the next write.  *)
LEMMA EndExtended ==
    ASSUME NEW S, NEW p1 \in Seq(S), NEW p2 \in Seq(S), NEW max \in Nat,
           NEW buf \in Seq(S), EndOf(buf, p1, max)
    PROVE  /\ TailWrite(buf, p2, max) \in Seq(S)
           /\ EndOf(TailWrite(buf, p2, max), p1 \o p2, max)
PROOF
<1> DEFINE all  == p1 \o p2
           tail == TailWrite(buf, p2, max)
           a == Len(p1)
           b == Len(p2)
           u == Len(buf)
           w == Len(tail)
<1>1. a \in Nat /\ b \in Nat BY LenProperties
<1>2. /\ u = (IF a < max THEN a ELSE max)
      /\ \A i \in 1 .. u : buf[i] = p1[(a - u) + i]
  BY DEF EndOf
<1>3. /\ tail \in Seq(S) /\ w = (IF u + b < max THEN u + b ELSE max)
      /\ \A i \in 1 .. w : tail[i] = (buf \o p2)[((u + b) - w) + i]
  <2>1. tail \in Seq(S) /\ EndOf(tail, buf \o p2, max) BY <1>2, TailOfWrite
  <2>2. Len(buf \o p2) = u + b BY <1>2, ConcatProperties
  <2> HIDE DEF tail
  <2> QED BY <2>1, <2>2 DEF EndOf
<1> HIDE DEF tail
<1>4. u \in Nat /\ w \in Nat BY <1>2, <1>3, LenProperties
<1>5. /\ all \in Seq(S) /\ Len(all) = a + b
      /\ \A i \in 1 .. a + b : all[i] = IF i <= a THEN p1[i] ELSE p2[i - a]
      /\ \A i \in 1 .. u + b : (buf \o p2)[i] = IF i <= u THEN buf[i] ELSE p2[i - u]
  BY <1>2, ConcatProperties
<1> HIDE DEF all, a, b, u, w
<1>6. w = (IF a + b < max THEN a + b ELSE max) /\ w <= a + b /\ w <= u + b /\ u <= a
  BY <1>1, <1>2, <1>3, <1>4
<1>7. ASSUME NEW i \in 1 .. w PROVE tail[i] = all[((a + b) - w) + i]
  <2> DEFINE j == ((u + b) - w) + i
             k == ((a + b) - w) + i
  <2>1. /\ j \in 1 .. u + b /\ k \in 1 .. a + b /\ k = (a - u) + j /\ k - a = j - u
        /\ j <= u <=> k <= a
    BY <1>1, <1>4, <1>6
  <2>2. tail[i] = (buf \o p2)[j] BY <1>3
  <2> HIDE DEF j, k
  <2>3. CASE j <= u
    <3>1. j \in 1 .. u /\ k <= a BY <1>1, <1>4, <2>1, <2>3
    <3>2. (buf \o p2)[j] = buf[j] BY <1>5, <2>1, <3>1
    <3>3. buf[j] = p1[k] BY <1>2, <2>1, <3>1
    <3>4. all[k] = p1[k] BY <1>5, <2>1, <3>1
    <3> QED BY <2>2, <3>2, <3>3, <3>4 DEF k
  <2>4. CASE ~(j <= u)
    <3>1. (buf \o p2)[j] = p2[j - u] BY <1>5, <2>1, <2>4
    <3>2. all[k] = p2[k - a] BY <1>5, <2>1, <2>4
    <3> QED BY <2>1, <2>2, <3>1, <3>2 DEF k
  <2> QED BY <2>3, <2>4
<1>8. Len(tail) = w /\ Len(all) = a + b BY <1>5 DEF w
<1>9. EndOf(tail, all, max) BY <1>6, <1>7, <1>8 DEF EndOf
<1> QED BY <1>3, <1>9 DEF tail, all

(* What is kept after each number of writes.                               *)
LEMMA TailNext ==
    ASSUME NEW S, NEW writes \in Seq(Seq(S)), NEW max \in Nat
    PROVE  /\ TailAfter(writes, max)[0] = <<>>
           /\ \A k \in 0 .. Len(writes) - 1 :
                  TailAfter(writes, max)[k + 1] =
                      TailWrite(TailAfter(writes, max)[k], writes[k + 1], max)
PROOF
<1> DEFINE n == Len(writes)
           D(h) == [k \in 0 .. n |-> IF k = 0 THEN <<>> ELSE TailWrite(h[k - 1], writes[k], max)]
           W == TailAfter(writes, max)
           Q == Seq(S)
           f == [i \in Nat |-> [x \in Q |-> IF i < n THEN TailWrite(x, writes[i + 1], max) ELSE x]]
           b == <<>>
<1>1. n \in Nat BY LenProperties
<1>2. b \in Q BY EmptySeq
<1>3. W = CHOOSE h : h = D(h) BY DEF TailAfter
<1>4. ASSUME NEW i \in Nat, i < n PROVE writes[i + 1] \in Seq(S)
  <2>1. i + 1 \in 1 .. n BY <1>1, <1>4
  <2> QED BY <2>1, ElementOfSeq
<1> HIDE DEF n
<1>5. ASSUME NEW i \in Nat, NEW x \in Q, i < n PROVE TailWrite(x, writes[i + 1], max) \in Q
  BY <1>4, <1>5, TailOfWrite
<1>6. f \in [Nat -> [Q -> Q]] BY <1>5
<1>7. \A i \in Nat : \A x \in Q : i < n => f[i][x] = TailWrite(x, writes[i + 1], max) OBVIOUS
<1> HIDE DEF f, Q, b
<1>8. Builds(b, f, Q) BY <1>2, <1>6, PrimitiveRecursion
<1>9. PICK g \in [Nat -> Q] : g[0] = b /\ \A i \in Nat : g[i + 1] = f[i][g[i]]
  BY <1>8 DEF Builds
<1> DEFINE F == [k \in 0 .. n |-> g[k]]
<1>10. F = D(F)
  <2>1. ASSUME NEW k \in 0 .. n
        PROVE  F[k] = IF k = 0 THEN <<>> ELSE TailWrite(F[k - 1], writes[k], max)
    <3>1. CASE k = 0 BY <1>9, <3>1 DEF b
    <3>2. CASE k # 0
      <4>1. k - 1 \in Nat /\ (k - 1) + 1 = k /\ k - 1 \in 0 .. n /\ k - 1 < n
        BY <1>1, <3>2
      <4>2. g[k] = f[k - 1][g[k - 1]] /\ g[k - 1] \in Q BY <1>9, <4>1
      <4>3. f[k - 1][g[k - 1]] = TailWrite(g[k - 1], writes[k], max) BY <1>7, <4>1, <4>2
      <4> QED BY <3>2, <4>1, <4>2, <4>3
    <3> QED BY <3>1, <3>2
  <2> QED BY <2>1
<1> HIDE DEF F, W
<1>11. W = D(W) BY <1>3, <1>10
<1>12. W[0] = <<>> BY <1>1, <1>11
<1>13. ASSUME NEW k \in 0 .. n - 1 PROVE W[k + 1] = TailWrite(W[k], writes[k + 1], max)
  <2>1. k + 1 \in 0 .. n /\ k + 1 # 0 /\ (k + 1) - 1 = k BY <1>1
  <2> QED BY <1>11, <2>1
<1> QED BY <1>12, <1>13 DEF W, n

(* g has, for each number of writes, what has been written.                *)
Concatenates(g, writes) ==
    /\ g[0] = <<>>
    /\ \A k \in 0 .. Len(writes) - 1 : g[k + 1] = g[k] \o writes[k + 1]

Flattened(writes, S) ==
    \E g \in [Nat -> Seq(S)] : Concatenates(g, writes) /\ FlattenSeq(writes) = g[Len(writes)]

(* FlattenSeq puts one after the other.                                    *)
LEMMA FlattenedNext ==
    ASSUME NEW S, NEW writes \in Seq(Seq(S))
    PROVE  Flattened(writes, S)
PROOF
<1> DEFINE n == Len(writes)
           D(h) == [k \in 1 .. n |-> IF k = 1 THEN writes[k] ELSE h[k - 1] \o writes[k]]
           W == CHOOSE h : h = D(h)
           Q == Seq(S)
           f == [i \in Nat |-> [x \in Q |-> IF i < n THEN x \o writes[i + 1] ELSE x]]
           b == <<>>
<1>1. n \in Nat BY LenProperties
<1>2. b \in Q BY EmptySeq
<1>3. FlattenSeq(writes) = IF n = 0 THEN writes ELSE W[n] BY DEF FlattenSeq
<1>4. ASSUME NEW i \in Nat, i < n PROVE writes[i + 1] \in Seq(S)
  <2>1. i + 1 \in 1 .. n BY <1>1, <1>4
  <2> QED BY <2>1, ElementOfSeq
<1>0. n = 0 => writes = <<>> BY EmptySeq
<1> HIDE DEF n
<1>5. ASSUME NEW i \in Nat, NEW x \in Q, i < n PROVE x \o writes[i + 1] \in Q
  BY <1>4, <1>5, ConcatProperties
<1>6. f \in [Nat -> [Q -> Q]] BY <1>5
<1>7. \A i \in Nat : \A x \in Q : i < n => f[i][x] = x \o writes[i + 1] OBVIOUS
<1> HIDE DEF f, Q, b
<1>8. Builds(b, f, Q) BY <1>2, <1>6, PrimitiveRecursion
<1>9. PICK g \in [Nat -> Q] : g[0] = b /\ \A i \in Nat : g[i + 1] = f[i][g[i]]
  BY <1>8 DEF Builds
<1>10. ASSUME NEW k \in Nat, k < n PROVE g[k + 1] = g[k] \o writes[k + 1]
  <2>1. g[k] \in Q BY <1>9
  <2> QED BY <1>7, <1>9, <1>10, <2>1
<1>11. Concatenates(g, writes)
  <2>1. \A k \in 0 .. n - 1 : k \in Nat /\ k < n BY <1>1
  <2>2. \A k \in 0 .. n - 1 : g[k + 1] = g[k] \o writes[k + 1] BY <1>10, <2>1
  <2> QED BY <1>9, <2>2 DEF Concatenates, n, b
<1> DEFINE F == [k \in 1 .. n |-> g[k]]
<1>12. F = D(F)
  <2>1. ASSUME NEW k \in 1 .. n
        PROVE  F[k] = IF k = 1 THEN writes[k] ELSE F[k - 1] \o writes[k]
    <3>1. CASE k = 1
      <4>1. 0 + 1 = 1 /\ 0 \in Nat /\ 0 < n BY <1>1, <3>1
      <4>2. g[1] = g[0] \o writes[1] BY <1>10, <4>1
      <4>3. writes[1] \in Seq(S) BY <1>4, <4>1
      <4>4. <<>> \o writes[1] = writes[1] BY <4>3, ConcatEmptySeq
      <4> QED BY <1>9, <3>1, <4>2, <4>4 DEF b
    <3>2. CASE k # 1
      <4>1. k - 1 \in Nat /\ (k - 1) + 1 = k /\ k - 1 \in 1 .. n /\ k - 1 < n
        BY <1>1, <3>2
      <4>2. g[k] = g[k - 1] \o writes[k] BY <1>10, <4>1
      <4> QED BY <3>2, <4>1, <4>2
    <3> QED BY <3>1, <3>2
  <2> QED BY <2>1
<1> HIDE DEF F
<1>13. W = D(W) BY <1>12
<1> HIDE DEF W
<1> DEFINE T == {k \in Nat : k + 1 <= n => W[k + 1] = g[k + 1]}
<1>14. 0 \in T
  <2>1. SUFFICES ASSUME 0 + 1 <= n PROVE W[0 + 1] = g[0 + 1] OBVIOUS
  <2>2. 1 \in 1 .. n /\ 0 + 1 = 1 /\ 0 \in Nat /\ 0 < n BY <1>1, <2>1
  <2>3. W[1] = writes[1] BY <1>13, <2>2
  <2>4. g[1] = g[0] \o writes[1] BY <1>10, <2>2
  <2>5. writes[1] \in Seq(S) BY <1>4, <2>2
  <2>6. <<>> \o writes[1] = writes[1] BY <2>5, ConcatEmptySeq
  <2> QED BY <1>9, <2>2, <2>3, <2>4, <2>6 DEF b
<1>15. ASSUME NEW k \in Nat, k \in T PROVE k + 1 \in T
  <2>1. SUFFICES ASSUME (k + 1) + 1 <= n PROVE W[(k + 1) + 1] = g[(k + 1) + 1] OBVIOUS
  <2>2. /\ k + 1 \in Nat /\ k + 1 < n /\ (k + 1) + 1 \in 1 .. n
        /\ (k + 1) + 1 # 1 /\ ((k + 1) + 1) - 1 = k + 1 /\ k + 1 <= n
    BY <1>1, <2>1
  <2>3. W[(k + 1) + 1] = W[k + 1] \o writes[(k + 1) + 1] BY <1>13, <2>2
  <2>4. g[(k + 1) + 1] = g[k + 1] \o writes[(k + 1) + 1] BY <1>10, <2>2
  <2>5. W[k + 1] = g[k + 1] BY <1>15, <2>2
  <2> QED BY <2>3, <2>4, <2>5
<1> HIDE DEF T
<1>16. Nat \subseteq T BY <1>14, <1>15, SetInduction
<1>17. FlattenSeq(writes) = g[n]
  <2>1. CASE n = 0 BY <1>0, <1>3, <1>9, <2>1 DEF b
  <2>2. CASE n # 0
    <3>1. n - 1 \in Nat /\ (n - 1) + 1 = n /\ n <= n BY <1>1, <2>2
    <3>2. n - 1 \in T BY <1>16, <3>1
    <3>3. W[n] = g[n] BY <3>1, <3>2 DEF T
    <3> QED BY <1>3, <2>2, <3>3
  <2> QED BY <2>1, <2>2
<1> QED BY <1>9, <1>11, <1>17 DEF Flattened, n, Q

(* The tail after any number of writes is the end of all of them.          *)
LEMMA TailsAreExact ==
    ASSUME NEW S, NEW writes \in Seq(Seq(S)), NEW max \in Nat
    PROVE  TailExact(writes, max)
PROOF
<1> DEFINE n == Len(writes)
           W == TailAfter(writes, max)
<1>1. n \in Nat BY LenProperties
<1>2. Flattened(writes, S) BY FlattenedNext
<1>3. PICK g \in [Nat -> Seq(S)] : Concatenates(g, writes) /\ FlattenSeq(writes) = g[n]
  BY <1>2 DEF Flattened
<1>4. g[0] = <<>> /\ \A k \in 0 .. n - 1 : g[k + 1] = g[k] \o writes[k + 1]
  BY <1>3 DEF Concatenates
<1>5. W[0] = <<>> /\ \A k \in 0 .. n - 1 : W[k + 1] = TailWrite(W[k], writes[k + 1], max)
  BY TailNext
<1>6. \A i \in 1 .. n : writes[i] \in Seq(S) BY ElementOfSeq
<1> HIDE DEF n, W
<1> DEFINE T == {k \in Nat : k <= n => W[k] \in Seq(S) /\ EndOf(W[k], g[k], max)}
<1>7. 0 \in T
  <2>1. <<>> \in Seq(S) /\ Len(<<>>) = 0 BY EmptySeq
  <2>2. EndOf(<<>>, <<>>, max) BY <2>1 DEF EndOf
  <2> QED BY <1>4, <1>5, <2>1, <2>2
<1>8. ASSUME NEW k \in Nat, k \in T PROVE k + 1 \in T
  <2>1. SUFFICES ASSUME k + 1 <= n
                 PROVE  W[k + 1] \in Seq(S) /\ EndOf(W[k + 1], g[k + 1], max)
    OBVIOUS
  <2>2. k \in 0 .. n - 1 /\ k + 1 \in 1 .. n /\ k <= n BY <1>1, <2>1
  <2>3. W[k] \in Seq(S) /\ EndOf(W[k], g[k], max) /\ g[k] \in Seq(S) BY <1>8, <2>2
  <2>4. writes[k + 1] \in Seq(S) BY <1>6, <2>2
  <2>5. /\ TailWrite(W[k], writes[k + 1], max) \in Seq(S)
        /\ EndOf(TailWrite(W[k], writes[k + 1], max), g[k] \o writes[k + 1], max)
    BY <2>3, <2>4, EndExtended
  <2> QED BY <1>4, <1>5, <2>2, <2>5
<1> HIDE DEF T
<1>9. Nat \subseteq T BY <1>7, <1>8, SetInduction
<1> DEFINE tail == W[n]
           all == g[n]
<1>10. tail \in Seq(S) /\ EndOf(tail, all, max) /\ all \in Seq(S)
  BY <1>1, <1>3, <1>9 DEF T
<1> HIDE DEF tail, all
<1>11. Len(tail) \in Nat /\ Len(all) \in Nat BY <1>10, LenProperties
<1>12. Len(tail) = (IF Len(all) < max THEN Len(all) ELSE max) BY <1>10 DEF EndOf
<1>13. Len(tail) <= Len(all) BY <1>11, <1>12
<1>14. IsSuffix(tail, all) BY <1>10, <1>13, SuffixByIndex DEF EndOf
<1> QED BY <1>3, <1>12, <1>14 DEF TailExact, tail, all, W, n

-----------------------------------------------------------------------------
(* The behaviours that pick the arguments.                                 *)

Bytes == {CR, LF, Other}

(* The arguments that are picked, for any bounds.                          *)
ArgsInv ==
    /\ args.of = "IDKey" => args.x \in RawIDs /\ args.y \in RawIDs
    /\ args.of = "ParseMessage" => args.text \in Texts
    /\ args.of = "ReadLine" =>
         args.input \in Seq(Bytes) /\ args.size \in Nat \ {0} /\ args.max \in Nat
    /\ args.of = "Write" => args.writes \in Seq(Seq(Bytes)) /\ args.max \in Nat
    /\ args.of = "readSSE" =>
         /\ args.from \in Nat \ {0} /\ args.beats \in Seq(BOOLEAN)
         /\ args.body \in Bodies(Written(args.from, args.beats)[Len(args.beats)])

(* What SeqOf enumerates are sequences.                                    *)
LEMMA BoundedSequences ==
    ASSUME NEW S, NEW n \in Nat, NEW s \in SeqOf(S, n)
    PROVE  s \in Seq(S)
PROOF
<1>1. PICK k \in 0 .. n : s \in [1 .. k -> S] BY DEF SeqOf
<1> QED BY <1>1, SeqDef

LEMMA WiderElements ==
    ASSUME NEW S, NEW Q, S \subseteq Q, NEW s \in Seq(S)
    PROVE  s \in Seq(Q)
PROOF
<1>1. Len(s) \in Nat /\ s \in [1 .. Len(s) -> S] BY LenProperties
<1>2. s \in [1 .. Len(s) -> Q] BY <1>1
<1> QED BY <1>1, <1>2, SeqDef

LEMMA ArgsInit == Init => ArgsInv
PROOF BY DEF Init, None, ArgsInv

LEMMA ArgsNext == ArgsInv /\ [Next]_args => ArgsInv'
PROOF
<1>1. SUFFICES ASSUME ArgsInv, [Next]_args PROVE ArgsInv' OBVIOUS
<1>2. CASE PickIDs BY <1>2 DEF PickIDs, ArgsInv
<1>3. CASE PickText BY <1>3 DEF PickText, ArgsInv
<1>4. CASE PickInput
  <2>1. /\ args'.of = "ReadLine" /\ args'.input \in Inputs
        /\ args'.size \in Sizes /\ args'.max \in Ceilings
    BY <1>4 DEF PickInput
  <2>2. args'.input \in Seq(Bytes)
    BY <2>1, BoundedSequences, FramingAssumption DEF Inputs, Bytes
  <2> QED BY <2>1, <2>2, FramingAssumption DEF ArgsInv
<1>5. CASE PickWrites
  <2>1. args'.of = "Write" /\ args'.writes \in Writes /\ args'.max \in Ceilings
    BY <1>5 DEF PickWrites
  <2>2. args'.writes \in Seq(SeqOf({LF, Other}, WriteLength))
    BY <2>1, BoundedSequences, FramingAssumption DEF Writes
  <2>3. SeqOf({LF, Other}, WriteLength) \subseteq Seq(Bytes)
    <3>1. ASSUME NEW s \in SeqOf({LF, Other}, WriteLength) PROVE s \in Seq(Bytes)
      <4>1. s \in Seq({LF, Other}) BY BoundedSequences, FramingAssumption
      <4> QED BY <4>1 DEF Bytes
    <3> QED BY <3>1
  <2>4. args'.writes \in Seq(Seq(Bytes)) BY <2>2, <2>3, WiderElements
  <2> QED BY <2>1, <2>4, FramingAssumption DEF ArgsInv
<1>6. CASE PickBody
  <2>1. PICK from \in 1 .. MaxWrites, beats \in SeqOf(BOOLEAN, MaxWrites) :
            \E body \in Bodies(Written(from, beats)[Len(beats)]) :
                args' = [of |-> "readSSE", from |-> from, beats |-> beats, body |-> body]
    BY <1>6 DEF PickBody
  <2>2. PICK body \in Bodies(Written(from, beats)[Len(beats)]) :
            args' = [of |-> "readSSE", from |-> from, beats |-> beats, body |-> body]
    BY <2>1
  <2>3. from \in Nat \ {0} /\ beats \in Seq(BOOLEAN)
    BY BoundedSequences, EventStreamAssumption
  <2> QED BY <2>2, <2>3 DEF ArgsInv
<1>7. CASE UNCHANGED args BY <1>1, <1>7 DEF ArgsInv
<1> QED BY <1>1, <1>2, <1>3, <1>4, <1>5, <1>6, <1>7 DEF Next

(* The invariant of every behaviour.                                       *)
LEMMA ArgsInvariant == Spec => []ArgsInv
PROOF BY ArgsInit, ArgsNext, PTL DEF Spec

(***************************************************************************)
(* The key that a call is found under is the same for two ids if and only  *)
(* if they are the same JSON value, however each side spells it: for any   *)
(* values, any exponents and any limit of the exponents.                   *)
(***************************************************************************)
THEOREM KeysAgree == Spec => []KeysIdentify
PROOF
<1>1. ArgsInv => KeysIdentify BY IDsIdentified DEF ArgsInv, KeysIdentify
<1> QED BY <1>1, ArgsInvariant, PTL

(***************************************************************************)
(* What ParseMessage has accepted can be written again, and is accepted at *)
(* the other end as the same message, for any ids: its form is never the   *)
(* reason for which the next transport refuses it.                         *)
(***************************************************************************)
THEOREM MessagesRelayed == Spec => []RelayKeepsMessage
PROOF
<1>1. ArgsInv => RelayKeepsMessage BY AcceptedRelayed DEF ArgsInv, RelayKeepsMessage
<1> QED BY <1>1, ArgsInvariant, PTL

(***************************************************************************)
(* handleRequest answers a request that was accepted exactly if what the   *)
(* handler returns is JSON or nothing, whatever the id; the answer is found*)
(* under the key of the request and is an error if and only if the handler *)
(* has returned one or no result.                                          *)
(***************************************************************************)
THEOREM CallsAnswered == Spec => []AnswersFindCalls
PROOF
<1>1. ArgsInv => AnswersFindCalls BY RequestsAnswered DEF ArgsInv, AnswersFindCalls
<1> QED BY <1>1, ArgsInvariant, PTL

(***************************************************************************)
(* wire.ReadLine returns the bytes up to the first line feed without the   *)
(* line end, or refuses them, whatever the size of the reader's buffer, the*)
(* ceiling and the length of the input.                                    *)
(***************************************************************************)
THEOREM LinesExact == Spec => []FramesExact
PROOF
<1>1. ArgsInv => FramesExact
  <2>1. SUFFICES ASSUME ArgsInv, args.of = "ReadLine"
                 PROVE  FrameExact(args.input, args.size, args.max)
    BY DEF FramesExact
  <2>2. /\ args.input \in Seq(Bytes) /\ args.size \in Nat /\ args.size > 0
        /\ args.max \in Nat
    BY <2>1 DEF ArgsInv
  <2>3. LF \in Bytes /\ CR \in Bytes BY DEF Bytes
  <2> QED BY <2>2, <2>3, FramesAreExact
<1> QED BY <1>1, ArgsInvariant, PTL

(***************************************************************************)
(* readSSE has read the events whose blank line has arrived, each once and *)
(* whole, wherever the body ends and however many events and heartbeats    *)
(* were written, from any event on.                                        *)
(***************************************************************************)
THEOREM StreamsExact == Spec => []BodiesExact
PROOF
<1>1. ArgsInv => BodiesExact
  <2>1. SUFFICES ASSUME ArgsInv, args.of = "readSSE"
                 PROVE  BodyExact(args.from, args.beats, args.body)
    BY DEF BodiesExact
  <2>2. /\ args.from \in Nat /\ args.from > 0 /\ args.beats \in Seq(BOOLEAN)
        /\ args.body \in Bodies(Written(args.from, args.beats)[Len(args.beats)])
    BY <2>1 DEF ArgsInv
  <2> QED BY <2>2, BodiesAreExact
<1> QED BY <1>1, ArgsInvariant, PTL

(***************************************************************************)
(* However the agent's stderr is cut into writes, the tail is its end, as  *)
(* long as the limit allows, for any number of writes of any length and any*)
(* limit.                                                                  *)
(***************************************************************************)
THEOREM TailKept == Spec => []TailIsEnd
PROOF
<1>1. ArgsInv => TailIsEnd BY TailsAreExact DEF ArgsInv, TailIsEnd
<1> QED BY <1>1, ArgsInvariant, PTL
=============================================================================
