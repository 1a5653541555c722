-------------------------- MODULE MachineWordProofs --------------------------
(***************************************************************************)
(* Proofs about the two components that compute with the numbers of the    *)
(* machine, which wrap; they share the lemmas about division and recursion *)
(* of the first part.                                                      *)
(*                                                                         *)
(* FileLoader: loaders own what they map, nothing is left behind, and an   *)
(* image holds what its file has, relocated for its place.                 *)
(*                                                                         *)
(* AbstractInterpretation: for integers and registers of any width, until  *)
(* the pass meets an instruction it does not follow, the constants of its  *)
(* domain are the values of the registers, and its verdicts are right.     *)
(***************************************************************************)
EXTENDS FileLoader, AbstractInterpretation, WellFoundedInduction, TLAPS

-----------------------------------------------------------------------------
(*                                                                         *)
(*                     Part 1.  Division and recursion.                    *)
(*                                                                         *)

\* A number has one quotient and one remainder.
LEMMA DivisionUnique ==
    ASSUME NEW v \in Int, NEW P \in Nat \ {0}, NEW q \in Int, NEW r \in 0 .. P - 1, v = P * q + r
    PROVE  v \div P = q /\ v % P = r
<1> DEFINE q2 == v \div P
<1> DEFINE r2 == v % P
<1>1. q2 \in Int /\ r2 \in 0 .. P - 1 /\ v = P * q2 + r2
    OBVIOUS
<1> HIDE DEF q2, r2
<1>2. P * (q - q2) = r2 - r
    BY <1>1
<1>3. ~ (q - q2 >= 1)
    <2> SUFFICES ASSUME q - q2 >= 1 PROVE FALSE
        OBVIOUS
    <2>1. P * (q - q2) >= P * 1
        BY <1>1
    <2> QED BY <1>1, <1>2, <2>1
<1>4. ~ (q2 - q >= 1)
    <2> SUFFICES ASSUME q2 - q >= 1 PROVE FALSE
        OBVIOUS
    <2>1. P * (q2 - q) >= P * 1
        BY <1>1
    <2>2. P * (q2 - q) = r - r2
        BY <1>1
    <2> QED BY <1>1, <2>1, <2>2
<1>5. q = q2
    BY <1>1, <1>3, <1>4
<1>6. r = r2
    BY <1>1, <1>5
<1> QED BY <1>5, <1>6 DEF q2, r2

\* What holds of 0 and is inherited holds up to n.
LEMMA Induction ==
    ASSUME NEW n \in Nat, NEW P, 0 \in P, \A k \in 1 .. n : k - 1 \in P => k \in P
    PROVE  \A k \in 0 .. n : k \in P
<1> DEFINE S == {k \in 0 .. n : k \notin P}
<1> SUFFICES ASSUME S # {} PROVE FALSE
    OBVIOUS
<1>1. S \subseteq Nat
    OBVIOUS
<1>2. PICK x \in S : \A y \in S : ~ (<<y, x>> \in OpToRel(<, Nat))
    <2> HIDE DEF S
    <2> QED BY <1>1, NatLessThanWellFounded, WFMin
<1>3. x \in 1 .. n /\ x - 1 \in 0 .. n
    <2>1. x \in 0 .. n /\ x \notin P
        BY <1>2
    <2>2. x # 0
        BY <2>1
    <2> QED BY <2>1, <2>2
<1>4. x - 1 \in S
    BY <1>2, <1>3
<1>5. <<x - 1, x>> \in OpToRel(<, Nat)
    BY <1>3 DEF OpToRel
<1> QED BY <1>2, <1>4, <1>5

\* A recursion whose steps stay in a set has a result.
IsRecursion(g, n, S, base, step) ==
    g \in [0 .. n -> S] /\ g[0] = base /\ \A k \in 1 .. n : g[k] = step[k][g[k - 1]]

LEMMA Recursion ==
    ASSUME NEW n \in Nat, NEW S, NEW base \in S, NEW step \in [1 .. n -> [S -> S]]
    PROVE  \E g : IsRecursion(g, n, S, base, step)
<1> DEFINE Upto(m, g) == g[0] = base /\ \A k \in 1 .. m : g[k] = step[k][g[k - 1]]
<1> DEFINE P == {m \in 0 .. n : \E g \in [0 .. m -> S] : Upto(m, g)}
<1>1. 0 \in P
    <2> DEFINE g == [k \in 0 .. 0 |-> base]
    <2>1. g \in [0 .. 0 -> S] /\ Upto(0, g)
        OBVIOUS
    <2> HIDE DEF g, Upto
    <2>2. 0 \in 0 .. n
        OBVIOUS
    <2> QED BY <2>1, <2>2
<1>2. ASSUME NEW m \in 1 .. n, m - 1 \in P PROVE m \in P
    <2>1. PICK g \in [0 .. m - 1 -> S] : Upto(m - 1, g)
        BY <1>2
    <2> DEFINE h == [k \in 0 .. m |-> IF k = m THEN step[m][g[m - 1]] ELSE g[k]]
    <2>2. g[m - 1] \in S /\ step[m][g[m - 1]] \in S
        OBVIOUS
    <2>3. h \in [0 .. m -> S]
        BY <2>2
    <2>4. h[0] = base
        BY <2>1
    <2>5. ASSUME NEW k \in 1 .. m PROVE h[k] = step[k][h[k - 1]]
        <3>1. CASE k = m
            <4>1. h[k] = step[m][g[m - 1]] /\ h[k - 1] = g[m - 1]
                BY <3>1
            <4> QED BY <3>1, <4>1
        <3>2. CASE k # m
            <4>1. k \in 1 .. m - 1 /\ h[k] = g[k] /\ h[k - 1] = g[k - 1]
                BY <3>2
            <4> QED BY <2>1, <4>1
        <3> QED BY <3>1, <3>2
    <2>6. Upto(m, h)
        BY <2>4, <2>5
    <2> HIDE DEF h, Upto
    <2> QED BY <2>3, <2>6
<1>3. n \in P
    <2> HIDE DEF P
    <2>1. \A k \in 1 .. n : k - 1 \in P => k \in P
        BY <1>2
    <2>2. \A k \in 0 .. n : k \in P
        BY <1>1, <2>1, Induction
    <2> QED BY <2>2
<1> QED BY <1>3 DEF IsRecursion

-----------------------------------------------------------------------------
(*                                                                         *)
(*                        Part 2.  The loader: Spec.                       *)
(*                                                                         *)

-----------------------------------------------------------------------------
(* Words. *)

LEMMA BaseType == Base \in Nat \ {0}
BY SpaceAssumption

\* Division by a product, one factor after the other.
LEMMA DivisionTwice ==
    ASSUME NEW v \in Int, NEW P \in Nat \ {0}
    PROVE  /\ Base * P \in Nat \ {0}
           /\ v % (Base * P) = (v % Base) + Base * ((v \div Base) % P)
           /\ v \div (Base * P) = (v \div Base) \div P
<1> DEFINE q == v \div Base
<1> DEFINE r == v % Base
<1> DEFINE q2 == q \div P
<1> DEFINE r2 == q % P
<1>1. q \in Int /\ r \in 0 .. Base - 1 /\ v = Base * q + r
    BY BaseType
<1> HIDE DEF q, r
<1>2. q2 \in Int /\ r2 \in 0 .. P - 1 /\ q = P * q2 + r2
    BY <1>1
<1> HIDE DEF q2, r2
<1>3. v = (Base * P) * q2 + (Base * r2 + r)
    BY <1>1, <1>2, BaseType
<1>4. Base * r2 <= Base * (P - 1) /\ Base * r2 >= 0
    BY <1>1, <1>2, BaseType
<1>5. Base * (P - 1) = Base * P - Base
    BY BaseType
<1>6. Base * P \in Nat \ {0}
    BY BaseType
<1>7. Base * r2 + r \in 0 .. Base * P - 1
    BY <1>1, <1>2, <1>4, <1>5, <1>6, BaseType
<1> DEFINE M == Base * P
<1> DEFINE s == Base * r2 + r
<1>8. M \in Nat \ {0} /\ s \in 0 .. M - 1 /\ v = M * q2 + s
    BY <1>3, <1>6, <1>7
<1>9. v \div M = q2 /\ v % M = s
    <2> HIDE DEF M, s
    <2> QED BY <1>2, <1>8, DivisionUnique
<1>10. q = v \div Base /\ r = v % Base /\ q2 = q \div P /\ r2 = q % P
    BY DEF q, r, q2, r2
<1>11. v % M = (v % Base) + Base * ((v \div Base) % P)
    <2>1. v % M = r + Base * r2
        BY <1>1, <1>2, <1>9, BaseType
    <2> HIDE DEF M
    <2> QED BY <2>1, <1>10
<1>12. v \div M = (v \div Base) \div P
    <2> HIDE DEF M
    <2> QED BY <1>9, <1>10
<1> QED BY <1>6, <1>11, <1>12

LEMMA Powers ==
    /\ Power(0) = 1 /\ Power(1) = Base /\ Power(2) = Base * Base
    /\ Power(3) = Base * (Base * Base) /\ Power(4) = Base * (Base * (Base * Base))
BY DEF Power

LEMMA Digits ==
    ASSUME NEW v \in Int
    PROVE  /\ (v \div Power(0)) % Base = v % Power(1)
           /\ ((v \div Power(0)) % Base) + Base * ((v \div Power(1)) % Base) = v % Power(2)
           /\ ((v \div Power(0)) % Base) + Base * (((v \div Power(1)) % Base)
                + Base * ((v \div Power(2)) % Base)) = v % Power(3)
           /\ ((v \div Power(0)) % Base) + Base * (((v \div Power(1)) % Base)
                + Base * (((v \div Power(2)) % Base) + Base * ((v \div Power(3)) % Base))) = v % Power(4)
<1> DEFINE B2 == Base * Base
<1> DEFINE B3 == Base * B2
<1> DEFINE q1 == v \div Base
<1> DEFINE q2 == q1 \div Base
<1> DEFINE q3 == q2 \div Base
<1>1. B2 \in Nat \ {0} /\ B3 \in Nat \ {0}
    BY BaseType
<1>2. q1 \in Int /\ q2 \in Int /\ q3 \in Int
    BY BaseType
<1>3. v \div 1 = v
    OBVIOUS
<1>4. v \div B2 = q2 /\ v % B2 = (v % Base) + Base * (q1 % Base)
    BY BaseType, DivisionTwice
<1>5. q1 \div B2 = q3 /\ q1 % B2 = (q1 % Base) + Base * (q2 % Base) /\ q2 % B2 = (q2 % Base) + Base * (q3 % Base)
    <2> HIDE DEF q1
    <2> QED BY <1>2, BaseType, DivisionTwice
<1>6. v \div B3 = q1 \div B2
    <2> HIDE DEF B2
    <2> QED BY <1>1, DivisionTwice
<1>7. v % (Base * B3) = (v % Base) + Base * (q1 % B3)
    <2> HIDE DEF B3
    <2> QED BY <1>1, DivisionTwice
<1>15. v % B3 = (v % Base) + Base * (q1 % B2)
    <2> HIDE DEF B2
    <2> QED BY <1>1, DivisionTwice
<1>8. q1 % B3 = (q1 % Base) + Base * (q2 % B2)
    <2> HIDE DEF q1, B2
    <2> QED BY <1>1, <1>2, DivisionTwice
<1>9. /\ Power(0) = 1 /\ Power(1) = Base /\ Power(2) = B2 /\ Power(3) = B3 /\ Power(4) = Base * B3
    BY Powers
<1> HIDE DEF B2, B3, q2, q3
<1>10. (v \div Power(0)) % Base = v % Base
    BY <1>3, <1>9
<1>11. (v \div Power(1)) % Base = q1 % Base
    BY <1>9
<1>12. (v \div Power(2)) % Base = q2 % Base
    BY <1>4, <1>9
<1>13. (v \div Power(3)) % Base = q3 % Base
    BY <1>5, <1>6, <1>9
<1>14. /\ v % Power(1) = v % Base /\ v % Power(2) = v % B2
       /\ v % Power(3) = v % B3 /\ v % Power(4) = v % (Base * B3)
    BY <1>9
<1> HIDE DEF q1
<1>16. ((v \div Power(0)) % Base) + Base * (((v \div Power(1)) % Base)
          + Base * ((v \div Power(2)) % Base)) = v % Power(3)
    BY <1>5, <1>10, <1>11, <1>12, <1>14, <1>15
<1> QED BY <1>4, <1>5, <1>7, <1>8, <1>10, <1>11, <1>12, <1>13, <1>14, <1>16

\* The lower parts of a word of n units that an image may have of it.
Parts(n) == IF n = 4 THEN {2, 3, 4} ELSE {n}

LEMMA WriteType ==
    ASSUME NEW size \in Nat, NEW m \in [0 .. size - 1 -> Unit], NEW p \in Nat, NEW n \in {1, 2, 4},
           NEW v \in Int
    PROVE  Write(m, p, n, v) \in [0 .. size - 1 -> Unit]
<1>1. \A x \in Int : x % Base \in Unit
    BY BaseType DEF Unit
<1>2. \A k \in 0 .. 3 : v \div Power(k) \in Int
    <2>1. \A k \in 0 .. 3 : Power(k) \in Nat \ {0}
        <3>1. Base * Base \in Nat \ {0}
            BY BaseType, DivisionTwice
        <3>2. Base * (Base * Base) \in Nat \ {0}
            BY <3>1, DivisionTwice
        <3> QED BY <3>1, <3>2, BaseType, Powers
    <2> QED BY <2>1
<1>3. \A i \in p .. p + n - 1 : i - p \in 0 .. 3
    OBVIOUS
<1> QED BY <1>1, <1>2, <1>3 DEF Write

LEMMA WriteWord ==
    ASSUME NEW size \in Nat, NEW m \in [0 .. size - 1 -> Unit], NEW p \in Nat, NEW n \in {1, 2, 4},
           p + n <= size, NEW v \in Int, NEW u \in Parts(n)
    PROVE  Word(Write(m, p, n, v), p, u) = v % Power(u)
<1> DEFINE w == Write(m, p, n, v)
<1>4. w = [i \in 0 .. size - 1 |-> IF i \in p .. p + n - 1 THEN (v \div Power(i - p)) % Base ELSE m[i]]
    BY DEF Write
<1>5. \A i \in p .. p + n - 1 : w[i] = (v \div Power(i - p)) % Base
    BY <1>4
<1>6. \A k \in 0 .. n - 1 : w[p + k] = (v \div Power(k)) % Base
    <2> SUFFICES ASSUME NEW k \in 0 .. n - 1 PROVE w[p + k] = (v \div Power(k)) % Base
        OBVIOUS
    <2>1. p + k \in p .. p + n - 1 /\ (p + k) - p = k
        OBVIOUS
    <2> HIDE DEF w
    <2> QED BY <1>5, <2>1
<1> HIDE DEF w
<1>8. Word(w, p, u) = v % Power(u)
    <2>0. u \in {1, 2, 3, 4} /\ u <= n
        BY DEF Parts
    <2>1. CASE u = 1
        <3>1. w[p] = (v \div Power(0)) % Base
            BY <1>6, <2>0, <2>1
        <3> QED BY <2>1, <3>1, Digits DEF Word
    <2>2. CASE u = 2
        <3>1. w[p] = (v \div Power(0)) % Base /\ w[p + 1] = (v \div Power(1)) % Base
            BY <1>6, <2>0, <2>2
        <3> QED BY <2>2, <3>1, Digits DEF Word
    <2>3. CASE u = 3
        <3>1. /\ w[p] = (v \div Power(0)) % Base /\ w[p + 1] = (v \div Power(1)) % Base
              /\ w[p + 2] = (v \div Power(2)) % Base
            BY <1>6, <2>0, <2>3
        <3> QED BY <2>3, <3>1, Digits DEF Word
    <2>4. CASE u = 4
        <3>1. /\ w[p] = (v \div Power(0)) % Base /\ w[p + 1] = (v \div Power(1)) % Base
              /\ w[p + 2] = (v \div Power(2)) % Base /\ w[p + 3] = (v \div Power(3)) % Base
            BY <1>6, <2>0, <2>4
        <3> QED BY <2>4, <3>1, Digits DEF Word
    <2> QED BY <2>0, <2>1, <2>2, <2>3, <2>4
<1> QED BY <1>8 DEF w

LEMMA WriteElsewhere ==
    ASSUME NEW size \in Nat, NEW m \in [0 .. size - 1 -> Unit], NEW p \in Nat, NEW n \in Nat, NEW v,
           NEW i \in 0 .. size - 1, i \notin p .. p + n - 1
    PROVE  Write(m, p, n, v)[i] = m[i]
BY DEF Write

LEMMA WordType ==
    ASSUME NEW size \in Nat, NEW m \in [0 .. size - 1 -> Unit], NEW p \in Nat, NEW n \in {1, 2, 4},
           p + n <= size
    PROVE  Word(m, p, n) \in Int
<1>1. \A i \in p .. p + n - 1 : m[i] \in Int
    BY BaseType DEF Unit
<1>2. CASE n = 1
    BY <1>1, <1>2 DEF Word
<1>3. CASE n = 2
    <2>1. m[p] \in Int /\ m[p + 1] \in Int
        BY <1>1, <1>3
    <2> QED BY <1>3, <2>1, BaseType DEF Word
<1>4. CASE n = 4
    <2>1. m[p] \in Int /\ m[p + 1] \in Int /\ m[p + 2] \in Int /\ m[p + 3] \in Int
        BY <1>1, <1>4
    <2>2. m[p + 2] + Base * m[p + 3] \in Int
        BY <2>1, BaseType
    <2>3. m[p + 1] + Base * (m[p + 2] + Base * m[p + 3]) \in Int
        BY <2>1, <2>2, BaseType
    <2>4. m[p] + Base * (m[p + 1] + Base * (m[p + 2] + Base * m[p + 3])) \in Int
        BY <2>1, <2>3, BaseType
    <2> QED BY <1>4, <2>4 DEF Word
<1> QED BY <1>2, <1>3, <1>4

\* What is beyond a part of a word changes nothing of a sum modulo that part.
LEMMA PartOfSum ==
    ASSUME NEW size \in Nat, NEW m \in [0 .. size - 1 -> Unit], NEW p \in Nat, NEW n \in {1, 2, 4},
           p + n <= size, NEW d \in Int, NEW u \in Parts(n)
    PROVE  (Word(m, p, n) + d) % Power(u) = (Word(m, p, u) + d) % Power(u)
<1>1. ASSUME NEW x \in Int, NEW r \in Int, NEW P \in Nat \ {0}
      PROVE  ((x + P * r) + d) % P = (x + d) % P
    <2> DEFINE y == x + d
    <2> DEFINE q == y \div P
    <2> DEFINE h == y % P
    <2>1. y \in Int /\ q \in Int /\ h \in 0 .. P - 1 /\ y = P * q + h
        OBVIOUS
    <2> HIDE DEF q, h
    <2>2. (x + P * r) + d = P * (q + r) + h
        BY <2>1
    <2> DEFINE z == (x + P * r) + d
    <2>3. z \in Int /\ q + r \in Int /\ z = P * (q + r) + h
        BY <2>1, <2>2
    <2> HIDE DEF y, z
    <2>4. z % P = h
        BY <2>1, <2>3, DivisionUnique
    <2> QED BY <2>4 DEF h, y, z
\* Multiplying out.
<1>4. ASSUME NEW x \in Int, NEW y \in Int, NEW r \in Int, NEW b \in Int, NEW c \in Int
      PROVE  x + b * (y + c * r) = (x + b * y) + (b * c) * r
    <2> DEFINE z == c * r
    <2>1. z \in Int /\ b * z = (b * c) * r
        OBVIOUS
    <2> HIDE DEF z
    <2>2. b * (y + z) = b * y + b * z
        BY <2>1
    <2>3. x + b * (y + z) = (x + b * y) + b * z
        <3>1. b * y \in Int /\ b * z \in Int
            BY <2>1
        <3> QED BY <2>2, <3>1
    <2> QED BY <2>1, <2>3 DEF z
<1>2. CASE u = n
    BY <1>2
<1>3. CASE n = 4 /\ u \in {2, 3}
    <2>1. \A i \in p .. p + n - 1 : m[i] \in Int
        BY BaseType DEF Unit
    <2>2. m[p] \in Int /\ m[p + 1] \in Int /\ m[p + 2] \in Int /\ m[p + 3] \in Int
        BY <1>3, <2>1
    <2> DEFINE B2 == Base * Base
    <2>3. B2 \in Nat \ {0} /\ Base \in Int /\ B2 \in Int
        BY BaseType, DivisionTwice
    <2>4. CASE u = 2
        <3> DEFINE x == m[p] + Base * m[p + 1]
        <3> DEFINE r == m[p + 2] + Base * m[p + 3]
        <3>1. x \in Int /\ r \in Int
            BY <2>2, BaseType
        <3>2. m[p] + Base * (m[p + 1] + Base * r) = x + B2 * r
            <4> DEFINE m0 == m[p]
            <4> DEFINE m1 == m[p + 1]
            <4>1. m0 \in Int /\ m1 \in Int
                BY <2>2
            <4> HIDE DEF r, m0, m1
            <4>2. m0 + Base * (m1 + Base * r) = (m0 + Base * m1) + (Base * Base) * r
                BY <1>4, <2>3, <3>1, <4>1
            <4> QED BY <4>2 DEF m0, m1
        <3>3. Word(m, p, n) = x + B2 * r /\ Word(m, p, u) = x /\ Power(u) = B2
            BY <1>3, <2>4, <3>2, Powers DEF Word
        <3> HIDE DEF x, r, B2
        <3>4. ((x + B2 * r) + d) % B2 = (x + d) % B2
            BY <1>1, <2>3, <3>1, Zenon
        <3> QED BY <3>3, <3>4
    <2>5. CASE u = 3
        <3> DEFINE x == m[p] + Base * (m[p + 1] + Base * m[p + 2])
        <3> DEFINE r == m[p + 3]
        <3> DEFINE B3 == Base * B2
        <3>1. x \in Int /\ r \in Int /\ B3 \in Nat \ {0}
            <4>1. m[p + 1] + Base * m[p + 2] \in Int
                BY <2>2, BaseType
            <4>2. B3 \in Nat \ {0}
                <5> HIDE DEF B2
                <5> QED BY <2>3, DivisionTwice
            <4> QED BY <2>2, <4>1, <4>2, BaseType
        <3>2. m[p] + Base * (m[p + 1] + Base * (m[p + 2] + Base * r)) = x + B3 * r
            <4>1. m[p + 1] + Base * (m[p + 2] + Base * r) = (m[p + 1] + Base * m[p + 2]) + B2 * r
                <5> DEFINE m1 == m[p + 1]
                <5> DEFINE m2 == m[p + 2]
                <5>1. m1 \in Int /\ m2 \in Int
                    BY <2>2
                <5> HIDE DEF r, m1, m2
                <5>2. m1 + Base * (m2 + Base * r) = (m1 + Base * m2) + (Base * Base) * r
                    BY <1>4, <2>3, <3>1, <5>1
                <5> QED BY <5>2 DEF m1, m2
            <4> DEFINE y == m[p + 1] + Base * m[p + 2]
            <4>2. y \in Int
                BY <2>2, BaseType
            <4>3. m[p] + Base * (y + B2 * r) = (m[p] + Base * y) + (Base * B2) * r
                <5> HIDE DEF y, B2, r
                <5> QED BY <1>4, <2>2, <2>3, <3>1, <4>2, BaseType
            <4> QED BY <4>1, <4>3
        <3>3. Word(m, p, n) = x + B3 * r /\ Word(m, p, u) = x /\ Power(u) = B3
            BY <1>3, <2>5, <3>2, Powers DEF Word
        <3> HIDE DEF x, r, B3
        <3>4. ((x + B3 * r) + d) % B3 = (x + d) % B3
            BY <1>1, <3>1, Zenon
        <3> QED BY <3>3, <3>4
    <2> QED BY <1>3, <2>4, <2>5
<1> QED BY <1>2, <1>3 DEF Parts

\* The upper half of a sum of which the lower half is dropped.
LEMMA HighPart ==
    ASSUME NEW u \in Unit, NEW d \in 0 .. Base * Base - 1
    PROVE  (((u * Base + d) % (Base * Base)) \div Base) % Base = (u + (d \div Base)) % Base
<1> DEFINE c == d \div Base
<1> DEFINE r == d % Base
<1>1. u \in Int /\ c \in Int /\ r \in 0 .. Base - 1 /\ d = Base * c + r
    BY BaseType DEF Unit
<1> HIDE DEF c, r
<1> DEFINE x == u * Base + d
<1>2. x \in Int /\ x = Base * (u + c) + r
    BY <1>1, BaseType
<1> HIDE DEF x
<1>3. x \div Base = u + c /\ x % Base = r
    BY <1>1, <1>2, BaseType, DivisionUnique
<1>4. x % (Base * Base) = r + Base * ((u + c) % Base)
    BY <1>2, <1>3, BaseType, DivisionTwice
<1> DEFINE h == (u + c) % Base
<1>5. h \in 0 .. Base - 1
    BY <1>1, BaseType
<1> HIDE DEF h
<1>6. (r + Base * h) \div Base = h
    BY <1>1, <1>5, BaseType, DivisionUnique
<1>7. h % Base = h
    BY <1>5, BaseType
<1>8. ((x % (Base * Base)) \div Base) % Base = h
    BY <1>4, <1>6, <1>7 DEF h
<1> QED BY <1>8 DEF h, c, x

LEMMA LowPart ==
    ASSUME NEW u \in Unit, NEW d \in Int
    PROVE  (u + (d % Base)) % Base = (u + d) % Base
<1> DEFINE c == d \div Base
<1> DEFINE r == d % Base
<1>1. u \in Int /\ c \in Int /\ r \in 0 .. Base - 1 /\ d = Base * c + r
    BY BaseType DEF Unit
<1> HIDE DEF c, r
<1> DEFINE k == (u + r) \div Base
<1> DEFINE h == (u + r) % Base
<1>2. k \in Int /\ h \in 0 .. Base - 1 /\ u + r = Base * k + h
    BY <1>1, BaseType
<1> HIDE DEF k, h
<1>3. u + d = Base * (k + c) + h
    BY <1>1, <1>2, BaseType
<1> DEFINE x == u + d
<1>4. x % Base = h
    <2>1. x \in Int /\ k + c \in Int /\ x = Base * (k + c) + h
        BY <1>1, <1>2, <1>3, BaseType
    <2> HIDE DEF x
    <2> QED BY <1>2, <2>1, BaseType, DivisionUnique
<1> QED BY <1>4 DEF h, r

LEMMA UnitsOfTypes ==
    ASSUME NEW t \in Nat
    PROVE  /\ Units(HIGH) = 1 /\ Units(LOW) = 1 /\ Units(HIGHLOW) = 2 /\ Units(DIR64) = 4
           /\ t \notin {HIGH, LOW, HIGHLOW, DIR64} => Units(t) = 0
BY DEF Units, HIGH, LOW, HIGHLOW, DIR64

\* One relocation moves its word, each part of it too, and changes nothing else.
LEMMA RelocateEntry ==
    ASSUME NEW size \in Nat, NEW reach \in Nat, reach >= size + 2, NEW m \in [0 .. reach - 1 -> Unit],
           NEW delta \in Int, NEW e \in Entry
    PROVE  /\ Relocate(m, e, delta, size) \in [0 .. reach - 1 -> Unit]
           /\ e.pos + 2 <= size /\ Units(e.type) > 0 =>
                 /\ WordOf(e) \subseteq 0 .. reach - 1
                 /\ \A u \in Parts(Units(e.type)) :
                       Word(Relocate(m, e, delta, size), e.pos, u)
                          = (Word(m, e.pos, u) + Distance(e, delta)) % Power(u)
           /\ \A i \in 0 .. reach - 1 :
                 e.pos + 2 > size \/ i \notin WordOf(e) => Relocate(m, e, delta, size)[i] = m[i]
<1> DEFINE n == Units(e.type)
<1> DEFINE p == e.pos
<1> DEFINE w == Relocate(m, e, delta, size)
<1>1. p \in Nat /\ e.type \in Nat
    BY DEF Entry
<1>2. WordOf(e) = p .. p + n - 1 /\ (p + 2 <= size /\ n \in {1, 2, 4} => p + n <= reach)
    <2>1. WordOf(e) = p .. p + n - 1
        BY DEF WordOf
    <2> HIDE DEF n, p
    <2> QED BY <1>1, <2>1
<1>10. n \in {0, 1, 2, 4}
    BY <1>1, UnitsOfTypes
<1> SUFFICES /\ w \in [0 .. reach - 1 -> Unit]
             /\ p + 2 <= size /\ n > 0 =>
                   \A u \in Parts(n) : Word(w, p, u) = (Word(m, p, u) + Distance(e, delta)) % Power(u)
             /\ \A i \in 0 .. reach - 1 : p + 2 > size \/ i \notin p .. p + n - 1 => w[i] = m[i]
    <2>1. p + 2 <= size /\ n > 0 => p .. p + n - 1 \subseteq 0 .. reach - 1
        <3> HIDE DEF n, p
        <3> QED BY <1>1, <1>2, <1>10
    <2> HIDE DEF n, p, w
    <2> QED BY <1>2, <2>1 DEF n, p, w
<1>3. CASE p + 2 > size \/ e.type \notin {HIGH, LOW, HIGHLOW, DIR64}
    <2>1. w = m
        BY <1>3 DEF Relocate
    <2>2. p + 2 <= size => n = 0
        BY <1>1, <1>3, UnitsOfTypes
    <2> HIDE DEF w
    <2> QED BY <1>1, <2>1, <2>2
<1>4. ASSUME NEW v \in Int, p + 2 <= size, n \in {1, 2, 4}, w = Write(m, p, n, v),
             \A u \in Parts(n) : v % Power(u) = (Word(m, p, u) + Distance(e, delta)) % Power(u)
      PROVE  /\ w \in [0 .. reach - 1 -> Unit]
             /\ \A u \in Parts(n) : Word(w, p, u) = (Word(m, p, u) + Distance(e, delta)) % Power(u)
             /\ \A i \in 0 .. reach - 1 : p + 2 > size \/ i \notin p .. p + n - 1 => w[i] = m[i]
    <2> HIDE DEF w, n, p
    <2>1. p + n <= reach /\ n \in {1, 2, 4} /\ n \in Nat
        BY <1>2, <1>4
    <2>4. ASSUME NEW u \in Parts(n)
          PROVE  Word(Write(m, p, n, v), p, u) = v % Power(u)
        BY <1>1, <1>4, <2>1, WriteWord
    <2>2. Write(m, p, n, v) \in [0 .. reach - 1 -> Unit]
        BY <1>1, <1>4, WriteType
    <2>3. ASSUME NEW i \in 0 .. reach - 1, i \notin p .. p + n - 1
          PROVE  Write(m, p, n, v)[i] = m[i]
        BY <1>1, <2>1, <2>3, WriteElsewhere
    <2> QED BY <1>1, <1>4, <2>2, <2>3, <2>4
\* The sum of a word and a distance, part by part.
<1>11. ASSUME n \in {2, 4}, p + 2 <= size, Distance(e, delta) = delta
       PROVE  \A u \in Parts(n) :
                 (Word(m, p, n) + delta) % Power(u) = (Word(m, p, u) + Distance(e, delta)) % Power(u)
    <2> HIDE DEF n, p
    <2> QED BY <1>1, <1>2, <1>11, PartOfSum
<1>12. n = 1 => Parts(n) = {1}
    BY DEF Parts
<1>5. CASE p + 2 <= size /\ e.type = HIGHLOW
    <2>1. n = 2 /\ Distance(e, delta) = delta
        BY <1>5, UnitsOfTypes, <1>1 DEF Distance, HIGH, HIGHLOW
    <2>2. Word(m, p, 2) + delta \in Int
        <3> HIDE DEF w, n, p
        <3> QED BY <1>1, <1>2, <1>5, <2>1, WordType
    <2>3. w = Write(m, p, 2, Word(m, p, 2) + delta)
        BY <1>1, <1>5 DEF Relocate, LOW, HIGHLOW, DIR64, HIGH
    <2>9. p + 2 <= size
        BY <1>5
    <2> HIDE DEF w, n, p
    <2> QED BY <1>1, <1>4, <1>11, <2>1, <2>2, <2>3, <2>9
<1>6. CASE p + 2 <= size /\ e.type = DIR64
    <2>1. n = 4 /\ Distance(e, delta) = delta
        BY <1>6, UnitsOfTypes, <1>1 DEF Distance, HIGH, DIR64
    <2>2. Word(m, p, 4) + delta \in Int
        <3> HIDE DEF w, n, p
        <3> QED BY <1>1, <1>2, <1>6, <2>1, WordType
    <2>3. w = Write(m, p, 4, Word(m, p, 4) + delta)
        BY <1>1, <1>6 DEF Relocate, LOW, HIGHLOW, DIR64, HIGH
    <2>9. p + 2 <= size
        BY <1>6
    <2> HIDE DEF w, n, p
    <2> QED BY <1>1, <1>4, <1>11, <2>1, <2>2, <2>3, <2>9
<1>7. CASE p + 2 <= size /\ e.type = LOW
    <2>1. n = 1 /\ Distance(e, delta) = delta
        BY <1>7, UnitsOfTypes, <1>1 DEF Distance, HIGH, LOW
    <2>2. m[p] \in Unit /\ Word(m, p, 1) = m[p]
        BY <1>1, <1>2, <1>7, <2>1 DEF Word
    <2>3. w = Write(m, p, 1, m[p] + (delta % Base))
        BY <1>1, <1>7, Powers DEF Relocate, LOW, HIGHLOW, DIR64, HIGH, Unsigned
    <2>4. m[p] + (delta % Base) \in Int
        BY <2>2, BaseType DEF Unit
    <2>5. (m[p] + (delta % Base)) % Base = (m[p] + delta) % Base
        BY <2>2, LowPart
    <2>9. p + 2 <= size
        BY <1>7
    <2> HIDE DEF w, n, p
    <2> QED BY <1>1, <1>4, <1>12, <2>1, <2>2, <2>3, <2>4, <2>5, <2>9, Powers
<1>8. CASE p + 2 <= size /\ e.type = HIGH
    <2> DEFINE d == delta % (Base * Base)
    <2> DEFINE v == ((m[p] * Base + d) % (Base * Base)) \div Base
    <2>1. n = 1 /\ Distance(e, delta) = d \div Base
        BY <1>8, UnitsOfTypes, <1>1, Powers DEF Distance
    <2>2. m[p] \in Unit /\ Word(m, p, 1) = m[p]
        BY <1>1, <1>2, <1>8, <2>1 DEF Word
    <2>3. w = Write(m, p, 1, v)
        BY <1>1, <1>8, Powers DEF Relocate, LOW, HIGHLOW, DIR64, HIGH, Unsigned
    <2>4. Base * Base \in Nat \ {0}
        BY BaseType, DivisionTwice
    <2>5. d \in 0 .. Base * Base - 1
        <3> DEFINE M == Base * Base
        <3> HIDE DEF M
        <3>1. delta % M \in 0 .. M - 1
            BY <2>4 DEF M
        <3> QED BY <3>1 DEF M
    <2>6. v \in Int
        <3> DEFINE M == Base * Base
        <3>1. M \in Nat \ {0} /\ m[p] * Base + d \in Int
            BY <2>2, <2>4, <2>5, BaseType DEF Unit
        <3> HIDE DEF M, d
        <3>2. ((m[p] * Base + d) % M) \div Base \in Int
            BY <3>1, BaseType
        <3> QED BY <3>2 DEF M
    <2>7. v % Base = (m[p] + (d \div Base)) % Base
        BY <2>2, <2>5, HighPart
    <2>9. p + 2 <= size
        BY <1>8
    <2> HIDE DEF w, n, p, v, d
    <2> QED BY <1>1, <1>4, <1>12, <2>1, <2>2, <2>3, <2>6, <2>7, <2>9, Powers
<1>9. p + 2 <= size \/ p + 2 > size
    BY <1>1
<1> QED BY <1>3, <1>5, <1>6, <1>7, <1>8, <1>9

-----------------------------------------------------------------------------
(* The image. *)

LEMMA ImageTypes ==
    ASSUME NEW img \in Images
    PROVE  /\ img.base \in Addresses /\ img.size \in Nat /\ img.header \in Seq(Unit)
           /\ img.sections \in Seq(Section) /\ img.relocations \in Seq(Entry)
           /\ \A k \in 1 .. Len(img.relocations) : img.relocations[k] \in Entry
<1>1. /\ img.base \in Addresses /\ img.size \in Nat /\ img.header \in Seq(Unit)
      /\ img.sections \in Seq(Section) /\ img.relocations \in Seq(Entry)
    BY ImagesAssumption
<1> DEFINE rs == img.relocations
<1>2. \A k \in 1 .. Len(rs) : rs[k] \in Entry
    <2>1. rs \in Seq(Entry)
        BY <1>1
    <2> HIDE DEF rs
    <2> QED BY <2>1
<1> QED BY <1>1, <1>2

\* What is written, the image and what is behind it.
Reach(img) == IF Len(img.header) > img.size + 2 THEN Len(img.header) ELSE img.size + 2
Filled(img) == [Places(img) -> Unit]

LEMMA PlacesOfImage ==
    ASSUME NEW img \in Images
    PROVE  /\ Reach(img) \in Nat /\ Reach(img) >= img.size + 2 /\ Places(img) = 0 .. Reach(img) - 1
           /\ 0 .. img.size - 1 \subseteq Places(img)
<1>1. img.size \in Nat /\ Len(img.header) \in Nat
    BY ImageTypes
<1>2. Reach(img) \in Nat /\ Reach(img) >= img.size + 2 /\ Places(img) = 0 .. Reach(img) - 1
    BY <1>1 DEF Reach, Places
<1> QED BY <1>1, <1>2

\* What the loop over the relocations makes of an image, relocation by relocation.
Done(img, m, delta) ==
    CHOOSE done : done = [k \in 0 .. Len(img.relocations) |->
        IF k = 0 THEN m ELSE Relocate(done[k - 1], img.relocations[k], delta, img.size)]

LEMMA ApplyDone ==
    ASSUME NEW img, NEW a, NEW m
    PROVE  ApplyRelocations(img, a, m) =
              IF img.pe /\ a # img.base THEN Done(img, m, a - img.base)[Len(img.relocations)] ELSE m
BY DEF ApplyRelocations, Done

LEMMA DoneSteps ==
    ASSUME NEW img \in Images, NEW m \in Filled(img), NEW delta \in Int
    PROVE  /\ Done(img, m, delta) \in [0 .. Len(img.relocations) -> Filled(img)]
           /\ Done(img, m, delta)[0] = m
           /\ \A k \in 1 .. Len(img.relocations) :
                 Done(img, m, delta)[k] =
                    Relocate(Done(img, m, delta)[k - 1], img.relocations[k], delta, img.size)
<1> DEFINE S == Filled(img)
<1> DEFINE n == Len(img.relocations)
<1> DEFINE Step(x, k) == Relocate(x, img.relocations[k], delta, img.size)
<1> DEFINE step == [k \in 1 .. n |-> [x \in S |-> Step(x, k)]]
<1>1. n \in Nat
    BY ImageTypes
<1>2. \A x \in S : \A k \in 1 .. n : Step(x, k) \in S
    BY ImageTypes, PlacesOfImage, RelocateEntry DEF Filled
<1> HIDE DEF S, n, Step
<1>3. step \in [1 .. n -> [S -> S]]
    BY <1>2
<1>4. PICK g \in [0 .. n -> S] : g[0] = m /\ \A k \in 1 .. n : g[k] = step[k][g[k - 1]]
    <2>1. m \in S
        BY DEF S
    <2> HIDE DEF step
    <2>2. PICK g : IsRecursion(g, n, S, m, step)
        BY <1>1, <1>3, <2>1, Recursion
    <2>3. g \in [0 .. n -> S] /\ g[0] = m /\ \A k \in 1 .. n : g[k] = step[k][g[k - 1]]
        BY <2>2 DEF IsRecursion
    <2> QED BY <2>3
<1>5. ASSUME NEW k \in 1 .. n PROVE g[k] = Step(g[k - 1], k)
    <2>1. g[k - 1] \in S
        BY <1>1
    <2> QED BY <1>4, <2>1
<1>6. g = [k \in 0 .. n |-> IF k = 0 THEN m ELSE Step(g[k - 1], k)]
    BY <1>4, <1>5
<1> DEFINE d == Done(img, m, delta)
<1>7. d = [k \in 0 .. n |-> IF k = 0 THEN m ELSE Step(d[k - 1], k)]
    <2>1. d = CHOOSE done : done = [k \in 0 .. n |-> IF k = 0 THEN m ELSE Step(done[k - 1], k)]
        BY DEF Done, Step, n
    <2> HIDE DEF d
    <2> QED BY <1>6, <2>1
<1> HIDE DEF d
<1>8. d[0] = m /\ \A k \in 1 .. n : d[k] = Step(d[k - 1], k)
    BY <1>1, <1>7
<1> DEFINE P == {k \in 0 .. n : d[k] \in S}
<1>9. 0 \in P
    BY <1>1, <1>8 DEF S
<1>10. \A k \in 1 .. n : k - 1 \in P => k \in P
    BY <1>2, <1>8
<1>11. \A k \in 0 .. n : d[k] \in S
    <2>1. \A k \in 0 .. n : k \in P
        <3> HIDE DEF P
        <3> QED BY <1>1, <1>9, <1>10, Induction
    <2> QED BY <2>1
<1>12. d \in [0 .. n -> S]
    BY <1>7, <1>11
<1> QED BY <1>8, <1>12 DEF d, S, n, Step

\* What the loop over the sections makes of an image, section by section.
Loaded(img, m) ==
    CHOOSE loaded : loaded = [k \in 0 .. Len(img.sections) |->
        IF k = 0 THEN m ELSE Copy(loaded[k - 1], img.sections[k])]

LEMMA LoadedLast ==
    ASSUME NEW img, NEW m
    PROVE  LoadSections(img, m) = Loaded(img, m)[Len(img.sections)]
BY DEF LoadSections, Loaded

LEMMA HeaderType == 
    ASSUME NEW img \in Images, NEW m \in Filled(img)
    PROVE  CopyHeader(img, m) \in Filled(img)
<1> DEFINE h == img.header
<1>1. Places(img) \subseteq Nat
    BY PlacesOfImage
<1>2. \A i \in Places(img) : i < Len(h) => h[i + 1] \in Unit
    <2>1. h \in Seq(Unit)
        BY ImageTypes
    <2> HIDE DEF h
    <2> QED BY <1>1, <2>1
<1> QED BY <1>2 DEF CopyHeader, Filled

LEMMA CopyType ==
    ASSUME NEW img \in Images, NEW m \in Filled(img), NEW s \in Section
    PROVE  Copy(m, s) \in Filled(img)
<1>1. Places(img) \subseteq Nat /\ s.va \in Nat /\ s.data \in Seq(Unit)
    BY PlacesOfImage DEF Section
<1> DEFINE d == s.data
<1>2. \A i \in Places(img) : i \in s.va .. s.va + Len(d) - 1 => d[i - s.va + 1] \in Unit
    <2>1. d \in Seq(Unit)
        BY <1>1
    <2> HIDE DEF d
    <2> QED BY <1>1, <2>1
<1> QED BY <1>1, <1>2 DEF Copy, Filled

LEMMA LoadedSteps ==
    ASSUME NEW img \in Images, NEW m \in Filled(img)
    PROVE  /\ Loaded(img, m) \in [0 .. Len(img.sections) -> Filled(img)]
           /\ Loaded(img, m)[0] = m
           /\ \A k \in 1 .. Len(img.sections) :
                 Loaded(img, m)[k] = Copy(Loaded(img, m)[k - 1], img.sections[k])
<1> DEFINE S == Filled(img)
<1> DEFINE n == Len(img.sections)
<1> DEFINE Step(x, k) == Copy(x, img.sections[k])
<1> DEFINE step == [k \in 1 .. n |-> [x \in S |-> Step(x, k)]]
<1>1. n \in Nat
    BY ImageTypes
<1>2. \A x \in S : \A k \in 1 .. n : Step(x, k) \in S
    <2> DEFINE ss == img.sections
    <2>1. \A k \in 1 .. n : ss[k] \in Section
        <3>1. ss \in Seq(Section) /\ n = Len(ss)
            BY ImageTypes
        <3> HIDE DEF ss, n
        <3> QED BY <3>1
    <2> QED BY <2>1, CopyType
<1>3. m \in S
    OBVIOUS
<1> HIDE DEF S, n, Step
<1>4. step \in [1 .. n -> [S -> S]]
    BY <1>2
<1>5. PICK g \in [0 .. n -> S] : g[0] = m /\ \A k \in 1 .. n : g[k] = step[k][g[k - 1]]
    <2> HIDE DEF step
    <2>2. PICK g : IsRecursion(g, n, S, m, step)
        BY <1>1, <1>3, <1>4, Recursion
    <2>3. g \in [0 .. n -> S] /\ g[0] = m /\ \A k \in 1 .. n : g[k] = step[k][g[k - 1]]
        BY <2>2 DEF IsRecursion
    <2> QED BY <2>3
<1>6. ASSUME NEW k \in 1 .. n PROVE g[k] = Step(g[k - 1], k)
    <2>1. g[k - 1] \in S
        BY <1>1
    <2> QED BY <1>5, <2>1
<1>7. g = [k \in 0 .. n |-> IF k = 0 THEN m ELSE Step(g[k - 1], k)]
    BY <1>5, <1>6
<1> DEFINE d == Loaded(img, m)
<1>8. d = [k \in 0 .. n |-> IF k = 0 THEN m ELSE Step(d[k - 1], k)]
    <2>1. d = CHOOSE loaded : loaded = [k \in 0 .. n |-> IF k = 0 THEN m ELSE Step(loaded[k - 1], k)]
        BY DEF Loaded, Step, n
    <2> HIDE DEF d
    <2> QED BY <1>7, <2>1
<1> HIDE DEF d
<1>9. d[0] = m /\ \A k \in 1 .. n : d[k] = Step(d[k - 1], k)
    BY <1>1, <1>8
<1> DEFINE P == {k \in 0 .. n : d[k] \in S}
<1>10. 0 \in P
    BY <1>1, <1>3, <1>9
<1>11. \A k \in 1 .. n : k - 1 \in P => k \in P
    BY <1>2, <1>9
<1>12. \A k \in 0 .. n : d[k] \in S
    <2>1. \A k \in 0 .. n : k \in P
        <3> HIDE DEF P
        <3> QED BY <1>1, <1>10, <1>11, Induction
    <2> QED BY <2>1
<1>13. d \in [0 .. n -> S]
    BY <1>8, <1>12
<1> QED BY <1>9, <1>13 DEF d, S, n, Step

LEMMA ImageType ==
    ASSUME NEW img \in Images, NEW a \in Addresses, NEW m \in Filled(img)
    PROVE  /\ LoadSections(img, CopyHeader(img, m)) \in Filled(img)
           /\ ApplyRelocations(img, a, LoadSections(img, CopyHeader(img, m))) \in Filled(img)
<1> DEFINE x == LoadSections(img, CopyHeader(img, m))
<1>1. Len(img.sections) \in Nat /\ Len(img.relocations) \in Nat /\ a - img.base \in Int
    BY ImageTypes, SpaceAssumption DEF Addresses
<1>2. x \in Filled(img)
    BY <1>1, HeaderType, LoadedLast, LoadedSteps
<1> HIDE DEF x
<1>3. Done(img, x, a - img.base) \in [0 .. Len(img.relocations) -> Filled(img)]
    BY <1>1, <1>2, DoneSteps
<1>4. Done(img, x, a - img.base)[Len(img.relocations)] \in Filled(img)
    BY <1>1, <1>3
<1> QED BY <1>2, <1>4, ApplyDone DEF x

LEMMA LastOfMany ==
    ASSUME NEW n \in Nat, NEW S, S \subseteq 1 .. n, S # {}
    PROVE  \E k \in S : \A j \in S : j <= k
<1> DEFINE P == {k \in 0 .. n : S \cap (1 .. k) # {} => \E x \in S : x <= k /\ \A j \in S : j <= k => j <= x}
<1>1. 0 \in P
    OBVIOUS
<1>2. ASSUME NEW k \in 1 .. n, k - 1 \in P PROVE k \in P
    <2>1. CASE k \in S
        <3>1. k <= k /\ \A j \in S : j <= k => j <= k
            OBVIOUS
        <3> QED BY <2>1, <3>1
    <2>2. CASE k \notin S
        <3> SUFFICES ASSUME S \cap (1 .. k) # {}
                     PROVE  \E x \in S : x <= k /\ \A j \in S : j <= k => j <= x
            OBVIOUS
        <3>1. \A j \in S : j \in Int /\ (j <= k => j <= k - 1)
            BY <2>2
        <3>2. S \cap (1 .. k - 1) # {}
            BY <3>1
        <3>3. PICK x \in S : x <= k - 1 /\ \A j \in S : j <= k - 1 => j <= x
            BY <1>2, <3>2
        <3>4. x <= k /\ \A j \in S : j <= k => j <= x
            BY <3>1, <3>3
        <3> QED BY <3>4
    <2> QED BY <2>1, <2>2
<1>3. n \in P
    <2> HIDE DEF P
    <2>1. \A k \in 0 .. n : k \in P
        BY <1>1, <1>2, Induction
    <2> QED BY <2>1
<1>4. S \cap (1 .. n) # {}
    OBVIOUS
<1>5. PICK x \in S : x <= n /\ \A j \in S : j <= n => j <= x
    BY <1>3, <1>4
<1>6. \A j \in S : j <= n
    OBVIOUS
<1> QED BY <1>5, <1>6

\* The last section that has a place gives it its content.
LEMMA ContentLoaded ==
    ASSUME NEW img \in Images, NEW m \in Filled(img), \A i \in 0 .. img.size - 1 : m[i] = 0
    PROVE  \A i \in 0 .. img.size - 1 : LoadSections(img, CopyHeader(img, m))[i] = ContentAt(img, i)
<1> DEFINE start == CopyHeader(img, m)
<1> DEFINE n == Len(img.sections)
<1> DEFINE d == Loaded(img, start)
<1>1. n \in Nat /\ img.size \in Nat /\ LoadSections(img, start) = d[n]
    BY ImageTypes, LoadedLast
<1>2. /\ d \in [0 .. n -> Filled(img)] /\ d[0] = start
      /\ \A k \in 1 .. n : d[k] = Copy(d[k - 1], img.sections[k])
    BY HeaderType, LoadedSteps
<1>3. \A i \in 0 .. img.size - 1 : start[i] = IF i < Len(img.header) THEN img.header[i + 1] ELSE 0
    BY PlacesOfImage DEF CopyHeader, Filled
<1> HIDE DEF d, start
<1>4. ASSUME NEW i \in 0 .. img.size - 1 PROVE d[n][i] = ContentAt(img, i)
    <2> DEFINE ss == img.sections
    <2> DEFINE header == IF i < Len(img.header) THEN img.header[i + 1] ELSE 0
    <2> DEFINE has(k) == i \in ss[k].va .. ss[k].va + Len(ss[k].data) - 1
    <2> DEFINE given(k) == ss[k].data[i - ss[k].va + 1]
    <2>1. d[0][i] = header
        BY <1>2, <1>3
    <2>2. \A k \in 1 .. n : d[k][i] = IF has(k) THEN given(k) ELSE d[k - 1][i]
        <3> SUFFICES ASSUME NEW k \in 1 .. n PROVE d[k][i] = IF has(k) THEN given(k) ELSE d[k - 1][i]
            OBVIOUS
        <3>1. d[k - 1] \in Filled(img) /\ d[k] = Copy(d[k - 1], ss[k])
            <4>1. d[k] = Copy(d[k - 1], ss[k])
                BY <1>2
            <4>2. k - 1 \in 0 .. n
                <5> HIDE DEF n
                <5> QED BY <1>1
            <4> HIDE DEF n, ss
            <4> QED BY <1>2, <4>1, <4>2
        <3>2. i \in DOMAIN d[k - 1]
            BY <3>1, PlacesOfImage DEF Filled
        <3> QED BY <3>1, <3>2 DEF Copy
    <2>3. ContentAt(img, i) =
             LET covering == {k \in 1 .. n : has(k)}
             IN  IF covering # {}
                 THEN given(CHOOSE k \in covering : \A j \in covering : j <= k) ELSE header
        <3>1. DOMAIN ss = 1 .. n
            BY ImageTypes
        <3> QED BY <3>1 DEF ContentAt
    <2> HIDE DEF n, ss, header, has, given
    <2> DEFINE P == {k \in 0 .. n : /\ (\A j \in 1 .. k : ~ has(j)) => d[k][i] = header
                                   /\ \A j \in 1 .. k :
                                        has(j) /\ (\A h \in 1 .. k : has(h) => h <= j)
                                            => d[k][i] = given(j)}
    <2>4. 0 \in P
        BY <1>1, <2>1
    <2>5. ASSUME NEW k \in 1 .. n, k - 1 \in P PROVE k \in P
        <3>1. \A j \in 1 .. k : j = k \/ j \in 1 .. k - 1
            OBVIOUS
        <3>2. \A j \in 1 .. k - 1 : j \in 1 .. k
            OBVIOUS
        <3>3. CASE has(k)
            <4>1. d[k][i] = given(k)
                BY <2>2, <3>3
            <4>2. \A j \in 1 .. k : (\A h \in 1 .. k : has(h) => h <= j) => j = k
                BY <3>3
            <4>3. k \in 0 .. n /\ k \in 1 .. k
                OBVIOUS
            <4> QED BY <3>3, <4>1, <4>2, <4>3
        <3>4. CASE ~ has(k)
            <4>1. d[k][i] = d[k - 1][i]
                BY <2>2, <3>4
            <4>2. (\A j \in 1 .. k - 1 : ~ has(j)) => d[k - 1][i] = header
                BY <2>5
            <4>3. \A j \in 1 .. k - 1 : has(j) /\ (\A h \in 1 .. k - 1 : has(h) => h <= j)
                                            => d[k - 1][i] = given(j)
                BY <2>5
            <4>4. \A j \in 1 .. k : has(j) => j \in 1 .. k - 1
                BY <3>1, <3>4
            <4>5. k \in 0 .. n
                OBVIOUS
            <4> QED BY <3>2, <4>1, <4>2, <4>3, <4>4, <4>5
        <3> QED BY <3>3, <3>4
    <2>6. n \in P
        <3> HIDE DEF P
        <3>1. \A k \in 0 .. n : k \in P
            BY <1>1, <2>4, <2>5, Induction
        <3> QED BY <1>1, <3>1
    <2> DEFINE covering == {k \in 1 .. n : has(k)}
    <2>7. CASE covering = {}
        BY <2>3, <2>6, <2>7
    <2>8. CASE covering # {}
        <3> DEFINE last == CHOOSE k \in covering : \A j \in covering : j <= k
        <3>1. \E k \in covering : \A j \in covering : j <= k
            BY <1>1, <2>8, LastOfMany
        <3>2. last \in covering /\ \A j \in covering : j <= last
            <4> HIDE DEF covering
            <4> QED BY <3>1
        <3>3. ContentAt(img, i) = given(last)
            BY <2>3, <2>8
        <3> HIDE DEF last
        <3> QED BY <2>6, <3>2, <3>3
    <2> QED BY <2>7, <2>8
<1> QED BY <1>1, <1>4 DEF start

LEMMA SameWord ==
    ASSUME NEW x, NEW y, NEW p \in Nat, NEW n \in 1 .. 4, \A i \in p .. p + n - 1 : x[i] = y[i]
    PROVE  Word(x, p, n) = Word(y, p, n)
<1>1. \A i \in 0 .. n - 1 : x[p + i] = y[p + i]
    OBVIOUS
<1>2. x[p + 0] = x[p] /\ y[p + 0] = y[p]
    OBVIOUS
<1>3. CASE n = 1
    BY <1>1, <1>2, <1>3 DEF Word
<1>4. CASE n = 2
    <2>1. x[p] = y[p] /\ x[p + 1] = y[p + 1]
        BY <1>1, <1>2, <1>4
    <2> QED BY <1>4, <2>1 DEF Word
<1>5. CASE n = 3
    <2>1. x[p] = y[p] /\ x[p + 1] = y[p + 1] /\ x[p + 2] = y[p + 2]
        BY <1>1, <1>2, <1>5
    <2> QED BY <1>5, <2>1 DEF Word
<1>6. CASE n = 4
    <2>1. x[p] = y[p] /\ x[p + 1] = y[p + 1] /\ x[p + 2] = y[p + 2] /\ x[p + 3] = y[p + 3]
        BY <1>1, <1>2, <1>6
    <2> QED BY <1>6, <2>1 DEF Word
<1> QED BY <1>3, <1>4, <1>5, <1>6

\* The loop moves each word once that no other relocation touches.
LEMMA WordsRelocated ==
    ASSUME NEW img \in Images, NEW m \in Filled(img), NEW delta \in Int
    PROVE  LET rs == img.relocations
               w == Done(img, m, delta)[Len(rs)]
               inside(k) == rs[k].pos + 2 <= img.size
           IN  /\ \A k \in 1 .. Len(rs) :
                     inside(k) /\ Units(rs[k].type) > 0 /\ (\A j \in 1 .. Len(rs) :
                           j # k /\ inside(j) => WordOf(rs[j]) \cap WordOf(rs[k]) = {})
                        => \A u \in Parts(Units(rs[k].type)) :
                              Word(w, rs[k].pos, u)
                                 = (Word(m, rs[k].pos, u) + Distance(rs[k], delta)) % Power(u)
               /\ \A i \in Places(img) :
                     (\A k \in 1 .. Len(rs) : inside(k) => i \notin WordOf(rs[k])) => w[i] = m[i]
<1> DEFINE rs == img.relocations
<1> DEFINE n == Len(rs)
<1> DEFINE d == Done(img, m, delta)
<1> DEFINE inside(k) == rs[k].pos + 2 <= img.size
<1> DEFINE parts(k) == IF Units(rs[k].type) > 0 THEN Parts(Units(rs[k].type)) ELSE {}
<1> DEFINE apart(j, k) == j # k /\ inside(j) => WordOf(rs[j]) \cap WordOf(rs[k]) = {}
<1> DEFINE word(x, k, u) == Word(x, rs[k].pos, u)
<1> DEFINE sum(x, k, u) == (word(x, k, u) + Distance(rs[k], delta)) % Power(u)
<1> DEFINE places == Places(img)
<1>1. n \in Nat /\ img.size \in Nat
    BY ImageTypes
<1>2. /\ d \in [0 .. n -> Filled(img)] /\ d[0] = m
      /\ \A k \in 1 .. n : d[k] = Relocate(d[k - 1], rs[k], delta, img.size)
    BY DoneSteps
<1>3. \A k \in 1 .. n : rs[k] \in Entry
    BY ImageTypes
<1> HIDE DEF n, d
\* What one relocation does.
<1>4. ASSUME NEW k \in 1 .. n
      PROVE  /\ inside(k) => \A u \in parts(k) : word(d[k], k, u) = sum(d[k - 1], k, u)
             /\ inside(k) /\ parts(k) # {} => WordOf(rs[k]) \subseteq places
             /\ \A i \in places : ~ inside(k) \/ i \notin WordOf(rs[k]) => d[k][i] = d[k - 1][i]
    <2> DEFINE reach == Reach(img)
    <2>1. k - 1 \in 0 .. n
        BY <1>1
    <2>2. d[k - 1] \in [0 .. reach - 1 -> Unit] /\ d[k] = Relocate(d[k - 1], rs[k], delta, img.size)
        BY <1>2, <2>1, PlacesOfImage DEF Filled
    <2>3. rs[k] \in Entry /\ reach \in Nat /\ reach >= img.size + 2 /\ places = 0 .. reach - 1
        BY <1>3, PlacesOfImage
    <2> HIDE DEF rs, reach, places
    <2>4. ASSUME NEW x \in [0 .. reach - 1 -> Unit], NEW e \in Entry
          PROVE  /\ e.pos + 2 <= img.size /\ Units(e.type) > 0 =>
                      /\ WordOf(e) \subseteq 0 .. reach - 1
                      /\ \A u \in Parts(Units(e.type)) :
                            Word(Relocate(x, e, delta, img.size), e.pos, u)
                               = (Word(x, e.pos, u) + Distance(e, delta)) % Power(u)
                 /\ \A i \in 0 .. reach - 1 :
                       e.pos + 2 > img.size \/ i \notin WordOf(e) => Relocate(x, e, delta, img.size)[i] = x[i]
        BY <1>1, <2>3, <2>4, RelocateEntry
    <2>5. inside(k) \/ rs[k].pos + 2 > img.size
        BY <1>1, <2>3 DEF Entry
    <2> QED BY <2>2, <2>3, <2>4, <2>5
\* A part of a word is in the places of the word.
<1>5. ASSUME NEW k \in 1 .. n, NEW u \in parts(k), NEW x, NEW y, \A i \in WordOf(rs[k]) : x[i] = y[i]
      PROVE  word(x, k, u) = word(y, k, u) /\ sum(x, k, u) = sum(y, k, u)
    <2> DEFINE p == rs[k].pos
    <2> DEFINE units == Units(rs[k].type)
    <2>1. p \in Nat /\ rs[k].type \in Nat
        BY <1>3 DEF Entry
    <2>2. units \in {1, 2, 4} /\ u \in Parts(units)
        BY <1>5, <2>1, UnitsOfTypes
    <2>3. \A i \in p .. p + units - 1 : x[i] = y[i]
        BY <1>5 DEF WordOf
    <2> HIDE DEF p, units
    <2>4. u \in 1 .. 4 /\ u <= units
        BY <2>2 DEF Parts
    <2>5. \A i \in p .. p + u - 1 : x[i] = y[i]
        BY <2>1, <2>2, <2>3, <2>4
    <2>6. Word(x, p, u) = Word(y, p, u)
        BY <2>1, <2>4, <2>5, SameWord
    <2> QED BY <2>6 DEF p
<1> DEFINE P == {k \in 0 .. n :
        /\ \A j \in 1 .. n : inside(j) /\ (\A h \in 1 .. n : apart(h, j)) =>
              \A u \in parts(j) :
                 IF j <= k THEN word(d[k], j, u) = sum(m, j, u) ELSE \A i \in WordOf(rs[j]) : d[k][i] = m[i]
        /\ \A i \in places : (\A j \in 1 .. n : inside(j) => i \notin WordOf(rs[j])) => d[k][i] = m[i]}
<1> HIDE DEF rs, inside, parts, places, word, sum
<1>6. 0 \in P
    BY <1>1, <1>2
<1>7. ASSUME NEW k \in 1 .. n, k - 1 \in P PROVE k \in P
    <2>1. k \in 0 .. n
        BY <1>1
    <2>2. ASSUME NEW j \in 1 .. n, inside(j), \A h \in 1 .. n : apart(h, j), NEW u \in parts(j)
          PROVE  IF j <= k THEN word(d[k], j, u) = sum(m, j, u)
                 ELSE \A i \in WordOf(rs[j]) : d[k][i] = m[i]
        <3>1. IF j <= k - 1 THEN word(d[k - 1], j, u) = sum(m, j, u)
              ELSE \A i \in WordOf(rs[j]) : d[k - 1][i] = m[i]
            BY <1>7, <2>2
        <3>2. CASE j = k
            <4>1. \A i \in WordOf(rs[k]) : d[k - 1][i] = m[i]
                BY <3>1, <3>2
            <4>2. sum(d[k - 1], k, u) = sum(m, k, u)
                BY <1>5, <2>2, <3>2, <4>1
            <4>3. word(d[k], k, u) = sum(d[k - 1], k, u)
                BY <1>4, <2>2, <3>2
            <4> QED BY <3>2, <4>2, <4>3
        <3>3. CASE j # k
            <4>1. \A i \in WordOf(rs[j]) : i \in places /\ (~ inside(k) \/ i \notin WordOf(rs[k]))
                <5>1. WordOf(rs[j]) \subseteq places
                    BY <1>4, <2>2
                <5>2. inside(k) => WordOf(rs[k]) \cap WordOf(rs[j]) = {}
                    BY <2>2, <3>3
                <5> QED BY <5>1, <5>2
            <4>2. \A i \in WordOf(rs[j]) : d[k][i] = d[k - 1][i]
                BY <1>4, <4>1
            <4>3. word(d[k], j, u) = word(d[k - 1], j, u)
                BY <1>5, <2>2, <4>2
            <4>4. j <= k <=> j <= k - 1
                BY <3>3
            <4> QED BY <3>1, <4>2, <4>3, <4>4
        <3> QED BY <3>2, <3>3
    <2>3. ASSUME NEW i \in places, \A j \in 1 .. n : inside(j) => i \notin WordOf(rs[j])
          PROVE  d[k][i] = m[i]
        <3>1. d[k - 1][i] = m[i]
            BY <1>7, <2>3
        <3>2. d[k][i] = d[k - 1][i]
            BY <1>4, <2>3
        <3> QED BY <3>1, <3>2
    <2> QED BY <2>1, <2>2, <2>3
<1>8. n \in P
    <2> HIDE DEF P
    <2>1. \A k \in 0 .. n : k \in P
        BY <1>1, <1>6, <1>7, Induction
    <2> QED BY <1>1, <2>1
<1>9. /\ \A j \in 1 .. n : inside(j) /\ (\A h \in 1 .. n : apart(h, j)) =>
            \A u \in parts(j) : word(d[n], j, u) = sum(m, j, u)
      /\ \A i \in places : (\A j \in 1 .. n : inside(j) => i \notin WordOf(rs[j])) => d[n][i] = m[i]
    BY <1>8
<1> QED BY <1>9 DEF n, d, rs, inside, parts, places, word, sum

\* What Load makes of a file, for the place the image has, of memory that Zero has cleared.
LEMMA Relocated ==
    ASSUME NEW img \in Images, NEW a \in Addresses, NEW m \in Filled(img),
           \A i \in 0 .. img.size - 1 : m[i] = 0
    PROVE  LET made == ApplyRelocations(img, a, LoadSections(img, CopyHeader(img, m)))
               content == [i \in 0 .. img.size - 1 |-> ContentAt(img, i)]
           IN  /\ \A k \in Applied(img, a) :
                     LET e == img.relocations[k]
                         n == Inside(img, e)
                     IN  n > 0 /\ Alone(img, a, k) =>
                            /\ e.pos \in Nat /\ n \in 1 .. 4
                            /\ Word(made, e.pos, n) =
                                  (Word(content, e.pos, n) + Distance(e, a - img.base)) % Power(n)
               /\ \A i \in (0 .. img.size - 1) \ Moved(img, a) : made[i] = content[i]
<1> DEFINE loaded == LoadSections(img, CopyHeader(img, m))
<1> DEFINE made == ApplyRelocations(img, a, loaded)
<1> DEFINE content == [i \in 0 .. img.size - 1 |-> ContentAt(img, i)]
<1> DEFINE delta == a - img.base
<1> DEFINE rs == img.relocations
<1> DEFINE last == Len(rs)
<1>1. loaded \in Filled(img) /\ \A i \in 0 .. img.size - 1 : loaded[i] = content[i]
    BY ContentLoaded, ImageType
<1>2. delta \in Int /\ img.size \in Nat
    BY ImageTypes, SpaceAssumption DEF Addresses
<1>3. DOMAIN rs = 1 .. last /\ \A k \in 1 .. last : rs[k] \in Entry
    BY ImageTypes
<1>4. 0 .. img.size - 1 \subseteq Places(img)
    BY PlacesOfImage
<1>5. made = IF img.pe /\ a # img.base THEN Done(img, loaded, delta)[last] ELSE loaded
    BY ApplyDone
<1>6. CASE ~ (img.pe /\ a # img.base)
    <2>1. made = loaded /\ Applied(img, a) = {}
        BY <1>5, <1>6 DEF Applied
    <2> QED BY <1>1, <2>1 DEF Moved
<1>7. CASE img.pe /\ a # img.base
    <2> DEFINE w == Done(img, loaded, delta)[last]
    <2>1. Applied(img, a) = {k \in 1 .. last : rs[k].pos + 2 <= img.size}
        BY <1>3, <1>7 DEF Applied
    <2>2. /\ \A k \in 1 .. last :
                rs[k].pos + 2 <= img.size /\ Units(rs[k].type) > 0 /\ (\A j \in 1 .. last :
                       j # k /\ rs[j].pos + 2 <= img.size => WordOf(rs[j]) \cap WordOf(rs[k]) = {})
                   => \A u \in Parts(Units(rs[k].type)) :
                         Word(w, rs[k].pos, u) = (Word(loaded, rs[k].pos, u) + Distance(rs[k], delta)) % Power(u)
          /\ \A i \in Places(img) :
                (\A k \in 1 .. last : rs[k].pos + 2 <= img.size => i \notin WordOf(rs[k])) => w[i] = loaded[i]
        <3> HIDE DEF loaded, delta
        <3> QED BY <1>1, <1>2, WordsRelocated
    <2>3. made = w
        BY <1>5, <1>7
    <2> HIDE DEF w, rs, last, made, content, loaded, delta
    <2>4. ASSUME NEW k \in Applied(img, a), Inside(img, rs[k]) > 0, Alone(img, a, k)
          PROVE  /\ rs[k].pos \in Nat /\ Inside(img, rs[k]) \in 1 .. 4
                 /\ Word(w, rs[k].pos, Inside(img, rs[k]))
                       = (Word(content, rs[k].pos, Inside(img, rs[k])) + Distance(rs[k], delta))
                            % Power(Inside(img, rs[k]))
        <3> DEFINE p == rs[k].pos
        <3> DEFINE units == Units(rs[k].type)
        <3> DEFINE n == Inside(img, rs[k])
        <3>1. k \in 1 .. last /\ p + 2 <= img.size /\ p \in Nat /\ rs[k].type \in Nat
            BY <1>3, <2>1 DEF Entry
        <3>2. units \in {0, 1, 2, 4}
            BY <3>1, UnitsOfTypes
        <3>3. n = IF p + units <= img.size THEN units ELSE img.size - p
            BY DEF Inside
        <3>4. \A j \in 1 .. last :
                 j # k /\ rs[j].pos + 2 <= img.size => WordOf(rs[j]) \cap WordOf(rs[k]) = {}
            BY <2>1, <2>4 DEF Alone, rs
        <3>5. n > 0
            BY <2>4
        <3> HIDE DEF p, units, n
        <3>6. units > 0 /\ n \in 1 .. 4 /\ n \in Parts(units) /\ p + n <= img.size
            BY <1>2, <3>1, <3>2, <3>3, <3>5 DEF Parts
        <3>7. Word(w, p, n) = (Word(loaded, p, n) + Distance(rs[k], delta)) % Power(n)
            BY <2>2, <3>1, <3>4, <3>6 DEF p, units
        <3>8. Word(loaded, p, n) = Word(content, p, n)
            <4>1. \A i \in p .. p + n - 1 : loaded[i] = content[i]
                BY <1>1, <1>2, <3>1, <3>6
            <4> QED BY <3>1, <3>6, <4>1, SameWord
        <3> QED BY <3>1, <3>6, <3>7, <3>8 DEF p, n
    <2>5. ASSUME NEW i \in 0 .. img.size - 1, i \notin Moved(img, a) PROVE w[i] = content[i]
        <3>1. \A k \in 1 .. last : rs[k].pos + 2 <= img.size => i \notin WordOf(rs[k])
            BY <2>1, <2>5 DEF Moved, rs
        <3> QED BY <1>1, <1>4, <2>2, <3>1
    <2> QED BY <2>3, <2>4, <2>5 DEF made, content, rs, delta, loaded
<1> QED BY <1>6, <1>7

-----------------------------------------------------------------------------
(* The address space. *)

\* Mapped images lie in the address space, and what belongs to a loader is in its mapping.
Space == 
    /\ \A l \in Loaders : Mapped(l) =>
          phase[l] = "loaded" /\ file[l].size > 0 /\ Fits(ptr[l], file[l].size)
    /\ \A l \in Loaders : phase[l] # "none" => file[l] \in Images
    /\ \A a \in Addresses : owner[a] \in Loaders =>
          Mapped(owner[a]) /\ IsWithinMapping(owner[a], a)

\* What a loader has mapped and nobody else had then, it has alone: the rest of the
\* process does not even believe to have it.  On Windows its beliefs are right.
Apart ==
    /\ \A l \in Loaders : Mapped(l) =>
          \A x \in Addresses \ contested : IsWithinMapping(l, x) => owner[x] = l /\ held[x] = 0
    /\ platform = "win32" =>
          contested = {} /\ \A x \in Addresses : held[x] = IF owner[x] = Process THEN 1 ELSE 0

SpaceInv == TypeOK /\ Space /\ Apart

LEMMA SizeType ==
    ASSUME SpaceInv, NEW l \in Loaders, Mapped(l)
    PROVE  file[l] \in Images /\ file[l].size \in Nat
<1>1. file[l] \in Images
    BY DEF SpaceInv, Space
<1> QED BY <1>1, ImageTypes

LEMMA SpaceInitially == Init => SpaceInv
<1> SUFFICES ASSUME Init PROVE SpaceInv
    OBVIOUS
<1>1. TypeOK
    <2>1. 0 \in Unit
        BY SpaceAssumption DEF Unit
    <2>2. held \in [Addresses -> 0 .. MaxHeld]
        BY MaxHeldAssumption DEF Init
    <2> QED BY <2>1, <2>2 DEF Init, TypeOK
<1>2. \A l \in Loaders : ~ Mapped(l)
    BY DEF Init, Mapped
<1>3. \A a \in Addresses : owner[a] \notin Loaders
    BY NobodyAssumption DEF Init
<1>4. contested = {} /\ \A x \in Addresses : held[x] = IF owner[x] = Process THEN 1 ELSE 0
    BY DEF Init
<1>5. \A l \in Loaders : phase[l] = "none"
    BY DEF Init
<1> QED BY <1>1, <1>2, <1>3, <1>4, <1>5 DEF SpaceInv, Space, Apart

\* A step that leaves the mappings alone, and the addresses that only a loader has.
LEMMA OthersSpace ==
    ASSUME SpaceInv, TypeOK', UNCHANGED <<platform, ptr, contested>>,
           \A l \in Loaders : Mapped(l) => phase'[l] = phase[l] /\ file'[l] = file[l],
           \A l \in Loaders : phase'[l] # "none" => file'[l] \in Images,
           \A a \in Addresses : owner'[a] \in Loaders => owner'[a] = owner[a],
           \A l \in Loaders : \A a \in Addresses :
              owner[a] = l /\ held[a] = 0 => owner'[a] = l /\ held'[a] = 0,
           platform = "win32" => \A x \in Addresses : held'[x] = IF owner'[x] = Process THEN 1 ELSE 0
    PROVE  SpaceInv'
<1>1. \A l \in Loaders : Mapped(l)' = Mapped(l)
    BY DEF Mapped
<1>2. \A l \in Loaders : Mapped(l) => \A x : IsWithinMapping(l, x)' = IsWithinMapping(l, x)
    BY DEF IsWithinMapping
<1>3. \A l \in Loaders : Mapped(l)' => phase'[l] = "loaded" /\ file'[l].size > 0 /\ Fits(ptr'[l], file'[l].size)
    BY <1>1 DEF SpaceInv, Space
<1>4. ASSUME NEW a \in Addresses, NEW l \in Loaders, owner'[a] = l
      PROVE  Mapped(l)' /\ IsWithinMapping(l, a)'
    <2>1. Mapped(l) /\ IsWithinMapping(l, a)
        BY <1>4 DEF SpaceInv, Space
    <2> QED BY <1>1, <1>2, <2>1
<1>5. \A l \in Loaders : Mapped(l)' =>
        \A x \in Addresses \ contested' : IsWithinMapping(l, x)' => owner'[x] = l /\ held'[x] = 0
    BY <1>1, <1>2 DEF SpaceInv, Apart
<1>6. platform' = "win32" =>
        contested' = {} /\ \A x \in Addresses : held'[x] = IF owner'[x] = Process THEN 1 ELSE 0
    BY DEF SpaceInv, Apart
<1>7. Space'
    BY <1>3, <1>4 DEF Space, Mapped, IsWithinMapping
<1>8. Apart'
    BY <1>5, <1>6 DEF Apart
<1> QED BY <1>7, <1>8 DEF SpaceInv

\* What Map returns lies in the address space, and VirtualAlloc takes only what nobody has.
LEMMA MapFits ==
    ASSUME TypeOK, NEW base \in Addresses, NEW size \in Nat \ {0}, NEW a \in Map(base, size) \ {Null}
    PROVE  /\ a \in Addresses /\ Fits(a, size)
           /\ platform = "win32" => \A x \in Extent(a, size) : owner[x] = Free
BY DEF Map, Win32AtBase, PosixAtBase, Unused

\* An image that is mapped and perhaps unmapped at once, over whatever is there: `who' has
\* its addresses now.
LEMMA MappedSpace ==
    ASSUME SpaceInv, TypeOK', NEW l \in Loaders, ~ Mapped(l), NEW a \in Addresses,
           file[l] \in Images, file[l].size \in Nat \ {0}, Fits(a, file[l].size),
           platform = "win32" => \A x \in Extent(a, file[l].size) : owner[x] = Free,
           UNCHANGED <<platform, file, held>>,
           NEW who \in {Free, l},
           owner' = [x \in Addresses |-> IF x \in Extent(a, file[l].size) THEN who ELSE owner[x]],
           who = l => phase'[l] = "loaded",
           \A m \in Loaders \ {l} : phase'[m] = phase[m],
           IF who = l THEN ptr' = [ptr EXCEPT ![l] = a] ELSE ptr' = ptr,
           contested' = (contested \ Extent(a, file[l].size)) \cup (Extent(a, file[l].size) \cap Claimed(l))
    PROVE  SpaceInv'
<1> DEFINE here == Extent(a, file[l].size)
<1>1. TypeOK /\ Space /\ Apart
    BY DEF SpaceInv
<1>2. Free \notin Loaders /\ Process \notin Loaders /\ Process # Free /\ here \subseteq Addresses
    BY NobodyAssumption DEF Fits
<1>3. \A m \in Loaders \ {l} : /\ Mapped(m)' = Mapped(m)
                                /\ \A x : IsWithinMapping(m, x)' = IsWithinMapping(m, x)
    BY <1>1 DEF Mapped, IsWithinMapping, TypeOK
<1>4. Mapped(l)' <=> who = l
    BY <1>1, <1>2, NobodyAssumption DEF Mapped, TypeOK
<1>5. who = l => \A x \in Addresses : IsWithinMapping(l, x)' <=> x \in here
    BY <1>1 DEF IsWithinMapping, TypeOK, Addresses, Extent
<1>6. \A m \in Loaders \ {l} : \A x \in here :
        Mapped(m) /\ IsWithinMapping(m, x) => x \in contested'
    BY <1>2 DEF Claimed, MappedBesides
<1>7. \A x \in here : x \notin contested' => held[x] = 0
    BY <1>1, <1>2 DEF Claimed, TypeOK
<1>8. \A x \in Addresses \ here : x \in contested' <=> x \in contested
    OBVIOUS
<1>9. ASSUME platform = "win32" PROVE \A x \in here : held[x] = 0 /\ x \notin Claimed(l)
    <2> SUFFICES ASSUME NEW x \in here PROVE held[x] = 0 /\ x \notin Claimed(l)
        OBVIOUS
    <2>1. x \in Addresses /\ owner[x] = Free /\ held[x] = 0 /\ contested = {}
        BY <1>1, <1>2, <1>9 DEF Apart
    <2>2. x \notin MappedBesides(l)
        BY <1>1, <1>2, <2>1 DEF Apart, MappedBesides
    <2> QED BY <2>1, <2>2 DEF Claimed
<1>10. platform' = "win32" => contested' = {}
    BY <1>1, <1>9 DEF Apart
<1>11. \A x \in Addresses : owner'[x] = IF x \in here THEN who ELSE owner[x]
    OBVIOUS
<1>12. who # Process
    BY <1>2
<1> HIDE DEF here
<1>13. platform' = "win32" => \A x \in Addresses : held'[x] = IF owner'[x] = Process THEN 1 ELSE 0
    BY <1>1, <1>9, <1>11, <1>12 DEF Apart
<1>14. \A m \in Loaders : Mapped(m)' => phase'[m] = "loaded" /\ file'[m].size > 0 /\ Fits(ptr'[m], file'[m].size)
    BY <1>1, <1>3, <1>4 DEF Space, TypeOK, Mapped
<1>15. \A m \in Loaders : phase'[m] # "none" => file'[m] \in Images
    BY <1>1 DEF Space
<1>16. ASSUME NEW x \in Addresses, NEW m \in Loaders, owner'[x] = m
       PROVE  Mapped(m)' /\ IsWithinMapping(m, x)'
    <2>1. CASE x \in here
        BY <1>2, <1>4, <1>5, <1>11, <1>16, <2>1
    <2>2. CASE x \notin here
        <3>1. owner[x] = m
            BY <1>11, <1>16, <2>2
        <3>2. Mapped(m) /\ IsWithinMapping(m, x)
            BY <1>1, <3>1 DEF Space
        <3> QED BY <1>3, <3>2
    <2> QED BY <2>1, <2>2
<1>17. ASSUME NEW m \in Loaders, Mapped(m)', NEW x \in Addresses \ contested', IsWithinMapping(m, x)'
       PROVE  owner'[x] = m /\ held'[x] = 0
    <2>1. CASE m = l
        BY <1>4, <1>5, <1>7, <1>11, <1>17, <2>1
    <2>2. CASE m # l
        <3>1. Mapped(m) /\ IsWithinMapping(m, x)
            BY <1>3, <1>17, <2>2
        <3>2. x \notin here
            BY <1>6, <1>17, <2>2, <3>1
        <3>3. x \notin contested
            BY <1>8, <3>2
        <3> QED BY <1>1, <1>11, <3>1, <3>2, <3>3 DEF Apart
    <2> QED BY <2>1, <2>2
<1>18. Space'
    BY <1>14, <1>15, <1>16 DEF Space
<1>19. Apart'
    BY <1>10, <1>13, <1>17 DEF Apart
<1> QED BY <1>18, <1>19 DEF SpaceInv

\* The addresses a loader's mapping gives back are in no other mapping that has them alone,
\* and they are all it has.
LEMMA UnmappedIsOwn ==
    ASSUME SpaceInv, NEW l \in Loaders, Mapped(l)
    PROVE  /\ \A x \in Unmapped(ptr[l], file[l].size) : \A m \in Loaders \ {l} :
                 x \in Addresses /\ (Mapped(m) /\ IsWithinMapping(m, x) => x \in contested)
           /\ \A x \in Addresses : owner[x] = l => x \in Unmapped(ptr[l], file[l].size)
<1>0. TypeOK /\ Space /\ Apart
    BY DEF SpaceInv
<1>1. Mapped(l) /\ l \in Loaders
    OBVIOUS
<1>2. ptr[l] \in Addresses /\ file[l].size \in Nat
    BY <1>0, <1>1, SizeType DEF Mapped, TypeOK
<1>3. IsWithinMapping(l, ptr[l])
    BY <1>0, <1>1, <1>2, SpaceAssumption DEF IsWithinMapping, Addresses, Space
<1>4. CASE platform = "win32"
    <2>1. owner[ptr[l]] = l /\ contested = {}
        BY <1>0, <1>1, <1>2, <1>3, <1>4 DEF Apart
    <2>2. Unmapped(ptr[l], file[l].size) = {x \in Addresses : owner[x] = l}
        BY <1>4, <2>1 DEF Unmapped
    <2>3. ASSUME NEW x \in Addresses, NEW m \in Loaders \ {l}, owner[x] = l
          PROVE  ~ (Mapped(m) /\ IsWithinMapping(m, x))
        BY <1>0, <2>1, <2>3 DEF Apart
    <2> QED BY <2>2, <2>3
<1>5. CASE platform # "win32"
    <2>1. \A x : x \in Unmapped(ptr[l], file[l].size) <=> x \in Addresses /\ IsWithinMapping(l, x)
        BY <1>2, <1>5 DEF Unmapped, Extent, IsWithinMapping, Addresses
    <2>2. ASSUME NEW x \in Addresses, NEW m \in Loaders \ {l}, IsWithinMapping(l, x), 
                 Mapped(m), IsWithinMapping(m, x), x \notin contested
          PROVE  FALSE
        <3>1. owner[x] = l
            BY <1>0, <1>1, <2>2 DEF Apart
        <3>2. owner[x] = m
            BY <1>0, <2>2 DEF Apart
        <3> QED BY <3>1, <3>2
    <2>3. \A x \in Addresses : owner[x] = l => IsWithinMapping(l, x)
        BY <1>0, <1>1 DEF Space
    <2> QED BY <2>1, <2>2, <2>3
<1> QED BY <1>4, <1>5

\* The destructor frees the addresses its loader has, and none that another has alone.
LEMMA DestroySpace ==
    ASSUME SpaceInv, TypeOK', NEW l \in Loaders, Destroy(l)
    PROVE  SpaceInv'
<1> DEFINE gone == IF Mapped(l) THEN Unmapped(ptr[l], file[l].size) ELSE {}
<1>1. TypeOK /\ Space /\ Apart
    BY DEF SpaceInv
<1>2. /\ owner' = [x \in Addresses |-> IF x \in gone THEN Free ELSE owner[x]]
      /\ ptr' = [ptr EXCEPT ![l] = Null] /\ phase' = [phase EXCEPT ![l] = "none"]
      /\ file' = [file EXCEPT ![l] = Null]
      /\ contested' = contested \cap MappedBesides(l) /\ UNCHANGED <<platform, held>>
    BY DEF Destroy
<1>3. \A m \in Loaders \ {l} : /\ Mapped(m)' = Mapped(m) /\ ptr'[m] = ptr[m]
                                /\ phase'[m] = phase[m] /\ file'[m] = file[m]
                                /\ \A x : IsWithinMapping(m, x)' = IsWithinMapping(m, x)
    BY <1>1, <1>2 DEF Mapped, IsWithinMapping, TypeOK
<1>4. ~ Mapped(l)' /\ phase'[l] = "none"
    BY <1>1, <1>2 DEF Mapped, TypeOK
<1>5. \A x \in Addresses : owner[x] = l => x \in gone
    BY <1>1, UnmappedIsOwn DEF Space
<1>6. \A x \in gone : \A m \in Loaders \ {l} :
        x \in Addresses /\ (Mapped(m) /\ IsWithinMapping(m, x) => x \in contested)
    BY UnmappedIsOwn
\* On Windows, only its own.
<1>7. platform = "win32" => \A x \in gone : owner[x] # Process
    BY NobodyAssumption DEF Unmapped
<1> HIDE DEF gone
<1>8. Space'
    <2>1. \A m \in Loaders : Mapped(m)' => phase'[m] = "loaded" /\ file'[m].size > 0 /\ Fits(ptr'[m], file'[m].size)
        BY <1>1, <1>3, <1>4 DEF Space
    <2>2. \A m \in Loaders : phase'[m] # "none" => file'[m] \in Images
        BY <1>1, <1>3, <1>4 DEF Space
    <2>3. ASSUME NEW x \in Addresses, owner'[x] \in Loaders
          PROVE  owner'[x] = owner[x] /\ owner[x] # l
        BY <1>2, <1>5, <2>3, NobodyAssumption
    <2>4. ASSUME NEW x \in Addresses, NEW m \in Loaders, owner'[x] = m
          PROVE  Mapped(m)' /\ IsWithinMapping(m, x)'
        BY <1>1, <1>3, <2>3, <2>4 DEF Space
    <2> QED BY <2>1, <2>2, <2>4 DEF Space
<1>9. Apart'
    <2>1. ASSUME NEW m \in Loaders, Mapped(m)', NEW x \in Addresses \ contested', IsWithinMapping(m, x)'
          PROVE  owner'[x] = m /\ held'[x] = 0
        <3>1. m # l /\ Mapped(m) /\ IsWithinMapping(m, x)
            BY <1>3, <1>4, <2>1
        <3>2. x \notin contested
            BY <1>2, <2>1, <3>1 DEF MappedBesides
        <3>3. x \notin gone
            BY <1>6, <3>1, <3>2
        <3> QED BY <1>1, <1>2, <3>1, <3>2, <3>3 DEF Apart
    <2>2. ASSUME platform' = "win32", NEW x \in Addresses
          PROVE  held'[x] = IF owner'[x] = Process THEN 1 ELSE 0
        BY <1>1, <1>2, <1>7, <2>2, NobodyAssumption DEF Apart
    <2>3. platform' = "win32" => contested' = {}
        BY <1>1, <1>2 DEF Apart
    <2> QED BY <2>1, <2>2, <2>3 DEF Apart
<1> QED BY <1>8, <1>9 DEF SpaceInv

\* What is behind an image are places too, and so is what Load writes there.
LEMMA PlacesBehind ==
    ASSUME NEW img \in Images, NEW a
    PROVE  HeaderPast(img) \subseteq Places(img) /\ WordsPast(img, a) \subseteq Places(img)
<1>1. img.size \in Nat /\ Len(img.header) \in Nat
    BY ImageTypes
<1>2. HeaderPast(img) \subseteq Places(img)
    BY <1>1 DEF HeaderPast, Places
<1>3. ASSUME NEW k \in Applied(img, a) PROVE WordOf(img.relocations[k]) \subseteq Places(img)
    <2>1. k \in 1 .. Len(img.relocations) /\ img.relocations[k].pos + 2 <= img.size
        BY <1>3, ImageTypes DEF Applied
    <2>2. img.relocations[k].pos \in Nat /\ img.relocations[k].type \in Nat
        BY <2>1, ImageTypes DEF Entry
    <2>3. Units(img.relocations[k].type) \in {0, 1, 2, 4}
        BY <2>2, UnitsOfTypes
    <2>4. WordOf(img.relocations[k])
             = img.relocations[k].pos .. img.relocations[k].pos + Units(img.relocations[k].type) - 1
        BY DEF WordOf
    <2> DEFINE p == img.relocations[k].pos
    <2> DEFINE n == Units(img.relocations[k].type)
    <2>5. p .. p + n - 1 \subseteq 0 .. img.size + 1
        <3> HIDE DEF p, n
        <3>1. p \in Nat /\ n \in {0, 1, 2, 4} /\ p + 2 <= img.size
            BY <2>1, <2>2, <2>3 DEF p, n
        <3> QED BY <1>1, <3>1
    <2>6. 0 .. img.size + 1 \subseteq Places(img)
        BY <1>1 DEF Places
    <2> QED BY <2>4, <2>5, <2>6
<1> QED BY <1>2, <1>3 DEF WordsPast, Moved

\* The memory an image is written into, before it is filled.
Started(img) == {m \in Filled(img) : \A i \in 0 .. img.size - 1 : m[i] = 0}

LEMMA ZeroedType ==
    ASSUME TypeOK, NEW img \in Images, NEW a \in Addresses
    PROVE  Zeroed(img, a) \in Started(img)
<1>1. Zeroed(img, a) \in Filled(img)
    <2>1. 0 \in Unit
        BY BaseType DEF Unit
    <2> QED BY <2>1 DEF Zeroed, Filled, TypeOK
<1>2. \A i \in 0 .. img.size - 1 : Zeroed(img, a)[i] = 0
    BY PlacesOfImage, ImageTypes DEF Zeroed
<1> QED BY <1>1, <1>2 DEF Started

\* Fill writes units.
LEMMA FillType ==
    ASSUME TypeOK, NEW l \in Loaders, NEW a \in Addresses, file[l] \in Images,
           NEW image \in Filled(file[l]), NEW past, past \subseteq Places(file[l]),
           Fill(l, a, image, past)
    PROVE  /\ memory' \in [Addresses -> Unit]
           /\ contested' \subseteq Addresses /\ spoiled' \subseteq Addresses
<1> DEFINE here == Extent(a, file[l].size)
<1> DEFINE there == {x \in Addresses : x \in here \/ (x - a \in past /\ owner[x] # Free)}
<1>1. memory' = [x \in Addresses |-> IF x \in there THEN image[x - a] ELSE memory[x]]
    BY DEF Fill
<1>2. a \in Int /\ file[l].size \in Int /\ \A x \in Addresses : x \in Int
    BY ImageTypes, SpaceAssumption DEF Addresses
<1>3. \A x \in here : x - a \in 0 .. file[l].size - 1
    BY <1>2 DEF Extent
<1>4. \A x \in there : x - a \in Places(file[l])
    BY <1>3, PlacesOfImage
<1>5. \A x \in there : image[x - a] \in Unit
    <2> HIDE DEF there
    <2> QED BY <1>4 DEF Filled
<1> HIDE DEF there
<1>6. memory' \in [Addresses -> Unit]
    BY <1>1, <1>5 DEF TypeOK
<1>7. Claimed(l) \subseteq Addresses
    BY DEF Claimed, MappedBesides
<1> QED BY <1>6, <1>7 DEF Fill, TypeOK

LEMMA LoadType ==
    ASSUME SpaceInv, NEW l \in Loaders, Load(l)
    PROVE  TypeOK'
<1> DEFINE img == file[l]
<1>1. TypeOK /\ img \in Images
    BY DEF SpaceInv, Space, Load
<1>2. img.base \in Addresses /\ img.size \in Nat
    BY <1>1, ImageTypes
<1>3. CASE Fail(l)
    BY <1>1, <1>3 DEF Fail, marks, TypeOK
<1>4. ASSUME NEW a \in Addresses, Withdraw(l, a) PROVE TypeOK'
    <2> DEFINE image == [i \in Places(img) |-> IF i < img.size THEN 0 ELSE CopyHeader(img, Zeroed(img, a))[i]]
    <2>1. image \in Filled(img)
        <3>1. 0 \in Unit
            BY BaseType DEF Unit
        <3>2. CopyHeader(img, Zeroed(img, a)) \in Filled(img)
            BY <1>1, HeaderType, ZeroedType DEF Started
        <3> QED BY <3>1, <3>2 DEF Filled
    <2>2. Fill(l, a, image, HeaderPast(img))
        BY <1>4 DEF Withdraw
    <2> HIDE DEF image
    <2>3. /\ memory' \in [Addresses -> Unit]
          /\ contested' \subseteq Addresses /\ spoiled' \subseteq Addresses
        BY <1>1, <2>1, <2>2, FillType, PlacesBehind
    <2> QED BY <1>1, <1>4, <2>3 DEF Withdraw, TypeOK
<1>5. ASSUME NEW a \in Addresses, Succeed(l, a) PROVE TypeOK'
    <2> DEFINE image == ApplyRelocations(img, a, LoadSections(img, CopyHeader(img, Zeroed(img, a))))
    <2>1. image \in Filled(img)
        BY <1>1, ImageType, ZeroedType DEF Started
    <2>2. Fill(l, a, image, HeaderPast(img) \cup WordsPast(img, a))
        BY <1>5 DEF Succeed
    <2>3. HeaderPast(img) \cup WordsPast(img, a) \subseteq Places(img)
        BY <1>1, PlacesBehind
    <2> HIDE DEF image
    <2>4. /\ memory' \in [Addresses -> Unit]
          /\ contested' \subseteq Addresses /\ spoiled' \subseteq Addresses
        BY <1>1, <2>1, <2>2, <2>3, FillType
    <2> QED BY <1>1, <1>5, <2>4 DEF Succeed, TypeOK
<1>6. ASSUME NEW a \in Map(img.base, img.size) \ {Null}, img.size > 0
      PROVE  a \in Addresses
    BY <1>1, <1>2, <1>6, MapFits
<1> QED BY <1>3, <1>4, <1>5, <1>6 DEF Load

LEMMA TypeStep == SpaceInv /\ [Next]_vars => TypeOK'
<1> SUFFICES ASSUME SpaceInv, [Next]_vars PROVE TypeOK'
    OBVIOUS
<1>0. TypeOK
    BY DEF SpaceInv
<1>1. 0 \in Unit
    BY SpaceAssumption DEF Unit
<1>2. ASSUME NEW l \in Loaders, Create(l) PROVE TypeOK'
    BY <1>0, <1>2 DEF Create, marks, TypeOK
<1>3. ASSUME NEW l \in Loaders, Destroy(l) PROVE TypeOK'
    BY <1>0, <1>1, <1>3 DEF Destroy, TypeOK
\* Another belief to have an address is one within the bound.
<1>8. ASSUME NEW b \in Addresses, NEW h \in 0 .. MaxHeld, held' = [held EXCEPT ![b] = h]
      PROVE  held' \in [Addresses -> 0 .. MaxHeld]
    BY <1>0, <1>8 DEF TypeOK
<1>4. CASE ProcessAllocates
    <2>1. PICK b \in Elsewhere : /\ held[b] < MaxHeld
                                /\ owner' = [owner EXCEPT ![b] = Process]
                                /\ held' = [held EXCEPT ![b] = held[b] + 1]
        BY <1>4 DEF ProcessAllocates
    <2>2. b \in Addresses /\ held[b] + 1 \in 0 .. MaxHeld
        <3>1. b \in Addresses
            BY SpaceAssumption
        <3> QED BY <1>0, <2>1, <3>1, MaxHeldAssumption DEF TypeOK
    <2>3. held' \in [Addresses -> 0 .. MaxHeld]
        BY <1>8, <2>1, <2>2
    <2>4. owner' \in [Addresses -> Loaders \cup {Process, Free}]
        BY <1>0, <2>1, <2>2 DEF TypeOK
    <2> QED BY <1>0, <1>4, <2>3, <2>4 DEF ProcessAllocates, marks, loaders, TypeOK
<1>5. CASE ProcessWrites
    BY <1>0, <1>5 DEF ProcessWrites, marks, loaders, TypeOK
<1>6. CASE ProcessFrees
    <2>1. PICK b \in Elsewhere : /\ held[b] > 0
                                /\ owner' = [owner EXCEPT ![b] = Free]
                                /\ held' = [held EXCEPT ![b] = held[b] - 1]
                                /\ memory' = [memory EXCEPT ![b] = 0]
        BY <1>6 DEF ProcessFrees
    <2>2. b \in Addresses /\ held[b] - 1 \in 0 .. MaxHeld
        <3>1. b \in Addresses
            BY SpaceAssumption
        <3> QED BY <1>0, <2>1, <3>1, MaxHeldAssumption DEF TypeOK
    <2>3. held' \in [Addresses -> 0 .. MaxHeld]
        BY <1>8, <2>1, <2>2
    <2>4. owner' \in [Addresses -> Loaders \cup {Process, Free}] /\ memory' \in [Addresses -> Unit]
        BY <1>0, <1>1, <2>1, <2>2 DEF TypeOK
    <2> QED BY <1>0, <1>6, <2>3, <2>4 DEF ProcessFrees, marks, loaders, TypeOK
<1>7. CASE UNCHANGED vars
    BY <1>0, <1>7 DEF vars, marks, loaders, TypeOK
<1> QED BY <1>2, <1>3, <1>4, <1>5, <1>6, <1>7, LoadType DEF Next

LEMMA SpaceStep == SpaceInv /\ [Next]_vars => SpaceInv'
<1> SUFFICES ASSUME SpaceInv, [Next]_vars PROVE SpaceInv'
    OBVIOUS
<1>1. TypeOK /\ Space /\ Apart /\ TypeOK'
    BY TypeStep DEF SpaceInv
<1>0. platform = "win32" => \A x \in Addresses : held[x] = IF owner[x] = Process THEN 1 ELSE 0
    BY <1>1 DEF Apart
<1>2. ASSUME NEW l \in Loaders, Create(l) PROVE SpaceInv'
    <2>1. ~ Mapped(l)
        BY <1>1, <1>2 DEF Create, Space
    <2>2. UNCHANGED <<platform, owner, held, ptr, contested>>
        BY <1>2 DEF Create, marks
    <2>3. \A m \in Loaders : Mapped(m) => phase'[m] = phase[m] /\ file'[m] = file[m]
        BY <1>1, <1>2, <2>1 DEF Create, TypeOK
    <2>4. \A m \in Loaders : phase'[m] # "none" => file'[m] \in Images
        BY <1>1, <1>2 DEF Create, TypeOK, Space
    <2> QED BY <1>0, <1>1, <2>2, <2>3, <2>4, OthersSpace
<1>3. ASSUME NEW l \in Loaders, Load(l) PROVE SpaceInv'
    <2>1. /\ ~ Mapped(l) /\ phase[l] # "none"
          /\ file[l] \in Images /\ file[l].base \in Addresses /\ file[l].size \in Nat
        BY <1>1, <1>3, ImagesAssumption DEF Load, Space, TypeOK
    <2>2. CASE Fail(l)
        <3>1. UNCHANGED <<platform, owner, held, ptr, file, contested>>
            BY <2>2 DEF Fail, marks
        <3>2. \A m \in Loaders : (Mapped(m) => phase'[m] = phase[m]) /\ (phase'[m] # "none" => phase[m] # "none")
            BY <1>1, <2>1, <2>2 DEF Fail, TypeOK
        <3>3. \A m \in Loaders : phase'[m] # "none" => file'[m] \in Images
            BY <1>1, <3>1, <3>2 DEF Space
        <3> QED BY <1>0, <1>1, <3>1, <3>2, <3>3, OthersSpace
    <2>3. ASSUME NEW a \in Map(file[l].base, file[l].size) \ {Null}, file[l].size > 0
          PROVE  /\ a \in Addresses /\ Fits(a, file[l].size)
                 /\ platform = "win32" => \A x \in Extent(a, file[l].size) : owner[x] = Free
        BY <1>1, <2>1, <2>3, MapFits
    <2>4. ASSUME NEW a \in Map(file[l].base, file[l].size) \ {Null}, file[l].size > 0, Withdraw(l, a)
          PROVE  SpaceInv'
        <3>1. Free # l
            BY NobodyAssumption
        <3>2. /\ owner' = [x \in Addresses |-> IF x \in Extent(a, file[l].size) THEN Free ELSE owner[x]]
              /\ ptr' = ptr /\ UNCHANGED <<platform, file, held>>
              /\ contested' = (contested \ Extent(a, file[l].size)) \cup (Extent(a, file[l].size) \cap Claimed(l))
            BY <2>4 DEF Withdraw, Fill
        <3>3. \A m \in Loaders \ {l} : phase'[m] = phase[m]
            BY <1>1, <2>4 DEF Withdraw, TypeOK
        <3> QED BY <1>1, <2>1, <2>3, <2>4, <3>1, <3>2, <3>3, MappedSpace
    <2>5. ASSUME NEW a \in Map(file[l].base, file[l].size) \ {Null}, file[l].size > 0, Succeed(l, a)
          PROVE  SpaceInv'
        <3>1. /\ owner' = [x \in Addresses |-> IF x \in Extent(a, file[l].size) THEN l ELSE owner[x]]
              /\ ptr' = [ptr EXCEPT ![l] = a] /\ UNCHANGED <<platform, file, held>>
              /\ contested' = (contested \ Extent(a, file[l].size)) \cup (Extent(a, file[l].size) \cap Claimed(l))
            BY <2>5 DEF Succeed, Fill
        <3>2. phase'[l] = "loaded" /\ \A m \in Loaders \ {l} : phase'[m] = phase[m]
            BY <1>1, <2>5 DEF Succeed, TypeOK
        <3>3. file[l].size \in Nat \ {0}
            BY <2>1, <2>5
        <3>4. /\ a \in Addresses /\ Fits(a, file[l].size)
              /\ platform = "win32" => \A x \in Extent(a, file[l].size) : owner[x] = Free
            BY <2>3, <2>5
        <3> QED BY <1>1, <2>1, <3>1, <3>2, <3>3, <3>4, MappedSpace
    <2> QED BY <1>3, <2>2, <2>4, <2>5 DEF Load
<1>4. ASSUME NEW l \in Loaders, Destroy(l) PROVE SpaceInv'
    BY <1>1, <1>4, DestroySpace
\* What the rest of the process does to an address it believes to have, or that is free.
<1>5. ASSUME UNCHANGED <<platform, loaders, contested>>, NEW b \in Addresses,
             \A x \in Addresses \ {b} : owner'[x] = owner[x] /\ held'[x] = held[x],
             owner[b] = Free \/ held[b] > 0, owner'[b] = owner[b] \/ owner'[b] \in {Free, Process},
             platform = "win32" => held'[b] = IF owner'[b] = Process THEN 1 ELSE 0
      PROVE  SpaceInv'
    <2>1. UNCHANGED <<platform, ptr, file, phase, contested>>
        BY <1>5 DEF loaders
    <2>2. \A m \in Loaders : phase'[m] # "none" => file'[m] \in Images
        BY <1>1, <2>1 DEF Space
    <2>3. \A x \in Addresses : owner'[x] \in Loaders => owner'[x] = owner[x]
        BY <1>5, NobodyAssumption
    <2>4. \A m \in Loaders : \A x \in Addresses :
             owner[x] = m /\ held[x] = 0 => owner'[x] = m /\ held'[x] = 0
        BY <1>5, NobodyAssumption
    <2>5. platform = "win32" => \A x \in Addresses : held'[x] = IF owner'[x] = Process THEN 1 ELSE 0
        BY <1>0, <1>5
    <2> QED BY <1>1, <2>1, <2>2, <2>3, <2>4, <2>5, OthersSpace
<1>6. CASE ProcessAllocates
    <2>1. PICK b \in Elsewhere : /\ owner[b] = Free /\ held[b] < MaxHeld
                                /\ owner' = [owner EXCEPT ![b] = Process]
                                /\ held' = [held EXCEPT ![b] = held[b] + 1]
        BY <1>6 DEF ProcessAllocates
    <2>2. b \in Addresses /\ UNCHANGED <<platform, loaders, contested>>
        BY <1>6, SpaceAssumption DEF ProcessAllocates, marks
    <2>3. owner'[b] = Process /\ \A x \in Addresses \ {b} : owner'[x] = owner[x] /\ held'[x] = held[x]
        BY <1>1, <2>1, <2>2 DEF TypeOK
    <2>4. platform = "win32" => held'[b] = 1
        BY <1>0, <1>1, <2>1, <2>2, NobodyAssumption DEF TypeOK
    <2> QED BY <1>5, <2>1, <2>2, <2>3, <2>4
<1>7. CASE ProcessWrites
    <2>1. UNCHANGED <<platform, owner, held, ptr, file, phase, contested>>
        BY <1>7 DEF ProcessWrites, loaders, marks
    <2>2. \A m \in Loaders : phase'[m] # "none" => file'[m] \in Images
        BY <1>1, <2>1 DEF Space
    <2> QED BY <1>0, <1>1, <2>1, <2>2, OthersSpace
<1>8. CASE ProcessFrees
    <2>1. PICK b \in Elsewhere : /\ held[b] > 0
                                /\ owner' = [owner EXCEPT ![b] = Free]
                                /\ held' = [held EXCEPT ![b] = held[b] - 1]
        BY <1>8 DEF ProcessFrees
    <2>2. b \in Addresses /\ UNCHANGED <<platform, loaders, contested>>
        BY <1>8, SpaceAssumption DEF ProcessFrees, marks
    <2>3. owner'[b] = Free /\ \A x \in Addresses \ {b} : owner'[x] = owner[x] /\ held'[x] = held[x]
        BY <1>1, <2>1, <2>2 DEF TypeOK
    <2>4. platform = "win32" => held'[b] = 0
        <3>1. platform = "win32" => held[b] = 1
            BY <1>0, <2>1, <2>2
        <3> QED BY <1>1, <2>1, <2>2, <3>1 DEF TypeOK
    <2> QED BY <1>5, <2>1, <2>2, <2>3, <2>4, NobodyAssumption
<1>9. CASE UNCHANGED vars
    <2>1. UNCHANGED <<platform, owner, held, ptr, file, phase, contested>>
        BY <1>9 DEF vars, loaders, marks
    <2>2. \A m \in Loaders : phase'[m] # "none" => file'[m] \in Images
        BY <1>1, <2>1 DEF Space
    <2> QED BY <1>0, <1>1, <2>1, <2>2, OthersSpace
<1> QED BY <1>2, <1>3, <1>4, <1>6, <1>7, <1>8, <1>9 DEF Next

\* For every set of binaries and of loaders, on both platforms and whatever the rest of the
\* process allocates, writes and frees: MemoryMapper::Map and Unmap leave a loader every
\* address it has and that nobody else had when one of them mapped it, which on Windows is
\* every address.
THEOREM MappingsAreOwnedHolds == Spec => []MappingsAreOwned
<1>1. SpaceInv => MappingsAreOwned
    BY DEF SpaceInv, Apart, MappingsAreOwned
<1> QED BY <1>1, SpaceInitially, SpaceStep, PTL DEF Spec

\* Every way out of FileLoader::Load, and the destructor, gives back what was mapped and is
\* not in use: an address a loader has is one its destructor will unmap.
THEOREM NothingLeaksHolds == Spec => []NothingLeaks
<1>1. SpaceInv => NothingLeaks
    BY DEF SpaceInv, Space, NothingLeaks
<1> QED BY <1>1, SpaceInitially, SpaceStep, PTL DEF Spec

-----------------------------------------------------------------------------
(* The images. *)

Made(img, a, m) == ApplyRelocations(img, a, LoadSections(img, CopyHeader(img, m)))
Clean == Addresses \ (contested \cup spoiled)

\* A mapped image is what Load has made of its file in memory that was cleared, at every
\* address that nobody else had and into which no image was written past its end.
ImagesLoaded ==
    \A l \in Loaders : Mapped(l) =>
        \E m \in Started(file[l]) : \A i \in 0 .. file[l].size - 1 :
            ptr[l] + i \in Clean => memory[ptr[l] + i] = Made(file[l], ptr[l], m)[i]

LoadedInv == SpaceInv /\ ImagesLoaded

\* The places of a mapped image are addresses.
LEMMA PlacesMapped ==
    ASSUME SpaceInv, NEW l \in Loaders, Mapped(l)
    PROVE  /\ ptr[l] \in Addresses /\ ptr[l] \in Int /\ file[l].size \in Nat
           /\ \A i \in 0 .. file[l].size - 1 : ptr[l] + i \in Addresses /\ IsWithinMapping(l, ptr[l] + i)
<1>1. TypeOK /\ Fits(ptr[l], file[l].size)
    BY DEF SpaceInv, Space
<1>2. ptr[l] \in Addresses /\ ptr[l] \in Int /\ file[l].size \in Nat
    BY <1>1, SizeType, SpaceAssumption DEF Mapped, TypeOK, Addresses
<1> QED BY <1>1, <1>2 DEF Fits, Extent, IsWithinMapping

\* A step that leaves a mapped image as it is.
LEMMA ImageStays ==
    ASSUME LoadedInv, NEW l \in Loaders, Mapped(l), ptr'[l] = ptr[l], file'[l] = file[l],
           \A x \in Addresses : x \in Clean' /\ IsWithinMapping(l, x) => x \in Clean /\ memory'[x] = memory[x]
    PROVE  \E m \in Started(file'[l]) : \A i \in 0 .. file'[l].size - 1 :
              ptr'[l] + i \in Clean' => memory'[ptr'[l] + i] = Made(file'[l], ptr'[l], m)[i]
<1>1. PICK m \in Started(file[l]) : \A i \in 0 .. file[l].size - 1 :
          ptr[l] + i \in Clean => memory[ptr[l] + i] = Made(file[l], ptr[l], m)[i]
    BY DEF LoadedInv, ImagesLoaded
<1>2. \A i \in 0 .. file[l].size - 1 : ptr[l] + i \in Clean' =>
          ptr[l] + i \in Clean /\ memory'[ptr[l] + i] = memory[ptr[l] + i]
    BY PlacesMapped DEF LoadedInv
<1> QED BY <1>1, <1>2

\* A step that maps nothing, and leaves what a loader has alone as it is.
LEMMA ImagesStay ==
    ASSUME LoadedInv, SpaceInv',
           \A l \in Loaders : Mapped(l)' =>
              /\ Mapped(l) /\ ptr'[l] = ptr[l] /\ file'[l] = file[l]
              /\ \A x \in Addresses : x \in Clean' /\ IsWithinMapping(l, x) =>
                    x \in Clean /\ memory'[x] = memory[x]
    PROVE  LoadedInv'
<1> SUFFICES ASSUME NEW l \in Loaders, Mapped(l)'
             PROVE  \E m \in Started(file'[l]) : \A i \in 0 .. file'[l].size - 1 :
                       ptr'[l] + i \in Clean' => memory'[ptr'[l] + i] = Made(file'[l], ptr'[l], m)[i]
    BY DEF LoadedInv, ImagesLoaded
<1> QED BY ImageStays

\* What the rest of the process writes to is an address it believes to have, and no
\* loader has that alone.
LEMMA OthersWrite ==
    ASSUME LoadedInv, SpaceInv', NEW b \in Addresses, held[b] > 0, UNCHANGED <<ptr, file, marks>>,
           \A x \in Addresses \ {b} : memory'[x] = memory[x]
    PROVE  LoadedInv'
<1>1. SpaceInv /\ Apart
    BY DEF LoadedInv, SpaceInv
<1>2. Clean' = Clean
    BY DEF Clean, marks
<1>3. \A l \in Loaders : Mapped(l)' = Mapped(l)
    BY DEF Mapped
<1>4. ASSUME NEW l \in Loaders, Mapped(l), NEW x \in Addresses, x \in Clean, IsWithinMapping(l, x)
      PROVE  memory'[x] = memory[x]
    <2>1. held[x] = 0
        BY <1>1, <1>4 DEF Apart, Clean
    <2> QED BY <2>1
<1> QED BY <1>2, <1>3, <1>4, ImagesStay

\* What Fill writes into another's mapping is at addresses that are then no longer clean.
LEMMA FillBesides ==
    ASSUME LoadedInv, NEW l \in Loaders, NEW a \in Addresses, NEW image, NEW past,
           Fill(l, a, image, past), Fits(a, file[l].size),
           NEW m \in Loaders \ {l}, Mapped(m), NEW x \in Addresses, x \in Clean', IsWithinMapping(m, x)
    PROVE  x \in Clean /\ memory'[x] = memory[x]
<1> DEFINE here == Extent(a, file[l].size)
<1>1. /\ memory' = [y \in Addresses |->
                      IF y \in here \/ (y - a \in past /\ owner[y] # Free) THEN image[y - a] ELSE memory[y]]
      /\ contested' = (contested \ here) \cup (here \cap Claimed(l))
      /\ spoiled' = (spoiled \ here) \cup {y \in Addresses : y - a \in past}
    BY DEF Fill
<1>2. x \in Claimed(l)
    BY DEF Claimed, MappedBesides
<1>3. x \notin contested' /\ x \notin spoiled'
    BY DEF Clean
<1> HIDE DEF here
<1>4. x \notin here /\ x - a \notin past
    BY <1>1, <1>2, <1>3
<1> QED BY <1>1, <1>3, <1>4 DEF Clean

LEMMA LoadedStep == LoadedInv /\ [Next]_vars => LoadedInv'
<1> SUFFICES ASSUME LoadedInv, [Next]_vars PROVE LoadedInv'
    OBVIOUS
<1>1. SpaceInv /\ SpaceInv' /\ TypeOK /\ TypeOK' /\ Space /\ ImagesLoaded
    BY SpaceStep DEF LoadedInv, SpaceInv
\* Nothing is written, and no mapping changes.
<1>2. ASSUME UNCHANGED <<memory, ptr, marks>>, \A l \in Loaders : Mapped(l) => file'[l] = file[l]
      PROVE  LoadedInv'
    <2>1. \A l \in Loaders : Mapped(l)' = Mapped(l)
        BY <1>2 DEF Mapped
    <2>2. Clean' = Clean
        BY <1>2 DEF Clean, marks
    <2> QED BY <1>1, <1>2, <2>1, <2>2, ImagesStay
<1>3. ASSUME NEW l \in Loaders, Create(l) PROVE LoadedInv'
    <2>1. ~ Mapped(l)
        BY <1>1, <1>3 DEF Create, Space
    <2> QED BY <1>1, <1>2, <1>3, <2>1 DEF Create, TypeOK
<1>4. ASSUME NEW l \in Loaders, Load(l) PROVE LoadedInv'
    <2>1. /\ ~ Mapped(l)
          /\ file[l] \in Images /\ file[l].base \in Addresses /\ file[l].size \in Nat
        BY <1>1, <1>4, ImagesAssumption DEF Load, Space, TypeOK
    <2>2. CASE Fail(l)
        BY <1>2, <2>2 DEF Fail
    <2>3. ASSUME NEW a \in Map(file[l].base, file[l].size) \ {Null}, file[l].size > 0
          PROVE  a \in Addresses /\ Fits(a, file[l].size)
        BY <1>1, <2>1, <2>3, MapFits
    <2>4. ASSUME NEW a \in Addresses, Fits(a, file[l].size), Withdraw(l, a) PROVE LoadedInv'
        <3> DEFINE image == [i \in Places(file[l]) |->
                IF i < file[l].size THEN 0 ELSE CopyHeader(file[l], Zeroed(file[l], a))[i]]
        <3>1. Fill(l, a, image, HeaderPast(file[l])) /\ UNCHANGED <<file, ptr>>
            BY <2>4 DEF Withdraw
        <3> HIDE DEF image
        <3>2. \A m \in Loaders : Mapped(m)' => Mapped(m) /\ m # l
            BY <2>1, <3>1 DEF Mapped
        <3>3. ASSUME NEW m \in Loaders, Mapped(m)',
                     NEW x \in Addresses, x \in Clean', IsWithinMapping(m, x)
              PROVE  x \in Clean /\ memory'[x] = memory[x]
            BY <2>4, <3>1, <3>2, <3>3, FillBesides
        <3> QED BY <1>1, <3>1, <3>2, <3>3, ImagesStay
    <2>5. ASSUME NEW a \in Addresses, Fits(a, file[l].size), Succeed(l, a) PROVE LoadedInv'
        <3> DEFINE start == Zeroed(file[l], a)
        <3> DEFINE image == Made(file[l], a, start)
        <3> DEFINE past == HeaderPast(file[l]) \cup WordsPast(file[l], a)
        <3>1. Fill(l, a, image, past) /\ ptr' = [ptr EXCEPT ![l] = a] /\ UNCHANGED file
            BY <2>5 DEF Succeed, Made
        <3>2. start \in Started(file[l])
            BY <1>1, <2>1, ZeroedType
        <3> HIDE DEF start, image, past
        <3>3. ASSUME NEW m \in Loaders, Mapped(m)', m # l
              PROVE  \E s \in Started(file'[m]) : \A i \in 0 .. file'[m].size - 1 :
                        ptr'[m] + i \in Clean' => memory'[ptr'[m] + i] = Made(file'[m], ptr'[m], s)[i]
            <4>1. Mapped(m) /\ ptr'[m] = ptr[m] /\ file'[m] = file[m]
                BY <1>1, <3>1, <3>3 DEF Mapped, TypeOK
            <4>2. ASSUME NEW x \in Addresses, x \in Clean', IsWithinMapping(m, x)
                  PROVE  x \in Clean /\ memory'[x] = memory[x]
                BY <2>5, <3>1, <3>3, <4>1, <4>2, FillBesides
            <4> QED BY <4>1, <4>2, ImageStays
        <3>4. ASSUME Mapped(l)'
              PROVE  \E s \in Started(file'[l]) : \A i \in 0 .. file'[l].size - 1 :
                        ptr'[l] + i \in Clean' => memory'[ptr'[l] + i] = Made(file'[l], ptr'[l], s)[i]
            <4> DEFINE here == Extent(a, file[l].size)
            <4>1. ptr'[l] = a /\ file'[l] = file[l]
                BY <1>1, <3>1 DEF TypeOK
            <4>2. a \in Int
                BY SpaceAssumption DEF Addresses
            <4>3. \A i \in 0 .. file[l].size - 1 : a + i \in Addresses /\ a + i \in here /\ (a + i) - a = i
                BY <2>1, <2>5, <4>2 DEF Fits, Extent
            <4>4. \A x \in Addresses : x \in here => memory'[x] = image[x - a]
                BY <3>1 DEF Fill
            <4> HIDE DEF here
            <4>5. ASSUME NEW i \in 0 .. file[l].size - 1 PROVE memory'[a + i] = image[i]
                <5>1. memory'[a + i] = image[(a + i) - a]
                    BY <4>3, <4>4
                <5> QED BY <4>3, <5>1
            <4> QED BY <3>2, <4>1, <4>5 DEF image
        <3> QED BY <1>1, <3>3, <3>4 DEF LoadedInv, ImagesLoaded
    <2> QED BY <1>4, <2>2, <2>3, <2>4, <2>5 DEF Load
<1>5. ASSUME NEW l \in Loaders, Destroy(l) PROVE LoadedInv'
    <2> DEFINE gone == IF Mapped(l) THEN Unmapped(ptr[l], file[l].size) ELSE {}
    <2>1. /\ memory' = [x \in Addresses |-> IF x \in gone THEN 0 ELSE memory[x]]
          /\ ptr' = [ptr EXCEPT ![l] = Null] /\ file' = [file EXCEPT ![l] = Null]
          /\ contested' = contested \cap MappedBesides(l) /\ spoiled' = spoiled \cap MappedBesides(l)
        BY <1>5 DEF Destroy
    <2>2. \A x \in gone : \A m \in Loaders \ {l} :
            Mapped(m) /\ IsWithinMapping(m, x) => x \in contested
        BY <1>1, UnmappedIsOwn
    <2> HIDE DEF gone
    <2>3. ASSUME NEW m \in Loaders, Mapped(m)'
          PROVE  /\ m # l /\ Mapped(m) /\ ptr'[m] = ptr[m] /\ file'[m] = file[m]
                 /\ \A x \in Addresses : x \in Clean' /\ IsWithinMapping(m, x) =>
                       x \in Clean /\ memory'[x] = memory[x]
        <3>1. m # l /\ Mapped(m) /\ ptr'[m] = ptr[m] /\ file'[m] = file[m]
            BY <1>1, <2>1, <2>3 DEF Mapped, TypeOK
        <3>2. ASSUME NEW x \in Addresses, x \in Clean', IsWithinMapping(m, x)
              PROVE  x \in Clean /\ memory'[x] = memory[x]
            <4>1. x \in MappedBesides(l)
                BY <3>1, <3>2 DEF MappedBesides
            <4>2. x \notin contested /\ x \notin spoiled
                BY <2>1, <3>2, <4>1 DEF Clean
            <4>3. x \notin gone
                BY <2>2, <3>1, <3>2, <4>2
            <4> QED BY <2>1, <4>2, <4>3 DEF Clean
        <3> QED BY <3>1, <3>2
    <2> QED BY <1>1, <2>3, ImagesStay
<1>6. CASE ProcessAllocates
    BY <1>2, <1>6 DEF ProcessAllocates, loaders
<1>7. CASE ProcessWrites
    <2>1. PICK b \in Elsewhere : held[b] > 0 /\ \E u \in Unit : memory' = [memory EXCEPT ![b] = u]
        BY <1>7 DEF ProcessWrites
    <2>2. b \in Addresses /\ UNCHANGED <<ptr, file, marks>>
        BY <1>7, SpaceAssumption DEF ProcessWrites, loaders
    <2>3. \A x \in Addresses \ {b} : memory'[x] = memory[x]
        BY <1>1, <2>1 DEF TypeOK
    <2> QED BY <1>1, <2>1, <2>2, <2>3, OthersWrite
<1>8. CASE ProcessFrees
    <2>1. PICK b \in Elsewhere : held[b] > 0 /\ memory' = [memory EXCEPT ![b] = 0]
        BY <1>8 DEF ProcessFrees
    <2>2. b \in Addresses /\ UNCHANGED <<ptr, file, marks>>
        BY <1>8, SpaceAssumption DEF ProcessFrees, loaders
    <2>3. \A x \in Addresses \ {b} : memory'[x] = memory[x]
        BY <1>1, <2>1 DEF TypeOK
    <2> QED BY <1>1, <2>1, <2>2, <2>3, OthersWrite
<1>9. CASE UNCHANGED vars
    BY <1>2, <1>9 DEF vars, loaders
<1> QED BY <1>3, <1>4, <1>5, <1>6, <1>7, <1>8, <1>9 DEF Next

\* LoadSections and ApplyRelocations, for every binary, whatever its header, its sections
\* and its relocations: at addresses that nobody else had and into which no image was
\* written past its end, each word that no other relocation touches is that of the file,
\* moved by the distance from the preferred base modulo the size of what the image has of
\* it, and all that has no relocation is as in the file; and this stays so until the loader
\* is gone, whatever others load, destroy, write and free.
THEOREM ImageIsRelocatedHolds == Spec => []ImageIsRelocated
<1>1. Init => LoadedInv
    <2>1. Init => \A l \in Loaders : ~ Mapped(l)
        BY DEF Init, Mapped
    <2> QED BY <2>1, SpaceInitially DEF LoadedInv, ImagesLoaded
<1>2. LoadedInv => ImageIsRelocated
    <2> SUFFICES ASSUME LoadedInv, NEW l \in Loaders, Mapped(l)
                 PROVE  LET img == file[l]
                            a == ptr[l]
                            here == [i \in 0 .. img.size - 1 |-> memory[a + i]]
                            content == [i \in 0 .. img.size - 1 |-> ContentAt(img, i)]
                            clean == {i \in 0 .. img.size - 1 : a + i \notin contested \cup spoiled}
                        IN  /\ \A k \in Applied(img, a) :
                                  LET e == img.relocations[k]
                                      n == Inside(img, e)
                                  IN  n > 0 /\ e.pos .. e.pos + n - 1 \subseteq clean /\ Alone(img, a, k) =>
                                         Word(here, e.pos, n)
                                            = (Word(content, e.pos, n) + Distance(e, a - img.base)) % Power(n)
                            /\ \A i \in clean \ Moved(img, a) : here[i] = content[i]
        BY DEF ImageIsRelocated
    <2> DEFINE img == file[l]
    <2> DEFINE a == ptr[l]
    <2> DEFINE here == [i \in 0 .. img.size - 1 |-> memory[a + i]]
    <2> DEFINE content == [i \in 0 .. img.size - 1 |-> ContentAt(img, i)]
    <2> DEFINE clean == {i \in 0 .. img.size - 1 : a + i \notin contested \cup spoiled}
    <2>1. img \in Images /\ a \in Addresses
        BY SizeType, PlacesMapped DEF LoadedInv
    <2>2. PICK m \in Started(img) : \A i \in 0 .. img.size - 1 : a + i \in Clean => memory[a + i] = Made(img, a, m)[i]
        BY DEF LoadedInv, ImagesLoaded
    <2> DEFINE made == Made(img, a, m)
    <2>3. \A i \in clean : here[i] = made[i]
        BY <2>2, PlacesMapped DEF Clean, LoadedInv
    <2>4. /\ \A k \in Applied(img, a) :
               LET e == img.relocations[k]
                   n == Inside(img, e)
               IN  n > 0 /\ Alone(img, a, k) =>
                      /\ e.pos \in Nat /\ n \in 1 .. 4
                      /\ Word(made, e.pos, n) = (Word(content, e.pos, n) + Distance(e, a - img.base)) % Power(n)
          /\ \A i \in (0 .. img.size - 1) \ Moved(img, a) : made[i] = content[i]
        BY <2>1, Relocated DEF Made, Started
    <2>5. clean \subseteq 0 .. img.size - 1
        OBVIOUS
    <2> HIDE DEF here, content, clean, made, img, a
    <2>6. ASSUME NEW p \in Nat, NEW n \in 1 .. 4, p .. p + n - 1 \subseteq clean
          PROVE  Word(here, p, n) = Word(made, p, n)
        BY <2>3, <2>6, SameWord
    <2>7. ASSUME NEW k \in Applied(img, a), Inside(img, img.relocations[k]) > 0, Alone(img, a, k),
                 img.relocations[k].pos .. img.relocations[k].pos + Inside(img, img.relocations[k]) - 1 \subseteq clean
          PROVE  Word(here, img.relocations[k].pos, Inside(img, img.relocations[k]))
                    = (Word(content, img.relocations[k].pos, Inside(img, img.relocations[k]))
                         + Distance(img.relocations[k], a - img.base)) % Power(Inside(img, img.relocations[k]))
        BY <2>4, <2>6, <2>7
    <2>8. \A i \in clean \ Moved(img, a) : here[i] = content[i]
        BY <2>3, <2>4, <2>5
    <2> QED BY <2>7, <2>8 DEF here, content, clean, img, a
<1> QED BY <1>1, <1>2, LoadedStep, PTL DEF Spec

-----------------------------------------------------------------------------
(*                                                                         *)
(*                  Part 3.  The intervals: IntervalSpec.                  *)
(*                                                                         *)

-----------------------------------------------------------------------------
(* Powers of two. *)

\* TwoTo is what its recursion says.
LEMMA TwoToSteps ==
    /\ \A k \in 0 .. Width : TwoTo[k] \in Nat \ {0}
    /\ TwoTo[0] = 1 /\ \A k \in 1 .. Width : TwoTo[k] = 2 * TwoTo[k - 1]
<1> DEFINE S == Nat \ {0}
<1> DEFINE step == [k \in 1 .. Width |-> [x \in S |-> 2 * x]]
<1>1. Width \in Nat /\ 1 \in S /\ \A x \in S : 2 * x \in S
    BY WidthAssumption
<1>2. step \in [1 .. Width -> [S -> S]]
    BY <1>1
<1>3. PICK g : IsRecursion(g, Width, S, 1, step)
    <2> HIDE DEF step, S
    <2>1. \A x \in S : \E g : IsRecursion(g, Width, S, x, step)
        BY <1>1, <1>2, Recursion
    <2> QED BY <1>1, <2>1
<1>4. /\ g \in [0 .. Width -> S] /\ g[0] = 1
      /\ \A k \in 1 .. Width : g[k] = step[k][g[k - 1]]
    <2> HIDE DEF step, S
    <2> QED BY <1>3 DEF IsRecursion
<1>5. g = [k \in 0 .. Width |-> IF k = 0 THEN 1 ELSE 2 * g[k - 1]]
    <2>1. ASSUME NEW k \in 1 .. Width PROVE g[k] = 2 * g[k - 1]
        <3>1. g[k - 1] \in S
            BY <1>1, <1>4
        <3> QED BY <1>4, <3>1
    <2> QED BY <1>4, <2>1
<1>6. TwoTo = [k \in 0 .. Width |-> IF k = 0 THEN 1 ELSE 2 * TwoTo[k - 1]]
    BY <1>5 DEF TwoTo
<1>7. TwoTo[0] = 1 /\ \A k \in 1 .. Width : TwoTo[k] = 2 * TwoTo[k - 1]
    BY <1>1, <1>6
<1> DEFINE P == {k \in 0 .. Width : TwoTo[k] \in Nat \ {0}}
<1>8. \A k \in 0 .. Width : k \in P
    <2>1. 0 \in P
        BY <1>1, <1>7
    <2>2. \A k \in 1 .. Width : k - 1 \in P => k \in P
        BY <1>7
    <2> HIDE DEF P
    <2> QED BY <1>1, <2>1, <2>2, Induction
<1> QED BY <1>7, <1>8

\* A smaller power divides a greater one.
LEMMA TwoToDivides ==
    ASSUME NEW a \in 0 .. Width, NEW b \in a .. Width
    PROVE  \E K \in Nat \ {0} : TwoTo[b] = TwoTo[a] * K
<1> DEFINE P == {k \in 0 .. Width : a <= k => \E K \in Nat \ {0} : TwoTo[k] = TwoTo[a] * K}
<1>1. Width \in Nat
    BY WidthAssumption
<1>2. TwoTo[a] \in Nat \ {0}
    BY TwoToSteps
<1>3. a \in P
    BY <1>2
<1>4. 0 \in P
    BY <1>1, <1>3
<1>5. ASSUME NEW k \in 1 .. Width, k - 1 \in P PROVE k \in P
    <2>1. CASE a <= k - 1
        <3>1. PICK K \in Nat \ {0} : TwoTo[k - 1] = TwoTo[a] * K
            BY <1>5, <2>1
        <3>2. TwoTo[k] = TwoTo[a] * (2 * K) /\ 2 * K \in Nat \ {0}
            BY <1>2, <3>1, TwoToSteps
        <3> QED BY <3>2
    <2>2. CASE a = k
        BY <1>3, <2>2
    <2> QED BY <2>1, <2>2
<1>6. \A k \in 0 .. Width : k \in P
    <2> HIDE DEF P
    <2> QED BY <1>1, <1>4, <1>5, Induction
<1> QED BY <1>1, <1>6

-----------------------------------------------------------------------------
(* Signed integers of some width: what is left of a number. *)

Signed(H, v) == ((v + H) % (2 * H)) - H

\* It is in the range, and a multiple of the modulus away; no other number is.
LEMMA SignedType ==
    ASSUME NEW H \in Nat \ {0}, NEW v \in Int
    PROVE  /\ Signed(H, v) \in -H .. H - 1
           /\ \E k \in Int : v = (2 * H) * k + Signed(H, v)
<1> DEFINE M == 2 * H
<1> DEFINE k == (v + H) \div M
<1>1. M \in Nat \ {0} /\ v + H \in Int
    OBVIOUS
<1>2. k \in Int /\ (v + H) % M \in 0 .. M - 1 /\ v + H = M * k + ((v + H) % M)
    <2> HIDE DEF M
    <2> QED BY <1>1
<1>3. Signed(H, v) = ((v + H) % M) - H
    BY DEF Signed
<1> DEFINE q == (v + H) % M
<1>4. q \in 0 .. 2 * H - 1 /\ v + H = (2 * H) * k + q /\ Signed(H, v) = q - H
    BY <1>2, <1>3
<1> HIDE DEF k, q, M
<1>5. Signed(H, v) \in -H .. H - 1
    BY <1>4
<1>6. v = (2 * H) * k + Signed(H, v)
    BY <1>2, <1>4
<1> QED BY <1>2, <1>5, <1>6

LEMMA SignedUnique ==
    ASSUME NEW H \in Nat \ {0}, NEW s \in -H .. H - 1, NEW k \in Int
    PROVE  Signed(H, (2 * H) * k + s) = s
<1> DEFINE v == (2 * H) * k + s
<1> DEFINE M == 2 * H
<1>1. M \in Nat \ {0} /\ v + H \in Int /\ s + H \in 0 .. M - 1 /\ v + H = M * k + (s + H)
    OBVIOUS
<1>2. (v + H) % M = s + H
    <2> DEFINE w == v + H
    <2> DEFINE t == s + H
    <2>1. w \in Int /\ t \in 0 .. M - 1 /\ w = M * k + t
        BY <1>1
    <2> HIDE DEF M, w, t
    <2>2. w % M = t
        BY <1>1, <2>1, DivisionUnique
    <2> QED BY <2>2 DEF w, t
<1>3. Signed(H, v) = ((v + H) % M) - H
    BY DEF Signed
<1> HIDE DEF v, M
<1>4. Signed(H, v) = s
    BY <1>2, <1>3
<1> QED BY <1>4 DEF v

LEMMA SignedSame ==
    ASSUME NEW H \in Nat \ {0}, NEW s \in -H .. H - 1
    PROVE  Signed(H, s) = s
<1>1. (2 * H) * 0 + s = s /\ 0 \in Int
    OBVIOUS
<1>2. Signed(H, (2 * H) * 0 + s) = s
    BY <1>1, SignedUnique
<1> QED BY <1>1, <1>2

\* Cutting to the width of an integer first changes nothing.
LEMMA SignedTwice ==
    ASSUME NEW H \in Nat \ {0}, NEW K \in Nat \ {0}, NEW v \in Int
    PROVE  Signed(H, Signed(H * K, v)) = Signed(H, v)
<1> DEFINE G == H * K
<1> DEFINE w == Signed(G, v)
<1> DEFINE s == Signed(H, v)
<1>1. G \in Nat \ {0}
    OBVIOUS
<1>2. PICK k \in Int : v = (2 * G) * k + w
    <2> HIDE DEF G
    <2> QED BY <1>1, SignedType
<1>3. s \in -H .. H - 1
    BY SignedType
<1>4. PICK j \in Int : v = (2 * H) * j + s
    BY SignedType
<1>5. w \in Int
    <2> HIDE DEF G
    <2> QED BY <1>1, SignedType
<1> HIDE DEF w, s
<1>6. (2 * G) * k = (2 * H) * (K * k) /\ K * k \in Int
    OBVIOUS
<1>7. w = (2 * H) * (j - K * k) + s /\ j - K * k \in Int
    BY <1>2, <1>3, <1>4, <1>5, <1>6
<1>8. Signed(H, w) = s
    BY <1>3, <1>7, SignedUnique
<1> QED BY <1>8 DEF w, s

\* Numbers that are near each other and the same when cut are the same.
LEMMA SignedNear ==
    ASSUME NEW H \in Nat \ {0}, NEW u \in Int, NEW v \in Int,
           Signed(H, u) = Signed(H, v), u - v < 2 * H, v - u < 2 * H
    PROVE  u = v
<1>1. PICK j \in Int : u = (2 * H) * j + Signed(H, u)
    BY SignedType
<1>2. PICK k \in Int : v = (2 * H) * k + Signed(H, v)
    BY SignedType
<1>3. Signed(H, u) \in Int /\ Signed(H, v) \in Int
    BY SignedType
<1>4. u - v = (2 * H) * (j - k)
    BY <1>1, <1>2, <1>3
<1>5. ~ (j - k >= 1)
    <2> SUFFICES ASSUME j - k >= 1 PROVE FALSE
        OBVIOUS
    <2>1. (2 * H) * (j - k) >= (2 * H) * 1
        OBVIOUS
    <2> QED BY <1>4, <2>1
<1>6. ~ (k - j >= 1)
    <2> SUFFICES ASSUME k - j >= 1 PROVE FALSE
        OBVIOUS
    <2>1. (2 * H) * (k - j) >= (2 * H) * 1
        OBVIOUS
    <2>2. v - u = (2 * H) * (k - j)
        BY <1>4
    <2> QED BY <2>1, <2>2
<1>7. j = k
    BY <1>5, <1>6
<1> QED BY <1>1, <1>2, <1>7

-----------------------------------------------------------------------------
(* The values of the pass and of the registers. *)

Half == TwoTo[Width - 1]
HalfOf(r) == TwoTo[Bits[r] - 1]

LEMMA Widths ==
    ASSUME NEW r \in Registers
    PROVE  /\ Bits[r] \in 1 .. Width /\ HalfOf(r) \in Nat \ {0} /\ TwoTo[Bits[r]] = 2 * HalfOf(r)
           /\ Full[r] \in Registers /\ Full[Full[r]] = Full[r] /\ Bits[Full[r]] = Width
           /\ \E K \in Nat \ {0} : Half = HalfOf(r) * K
<1>1. Bits[r] \in 1 .. Width /\ Full[r] \in Registers /\ Full[Full[r]] = Full[r] /\ Bits[Full[r]] = Width
    BY NamesAssumption
<1>2. Bits[r] - 1 \in 0 .. Width /\ Width - 1 \in (Bits[r] - 1) .. Width
    BY <1>1, WidthAssumption
<1>3. HalfOf(r) \in Nat \ {0} /\ TwoTo[Bits[r]] = 2 * HalfOf(r)
    BY <1>1, <1>2, TwoToSteps DEF HalfOf
<1>4. \E K \in Nat \ {0} : Half = HalfOf(r) * K
    BY <1>2, TwoToDivides DEF Half, HalfOf
<1> QED BY <1>1, <1>3, <1>4

LEMMA HalfType == Half \in Nat \ {0} /\ TwoTo[Width] = 2 * Half
<1>1. Width - 1 \in 0 .. Width /\ Width \in 1 .. Width
    BY WidthAssumption
<1> QED BY <1>1, TwoToSteps DEF Half

LEMMA WrapSigned ==
    ASSUME NEW v \in Int
    PROVE  Wrap(v) = Signed(Half, v) /\ Wrap(v) \in Value /\ Value = -Half .. Half - 1
<1>1. MinInt = -Half /\ MaxInt = Half - 1 /\ Half \in Nat \ {0} /\ TwoTo[Width] = 2 * Half
    BY HalfType DEF MinInt, MaxInt, Half
<1>2. v - MinInt = v + Half
    BY <1>1
<1>3. ((v + Half) % (2 * Half)) \in Int
    BY <1>1
<1>4. Wrap(v) = ((v + Half) % (2 * Half)) + (-Half)
    BY <1>1, <1>2 DEF Wrap
<1>5. Wrap(v) = Signed(Half, v)
    BY <1>1, <1>3, <1>4 DEF Signed
<1>6. Value = -Half .. Half - 1
    BY <1>1 DEF Value
<1> QED BY <1>1, <1>5, <1>6, SignedType

LEMMA TruncatedSigned ==
    ASSUME NEW r \in Registers, NEW v \in Int
    PROVE  /\ Truncated(r, v) = Signed(HalfOf(r), v) /\ Truncated(r, v) \in ValueOf(r)
           /\ ValueOf(r) = -HalfOf(r) .. HalfOf(r) - 1
<1>1. Truncated(r, v) = Signed(HalfOf(r), v)
    BY Widths DEF Truncated, Signed, HalfOf
<1>2. ValueOf(r) = -HalfOf(r) .. HalfOf(r) - 1
    BY DEF ValueOf, HalfOf
<1> QED BY <1>1, <1>2, Widths, SignedType

LEMMA Values ==
    /\ Value \subseteq Int /\ 0 \in Value /\ Value = MinInt .. MaxInt
    /\ MinInt \in Value /\ MaxInt \in Value /\ MinInt < MaxInt
    /\ \A r \in Registers : ValueOf(r) \subseteq Value /\ ValueOf(r) \subseteq Int
<1>1. MinInt = -Half /\ MaxInt = Half - 1 /\ Half \in Nat \ {0}
    BY HalfType DEF MinInt, MaxInt, Half
<1>2. ASSUME NEW r \in Registers
      PROVE  ValueOf(r) \subseteq Value /\ ValueOf(r) \subseteq Int
    <2>1. PICK K \in Nat \ {0} : Half = HalfOf(r) * K
        BY Widths
    <2>2. HalfOf(r) \in Nat \ {0} /\ ValueOf(r) = -HalfOf(r) .. HalfOf(r) - 1
        BY Widths DEF ValueOf, HalfOf
    <2>3. HalfOf(r) * 1 <= HalfOf(r) * K
        BY <2>1, <2>2
    <2>4. HalfOf(r) <= Half
        BY <2>1, <2>2, <2>3
    <2> QED BY <1>1, <2>2, <2>4 DEF Value
<1> QED BY <1>1, <1>2 DEF Value

\* What fits the register is what the register holds; and an integer that wraps
\* to what fits is cut to it.
LEMMA FitsRegister ==
    ASSUME NEW r \in Registers, NEW v \in Int
    PROVE  /\ v \in ValueOf(r) => Truncated(r, v) = v
           /\ Wrap(v) \in ValueOf(r) => Truncated(r, v) = Wrap(v)
<1>1. HalfOf(r) \in Nat \ {0} /\ ValueOf(r) = -HalfOf(r) .. HalfOf(r) - 1
    BY Widths DEF ValueOf, HalfOf
<1>2. PICK K \in Nat \ {0} : Half = HalfOf(r) * K
    BY Widths
<1>3. ASSUME NEW w \in ValueOf(r) PROVE Signed(HalfOf(r), w) = w /\ w \in Int
    BY <1>1, SignedSame
<1>4. Signed(HalfOf(r), Wrap(v)) = Signed(HalfOf(r), v)
    <2>1. Signed(HalfOf(r), Signed(HalfOf(r) * K, v)) = Signed(HalfOf(r), v)
        BY <1>1, SignedTwice
    <2> QED BY <1>2, <2>1, WrapSigned
<1>5. Truncated(r, v) = Signed(HalfOf(r), v)
    BY TruncatedSigned
<1> QED BY <1>3, <1>4, <1>5

\* The sums of the bounds of an interval of more than one number are different.
LEMMA WrapNear ==
    ASSUME NEW u \in Int, NEW v \in Int, u # v,
           u - v <= MaxInt - MinInt, v - u <= MaxInt - MinInt
    PROVE  Wrap(u) # Wrap(v)
<1>1. MinInt = -Half /\ MaxInt = Half - 1 /\ Half \in Nat \ {0}
    BY HalfType DEF MinInt, MaxInt, Half
<1>2. u - v < 2 * Half /\ v - u < 2 * Half
    BY <1>1
<1> QED BY <1>1, <1>2, SignedNear, WrapSigned

LEMMA LowPartOfNat ==
    ASSUME NEW M \in Nat \ {0}, NEW v \in 0 .. M - 1
    PROVE  v % M = v
<1>1. v = M * 0 + v /\ 0 \in Int
    OBVIOUS
<1> QED BY <1>1, DivisionUnique

\* Division by a positive number stays between the number and zero.
LEMMA Quotients ==
    ASSUME NEW v \in Value, NEW P \in Nat \ {0}
    PROVE  v \div P \in Value
<1> DEFINE q == v \div P
<1>1. v \in Int /\ Value = MinInt .. MaxInt /\ 0 \in Value /\ MinInt \in Int /\ MaxInt \in Int
    BY Values
<1>2. q \in Int /\ P * q <= v /\ v < P * q + P
    <2>1. v = P * q + (v % P) /\ v % P \in 0 .. P - 1 /\ q \in Int
        BY <1>1
    <2> QED BY <1>1, <2>1
<1> HIDE DEF q
<1>3. CASE v >= 0
    <2>1. q >= 0
        <3> SUFFICES ASSUME q <= -1 PROVE FALSE
            BY <1>2
        <3>1. P * q <= P * (-1)
            BY <1>2
        <3> QED BY <1>1, <1>2, <1>3, <3>1
    <2>2. P * q >= 1 * q
        BY <1>2, <2>1
    <2> QED BY <1>1, <1>2, <2>1, <2>2 DEF q
<1>4. CASE v < 0
    <2>1. q < 0
        <3> SUFFICES ASSUME q >= 0 PROVE FALSE
            BY <1>2
        <3>1. P * q >= P * 0
            BY <1>2
        <3> QED BY <1>1, <1>2, <1>4, <3>1
    <2>2. q >= v
        <3> SUFFICES ASSUME q + 1 <= v PROVE FALSE
            BY <1>1, <1>2
        <3>1. P * (q + 1) = P * q + P
            BY <1>2
        <3>2. (P - 1) * (q + 1) <= (P - 1) * 0
            BY <1>2, <2>1
        <3>3. (P - 1) * (q + 1) = P * (q + 1) - (q + 1)
            BY <1>2
        <3> QED BY <1>1, <1>2, <3>1, <3>2, <3>3
    <2> QED BY <1>1, <1>2, <2>1, <2>2 DEF q
<1> QED BY <1>1, <1>3, <1>4

\* The recursion of BitAnd, and that it ends in a number.
LowOf(a, b) ==
    CHOOSE low : low = [n \in 0 .. Width |->
        IF n = 0 THEN 0 ELSE low[n - 1] + TwoTo[n - 1] * Bit(a, n - 1) * Bit(b, n - 1)]

LEMMA BitAndType ==
    ASSUME NEW a \in Int, NEW b \in Int
    PROVE  BitAnd(a, b) \in Value
<1> DEFINE Term(n) == TwoTo[n - 1] * Bit(a, n - 1) * Bit(b, n - 1)
<1> DEFINE step == [n \in 1 .. Width |-> [x \in Int |-> x + Term(n)]]
<1>1. Width \in Nat
    BY WidthAssumption
<1>2. ASSUME NEW n \in 1 .. Width PROVE Term(n) \in Int
    <2>1. n - 1 \in 0 .. Width
        BY <1>1
    <2>2. TwoTo[n - 1] \in Nat \ {0} /\ TwoTo[Width] \in Nat \ {0}
        BY <1>1, <2>1, TwoToSteps
    <2>3. Bit(a, n - 1) \in Int /\ Bit(b, n - 1) \in Int
        BY <2>2 DEF Bit
    <2> QED BY <2>2, <2>3
<1> HIDE DEF Term
<1>3. step \in [1 .. Width -> [Int -> Int]]
    BY <1>2
<1>4. PICK g : IsRecursion(g, Width, Int, 0, step)
    <2> HIDE DEF step
    <2>1. \A x \in Int : \E g : IsRecursion(g, Width, Int, x, step)
        BY <1>1, <1>3, Recursion
    <2> QED BY <2>1
<1>5. /\ g \in [0 .. Width -> Int] /\ g[0] = 0
      /\ \A n \in 1 .. Width : g[n] = step[n][g[n - 1]]
    <2> HIDE DEF step
    <2> QED BY <1>4 DEF IsRecursion
<1>6. g = [n \in 0 .. Width |-> IF n = 0 THEN 0 ELSE g[n - 1] + Term(n)]
    <2>1. ASSUME NEW n \in 1 .. Width PROVE g[n] = g[n - 1] + Term(n)
        <3>1. g[n - 1] \in Int
            BY <1>1, <1>5
        <3> QED BY <1>5, <3>1
    <2> QED BY <1>5, <2>1
<1> DEFINE low == LowOf(a, b)
<1>7. low = [n \in 0 .. Width |-> IF n = 0 THEN 0 ELSE low[n - 1] + Term(n)]
    <2>1. low = CHOOSE l : l = [n \in 0 .. Width |-> IF n = 0 THEN 0 ELSE l[n - 1] + Term(n)]
        BY DEF LowOf, Term
    <2> HIDE DEF low
    <2> QED BY <1>6, <2>1
<1> HIDE DEF low
<1>8. low[0] = 0 /\ \A n \in 1 .. Width : low[n] = low[n - 1] + Term(n)
    BY <1>1, <1>7
<1> DEFINE P == {n \in 0 .. Width : low[n] \in Int}
<1>9. Width \in P
    <2>1. 0 \in P
        BY <1>1, <1>8
    <2>2. \A n \in 1 .. Width : n - 1 \in P => n \in P
        BY <1>2, <1>8
    <2>3. \A n \in 0 .. Width : n \in P
        <3> HIDE DEF P
        <3> QED BY <1>1, <2>1, <2>2, Induction
    <2> QED BY <1>1, <2>3
<1>10. BitAnd(a, b) = Wrap(low[Width])
    BY DEF BitAnd, LowOf, low
<1> QED BY <1>9, <1>10, WrapSigned

-----------------------------------------------------------------------------
(* Intervals. *)

LEMMA IntervalParts ==
    /\ \A l \in Value : \A h \in Value : Range(l, h) \in Interval /\ Range(l, h).lo = l /\ Range(l, h).hi = h
    /\ \A v \in Value : Constant(v) \in Interval /\ IsConstant(Constant(v)) /\ Constant(v).lo = v
    /\ \A l, h : IsConstant(Range(l, h)) <=> l = h
    /\ Top \in Interval /\ ~ IsConstant(Top)
    /\ \A i \in Interval : i.lo \in Value /\ i.hi \in Value
BY Values DEF Range, Constant, Interval, Top, IsConstant

\* What an operation makes of two intervals; constants come of constants.
LEMMA AddSubParts ==
    ASSUME NEW i \in Interval, NEW j \in Interval
    PROVE  /\ Add(i, j) \in Interval /\ Sub(i, j) \in Interval
           /\ IsConstant(i) \/ IsConstant(j) =>
                 /\ IsConstant(Add(i, j)) => IsConstant(i) /\ IsConstant(j)
                 /\ IsConstant(Sub(i, j)) => IsConstant(i) /\ IsConstant(j)
           /\ Add(i, j).lo = Wrap(i.lo + j.lo) /\ Sub(i, j).lo = Wrap(i.lo - j.hi)
<1>1. /\ i.lo \in Int /\ i.hi \in Int /\ j.lo \in Int /\ j.hi \in Int
      /\ i.lo \in MinInt .. MaxInt /\ i.hi \in MinInt .. MaxInt
      /\ j.lo \in MinInt .. MaxInt /\ j.hi \in MinInt .. MaxInt
      /\ MinInt \in Int /\ MaxInt \in Int
    BY Values, IntervalParts
<1>2. /\ Wrap(i.lo + j.lo) \in Value /\ Wrap(i.hi + j.hi) \in Value
      /\ Wrap(i.lo - j.hi) \in Value /\ Wrap(i.hi - j.lo) \in Value
    BY <1>1, WrapSigned
<1>3. ASSUME IsConstant(i) \/ IsConstant(j), ~ (IsConstant(i) /\ IsConstant(j))
      PROVE  ~ IsConstant(Add(i, j)) /\ ~ IsConstant(Sub(i, j))
    <2>1. (i.lo = i.hi \/ j.lo = j.hi) /\ ~ (i.lo = i.hi /\ j.lo = j.hi)
        BY <1>3 DEF IsConstant
    <2>2. Wrap(i.lo + j.lo) # Wrap(i.hi + j.hi)
        <3> DEFINE u == i.lo + j.lo
        <3> DEFINE v == i.hi + j.hi
        <3>1. u \in Int /\ v \in Int /\ u # v /\ u - v <= MaxInt - MinInt /\ v - u <= MaxInt - MinInt
            BY <1>1, <2>1
        <3> HIDE DEF u, v
        <3>2. Wrap(u) # Wrap(v)
            BY <3>1, WrapNear
        <3> QED BY <3>2 DEF u, v
    <2>3. Wrap(i.lo - j.hi) # Wrap(i.hi - j.lo)
        <3> DEFINE u == i.lo - j.hi
        <3> DEFINE v == i.hi - j.lo
        <3>1. u \in Int /\ v \in Int /\ u # v /\ u - v <= MaxInt - MinInt /\ v - u <= MaxInt - MinInt
            BY <1>1, <2>1
        <3> HIDE DEF u, v
        <3>2. Wrap(u) # Wrap(v)
            BY <3>1, WrapNear
        <3> QED BY <3>2 DEF u, v
    <2> QED BY <2>2, <2>3, IntervalParts DEF Add, Sub
<1> QED BY <1>2, <1>3, IntervalParts DEF Add, Sub

LEMMA AndParts ==
    ASSUME NEW i \in Interval, NEW j \in Interval
    PROVE  /\ And(i, j) \in Interval
           /\ IsConstant(i) /\ IsConstant(j) => And(i, j) = Constant(BitAnd(i.lo, j.lo))
<1>1. i.lo \in Value /\ j.lo \in Value /\ i.hi \in Value /\ j.hi \in Value /\ Value \subseteq Int
      /\ 0 \in Value
    BY Values, IntervalParts
<1>2. BitAnd(i.lo, j.lo) \in Value
    BY <1>1, BitAndType
<1>3. MaxOf(i.hi, j.hi) \in Value
    BY <1>1 DEF MaxOf
<1> QED BY <1>1, <1>2, <1>3, IntervalParts DEF And

LEMMA ShiftParts ==
    ASSUME NEW i \in Interval, NEW j \in Interval
    PROVE  /\ Shl(i, j) \subseteq Interval /\ Shr(i, j) \subseteq Interval
           /\ IsConstant(i) /\ IsConstant(j) /\ InRange(j.lo) =>
                 /\ Shl(i, j) = {Constant(Wrap(i.lo * TwoTo[j.lo]))}
                 /\ Shr(i, j) = {Constant(i.lo \div TwoTo[j.lo])}
<1>1. i.lo \in Value /\ j.lo \in Value /\ i.hi \in Value /\ j.hi \in Value /\ Value \subseteq Int
      /\ 0 \in Value
    BY Values, IntervalParts
<1>2. ASSUME NEW v \in Value, NEW n \in Value
      PROVE  ShiftedLeft(v, n) \subseteq Value /\ ShiftedRight(v, n) \subseteq Value
    <2>1. ASSUME InRange(n) PROVE Wrap(v * TwoTo[n]) \in Value /\ v \div TwoTo[n] \in Value
        <3>1. n \in 0 .. Width
            BY <1>1, <2>1, WidthAssumption DEF InRange
        <3>2. TwoTo[n] \in Nat \ {0}
            BY <3>1, TwoToSteps
        <3>3. v * TwoTo[n] \in Int
            BY <1>1, <3>2
        <3> QED BY <3>2, <3>3, Quotients, WrapSigned
    <2> QED BY <2>1 DEF ShiftedLeft, ShiftedRight
<1>3. Shl(i, j) \subseteq Interval
    BY <1>1, <1>2, IntervalParts DEF Shl
<1>4. Shr(i, j) \subseteq Interval
    <2>1. Range(0, i.hi) \in Interval
        BY <1>1, IntervalParts
    <2>2. ShiftedRight(i.lo, j.lo) \subseteq Value
        BY <1>1, <1>2
    <2>3. {Constant(v) : v \in ShiftedRight(i.lo, j.lo)} \subseteq Interval
        BY <2>2, IntervalParts
    <2>4. Shr(i, j) = {Constant(v) : v \in ShiftedRight(i.lo, j.lo)} \/ Shr(i, j) = {Range(0, i.hi)}
        BY DEF Shr
    <2> QED BY <2>1, <2>3, <2>4
<1>5. IsConstant(i) /\ IsConstant(j) /\ InRange(j.lo) =>
         /\ Shl(i, j) = {Constant(Wrap(i.lo * TwoTo[j.lo]))}
         /\ Shr(i, j) = {Constant(i.lo \div TwoTo[j.lo])}
    BY DEF Shl, Shr, ShiftedLeft, ShiftedRight
<1> QED BY <1>3, <1>4, <1>5

-----------------------------------------------------------------------------
(* The pass. *)

IsDomain(d) == DOMAIN d \subseteq Registers /\ \A r \in DOMAIN d : d[r] \in Interval

\* An instruction as the pass and the machine tell it apart.
LEMMA InsnParts ==
    ASSUME NEW insn \in Insns
    PROVE  /\ insn.op \in Tracked \cup {"TEST", "CMP", "other", "condwrite"} => insn.dst \in Registers
           /\ insn.op \in Tracked \cup {"TEST", "CMP"} =>
                 /\ insn.src.type \in {"imm", "reg", "mem"}
                 /\ insn.src.type = "imm" => insn.src.imm \in Immediates
                 /\ insn.src.type = "reg" => /\ insn.src.reg \in Registers
                                             /\ Bits[insn.src.reg] = Bits[insn.dst]
           /\ insn.op \in Tracked \cup {"TEST", "CMP", "other", "condwrite", "call", "JMP"}
                             \cup Conditions
BY DEF Insns, Operand, Tracked, Conditions

LEMMA SourceParts ==
    ASSUME NEW d, IsDomain(d), NEW insn \in Insns, insn.op \in Tracked \cup {"TEST", "CMP"}
    PROVE  /\ GetRegisterInterval(d, insn.dst) \in Interval
           /\ Source(d, insn.src) \in Interval /\ Count(insn.src) \in Interval
<1>1. ASSUME NEW r PROVE GetRegisterInterval(d, r) \in Interval
    BY IntervalParts DEF IsDomain, GetRegisterInterval
<1>2. insn.src.type = "imm" => Constant(insn.src.imm) \in Interval
    BY InsnParts, ImmediatesAssumption, IntervalParts
<1> QED BY <1>1, <1>2, IntervalParts DEF Source, Count

LEMMA ComputedType ==
    ASSUME NEW d, IsDomain(d), NEW insn \in Insns, insn.op \in Tracked
    PROVE  Computed(d, insn) \subseteq Interval
<1> DEFINE dst == GetRegisterInterval(d, insn.dst)
<1>1. /\ dst \in Interval /\ Source(d, insn.src) \in Interval /\ Count(insn.src) \in Interval
    BY SourceParts
<1>2. insn.src.type = "imm" => Constant(insn.src.imm) \in Interval
    BY InsnParts, ImmediatesAssumption, IntervalParts
<1>3. Constant(0) \in Interval
    BY Values, IntervalParts
<1>4. /\ Add(dst, Source(d, insn.src)) \in Interval /\ Sub(dst, Source(d, insn.src)) \in Interval
      /\ And(dst, Source(d, insn.src)) \in Interval
      /\ Shl(dst, Count(insn.src)) \subseteq Interval /\ Shr(dst, Count(insn.src)) \subseteq Interval
    BY <1>1, AddSubParts, AndParts, ShiftParts
<1> HIDE DEF dst
<1>5. Computed(d, insn) =
        CASE insn.op = "MOV" /\ insn.src.type = "imm" -> {Constant(insn.src.imm)}
          [] insn.op = "XOR" /\ IsReg(insn, insn.dst) -> {Constant(0)}
          [] insn.op = "ADD" -> {Add(dst, Source(d, insn.src))}
          [] insn.op = "SUB" -> {Sub(dst, Source(d, insn.src))}
          [] insn.op = "AND" -> {And(dst, Source(d, insn.src))}
          [] insn.op = "SHL" -> Shl(dst, Count(insn.src))
          [] insn.op = "SHR" -> Shr(dst, Count(insn.src))
          [] OTHER -> {}
    BY DEF Computed, dst
<1> QED BY <1>2, <1>3, <1>4, <1>5

\* What is in the domain after an instruction was computed by it, or was there and
\* is of a register it leaves alone, or is a zero that stays in spite of it.
LEMMA ApplyParts ==
    ASSUME NEW d, IsDomain(d), NEW insn \in Insns, NEW e \in ApplyInstruction(d, insn)
    PROVE  /\ IsDomain(e)
           /\ \A r \in DOMAIN e :
                 \/ insn.op \in Tracked /\ r = insn.dst /\ e[r] \in Computed(d, insn)
                 \/ /\ r \in DOMAIN d /\ e[r] = d[r]
                    /\ r \in Written(insn) =>
                          \/ insn.op \in Tracked /\ Computed(d, insn) = {}
                          \/ insn.op = "other" /\ r \in ZeroKept /\ d[r] = Constant(0)
<1>1. ASSUME NEW f
      PROVE  LET g == Invalidate(f, insn)
             IN  /\ DOMAIN g \subseteq DOMAIN f /\ \A r \in DOMAIN g : g[r] = f[r]
                 /\ insn.op \notin Tracked =>
                       \A r \in DOMAIN g \cap Written(insn) : r \in ZeroKept /\ f[r] = Constant(0)
    BY DEF Invalidate
<1>2. CASE insn.op \in Tracked /\ Computed(d, insn) # {}
    <2>1. PICK i \in Computed(d, insn) :
              e = Invalidate(SetRegisterInterval(d, insn.dst, i), insn)
        BY <1>2 DEF ApplyInstruction
    <2>2. i \in Interval /\ insn.dst \in Registers /\ Written(insn) = {insn.dst}
        BY <1>2, ComputedType, InsnParts DEF Written
    <2> DEFINE f == SetRegisterInterval(d, insn.dst, i)
    <2>3. /\ DOMAIN f = DOMAIN d \cup {insn.dst}
          /\ \A r \in DOMAIN f : f[r] = IF r = insn.dst THEN i ELSE d[r]
        BY DEF SetRegisterInterval
    <2> HIDE DEF f
    <2>4. DOMAIN e \subseteq DOMAIN f /\ \A r \in DOMAIN e : e[r] = f[r]
        BY <1>1, <2>1 DEF f
    <2> QED BY <1>2, <2>2, <2>3, <2>4 DEF IsDomain
<1>3. CASE ~ (insn.op \in Tracked /\ Computed(d, insn) # {})
    <2>1. e = Invalidate(d, insn)
        BY <1>3 DEF ApplyInstruction
    <2>2. insn.op \notin Tracked /\ Written(insn) # {} => insn.op = "other"
        BY DEF Written
    <2>3. /\ DOMAIN e \subseteq DOMAIN d /\ \A r \in DOMAIN e : e[r] = d[r]
          /\ insn.op \notin Tracked =>
                \A r \in DOMAIN e \cap Written(insn) : r \in ZeroKept /\ d[r] = Constant(0)
        BY <1>1, <2>1
    <2> QED BY <1>3, <2>2, <2>3 DEF IsDomain
<1> QED BY <1>2, <1>3

LEMMA HoldsType ==
    ASSUME NEW cond \in Decided, NEW x \in Int
    PROVE  Holds(cond, x) \in BOOLEAN
<1>1. cond = "JZ" \/ cond = "JNZ" \/ cond = "JS" \/ cond = "JNS"
    BY DEF Decided
<1>2. (x = 0) \in BOOLEAN /\ (x # 0) \in BOOLEAN /\ (x < 0) \in BOOLEAN /\ (x >= 0) \in BOOLEAN
    OBVIOUS
<1> QED BY <1>1, <1>2 DEF Holds

LEMMA EvaluateType ==
    ASSUME NEW cond, NEW before, before = {} \/ \E p \in Insns : before = {p}, NEW d,
           \A p \in before : GetRegisterInterval(d, p.dst) \in Interval
    PROVE  EvaluateBranch(cond, before, d) \in {{}, {TRUE}, {FALSE}}
<1>1. CASE before = {}
    BY <1>1 DEF EvaluateBranch
<1>2. ASSUME NEW p \in Insns, before = {p} PROVE EvaluateBranch(cond, before, d) \in {{}, {TRUE}, {FALSE}}
    <2> DEFINE x == GetRegisterInterval(d, p.dst).lo
    <2>1. x \in Int
        BY <1>2, IntervalParts, Values
    <2>2. \/ EvaluateBranch(cond, before, d) = {}
          \/ cond \in Decided /\ EvaluateBranch(cond, before, d) = {Holds(cond, x)}
        BY <1>2 DEF EvaluateBranch
    <2> HIDE DEF x
    <2>3. cond \in Decided => Holds(cond, x) \in BOOLEAN
        BY <2>1, HoldsType
    <2> QED BY <2>2, <2>3
<1> QED BY <1>1, <1>2

-----------------------------------------------------------------------------
(* The machine. *)

\* What a register holds, by any of its names.
LEMMA ReadType ==
    ASSUME IntervalTypeOK, NEW r \in Registers
    PROVE  Read(r) \in ValueOf(r) /\ Read(r) \in Int /\ Full[r] \in DOMAIN regs /\ regs[Full[r]] \in Value
<1>1. regs[Full[r]] \in Value /\ Full[r] \in DOMAIN regs
    BY DEF IntervalTypeOK
<1>2. regs[Full[r]] \in Int
    BY <1>1, Values
<1> QED BY <1>1, <1>2, TruncatedSigned, Values DEF Read

\* The constants of the domain are what the registers hold.
Agrees == \A r \in DOMAIN domain : IsConstant(domain[r]) => Read(r) = domain[r].lo

LEMMA ConstantParts ==
    ASSUME IntervalTypeOK, Agrees, NEW r \in Registers, IsConstant(GetRegisterInterval(domain, r))
    PROVE  /\ ConstantIn(r) /\ GetRegisterInterval(domain, r) = domain[r]
           /\ domain[r].lo = Read(r) /\ domain[r].hi = domain[r].lo
BY IntervalParts DEF Agrees, GetRegisterInterval, ConstantIn, IsConstant

\* A source operand the pass knows is the only one the machine can find.
LEMMA KnownSource ==
    ASSUME IntervalTypeOK, Agrees, NEW insn \in Insns, insn.op \in Tracked,
           IsConstant(Source(domain, insn.src))
    PROVE  /\ OperandValues(insn.src) = {Source(domain, insn.src).lo}
           /\ Source(domain, insn.src).hi = Source(domain, insn.src).lo
           /\ Source(domain, insn.src).lo \in Int
<1>1. insn.src.type \in {"imm", "reg"}
    <2>1. insn.src.type = "mem" => Source(domain, insn.src) = Top
        BY DEF Source
    <2> QED BY <2>1, InsnParts, IntervalParts
<1>2. CASE insn.src.type = "imm"
    <2>1. insn.src.imm \in Value /\ insn.src.imm \in Int
        BY <1>2, InsnParts, ImmediatesAssumption, Values
    <2>2. Source(domain, insn.src) = Constant(insn.src.imm) /\ OperandValues(insn.src) = {insn.src.imm}
        BY <1>2 DEF Source, OperandValues
    <2> QED BY <2>1, <2>2 DEF Constant, Range
<1>3. CASE insn.src.type = "reg"
    <2>1. insn.src.reg \in Registers
        BY <1>3, InsnParts
    <2>2. Source(domain, insn.src) = GetRegisterInterval(domain, insn.src.reg)
          /\ OperandValues(insn.src) = {Read(insn.src.reg)}
        BY <1>3 DEF Source, OperandValues
    <2> QED BY <2>1, <2>2, ConstantParts, ReadType
<1> QED BY <1>1, <1>2, <1>3

\* One step per operation: the constant that the pass computes, where it follows
\* the instruction, is the value that the machine leaves in the register.
LEMMA ComputedIsExecuted ==
    ASSUME IntervalTypeOK, Agrees, NEW insn \in Insns, insn.op \in Tracked, Follows(insn),
           NEW i \in Computed(domain, insn), IsConstant(i), NEW x \in Executed(insn)
    PROVE  x = i.lo
<1> DEFINE r == insn.dst
<1> DEFINE a == GetRegisterInterval(domain, r)
<1> DEFINE s == Source(domain, insn.src)
<1> DEFINE c == Count(insn.src)
<1>1. r \in Registers /\ a \in Interval /\ s \in Interval /\ c \in Interval /\ i \in Interval
      /\ IsDomain(domain)
    <2>1. IsDomain(domain)
        BY DEF IntervalTypeOK, IsDomain
    <2> QED BY <2>1, InsnParts, SourceParts, ComputedType
<1>2. i.lo \in ValueOf(r) /\ i.lo \in Int
    BY <1>1, Values DEF Follows, FollowsNames
<1>3. IsConstant(a) => ConstantIn(r) /\ a.lo = Read(r) /\ a.hi = Read(r) /\ a = domain[r]
    BY <1>1, ConstantParts
<1>4. ConstantIn(r) => IsConstant(a)
    BY DEF ConstantIn, GetRegisterInterval
<1>5. IsConstant(s) => OperandValues(insn.src) = {s.lo} /\ s.hi = s.lo /\ s.lo \in Int
    BY KnownSource
<1>6. SourceIsConstant(insn.src) => IsConstant(s)
    BY InsnParts DEF SourceIsConstant, Source, ConstantIn, GetRegisterInterval, IsConstant, Constant, Range
<1>7. Read(r) \in ValueOf(r) /\ Read(r) \in Int
    BY <1>1, ReadType
<1>8. FollowsValue(insn)
    BY DEF Follows
<1>9. CASE insn.op = "MOV"
    <2>1. insn.src.type = "imm" /\ i = Constant(insn.src.imm)
        BY <1>9 DEF Computed
    <2>2. i.lo = insn.src.imm /\ OperandValues(insn.src) = {insn.src.imm}
        BY <2>1 DEF Constant, Range, OperandValues
    <2>3. x = Truncated(r, i.lo)
        BY <1>9, <2>2 DEF Executed
    <2> QED BY <1>1, <1>2, <2>3, FitsRegister
<1>10. CASE insn.op = "XOR"
    <2>1. IsReg(insn, r) /\ i = Constant(0)
        BY <1>10 DEF Computed
    <2> QED BY <1>10, <2>1 DEF Constant, Range, Executed
<1>11. CASE insn.op = "ADD"
    <2>1. i = Add(a, s) /\ (IsConstant(a) \/ IsConstant(s))
        BY <1>4, <1>6, <1>8, <1>11 DEF Computed, FollowsValue
    <2>2. IsConstant(a) /\ IsConstant(s) /\ i.lo = Wrap(a.lo + s.lo)
        BY <1>1, <2>1, AddSubParts
    <2>3. x = Truncated(r, Read(r) + s.lo)
        BY <1>5, <1>11, <2>2 DEF Executed
    <2>4. Read(r) + s.lo \in Int /\ Wrap(Read(r) + s.lo) = i.lo
        BY <1>3, <1>5, <1>7, <2>2
    <2> QED BY <1>1, <1>2, <2>3, <2>4, FitsRegister
<1>12. CASE insn.op = "SUB"
    <2>1. i = Sub(a, s) /\ (IsConstant(a) \/ IsConstant(s))
        BY <1>4, <1>6, <1>8, <1>12 DEF Computed, FollowsValue
    <2>2. IsConstant(a) /\ IsConstant(s) /\ i.lo = Wrap(a.lo - s.hi)
        BY <1>1, <2>1, AddSubParts
    <2>3. x = Truncated(r, Read(r) - s.lo)
        BY <1>5, <1>12, <2>2 DEF Executed
    <2>4. Read(r) - s.lo \in Int /\ Wrap(Read(r) - s.lo) = i.lo
        BY <1>3, <1>5, <1>7, <2>2
    <2> QED BY <1>1, <1>2, <2>3, <2>4, FitsRegister
<1>13. CASE insn.op = "AND"
    <2>1. i = And(a, s) /\ IsConstant(a) /\ IsConstant(s)
        BY <1>4, <1>6, <1>8, <1>13 DEF Computed, FollowsValue
    <2>2. i.lo = BitAnd(a.lo, s.lo)
        BY <1>1, <2>1, AndParts DEF Constant, Range
    <2>3. x = Truncated(r, BitAnd(Read(r), s.lo))
        BY <1>5, <1>13, <2>1 DEF Executed
    <2> QED BY <1>1, <1>2, <1>3, <2>1, <2>2, <2>3, FitsRegister
<1>14. ASSUME insn.op \in {"SHL", "SHR"}
       PROVE  /\ IsConstant(a) /\ IsConstant(c) /\ InRange(c.lo)
              /\ OperandValues(insn.src) = {c.lo} /\ c.lo \in 0 .. Bits[r] - 1
              /\ TwoTo[c.lo] \in Nat \ {0}
    <2>1. ConstantIn(r) /\ insn.src.type = "imm" /\ insn.src.imm \in 0 .. Bits[r] - 1
        BY <1>8, <1>14 DEF FollowsValue
    <2>2. c = Constant(insn.src.imm) /\ OperandValues(insn.src) = {insn.src.imm}
        BY <2>1 DEF Count, OperandValues
    <2>3. IsConstant(c) /\ c.lo = insn.src.imm
        BY <2>2 DEF Constant, Range, IsConstant
    <2>4. c.lo \in 0 .. Width /\ InRange(c.lo)
        BY <1>1, <2>1, <2>3, Widths, WidthAssumption DEF InRange
    <2> QED BY <1>4, <2>1, <2>2, <2>3, <2>4, TwoToSteps
<1>15. CASE insn.op = "SHL"
    <2>1. i \in Shl(a, c)
        BY <1>15 DEF Computed
    <2>2. i.lo = Wrap(Read(r) * TwoTo[c.lo])
        <3>1. i = Constant(Wrap(a.lo * TwoTo[c.lo]))
            BY <1>1, <1>14, <1>15, <2>1, ShiftParts
        <3> QED BY <1>3, <1>14, <1>15, <3>1 DEF Constant, Range
    <2>3. x = Truncated(r, Read(r) * TwoTo[c.lo])
        BY <1>14, <1>15 DEF Executed
    <2>4. Read(r) * TwoTo[c.lo] \in Int
        BY <1>7, <1>14, <1>15
    <2> QED BY <1>1, <1>2, <2>2, <2>3, <2>4, FitsRegister
<1>16. CASE insn.op = "SHR"
    <2>1. i \in Shr(a, c) /\ Read(r) >= 0
        BY <1>3, <1>8, <1>14, <1>16 DEF Computed, FollowsValue
    <2>2. i.lo = Read(r) \div TwoTo[c.lo]
        <3>1. i = Constant(a.lo \div TwoTo[c.lo])
            BY <1>1, <1>14, <1>16, <2>1, ShiftParts
        <3> QED BY <1>3, <1>14, <1>16, <3>1 DEF Constant, Range
    <2>3. x = Truncated(r, (Read(r) % TwoTo[Bits[r]]) \div TwoTo[c.lo])
        BY <1>14, <1>16 DEF Executed
    <2>4. Read(r) % TwoTo[Bits[r]] = Read(r)
        <3>1. /\ TwoTo[Bits[r]] = 2 * HalfOf(r) /\ HalfOf(r) \in Nat \ {0}
              /\ ValueOf(r) = -HalfOf(r) .. HalfOf(r) - 1
            BY <1>1, <1>7, Widths, TruncatedSigned
        <3>2. TwoTo[Bits[r]] \in Nat \ {0} /\ Read(r) \in 0 .. TwoTo[Bits[r]] - 1
            BY <1>7, <2>1, <3>1
        <3> QED BY <3>2, LowPartOfNat
    <2> QED BY <1>1, <1>2, <2>2, <2>3, <2>4, FitsRegister
<1> QED BY <1>9, <1>10, <1>11, <1>12, <1>13, <1>15, <1>16 DEF Tracked

\* A write to a register leaves in it a value the instruction may leave there, and
\* the registers of other bits as they are.
LEMMA WriteParts ==
    ASSUME IntervalTypeOK, NEW w \in Registers, NEW values, regs' \in WriteRegister(w, values)
    PROVE  /\ regs' \in [{Full[r] : r \in Registers} -> Value]
           /\ Read(w)' \in values
           /\ \A r \in Registers : Full[r] # Full[w] => Read(r)' = Read(r)
<1>1. PICK v \in {u \in Value : Truncated(w, u) \in values} : regs' = [regs EXCEPT ![Full[w]] = v]
    BY DEF WriteRegister
<1>2. regs \in [{Full[r] : r \in Registers} -> Value] /\ Full[w] \in {Full[r] : r \in Registers}
    BY DEF IntervalTypeOK
<1>3. regs' \in [{Full[r] : r \in Registers} -> Value]
    BY <1>1, <1>2
<1>4. regs'[Full[w]] = v
    BY <1>1, <1>2
<1>5. \A r \in Registers : Full[r] # Full[w] => regs'[Full[r]] = regs[Full[r]]
    BY <1>1, <1>2
<1> QED BY <1>1, <1>3, <1>4, <1>5 DEF Read

\* The registers and the domain after an instruction that both have gone through.
LEMMA InstructionAgrees ==
    ASSUME IntervalTypeOK, Agrees, NEW insn \in Insns, Follows(insn),
           insn.op \notin Conditions \cup {"JMP"},
           domain' \in ApplyInstruction(domain, insn), regs' \in Execute(insn)
    PROVE  Agrees'
<1>1. IsDomain(domain)
    BY DEF IntervalTypeOK, IsDomain
<1>2. IsDomain(domain')
    BY <1>1, ApplyParts
<1> SUFFICES ASSUME NEW r \in DOMAIN domain', IsConstant(domain'[r])
             PROVE  Read(r)' = domain'[r].lo
    BY DEF Agrees
<1>3. r \in Registers
    BY <1>2 DEF IsDomain
<1>4. \/ insn.op \in Tracked /\ r = insn.dst /\ domain'[r] \in Computed(domain, insn)
      \/ /\ ConstantIn(r) /\ domain'[r] = domain[r] /\ Read(r) = domain[r].lo
         /\ r \in Written(insn) =>
               \/ insn.op \in Tracked /\ Computed(domain, insn) = {}
               \/ insn.op = "other" /\ r \in ZeroKept /\ domain[r] = Constant(0)
    BY <1>1, ApplyParts DEF Agrees, ConstantIn
<1>5. FollowsValue(insn) /\ FollowsNames(insn)
    BY DEF Follows
\* Another name of a register that is written is not known to be constant.
<1>6. ASSUME ConstantIn(r), domain'[r] = domain[r], Read(r) = domain[r].lo,
             NEW w \in Registers, Changed(insn) = {w}, r # w,
             NEW values, regs' \in WriteRegister(w, values)
      PROVE  Read(r)' = domain'[r].lo
    <2>1. Full[r] # Full[w]
        BY <1>3, <1>5, <1>6 DEF FollowsNames
    <2> QED BY <1>3, <1>6, <2>1, WriteParts
<1>7. CASE insn.op \in Tracked
    <2>1. /\ regs' \in WriteRegister(insn.dst, Executed(insn)) /\ insn.dst \in Registers
          /\ Written(insn) = {insn.dst} /\ Changed(insn) = {insn.dst}
        BY <1>7, InsnParts DEF Execute, Written, Changed, Tracked
    <2>2. Read(insn.dst)' \in Executed(insn)
        BY <2>1, WriteParts
    <2>3. CASE r = insn.dst /\ domain'[r] \in Computed(domain, insn)
        BY <1>7, <2>2, <2>3, ComputedIsExecuted
    <2>4. CASE r = insn.dst /\ Computed(domain, insn) = {} /\ ConstantIn(r)
        \* A move or exclusive or that computes nothing is followed over no constant.
        <3>1. /\ insn.op = "MOV" => insn.src.type # "imm"
              /\ insn.op = "XOR" => ~ IsReg(insn, insn.dst)
              /\ insn.op \notin {"ADD", "SUB", "AND"}
            BY <2>4 DEF Computed
        <3>2. insn.op \notin {"SHL", "SHR"}
            <4> SUFFICES ASSUME insn.op \in {"SHL", "SHR"} PROVE FALSE
                OBVIOUS
            <4> DEFINE a == GetRegisterInterval(domain, insn.dst)
            <4> DEFINE c == Count(insn.src)
            <4>1. insn.src.type = "imm" /\ insn.src.imm \in 0 .. Bits[insn.dst] - 1
                BY <1>5 DEF FollowsValue
            <4>2. a \in Interval /\ c \in Interval /\ IsConstant(a)
                BY <1>1, <1>7, <2>4, SourceParts DEF ConstantIn, GetRegisterInterval
            <4>3. c = Constant(insn.src.imm)
                BY <4>1 DEF Count
            <4>4. IsConstant(c) /\ c.lo = insn.src.imm
                BY <4>3 DEF Constant, Range, IsConstant
            <4>5. InRange(c.lo)
                BY <2>1, <4>1, <4>4, Widths, WidthAssumption DEF InRange
            <4>6. Shl(a, c) # {} /\ Shr(a, c) # {}
                BY <4>2, <4>4, <4>5, ShiftParts
            <4>7. Computed(domain, insn) = Shl(a, c) \/ Computed(domain, insn) = Shr(a, c)
                BY DEF Computed
            <4> QED BY <2>4, <4>6, <4>7
        <3>3. insn.op = "MOV" \/ insn.op = "XOR"
            BY <1>7, <3>1, <3>2 DEF Tracked
        <3>4. ~ ConstantIn(insn.dst)
            BY <1>5, <3>1, <3>3 DEF FollowsValue
        <3> QED BY <2>4, <3>4
    <2>5. CASE r # insn.dst
        BY <1>4, <1>6, <2>1, <2>5
    <2> QED BY <1>4, <1>7, <2>1, <2>3, <2>4, <2>5 DEF Tracked
<1>8. CASE insn.op = "other"
    <2>1. /\ insn.op \notin Tracked /\ Written(insn) = {insn.dst} /\ insn.dst \in Registers
          /\ Changed(insn) = {insn.dst}
          /\ regs' \in WriteRegister(insn.dst, ValueOf(insn.dst))
        BY <1>8, InsnParts DEF Tracked, Written, Changed, Execute
    <2>2. r # insn.dst
        \* A zero that is kept is not followed.
        <3> SUFFICES ASSUME r = insn.dst PROVE FALSE
            OBVIOUS
        <3>1. ConstantIn(r) /\ r \in ZeroKept /\ domain[r] = Constant(0)
            BY <1>4, <2>1
        <3>2. domain[r].lo = 0
            BY <3>1 DEF Constant, Range
        <3> QED BY <1>5, <1>8, <3>1, <3>2 DEF FollowsValue
    <2> QED BY <1>4, <1>6, <2>1, <2>2
<1>9. CASE insn.op = "call"
    <2>1. insn.op \notin Tracked
        BY <1>9 DEF Tracked
    <2>2. PICK f \in [Volatile -> Value] :
              regs' = [x \in DOMAIN regs |-> IF x \in Volatile THEN f[x] ELSE regs[x]]
        BY <1>9, <2>1 DEF Execute
    <2>3. ConstantIn(r) /\ domain'[r] = domain[r] /\ Read(r) = domain[r].lo
        BY <1>4, <2>1
    <2>4. Full[r] \notin Volatile /\ Full[r] \in DOMAIN regs
        BY <1>3, <1>5, <1>9, <2>3, ReadType DEF FollowsValue
    <2>5. regs'[Full[r]] = regs[Full[r]]
        BY <2>2, <2>4
    <2> QED BY <2>3, <2>5 DEF Read
<1>10. CASE insn.op \in {"TEST", "CMP"}
    <2>1. insn.op \notin Tracked \cup {"other", "condwrite", "call"}
        BY <1>10 DEF Tracked
    <2>2. regs' = regs
        BY <2>1 DEF Execute
    <2> QED BY <1>4, <2>1, <2>2 DEF Read
\* A conditional write is followed where there is no constant to keep.
<1>11. CASE insn.op = "condwrite"
    <2>1. /\ insn.op \notin Tracked /\ insn.op # "other" /\ insn.dst \in Registers
          /\ Changed(insn) = {insn.dst}
          /\ regs' \in WriteRegister(insn.dst, ValueOf(insn.dst))
        BY <1>11, InsnParts DEF Tracked, Changed, Execute
    <2>2. ConstantIn(r) /\ domain'[r] = domain[r] /\ Read(r) = domain[r].lo
        BY <1>4, <2>1
    <2>3. r # insn.dst
        BY <1>5, <1>11, <2>2 DEF FollowsValue
    <2> QED BY <1>6, <2>1, <2>2, <2>3
<1> QED BY <1>7, <1>8, <1>9, <1>10, <1>11, InsnParts

-----------------------------------------------------------------------------
(* The steps. *)

LEMMA AnalyzeType ==
    ASSUME IntervalTypeOK, NEW insn \in Insns, Analyze(insn)
    PROVE  /\ DOMAIN domain' \subseteq Registers /\ \A r \in DOMAIN domain' : domain'[r] \in Interval
           /\ prev' = {} \/ \E p \in Insns : Compares(p) /\ prev' = {p}
           /\ verdict' \in {{}, {TRUE}, {FALSE}} /\ count' \in 0 .. MaxInsns
<1>1. IsDomain(domain)
    BY DEF IntervalTypeOK, IsDomain
<1>2. IsDomain(domain')
    BY <1>1, ApplyParts DEF Analyze
<1>3. prev' = {} \/ (Compares(insn) /\ prev' = {insn})
    BY DEF Analyze
<1>4. verdict' \in {{}, {TRUE}, {FALSE}}
    <2>1. \A r : GetRegisterInterval(domain, r) \in Interval
        BY <1>1, IntervalParts DEF IsDomain, GetRegisterInterval
    <2>2. prev = {} \/ \E p \in Insns : prev = {p}
        BY DEF IntervalTypeOK
    <2>3. EvaluateBranch(insn.op, prev, domain) \in {{}, {TRUE}, {FALSE}}
        BY <2>1, <2>2, EvaluateType
    <2> QED BY <2>3 DEF Analyze
<1>5. count' \in 0 .. MaxInsns
    BY MaxInsnsAssumption DEF Analyze, IntervalTypeOK
<1> QED BY <1>2, <1>3, <1>4, <1>5 DEF IsDomain

LEMMA ExecuteType ==
    ASSUME IntervalTypeOK, NEW insn \in Insns, regs' \in Execute(insn)
    PROVE  regs' \in [{Full[r] : r \in Registers} -> Value]
<1>1. CASE insn.op \in Tracked
    <2>1. insn.dst \in Registers /\ regs' \in WriteRegister(insn.dst, Executed(insn))
        BY <1>1, InsnParts DEF Execute, Tracked
    <2> QED BY <2>1, WriteParts
<1>2. CASE insn.op \in {"other", "condwrite"}
    <2>1. insn.dst \in Registers /\ regs' \in WriteRegister(insn.dst, ValueOf(insn.dst))
        BY <1>2, InsnParts DEF Execute, Tracked
    <2> QED BY <2>1, WriteParts
<1>3. CASE insn.op = "call"
    <2>1. PICK f \in [Volatile -> Value] :
              regs' = [x \in DOMAIN regs |-> IF x \in Volatile THEN f[x] ELSE regs[x]]
        BY <1>3 DEF Execute, Tracked
    <2> QED BY <2>1 DEF IntervalTypeOK
<1>4. CASE insn.op \notin Tracked \cup {"other", "condwrite", "call"}
    <2>1. regs' = regs
        BY <1>4 DEF Execute
    <2> QED BY <2>1 DEF IntervalTypeOK
<1> QED BY <1>1, <1>2, <1>3, <1>4

\* A branch or a jump writes nothing and leaves the domain as it is.
LEMMA TransferKeeps ==
    ASSUME IntervalTypeOK, Agrees, NEW insn \in Insns, insn.op \in Conditions \cup {"JMP"},
           Analyze(insn), UNCHANGED regs
    PROVE  Agrees'
<1>1. insn.op \notin Tracked /\ insn.op # "other"
    BY DEF Conditions, Tracked
<1>2. IsDomain(domain) /\ domain' \in ApplyInstruction(domain, insn)
    BY DEF IntervalTypeOK, IsDomain, Analyze
<1>3. \A r \in DOMAIN domain' : r \in DOMAIN domain /\ domain'[r] = domain[r]
    BY <1>1, <1>2, ApplyParts
<1>4. \A r : Read(r)' = Read(r)
    BY DEF Read
<1> QED BY <1>3, <1>4 DEF Agrees

\* What a branch compares with zero is a number.
LEMMA Compared ==
    ASSUME IntervalTypeOK, NEW p \in Insns, Compares(p)
    PROVE  /\ p.dst \in Registers
           /\ Truncated(p.dst, Read(p.dst) - (IF p.op = "CMP" THEN p.src.imm ELSE 0)) \in Int
<1>1. p.op \in {"TEST", "CMP"} /\ (p.op = "CMP" => p.src.type = "imm")
    BY DEF Compares
<1>2. p.dst \in Registers /\ (p.op = "CMP" => p.src.imm \in Int)
    BY <1>1, InsnParts, ImmediatesAssumption, Values
<1> DEFINE k == IF p.op = "CMP" THEN p.src.imm ELSE 0
<1>3. Read(p.dst) - k \in Int
    BY <1>2, ReadType
<1> HIDE DEF k
<1>4. Truncated(p.dst, Read(p.dst) - k) \in Int
    BY <1>2, <1>3, TruncatedSigned, Values
<1> QED BY <1>2, <1>4 DEF k

LEMMA IntervalInitially == IntervalInit => ConstantsHold
<1> SUFFICES ASSUME IntervalInit PROVE ConstantsHold
    OBVIOUS
<1>1. DOMAIN domain = {} /\ count \in 0 .. MaxInsns
    BY MaxInsnsAssumption DEF IntervalInit
<1> QED BY <1>1 DEF IntervalInit, ConstantsHold, IntervalTypeOK

LEMMA IntervalStep == ConstantsHold /\ [IntervalNext]_intervalVars => ConstantsHold'
<1> SUFFICES ASSUME ConstantsHold, [IntervalNext]_intervalVars PROVE ConstantsHold'
    OBVIOUS
<1>1. IntervalTypeOK /\ (exact /\ ~ away => Agrees)
    BY DEF ConstantsHold, Agrees
<1>2. SUFFICES IntervalTypeOK' /\ (exact' /\ ~ away' => Agrees')
    BY DEF ConstantsHold, Agrees
<1>3. ASSUME NEW insn \in Insns, Instruction(insn)
      PROVE  IntervalTypeOK' /\ (exact' /\ ~ away' => Agrees')
    <2>1. Analyze(insn) /\ away' = away /\ taken' = FALSE /\ insn.op \notin Conditions \cup {"JMP"}
        BY <1>3 DEF Instruction
    <2>2. CASE away
        <3>1. UNCHANGED <<regs, exact>>
            BY <1>3, <2>2 DEF Instruction
        <3> QED BY <1>1, <2>1, <2>2, <3>1, AnalyzeType DEF IntervalTypeOK
    <2>3. CASE ~ away
        <3>1. regs' \in Execute(insn) /\ exact' = (exact /\ Follows(insn))
            BY <1>3, <2>3 DEF Instruction
        <3>2. regs' \in [{Full[r] : r \in Registers} -> Value] /\ exact' \in BOOLEAN
            BY <1>1, <3>1, ExecuteType
        <3>3. IntervalTypeOK'
            BY <1>1, <2>1, <3>2, AnalyzeType DEF IntervalTypeOK
        <3>4. domain' \in ApplyInstruction(domain, insn)
            BY <2>1 DEF Analyze
        <3>5. exact' => Agrees'
            BY <1>1, <2>1, <2>3, <3>1, <3>4, InstructionAgrees
        <3> QED BY <3>3, <3>5
    <2> QED BY <2>2, <2>3
<1>4. ASSUME NEW insn \in Insns, Branch(insn)
      PROVE  IntervalTypeOK' /\ (exact' /\ ~ away' => Agrees')
    <2>1. /\ Analyze(insn) /\ UNCHANGED <<regs, exact>> /\ insn.op \in Conditions
          /\ away' = (away \/ taken')
        BY <1>4 DEF Branch
    <2>2. taken' \in BOOLEAN
        <3>1. CASE insn.op \in Decided /\ prev # {}
            <4>1. PICK p \in Insns : Compares(p) /\ prev = {p}
                BY <1>1, <3>1 DEF IntervalTypeOK
            <4> DEFINE v == Truncated(p.dst, Read(p.dst) - (IF p.op = "CMP" THEN p.src.imm ELSE 0))
            <4>2. v \in Int
                BY <1>1, <4>1, Compared
            <4>3. MayBranch(insn.op) = {Holds(insn.op, v)}
                BY <3>1, <4>1 DEF MayBranch
            <4> HIDE DEF v
            <4>4. taken' = Holds(insn.op, v) \/ taken' = FALSE
                BY <1>4, <4>3 DEF Branch
            <4> QED BY <3>1, <4>2, <4>4, HoldsType
        <3>2. CASE ~ (insn.op \in Decided /\ prev # {})
            BY <1>4, <3>2 DEF Branch, MayBranch
        <3> QED BY <3>1, <3>2
    <2>3. IntervalTypeOK'
        BY <1>1, <2>1, <2>2, AnalyzeType DEF IntervalTypeOK
    <2>4. exact /\ ~ away => Agrees'
        BY <1>1, <2>1, TransferKeeps
    <2> QED BY <2>1, <2>3, <2>4
<1>5. ASSUME NEW insn \in Insns, Jump(insn)
      PROVE  IntervalTypeOK' /\ (exact' /\ ~ away' => Agrees')
    <2>1. Analyze(insn) /\ UNCHANGED <<regs, exact>> /\ away' = TRUE /\ taken' = FALSE
        BY <1>5 DEF Jump
    <2> QED BY <1>1, <2>1, AnalyzeType DEF IntervalTypeOK
<1>6. CASE NextBlock
    <2>1. IntervalTypeOK'
        BY <1>1, <1>6 DEF NextBlock, IntervalTypeOK
    <2>2. Agrees => Agrees'
        BY <1>6 DEF NextBlock, Agrees, Read
    <2> QED BY <1>1, <1>6, <2>1, <2>2 DEF NextBlock
<1>7. CASE UNCHANGED intervalVars
    <2>1. IntervalTypeOK'
        BY <1>1, <1>7 DEF intervalVars, machine, IntervalTypeOK
    <2>2. Agrees => Agrees'
        BY <1>7 DEF intervalVars, machine, Agrees, Read
    <2> QED BY <1>1, <1>7, <2>1, <2>2 DEF intervalVars, machine
<1> QED BY <1>3, <1>4, <1>5, <1>6, <1>7 DEF IntervalNext

-----------------------------------------------------------------------------
(* The theorems. *)

\* In every function, whatever its instructions and the width of an integer: until
\* the pass meets an instruction it does not follow, each constant of currentDomain
\* is the value of its register (AbstractInterpretationPass::ApplyInstruction).
THEOREM ConstantsHoldAlways == IntervalSpec => []ConstantsHold
BY IntervalInitially, IntervalStep, PTL DEF IntervalSpec

\* And until then a branch that follows a comparison with zero goes the way of its
\* verdict (EvaluateBranch), and OpaquePredicatePass removes a dead edge.
THEOREM VerdictsHoldAlways == IntervalSpec => VerdictsHold
<1>1. ConstantsHold /\ [IntervalNext]_intervalVars =>
        [exact /\ ~ away /\ verdict' # {} /\ (\A p \in prev : ComparesWithZero(p))
          => verdict' = {taken'}]_intervalVars
  <2> SUFFICES ASSUME ConstantsHold, IntervalNext, exact, ~ away, verdict' # {},
                      \A p \in prev : ComparesWithZero(p)
               PROVE  verdict' = {taken'}
    OBVIOUS
  <2>1. IntervalTypeOK /\ Agrees
    BY DEF ConstantsHold, Agrees
  <2>2. PICK insn \in Insns : Branch(insn)
    BY DEF IntervalNext, Instruction, Jump, NextBlock, Analyze, Conditions
  <2>3. verdict' = EvaluateBranch(insn.op, prev, domain)
    BY <2>2 DEF Branch, Analyze
  <2>4. insn.op \in Decided /\ prev # {}
    BY <2>3 DEF EvaluateBranch
  <2>5. PICK p \in Insns : Compares(p) /\ prev = {p}
    BY <2>1, <2>4 DEF IntervalTypeOK
  <2>6. IsConstant(GetRegisterInterval(domain, p.dst))
    BY <2>3, <2>5 DEF EvaluateBranch
  <2>7. p.dst \in Registers
    BY <2>1, <2>5, Compared
  <2> DEFINE v == Read(p.dst)
  <2>8. GetRegisterInterval(domain, p.dst).lo = v /\ v \in ValueOf(p.dst) /\ v \in Int
    BY <2>1, <2>6, <2>7, ConstantParts, ReadType
  <2>9. verdict' = {Holds(insn.op, v)}
    BY <2>3, <2>4, <2>5, <2>6, <2>8 DEF EvaluateBranch
  <2>10. MayBranch(insn.op) = {Holds(insn.op, v)}
    <3>1. (IF p.op = "CMP" THEN p.src.imm ELSE 0) = 0
        BY <2>5 DEF ComparesWithZero
    <3>2. Truncated(p.dst, v - 0) = v
        BY <2>7, <2>8, FitsRegister
    <3>3. Truncated(p.dst, Read(p.dst) - (IF p.op = "CMP" THEN p.src.imm ELSE 0)) = v
        BY <3>1, <3>2
    <3> QED BY <2>4, <2>5, <3>3 DEF MayBranch
  <2>11. taken' = Holds(insn.op, v)
    BY <2>2, <2>10 DEF Branch
  <2> QED BY <2>9, <2>11
<1> QED BY <1>1, ConstantsHoldAlways, PTL DEF IntervalSpec, VerdictsHold
=============================================================================
