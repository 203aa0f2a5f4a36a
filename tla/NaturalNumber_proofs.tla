------------------------ MODULE NaturalNumber_proofs ------------------------
(***************************************************************************)
(* The operators of Natural (natural.cpp) compute what the arithmetic of   *)
(* natural numbers says, whatever the number of bits of an octet, the      *)
(* length of the numbers and what their memory held before.                *)
(***************************************************************************)
EXTENDS NaturalArithmetic_proofs


-----------------------------------------------------------------------------
(***************************************************************************)
(* Part 1. Powers.                                                         *)
(***************************************************************************)

\* Powers of two grow, and faster than their exponents.
LEMMA PowersOfTwo ==
  \A i \in Nat : 2 ** i \in Nat \ {0} /\ 2 ** (i + 1) = 2 * (2 ** i) /\ i < 2 ** i
<1>1. 2 \in Nat \ {0} /\ 2 \in Int /\ 2 \in Nat \ {0, 1}  OBVIOUS
<1>2. \A i \in Nat : 2 ** i \in Nat \ {0}  BY <1>1, PositivePower
<1>3. \A i \in Nat : 2 ** (i + 1) = 2 * (2 ** i)  BY <1>1, Powers
<1>4. \A i \in Nat : i < 2 ** i  BY <1>1, LessThanPower
<1>5. QED  BY <1>2, <1>3, <1>4

\* How many bits a number has.
LEMMA BitLengthIs ==
  ASSUME NEW e \in Nat
  PROVE  /\ BitLength(e) \in 0 .. e /\ BitLength(e) \in Nat /\ e < 2 ** BitLength(e)
         /\ BitLength(e) = 0 \/ 2 ** (BitLength(e) - 1) <= e
<1> DEFINE Is(i) == 2 ** i > e /\ (i = 0 \/ 2 ** (i - 1) <= e)
           S == {i \in Nat : e < 2 ** i}
<1>1. e \in S  BY PowersOfTwo
<1>2. PICK j \in S : \A i \in S : j <= i
  <2>1. S \in SUBSET Nat /\ S # {}  BY <1>1
  <2> HIDE DEF S
  <2>2. QED  BY <2>1, NatHasMinimum
<1>3. j \in 0 .. e
  <2>1. j <= e /\ j \in Nat  BY <1>1, <1>2
  <2>2. QED  BY <2>1
<1>4. Is(j)
  <2>1. 2 ** j > e
    <3>1. e < 2 ** j /\ 2 ** j \in Nat  BY <1>2, PowersOfTwo
    <3>2. QED  BY <3>1
  <2>2. CASE j # 0
    <3>1. j - 1 \in Nat /\ ~(j <= j - 1)  BY <1>3, <2>2
    <3>2. ~(j - 1 \in S)  BY <1>2, <3>1
    <3>3. 2 ** (j - 1) \in Nat  BY <3>1, PowersOfTwo
    <3>4. ~(e < 2 ** (j - 1))  BY <3>1, <3>2
    <3>5. 2 ** (j - 1) <= e  BY <3>3, <3>4
    <3>6. QED  BY <2>1, <3>5
  <2>3. QED  BY <2>1, <2>2
<1>5. BitLength(e) = CHOOSE i \in 0 .. e : Is(i)  BY DEF BitLength
<1> HIDE DEF Is
<1>6. BitLength(e) \in 0 .. e /\ Is(BitLength(e))  BY <1>3, <1>4, <1>5
<1> DEFINE b == BitLength(e)
<1> HIDE DEF b
<1>7. b \in 0 .. e /\ Is(b)  BY <1>6 DEF b
<1>8. b \in Nat /\ 2 ** b \in Nat  BY <1>7, PowersOfTwo
<1>9. e < 2 ** b /\ (b = 0 \/ 2 ** (b - 1) <= e)  BY <1>7, <1>8 DEF Is
<1>10. QED  BY <1>7, <1>8, <1>9 DEF b

\* No other length is that of a number.
LEMMA BitLengthIsUnique ==
  ASSUME NEW e \in Nat, NEW k \in Nat, e < 2 ** k, k = 0 \/ 2 ** (k - 1) <= e
  PROVE  BitLength(e) = k
<1> DEFINE b == BitLength(e)
<1>1. b \in Nat /\ e < 2 ** b /\ (b = 0 \/ 2 ** (b - 1) <= e)  BY BitLengthIs
<1> HIDE DEF b
<1>2. \A i, j \in Nat : e < 2 ** i /\ (j = 0 \/ 2 ** (j - 1) <= e) => j <= i
  <2> SUFFICES ASSUME NEW i \in Nat, NEW j \in Nat, e < 2 ** i, j = 0 \/ 2 ** (j - 1) <= e, ~(j <= i)
               PROVE  FALSE
    OBVIOUS
  <2>1. j - 1 \in Nat /\ i <= j - 1 /\ j # 0  OBVIOUS
  <2>2. 2 ** i <= 2 ** (j - 1)
    <3>1. CASE i = j - 1
      <4>1. 2 ** i \in Nat  BY PowersOfTwo
      <4>2. QED  BY <3>1, <4>1
    <3>2. CASE i # j - 1
      <4>1. i < j - 1 /\ 2 \in Nat \ {0, 1}  BY <2>1, <3>2
      <4>2. 2 ** i < 2 ** (j - 1)  BY <2>1, <4>1, PowersGrow
      <4>3. 2 ** i \in Nat /\ 2 ** (j - 1) \in Nat  BY <2>1, PowersOfTwo
      <4>4. QED  BY <4>2, <4>3
    <3>3. QED  BY <3>1, <3>2
  <2>3. 2 ** i \in Nat /\ 2 ** (j - 1) \in Nat  BY <2>1, PowersOfTwo
  <2>4. QED  BY <2>1, <2>2, <2>3
<1>3. b <= k /\ k <= b  BY <1>1, <1>2
<1>4. b = k  BY <1>1, <1>3
<1>5. QED  BY <1>4 DEF b

\* The lowest bits of a number, one more.
LEMMA LowestBits ==
  ASSUME NEW e \in Nat, NEW i \in Nat
  PROVE  /\ e % (2 ** i) \in Nat /\ e % (2 ** 0) = 0
         /\ BitSet(e, i) => e % (2 ** (i + 1)) = (2 ** i) + (e % (2 ** i))
         /\ ~BitSet(e, i) => e % (2 ** (i + 1)) = e % (2 ** i)
         /\ e < 2 ** i => e % (2 ** i) = e
<1> DEFINE p == 2 ** i
           b == (e \div p) % 2
<1>1. p \in Nat \ {0} /\ 2 ** (i + 1) = 2 * p /\ 2 ** 0 = 1
  <2>1. 2 ** 0 = 1
    <3>1. 2 \in Int  OBVIOUS
    <3>2. QED  BY <3>1, Powers
  <2>2. QED  BY <2>1, PowersOfTwo
<1> HIDE DEF p
<1>2. e \in Int /\ 2 \in Nat \ {0}  OBVIOUS
<1>3. e % (p * 2) = p * b + (e % p)  BY <1>1, <1>2, DivisionTwice
<1>4. e \div p \in Int /\ e % p \in 0 .. p - 1  BY <1>1, <1>2, Division
<1>5. b \in 0 .. 2 - 1  BY <1>2, <1>4, Division
<1>6. e % 1 = 0  BY <1>2
<1>7. p * 2 = 2 * p /\ p * 1 = p /\ p * 0 = 0 /\ e % p \in Nat  BY <1>1, <1>4
<1>8. BitSet(e, i) <=> b = 1  BY DEF BitSet, p
<1> HIDE DEF b
<1>9. e < p => e % p = e  BY <1>1, SmallDividend
<1> DEFINE r == e % p
           l == e % (2 ** (i + 1))
<1>10. l = p * b + r /\ r \in Nat /\ p \in Nat  BY <1>1, <1>3, <1>7
<1> HIDE DEF r, l
<1>11. b = 1 => l = p + r  BY <1>7, <1>10
<1>12. b # 1 => l = r
  <2>1. b # 1 => b = 0  BY <1>5
  <2>2. 0 + r = r  BY <1>10
  <2>3. QED  BY <1>7, <1>10, <2>1, <2>2
<1>13. QED  BY <1>1, <1>6, <1>7, <1>8, <1>9, <1>11, <1>12 DEF p, r, l

\* The numbers a power is made from.
Numbers == {n \in [mem : Memory, payload : Nat] : IsNumber(n)}

\* These are all numbers there are.
LEMMA NumbersAre == \A n : IsNumber(n) <=> n \in Numbers
  BY DEF Numbers, IsNumber

\* A number of one octet that is one.
LEMMA OneIs ==
  ASSUME NEW n, IsNumber(n)
  PROVE  1 \in Fixnum /\ Means(replaced_by_fixnum(n, 1), 1)
<1>a. Base \in Nat \ {0, 1} /\ W \in Nat /\ W \in Nat \ {0, 1}  BY BaseIs
<1>1. 1 \in Nat /\ Base ** 1 = Base /\ 1 < Base ** 1  BY <1>a, BasePowers
<1>2. 1 \in Fixnum
  <2>1. 1 <= W  BY <1>a
  <2>2. Base ** 1 <= Base ** W /\ Base ** W \in Nat  BY <1>a, <1>1, <2>1, BasePowers
  <2>3. QED  BY <1>a, <1>1, <2>2 DEF Fixnum
<1>3. FixnumSize(1) <= 1  BY <1>1, <1>2, FewOctets
<1>4. n.mem \in Memory /\ Len(n.mem) >= 1 /\ Len(n.mem) \in Nat  BY NumberHas
<1>5. FixnumSize(1) <= Len(n.mem)
  <2>1. FixnumSize(1) \in 0 .. W  BY <1>2, FixnumIs
  <2>2. QED  BY <1>3, <1>4, <1>a, <2>1
<1>6. QED  BY <1>2, <1>4, <1>5, ReplacedByFixnum

\* expt.
LEMMA ExptIs ==
  ASSUME NEW n, IsNumber(n), NEW e \in Nat, NEW f \in Octet
  PROVE  Means(expt(n, e, f), Value(n) ** e)
<1> DEFINE k == BitLength(e)
           one == replaced_by_fixnum(n, 1)
           N == Value(n)
           start == [me |-> one, z |-> Copy(n, f)]
           next(i, q) == [me |-> IF BitSet(e, i - 1) THEN TimesNatural(q.me, q.z, f) ELSE q.me,
                          z |-> TimesNatural(q.z, q.z, f)]
           p == CHOOSE g : g = [i \in 0 .. k |-> IF i = 0 THEN start ELSE next(i, g[i - 1])]
           S == [me : Numbers, z : Numbers]
<1>1. expt(n, e, f) = p[k].me  BY DEF expt
<1>2. k \in Nat /\ e < 2 ** k  BY BitLengthIs
<1> HIDE DEF k
<1>3. N \in Nat /\ N \in Int  BY NumberHas
<1> HIDE DEF N
<1>4. start \in S /\ start.me = one /\ start.z = Copy(n, f) /\ Value(one) = 1 /\ Value(Copy(n, f)) = N
  <2>1. Means(one, 1)  BY OneIs
  <2>2. Means(Copy(n, f), N)  BY CopyIs DEF N
  <2> HIDE DEF one
  <2>3. one \in Numbers /\ Copy(n, f) \in Numbers  BY <2>1, <2>2, NumbersAre DEF Means
  <2>4. QED  BY <2>1, <2>2, <2>3 DEF Means
<1> HIDE DEF start, one
<1>5. \A q \in S : IsNumber(q.me) /\ IsNumber(q.z)  BY NumbersAre
<1>6. \A q \in S, i \in 1 .. k : next(i, q) \in S
  <2> SUFFICES ASSUME NEW q \in S, NEW i \in 1 .. k PROVE next(i, q) \in S  OBVIOUS
  <2>1. IsNumber(q.me) /\ IsNumber(q.z)  BY <1>5
  <2>2. Means(TimesNatural(q.me, q.z, f), Value(q.me) * Value(q.z))  BY <2>1, TimesNaturalIs
  <2>3. Means(TimesNatural(q.z, q.z, f), Value(q.z) * Value(q.z))  BY <2>1, TimesNaturalIs
  <2>4. TimesNatural(q.me, q.z, f) \in Numbers /\ TimesNatural(q.z, q.z, f) \in Numbers /\ q.me \in Numbers
    BY <2>1, <2>2, <2>3, NumbersAre DEF Means
  <2>5. QED  BY <2>4
<1> DEFINE step == [i \in 1 .. k |-> [q \in S |-> next(i, q)]]
<1>7. step \in [1 .. k -> [S -> S]] /\ \A i \in 1 .. k, q \in S : step[i][q] = next(i, q)  BY <1>6
<1> HIDE DEF step, S
<1>8. PICK g \in [0 .. k -> S] : Computed(g, k, start, step)  BY <1>2, <1>4, <1>7, Chain
<1>9. p = [i \in 0 .. k |-> IF i = 0 THEN start ELSE next(i, p[i - 1])]
  <2>1. g = [i \in 0 .. k |-> IF i = 0 THEN start ELSE step[i][g[i - 1]]]  BY <1>8 DEF Computed
  <2>2. ASSUME NEW i \in 0 .. k
        PROVE  (IF i = 0 THEN start ELSE step[i][g[i - 1]]) = IF i = 0 THEN start ELSE next(i, g[i - 1])
    <3>1. i # 0 => i \in 1 .. k /\ i - 1 \in 0 .. k  BY <1>2
    <3>2. i # 0 => g[i - 1] \in S  BY <1>8, <3>1
    <3> HIDE DEF next
    <3>3. QED  BY <1>7, <3>1, <3>2
  <2> HIDE DEF next
  <2>3. g = [i \in 0 .. k |-> IF i = 0 THEN start ELSE next(i, g[i - 1])]  BY <2>1, <2>2
  <2>4. QED  BY <2>3
<1> HIDE DEF p
<1>10. p[0] = start /\ \A i \in 1 .. k : p[i] = next(i, p[i - 1])
  <2>1. 0 \in 0 .. k /\ \A i \in 1 .. k : i \in 0 .. k /\ i # 0  BY <1>2
  <2> HIDE DEF next
  <2>2. QED  BY <1>9, <2>1
<1> DEFINE Good == {i \in Nat : /\ p[i] \in S /\ Value(p[i].me) = N ** (e % (2 ** i))
                                /\ Value(p[i].z) = N ** (2 ** i)}
<1>a. \A i, j \in Nat : N ** (i + j) = (N ** i) * (N ** j)  BY <1>3, PowerOfSum
<1>b. N ** 0 = 1 /\ N ** 1 = N
  <2>1. N ** 0 = 1 /\ N ** (0 + 1) = N * (N ** 0)  BY <1>3, Powers
  <2>2. QED  BY <1>3, <2>1
<1>11. 0 \in Good
  <2>1. e % (2 ** 0) = 0 /\ 2 ** 0 = 1
    <3>1. 2 ** 0 = 1
      <4>1. 2 \in Int  OBVIOUS
      <4>2. QED  BY <4>1, Powers
    <3>2. 0 \in Nat  OBVIOUS
    <3>3. e % (2 ** 0) = 0  BY <3>2, LowestBits
    <3>4. QED  BY <3>1, <3>3
  <2>2. p[0] \in S /\ Value(p[0].me) = 1 /\ Value(p[0].z) = N  BY <1>4, <1>10
  <2>3. N ** (e % (2 ** 0)) = 1 /\ N ** (2 ** 0) = N  BY <1>b, <2>1
  <2>4. QED  BY <2>2, <2>3
<1>12. ASSUME NEW i \in 1 .. k, i - 1 \in Good PROVE i \in Good
  <2> DEFINE q == p[i - 1]
             j == i - 1
  <2>1. j \in Nat /\ j + 1 = i /\ i \in Nat  BY <1>2
  <2>2. q \in S /\ Value(q.me) = N ** (e % (2 ** j)) /\ Value(q.z) = N ** (2 ** j)  BY <1>12
  <2>3. IsNumber(q.me) /\ IsNumber(q.z)  BY <1>5, <2>2 DEF S
  <2>4. Means(TimesNatural(q.me, q.z, f), Value(q.me) * Value(q.z))  BY <2>3, TimesNaturalIs
  <2>5. Means(TimesNatural(q.z, q.z, f), Value(q.z) * Value(q.z))  BY <2>3, TimesNaturalIs
  <2>6. p[i] = next(i, q) /\ p[i] \in S
    <3>1. p[i] = next(i, q)  BY <1>10
    <3> HIDE DEF next, q
    <3>2. QED  BY <1>6, <2>2, <3>1 DEF S
  <2>7. p[i].z = TimesNatural(q.z, q.z, f)
        /\ p[i].me = IF BitSet(e, j) THEN TimesNatural(q.me, q.z, f) ELSE q.me
    BY <2>6
  <2>8. 2 ** j \in Nat /\ 2 ** i = 2 ** j + 2 ** j /\ e % (2 ** j) \in Nat
    <3>1. 2 ** j \in Nat /\ 2 ** (j + 1) = 2 * (2 ** j)  BY <2>1, PowersOfTwo
    <3>2. e % (2 ** j) \in Nat  BY <2>1, LowestBits
    <3>3. QED  BY <2>1, <3>1, <3>2
  <2>9. Value(p[i].z) = N ** (2 ** i)
    <3>1. Value(p[i].z) = (N ** (2 ** j)) * (N ** (2 ** j))  BY <2>2, <2>5, <2>7 DEF Means
    <3>2. N ** (2 ** j + 2 ** j) = (N ** (2 ** j)) * (N ** (2 ** j))  BY <1>a, <2>8
    <3>3. QED  BY <2>8, <3>1, <3>2
  <2> HIDE DEF q, j
  <2>10. Value(p[i].me) = N ** (e % (2 ** i))
    <3>1. CASE BitSet(e, j)
      <4>1. e % (2 ** i) = (2 ** j) + (e % (2 ** j))
        <5>1. e % (2 ** (j + 1)) = (2 ** j) + (e % (2 ** j))  BY <2>1, <3>1, LowestBits
        <5>2. QED  BY <2>1, <5>1
      <4>2. Value(p[i].me) = (N ** (e % (2 ** j))) * (N ** (2 ** j))  BY <2>2, <2>4, <2>7, <3>1 DEF Means
      <4>3. N ** ((2 ** j) + (e % (2 ** j))) = (N ** (2 ** j)) * (N ** (e % (2 ** j)))  BY <1>a, <2>8
      <4>4. (N ** (2 ** j)) * (N ** (e % (2 ** j))) = (N ** (e % (2 ** j))) * (N ** (2 ** j))
        <5>1. \A u \in Nat : N ** u \in Int  BY <1>3, Powers
        <5>2. N ** (2 ** j) \in Int /\ N ** (e % (2 ** j)) \in Int  BY <2>8, <5>1
        <5>3. \A u, v \in Int : u * v = v * u  OBVIOUS
        <5>4. QED  BY <5>2, <5>3
      <4>5. QED  BY <4>1, <4>2, <4>3, <4>4
    <3>2. CASE ~BitSet(e, j)
      <4>1. e % (2 ** i) = e % (2 ** j)
        <5>1. e % (2 ** (j + 1)) = e % (2 ** j)  BY <2>1, <3>2, LowestBits
        <5>2. QED  BY <2>1, <5>1
      <4>2. QED  BY <2>2, <2>7, <3>2, <4>1
    <3>3. QED  BY <3>1, <3>2
  <2>11. QED  BY <2>1, <2>6, <2>9, <2>10
<1> HIDE DEF Good
<1>13. 0 .. k \subseteq Good  BY <1>2, <1>11, <1>12, UpTo
<1>14. k \in Good
  <2>1. k \in 0 .. k  BY <1>2
  <2>2. QED  BY <1>13, <2>1
<1>15. p[k] \in S /\ Value(p[k].me) = N ** (e % (2 ** k))  BY <1>14 DEF Good
<1>16. e % (2 ** k) = e  BY <1>2, LowestBits
<1>17. IsNumber(p[k].me)  BY <1>5, <1>15 DEF S
<1>18. QED  BY <1>1, <1>15, <1>16, <1>17 DEF Means, N

\* Products of remainders.
LEMMA RemainderOfProduct ==
  ASSUME NEW m \in Nat \ {0}, NEW i \in Nat, NEW j \in Nat
  PROVE  /\ ((i % m) * (j % m)) % m = (i * j) % m /\ (i % m) % m = i % m /\ i % m \in Nat
         /\ ((i % m) * j) % m = (i * j) % m
<1>1. \A k \in Nat, q \in Int : (k + m * q) % m = k % m
  <2> SUFFICES ASSUME NEW k \in Nat, NEW q \in Int PROVE (k + m * q) % m = k % m  OBVIOUS
  <2>1. k = m * (k \div m) + (k % m) /\ k \div m \in Int /\ k % m \in 0 .. m - 1  BY Division
  <2> DEFINE d == k \div m
             r == k % m
  <2> HIDE DEF d, r
  <2>2. k = m * d + r /\ d \in Int /\ r \in 0 .. m - 1 /\ r \in Int  BY <2>1 DEF d, r
  <2>3. m * (d + q) = m * d + m * q /\ m * d \in Int /\ m * q \in Int
    <3>1. \A s, t, u \in Int : s * (t + u) = s * t + s * u /\ s * t \in Int  OBVIOUS
    <3>2. QED  BY ONLY <2>2, <3>1, m \in Nat \ {0}, q \in Int
  <2>4. k + m * q = m * (d + q) + r /\ k + m * q \in Int /\ d + q \in Int  BY <2>2, <2>3
  <2>5. r = (k + m * q) % m  BY <2>2, <2>4, DivisionIsUnique
  <2>6. QED  BY <2>5 DEF r
<1>2. ASSUME NEW k \in Nat, NEW l \in Nat PROVE ((k % m) * l) % m = (k * l) % m /\ k % m \in Nat
  <2>1. k = m * (k \div m) + (k % m) /\ k \div m \in Int /\ k % m \in 0 .. m - 1  BY Division
  <2> DEFINE d == k \div m
             r == k % m
  <2> HIDE DEF d, r
  <2>2. k = m * d + r /\ d \in Int /\ r \in Nat  BY <2>1 DEF d, r
  <2>3. k * l = r * l + m * (d * l) /\ r * l \in Nat /\ d * l \in Int
    <3>1. (m * d + r) * l = r * l + m * (d * l)  BY ONLY <2>2, l \in Nat, m \in Nat \ {0}
    <3>2. \A s, t \in Nat : s * t \in Nat  OBVIOUS
    <3>3. \A s, t \in Int : s * t \in Int  OBVIOUS
    <3>4. r * l \in Nat /\ d * l \in Int  BY <2>2, <3>2, <3>3
    <3>5. QED  BY <2>2, <3>1, <3>4
  <2>4. (r * l + m * (d * l)) % m = (r * l) % m  BY <1>1, <2>3
  <2>5. (k * l) % m = (r * l) % m  BY <2>3, <2>4
  <2>6. QED  BY <2>2, <2>5 DEF r
<1>3. i % m \in Nat /\ j % m \in Nat  BY <1>2
<1>4. ((i % m) * (j % m)) % m = (i * (j % m)) % m  BY <1>2, <1>3
<1>5. ((j % m) * i) % m = (j * i) % m  BY <1>2
<1>6. \A s, t \in Nat : s * t = t * s  OBVIOUS
<1>7. (j % m) * i = i * (j % m) /\ j * i = i * j  BY <1>3, <1>6
<1>8. ((i % m) * 1) % m = (i * 1) % m
  <2>1. 1 \in Nat  OBVIOUS
  <2>2. QED  BY <1>2, <2>1
<1>9. (i % m) * 1 = i % m /\ i * 1 = i  BY <1>3
<1>10. QED  BY <1>2, <1>3, <1>4, <1>5, <1>7, <1>8, <1>9

\* Induction from all smaller numbers.
LEMMA FromAllSmaller ==
  ASSUME NEW D \in SUBSET Nat, NEW Good, \A i \in D : (\A j \in D : j < i => j \in Good) => i \in Good
  PROVE  D \subseteq Good
<1> DEFINE size == [i \in D |-> i]
<1>1. size \in [D -> Nat]  OBVIOUS
<1>2. \A i \in D : (\A j \in D : size[j] < size[i] => j \in Good) => i \in Good  OBVIOUS
<1> HIDE DEF size
<1>3. QED  BY <1>1, <1>2, Induction

\* The reference definition of a power modulo m is one.
LEMMA PowerModIs ==
  ASSUME NEW n \in Nat, NEW e \in Nat, NEW m \in Nat \ {0}
  PROVE  A!PowerMod(n, e, m) = (n ** e) % m
<1> DEFINE D == 0 .. e
           factor(i) == IF i % 2 = 1 THEN n % m ELSE 1
           next(i, half) == (((half * half) % m) * factor(i)) % m
           p == CHOOSE g : g = [i \in 0 .. e |-> IF i = 0 THEN 1 % m ELSE next(i, g[i \div 2])]
           size == [i \in D |-> i]
           start == [i \in {0} |-> 1 % m]
           half == [i \in D \ {0} |-> i \div 2]
           step == [i \in D \ {0} |-> [h \in Nat |-> next(i, h)]]
<1>1. A!PowerMod(n, e, m) = p[e]  BY DEF A!PowerMod
<1>2. \A k, l \in Nat : (k * l) % m \in Nat /\ k % m \in Nat /\ k * l \in Nat
  <2>1. \A k, l \in Nat : k * l \in Nat  OBVIOUS
  <2>2. QED  BY <2>1, RemainderOfProduct
<1>3. \A i \in D : factor(i) \in Nat  BY <1>2
<1>4. \A i \in D, h \in Nat : next(i, h) \in Nat
  <2> SUFFICES ASSUME NEW i \in D, NEW h \in Nat PROVE next(i, h) \in Nat  OBVIOUS
  <2>1. factor(i) \in Nat /\ (h * h) % m \in Nat  BY <1>2, <1>3
  <2> HIDE DEF factor
  <2>2. QED  BY <1>2, <2>1
<1>5. \A i \in D \ {0} : i \div 2 \in D /\ i \div 2 < i
  <2> SUFFICES ASSUME NEW i \in D \ {0} PROVE i \div 2 \in D /\ i \div 2 < i  OBVIOUS
  <2>1. i \in Nat /\ 0 \in Nat /\ i # 0  OBVIOUS
  <2>2. i \div 2 \in Nat /\ 2 * (i \div 2) <= i  BY <2>1, Halves
  <2>3. QED  BY <2>1, <2>2
<1>6. Recursive(D, Nat, size, {0}, start, half, step)
  <2>1. size \in [D -> Nat] /\ {0} \in SUBSET D  OBVIOUS
  <2>2. start \in [{0} -> Nat]
    <3>1. 1 % m \in Nat
      <4>1. 1 \in Nat  OBVIOUS
      <4>2. QED  BY <1>2, <4>1
    <3>2. QED  BY <3>1
  <2>3. half \in [D \ {0} -> D]  BY <1>5
  <2>4. step \in [D \ {0} -> [Nat -> Nat]]  BY <1>4
  <2>5. ASSUME NEW i \in D \ {0} PROVE size[half[i]] < size[i]
    <3>1. half[i] = i \div 2 /\ i \div 2 \in D /\ i \in D  BY <1>5
    <3>2. size[i] = i /\ size[half[i]] = i \div 2  BY <3>1
    <3>3. QED  BY <1>5, <3>2
  <2>6. QED  BY <2>1, <2>2, <2>3, <2>4, <2>5 DEF Recursive
<1>7. PICK g \in [D -> Nat] : Computes(g, D, {0}, start, half, step)  BY <1>6, Recursion
<1>8. p = [i \in 0 .. e |-> IF i = 0 THEN 1 % m ELSE next(i, p[i \div 2])]
  <2>1. ASSUME NEW i \in D PROVE g[i] = IF i = 0 THEN 1 % m ELSE next(i, g[i \div 2])
    <3>1. g[i] = IF i \in {0} THEN start[i] ELSE step[i][g[half[i]]]  BY <1>7 DEF Computes
    <3>2. CASE i = 0  BY <3>1, <3>2
    <3>3. CASE i # 0
      <4>1. half[i] = i \div 2 /\ g[i \div 2] \in Nat  BY <1>5, <1>7, <3>3
      <4> HIDE DEF half, next, D
      <4>2. step[i][g[i \div 2]] = next(i, g[i \div 2])  BY <3>3, <4>1
      <4>3. QED  BY <3>1, <3>3, <4>1, <4>2
    <3>4. QED  BY <3>2, <3>3
  <2> HIDE DEF next
  <2>2. g = [i \in 0 .. e |-> IF i = 0 THEN 1 % m ELSE next(i, g[i \div 2])]  BY <1>7, <2>1
  <2>3. QED  BY <2>2
<1> HIDE DEF p
<1> DEFINE Good == {i \in Nat : p[i] = (n ** i) % m}
<1>9. \A i \in D : (\A j \in D : j < i => j \in Good) => i \in Good
  <2> SUFFICES ASSUME NEW i \in D, \A j \in D : j < i => j \in Good PROVE i \in Good
    OBVIOUS
  <2>1. CASE i = 0
    <3>1. p[0] = 1 % m  BY <1>8
    <3>2. n ** 0 = 1
      <4>1. n \in Int  OBVIOUS
      <4>2. QED  BY <4>1, Powers
    <3>3. QED  BY <2>1, <3>1, <3>2
  <2>2. CASE i # 0
    <3> DEFINE h == i \div 2
               N == n ** h
    <3>1. h \in D /\ h < i /\ h \in Nat /\ i \in Nat  BY <1>5, <2>2
    <3>2. h \in Good  BY <3>1
    <3>3. p[h] = N % m /\ p[i] = next(i, N % m)
      <4>1. p[i] = next(i, p[h])
        <5> HIDE DEF next
        <5>1. QED  BY <1>8, <2>2
      <4>2. p[h] = N % m  BY <3>2
      <4> HIDE DEF next, N, h
      <4>3. QED  BY <4>1, <4>2
    <3>4. \A k \in Nat : n ** k \in Nat
      <4>1. CASE n = 0
        <5>1. 0 \in Int /\ n \in Int  OBVIOUS
        <5>2. \A k \in Nat : 0 ** k \in Int /\ 0 ** (k + 1) = 0 * (0 ** k) /\ 0 ** 0 = 1  BY <5>1, Powers
        <5>3. \A k \in Nat : 0 ** (k + 1) = 0
          <6> SUFFICES ASSUME NEW k \in Nat PROVE 0 ** (k + 1) = 0  OBVIOUS
          <6>1. 0 ** k \in Int /\ 0 ** (k + 1) = 0 * (0 ** k)  BY <5>2
          <6>2. \A q \in Int : 0 * q = 0  OBVIOUS
          <6>3. QED  BY <6>1, <6>2
        <5>4. \A k \in Nat : k = 0 \/ (k - 1 \in Nat /\ (k - 1) + 1 = k)  OBVIOUS
        <5>5. 0 ** 0 = 1  BY <5>1, Powers
        <5>6. ASSUME NEW k \in Nat PROVE 0 ** k \in Nat
          <6>1. CASE k = 0  BY <5>5, <6>1
          <6>2. CASE k # 0
            <7>1. k - 1 \in Nat /\ (k - 1) + 1 = k  BY <5>4, <6>2
            <7>2. 0 ** ((k - 1) + 1) = 0  BY <5>3, <7>1
            <7>3. QED  BY <7>1, <7>2
          <6>3. QED  BY <6>1, <6>2
        <5>7. QED  BY <4>1, <5>6
      <4>2. CASE n # 0
        <5>1. n \in Nat \ {0}  BY <4>2
        <5>2. QED  BY <5>1, PositivePower
      <4>3. QED  BY <4>1, <4>2
    <3>5. N \in Nat /\ n ** (h + h) = N * N /\ N * N \in Nat
      <4>1. n \in Int  OBVIOUS
      <4>2. n ** (h + h) = N * N /\ N \in Nat  BY <3>1, <3>4, <4>1, PowerOfSum
      <4>3. QED  BY <1>2, <4>2
    <3>6. ((N % m) * (N % m)) % m = (N * N) % m  BY <3>5, RemainderOfProduct
    <3>7. n ** ((h + h) + 1) = n * (N * N)
      <4>1. n \in Int /\ h + h \in Nat  BY <3>1
      <4>2. n ** ((h + h) + 1) = n * (n ** (h + h))  BY <4>1, Powers
      <4>3. QED  BY <3>5, <4>2
    <3>8. i % 2 \in {0, 1} /\ (i % 2 = 0 => i = h + h) /\ (i % 2 = 1 => i = (h + h) + 1)
      <4>1. 2 \in Nat \ {0} /\ i \in Int  BY <3>1
      <4>2. i % 2 \in 0 .. 2 - 1 /\ i = 2 * h + (i % 2)  BY <4>1, Division
      <4> HIDE DEF h
      <4>3. QED  BY <3>1, <4>2
    <3> HIDE DEF N, h
    <3>9. p[i] = (((N * N) % m) * factor(i)) % m  BY <3>3, <3>6
    <3> DEFINE sq == N * N
    <3>10. sq \in Nat /\ p[i] = ((sq % m) * factor(i)) % m /\ n ** ((h + h) + 1) = n * sq /\ n ** (h + h) = sq
      BY <3>5, <3>7, <3>9
    <3> HIDE DEF sq
    <3>11. CASE i % 2 = 1
      <4>1. factor(i) = n % m  BY <3>11
      <4>2. ((sq % m) * (n % m)) % m = (sq * n) % m  BY <3>10, RemainderOfProduct
      <4>3. sq * n = n * sq
        <5>1. \A s, t \in Nat : s * t = t * s  OBVIOUS
        <5>2. QED  BY <3>10, <5>1
      <4>4. QED  BY <3>1, <3>8, <3>10, <3>11, <4>1, <4>2, <4>3
    <3>12. CASE i % 2 = 0
      <4>1. factor(i) = 1  BY <3>12
      <4>2. (sq % m) * 1 = sq % m /\ (sq % m) % m = sq % m
        <5>1. sq % m \in Nat /\ (sq % m) % m = sq % m  BY <3>10, RemainderOfProduct
        <5>2. QED  BY <5>1
      <4>3. QED  BY <3>1, <3>8, <3>10, <3>12, <4>1, <4>2
    <3>13. QED  BY <3>8, <3>11, <3>12
  <2>3. QED  BY <2>1, <2>2
<1>10. e \in Good
  <2>1. D \in SUBSET Nat /\ e \in D  OBVIOUS
  <2>2. D \subseteq Good
    <3> HIDE DEF D, Good
    <3>1. QED  BY <1>9, <2>1, FromAllSmaller
  <2>3. QED  BY <2>1, <2>2
<1>11. QED  BY <1>1, <1>10 DEF Good

\* The remainder that takes the place of a number.
LEMMA ReducedIs ==
  ASSUME NEW n, IsNumber(n), NEW modulus, IsNumber(modulus), modulus.payload # W, Value(modulus) > 1,
         NEW f \in Octet
  PROVE  Means(Reduced(n, modulus, f), Value(n) % Value(modulus))
<1> DEFINE r == DivideNatural(n, modulus, n, "this", f)
<1>1. "this" \in Oremainders /\ "this" # "other"  BY DEF Oremainders
<1>2. DivisionIs(r, n, Value(modulus), n, "this")  BY <1>1, DivideNaturalIs
<1> HIDE DEF r
<1>3. Value(modulus) # 0
  <2>1. Value(modulus) \in Nat  BY NumberHas
  <2>2. QED  BY <2>1
<1>4. Means(r[1], Value(n) % Value(modulus))  BY <1>2, <1>3 DEF DivisionIs, Results
<1>5. QED  BY <1>4 DEF Reduced, r

\* Powers of natural numbers.
LEMMA PowerIsNatural == ASSUME NEW n \in Nat PROVE \A k \in Nat : n ** k \in Nat
<1>1. CASE n # 0
  <2>1. n \in Nat \ {0}  BY <1>1
  <2>2. QED  BY <2>1, PositivePower
<1>2. CASE n = 0
  <2>1. n \in Int  OBVIOUS
  <2> DEFINE Good == {k \in Nat : n ** k \in Nat}
  <2>2. 0 \in Good  BY <2>1, Powers
  <2>3. \A k \in Nat : k \in Good => k + 1 \in Good
    <3>1. \A q \in Int : n * q \in Nat  BY <1>2
    <3>2. QED  BY <2>1, <3>1, Powers
  <2> HIDE DEF Good
  <2>4. Nat \subseteq Good  BY <2>2, <2>3, NatIsInductive
  <2>5. QED  BY <2>4 DEF Good
<1>3. QED  BY <1>1, <1>2

\* modular_expt.
LEMMA ModularExptIs ==
  ASSUME NEW n, IsNumber(n), NEW e \in Nat, NEW modulus, IsNumber(modulus), modulus.payload # W,
         Value(modulus) > 1, NEW size \in Nat, NEW f \in Octet
  PROVE  Means(modular_expt(n, e, modulus, size, f), (Value(n) ** e) % Value(modulus))
<1> DEFINE k == BitLength(e)
           N == Value(n)
           M == Value(modulus)
           times(a, b) == Reduced(TimesNatural(a, b, f), modulus, f)
           start == [me |-> smart_prealloc(FromFixnum(1, f), size),
                     self |-> Reduced(smart_prealloc(n, size), modulus, f)]
           next(i, q) == [me |-> IF BitSet(e, i - 1) THEN times(q.me, q.self) ELSE q.me,
                          self |-> times(q.self, q.self)]
           p == CHOOSE g : g = [i \in 0 .. k |-> IF i = 0 THEN start ELSE next(i, g[i - 1])]
           S == [me : Numbers, self : Numbers]
<1>1. modular_expt(n, e, modulus, size, f)
        = IF e = 0 THEN replaced_by_fixnum(n, 1) ELSE Assign(p[k].self, p[k].me, f)
  BY DEF modular_expt
<1>2. k \in Nat /\ e < 2 ** k  BY BitLengthIs
<1> HIDE DEF k
<1>3. N \in Nat /\ N \in Int /\ M \in Nat /\ M > 1 /\ M \in Nat \ {0}
  <2>1. N \in Nat /\ M \in Nat  BY NumberHas
  <2>2. QED  BY <2>1
<1>4. size \in Nat  OBVIOUS
<1> HIDE DEF N
<1>5. \A a, b : IsNumber(a) /\ IsNumber(b) => Means(times(a, b), (Value(a) * Value(b)) % M)
  <2> SUFFICES ASSUME NEW a, NEW b, IsNumber(a), IsNumber(b)
               PROVE  Means(times(a, b), (Value(a) * Value(b)) % M)
    OBVIOUS
  <2>1. Means(TimesNatural(a, b, f), Value(a) * Value(b))  BY TimesNaturalIs
  <2> DEFINE t == TimesNatural(a, b, f)
  <2> HIDE DEF t
  <2>2. IsNumber(t) /\ Value(t) = Value(a) * Value(b)  BY <2>1 DEF Means, t
  <2>3. Means(Reduced(t, modulus, f), Value(t) % M)  BY <2>2, ReducedIs
  <2>4. QED  BY <2>2, <2>3 DEF t
<1> HIDE DEF times
<1>6. start \in S /\ Value(start.me) = 1 /\ Value(start.self) = N % M
  <2> DEFINE s == smart_prealloc(n, size)
             o == smart_prealloc(FromFixnum(1, f), size)
  <2>1. Means(s, N)  BY <1>4, SmartPreallocIs DEF N
  <2>2. Means(o, 1)
    <3>1. 1 \in Fixnum  BY OneIs
    <3>2. Means(FromFixnum(1, f), 1)  BY <3>1, FromFixnumIs
    <3> DEFINE u == FromFixnum(1, f)
    <3> HIDE DEF u
    <3>3. IsNumber(u) /\ Value(u) = 1  BY <3>2 DEF Means, u
    <3>4. Means(smart_prealloc(u, size), Value(u))  BY <1>4, <3>3, SmartPreallocIs
    <3>5. QED  BY <3>3, <3>4 DEF u
  <2> HIDE DEF s, o
  <2>3. IsNumber(s) /\ Value(s) = N /\ IsNumber(o) /\ Value(o) = 1  BY <2>1, <2>2 DEF Means
  <2>4. Means(Reduced(s, modulus, f), Value(s) % M)  BY <2>3, ReducedIs
  <2>5. start.me = o /\ start.self = Reduced(s, modulus, f) /\ start = [me |-> o, self |-> Reduced(s, modulus, f)]
    BY DEF s, o
  <2>6. o \in Numbers /\ Reduced(s, modulus, f) \in Numbers  BY <2>3, <2>4, NumbersAre DEF Means
  <2> HIDE DEF start
  <2>7. QED  BY <2>3, <2>4, <2>5, <2>6 DEF Means
<1> HIDE DEF start, M
<1>7. \A q \in S : IsNumber(q.me) /\ IsNumber(q.self)  BY NumbersAre
<1>8. \A q \in S, i \in 1 .. k : next(i, q) \in S
  <2> SUFFICES ASSUME NEW q \in S, NEW i \in 1 .. k PROVE next(i, q) \in S  OBVIOUS
  <2>1. IsNumber(q.me) /\ IsNumber(q.self)  BY <1>7
  <2>2. IsNumber(times(q.me, q.self)) /\ IsNumber(times(q.self, q.self))  BY <1>5, <2>1 DEF Means
  <2>3. times(q.me, q.self) \in Numbers /\ times(q.self, q.self) \in Numbers /\ q.me \in Numbers
    BY <2>1, <2>2, NumbersAre
  <2>4. QED  BY <2>3
<1> DEFINE step == [i \in 1 .. k |-> [q \in S |-> next(i, q)]]
<1>9. step \in [1 .. k -> [S -> S]] /\ \A i \in 1 .. k, q \in S : step[i][q] = next(i, q)  BY <1>8
<1> HIDE DEF step, S
<1>10. PICK g \in [0 .. k -> S] : Computed(g, k, start, step)  BY <1>2, <1>6, <1>9, Chain
<1>11. p = [i \in 0 .. k |-> IF i = 0 THEN start ELSE next(i, p[i - 1])]
  <2>1. g = [i \in 0 .. k |-> IF i = 0 THEN start ELSE step[i][g[i - 1]]]  BY <1>10 DEF Computed
  <2>2. ASSUME NEW i \in 0 .. k
        PROVE  (IF i = 0 THEN start ELSE step[i][g[i - 1]]) = IF i = 0 THEN start ELSE next(i, g[i - 1])
    <3>1. i # 0 => i \in 1 .. k /\ i - 1 \in 0 .. k  BY <1>2
    <3>2. i # 0 => g[i - 1] \in S  BY <1>10, <3>1
    <3> HIDE DEF next
    <3>3. QED  BY <1>9, <3>1, <3>2
  <2> HIDE DEF next
  <2>3. g = [i \in 0 .. k |-> IF i = 0 THEN start ELSE next(i, g[i - 1])]  BY <2>1, <2>2
  <2>4. QED  BY <2>3
<1> HIDE DEF p
<1>12. p[0] = start /\ \A i \in 1 .. k : p[i] = next(i, p[i - 1])
  <2>1. 0 \in 0 .. k /\ \A i \in 1 .. k : i \in 0 .. k /\ i # 0  BY <1>2
  <2> HIDE DEF next
  <2>2. QED  BY <1>11, <2>1
<1> DEFINE Good == {i \in Nat : /\ p[i] \in S /\ Value(p[i].me) = (N ** (e % (2 ** i))) % M
                                /\ Value(p[i].self) = (N ** (2 ** i)) % M}
<1>13. \A i, j \in Nat : N ** (i + j) = (N ** i) * (N ** j) /\ N ** i \in Nat
  BY <1>3, PowerOfSum, PowerIsNatural
<1>14. N ** 0 = 1 /\ N ** 1 = N
  <2>1. N ** 0 = 1 /\ N ** (0 + 1) = N * (N ** 0)  BY <1>3, Powers
  <2>2. QED  BY <1>3, <2>1
<1>15. 1 % M = 1
  <2>1. 1 \in Nat /\ 1 < M  BY <1>3
  <2>2. QED  BY <1>3, <2>1, SmallDividend
<1>16. 0 \in Good
  <2>1. e % (2 ** 0) = 0 /\ 2 ** 0 = 1
    <3>1. 2 ** 0 = 1
      <4>1. 2 \in Int  OBVIOUS
      <4>2. QED  BY <4>1, Powers
    <3>2. 0 \in Nat  OBVIOUS
    <3>3. e % (2 ** 0) = 0  BY <3>2, LowestBits
    <3>4. QED  BY <3>1, <3>3
  <2>2. p[0] \in S /\ Value(p[0].me) = 1 /\ Value(p[0].self) = N % M  BY <1>6, <1>12
  <2>3. (N ** (e % (2 ** 0))) % M = 1 /\ (N ** (2 ** 0)) % M = N % M  BY <1>14, <1>15, <2>1
  <2>4. QED  BY <2>2, <2>3
<1>17. ASSUME NEW i \in 1 .. k, i - 1 \in Good PROVE i \in Good
  <2> DEFINE q == p[i - 1]
             j == i - 1
             u == N ** (e % (2 ** j))
             v == N ** (2 ** j)
  <2>1. j \in Nat /\ j + 1 = i /\ i \in Nat  BY <1>2
  <2>2. q \in S /\ Value(q.me) = u % M /\ Value(q.self) = v % M  BY <1>17
  <2>3. IsNumber(q.me) /\ IsNumber(q.self)  BY <1>7, <2>2 DEF S
  <2>4. Means(times(q.me, q.self), (Value(q.me) * Value(q.self)) % M)  BY <1>5, <2>3
  <2>5. Means(times(q.self, q.self), (Value(q.self) * Value(q.self)) % M)  BY <1>5, <2>3
  <2>6. p[i] = next(i, q) /\ p[i] \in S
    <3>1. p[i] = next(i, q)  BY <1>12
    <3> HIDE DEF next, q
    <3>2. QED  BY <1>8, <2>2, <3>1 DEF S
  <2>7. p[i].self = times(q.self, q.self)
        /\ p[i].me = IF BitSet(e, j) THEN times(q.me, q.self) ELSE q.me
    BY <2>6
  <2>8. 2 ** j \in Nat /\ 2 ** i = 2 ** j + 2 ** j /\ e % (2 ** j) \in Nat
    <3>1. 2 ** j \in Nat /\ 2 ** (j + 1) = 2 * (2 ** j)  BY <2>1, PowersOfTwo
    <3>2. e % (2 ** j) \in Nat  BY <2>1, LowestBits
    <3>3. QED  BY <2>1, <3>1, <3>2
  <2>9. u \in Nat /\ v \in Nat  BY <1>13, <2>8
  <2>10. N ** (2 ** j + 2 ** j) = v * v /\ N ** ((2 ** j) + (e % (2 ** j))) = v * u  BY <1>13, <2>8
  <2>11. ((v % M) * (v % M)) % M = (v * v) % M  BY <1>3, <2>9, RemainderOfProduct
  <2>12. ((u % M) * (v % M)) % M = (u * v) % M  BY <1>3, <2>9, RemainderOfProduct
  <2>13. u * v = v * u
    <3>1. \A s, t \in Nat : s * t = t * s  OBVIOUS
    <3> HIDE DEF u, v
    <3>2. QED  BY <2>9, <3>1
  <2>14. (BitSet(e, j) => e % (2 ** i) = (2 ** j) + (e % (2 ** j)))
         /\ (~BitSet(e, j) => e % (2 ** i) = e % (2 ** j))
    <3>1. (BitSet(e, j) => e % (2 ** (j + 1)) = (2 ** j) + (e % (2 ** j)))
          /\ (~BitSet(e, j) => e % (2 ** (j + 1)) = e % (2 ** j))
      BY <2>1, LowestBits
    <3>2. QED  BY <2>1, <3>1
  <2>15. Value(p[i].self) = (N ** (2 ** i)) % M  BY <2>2, <2>5, <2>7, <2>8, <2>10, <2>11 DEF Means
  <2>16. Value(p[i].me) = (N ** (e % (2 ** i))) % M
    <3>1. CASE BitSet(e, j)  BY <2>2, <2>4, <2>7, <2>10, <2>12, <2>13, <2>14, <3>1 DEF Means
    <3>2. CASE ~BitSet(e, j)  BY <2>2, <2>7, <2>14, <3>2
    <3>3. QED  BY <3>1, <3>2
  <2>17. QED  BY <2>1, <2>6, <2>15, <2>16
<1> HIDE DEF Good
<1>18. 0 .. k \subseteq Good  BY <1>2, <1>16, <1>17, UpTo
<1>19. k \in Good
  <2>1. k \in 0 .. k  BY <1>2
  <2>2. QED  BY <1>18, <2>1
<1>20. p[k] \in S /\ Value(p[k].me) = (N ** (e % (2 ** k))) % M  BY <1>19 DEF Good
<1>21. e % (2 ** k) = e  BY <1>2, LowestBits
<1>22. IsNumber(p[k].me) /\ IsNumber(p[k].self)  BY <1>7, <1>20 DEF S
<1>23. Means(Assign(p[k].self, p[k].me, f), Value(p[k].me))  BY <1>22, AssignIs
<1>24. Means(replaced_by_fixnum(n, 1), 1)  BY OneIs
<1>25. e = 0 => (N ** e) % M = 1  BY <1>14, <1>15
<1>26. QED  BY <1>1, <1>20, <1>21, <1>23, <1>24, <1>25 DEF N, M

\* The overload for two numbers.
LEMMA ModularExptNaturalIs ==
  ASSUME NEW n, IsNumber(n), NEW e, IsNumber(e), NEW modulus, IsNumber(modulus),
         modulus.payload # W, is_fixnum(e) => is_fixnum(modulus), Value(modulus) > 1, NEW f \in Octet
  PROVE  Means(ModularExptNatural(n, e, modulus, f), (Value(n) ** Value(e)) % Value(modulus))
<1>1. Value(e) \in Nat  BY NumberHas
<1>2. CASE ~is_fixnum(e)
  <2> DEFINE size == 2 * modulus.payload
  <2>1. size \in Nat
    <3>1. modulus.payload \in Nat  BY NumberHas
    <3>2. QED  BY <3>1
  <2>2. ModularExptNatural(n, e, modulus, f) = modular_expt(n, Value(e), modulus, size, f)
    BY <1>2 DEF ModularExptNatural
  <2> HIDE DEF size
  <2>3. Means(modular_expt(n, Value(e), modulus, size, f), (Value(n) ** Value(e)) % Value(modulus))
    BY <1>1, <2>1, ModularExptIs
  <2>4. QED  BY <2>2, <2>3
<1>3. CASE is_fixnum(e)
  <2> DEFINE v == Value(modulus)
             m == FromFixnum(v, f)
  <2>1. modulus.payload <= W /\ modulus.payload \in Nat /\ W \in Nat
    BY <1>3, NumberHas, BaseIs DEF is_fixnum
  <2>2. fixnum64_ref0(modulus) = v /\ v \in Fixnum  BY <2>1, FixnumRefIs
  <2>3. Means(m, v)  BY <2>2, FromFixnumIs
  <2>4. m.payload = FixnumSize(v)  BY DEF FromFixnum, replaced_by_fixnum, Number
  <2>5. FixnumSize(v) <= modulus.payload
    <3>1. v < Base ** modulus.payload  BY NumberHas
    <3>2. QED  BY <2>1, <2>2, <3>1, FewOctets
  <2>6. FixnumSize(v) \in 0 .. W  BY <2>2, FixnumIs
  <2>7. m.payload # W  BY <2>1, <2>4, <2>5, <2>6
  <2> DEFINE size == 2 * W
  <2>12. size \in Nat  BY <2>1
  <2>10. ModularExptNatural(n, e, modulus, f) = modular_expt(n, Value(e), m, size, f)
    BY <1>3, <2>2 DEF ModularExptNatural
  <2> HIDE DEF v, m, size
  <2>8. IsNumber(m) /\ Value(m) = v /\ v > 1  BY <2>3 DEF Means, v
  <2>9. Means(modular_expt(n, Value(e), m, size, f), (Value(n) ** Value(e)) % Value(m))
    BY <1>1, <2>7, <2>8, <2>12, ModularExptIs
  <2>11. QED  BY <2>8, <2>9, <2>10 DEF v
<1>4. QED  BY <1>2, <1>3

-----------------------------------------------------------------------------
(***************************************************************************)
(* Part 2. Complements, shifts and the operators on bits.                  *)
(***************************************************************************)

\* The length of a number in octets.
LEMMA OctetLengthIs ==
  ASSUME NEW n, IsNumber(n)
  PROVE  A!OctetLength(Value(n)) = n.payload
<1> DEFINE v == Value(n)
           l == n.payload
           Is(k) == Base ** k > v /\ \A i \in 0 .. k - 1 : Base ** i <= v
<1>1. A!OctetLength(v) = CHOOSE k \in 0 .. v : Is(k)  BY DEF A!OctetLength, A!**, **
<1>2. l \in Nat /\ v \in Nat /\ v < Base ** l /\ (l > 0 => v >= Base ** (l - 1)) /\ (l = 0 => v = 0)
  BY NumberHas
<1> HIDE DEF v, l
<1>3. \A i \in Nat : Base ** i \in Nat /\ i < Base ** i /\ \A j \in Nat : j <= i => Base ** j <= Base ** i
  BY BaseIs, BasePowers, LessThanPower
<1>4. l \in 0 .. v
  <2>1. CASE l > 0
    <3>1. l - 1 \in Nat  BY <1>2, <2>1
    <3>2. l - 1 < Base ** (l - 1) /\ Base ** (l - 1) \in Nat  BY <1>3, <3>1
    <3>3. QED  BY <1>2, <2>1, <3>2
  <2>2. CASE l = 0  BY <1>2, <2>2
  <2>3. QED  BY <1>2, <2>1, <2>2
<1>5. Is(l)
  <2>1. Base ** l > v
    <3>1. Base ** l \in Nat  BY <1>2, <1>3
    <3>2. QED  BY <1>2, <3>1
  <2>2. ASSUME NEW i \in 0 .. l - 1 PROVE Base ** i <= v
    <3>1. i \in Nat /\ l - 1 \in Nat /\ i <= l - 1 /\ l > 0  BY <1>2
    <3>2. Base ** i <= Base ** (l - 1) /\ Base ** i \in Nat /\ Base ** (l - 1) \in Nat  BY <1>3, <3>1
    <3>3. QED  BY <1>2, <3>1, <3>2
  <2>3. QED  BY <2>1, <2>2
<1>6. \A k \in 0 .. v : Is(k) => k = l
  <2> SUFFICES ASSUME NEW k \in 0 .. v, Is(k), k # l PROVE FALSE  OBVIOUS
  <2>1. k \in Nat /\ Base ** k \in Nat /\ Base ** l \in Nat  BY <1>2, <1>3
  <2>2. CASE k < l
    <3>1. k \in 0 .. l - 1  BY <1>2, <2>1, <2>2
    <3>2. Base ** k <= v /\ Base ** k > v  BY <1>5, <3>1
    <3>3. QED  BY <1>2, <2>1, <3>2
  <2>3. CASE l < k
    <3>1. l \in 0 .. k - 1  BY <1>2, <2>1, <2>3
    <3>2. Base ** l <= v /\ Base ** l > v  BY <1>5, <3>1
    <3>3. QED  BY <1>2, <2>1, <3>2
  <2>4. QED  BY <1>2, <2>1, <2>2, <2>3
<1> HIDE DEF Is
<1>7. l = CHOOSE k \in 0 .. v : Is(k)  BY <1>4, <1>5, <1>6
<1>8. QED  BY <1>1, <1>7 DEF v, l

\* The complement of all octets.
LEMMA ComplementIs ==
  ASSUME NEW n, IsNumber(n), NEW f \in Octet
  PROVE  Means(complement(n, f), ((Base ** n.payload) - 1) - Value(n))
<1> DEFINE c == Copy(n, f)
           k == c.payload
           z == [i \in 1 .. k |-> Base - 1 - c.mem[i]]
           all == [i \in 1 .. k |-> Base - 1]
           none == [i \in 1 .. k |-> 0]
           one == [i \in 0 .. k |-> 1]
<1>1. Means(c, Value(n)) /\ k = n.payload  BY CopyIs
<1> HIDE DEF c
<1>2. IsNumber(c) /\ Value(c) = Value(n)  BY <1>1 DEF Means
<1>3. c.mem \in Memory /\ Len(c.mem) \in Nat /\ Len(c.mem) >= 1 /\ k \in 0 .. Len(c.mem) /\ k \in Nat
      /\ Ints(c.mem, k) /\ Value(c) = ValueOf(Base, c.mem, k) /\ Value(c) \in Nat
      /\ \A i \in 1 .. Len(c.mem) : c.mem[i] \in Octet
  BY <1>2, NumberHas
<1>4. Base \in Int /\ Base \in Nat \ {0, 1} /\ Octet = 0 .. Base - 1  BY BaseIs, OctetIs
<1>5. complement(n, f) = skip_leading_zeros(Write(c.mem, z), k)  BY DEF complement, c
<1> HIDE DEF k
<1>6. z \in [1 .. k -> Octet] /\ \A i \in 1 .. k : c.mem[i] \in Octet
  <2>1. \A i \in 1 .. k : c.mem[i] \in Octet  BY <1>3
  <2>2. \A o \in 0 .. Base - 1 : Base - 1 - o \in 0 .. Base - 1  BY <1>4
  <2>3. QED  BY <1>4, <2>1, <2>2
<1>7. z \in Memory /\ Len(z) = k /\ Ints(z, k)
  <2>1. z \in Memory /\ Len(z) = k  BY <1>3, <1>6, FunctionIsMemory
  <2>2. Ints(z, k)  BY <1>4, <1>6 DEF Ints
  <2>3. QED  BY <2>1, <2>2
<1>8. Combined(all, z, 1, c.mem, k)
  <2>1. \A o \in 0 .. Base - 1 : Base - 1 = (Base - 1 - o) + 1 * o  BY <1>4
  <2>2. \A i \in 1 .. k : all[i] = z[i] + 1 * c.mem[i]  BY <1>4, <1>6, <2>1
  <2>3. QED  BY <2>2 DEF Combined
<1>9. ValueOf(Base, all, k) = ValueOf(Base, z, k) + 1 * Value(c)
  <2>1. 1 \in Int /\ k \in 0 .. k  BY <1>3
  <2> HIDE DEF all, z
  <2>2. \A j \in 0 .. k : ValueOf(Base, all, j) = ValueOf(Base, z, j) + 1 * ValueOf(Base, c.mem, j)
    BY <1>3, <1>4, <1>7, <1>8, <2>1, CombinedValue
  <2>3. QED  BY <1>3, <2>1, <2>2
<1>10. ValueOf(Base, all, k) + 1 = ValueOf(Base, none, k) + 1 * (Base ** k)
  <2>1. HandedOn(Base, all, none, one, k)
    <3>1. \A i \in 0 .. k : one[i] \in Int  OBVIOUS
    <3>2. \A i \in 1 .. k : all[i] + one[i - 1] = none[i] + Base * one[i]
      <4> SUFFICES ASSUME NEW i \in 1 .. k PROVE all[i] + one[i - 1] = none[i] + Base * one[i]  OBVIOUS
      <4>1. i - 1 \in 0 .. k /\ i \in 0 .. k  BY <1>3
      <4>2. one[i - 1] = 1 /\ one[i] = 1 /\ all[i] = Base - 1 /\ none[i] = 0  BY <4>1
      <4>3. QED  BY <1>4, <4>2
    <3>3. QED  BY <3>1, <3>2 DEF HandedOn
  <2>2. Ints(all, k) /\ Ints(none, k)  BY <1>4 DEF Ints
  <2>3. one[0] = 1 /\ one[k] = 1 /\ k \in 0 .. k
    <3>1. 0 \in 0 .. k /\ k \in 0 .. k  BY <1>3
    <3>2. QED  BY <3>1
  <2> HIDE DEF all, none, one
  <2>4. \A j \in 0 .. k : ValueOf(Base, all, j) + one[0] = ValueOf(Base, none, j) + one[j] * (Base ** j)
    BY <1>3, <1>4, <2>1, <2>2, Telescope
  <2>5. QED  BY <2>3, <2>4
<1>11. ValueOf(Base, none, k) = 0
  <2>1. Zeros(none, 0 + 1, k)  BY DEF Zeros
  <2>2. Ints(none, k)  BY DEF Ints
  <2>3. Ints(none, 0)  BY DEF Ints
  <2> HIDE DEF none
  <2>4. 0 \in 0 .. k  BY <1>3
  <2>5. ValueOf(Base, none, k) = ValueOf(Base, none, 0)  BY <1>3, <1>4, <2>1, <2>2, <2>4, ZerosAbove
  <2>6. ValueOf(Base, none, 0) = 0  BY <1>3, <1>4, <2>2, Values
  <2>7. QED  BY <2>5, <2>6
<1>12. Base ** k \in Nat  BY <1>3, BasePowers
<1>13. ValueOf(Base, z, k) = ((Base ** k) - 1) - Value(n)
  <2>1. ValueOf(Base, z, k) \in Int /\ ValueOf(Base, all, k) \in Int
    <3>1. Ints(all, k) /\ k \in 0 .. k  BY <1>3, <1>4 DEF Ints
    <3> HIDE DEF all, z
    <3>2. QED  BY <1>3, <1>4, <1>7, <3>1, Values
  <2> HIDE DEF all, none, z
  <2>2. QED  BY <1>2, <1>3, <1>9, <1>10, <1>11, <1>12, <2>1
<1> HIDE DEF z
<1> DEFINE mem == Write(c.mem, z)
<1>14. mem \in Memory /\ Len(mem) = Len(c.mem) /\ \A i \in 1 .. k : mem[i] = z[i]
  <2>1. Len(z) <= Len(c.mem)  BY <1>3, <1>7
  <2>2. mem \in Memory /\ Len(mem) = Len(c.mem)
        /\ \A i \in 1 .. Len(c.mem) : mem[i] = IF i <= Len(z) THEN z[i] ELSE c.mem[i]
    BY <1>3, <1>7, <2>1, WriteIs
  <2>3. QED  BY <1>3, <1>7, <2>2
<1> HIDE DEF mem
<1>15. ValueOf(Base, z, k) = ValueOf(Base, mem, k)
  <2>1. Same(z, mem, k)  BY <1>14 DEF Same
  <2>2. QED  BY <1>3, <1>4, <1>7, <2>1, SameDigits
<1>16. Means(skip_leading_zeros(mem, k), ValueOf(Base, mem, k))
  <2>1. k \in 0 .. Len(mem) /\ Len(mem) >= 1  BY <1>3, <1>14
  <2>2. QED  BY <1>14, <2>1, SkipIs
<1>17. QED  BY <1>1, <1>5, <1>13, <1>15, <1>16 DEF mem

\* An octet in two parts, of so many bits and of the others.
Parted(P, Q) ==
  /\ P \in Nat \ {0} /\ Q \in Nat \ {0} /\ P * Q = Base
  /\ \A o \in Octet :
       /\ (o * P) % Base = P * (o % Q) /\ (o * P) \div Base = o \div Q
       /\ o % Q \in 0 .. Q - 1 /\ o \div Q \in 0 .. P - 1
       /\ o % P \in 0 .. P - 1 /\ o \div P \in 0 .. Q - 1 /\ o = P * (o \div P) + (o % P)

\* So does the number of bits a shift crosses octets by.
LEMMA PartedIs ==
  ASSUME NEW bits \in 0 .. Bits - 1
  PROVE  Parted(2 ** bits, 2 ** (Bits - bits))
<1> DEFINE P == 2 ** bits
           Q == 2 ** (Bits - bits)
<1>1. bits \in Nat /\ Bits - bits \in Nat /\ bits + (Bits - bits) = Bits  BY BaseIs
<1>2. P \in Nat \ {0} /\ Q \in Nat \ {0}  BY <1>1, PowersOfTwo
<1>3. P * Q = Base
  <2>1. 2 \in Int  OBVIOUS
  <2>2. 2 ** (bits + (Bits - bits)) = P * Q  BY <1>1, <2>1, PowerOfSum
  <2>3. QED  BY <1>1, <2>2 DEF Base
<1> HIDE DEF P, Q
<1>4. \A s, t \in Nat : s * t = t * s /\ s * t \in Nat  OBVIOUS
<1>5. ASSUME NEW o \in Octet
      PROVE  /\ (o * P) % Base = P * (o % Q) /\ (o * P) \div Base = o \div Q
             /\ o % Q \in 0 .. Q - 1 /\ o \div Q \in 0 .. P - 1
             /\ o % P \in 0 .. P - 1 /\ o \div P \in 0 .. Q - 1 /\ o = P * (o \div P) + (o % P)
  <2>1. o \in Nat /\ o < Base /\ o \in Int  BY BaseIs, OctetIs
  <2>2. o * P \in Nat /\ o * P = P * o  BY <1>2, <1>4, <2>1
  <2> DEFINE n == o * P
  <2>3. n \div P = o /\ n % P = 0
    <3>1. n = P * o + 0 /\ n \in Int /\ 0 \in 0 .. P - 1  BY <1>2, <2>2
    <3> HIDE DEF n
    <3>2. o = n \div P /\ 0 = n % P  BY <1>2, <2>1, <3>1, DivisionIsUnique
    <3>3. QED  BY <3>2
  <2>4. n \in Int  BY <2>2
  <2> HIDE DEF n
  <2>5. (n \div P) \div Q = n \div (P * Q) /\ n % (P * Q) = P * ((n \div P) % Q) + (n % P)
    BY <1>2, <2>4, DivisionTwice
  <2>6. o % Q \in 0 .. Q - 1 /\ o % P \in 0 .. P - 1 /\ o = P * (o \div P) + (o % P)
    BY <1>2, <2>1, Division
  <2>7. o \div Q < P /\ o \div Q \in Nat /\ o \div P < Q /\ o \div P \in Nat
    <3>1. o < P * Q /\ o < Q * P  BY <1>2, <1>3, <1>4, <2>1
    <3>2. P <= P /\ Q <= Q  BY <1>2
    <3>3. o \div Q < P /\ o \div Q \in Nat  BY <1>2, <2>1, <3>1, <3>2, PartsAreSmaller
    <3>4. o \div P < Q /\ o \div P \in Nat  BY <1>2, <2>1, <3>1, <3>2, PartsAreSmaller
    <3>5. QED  BY <3>3, <3>4
  <2>8. n % Base = P * (o % Q) /\ n \div Base = o \div Q
    <3>1. n % Base = P * (o % Q) + 0  BY <1>3, <2>3, <2>5
    <3>2. P * (o % Q) \in Nat
      <4>1. o % Q \in Nat  BY <2>6
      <4>2. QED  BY <1>2, <1>4, <4>1
    <3>3. n \div Base = o \div Q  BY <1>3, <2>3, <2>5
    <3>4. QED  BY <3>1, <3>2, <3>3
  <2>9. o \div Q \in 0 .. P - 1 /\ o \div P \in 0 .. Q - 1  BY <1>2, <2>7
  <2>10. QED  BY <2>6, <2>8, <2>9 DEF n
<1>6. Parted(P, Q)  BY <1>2, <1>3, <1>5 DEF Parted
<1>7. QED  BY <1>6 DEF P, Q

\* Two parts of octets make an octet.
LEMMA JoinedIs ==
  ASSUME NEW P, NEW Q, Parted(P, Q), NEW h \in 0 .. Q - 1, NEW l \in 0 .. P - 1
  PROVE  P * h + l \in Octet /\ l * Q + h \in Octet /\ (l # 0 => l * Q + h # 0)
<1>1. P \in Nat \ {0} /\ Q \in Nat \ {0} /\ P * Q = Base /\ Octet = 0 .. Base - 1
  BY OctetIs DEF Parted
<1>2. \A s, t \in Int : s * t = t * s /\ s * t \in Int  OBVIOUS
<1>3. Q * P = Base /\ P * h = h * P  BY <1>1, <1>2
<1>4. h * P \in Int /\ h * P + P <= Q * P /\ 0 * P <= h * P
  <2>1. \A i, j \in Int : i * P \in Int /\ (i < j => i * P + P <= j * P) /\ (i <= j => i * P <= j * P)
    BY <1>1, Multiples
  <2>2. h \in Int /\ Q \in Int /\ 0 \in Int /\ h < Q /\ 0 <= h  BY <1>1
  <2>3. QED  BY <2>1, <2>2
<1>5. l * Q \in Int /\ l * Q + Q <= P * Q /\ 0 * Q <= l * Q /\ (0 < l => 0 * Q + Q <= l * Q)
  <2>1. \A i, j \in Int : i * Q \in Int /\ (i < j => i * Q + Q <= j * Q) /\ (i <= j => i * Q <= j * Q)
    BY <1>1, Multiples
  <2>2. l \in Int /\ P \in Int /\ 0 \in Int /\ l < P /\ 0 <= l  BY <1>1
  <2>3. QED  BY <2>1, <2>2
<1>6. Base \in Nat /\ 0 * P = 0 /\ 0 * Q = 0  BY <1>1, BaseIs
<1> DEFINE hP == h * P
           lQ == l * Q
<1>7. /\ hP \in Int /\ hP + P <= Base /\ 0 <= hP /\ P * h = hP
      /\ lQ \in Int /\ lQ + Q <= Base /\ 0 <= lQ /\ (0 < l => Q <= lQ)
  BY <1>1, <1>3, <1>4, <1>5, <1>6
<1> HIDE DEF hP, lQ
<1>8. hP + l \in Octet /\ lQ + h \in Octet /\ (l # 0 => lQ + h # 0)  BY <1>1, <1>6, <1>7
<1>9. QED  BY <1>7, <1>8 DEF lQ

\* The powers of two that a number is shifted by.
LEMMA ShiftIs ==
  ASSUME NEW shifts \in Nat
  PROVE  /\ shifts \div Bits \in Nat /\ shifts % Bits \in 0 .. Bits - 1
         /\ 2 ** shifts = (Base ** (shifts \div Bits)) * (2 ** (shifts % Bits))
<1>1. Bits \in Nat \ {0} /\ shifts \in Int  BY BaseIs
<1>2. shifts = Bits * (shifts \div Bits) + (shifts % Bits) /\ shifts % Bits \in 0 .. Bits - 1
      /\ shifts \div Bits \in Nat
  BY <1>1, Division
<1> DEFINE q == shifts \div Bits
           r == shifts % Bits
<1> HIDE DEF q, r
<1>3. shifts = Bits * q + r /\ r \in Nat /\ q \in Nat /\ 2 \in Int /\ Bits \in Nat  BY <1>1, <1>2 DEF q, r
<1>4. Bits * q \in Nat
  <2>1. \A s, t \in Nat : s * t \in Nat  OBVIOUS
  <2>2. QED  BY <1>3, <2>1
<1>5. 2 ** (Bits * q + r) = (2 ** (Bits * q)) * (2 ** r)  BY <1>3, <1>4, PowerOfSum
<1>6. (2 ** Bits) ** q = 2 ** (Bits * q)  BY <1>3, PowerOfPower
<1>7. QED  BY <1>2, <1>3, <1>5, <1>6 DEF q, r, Base

\* The octets of a number moved up, zeros below them.
MovedUp(n, byts) == [i \in 1 .. n.payload + byts + 1 |-> IF i - byts \in 1 .. n.payload THEN n.mem[i - byts] ELSE 0]

\* Octets moved up are multiplied by a power of the base.
LEMMA MovedUpIs ==
  ASSUME NEW n, IsNumber(n), NEW byts \in Nat, NEW k \in n.payload + byts .. n.payload + byts + 1
  PROVE  /\ DigitsOf(Base, MovedUp(n, byts), k) /\ Ints(MovedUp(n, byts), k)
         /\ ValueOf(Base, MovedUp(n, byts), k) = Value(n) * (Base ** byts)
<1> DEFINE u == MovedUp(n, byts)
           m == k - byts
           e == Padded(n, m)
<1>1. n.payload \in Nat /\ n.payload <= Len(n.mem) /\ Len(n.mem) \in Nat /\ Value(n) \in Nat
      /\ \A i \in 1 .. Len(n.mem) : n.mem[i] \in Octet
  BY NumberHas
<1>2. Base \in Nat \ {0, 1} /\ Base \in Int /\ Base \in Nat \ {0} /\ Octet = 0 .. Base - 1 /\ 0 \in Octet  BY BaseIs, OctetIs
<1>3. k \in Nat /\ m \in Nat /\ byts + m = k /\ n.payload <= m /\ k <= n.payload + byts + 1  BY <1>1
<1>4. \A i \in 1 .. k : u[i] = IF i - byts \in 1 .. n.payload THEN n.mem[i - byts] ELSE 0
  BY <1>1, <1>3 DEF MovedUp
<1>5. \A i \in 1 .. k : u[i] \in Octet
  <2>1. \A j \in 1 .. n.payload : n.mem[j] \in Octet  BY <1>1
  <2> HIDE DEF u
  <2>2. QED  BY <1>2, <1>4, <2>1
<1>6. DigitsOf(Base, u, k)  BY <1>2, <1>5 DEF DigitsOf
<1>7. Ints(u, k)  BY <1>2, <1>5 DEF Ints
<1> HIDE DEF u, m
<1>8. ValueOf(Base, e, m) = Value(n) /\ \A i \in 1 .. m : e[i] = IF i <= n.payload THEN n.mem[i] ELSE 0
  BY <1>3, PaddedIs
<1> HIDE DEF e
<1>9. Above(e, u, byts, m)
  <2> SUFFICES ASSUME NEW i \in 1 .. m PROVE e[i] = u[byts + i]  BY DEF Above
  <2>1. byts + i \in 1 .. k /\ (byts + i) - byts = i /\ (i \in 1 .. n.payload <=> i <= n.payload)
    BY <1>1, <1>3
  <2>2. QED  BY <1>4, <1>8, <2>1
<1>10. ValueOf(Base, u, byts + m) = ValueOf(Base, u, byts) + (Base ** byts) * ValueOf(Base, e, m)
  BY <1>2, <1>3, <1>7, <1>9, SplitValue
<1>11. ValueOf(Base, u, byts) = 0
  <2>1. 0 \in 0 .. byts /\ \A i \in 1 .. byts : i \in 1 .. k /\ ~(i - byts \in 1 .. n.payload)  BY <1>1, <1>3
  <2>2. Zeros(u, 0 + 1, byts) /\ Ints(u, byts)  BY <1>4, <2>1 DEF Zeros, Ints
  <2>3. ValueOf(Base, u, byts) = ValueOf(Base, u, 0)  BY <1>2, <2>1, <2>2, ZerosAbove
  <2>4. ValueOf(Base, u, 0) = 0  BY <1>2, <2>2, Values
  <2>5. QED  BY <2>3, <2>4
<1>12. Base ** byts \in Nat  BY BasePowers
<1>13. \A s, t \in Nat : 0 + s * t = t * s  OBVIOUS
<1>14. ValueOf(Base, u, k) = Value(n) * (Base ** byts)  BY <1>1, <1>3, <1>8, <1>10, <1>11, <1>12, <1>13
<1>15. QED  BY <1>6, <1>7, <1>14 DEF u

\* operator<<=.
LEMMA ShiftLeftIs ==
  ASSUME NEW n, IsNumber(n), NEW shifts \in Nat, NEW f \in Octet
  PROVE  Means(ShiftLeft(n, shifts, f), Value(n) * (2 ** shifts))
<1> DEFINE byts == shifts \div Bits
           bits == shifts % Bits
           P == 2 ** bits
           Q == 2 ** (Bits - bits)
           octet(i) == IF i \in 1 .. n.payload THEN n.mem[i] ELSE 0
           load == n.payload + byts
           total == IF octet(n.payload) * P >= Base THEN load + 1 ELSE load
           mem == IF Capacity(n) >= total THEN n.mem ELSE malloc(total, IF bits = 0 THEN 0 ELSE f)
           z == [i \in 1 .. total |-> ((octet(i - byts) * P) % Base) + ((octet(i - byts - 1) * P) \div Base)]
<1>1. ShiftLeft(n, shifts, f)
        = IF is_zero(n) \/ shifts = 0 THEN n ELSE Number(Write(mem, z), total)
  BY DEF ShiftLeft
<1>2. byts \in Nat /\ bits \in 0 .. Bits - 1 /\ 2 ** shifts = (Base ** byts) * P  BY ShiftIs
<1>3. Parted(P, Q)  BY <1>2, PartedIs
<1>4. P \in Nat \ {0} /\ Q \in Nat \ {0} /\ P * Q = Base
      /\ \A o \in Octet : /\ (o * P) % Base = P * (o % Q) /\ (o * P) \div Base = o \div Q
                          /\ o % Q \in 0 .. Q - 1 /\ o \div Q \in 0 .. P - 1
  BY <1>3 DEF Parted
<1> HIDE DEF byts, bits, P, Q
<1>5. n.payload \in Nat /\ n.payload <= Len(n.mem) /\ Len(n.mem) \in Nat /\ Len(n.mem) >= 1
      /\ Capacity(n) = Len(n.mem) /\ n.mem \in Memory /\ Value(n) \in Nat
      /\ (n.payload > 0 => n.mem[n.payload] # 0) /\ (is_zero(n) <=> n.payload = 0)
      /\ (n.payload = 0 <=> Value(n) = 0) /\ \A i \in 1 .. Len(n.mem) : n.mem[i] \in Octet
  BY NumberHas
<1>6. Base \in Nat \ {0, 1} /\ Base \in Int /\ Base \in Nat \ {0} /\ Octet = 0 .. Base - 1 /\ 0 \in Octet
      /\ Octet \subseteq Nat
  BY BaseIs, OctetIs
<1>7. CASE is_zero(n) \/ shifts = 0
  <2>1. Means(n, Value(n))  BY DEF Means
  <2>2. Value(n) * (2 ** shifts) = Value(n)
    <3>1. 2 ** shifts \in Nat /\ 2 ** 0 = 1
      <4>1. 2 \in Int  OBVIOUS
      <4>2. QED  BY <4>1, Powers, PowersOfTwo
    <3>2. \A s \in Nat : 0 * s = 0 /\ s * 1 = s  OBVIOUS
    <3>3. QED  BY <1>5, <1>7, <3>1, <3>2
  <2>3. QED  BY <1>1, <1>7, <2>1, <2>2
<1>8. CASE ~(is_zero(n) \/ shifts = 0)
  <2>1. \A i \in Int : octet(i) \in Octet
    <3>1. \A j \in 1 .. n.payload : n.mem[j] \in Octet  BY <1>5
    <3>2. QED  BY <1>6, <3>1
  <2>b. octet(n.payload) \in Nat /\ \A i \in Int : octet(i) \in Nat /\ octet(i) \in Int
    <3>1. n.payload \in Int  BY <1>5
    <3> HIDE DEF octet
    <3>2. QED  BY <1>6, <2>1, <3>1
  <2>2. n.payload > 0 /\ octet(n.payload) = n.mem[n.payload] /\ octet(n.payload) # 0 /\ octet(0) = 0
        /\ octet(n.payload + 1) = 0
    BY <1>5, <1>8
  <2>3. load \in Nat /\ total \in load .. load + 1 /\ total \in Nat /\ total \in n.payload + byts .. n.payload + byts + 1
    BY <1>2, <1>5
  <2>4. total = load => octet(n.payload) * P < Base
    <3>1. octet(n.payload) * P \in Nat
      <4>1. octet(n.payload) \in Nat /\ P \in Nat  BY <1>4, <2>b
      <4>2. \A s, t \in Nat : s * t \in Nat  OBVIOUS
      <4> HIDE DEF octet
      <4>3. QED  BY <4>1, <4>2
    <3> HIDE DEF octet
    <3>2. QED  BY <1>6, <2>3, <3>1
  <2>5. total # load => octet(n.payload) * P >= Base  OBVIOUS
  <2>6. total # load => total = load + 1  OBVIOUS
  <2> DEFINE lower(i) == P * (octet(i) % Q)
             upper(i) == octet(i) \div Q
             u == MovedUp(n, byts)
             d == [i \in 1 .. total |-> u[i] * P]
             t == [i \in 0 .. total |-> upper(i - byts)]
  <2> HIDE DEF total
  <2>7. \A i \in Int : /\ upper(i) \in 0 .. P - 1 /\ octet(i) % Q \in 0 .. Q - 1
                       /\ (octet(i) * P) % Base = lower(i) /\ (octet(i) * P) \div Base = upper(i)
    <3> HIDE DEF octet
    <3>1. QED  BY <1>4, <2>1
  <2>8. \A i \in 1 .. total : z[i] = lower(i - byts) + upper(i - byts - 1) /\ z[i] \in Octet
    <3> SUFFICES ASSUME NEW i \in 1 .. total
                 PROVE  z[i] = lower(i - byts) + upper(i - byts - 1) /\ z[i] \in Octet
      OBVIOUS
    <3>1. i - byts \in Int /\ i - byts - 1 \in Int  BY <1>2, <2>3
    <3>2. z[i] = ((octet(i - byts) * P) % Base) + ((octet(i - byts - 1) * P) \div Base)  OBVIOUS
    <3> HIDE DEF z, octet
    <3>3. z[i] = lower(i - byts) + upper(i - byts - 1)
      <4>1. (octet(i - byts) * P) % Base = lower(i - byts)  BY <2>7, <3>1
      <4>2. (octet(i - byts - 1) * P) \div Base = upper(i - byts - 1)  BY <2>7, <3>1
      <4>3. QED  BY <3>2, <4>1, <4>2
    <3>4. octet(i - byts) % Q \in 0 .. Q - 1 /\ upper(i - byts - 1) \in 0 .. P - 1  BY <2>7, <3>1
    <3> HIDE DEF upper
    <3>5. P * (octet(i - byts) % Q) + upper(i - byts - 1) \in Octet  BY <1>3, <3>4, JoinedIs
    <3>6. QED  BY <3>3, <3>5
  <2> HIDE DEF z
  <2>9. z \in Memory /\ Len(z) = total /\ Ints(z, total)
    <3>1. z \in [1 .. total -> Octet]  BY <2>8 DEF z
    <3>2. z \in Memory /\ Len(z) = total  BY <2>3, <3>1, FunctionIsMemory
    <3>3. Ints(z, total)  BY <1>6, <2>8 DEF Ints
    <3>4. QED  BY <3>2, <3>3
  <2>10. DigitsOf(Base, u, total) /\ Ints(u, total) /\ ValueOf(Base, u, total) = Value(n) * (Base ** byts)
    BY <1>2, <2>3, MovedUpIs
  <2>11. \A i \in 1 .. total : u[i] = octet(i - byts)
    <3>1. \A i \in 1 .. total : i \in 1 .. n.payload + byts + 1  BY <1>2, <1>5, <2>3
    <3>2. QED  BY <3>1 DEF MovedUp
  <2> HIDE DEF u
  <2>12. Ints(d, total) /\ ValueOf(Base, d, total) = ValueOf(Base, u, total) * P
    <3>1. \A i \in 1 .. total : d[i] = u[i] * P  OBVIOUS
    <3>2. P \in Int  BY <1>4
    <3> HIDE DEF d
    <3>3. QED  BY <2>3, <2>10, <3>1, <3>2, ScaledValue
  <2>13. HandedOn(Base, d, z, t, total)
    <3>1. \A i \in 0 .. total : t[i] \in Int
      <4>1. \A i \in 0 .. total : i - byts \in Int  BY <1>2
      <4> HIDE DEF octet, upper
      <4>2. QED  BY <1>4, <2>7, <4>1
    <3>2. \A i \in 1 .. total : d[i] + t[i - 1] = z[i] + Base * t[i]
      <4> SUFFICES ASSUME NEW i \in 1 .. total PROVE d[i] + t[i - 1] = z[i] + Base * t[i]  OBVIOUS
      <4>1. i - byts \in Int /\ i - byts - 1 \in Int /\ i - 1 \in 0 .. total /\ i \in 0 .. total
            /\ (i - 1) - byts = i - byts - 1
        BY <1>2, <2>3
      <4>2. d[i] = octet(i - byts) * P  BY <2>11
      <4>3. t[i - 1] = upper(i - byts - 1) /\ t[i] = upper(i - byts)
        <5> HIDE DEF upper
        <5>1. QED  BY <4>1
      <4>4. z[i] = lower(i - byts) + upper(i - byts - 1)  BY <2>8
      <4> DEFINE o == octet(i - byts) * P
      <4>5. o = Base * upper(i - byts) + lower(i - byts) /\ o \in Int /\ lower(i - byts) \in Int
        <5>1. octet(i - byts) \in Int /\ P \in Int
          <6> HIDE DEF octet
          <6>1. QED  BY <1>4, <2>b, <4>1
        <5>2. o \in Int
          <6>1. \A r, s \in Int : r * s \in Int  OBVIOUS
          <6> HIDE DEF octet
          <6>2. QED  BY <5>1, <6>1
        <5>3. o % Base = lower(i - byts) /\ o \div Base = upper(i - byts)
          <6> HIDE DEF octet, lower, upper
          <6>1. QED  BY <2>7, <4>1
        <5> HIDE DEF o, lower, upper, octet
        <5>4. o = Base * (o \div Base) + (o % Base) /\ o % Base \in 0 .. Base - 1  BY <1>6, <5>2, Division
        <5>5. QED  BY <1>6, <5>2, <5>3, <5>4
      <4>6. upper(i - byts - 1) \in Int /\ upper(i - byts) \in Int
        <5> HIDE DEF octet, upper
        <5>1. QED  BY <1>4, <2>7, <4>1
      <4>7. Base * upper(i - byts) \in Int
        <5>1. \A r, s \in Int : r * s \in Int  OBVIOUS
        <5> HIDE DEF upper
        <5>2. QED  BY <1>6, <4>6, <5>1
      <4> DEFINE bu == Base * upper(i - byts)
                 lo == lower(i - byts)
                 u1 == upper(i - byts - 1)
      <4>8. d[i] = bu + lo /\ t[i - 1] = u1 /\ z[i] = lo + u1 /\ Base * t[i] = bu
            /\ bu \in Int /\ lo \in Int /\ u1 \in Int
        <5> HIDE DEF d, t, octet, upper, lower
        <5>1. QED  BY <4>2, <4>3, <4>4, <4>5, <4>6, <4>7
      <4> HIDE DEF bu, lo, u1, d, t
      <4>9. QED  BY <4>8
    <3> HIDE DEF d, t
    <3>3. QED  BY <3>1, <3>2 DEF HandedOn
  <2>14. t[0] = 0 /\ t[total] = 0
    <3>1. 0 \in 0 .. total /\ total \in 0 .. total  BY <2>3
    <3>2. t[0] = upper(0 - byts) /\ t[total] = upper(total - byts)
      <4> HIDE DEF upper
      <4>1. QED  BY <3>1
    <3>3. octet(0 - byts) = 0  BY <1>2, <1>5
    <3>4. 0 \div Q = 0
      <4>1. 0 \in Nat /\ 0 < Q  BY <1>4
      <4>2. QED  BY <1>4, <4>1, SmallDividend
    <3>5. upper(total - byts) = 0
      <4>1. CASE total = load
        <5>1. total - byts = n.payload /\ n.payload \in Int  BY <1>2, <1>5, <4>1
        <5>2. octet(n.payload) * P < Base /\ octet(n.payload) * P \in Nat
          <6>1. octet(n.payload) \in Nat /\ P \in Nat  BY <1>4, <2>b
          <6>2. \A r, s \in Nat : r * s \in Nat  OBVIOUS
          <6> HIDE DEF octet
          <6>3. QED  BY <2>4, <4>1, <6>1, <6>2
        <5>3. (octet(n.payload) * P) \div Base = 0  BY <1>6, <5>2, SmallDividend
        <5> HIDE DEF octet, upper
        <5>4. QED  BY <2>7, <5>1, <5>3
      <4>2. CASE total # load
        <5>1. total - byts = n.payload + 1  BY <1>2, <1>5, <2>6, <4>2
        <5>2. QED  BY <2>2, <3>4, <5>1
      <4>3. QED  BY <4>1, <4>2
    <3>6. QED  BY <3>2, <3>3, <3>4, <3>5
  <2>15. ValueOf(Base, z, total) = Value(n) * (2 ** shifts)
    <3> HIDE DEF d, t
    <3>1. \A j \in 0 .. total : ValueOf(Base, d, j) + t[0] = ValueOf(Base, z, j) + t[j] * (Base ** j)
      BY <1>6, <2>3, <2>9, <2>12, <2>13, Telescope
    <3>2. total \in 0 .. total  BY <2>3
    <3>3. ValueOf(Base, d, total) + 0 = ValueOf(Base, z, total) + 0 * (Base ** total)  BY <2>14, <3>1, <3>2
    <3>4. ValueOf(Base, d, total) \in Int /\ ValueOf(Base, z, total) \in Int
      <4>1. \A j \in 0 .. total : ValueOf(Base, d, j) \in Int  BY <1>6, <2>3, <2>12, Values
      <4>2. \A j \in 0 .. total : ValueOf(Base, z, j) \in Int  BY <1>6, <2>3, <2>9, Values
      <4>3. QED  BY <3>2, <4>1, <4>2
    <3>5. Base ** total \in Nat /\ Base ** byts \in Nat  BY <1>2, <2>3, BasePowers
    <3>6. \A s \in Nat : 0 * s = 0  OBVIOUS
    <3>7. ValueOf(Base, d, total) = ValueOf(Base, z, total)  BY <3>3, <3>4, <3>5, <3>6
    <3>8. \A r, s, v \in Nat : (r * s) * v = r * (s * v)  OBVIOUS
    <3>9. QED  BY <1>2, <1>4, <1>5, <2>10, <2>12, <3>5, <3>7, <3>8
  <2>16. z[total] # 0
    <3>1. total > 0 /\ total \in 1 .. total  BY <1>2, <1>5, <2>2, <2>3
    <3>2. z[total] = lower(total - byts) + upper(total - byts - 1)  BY <2>8, <3>1
    <3>3. CASE total = load
      <4>1. total - byts = n.payload /\ n.payload \in Int  BY <1>2, <1>5, <3>3
      <4>2. octet(n.payload) * P < Base /\ octet(n.payload) * P \in Nat /\ octet(n.payload) * P # 0
        <5>1. octet(n.payload) \in Nat \ {0} /\ P \in Nat \ {0}  BY <1>4, <2>b, <2>2
        <5>2. \A r, s \in Nat \ {0} : r * s \in Nat /\ r * s # 0  OBVIOUS
        <5> HIDE DEF octet
        <5>3. QED  BY <2>4, <3>3, <5>1, <5>2
      <4>3. (octet(n.payload) * P) % Base = octet(n.payload) * P  BY <1>6, <4>2, SmallDividend
      <4>4. lower(total - byts) = octet(n.payload) * P
        <5> HIDE DEF octet, lower
        <5>1. QED  BY <2>7, <4>1, <4>3
      <4>5. upper(total - byts - 1) \in Nat
        <5>1. total - byts - 1 \in Int  BY <1>2, <2>3
        <5>2. upper(total - byts - 1) \in 0 .. P - 1
          <6> HIDE DEF upper, octet
          <6>1. QED  BY <2>7, <5>1
        <5> HIDE DEF upper
        <5>3. QED  BY <1>4, <5>2
      <4> HIDE DEF lower, upper, octet
      <4>6. QED  BY <3>2, <4>2, <4>4, <4>5
    <3>4. CASE total # load
      <4>1. total - byts = n.payload + 1 /\ total - byts - 1 = n.payload  BY <1>2, <1>5, <2>6, <3>4
      <4>2. octet(total - byts - 1) * P >= Base /\ octet(total - byts - 1) * P \in Nat
        <5>1. octet(n.payload) \in Nat /\ P \in Nat  BY <1>4, <2>b
        <5>2. \A r, s \in Nat : r * s \in Nat  OBVIOUS
        <5>3. octet(n.payload) * P >= Base  BY <2>5, <3>4
        <5> HIDE DEF octet
        <5>4. QED  BY <4>1, <5>1, <5>2, <5>3
      <4> DEFINE o == octet(n.payload) * P
      <4>3. o >= Base /\ o \in Nat  BY <4>1, <4>2
      <4>4. upper(n.payload) = o \div Base
        <5>1. n.payload \in Int  BY <1>5
        <5> HIDE DEF upper, octet
        <5>2. QED  BY <2>7, <5>1
      <4> HIDE DEF o
      <4>5. o \div Base # 0 /\ o \div Base \in Nat
        <5>1. o \div Base = 0 => o < Base  BY <1>6, <4>3, NoQuotient
        <5>2. o \div Base \in Nat  BY <1>6, <4>3, PartsAreSmaller
        <5>3. QED  BY <1>6, <4>3, <5>1, <5>2
      <4>6. lower(total - byts) \in Nat
        <5>1. octet(total - byts) % Q \in Nat /\ P \in Nat
          <6>1. total - byts \in Int  BY <1>2, <2>3
          <6>2. octet(total - byts) % Q \in 0 .. Q - 1
            <7> HIDE DEF octet
            <7>1. QED  BY <2>7, <6>1
          <6> HIDE DEF octet
          <6>3. QED  BY <1>4, <6>2
        <5>2. \A r, s \in Nat : r * s \in Nat  OBVIOUS
        <5> HIDE DEF octet
        <5>3. QED  BY <5>1, <5>2
      <4>7. upper(total - byts - 1) = upper(n.payload)  BY <4>1
      <4> HIDE DEF lower, upper, octet
      <4>8. QED  BY <3>2, <4>4, <4>5, <4>6, <4>7
    <3>5. QED  BY <3>3, <3>4
  <2>17. mem \in Memory /\ Len(mem) >= total /\ Len(mem) >= 1
    <3>1. (IF bits = 0 THEN 0 ELSE f) \in Octet  BY <1>6
    <3>2. malloc(total, IF bits = 0 THEN 0 ELSE f) \in Memory
          /\ Len(malloc(total, IF bits = 0 THEN 0 ELSE f)) = total
      BY <2>3, <3>1, MallocIs
    <3>3. total >= 1  BY <1>2, <1>5, <2>2, <2>3
    <3>4. QED  BY <1>5, <2>3, <3>2, <3>3
  <2> HIDE DEF mem
  <2>18. Means(Number(Write(mem, z), total), ValueOf(Base, z, total))
    <3>1. Len(z) <= Len(mem) /\ total \in 0 .. Len(z)  BY <2>3, <2>9, <2>17
    <3>2. QED  BY <2>9, <2>16, <2>17, <3>1, WrittenIs
  <2>19. ShiftLeft(n, shifts, f) = Number(Write(mem, z), total)  BY <1>1, <1>8 DEF total, mem, z
  <2>20. QED  BY <2>15, <2>18, <2>19
<1>9. QED  BY <1>7, <1>8

\* operator>>=, of a payload that may have leading zeros.
LEMMA ShiftRightIs ==
  ASSUME NEW n \in [mem : Memory, payload : Nat], Len(n.mem) >= 1, n.payload <= Len(n.mem),
         NEW shifts \in Nat
  PROVE  /\ Value(ShiftRight(n, shifts)) = Value(n) \div (2 ** shifts)
         /\ IsNumber(n) => IsNumber(ShiftRight(n, shifts))
<1> DEFINE byts == shifts \div Bits
           bits == shifts % Bits
           P == 2 ** bits
           Q == 2 ** (Bits - bits)
           k == n.payload - byts
           above(i) == IF i < n.payload THEN n.mem[i + 1] ELSE 0
           z == [i \in 1 .. k |-> (n.mem[i + byts] \div P) + (above(i + byts) % P) * Q]
           short == bits # 0 /\ z[k] = 0
           kk == IF short THEN k - 1 ELSE k
           v == Value(n)
           S == ShiftRight(n, shifts)
<1>1. S = IF is_zero(n) \/ shifts = 0 THEN n
          ELSE IF k <= 0 THEN bzero(n)
          ELSE Number(Write(n.mem, z), kk)
  BY DEF ShiftRight
<1>2. byts \in Nat /\ bits \in 0 .. Bits - 1 /\ 2 ** shifts = (Base ** byts) * P  BY ShiftIs
<1>3. Parted(P, Q)  BY <1>2, PartedIs
<1>4. P \in Nat \ {0} /\ Q \in Nat \ {0} /\ P * Q = Base
      /\ \A o \in Octet : /\ o % P \in 0 .. P - 1 /\ o \div P \in 0 .. Q - 1
                          /\ o = P * (o \div P) + (o % P)
  BY <1>3 DEF Parted
<1>b. bits = 0 => P = 1
  <2>1. 2 \in Int  OBVIOUS
  <2>2. QED  BY <2>1, Powers
<1>5. Base \in Nat \ {0, 1} /\ Base \in Int /\ Base \in Nat \ {0} /\ Octet = 0 .. Base - 1 /\ 0 \in Octet
      /\ Octet \subseteq Nat
  BY BaseIs, OctetIs
<1>6. n.mem \in Memory /\ n.payload \in Nat /\ n.payload \in 0 .. Len(n.mem) /\ Len(n.mem) \in Nat
      /\ \A i \in 1 .. Len(n.mem) : n.mem[i] \in Octet
  <2>1. n.mem \in Memory /\ n.payload \in Nat  OBVIOUS
  <2>2. QED  BY <2>1, MemoryIs
<1>7. \A j \in 0 .. Len(n.mem) : DigitsOf(Base, n.mem, j) /\ Ints(n.mem, j)
                                 /\ ValueOf(Base, n.mem, j) \in 0 .. (Base ** j) - 1
  BY <1>6, MemoryIs, MemoryValue
<1>8. v = ValueOf(Base, n.mem, n.payload) /\ v \in Nat /\ v < Base ** n.payload
  <2>1. v = ValueOf(Base, n.mem, n.payload)  BY DEF Value
  <2>2. v \in 0 .. (Base ** n.payload) - 1 /\ Base ** n.payload \in Nat  BY <1>6, <1>7, <2>1, BasePowers
  <2> HIDE DEF v
  <2>3. QED  BY <2>1, <2>2
<1>9. 2 ** shifts \in Nat \ {0} /\ 2 ** 0 = 1
  <2>1. 2 \in Int  OBVIOUS
  <2>2. QED  BY <2>1, Powers, PowersOfTwo
<1> HIDE DEF byts, bits, P, Q, v
<1>10. CASE is_zero(n)
  <2>1. v = 0
    <3>1. CASE n.payload = 0
      <4>1. ValueOf(Base, n.mem, 0) = 0  BY <1>5, <1>6, <1>7, Values
      <4>2. QED  BY <1>8, <3>1, <4>1
    <3>2. CASE n.payload = 1 /\ n.mem[1] = 0
      <4>1. 0 \in 0 .. 1 /\ 1 \in Nat /\ Ints(n.mem, 1) /\ Zeros(n.mem, 0 + 1, 1)
        BY <1>6, <1>7, <3>2 DEF Zeros
      <4>2. ValueOf(Base, n.mem, 1) = ValueOf(Base, n.mem, 0)  BY <1>5, <4>1, ZerosAbove
      <4>3. ValueOf(Base, n.mem, 0) = 0  BY <1>5, <1>6, <1>7, Values
      <4>4. QED  BY <1>8, <3>2, <4>2, <4>3
    <3>3. QED  BY <1>10, <3>1, <3>2 DEF is_zero
  <2>2. 0 \div (2 ** shifts) = 0
    <3>1. 0 \in Nat /\ 0 < 2 ** shifts  BY <1>9
    <3>2. QED  BY <1>9, <3>1, SmallDividend
  <2>3. QED  BY <1>1, <1>10, <2>1, <2>2 DEF v
<1>11. CASE shifts = 0
  <2>1. v \div 1 = v  BY <1>8
  <2>2. QED  BY <1>1, <1>9, <1>11, <2>1 DEF v
<1>12. CASE ~is_zero(n) /\ shifts # 0 /\ k <= 0
  <2>1. S = bzero(n)  BY <1>1, <1>12
  <2>2. bzero(n) = [n EXCEPT !.payload = 0] /\ bzero(n).mem = n.mem /\ bzero(n).payload = 0
    BY DEF bzero
  <2>3. Value(S) = 0
    <3>1. ValueOf(Base, n.mem, 0) = 0  BY <1>5, <1>6, <1>7, Values
    <3>2. QED  BY <2>1, <2>2, <3>1 DEF Value
  <2>4. v < 2 ** shifts
    <3>1. n.payload <= byts  BY <1>2, <1>6, <1>12
    <3>2. Base ** n.payload <= Base ** byts /\ Base ** byts \in Nat /\ Base ** n.payload \in Nat
      BY <1>2, <1>6, <3>1, BasePowers
    <3>3. Base ** byts <= (Base ** byts) * P
      <4>1. \A s \in Nat, r \in Nat \ {0} : s <= s * r /\ s * r \in Nat  OBVIOUS
      <4>2. QED  BY <1>4, <3>2, <4>1
    <3>4. QED  BY <1>2, <1>8, <1>9, <3>2, <3>3
  <2>5. v \div (2 ** shifts) = 0  BY <1>8, <1>9, <2>4, SmallDividend
  <2>6. IsNumber(n) => IsNumber(S)  BY <2>1, ZeroIs DEF Means
  <2>7. QED  BY <2>3, <2>5, <2>6 DEF v
<1>13. CASE ~is_zero(n) /\ shifts # 0 /\ ~(k <= 0)
  <2> DEFINE e == [i \in 1 .. k |-> n.mem[byts + i]]
             next(i) == IF i < k THEN e[i + 1] ELSE 0
             w == [i \in 1 .. k |-> z[i] * P]
             t == [i \in 0 .. k |-> 0 - (next(i) % P)]
             V == ValueOf(Base, z, k)
  <2>1. S = Number(Write(n.mem, z), kk)  BY <1>1, <1>13
  <2>2. k \in Nat \ {0} /\ k \in Nat /\ byts + k = n.payload /\ k <= Len(n.mem)  BY <1>2, <1>6, <1>13
  <2>3. \A i \in 1 .. k : e[i] \in Octet
    <3>1. \A i \in 1 .. k : byts + i \in 1 .. Len(n.mem)  BY <1>2, <1>6, <2>2
    <3>2. QED  BY <1>6, <3>1
  <2>4. \A i \in 0 .. k : next(i) \in Octet /\ next(i) % P \in 0 .. P - 1
    <3>1. \A i \in 0 .. k : i < k => i + 1 \in 1 .. k  BY <2>2
    <3> HIDE DEF e
    <3>2. \A i \in 0 .. k : next(i) \in Octet  BY <1>5, <2>3, <3>1
    <3> HIDE DEF next
    <3>3. QED  BY <1>4, <3>2
  <2>5. \A i \in 1 .. k : n.mem[i + byts] = e[i] /\ above(i + byts) = next(i)
    <3> SUFFICES ASSUME NEW i \in 1 .. k PROVE n.mem[i + byts] = e[i] /\ above(i + byts) = next(i)
      OBVIOUS
    <3>1. i + byts = byts + i /\ (i + byts < n.payload <=> i < k) /\ (i + byts) + 1 = byts + (i + 1)
          /\ (i < k => i + 1 \in 1 .. k)
      BY <1>2, <1>6, <2>2
    <3>2. QED  BY <3>1
  <2> HIDE DEF e, above, k
  <2>6. \A i \in 1 .. k : /\ z[i] = (e[i] \div P) + (next(i) % P) * Q /\ z[i] \in Octet
                          /\ (next(i) % P # 0 => z[i] # 0)
    <3> SUFFICES ASSUME NEW i \in 1 .. k
                 PROVE  /\ z[i] = (e[i] \div P) + (next(i) % P) * Q /\ z[i] \in Octet
                        /\ (next(i) % P # 0 => z[i] # 0)
      OBVIOUS
    <3>1. z[i] = (n.mem[i + byts] \div P) + (above(i + byts) % P) * Q  OBVIOUS
    <3> HIDE DEF z, next
    <3>2. z[i] = (e[i] \div P) + (next(i) % P) * Q  BY <2>5, <3>1
    <3>3. e[i] \div P \in 0 .. Q - 1  BY <1>4, <2>3
    <3>4. next(i) % P \in 0 .. P - 1  BY <2>2, <2>4
    <3> DEFINE h == e[i] \div P
               l == next(i) % P
    <3> HIDE DEF h, l
    <3>5. h \in 0 .. Q - 1 /\ l \in 0 .. P - 1  BY <3>3, <3>4 DEF h, l
    <3>6. l * Q + h \in Octet /\ (l # 0 => l * Q + h # 0)  BY <1>3, <3>5, JoinedIs
    <3>7. l * Q + h = h + l * Q
      <4>1. \A r, s \in Int : r * s \in Int /\ \A u \in Int : r * s + u = u + r * s  OBVIOUS
      <4>2. QED  BY <1>4, <3>5, <4>1
    <3>8. QED  BY <3>2, <3>6, <3>7 DEF h, l
  <2> HIDE DEF z
  <2>7. z \in Memory /\ Len(z) = k /\ Ints(z, k) /\ DigitsOf(Base, z, k)
    <3>1. z \in [1 .. k -> Octet]  BY <2>6 DEF z
    <3>2. z \in Memory /\ Len(z) = k  BY <2>2, <3>1, FunctionIsMemory
    <3>3. Ints(z, k) /\ DigitsOf(Base, z, k)  BY <1>5, <2>6 DEF Ints, DigitsOf
    <3>4. QED  BY <3>2, <3>3
  <2>8. Ints(e, k)  BY <1>5, <2>3 DEF Ints
  <2>9. Ints(w, k) /\ ValueOf(Base, w, k) = V * P
    <3>1. \A i \in 1 .. k : w[i] = z[i] * P  OBVIOUS
    <3>2. P \in Int  BY <1>4
    <3> HIDE DEF w
    <3>3. QED  BY <2>2, <2>7, <3>1, <3>2, ScaledValue
  <2>10. HandedOn(Base, e, w, t, k)
    <3>1. \A i \in 0 .. k : t[i] \in Int
      <4> HIDE DEF next
      <4>1. QED  BY <1>4, <2>4
    <3>2. \A i \in 1 .. k : e[i] + t[i - 1] = w[i] + Base * t[i]
      <4> SUFFICES ASSUME NEW i \in 1 .. k PROVE e[i] + t[i - 1] = w[i] + Base * t[i]  OBVIOUS
      <4>1. i - 1 \in 0 .. k /\ i \in 0 .. k /\ i - 1 < k /\ (i - 1) + 1 = i  BY <2>2
      <4>2. next(i - 1) = e[i]  BY <4>1
      <4> DEFINE l == next(i) % P
                 h == e[i] \div P
                 r == e[i] % P
      <4>3. t[i - 1] = 0 - r /\ t[i] = 0 - l
        <5> HIDE DEF next
        <5>1. QED  BY <4>1, <4>2
      <4>4. w[i] = (h + l * Q) * P  BY <2>6
      <4>5. h \in Nat /\ r \in Nat /\ e[i] = P * h + r
        <5>1. e[i] \in Octet  BY <2>3
        <5> HIDE DEF h, r
        <5>2. h \in 0 .. Q - 1 /\ r \in 0 .. P - 1 /\ e[i] = P * h + r  BY <1>4, <5>1 DEF h, r
        <5>3. QED  BY <1>4, <5>2
      <4>6. l \in Nat
        <5>1. l \in 0 .. P - 1  BY <2>4, <4>1
        <5> HIDE DEF l
        <5>2. QED  BY <1>4, <5>1
      <4> HIDE DEF l, h, r, t, w
      <4>7. (h + l * Q) * P = P * h + Base * l /\ Base * (0 - l) = 0 - Base * l
            /\ P * h \in Int /\ Base * l \in Int
        <5>1. (h + l * Q) * P = P * h + (P * Q) * l  BY ONLY <1>4, <4>5, <4>6
        <5>2. \A s, u \in Int : s * (0 - u) = 0 - s * u /\ s * u \in Int  OBVIOUS
        <5>3. QED  BY <1>4, <1>5, <4>5, <4>6, <5>1, <5>2
      <4> DEFINE ph == P * h
                 bl == Base * l
      <4>8. e[i] = ph + r /\ w[i] = ph + bl /\ Base * t[i] = 0 - bl /\ t[i - 1] = 0 - r
            /\ ph \in Int /\ bl \in Int
        BY <4>3, <4>4, <4>5, <4>7
      <4> HIDE DEF ph, bl
      <4>9. QED  BY <4>5, <4>8
    <3> HIDE DEF w, t
    <3>3. QED  BY <3>1, <3>2 DEF HandedOn
  <2>11. t[0] = 0 - (e[1] % P) /\ t[k] = 0
    <3>1. 0 \in 0 .. k /\ k \in 0 .. k /\ 0 < k /\ ~(k < k) /\ 0 + 1 = 1  BY <2>2
    <3>2. next(0) = e[1] /\ next(k) = 0  BY <3>1
    <3>3. 0 % P = 0
      <4>1. 0 \in Nat /\ 0 < P  BY <1>4
      <4>2. QED  BY <1>4, <4>1, SmallDividend
    <3> HIDE DEF next
    <3>4. QED  BY <3>1, <3>2, <3>3
  <2>12. ValueOf(Base, e, k) = P * V + (e[1] % P) /\ V \in Int /\ ValueOf(Base, e, k) \in Int
         /\ e[1] % P \in 0 .. P - 1
    <3>1. k \in 0 .. k /\ 1 \in 1 .. k  BY <2>2
    <3> HIDE DEF t, w
    <3>2. \A j \in 0 .. k : ValueOf(Base, e, j) + t[0] = ValueOf(Base, w, j) + t[j] * (Base ** j)
      BY <1>5, <2>2, <2>8, <2>9, <2>10, Telescope
    <3>3. ValueOf(Base, e, k) + t[0] = ValueOf(Base, w, k) + 0 * (Base ** k)  BY <2>11, <3>1, <3>2
    <3>4. ValueOf(Base, e, k) \in Int /\ V \in Int
      <4>1. \A j \in 0 .. k : ValueOf(Base, e, j) \in Int  BY <1>5, <2>2, <2>8, Values
      <4>2. \A j \in 0 .. k : ValueOf(Base, z, j) \in Int  BY <1>5, <2>2, <2>7, Values
      <4>3. QED  BY <3>1, <4>1, <4>2
    <3>5. e[1] % P \in 0 .. P - 1  BY <1>4, <2>3, <3>1
    <3> HIDE DEF V
    <3>6. Base ** k \in Nat /\ V * P = P * V /\ V * P \in Int
      <4>1. \A r, s \in Int : r * s = s * r /\ r * s \in Int  OBVIOUS
      <4>2. QED  BY <1>4, <2>2, <3>4, <4>1, BasePowers
    <3> DEFINE vp == P * V
               ev == ValueOf(Base, e, k)
               q == e[1] % P
    <3>7. \A s \in Nat : 0 * s = 0  OBVIOUS
    <3>8. ev + (0 - q) = vp + 0 /\ ev \in Int /\ q \in Int /\ vp \in Int
      BY <1>4, <2>9, <2>11, <3>3, <3>4, <3>5, <3>6, <3>7
    <3> HIDE DEF vp, ev, q
    <3>9. ev = vp + q  BY <3>8
    <3>10. QED  BY <3>4, <3>5, <3>9 DEF vp, ev, q
  <2>13. V = v \div (2 ** shifts)
    <3> DEFINE E == ValueOf(Base, e, k)
               p == Base ** byts
               low == ValueOf(Base, n.mem, byts)
    <3>1. v = low + p * E
      <4>1. Above(e, n.mem, byts, k)  BY DEF Above, e
      <4>2. Ints(n.mem, byts + k)  BY <1>6, <1>7, <2>2
      <4>3. ValueOf(Base, n.mem, byts + k) = low + p * E  BY <1>2, <1>5, <2>2, <4>1, <4>2, SplitValue
      <4>4. QED  BY <1>8, <2>2, <4>3
    <3>2. low \in 0 .. p - 1
      <4>1. byts \in 0 .. Len(n.mem)  BY <1>2, <1>6, <2>2
      <4>2. QED  BY <1>7, <4>1
    <3>3. p \in Nat \ {0}  BY <1>2, BasePowers
    <3> HIDE DEF E, p, low, V
    <3>4. E = P * V + (e[1] % P) /\ V \in Int /\ E \in Int  BY <2>12 DEF E
    <3>5. p * E \in Int
      <4>1. \A r, s \in Int : r * s \in Int  OBVIOUS
      <4>2. QED  BY <3>3, <3>4, <4>1
    <3>6. v = p * E + low /\ v \in Int  BY <1>8, <3>1, <3>2, <3>3, <3>5
    <3>7. E = v \div p  BY <3>2, <3>3, <3>4, <3>6, DivisionIsUnique
    <3>8. V = E \div P  BY <1>4, <2>12, <3>4, DivisionIsUnique
    <3>9. (v \div p) \div P = v \div (p * P)  BY <1>4, <3>3, <3>6, DivisionTwice
    <3>10. QED  BY <1>2, <3>7, <3>8, <3>9 DEF p
  <2> DEFINE mem == Write(n.mem, z)
  <2>14. mem \in Memory /\ Len(mem) = Len(n.mem) /\ \A i \in 1 .. k : mem[i] = z[i]
    <3>1. Len(z) <= Len(n.mem)  BY <2>2, <2>7
    <3>2. mem \in Memory /\ Len(mem) = Len(n.mem)
          /\ \A i \in 1 .. Len(n.mem) : mem[i] = IF i <= Len(z) THEN z[i] ELSE n.mem[i]
      BY <1>6, <2>7, <3>1, WriteIs
    <3>3. QED  BY <2>2, <2>7, <3>2
  <2> HIDE DEF mem
  <2>15. kk \in 0 .. k /\ kk \in Nat /\ (kk # k => kk = k - 1 /\ bits # 0 /\ z[k] = 0)  BY <2>2
  <2>16. S = Number(mem, kk) /\ S.mem = mem /\ S.payload = kk  BY <2>1 DEF mem, Number
  <2>17. Value(S) = V
    <3>1. Value(S) = ValueOf(Base, mem, kk)  BY <2>16 DEF Value
    <3> HIDE DEF kk
    <3>2. Ints(z, kk) /\ Same(z, mem, kk)
      <4>1. \A i \in 1 .. kk : i \in 1 .. k  BY <2>2, <2>15
      <4>2. QED  BY <2>7, <2>14, <4>1 DEF Ints, Same
    <3>3. ValueOf(Base, z, kk) = ValueOf(Base, mem, kk)  BY <1>5, <2>15, <3>2, SameDigits
    <3>4. ValueOf(Base, z, k) = ValueOf(Base, z, kk)
      <4>1. CASE kk = k  BY <4>1
      <4>2. CASE kk # k
        <5>1. Zeros(z, kk + 1, k)
          <6>1. \A i \in kk + 1 .. k : i = k  BY <2>2, <2>15, <4>2
          <6>2. QED  BY <2>15, <4>2, <6>1 DEF Zeros
        <5>2. QED  BY <1>5, <2>2, <2>7, <2>15, <5>1, ZerosAbove
      <4>3. QED  BY <4>1, <4>2
    <3>5. QED  BY <3>1, <3>3, <3>4
  <2>18. ASSUME IsNumber(n) PROVE IsNumber(S)
    <3>1. n.payload > 0 => n.mem[n.payload] # 0  BY <2>18, NumberHas
    <3>2. e[k] # 0 /\ k \in 1 .. k /\ e[k] \in Octet
      <4>1. k \in 1 .. k /\ n.payload > 0  BY <1>2, <1>6, <2>2
      <4>2. e[k] = n.mem[byts + k]  BY <4>1 DEF e
      <4>3. QED  BY <2>2, <2>3, <3>1, <4>1, <4>2
    <3>3. kk > 0 => mem[kk] # 0
      <4>1. CASE kk = k
        <5>1. z[k] # 0
          <6>1. CASE bits # 0
            <7>1. ~short  BY <2>2, <4>1
            <7>2. QED  BY <6>1, <7>1
          <6>2. CASE bits = 0
            <7>1. P = 1  BY <1>b, <6>2
            <7>2. z[k] = (e[k] \div P) + (next(k) % P) * Q /\ next(k) % P \in 0 .. P - 1
              <8>1. k \in 1 .. k /\ k \in 0 .. k  BY <2>2
              <8> HIDE DEF next
              <8>2. QED  BY <2>4, <2>6, <8>1
            <7>3. next(k) % P = 0
              <8> HIDE DEF next
              <8>1. QED  BY <7>1, <7>2
            <7>4. e[k] \div 1 = e[k] /\ 0 * Q = 0 /\ e[k] \in Nat
              <8>1. e[k] \in Nat  BY <1>5, <3>2
              <8>2. \A s \in Nat : s \div 1 = s /\ 0 * s = 0  OBVIOUS
              <8>3. QED  BY <1>4, <8>1, <8>2
            <7> HIDE DEF next
            <7>5. z[k] = e[k] + 0  BY <7>1, <7>2, <7>3, <7>4
            <7>6. QED  BY <3>2, <7>4, <7>5
          <6>3. QED  BY <6>1, <6>2
        <5> HIDE DEF kk
        <5>2. QED  BY <2>14, <3>2, <4>1, <5>1
      <4>2. CASE kk # k
        <5> HIDE DEF kk
        <5> SUFFICES ASSUME kk > 0 PROVE mem[kk] # 0  OBVIOUS
        <5>1. kk = k - 1 /\ z[k] = 0 /\ k - 1 \in 1 .. k /\ k - 1 < k /\ (k - 1) + 1 = k  BY <2>2, <2>15, <4>2
        <5>2. next(k - 1) = e[k]  BY <5>1
        <5>3. e[k] % P # 0
          <6>1. z[k] = (e[k] \div P) + (next(k) % P) * Q /\ next(k) = 0  BY <2>6, <3>2
          <6> DEFINE h == e[k] \div P
                     r == e[k] % P
          <6>7. h \in 0 .. Q - 1 /\ r \in 0 .. P - 1 /\ e[k] = P * h + r  BY <1>4, <3>2
          <6>2. e[k] \div P \in Nat /\ e[k] % P \in Nat /\ e[k] = P * (e[k] \div P) + (e[k] % P)
            <7>1. h \in Nat /\ r \in Nat
              <8> HIDE DEF h, r
              <8>1. QED  BY <1>4, <6>7
            <7>2. QED  BY <6>7, <7>1
          <6>3. 0 % P = 0 /\ 0 * Q = 0
            <7>1. 0 \in Nat /\ 0 < P  BY <1>4
            <7>2. 0 % P = 0  BY <1>4, <7>1, SmallDividend
            <7>3. QED  BY <1>4, <7>2
          <6>4. e[k] \div P = 0
            <7>1. z[k] = (e[k] \div P) + 0
              <8> HIDE DEF next
              <8>1. QED  BY <6>1, <6>3
            <7>2. QED  BY <5>1, <6>2, <7>1
          <6>5. P * 0 = 0  BY <1>4
          <6>8. h = 0 /\ r \in Nat /\ e[k] = P * h + r  BY <6>2, <6>4
          <6> HIDE DEF h
          <6>9. e[k] = 0 + r  BY <6>5, <6>8
          <6> HIDE DEF r
          <6>10. r # 0  BY <3>2, <6>8, <6>9
          <6>6. QED  BY <6>10 DEF r
        <5>4. z[k - 1] # 0
          <6> HIDE DEF next
          <6>1. QED  BY <2>6, <5>1, <5>2, <5>3
        <5>5. QED  BY <2>14, <5>1, <5>4
      <4>3. QED  BY <4>1, <4>2
    <3>4. kk \in 0 .. Len(mem) /\ Len(mem) >= 1
      <4> HIDE DEF kk
      <4>1. QED  BY <1>6, <2>2, <2>14, <2>15
    <3> HIDE DEF kk
    <3>5. Means(Number(mem, kk), ValueOf(Base, mem, kk))  BY <2>14, <3>3, <3>4, NumberIs
    <3>6. QED  BY <2>16, <3>5 DEF Means
  <2>19. QED  BY <2>13, <2>17, <2>18 DEF v
<1>14. QED  BY <1>10, <1>11, <1>12, <1>13

\* Octets and zeros above them.
Extended(d, k, m) == [i \in 1 .. m |-> IF i <= k THEN d[i] ELSE 0]

\* These zeros change nothing.
LEMMA ExtendedIs ==
  ASSUME NEW k \in Nat, NEW d, DigitsOf(Base, d, k), NEW m \in Nat, k <= m
  PROVE  /\ DigitsOf(Base, Extended(d, k, m), m)
         /\ \A i \in 1 .. m : Extended(d, k, m)[i] = IF i <= k THEN d[i] ELSE 0
         /\ ValueOf(Base, Extended(d, k, m), m) = ValueOf(Base, d, k)
<1> DEFINE e == Extended(d, k, m)
<1>1. \A i \in 1 .. m : e[i] = IF i <= k THEN d[i] ELSE 0  BY DEF Extended
<1> HIDE DEF e
<1>2. Base \in Nat \ {0, 1} /\ Base \in Int  BY BaseIs
<1>3. DigitsOf(Base, e, m)
  <2> SUFFICES ASSUME NEW i \in 1 .. m PROVE e[i] \in 0 .. Base - 1  BY DEF DigitsOf
  <2>1. i <= k => i \in 1 .. k  OBVIOUS
  <2>2. i <= k => d[i] \in 0 .. Base - 1  BY <2>1 DEF DigitsOf
  <2>3. QED  BY <1>1, <1>2, <2>2
<1>4. Ints(e, m) /\ Ints(d, k)  BY <1>2, <1>3 DEF DigitsOf, Ints
<1>5. Zeros(e, k + 1, m)  BY <1>1 DEF Zeros
<1>6. ValueOf(Base, e, m) = ValueOf(Base, e, k)
  <2>1. k \in 0 .. m  OBVIOUS
  <2>2. QED  BY <1>2, <1>4, <1>5, <2>1, ZerosAbove
<1>7. ValueOf(Base, d, k) = ValueOf(Base, e, k)
  <2>1. Same(d, e, k)  BY <1>1 DEF Same
  <2>2. QED  BY <1>2, <1>4, <2>1, SameDigits
<1>8. QED  BY <1>1, <1>3, <1>6, <1>7 DEF e

\* Octets of two numbers, combined by a table.
Combines(table, z, d, k, e, l, m) ==
  \A i \in 1 .. m : z[i] = BitByBit(table, IF i <= k THEN d[i] ELSE 0, IF i <= l THEN e[i] ELSE 0)

\* Octet by octet, a table combines the numbers bit by bit.
LEMMA CombinesIs ==
  ASSUME NEW table \in Tables, NEW k \in Nat, NEW l \in Nat, NEW d, NEW e, DigitsOf(Base, d, k),
         DigitsOf(Base, e, l), NEW m \in Nat, k <= m, l <= m, NEW z, Combines(table, z, d, k, e, l, m)
  PROVE  /\ DigitsOf(Base, z, m)
         /\ ValueOf(Base, z, m) = BitByBit(table, ValueOf(Base, d, k), ValueOf(Base, e, l))
<1> DEFINE d1 == Extended(d, k, m)
           e1 == Extended(e, l, m)
<1>1. /\ DigitsOf(Base, d1, m) /\ ValueOf(Base, d1, m) = ValueOf(Base, d, k)
      /\ \A i \in 1 .. m : d1[i] = IF i <= k THEN d[i] ELSE 0
  BY ExtendedIs
<1>2. /\ DigitsOf(Base, e1, m) /\ ValueOf(Base, e1, m) = ValueOf(Base, e, l)
      /\ \A i \in 1 .. m : e1[i] = IF i <= l THEN e[i] ELSE 0
  BY ExtendedIs
<1> HIDE DEF d1, e1
<1>3. \A i \in 1 .. m : z[i] = BitByBit(table, d1[i], e1[i])  BY <1>1, <1>2 DEF Combines
<1>4. Bits \in Nat /\ Base = 2 ** Bits  BY BaseIs DEF Base
<1>5. m \in 0 .. m  OBVIOUS
<1>6. /\ DigitsOf(Base, z, m)
      /\ \A j \in 0 .. m : ValueOf(Base, z, j) = BitByBit(table, ValueOf(Base, d1, j), ValueOf(Base, e1, j))
  BY <1>1, <1>2, <1>3, <1>4, BitsOfDigits
<1>7. QED  BY <1>1, <1>2, <1>5, <1>6

\* operator&= of some octets.
LEMMA MaskIs ==
  ASSUME NEW n, IsNumber(n), NEW l \in Nat, NEW d, DigitsOf(Base, d, l)
  PROVE  Means(Mask(n, d, l), Value(n) & ValueOf(Base, d, l))
<1> DEFINE k == Smaller(n.payload, l)
           m == Larger(n.payload, l)
           z == [i \in 1 .. k |-> n.mem[i] & d[i]]
           z1 == [i \in 1 .. m |-> BitByBit(AND, IF i <= n.payload THEN n.mem[i] ELSE 0, IF i <= l THEN d[i] ELSE 0)]
<1>1. Mask(n, d, l) = skip_leading_zeros(Write(n.mem, z), k)  BY DEF Mask
<1>2. n.payload \in Nat /\ n.payload <= Len(n.mem) /\ Len(n.mem) \in Nat /\ Len(n.mem) >= 1 /\ n.mem \in Memory
      /\ DigitsOf(Base, n.mem, n.payload) /\ Value(n) = ValueOf(Base, n.mem, n.payload)
  BY NumberHas
<1>3. k \in Nat /\ m \in Nat /\ k <= n.payload /\ k <= l /\ n.payload <= m /\ l <= m /\ k <= m
      /\ (k = n.payload \/ k = l)
  BY <1>2, SmallerIs
<1> HIDE DEF k, m
<1>4. AND \in Tables /\ Base \in Nat \ {0, 1} /\ Base \in Int /\ Octet = 0 .. Base - 1 /\ Octet \subseteq Int
  BY TheTables, BaseIs, OctetIs
<1>5. Combines(AND, z1, n.mem, n.payload, d, l, m)  BY DEF Combines
<1> HIDE DEF z1
<1>6. DigitsOf(Base, z1, m) /\ ValueOf(Base, z1, m) = (Value(n) & ValueOf(Base, d, l))
  <2>1. DigitsOf(Base, z1, m)
        /\ ValueOf(Base, z1, m) = BitByBit(AND, ValueOf(Base, n.mem, n.payload), ValueOf(Base, d, l))
    BY <1>2, <1>3, <1>4, <1>5, CombinesIs
  <2>2. QED  BY <1>2, <2>1 DEF &
<1>7. \A i \in 1 .. k : z[i] = z1[i] /\ z[i] \in Octet
  <2> SUFFICES ASSUME NEW i \in 1 .. k PROVE z[i] = z1[i] /\ z[i] \in Octet  OBVIOUS
  <2>1. i \in 1 .. m /\ i <= n.payload /\ i <= l  BY <1>2, <1>3
  <2>2. z1[i] = BitByBit(AND, n.mem[i], d[i])  BY <1>5, <2>1 DEF Combines
  <2>3. z1[i] \in Octet  BY <1>4, <1>6, <2>1 DEF DigitsOf
  <2>4. QED  BY <2>2, <2>3 DEF &
<1> HIDE DEF z
<1>8. z \in Memory /\ Len(z) = k
  <2>1. z \in [1 .. k -> Octet]  BY <1>7 DEF z
  <2>2. QED  BY <1>3, <2>1, FunctionIsMemory
<1>9. Zeros(z1, k + 1, m)
  <2> SUFFICES ASSUME NEW i \in k + 1 .. m PROVE z1[i] = 0  BY DEF Zeros
  <2>1. i \in 1 .. m /\ (~(i <= n.payload) \/ ~(i <= l))  BY <1>2, <1>3
  <2>2. (i <= n.payload => n.mem[i] \in Nat) /\ (i <= l => d[i] \in Nat)
    <3>1. i \in Nat /\ i >= 1  BY <1>3
    <3>2. i <= n.payload => n.mem[i] \in 0 .. Base - 1  BY <1>2, <3>1 DEF DigitsOf
    <3>3. i <= l => d[i] \in 0 .. Base - 1  BY <3>1 DEF DigitsOf
    <3>4. QED  BY <1>4, <3>2, <3>3
  <2>3. z1[i] = BitByBit(AND, IF i <= n.payload THEN n.mem[i] ELSE 0, IF i <= l THEN d[i] ELSE 0)
    BY <1>5, <2>1 DEF Combines
  <2>4. \A s \in Nat : BitByBit(AND, s, 0) = 0 /\ BitByBit(AND, 0, s) = 0  BY NeutralBits DEF &
  <2>5. 0 \in Nat  OBVIOUS
  <2>6. QED  BY <2>1, <2>2, <2>3, <2>4, <2>5
<1> DEFINE mem == Write(n.mem, z)
<1>10. mem \in Memory /\ Len(mem) = Len(n.mem) /\ \A i \in 1 .. k : mem[i] = z1[i]
  <2>1. Len(z) <= Len(n.mem)  BY <1>2, <1>3, <1>8
  <2>2. mem \in Memory /\ Len(mem) = Len(n.mem)
        /\ \A i \in 1 .. Len(n.mem) : mem[i] = IF i <= Len(z) THEN z[i] ELSE n.mem[i]
    BY <1>2, <1>8, <2>1, WriteIs
  <2>3. \A i \in 1 .. k : i \in 1 .. Len(n.mem) /\ i <= Len(z)  BY <1>2, <1>3, <1>8
  <2>4. QED  BY <1>7, <2>2, <2>3
<1> HIDE DEF mem
<1>11. ValueOf(Base, z1, m) = ValueOf(Base, mem, k)
  <2>1. Ints(z1, m) /\ Ints(z1, k)
    <3>1. \A i \in 1 .. k : i \in 1 .. m  BY <1>3
    <3>2. QED  BY <1>4, <1>6, <3>1 DEF Ints, DigitsOf
  <2>2. k \in 0 .. m  BY <1>3
  <2>3. ValueOf(Base, z1, m) = ValueOf(Base, z1, k)  BY <1>3, <1>4, <1>9, <2>1, <2>2, ZerosAbove
  <2>4. Same(z1, mem, k)  BY <1>10 DEF Same
  <2>5. ValueOf(Base, z1, k) = ValueOf(Base, mem, k)  BY <1>3, <1>4, <2>1, <2>4, SameDigits
  <2>6. QED  BY <2>3, <2>5
<1>12. Means(skip_leading_zeros(mem, k), ValueOf(Base, mem, k))
  <2>1. k \in 0 .. Len(mem) /\ Len(mem) >= 1  BY <1>2, <1>3, <1>10
  <2>2. QED  BY <1>10, <2>1, SkipIs
<1>13. QED  BY <1>1, <1>6, <1>11, <1>12 DEF mem

\* The octets of two numbers, of which one may be longer.
LEMMA MergedIs ==
  ASSUME NEW table \in {OR, XOR}, NEW k \in Nat, NEW d, DigitsOf(Base, d, k), k > 0 => d[k] # 0,
         NEW l \in Nat, NEW e, DigitsOf(Base, e, l), l > 0 => e[l] # 0,
         NEW mem \in Memory, Len(mem) >= 1, NEW m \in Nat, m = Larger(k, l), m <= Len(mem),
         Combines(table, mem, d, k, e, l, m)
  PROVE  /\ ValueOf(Base, mem, m) = BitByBit(table, ValueOf(Base, d, k), ValueOf(Base, e, l))
         /\ table = OR \/ k # l =>
              Means(Number(mem, m), BitByBit(table, ValueOf(Base, d, k), ValueOf(Base, e, l)))
         /\ Means(skip_leading_zeros(mem, m), BitByBit(table, ValueOf(Base, d, k), ValueOf(Base, e, l)))
<1>1. table \in Tables /\ Base \in Nat \ {0, 1}  BY TheTables, BaseIs
<1>2. k <= m /\ l <= m /\ (m = k \/ m = l)  BY SmallerIs
<1>3. ValueOf(Base, mem, m) = BitByBit(table, ValueOf(Base, d, k), ValueOf(Base, e, l))
  BY <1>1, <1>2, CombinesIs
<1>4. ASSUME table = OR \/ k # l, m > 0 PROVE mem[m] # 0
  <2>1. m \in 1 .. m  BY <1>4
  <2> DEFINE s == IF m <= k THEN d[m] ELSE 0
             t == IF m <= l THEN e[m] ELSE 0
  <2>2. mem[m] = BitByBit(table, s, t)  BY <2>1 DEF Combines
  <2>3. s \in Nat /\ t \in Nat
    <3>1. m <= k => m \in 1 .. k  BY <2>1
    <3>2. m <= l => m \in 1 .. l  BY <2>1
    <3>3. m <= k => d[m] \in 0 .. Base - 1  BY <3>1 DEF DigitsOf
    <3>4. m <= l => e[m] \in 0 .. Base - 1  BY <3>2 DEF DigitsOf
    <3>5. QED  BY <1>1, <3>3, <3>4
  <2>4. s # 0 \/ t # 0  BY <1>2, <1>4
  <2>5. k # l => s = 0 \/ t = 0  BY <1>2
  <2> HIDE DEF s, t
  <2>6. CASE table = OR
    <3>1. (s | t) = 0 => s = 0 /\ t = 0  BY <2>3, OrIsLarge
    <3>2. QED  BY <2>2, <2>4, <2>6, <3>1 DEF |
  <2>7. CASE table = XOR /\ k # l
    <3>1. (s ^^ 0) = s /\ (0 ^^ t) = t  BY <2>3, NeutralBits
    <3>2. BitByBit(XOR, s, 0) = s /\ BitByBit(XOR, 0, t) = t  BY <3>1 DEF ^^
    <3>3. QED  BY <2>2, <2>4, <2>5, <2>7, <3>2
  <2>8. table = OR \/ (table = XOR /\ k # l)  BY <1>4
  <2>9. QED  BY <2>6, <2>7, <2>8
<1>5. m \in 0 .. Len(mem)
  <2>1. Len(mem) \in Nat  BY MemoryIs
  <2>2. QED  BY <2>1
<1>6. ASSUME table = OR \/ k # l PROVE Means(Number(mem, m), ValueOf(Base, mem, m))
  BY <1>4, <1>5, <1>6, NumberIs
<1>7. Means(skip_leading_zeros(mem, m), ValueOf(Base, mem, m))  BY <1>5, SkipIs
<1>8. QED  BY <1>3, <1>6, <1>7

\* The memory that the octets of a fixnum are merged into.
LEMMA ClearedIs ==
  ASSUME NEW n, IsNumber(n)
  PROVE  LET m == Cleared(n) IN
         /\ m.mem \in Memory /\ Len(m.mem) \in Nat /\ Len(m.mem) >= 1
         /\ Larger(n.payload, W) <= Len(m.mem)
         /\ \A i \in 1 .. Len(m.mem) : m.mem[i] = IF i <= n.payload THEN n.mem[i] ELSE 0
<1> DEFINE size == Larger(n.payload, W)
           room == IF Capacity(n) < size THEN size ELSE Capacity(n)
           m == recalloc(n, room)
<1>1. n.payload \in Nat /\ n.payload <= Len(n.mem) /\ Len(n.mem) \in Nat /\ Len(n.mem) >= 1
      /\ Capacity(n) = Len(n.mem) /\ W \in Nat
  BY NumberHas, BaseIs
<1>2. n.payload <= size /\ W <= size /\ size \in Nat  BY <1>1, SmallerIs
<1> HIDE DEF size
<1>3. room \in Nat \ {0} /\ n.payload <= room /\ size <= room  BY <1>1, <1>2
<1>4. Cleared(n) = m  BY DEF Cleared, size
<1> HIDE DEF room
<1>5. /\ Means(m, Value(n)) /\ Capacity(m) = room
      /\ \A i \in 1 .. n.payload : m.mem[i] = n.mem[i]
      /\ \A i \in n.payload + 1 .. room : m.mem[i] = 0
  BY <1>3, RecallocIs
<1> HIDE DEF m
<1>6. m.mem \in Memory /\ Len(m.mem) = room
  <2>1. IsNumber(m)  BY <1>5 DEF Means
  <2>2. m.mem \in Memory /\ Capacity(m) = Len(m.mem)  BY <2>1, NumberHas
  <2>3. QED  BY <1>5, <2>2
<1>7. \A i \in 1 .. room : m.mem[i] = IF i <= n.payload THEN n.mem[i] ELSE 0  BY <1>1, <1>3, <1>5
<1>8. QED  BY <1>3, <1>4, <1>6, <1>7 DEF size

\* The octets of a fixnum merged into a number.
LEMMA FixnumMerged ==
  ASSUME NEW table \in {OR, XOR}, NEW n, IsNumber(n), NEW v \in Fixnum, NEW z,
         z = [i \in 1 .. FixnumSize(v) |-> BitByBit(table, Cleared(n).mem[i], FixnumOctet(v, i))]
  PROVE  LET mem == Write(Cleared(n).mem, z)
             m == Larger(n.payload, FixnumSize(v))
         IN /\ table = OR \/ n.payload # FixnumSize(v) => Means(Number(mem, m), BitByBit(table, Value(n), v))
            /\ Means(skip_leading_zeros(mem, m), BitByBit(table, Value(n), v))
<1> DEFINE c == Cleared(n).mem
           l == FixnumSize(v)
           e == FixnumOctets(v)
           m == Larger(n.payload, l)
           mem == Write(c, z)
<1>1. /\ c \in Memory /\ Len(c) \in Nat /\ Len(c) >= 1 /\ Larger(n.payload, W) <= Len(c)
      /\ \A i \in 1 .. Len(c) : c[i] = IF i <= n.payload THEN n.mem[i] ELSE 0
  BY ClearedIs
<1> HIDE DEF c
<1>2. /\ l \in 0 .. W /\ e \in Memory /\ Len(e) = l /\ (l > 0 => e[l] # 0) /\ ValueOf(Base, e, l) = v
      /\ \A i \in 1 .. l : e[i] = FixnumOctet(v, i)
  BY FixnumIs
<1> HIDE DEF l, e
<1>3. n.payload \in Nat /\ (n.payload > 0 => n.mem[n.payload] # 0) /\ W \in Nat
      /\ DigitsOf(Base, n.mem, n.payload) /\ Value(n) = ValueOf(Base, n.mem, n.payload)
  BY NumberHas, BaseIs
<1>4. l \in Nat /\ m \in Nat /\ l <= m /\ n.payload <= m /\ (m = l \/ m = n.payload) /\ m <= Len(c) /\ l <= Len(c)
  <2>1. l \in Nat  BY <1>2, <1>3
  <2>2. m = IF n.payload <= l THEN l ELSE n.payload  BY <1>3, <2>1, SmallerIs
  <2>3. Larger(n.payload, W) = IF n.payload <= W THEN W ELSE n.payload  BY <1>3, SmallerIs
  <2> HIDE DEF m
  <2>4. QED  BY <1>1, <1>2, <1>3, <2>1, <2>2, <2>3
<1> HIDE DEF m
<1>5. DigitsOf(Base, e, l)
  <2>1. l \in 0 .. Len(e)  BY <1>2, <1>4
  <2>2. QED  BY <1>2, <2>1, MemoryIs
<1>6. DigitsOf(Base, c, l)
  <2>1. l \in 0 .. Len(c)  BY <1>1, <1>4
  <2>2. QED  BY <1>1, <2>1, MemoryIs
<1>7. table \in Tables /\ Bits \in Nat /\ Base = 2 ** Bits /\ Octet = 0 .. Base - 1
  BY TheTables, BaseIs, OctetIs DEF Base
<1>8. \A i \in 1 .. l : z[i] = BitByBit(table, c[i], e[i])  BY <1>2 DEF c, l
<1>9. DigitsOf(Base, z, l)  BY ONLY <1>4, <1>5, <1>6, <1>7, <1>8, BitsOfDigits
<1>10. z \in Memory /\ Len(z) = l
  <2>1. z = [i \in 1 .. l |-> BitByBit(table, c[i], FixnumOctet(v, i))]  BY DEF c, l
  <2>2. \A i \in 1 .. l : z[i] \in Octet  BY <1>7, <1>9 DEF DigitsOf
  <2>3. z = [i \in 1 .. l |-> z[i]]  BY <2>1
  <2>4. z \in [1 .. l -> Octet]  BY <2>2, <2>3
  <2>5. QED  BY <1>4, <2>4, FunctionIsMemory
<1>11. mem \in Memory /\ Len(mem) = Len(c)
       /\ \A i \in 1 .. Len(c) : mem[i] = IF i <= l THEN z[i] ELSE c[i]
  <2>1. Len(z) <= Len(c)  BY <1>4, <1>10
  <2>2. mem \in Memory /\ Len(mem) = Len(c)
        /\ \A i \in 1 .. Len(c) : mem[i] = IF i <= Len(z) THEN z[i] ELSE c[i]
    BY ONLY <1>1, <1>10, <2>1, WriteIs
  <2>3. QED  BY <1>10, <2>2
<1> HIDE DEF mem
<1>12. Combines(table, mem, n.mem, n.payload, e, l, m)
  <2> DEFINE s(i) == IF i <= n.payload THEN n.mem[i] ELSE 0
             t(i) == IF i <= l THEN e[i] ELSE 0
  <2> SUFFICES ASSUME NEW i \in 1 .. m PROVE mem[i] = BitByBit(table, s(i), t(i))  BY DEF Combines
  <2>1. i \in 1 .. Len(c) /\ (i <= l => i \in 1 .. l) /\ (i <= n.payload => i \in 1 .. n.payload)
    BY <1>1, <1>3, <1>4
  <2>2. c[i] = s(i)  BY <1>1, <2>1
  <2>3. CASE i <= l
    <3>1. mem[i] = z[i] /\ z[i] = BitByBit(table, c[i], e[i]) /\ t(i) = e[i]  BY <1>8, <1>11, <2>1, <2>3
    <3> HIDE DEF s, t
    <3>2. QED  BY <2>2, <3>1
  <2>4. CASE ~(i <= l)
    <3>1. mem[i] = c[i] /\ t(i) = 0  BY <1>11, <2>1, <2>4
    <3>2. s(i) \in Nat
      <4>1. i <= n.payload => n.mem[i] \in 0 .. Base - 1  BY <1>3, <2>1 DEF DigitsOf
      <4>2. Base \in Nat \ {0}  BY BaseIs
      <4>3. QED  BY <4>1, <4>2
    <3> HIDE DEF s, t
    <3>3. (s(i) | 0) = s(i) /\ (s(i) ^^ 0) = s(i)  BY <3>2, NeutralBits
    <3>4. BitByBit(OR, s(i), 0) = s(i) /\ BitByBit(XOR, s(i), 0) = s(i)  BY <3>3 DEF |, ^^
    <3>5. QED  BY <2>2, <3>1, <3>4
  <2>5. QED  BY <2>3, <2>4
<1>13. m = Larger(n.payload, l) /\ m <= Len(mem) /\ Len(mem) >= 1  BY <1>1, <1>4, <1>11 DEF m
<1> DEFINE r == BitByBit(table, ValueOf(Base, n.mem, n.payload), ValueOf(Base, e, l))
<1>14. /\ table = OR \/ n.payload # l => Means(Number(mem, m), r)
       /\ Means(skip_leading_zeros(mem, m), r)
  BY <1>2, <1>3, <1>4, <1>5, <1>11, <1>12, <1>13, MergedIs
<1>15. r = BitByBit(table, Value(n), v)  BY <1>2, <1>3
<1> HIDE DEF r
<1>16. QED  BY <1>14, <1>15 DEF mem, m, c, l

\* operator|= of a fixnum.
LEMMA OrFixnumIs ==
  ASSUME NEW n, IsNumber(n), NEW v \in Fixnum
  PROVE  Means(OrFixnum(n, v), Value(n) | v)
<1>1. Value(n) \in Nat  BY NumberHas
<1>2. CASE v = 0
  <2>1. (Value(n) | 0) = Value(n)  BY <1>1, NeutralBits
  <2>2. QED  BY <1>2, <2>1 DEF OrFixnum, Means
<1>3. CASE v # 0
  <2> DEFINE z == [i \in 1 .. FixnumSize(v) |-> BitByBit(OR, Cleared(n).mem[i], FixnumOctet(v, i))]
             mem == Write(Cleared(n).mem, z)
             m == Larger(n.payload, FixnumSize(v))
  <2>1. OR \in {OR, XOR}  OBVIOUS
  <2>2. Means(Number(mem, m), BitByBit(OR, Value(n), v))  BY <2>1, FixnumMerged
  <2>3. OrFixnum(n, v) = Number(mem, m)  BY <1>3 DEF OrFixnum, |
  <2>4. QED  BY <2>2, <2>3 DEF |
<1>4. QED  BY <1>2, <1>3

\* operator^= of a fixnum.
LEMMA XorFixnumIs ==
  ASSUME NEW n, IsNumber(n), NEW v \in Fixnum
  PROVE  Means(XorFixnum(n, v), Value(n) ^^ v)
<1>1. Value(n) \in Nat  BY NumberHas
<1>2. CASE v = 0
  <2>1. (Value(n) ^^ 0) = Value(n)  BY <1>1, NeutralBits
  <2>2. QED  BY <1>2, <2>1 DEF XorFixnum, Means
<1>3. CASE v # 0
  <2> DEFINE z == [i \in 1 .. FixnumSize(v) |-> BitByBit(XOR, Cleared(n).mem[i], FixnumOctet(v, i))]
             mem == Write(Cleared(n).mem, z)
             m == Larger(n.payload, FixnumSize(v))
  <2>1. XOR \in {OR, XOR}  OBVIOUS
  <2>2. /\ n.payload # FixnumSize(v) => Means(Number(mem, m), BitByBit(XOR, Value(n), v))
        /\ Means(skip_leading_zeros(mem, m), BitByBit(XOR, Value(n), v))
    BY <2>1, FixnumMerged
  <2>3. n.payload \in Nat /\ FixnumSize(v) \in Nat
    <3>1. FixnumSize(v) \in 0 .. W /\ W \in Nat  BY FixnumIs, BaseIs
    <3>2. QED  BY <3>1, NumberHas
  <2>4. n.payload = FixnumSize(v) => m = n.payload  BY <2>3, SmallerIs
  <2>5. XorFixnum(n, v) = IF n.payload = FixnumSize(v) THEN skip_leading_zeros(mem, n.payload) ELSE Number(mem, m)
    BY <1>3 DEF XorFixnum, ^^
  <2> HIDE DEF mem, m
  <2>6. Means(XorFixnum(n, v), BitByBit(XOR, Value(n), v))  BY <2>2, <2>4, <2>5
  <2>7. QED  BY <2>6 DEF ^^
<1>4. QED  BY <1>2, <1>3

\* The memory two numbers are merged in.
LEMMA NumbersMerged ==
  ASSUME NEW table \in {OR, XOR}, NEW n, IsNumber(n), NEW rhs, IsNumber(rhs), NEW f \in Octet,
         NEW mem, mem = Merge(n, rhs, table, f), NEW m, m = Larger(n.payload, rhs.payload)
  PROVE  /\ table = OR \/ n.payload # rhs.payload => Means(Number(mem, m), BitByBit(table, Value(n), Value(rhs)))
         /\ Means(skip_leading_zeros(mem, m), BitByBit(table, Value(n), Value(rhs)))
<1> DEFINE k == n.payload
           l == rhs.payload
           old == IF Capacity(n) < m THEN malloc(m, f) ELSE n.mem
           s(i) == IF i <= k THEN n.mem[i] ELSE 0
           t(i) == IF i <= l THEN rhs.mem[i] ELSE 0
           z == [i \in 1 .. m |-> IF i <= Smaller(k, l) THEN BitByBit(table, n.mem[i], rhs.mem[i])
                                  ELSE IF k < l THEN rhs.mem[i] ELSE n.mem[i]]
<1>1. mem = Write(old, z)  BY DEF Merge
<1>2. k \in Nat /\ k <= Len(n.mem) /\ Len(n.mem) \in Nat /\ Len(n.mem) >= 1 /\ n.mem \in Memory
      /\ Capacity(n) = Len(n.mem) /\ (k > 0 => n.mem[k] # 0)
      /\ DigitsOf(Base, n.mem, k) /\ Value(n) = ValueOf(Base, n.mem, k)
  BY NumberHas
<1>3. l \in Nat /\ (l > 0 => rhs.mem[l] # 0)
      /\ DigitsOf(Base, rhs.mem, l) /\ Value(rhs) = ValueOf(Base, rhs.mem, l)
  BY NumberHas
<1>4. m = (IF k <= l THEN l ELSE k) /\ Smaller(k, l) = (IF k <= l THEN k ELSE l)  BY <1>2, <1>3, SmallerIs
<1> HIDE DEF k, l
<1>5. m \in Nat /\ k <= m /\ l <= m  BY <1>2, <1>3, <1>4
<1>6. old \in Memory /\ m <= Len(old) /\ Len(old) >= 1
  <2>1. malloc(m, f) \in Memory /\ Len(malloc(m, f)) = m  BY <1>5, MallocIs
  <2>2. QED  BY <1>2, <1>5, <2>1
<1> HIDE DEF old
<1>7. table \in Tables /\ Base \in Nat \ {0, 1} /\ Octet = 0 .. Base - 1  BY TheTables, BaseIs, OctetIs
<1>8. \A i \in 1 .. m : s(i) \in Nat /\ t(i) \in Nat
  <2> SUFFICES ASSUME NEW i \in 1 .. m PROVE s(i) \in Nat /\ t(i) \in Nat  OBVIOUS
  <2>1. i <= k => n.mem[i] \in 0 .. Base - 1  BY <1>2 DEF DigitsOf
  <2>2. i <= l => rhs.mem[i] \in 0 .. Base - 1  BY <1>3 DEF DigitsOf
  <2>3. QED  BY <1>7, <2>1, <2>2
<1>9. \A i \in 1 .. m : z[i] = BitByBit(table, s(i), t(i))
  <2> SUFFICES ASSUME NEW i \in 1 .. m PROVE z[i] = BitByBit(table, s(i), t(i))  OBVIOUS
  <2>1. z[i] = IF i <= Smaller(k, l) THEN BitByBit(table, n.mem[i], rhs.mem[i])
               ELSE IF k < l THEN rhs.mem[i] ELSE n.mem[i]
    OBVIOUS
  <2>2. s(i) \in Nat /\ t(i) \in Nat
    <3> HIDE DEF s, t
    <3>1. QED  BY <1>8
  <2>3. (s(i) | 0) = s(i) /\ (s(i) ^^ 0) = s(i) /\ (0 | t(i)) = t(i) /\ (0 ^^ t(i)) = t(i)
    <3> HIDE DEF s, t
    <3>1. QED  BY <2>2, NeutralBits
  <2>4. BitByBit(OR, s(i), 0) = s(i) /\ BitByBit(XOR, s(i), 0) = s(i)
        /\ BitByBit(OR, 0, t(i)) = t(i) /\ BitByBit(XOR, 0, t(i)) = t(i)
    <3> HIDE DEF s, t
    <3>1. QED  BY <2>3 DEF |, ^^
  <2> HIDE DEF z
  <2>5. CASE i <= Smaller(k, l)
    <3>1. s(i) = n.mem[i] /\ t(i) = rhs.mem[i]  BY <1>2, <1>3, <1>4, <2>5
    <3> HIDE DEF s, t
    <3>2. QED  BY <2>1, <2>5, <3>1
  <2>6. CASE ~(i <= Smaller(k, l)) /\ k < l
    <3>1. s(i) = 0 /\ t(i) = rhs.mem[i]  BY <1>2, <1>3, <1>4, <2>6
    <3> HIDE DEF s, t
    <3>2. QED  BY <2>1, <2>4, <2>6, <3>1
  <2>7. CASE ~(i <= Smaller(k, l)) /\ ~(k < l)
    <3>1. s(i) = n.mem[i] /\ t(i) = 0  BY <1>2, <1>3, <1>4, <2>7
    <3> HIDE DEF s, t
    <3>2. QED  BY <2>1, <2>4, <2>7, <3>1
  <2>8. QED  BY <2>5, <2>6, <2>7
<1> HIDE DEF z
<1>10. Combines(table, z, n.mem, k, rhs.mem, l, m)  BY <1>9 DEF Combines
<1> HIDE DEF s, t
<1>11. DigitsOf(Base, z, m)  BY <1>2, <1>3, <1>5, <1>7, <1>10, CombinesIs
<1>12. z \in Memory /\ Len(z) = m
  <2>1. \A i \in 1 .. m : z[i] \in Octet  BY <1>7, <1>11 DEF DigitsOf
  <2>2. z = [i \in 1 .. m |-> z[i]]  BY DEF z
  <2>3. z \in [1 .. m -> Octet]  BY <2>1, <2>2
  <2>4. QED  BY <1>5, <2>3, FunctionIsMemory
<1>13. mem \in Memory /\ Len(mem) = Len(old) /\ \A i \in 1 .. m : mem[i] = z[i]
  <2>1. Len(z) <= Len(old)  BY <1>6, <1>12
  <2>2. mem \in Memory /\ Len(mem) = Len(old)
        /\ \A i \in 1 .. Len(old) : mem[i] = IF i <= Len(z) THEN z[i] ELSE old[i]
    BY <1>1, <1>6, <1>12, <2>1, WriteIs
  <2>3. Len(old) \in Nat  BY <1>6, MemoryIs
  <2>4. \A i \in 1 .. m : i \in 1 .. Len(old) /\ i <= Len(z)  BY <1>5, <1>6, <1>12, <2>3
  <2>5. QED  BY <2>2, <2>4
<1>14. Combines(table, mem, n.mem, k, rhs.mem, l, m)  BY <1>10, <1>13 DEF Combines
<1>15. m = Larger(k, l) /\ m <= Len(mem) /\ Len(mem) >= 1  BY <1>6, <1>13 DEF k, l
<1> DEFINE r == BitByBit(table, ValueOf(Base, n.mem, k), ValueOf(Base, rhs.mem, l))
<1>16. /\ table = OR \/ k # l => Means(Number(mem, m), r)
       /\ Means(skip_leading_zeros(mem, m), r)
  BY <1>2, <1>3, <1>5, <1>13, <1>14, <1>15, MergedIs
<1>17. r = BitByBit(table, Value(n), Value(rhs))  BY <1>2, <1>3
<1> HIDE DEF r
<1>18. QED  BY <1>16, <1>17 DEF k, l

\* operator|= of a Natural.
LEMMA OrNaturalIs ==
  ASSUME NEW n, IsNumber(n), NEW rhs, IsNumber(rhs), NEW f \in Octet
  PROVE  Means(OrNatural(n, rhs, f), Value(n) | Value(rhs))
<1>1. Value(n) \in Nat /\ (is_zero(rhs) => Value(rhs) = 0)  BY NumberHas
<1>2. CASE is_zero(rhs)
  <2>1. (Value(n) | 0) = Value(n)  BY <1>1, NeutralBits
  <2>2. QED  BY <1>1, <1>2, <2>1 DEF OrNatural, Means
<1>3. CASE ~is_zero(rhs)
  <2> DEFINE mem == Merge(n, rhs, OR, f)
             m == Larger(n.payload, rhs.payload)
  <2>1. OR \in {OR, XOR}  OBVIOUS
  <2>2. Means(Number(mem, m), BitByBit(OR, Value(n), Value(rhs)))  BY <2>1, NumbersMerged
  <2>3. OrNatural(n, rhs, f) = Number(mem, m)  BY <1>3 DEF OrNatural
  <2>4. QED  BY <2>2, <2>3 DEF |
<1>4. QED  BY <1>2, <1>3

\* operator^= of a Natural.
LEMMA XorNaturalIs ==
  ASSUME NEW n, IsNumber(n), NEW rhs, IsNumber(rhs), NEW f \in Octet
  PROVE  Means(XorNatural(n, rhs, f), Value(n) ^^ Value(rhs))
<1>1. Value(n) \in Nat /\ (is_zero(rhs) => Value(rhs) = 0) /\ n.payload \in Nat /\ rhs.payload \in Nat
  BY NumberHas
<1>2. CASE is_zero(rhs)
  <2>1. (Value(n) ^^ 0) = Value(n)  BY <1>1, NeutralBits
  <2>2. QED  BY <1>1, <1>2, <2>1 DEF XorNatural, Means
<1>3. CASE ~is_zero(rhs)
  <2> DEFINE mem == Merge(n, rhs, XOR, f)
             m == Larger(n.payload, rhs.payload)
  <2>1. XOR \in {OR, XOR}  OBVIOUS
  <2>2. /\ n.payload # rhs.payload => Means(Number(mem, m), BitByBit(XOR, Value(n), Value(rhs)))
        /\ Means(skip_leading_zeros(mem, m), BitByBit(XOR, Value(n), Value(rhs)))
    BY <2>1, NumbersMerged
  <2>3. n.payload = rhs.payload => m = n.payload  BY <1>1, SmallerIs
  <2>4. XorNatural(n, rhs, f) = IF n.payload = rhs.payload THEN skip_leading_zeros(mem, n.payload) ELSE Number(mem, m)
    BY <1>3 DEF XorNatural
  <2> HIDE DEF mem, m
  <2>5. Means(XorNatural(n, rhs, f), BitByBit(XOR, Value(n), Value(rhs)))  BY <2>2, <2>3, <2>4
  <2>6. QED  BY <2>5 DEF ^^
<1>4. QED  BY <1>2, <1>3

-----------------------------------------------------------------------------
(***************************************************************************)
(* Part 3. What a number is asked for.                                     *)
(***************************************************************************)

\* A number is its highest octet and the others.
LEMMA HighestOctet ==
  ASSUME NEW n, IsNumber(n), n.payload > 0
  PROVE  /\ n.payload - 1 \in Nat /\ n.mem[n.payload] \in Octet /\ n.mem[n.payload] # 0
         /\ \E low \in 0 .. (Base ** (n.payload - 1)) - 1 :
              Value(n) = low + n.mem[n.payload] * (Base ** (n.payload - 1))
<1> DEFINE k == n.payload
<1>1. /\ k \in Nat /\ n.mem \in Memory /\ k \in 0 .. Len(n.mem) /\ n.mem[k] # 0 /\ Ints(n.mem, k)
      /\ Value(n) = ValueOf(Base, n.mem, k) /\ \A i \in 1 .. Len(n.mem) : n.mem[i] \in Octet
      /\ Len(n.mem) \in Nat
  BY NumberHas
<1>2. k > 0  OBVIOUS
<1> HIDE DEF k
<1>3. k - 1 \in Nat /\ k \in 1 .. k /\ k \in 1 .. Len(n.mem) /\ k - 1 \in 0 .. Len(n.mem)  BY <1>1, <1>2
<1>4. Base \in Int  BY BaseIs
<1>5. ValueOf(Base, n.mem, k) = ValueOf(Base, n.mem, k - 1) + n.mem[k] * (Base ** (k - 1))
  BY <1>1, <1>3, <1>4, Values
<1>6. ValueOf(Base, n.mem, k - 1) \in 0 .. (Base ** (k - 1)) - 1  BY <1>1, <1>3, MemoryValue
<1>7. QED  BY <1>1, <1>3, <1>5, <1>6 DEF k

\* integer_length.
LEMMA IntegerLengthIs ==
  ASSUME NEW n, IsNumber(n)
  PROVE  integer_length(n) = BitLength(Value(n))
<1>1. n.payload \in Nat /\ Value(n) \in Nat /\ (n.payload = 0 => Value(n) = 0)  BY NumberHas
<1>2. CASE n.payload = 0
  <2>1. 2 ** 0 = 1 /\ 0 \in Nat
    <3>1. 2 \in Int  OBVIOUS
    <3>2. QED  BY <3>1, Powers
  <2>2. 0 < 2 ** 0  BY <2>1
  <2>3. BitLength(0) = 0  BY <2>1, <2>2, BitLengthIsUnique
  <2>4. QED  BY <1>1, <1>2, <2>3 DEF integer_length
<1>3. CASE n.payload # 0
  <2> DEFINE j == n.payload - 1
             h == n.mem[n.payload]
             B == Base ** j
             v == Value(n)
             l == BitLength(h)
  <2>1. n.payload > 0  BY <1>1, <1>3
  <2>2. j \in Nat /\ h \in Octet /\ h # 0  BY <2>1, HighestOctet
  <2>3. PICK low \in 0 .. B - 1 : v = low + h * B  BY <2>1, HighestOctet
  <2>4. integer_length(n) = j * Bits + l  BY <1>3 DEF integer_length
  <2>5. v \in Nat  BY <1>1
  <2> HIDE DEF j, h, v
  <2>6. h \in Nat \ {0} /\ h \in Nat  BY <2>2, OctetIs
  <2>7. l \in Nat /\ h < 2 ** l /\ (l = 0 \/ 2 ** (l - 1) <= h)  BY <2>6, BitLengthIs
  <2> HIDE DEF l
  <2>8. l # 0
    <3>1. 2 ** 0 = 1
      <4>1. 2 \in Int  OBVIOUS
      <4>2. QED  BY <4>1, Powers
    <3>2. l = 0 => h < 1  BY <2>7, <3>1
    <3>3. QED  BY <2>6, <3>2
  <2>9. B = 2 ** (Bits * j) /\ B \in Nat \ {0} /\ Bits * j \in Nat /\ Bits * j = j * Bits
    <3>1. 2 \in Int /\ Bits \in Nat  BY BaseIs
    <3>2. (2 ** Bits) ** j = 2 ** (Bits * j)  BY <2>2, <3>1, PowerOfPower
    <3>3. B \in Nat \ {0}  BY <2>2, BasePowers
    <3>4. \A s, t \in Nat : s * t \in Nat /\ s * t = t * s  OBVIOUS
    <3>5. QED  BY <2>2, <3>1, <3>2, <3>3, <3>4 DEF Base
  <2> HIDE DEF B
  <2>10. l - 1 \in Nat /\ 2 ** l \in Nat /\ 2 ** (l - 1) \in Nat
    <3>1. l - 1 \in Nat  BY <2>7, <2>8
    <3>2. QED  BY <2>7, <3>1, PowersOfTwo
  <2>11. 2 ** (Bits * j + l) = B * (2 ** l) /\ 2 ** (Bits * j + (l - 1)) = B * (2 ** (l - 1))
    <3>1. 2 \in Int  OBVIOUS
    <3>2. QED  BY <2>7, <2>9, <2>10, <3>1, PowerOfSum
  <2>12. (h + 1) * B <= (2 ** l) * B /\ (2 ** (l - 1)) * B <= h * B /\ h * B \in Int /\ (h + 1) * B \in Int
         /\ (2 ** l) * B \in Int /\ (2 ** (l - 1)) * B \in Int
    <3>1. \A r, s \in Int : r * B \in Int /\ (r <= s => r * B <= s * B)  BY <2>9, Multiples
    <3>2. h + 1 \in Int /\ h + 1 <= 2 ** l /\ 2 ** l \in Int /\ h \in Int /\ 2 ** (l - 1) \in Int
          /\ 2 ** (l - 1) <= h
      BY <2>6, <2>7, <2>8, <2>10
    <3>3. QED  BY <3>1, <3>2
  <2>13. (h + 1) * B = h * B + B
    <3>1. \A r, s \in Int : (r + 1) * s = r * s + s  OBVIOUS
    <3>2. QED  BY <2>6, <2>9, <3>1
  <2>14. (2 ** l) * B = B * (2 ** l) /\ (2 ** (l - 1)) * B = B * (2 ** (l - 1))
    <3>1. \A r, s \in Nat : r * s = s * r  OBVIOUS
    <3>2. QED  BY <2>9, <2>10, <3>1
  <2> DEFINE k == Bits * j + l
  <2>15. v < 2 ** k /\ 2 ** (k - 1) <= v /\ k \in Nat
    <3>1. k - 1 = Bits * j + (l - 1) /\ k \in Nat  BY <2>7, <2>9
    <3> DEFINE hb == h * B
               up == B * (2 ** l)
               down == B * (2 ** (l - 1))
    <3>2. hb + B <= up /\ down <= hb /\ v = low + hb /\ hb \in Int /\ up \in Int /\ down \in Int
      BY <2>3, <2>12, <2>13, <2>14
    <3>3. 2 ** k = up /\ 2 ** (k - 1) = down  BY <2>11, <3>1
    <3>4. low \in Nat /\ low < B  BY <2>3, <2>9
    <3> HIDE DEF hb, up, down, k
    <3>5. v < up /\ down <= v  BY <2>9, <3>2, <3>4
    <3>6. QED  BY <3>1, <3>3, <3>5
  <2> HIDE DEF k
  <2>16. BitLength(v) = k  BY <2>5, <2>15, BitLengthIsUnique
  <2>17. QED  BY <2>4, <2>9, <2>16 DEF k, v
<1>4. QED  BY <1>2, <1>3

\* The octets from one on, and that one alone.
LEMMA OctetsFrom ==
  ASSUME NEW mem \in Memory, NEW m \in Nat, m <= Len(mem), NEW j \in Nat, j < m
  PROVE  \E u \in Nat : /\ ValueOf(Base, mem, m) \div (Base ** j) = mem[j + 1] + Base * u
                        /\ ValueOf(Base, mem, m) % (Base ** j) = ValueOf(Base, mem, j)
<1> DEFINE k == m - j
           e == [i \in 1 .. k |-> mem[j + i]]
           e2 == [i \in 1 .. k - 1 |-> mem[(j + 1) + i]]
           B == Base ** j
           u == ValueOf(Base, e2, k - 1)
           v == ValueOf(Base, mem, m)
<1>1. Len(mem) \in Nat /\ \A i \in 1 .. Len(mem) : mem[i] \in Octet  BY MemoryIs
<1>2. Base \in Nat \ {0, 1} /\ Base \in Nat \ {0} /\ Base \in Int /\ Octet = 0 .. Base - 1  BY BaseIs, OctetIs
<1>3. j + k = m /\ k \in Nat /\ k - 1 \in Nat /\ (j + 1) + (k - 1) = m /\ j + 1 \in Nat /\ j \in 0 .. m
      /\ j + 1 \in 1 .. m /\ j + 1 \in 0 .. m
  OBVIOUS
<1>4. Ints(mem, m)  BY <1>1, <1>2 DEF Ints
<1>5. v = ValueOf(Base, mem, j + 1) + (Base ** (j + 1)) * u
  <2>1. Above(e2, mem, j + 1, k - 1)  BY DEF Above
  <2>2. Ints(mem, (j + 1) + (k - 1))  BY <1>3, <1>4
  <2> HIDE DEF e2, k
  <2>3. ValueOf(Base, mem, (j + 1) + (k - 1)) = ValueOf(Base, mem, j + 1) + (Base ** (j + 1)) * u
    BY <1>2, <1>3, <2>1, <2>2, SplitValue
  <2>4. QED  BY <1>3, <2>3
<1>6. ValueOf(Base, mem, j + 1) = ValueOf(Base, mem, j) + mem[j + 1] * B
  <2>1. \A i \in 1 .. m : ValueOf(Base, mem, i) = ValueOf(Base, mem, i - 1) + mem[i] * (Base ** (i - 1))
    BY <1>2, <1>4, Values
  <2>2. (j + 1) - 1 = j  OBVIOUS
  <2>3. QED  BY <1>3, <2>1, <2>2
<1>7. ValueOf(Base, mem, j) \in 0 .. B - 1 /\ B \in Nat \ {0}
  <2>1. j \in 0 .. Len(mem)  BY <1>1
  <2>2. QED  BY <2>1, MemoryValue, BasePowers
<1>8. u \in Nat
  <2>1. \A i \in 1 .. k - 1 : e2[i] \in Octet
    <3>1. \A i \in 1 .. k - 1 : (j + 1) + i \in 1 .. Len(mem)  BY <1>1, <1>3
    <3>2. QED  BY <1>1, <3>1
  <2>2. DigitsOf(Base, e2, k - 1) /\ k - 1 \in 0 .. k - 1  BY <1>2, <1>3, <2>1 DEF DigitsOf
  <2> HIDE DEF e2, k
  <2>3. \A i \in 0 .. k - 1 : ValueOf(Base, e2, i) \in 0 .. (Base ** i) - 1  BY <1>2, <1>3, <2>2, ValueIsBounded
  <2>4. u \in 0 .. (Base ** (k - 1)) - 1  BY <2>2, <2>3
  <2>5. Base ** (k - 1) \in Nat  BY <1>3, BasePowers
  <2> HIDE DEF u
  <2>6. QED  BY <2>4, <2>5
<1>9. Base ** (j + 1) = Base * B  BY BasePowers
<1>10. mem[j + 1] \in Nat  BY <1>1, <1>2, <1>3
<1> DEFINE low == ValueOf(Base, mem, j)
           q == mem[j + 1] + Base * u
<1> HIDE DEF low, u, B, k, e, e2
<1>11. v = B * q + low /\ q \in Nat /\ v \in Int
  <2>1. v = (low + mem[j + 1] * B) + (Base * B) * u  BY <1>5, <1>6, <1>9 DEF low
  <2>2. mem[j + 1] * B + (Base * B) * u = B * (mem[j + 1] + Base * u)
    <3>1. \A r, s, t \in Nat : r * s + (Base * s) * t = s * (r + Base * t)  BY <1>2
    <3>2. B \in Nat  BY <1>7
    <3>3. QED  BY <1>8, <1>10, <3>1, <3>2
  <2>3. q \in Nat
    <3>1. \A r, s \in Nat : r + Base * s \in Nat  BY <1>2
    <3>2. QED  BY <1>8, <1>10, <3>1
  <2>4. \A r, s \in Nat : r * s \in Nat /\ (Base * r) * s \in Nat  BY <1>2
  <2>5. B * q \in Nat /\ mem[j + 1] * B \in Nat /\ (Base * B) * u \in Nat
    <3>1. B \in Nat  BY <1>7
    <3> HIDE DEF q
    <3>2. QED  BY <1>8, <1>10, <2>3, <2>4, <3>1
  <2>6. low \in Nat  BY <1>7 DEF low
  <2> DEFINE bq == B * q
             r == mem[j + 1] * B
             s == (Base * B) * u
  <2>7. v = (low + r) + s /\ r + s = bq /\ bq \in Nat /\ r \in Nat /\ s \in Nat  BY <2>1, <2>2, <2>5
  <2> HIDE DEF bq, r, s, q, v
  <2>8. v = bq + low /\ v \in Int  BY <2>6, <2>7
  <2>9. QED  BY <2>3, <2>8 DEF bq
<1>12. low \in 0 .. B - 1  BY <1>7 DEF low
<1> HIDE DEF v
<1>13. q = v \div B /\ low = v % B
  <2> HIDE DEF q
  <2>1. q \in Int  BY <1>11
  <2>2. QED  BY <1>7, <1>11, <1>12, <2>1, DivisionIsUnique
<1>14. QED  BY <1>8, <1>13 DEF v, low, B

\* The lowest bits of an octet are those of the number from there on.
LEMMA PartOfNumber ==
  ASSUME NEW r \in 0 .. Bits - 1, NEW o \in Octet, NEW u \in Nat
  PROVE  /\ BitSet(o + Base * u, r) <=> BitSet(o, r)
         /\ (o + Base * u) % (2 ** r) = o % (2 ** r)
<1> DEFINE P == 2 ** r
           Q == 2 ** (Bits - r)
           half == 2 ** ((Bits - r) - 1)
<1>1. Parted(P, Q)  BY PartedIs
<1>2. Q = 2 * half /\ half \in Nat
  <2>1. (Bits - r) - 1 \in Nat /\ ((Bits - r) - 1) + 1 = Bits - r  BY BaseIs
  <2>2. 2 ** (((Bits - r) - 1) + 1) = 2 * half /\ half \in Nat  BY <2>1, PowersOfTwo
  <2>3. QED  BY <2>1, <2>2
<1>3. BitSet(o + Base * u, r) <=> ((o + Base * u) \div P) % 2 = 1  BY DEF BitSet
<1>4. BitSet(o, r) <=> (o \div P) % 2 = 1  BY DEF BitSet
<1> HIDE DEF P, Q, half
<1>5. /\ P \in Nat \ {0} /\ Q \in Nat \ {0} /\ P * Q = Base
      /\ o % P \in 0 .. P - 1 /\ o \div P \in 0 .. Q - 1 /\ o = P * (o \div P) + (o % P)
  BY <1>1 DEF Parted
<1> DEFINE e == o \div P
           l == o % P
<1> HIDE DEF e, l
<1>6. l \in 0 .. P - 1 /\ l \in Nat /\ e \in Nat /\ o = P * e + l
  <2>1. l \in 0 .. P - 1 /\ e \in 0 .. Q - 1 /\ o = P * e + l  BY <1>5 DEF e, l
  <2>2. QED  BY <1>5, <2>1
<1>7. o + Base * u = P * (Q * u + e) + l /\ Q * u + e \in Int /\ o + Base * u \in Int
  <2>1. \A s, t \in Nat : s * t \in Nat  OBVIOUS
  <2>2. Q * u \in Nat /\ P * e \in Nat /\ Base * u \in Nat /\ P * (Q * u) \in Nat
    <3>1. Q \in Nat /\ P \in Nat /\ Base \in Nat  BY <1>5, BaseIs
    <3>2. Q * u \in Nat  BY <2>1, <3>1
    <3>3. QED  BY <1>6, <2>1, <3>1, <3>2
  <2>3. Base * u = P * (Q * u)  BY <1>5
  <2>4. P * (Q * u + e) = P * (Q * u) + P * e
    <3>1. \A s, t, w \in Nat : s * (t + w) = s * t + s * w  OBVIOUS
    <3>2. P \in Nat  BY <1>5
    <3>3. QED  BY <1>6, <2>2, <3>1, <3>2
  <2> DEFINE pe == P * e
             pq == P * (Q * u)
             qu == Q * u
             bu == Base * u
  <2>5. o = pe + l /\ bu = pq /\ P * (qu + e) = pq + pe /\ pe \in Nat /\ pq \in Nat /\ qu \in Nat
    BY <1>6, <2>2, <2>3, <2>4
  <2> HIDE DEF pe, pq, qu, bu
  <2>6. o + bu = P * (qu + e) + l /\ qu + e \in Int /\ o + bu \in Int  BY <1>6, <2>5
  <2>7. QED  BY <2>6 DEF qu, bu
<1>8. Q * u + e = (o + Base * u) \div P /\ l = (o + Base * u) % P  BY <1>5, <1>6, <1>7, DivisionIsUnique
<1>9. (Q * u + e) % 2 = e % 2
  <2>1. 2 \in Nat \ {0} /\ e \in Int  BY <1>6
  <2>2. e = 2 * (e \div 2) + (e % 2) /\ e \div 2 \in Int /\ e % 2 \in 0 .. 2 - 1  BY <2>1, Division
  <2> DEFINE q == e \div 2
             b == e % 2
             hu == half * u
  <2>3. Q * u = 2 * hu /\ hu \in Nat
    <3>1. \A s, t \in Nat : (2 * s) * t = 2 * (s * t) /\ s * t \in Nat  OBVIOUS
    <3>2. QED  BY <1>2, <3>1
  <2> HIDE DEF q, b, hu
  <2>4. e = 2 * q + b /\ q \in Int /\ b \in 0 .. 2 - 1  BY <2>2 DEF q, b
  <2> DEFINE qu == Q * u
  <2>5. qu = 2 * hu  BY <2>3
  <2> HIDE DEF qu
  <2>6. qu + e = 2 * (hu + q) + b /\ hu + q \in Int /\ qu + e \in Int  BY <2>3, <2>4, <2>5
  <2>7. b = (qu + e) % 2  BY <2>1, <2>4, <2>6, DivisionIsUnique
  <2>8. QED  BY <2>7 DEF b, qu
<1>10. QED  BY <1>3, <1>4, <1>8, <1>9 DEF e, l, P

\* The bits of a payload.
LEMMA BitOfPayload ==
  ASSUME NEW n, IsNumber(n), NEW m \in Nat, m < n.payload * Bits, NEW f
  PROVE  is_bit_set(n, m, f) = BitSet(Value(n), m)
<1> DEFINE q == m \div Bits
           r == m % Bits
           B == Base ** q
           P == 2 ** r
           v == Value(n)
<1>1. n.payload \in Nat /\ n.mem \in Memory /\ n.payload <= Len(n.mem) /\ v = ValueOf(Base, n.mem, n.payload)
      /\ v \in Nat /\ Len(n.mem) \in Nat /\ \A i \in 1 .. Len(n.mem) : n.mem[i] \in Octet
  BY NumberHas
<1>2. Bits \in Nat \ {0} /\ Bits \in Nat  BY BaseIs
<1>3. m \in Nat /\ m < n.payload * Bits  OBVIOUS
<1>4. q \in Nat /\ r \in 0 .. Bits - 1 /\ 2 ** m = B * P  BY <1>3, ShiftIs
<1>5. q < n.payload
  <2>1. Bits <= Bits  BY <1>2
  <2>2. n.payload # 0
    <3>1. n.payload = 0 => n.payload * Bits = 0  BY <1>2
    <3>2. QED  BY <1>3, <3>1
  <2>3. n.payload \in Nat \ {0}  BY <1>1, <2>2
  <2>4. QED  BY <1>2, <1>3, <2>1, <2>3, PartsAreSmaller
<1>6. is_bit_set(n, m, f) = BitSet(n.mem[q + 1], r)
  <2> DEFINE top == n.payload * Bits
  <2>1. top \in Nat
    <3>1. \A s, t \in Nat : s * t \in Nat  OBVIOUS
    <3>2. QED  BY <1>1, <1>2, <3>1
  <2>2. is_bit_set(n, m, f) = (m <= top /\ BitSet(IF m = top THEN OctetAbove(n, f) ELSE n.mem[q + 1], r))
    BY DEF is_bit_set
  <2>3. m < top /\ m \in Nat  BY <1>3
  <2> HIDE DEF top, q, r
  <2>4. m <= top /\ m # top  BY <2>1, <2>3
  <2>5. BitSet(n.mem[q + 1], r) \in BOOLEAN  BY DEF BitSet
  <2>6. QED  BY <2>2, <2>4, <2>5
<1> HIDE DEF q, r, v
<1>7. PICK u \in Nat : v \div B = n.mem[q + 1] + Base * u  BY <1>1, <1>4, <1>5, OctetsFrom
<1>8. n.mem[q + 1] \in Octet
  <2>1. q + 1 \in 1 .. Len(n.mem)  BY <1>1, <1>4, <1>5
  <2>2. QED  BY <1>1, <2>1
<1>9. BitSet(v \div B, r) <=> BitSet(n.mem[q + 1], r)  BY <1>4, <1>7, <1>8, PartOfNumber
<1>10. (v \div B) \div P = v \div (B * P)
  <2>1. B \in Nat \ {0} /\ P \in Nat \ {0} /\ v \in Int /\ r \in Nat  BY <1>1, <1>2, <1>4, BasePowers, PowersOfTwo
  <2> HIDE DEF B, P
  <2>2. QED  BY <2>1, DivisionTwice
<1>11. BitSet(v \div B, r) <=> BitSet(v, m)
  <2>1. BitSet(v \div B, r) <=> ((v \div B) \div P) % 2 = 1  BY DEF BitSet
  <2>2. BitSet(v, m) <=> (v \div (2 ** m)) % 2 = 1  BY DEF BitSet
  <2> HIDE DEF B, P
  <2>3. QED  BY <1>4, <1>10, <2>1, <2>2
<1>12. BitSet(n.mem[q + 1], r) \in BOOLEAN /\ BitSet(v, m) \in BOOLEAN  BY DEF BitSet
<1>13. QED  BY <1>6, <1>9, <1>11, <1>12 DEF v

\* A multiple has no remainder.
LEMMA WholeParts ==
  ASSUME NEW k \in Nat, NEW b \in Nat \ {0}
  PROVE  (k * b) \div b = k /\ (k * b) % b = 0
<1> DEFINE n == k * b
<1>1. n = b * k + 0  OBVIOUS
<1>2. k \in Int /\ 0 \in 0 .. b - 1 /\ n \in Int
  <2>1. \A s, t \in Nat : s * t \in Int  OBVIOUS
  <2>2. QED  BY <2>1
<1> HIDE DEF n
<1>3. QED  BY <1>1, <1>2, DivisionIsUnique DEF n

\* No bit of a value is above its payload.
LEMMA NoBitAbove ==
  ASSUME NEW n, IsNumber(n), NEW m \in Nat, m >= n.payload * Bits
  PROVE  ~BitSet(Value(n), m)
<1>1. n.payload \in Nat /\ Value(n) \in Nat /\ Value(n) < Base ** n.payload  BY NumberHas
<1>2. Bits \in Nat \ {0} /\ Bits \in Nat  BY BaseIs
<1> DEFINE top == n.payload * Bits
<1>3. top \in Nat
  <2>1. \A s, t \in Nat : s * t \in Nat  OBVIOUS
  <2>2. QED  BY <1>1, <1>2, <2>1
<1>4. 2 ** top = Base ** n.payload
  <2>1. top \div Bits = n.payload /\ top % Bits = 0  BY <1>1, <1>2, WholeParts
  <2>2. 2 ** top = (Base ** n.payload) * (2 ** 0)  BY <1>3, <2>1, ShiftIs
  <2>3. 2 ** 0 = 1
    <3>1. 2 \in Int  OBVIOUS
    <3>2. QED  BY <3>1, Powers
  <2>4. Base ** n.payload \in Nat  BY <1>1, BasePowers
  <2>5. QED  BY <2>2, <2>3, <2>4
<1>5. 2 ** top <= 2 ** m /\ 2 ** m \in Nat \ {0}
  <2> HIDE DEF top
  <2>1. 2 \in Nat \ {0, 1} /\ 2 ** m \in Nat \ {0} /\ 2 ** top \in Nat  BY <1>3, PowersOfTwo
  <2>2. CASE top = m  BY <2>1, <2>2
  <2>3. CASE top < m
    <3>1. 2 ** top < 2 ** m  BY <1>3, <2>1, <2>3, PowersGrow
    <3>2. QED  BY <2>1, <3>1
  <2>4. m >= top  BY DEF top
  <2>5. QED  BY <1>3, <2>2, <2>3, <2>4
<1>6. Value(n) < 2 ** m /\ 2 ** m \in Nat \ {0} /\ Value(n) \in Nat
  <2> DEFINE P == 2 ** m
             Q == 2 ** top
             v == Value(n)
  <2>1. v < Q /\ Q <= P /\ P \in Nat \ {0} /\ v \in Nat /\ Q \in Nat
    BY <1>1, <1>3, <1>4, <1>5, PowersOfTwo
  <2> HIDE DEF P, Q, v
  <2>2. v < P  BY <2>1
  <2>3. QED  BY <2>1, <2>2 DEF P, v
<1>7. Value(n) \div (2 ** m) = 0  BY <1>6, SmallDividend
<1>8. QED  BY <1>7 DEF BitSet

\* is_bit_set.
LEMMA IsBitSetIs ==
  ASSUME NEW n, IsNumber(n), NEW m \in Nat, NEW f \in Octet
  PROVE  is_bit_set(n, m, f) <=> \/ BitSet(Value(n), m)
                                 \/ m = n.payload * Bits /\ OctetAbove(n, f) % 2 = 1
<1>1. n.payload \in Nat /\ Bits \in Nat \ {0}  BY NumberHas, BaseIs
<1> DEFINE top == n.payload * Bits
<1>2. top \in Nat /\ top % Bits = 0
  <2>1. \A s, t \in Nat : s * t \in Nat  OBVIOUS
  <2>2. top \in Nat  BY <1>1, <2>1
  <2>3. top % Bits = 0  BY <1>1, WholeParts
  <2>4. QED  BY <2>2, <2>3
<1>3. is_bit_set(n, m, f) <=> m <= top /\ BitSet(IF m = top THEN OctetAbove(n, f) ELSE n.mem[m \div Bits + 1], m % Bits)
  BY DEF is_bit_set
<1>4. ASSUME m < top PROVE is_bit_set(n, m, f) = BitSet(Value(n), m)  BY <1>4, BitOfPayload
<1>5. ASSUME m >= top PROVE ~BitSet(Value(n), m)  BY <1>5, NoBitAbove
<1>6. OctetAbove(n, f) \in Nat
  <2>1. n.payload <= Len(n.mem) /\ Len(n.mem) \in Nat /\ (\A i \in 1 .. Len(n.mem) : n.mem[i] \in Octet)
        /\ Capacity(n) = Len(n.mem) /\ (\A o \in Octet : o \in Nat)
    BY NumberHas, OctetIs DEF Capacity
  <2>2. CASE n.payload < Capacity(n)
    <3>1. n.payload + 1 \in 1 .. Len(n.mem)  BY <1>1, <2>1, <2>2
    <3>2. QED  BY <2>1, <2>2, <3>1 DEF OctetAbove
  <2>3. CASE ~(n.payload < Capacity(n))  BY <2>1, <2>3 DEF OctetAbove
  <2>4. QED  BY <2>2, <2>3
<1>7. BitSet(OctetAbove(n, f), 0) <=> OctetAbove(n, f) % 2 = 1
  <2>1. 2 ** 0 = 1
    <3>1. 2 \in Int  OBVIOUS
    <3>2. QED  BY <3>1, Powers
  <2>2. OctetAbove(n, f) \div 1 = OctetAbove(n, f)  BY <1>6
  <2>3. QED  BY <2>1, <2>2 DEF BitSet
<1> DEFINE set == is_bit_set(n, m, f)
           in_value == BitSet(Value(n), m)
           above == OctetAbove(n, f) % 2 = 1
<1>8. set \in BOOLEAN /\ in_value \in BOOLEAN /\ above \in BOOLEAN  BY DEF is_bit_set, BitSet
<1>9. CASE m < top
  <2>1. set = in_value /\ m # top
    <3>1. set = in_value  BY <1>4, <1>9
    <3> HIDE DEF top, set, in_value
    <3>2. QED  BY <1>2, <1>9, <3>1
  <2> HIDE DEF set, in_value, above, top
  <2>2. set <=> (in_value \/ (m = top /\ above))  BY <1>8, <2>1, Zenon
  <2>3. QED  BY <2>2 DEF set, in_value, above, top
<1>10. CASE m = top
  <2>1. ~in_value
    <3>1. m >= top  BY <1>2, <1>10
    <3>2. QED  BY <1>5, <3>1
  <2>2. set <=> BitSet(OctetAbove(n, f), 0)
    <3>1. m <= top /\ m % Bits = 0  BY <1>2, <1>10
    <3>2. QED  BY <1>3, <1>10, <3>1
  <2>3. set <=> above  BY <1>7, <2>2
  <2> HIDE DEF set, in_value, above, top
  <2>4. set <=> (in_value \/ (m = top /\ above))  BY <1>8, <1>10, <2>1, <2>3, Zenon
  <2>5. QED  BY <2>4 DEF set, in_value, above, top
<1>11. CASE m > top
  <2>1. ~in_value
    <3>1. m >= top  BY <1>2, <1>11
    <3>2. QED  BY <1>5, <3>1
  <2>2. ~(m <= top) /\ m # top
    <3> HIDE DEF top
    <3>1. QED  BY <1>2, <1>11
  <2>3. ~set  BY <1>3, <2>2
  <2> HIDE DEF set, in_value, above, top
  <2>4. set <=> (in_value \/ (m = top /\ above))  BY <1>8, <2>1, <2>2, <2>3, Zenon
  <2>5. QED  BY <2>4 DEF set, in_value, above, top
<1>12. m < top \/ m = top \/ m > top
  <2> HIDE DEF top
  <2>1. QED  BY <1>2
<1>13. QED  BY <1>9, <1>10, <1>11, <1>12

\* The octets of a number below a bit: the others are taken away from the last one.
Below(n, m, r) == [i \in 1 .. m |-> IF i = m /\ r > 0 THEN n.mem[i] % (2 ** r) ELSE n.mem[i]]

\* They stand for the remainder by that power of two.
LEMMA BelowIs ==
  ASSUME NEW n, IsNumber(n), NEW q \in Nat, NEW r \in 0 .. Bits - 1, q < n.payload,
         NEW m, m = q + (IF r > 0 THEN 1 ELSE 0)
  PROVE  /\ m \in Nat /\ m <= n.payload
         /\ \A i \in 1 .. m : Below(n, m, r)[i] \in Octet
         /\ ValueOf(Base, Below(n, m, r), m) = Value(n) % ((Base ** q) * (2 ** r))
<1> DEFINE g == Below(n, m, r)
           B == Base ** q
           P == 2 ** r
           o == n.mem[q + 1]
           v == Value(n)
<1>1. n.payload \in Nat /\ n.mem \in Memory /\ n.payload <= Len(n.mem) /\ v = ValueOf(Base, n.mem, n.payload)
      /\ v \in Nat /\ Len(n.mem) \in Nat /\ \A i \in 1 .. Len(n.mem) : n.mem[i] \in Octet
  BY NumberHas
<1>2. r \in Nat /\ (r > 0 => m = q + 1) /\ (~(r > 0) => m = q /\ r = 0)
  <2>1. Bits \in Nat \ {0}  BY BaseIs
  <2>2. QED  BY <2>1
<1>3. m \in Nat /\ m <= n.payload  BY <1>1, <1>2
<1>4. P \in Nat \ {0} /\ B \in Nat \ {0} /\ (r = 0 => P = 1)
  <2>1. 2 ** 0 = 1
    <3>1. 2 \in Int  OBVIOUS
    <3>2. QED  BY <3>1, Powers
  <2>2. QED  BY <1>2, <2>1, PowersOfTwo, BasePowers
<1>5. Parted(P, 2 ** (Bits - r))  BY PartedIs
<1>6. \A s \in Octet : s % P \in 0 .. P - 1 /\ s % P \in Octet
  <2> SUFFICES ASSUME NEW s \in Octet PROVE s % P \in 0 .. P - 1 /\ s % P \in Octet  OBVIOUS
  <2>1. s \in Nat /\ Octet = 0 .. Base - 1 /\ Base \in Nat  BY OctetIs, BaseIs
  <2>2. s % P <= s /\ s % P \in Nat /\ s % P < P  BY <1>4, <2>1, PartsAreSmaller
  <2> DEFINE w == s % P
  <2> HIDE DEF w, P
  <2>3. w <= s /\ w \in Nat /\ w < P  BY <2>2 DEF w
  <2>4. w \in 0 .. P - 1 /\ w \in Octet  BY <1>4, <2>1, <2>3
  <2>5. QED  BY <2>4 DEF w
<1>7. o \in Octet
  <2>1. q + 1 \in 1 .. Len(n.mem)  BY <1>1
  <2>2. QED  BY <1>1, <2>1
<1> HIDE DEF v, o
<1>8. \A i \in 1 .. m : g[i] \in Octet
  <2>1. \A i \in 1 .. m : n.mem[i] \in Octet
    <3>1. \A i \in 1 .. m : i \in 1 .. Len(n.mem)  BY <1>1, <1>3
    <3>2. QED  BY <1>1, <3>1
  <2>2. \A i \in 1 .. m : g[i] = IF i = m /\ r > 0 THEN n.mem[i] % P ELSE n.mem[i]  BY DEF Below
  <2> HIDE DEF g, P
  <2>3. QED  BY <1>6, <2>1, <2>2
<1>9. \A i \in 1 .. q : g[i] = n.mem[i]
  <2>1. \A i \in 1 .. q : i \in 1 .. m /\ ~(i = m /\ r > 0)  BY <1>2
  <2>2. \A i \in 1 .. m : g[i] = IF i = m /\ r > 0 THEN n.mem[i] % P ELSE n.mem[i]  BY DEF Below
  <2> HIDE DEF g
  <2>3. QED  BY <2>1, <2>2
<1>10. r > 0 => g[q + 1] = o % P
  <2>1. r > 0 => q + 1 \in 1 .. m /\ q + 1 = m  BY <1>2
  <2>2. \A i \in 1 .. m : g[i] = IF i = m /\ r > 0 THEN n.mem[i] % P ELSE n.mem[i]  BY DEF Below
  <2> HIDE DEF g
  <2>3. QED  BY <2>1, <2>2 DEF o
<1>11. PICK u \in Nat : /\ v \div B = o + Base * u
                        /\ v % B = ValueOf(Base, n.mem, q)
  BY <1>1, OctetsFrom DEF o
<1>12. v % (B * P) = B * (o % P) + ValueOf(Base, n.mem, q)
  <2>1. v \in Int  BY <1>1
  <2>2. (o + Base * u) % P = o % P  BY <1>7, PartOfNumber
  <2> HIDE DEF B, P
  <2>3. v % (B * P) = B * ((v \div B) % P) + (v % B)  BY <1>4, <2>1, DivisionTwice
  <2>4. QED  BY <1>11, <2>2, <2>3
<1>13. Base \in Int /\ Octet \subseteq Int  BY BaseIs, OctetIs
<1>14. Ints(g, m) /\ Ints(n.mem, q)
  <2>1. \A i \in 1 .. q : i \in 1 .. Len(n.mem)  BY <1>1
  <2>2. QED  BY <1>1, <1>8, <1>13, <2>1 DEF Ints
<1>15. ValueOf(Base, g, q) = ValueOf(Base, n.mem, q) /\ ValueOf(Base, n.mem, q) \in Int
  <2>1. Same(n.mem, g, q)  BY <1>9 DEF Same
  <2> HIDE DEF g
  <2>2. ValueOf(Base, n.mem, q) = ValueOf(Base, g, q)  BY <1>13, <1>14, <2>1, SameDigits
  <2>3. q \in 0 .. Len(n.mem)  BY <1>1
  <2>4. ValueOf(Base, n.mem, q) \in Nat  BY <1>1, <2>3, MemoryValue
  <2>5. QED  BY <2>2, <2>4
<1> HIDE DEF g
<1>16. CASE r > 0
  <2>1. q + 1 \in 1 .. m /\ m = q + 1 /\ (q + 1) - 1 = q  BY <1>2, <1>16
  <2>2. ValueOf(Base, g, q + 1) = ValueOf(Base, g, q) + g[q + 1] * B
    <3>1. \A i \in 1 .. m : ValueOf(Base, g, i) = ValueOf(Base, g, i - 1) + g[i] * (Base ** (i - 1))
      BY <1>3, <1>13, <1>14, Values
    <3>2. QED  BY <2>1, <3>1
  <2>3. (o % P) * B = B * (o % P) /\ B * (o % P) \in Int
    <3>1. o % P \in Octet  BY <1>6, <1>7
    <3>2. \A s, t \in Int : s * t = t * s /\ s * t \in Int  OBVIOUS
    <3> DEFINE h == o % P
    <3>5. \A i \in Octet : i \in Int  BY BaseIs DEF Octet
    <3>6. h \in Int  BY <3>1, <3>5
    <3>3. B \in Int  BY <1>4
    <3> HIDE DEF P, B, h
    <3>4. h * B = B * h /\ B * h \in Int  BY <3>2, <3>3, <3>6
    <3>7. QED  BY <3>4 DEF h
  <2> DEFINE bo == B * (o % P)
             w == ValueOf(Base, n.mem, q)
  <2>4. ValueOf(Base, g, m) = w + bo /\ v % (B * P) = bo + w /\ bo \in Int /\ w \in Int
    BY <1>10, <1>12, <1>15, <1>16, <2>1, <2>2, <2>3
  <2> HIDE DEF bo, w
  <2>5. ValueOf(Base, g, m) = v % (B * P)  BY <2>4
  <2>6. QED  BY <1>3, <1>8, <2>5 DEF g, v
<1>17. CASE ~(r > 0)
  <2>1. m = q /\ P = 1  BY <1>2, <1>4, <1>17
  <2>2. o % 1 = 0
    <3>1. o \in Int  BY <1>7, <1>13
    <3>2. QED  BY <3>1
  <2>3. B * 0 = 0  BY <1>4
  <2> DEFINE w == ValueOf(Base, n.mem, q)
  <2>4. v % (B * P) = 0 + w  BY <1>12, <2>1, <2>2, <2>3
  <2>5. ValueOf(Base, g, m) = w  BY <1>15, <2>1
  <2>6. ValueOf(Base, g, m) = v % (B * P)  BY <1>15, <2>4, <2>5
  <2>7. QED  BY <1>3, <1>8, <2>6 DEF g, v
<1>18. QED  BY <1>16, <1>17

\* bit_field.
LEMMA BitFieldIs ==
  ASSUME NEW n, IsNumber(n), NEW start \in Nat, NEW endp1 \in Nat, start <= endp1, NEW f \in Octet
  PROVE  Value(bit_field(n, start, endp1, f)) = (Value(n) % (2 ** endp1)) \div (2 ** start)
<1> DEFINE s == start \div Bits
           e == endp1 \div Bits
           p == start % Bits
           r == endp1 % Bits
           beyond == e >= n.payload
           endq == IF beyond THEN n.payload ELSE e
           endr == IF beyond THEN 0 ELSE r
           size == (endq - s) + (IF endr > 0 THEN 1 ELSE 0)
           octets == [i \in 1 .. size |-> IF i = size /\ endr > 0 THEN n.mem[s + i] % (2 ** endr)
                                          ELSE n.mem[s + i]]
           sub == Number(Write(malloc(Larger(size, W), f), octets), size)
           v == Value(n)
           M == v % (2 ** endp1)
           B == Base ** s
<1>1. bit_field(n, start, endp1, f)
        = IF s >= n.payload THEN Number(malloc(W, f), 0) ELSE ShiftRight(sub, p)
  BY DEF bit_field
<1>2. s \in Nat /\ p \in 0 .. Bits - 1 /\ 2 ** start = B * (2 ** p)  BY ShiftIs
<1>3. e \in Nat /\ r \in 0 .. Bits - 1 /\ 2 ** endp1 = (Base ** e) * (2 ** r)  BY ShiftIs
<1>4. s <= e
  <2>1. Bits \in Nat \ {0} /\ start \in Int /\ endp1 \in Int  BY BaseIs
  <2>2. start = Bits * s + p /\ endp1 = Bits * e + r  BY <2>1, Division
  <2>3. e < s => Bits * e + Bits <= Bits * s
    <3>1. \A i, j \in Int : i < j => i * Bits + Bits <= j * Bits  BY <2>1, Multiples
    <3>2. \A i, j \in Int : i * j = j * i  OBVIOUS
    <3>3. s \in Int /\ e \in Int  BY <1>2, <1>3
    <3> HIDE DEF s, e
    <3>4. QED  BY <2>1, <3>1, <3>2, <3>3
  <2> DEFINE bs == Bits * s
             be == Bits * e
  <2>4. bs \in Int /\ be \in Int
    <3>1. \A i, j \in Int : i * j \in Int  OBVIOUS
    <3> HIDE DEF s, e
    <3>2. QED  BY <1>2, <1>3, <2>1, <3>1
  <2>5. start = bs + p /\ endp1 = be + r /\ (e < s => be + Bits <= bs)  BY <2>2, <2>3
  <2> HIDE DEF bs, be, s, e, p, r
  <2>6. QED  BY <1>2, <1>3, <2>1, <2>4, <2>5
<1> HIDE DEF s, e, p, r, v
<1>5. n.payload \in Nat /\ n.mem \in Memory /\ n.payload \in 0 .. Len(n.mem) /\ Len(n.mem) \in Nat
      /\ v = ValueOf(Base, n.mem, n.payload) /\ v \in Nat /\ v < Base ** n.payload
      /\ \A i \in 1 .. Len(n.mem) : n.mem[i] \in Octet
  BY NumberHas DEF v
<1>6. \A i \in Nat : 2 ** i \in Nat \ {0}  BY PowersOfTwo
<1>7. M \in Nat /\ M <= v  BY <1>5, <1>6, PartsAreSmaller
<1>8. \A i \in Nat, j \in 0 .. Bits - 1 : n.payload <= i => v < (Base ** i) * (2 ** j)
  <2> SUFFICES ASSUME NEW i \in Nat, NEW j \in 0 .. Bits - 1, n.payload <= i
               PROVE  v < (Base ** i) * (2 ** j)
    OBVIOUS
  <2>1. Base ** n.payload <= Base ** i /\ Base ** i \in Nat /\ Base ** n.payload \in Nat  BY <1>5, BasePowers
  <2>2. 2 ** j \in Nat \ {0}
    <3>1. j \in Nat  BY BaseIs
    <3>2. QED  BY <1>6, <3>1
  <2>3. \A t \in Nat, w \in Nat \ {0} : t <= t * w /\ t * w \in Nat  OBVIOUS
  <2>4. Base ** i <= (Base ** i) * (2 ** j) /\ (Base ** i) * (2 ** j) \in Nat  BY <2>1, <2>2, <2>3
  <2>5. QED  BY <1>5, <2>1, <2>4
<1>9. CASE s >= n.payload
  <2>1. M < 2 ** start
    <3>1. v < 2 ** start  BY <1>2, <1>5, <1>8, <1>9
    <3>2. QED  BY <1>5, <1>6, <1>7, <3>1
  <2>2. M \div (2 ** start) = 0
    <3> HIDE DEF M
    <3>1. QED  BY <1>6, <1>7, <2>1, SmallDividend
  <2>3. Value(Number(malloc(W, f), 0)) = 0
    <3>1. malloc(W, f) \in Memory  BY BaseIs, MallocIs
    <3> DEFINE mem == malloc(W, f)
    <3> HIDE DEF mem
    <3>2. Ints(mem, 0) /\ Base \in Int  BY BaseIs DEF Ints
    <3>3. ValueOf(Base, mem, 0) = 0  BY <3>2, Values
    <3>4. Number(mem, 0).mem = mem /\ Number(mem, 0).payload = 0  BY DEF Number
    <3>5. Value(Number(mem, 0)) = 0  BY <3>3, <3>4 DEF Value
    <3>6. QED  BY <3>5 DEF mem
  <2>4. QED  BY <1>1, <1>9, <2>2, <2>3 DEF v
<1>10. CASE ~(s >= n.payload)
  <2> DEFINE m == endq + (IF endr > 0 THEN 1 ELSE 0)
             g == Below(n, m, endr)
  <2>1. s < n.payload  BY <1>2, <1>5, <1>10
  <2>2. endq \in Nat /\ s <= endq /\ endr \in 0 .. Bits - 1 /\ endr \in Nat
    <3>1. Bits \in Nat \ {0}  BY BaseIs
    <3>2. QED  BY <1>2, <1>3, <1>4, <1>5, <2>1, <3>1
  <2>3. /\ m \in Nat /\ m <= n.payload
        /\ \A i \in 1 .. m : g[i] \in Octet
        /\ ValueOf(Base, g, m) = M
    <3>1. CASE beyond
      <4>1. m = n.payload /\ endr = 0  BY <1>5, <3>1
      <4>2. \A i \in 1 .. m : g[i] = n.mem[i]  BY <4>1 DEF Below
      <4>3. \A i \in 1 .. m : n.mem[i] \in Octet
        <5>1. \A i \in 1 .. n.payload : i \in 1 .. Len(n.mem)  BY <1>5
        <5>2. QED  BY <1>5, <4>1, <5>1
      <4>4. ValueOf(Base, g, n.payload) = v
        <5>1. Same(n.mem, g, n.payload)  BY <4>1, <4>2 DEF Same
        <5>2. Ints(n.mem, n.payload) /\ Base \in Int  BY NumberHas, BaseIs
        <5> HIDE DEF g
        <5>3. QED  BY <1>5, <5>1, <5>2, SameDigits
      <4>5. M = v
        <5>1. v < 2 ** endp1  BY <1>3, <1>5, <1>8, <3>1
        <5>2. QED  BY <1>5, <1>6, <5>1, SmallDividend
      <4> HIDE DEF g, m, M
      <4>6. QED  BY <1>5, <4>1, <4>2, <4>3, <4>4, <4>5
    <3>2. CASE ~beyond
      <4>1. endq = e /\ endr = r /\ e < n.payload  BY <1>3, <1>5, <3>2
      <4>2. m = e + (IF r > 0 THEN 1 ELSE 0)  BY <4>1
      <4> HIDE DEF m
      <4>3. /\ m \in Nat /\ m <= n.payload
            /\ \A i \in 1 .. m : Below(n, m, r)[i] \in Octet
            /\ ValueOf(Base, Below(n, m, r), m) = Value(n) % ((Base ** e) * (2 ** r))
        BY <1>3, <4>1, <4>2, BelowIs
      <4>4. QED  BY <1>3, <4>1, <4>3 DEF v
    <3>3. QED  BY <3>1, <3>2
  <2>4. size \in Nat /\ s + size = m  BY <1>2, <2>2
  <2>5. \A i \in 1 .. size : octets[i] = g[s + i] /\ octets[i] \in Octet
    <3> SUFFICES ASSUME NEW i \in 1 .. size PROVE octets[i] = g[s + i] /\ octets[i] \in Octet  OBVIOUS
    <3>1. s + i \in 1 .. m /\ (i = size <=> s + i = m)  BY <1>2, <2>4
    <3> HIDE DEF size, m, endr
    <3>2. octets[i] = IF i = size /\ endr > 0 THEN n.mem[s + i] % (2 ** endr) ELSE n.mem[s + i]  OBVIOUS
    <3>3. g[s + i] = IF s + i = m /\ endr > 0 THEN n.mem[s + i] % (2 ** endr) ELSE n.mem[s + i]
      BY <3>1 DEF Below
    <3> HIDE DEF octets, g
    <3>4. octets[i] = g[s + i]  BY <3>1, <3>2, <3>3
    <3>5. QED  BY <2>3, <3>1, <3>4
  <2> HIDE DEF g, m, M
  <2>6. octets \in Memory /\ Len(octets) = size
    <3>1. octets \in [1 .. size -> Octet]
      <4>1. octets = [i \in 1 .. size |-> octets[i]]  OBVIOUS
      <4> HIDE DEF octets, size
      <4>2. QED  BY <2>5, <4>1
    <3> HIDE DEF octets, size
    <3>2. QED  BY <2>4, <3>1, FunctionIsMemory
  <2> HIDE DEF octets, size
  <2> DEFINE low == ValueOf(Base, g, s)
             D == ValueOf(Base, octets, size)
  <2>7. M = low + B * D
    <3>1. Above(octets, g, s, size)  BY <2>5 DEF Above
    <3>2. Ints(g, s + size)  BY <2>3, <2>4, OctetIs DEF Ints
    <3>3. Base \in Int  BY BaseIs
    <3>4. ValueOf(Base, g, s + size) = low + B * D  BY <1>2, <2>4, <3>1, <3>2, <3>3, SplitValue
    <3>5. QED  BY <2>3, <2>4, <3>4
  <2>8. low \in 0 .. B - 1 /\ B \in Nat \ {0}
    <3>1. DigitsOf(Base, g, s)
      <4>1. \A i \in 1 .. s : i \in 1 .. m  BY <1>2, <2>4
      <4>2. QED  BY <2>3, <4>1, OctetIs DEF DigitsOf
    <3>2. Base \in Nat \ {0} /\ s \in 0 .. s  BY <1>2, BaseIs
    <3>3. \A j \in 0 .. s : ValueOf(Base, g, j) \in 0 .. (Base ** j) - 1  BY <1>2, <3>1, <3>2, ValueIsBounded
    <3>4. B \in Nat \ {0}  BY <1>2, BasePowers
    <3>5. QED  BY <3>2, <3>3, <3>4
  <2>9. D \in Int /\ D \in Nat
    <3>1. size \in 0 .. Len(octets)  BY <2>4, <2>6
    <3>2. QED  BY <2>6, <3>1, MemoryValue
  <2> HIDE DEF low, D, B
  <2>10. D = M \div B
    <3>1. B * D \in Int
      <4>1. \A t, w \in Int : t * w \in Int  OBVIOUS
      <4>2. QED  BY <2>8, <2>9, <4>1
    <3>2. M = B * D + low /\ M \in Int  BY <1>7, <2>7, <2>8, <3>1
    <3>3. QED  BY <2>8, <2>9, <3>2, DivisionIsUnique
  <2> DEFINE old == malloc(Larger(size, W), f)
             mem == Write(old, octets)
  <2>11. mem \in Memory /\ Len(mem) = Larger(size, W) /\ Larger(size, W) >= 1 /\ size <= Larger(size, W)
         /\ Larger(size, W) \in Nat /\ \A i \in 1 .. size : mem[i] = octets[i]
    <3>1. Larger(size, W) \in Nat /\ size <= Larger(size, W) /\ W <= Larger(size, W) /\ W >= 1
      BY <2>4, BaseIs, SmallerIs
    <3>2. old \in Memory /\ Len(old) = Larger(size, W)  BY <3>1, MallocIs
    <3> HIDE DEF old
    <3>3. Len(octets) <= Len(old)  BY <2>6, <3>1, <3>2
    <3>4. mem \in Memory /\ Len(mem) = Len(old)
          /\ \A i \in 1 .. Len(old) : mem[i] = IF i <= Len(octets) THEN octets[i] ELSE old[i]
      BY <2>6, <3>2, <3>3, WriteIs
    <3>5. \A i \in 1 .. size : i \in 1 .. Len(old) /\ i <= Len(octets)  BY <2>4, <2>6, <3>1, <3>2
    <3> HIDE DEF mem
    <3>6. \A i \in 1 .. size : mem[i] = octets[i]  BY <3>4, <3>5
    <3>7. W \in Nat  BY BaseIs
    <3>8. QED  BY <3>1, <3>2, <3>4, <3>6, <3>7, <2>4
  <2> HIDE DEF old, mem
  <2>12. sub = Number(mem, size) /\ sub = [mem |-> mem, payload |-> size]  BY DEF mem, old, Number
  <2>13. sub \in [mem : Memory, payload : Nat] /\ sub.mem = mem /\ sub.payload = size
    BY <2>4, <2>11, <2>12
  <2>14. Value(sub) = D
    <3>1. Same(octets, mem, size)  BY <2>11 DEF Same
    <3>2. Ints(octets, size) /\ Base \in Int
      <4>1. size \in 0 .. Len(octets)  BY <2>4, <2>6
      <4>2. QED  BY <2>6, <4>1, MemoryIs, BaseIs
    <3>3. ValueOf(Base, octets, size) = ValueOf(Base, mem, size)  BY <2>4, <3>1, <3>2, SameDigits
    <3>4. Value(sub) = ValueOf(Base, mem, size)  BY <2>13 DEF Value
    <3>5. QED  BY <3>3, <3>4 DEF D
  <2> HIDE DEF sub
  <2>15. Value(ShiftRight(sub, p)) = D \div (2 ** p) /\ p \in Nat
    <3>1. p \in Nat  BY <1>2, BaseIs
    <3>2. Len(sub.mem) >= 1 /\ sub.payload <= Len(sub.mem)  BY <2>4, <2>11, <2>13
    <3>3. Value(ShiftRight(sub, p)) = Value(sub) \div (2 ** p)  BY <2>13, <3>1, <3>2, ShiftRightIs
    <3>4. QED  BY <2>14, <3>1, <3>3
  <2>16. (M \div B) \div (2 ** p) = M \div (B * (2 ** p))
    <3>1. 2 ** p \in Nat \ {0} /\ M \in Int  BY <1>6, <1>7, <2>15
    <3> DEFINE P == 2 ** p
    <3> HIDE DEF P
    <3>2. P \in Nat \ {0}  BY <3>1 DEF P
    <3>3. (M \div B) \div P = M \div (B * P)  BY <2>8, <3>1, <3>2, DivisionTwice
    <3>4. QED  BY <3>3 DEF P
  <2>17. 2 ** start = B * (2 ** p)  BY <1>2 DEF B
  <2>18. QED  BY <1>1, <1>10, <2>10, <2>15, <2>16, <2>17 DEF M, v, sub
<1>11. QED  BY <1>9, <1>10

-----------------------------------------------------------------------------
(***************************************************************************)
(* Part 4. The operations, and the theorems.                               *)
(***************************************************************************)

Told(name, rhs, v, mod) == [name |-> name, rhs |-> rhs, v |-> v, mod |-> mod]
OperandOf(rhs, v) == IF rhs = "x" THEN Value(x) ELSE IF rhs = "y" THEN Value(y) ELSE v
EffectOf(name, rhs, v, mod) == A!Effect(Told(name, rhs, v, mod))

\* What Arithmetic takes for the operand and the modulus of an operation.
LEMMA OperandIs ==
  ASSUME NEW name, NEW rhs, NEW v, NEW mod
  PROVE  /\ A!Operand(Told(name, rhs, v, mod)) = OperandOf(rhs, v)
         /\ A!Modulus(Told(name, rhs, v, mod)) = IF mod = 0 THEN Value(y) ELSE mod
  BY DEF A!Operand, A!Modulus, Told, OperandOf

\* What each operation is to do.
Effects(rhs, v, mod, r) ==
  /\ EffectOf("=", rhs, v, mod) = <<r, Value(y)>>
    /\ EffectOf("copy", rhs, v, mod) = <<Value(x), Value(x)>>
    /\ EffectOf("+=", rhs, v, mod) = <<Value(x) + r, Value(y)>>
    /\ EffectOf("-=", rhs, v, mod) = <<Difference(Value(x), r), Value(y)>>
    /\ EffectOf("*=", rhs, v, mod) = <<Value(x) * r, Value(y)>>
    /\ EffectOf("/=", rhs, v, mod) = <<IF r = 0 THEN Value(x) ELSE Value(x) \div r, Value(y)>>
    /\ EffectOf("%=", rhs, v, mod)
       = <<IF Value(x) = 0 \/ r = 0 THEN Value(x) ELSE Value(x) % r, Value(y)>>
    /\ EffectOf("quotient_remainder", rhs, v, mod)
       = IF Value(x) = 0 THEN <<0, 0>>
         ELSE IF r = 0 THEN <<Value(x), Value(y)>> ELSE <<Value(x) \div r, Value(x) % r>>

\* Arithmetic says so.
LEMMA EffectIs ==
  ASSUME NEW rhs, NEW v, NEW mod, NEW r, OperandOf(rhs, v) = r
  PROVE  Effects(rhs, v, mod, r)
<1> DEFINE o(name) == Told(name, rhs, v, mod)
<1>1. \A name : o(name).name = name  BY DEF Told
<1>2. \A name : A!Operand(o(name)) = r  BY OperandIs
<1> HIDE DEF o
<1>3. /\ A!Effect(o("=")) = <<r, Value(y)>>
      /\ A!Effect(o("copy")) = <<Value(x), Value(x)>>
      /\ A!Effect(o("+=")) = <<Value(x) + r, Value(y)>>
      /\ A!Effect(o("*=")) = <<Value(x) * r, Value(y)>>
  BY <1>1, <1>2 DEF A!Effect
<1>4. A!Effect(o("-=")) = <<A!Monus(Value(x), r), Value(y)>>
  BY <1>1, <1>2 DEF A!Effect
<1>5. A!Effect(o("/=")) = <<IF r = 0 THEN Value(x) ELSE Value(x) \div r, Value(y)>>
  BY <1>1, <1>2 DEF A!Effect
<1>6. A!Effect(o("%=")) = <<IF Value(x) = 0 \/ r = 0 THEN Value(x) ELSE Value(x) % r, Value(y)>>
  BY <1>1, <1>2 DEF A!Effect
<1>7. A!Effect(o("quotient_remainder"))
      = IF Value(x) = 0 THEN <<0, 0>>
        ELSE IF r = 0 THEN <<Value(x), Value(y)>> ELSE <<Value(x) \div r, Value(x) % r>>
  BY <1>1, <1>2 DEF A!Effect
<1>8. A!Monus(Value(x), r) = Difference(Value(x), r)  BY DEF A!Monus, Difference
<1>9. QED  BY <1>3, <1>4, <1>5, <1>6, <1>7, <1>8 DEF o, EffectOf, Effects

BitEffects(rhs, v, mod, r) ==
  /\ EffectOf("expt", rhs, v, mod) = <<IF r = 0 THEN 1 ELSE Value(x) ** r, Value(y)>>
    /\ EffectOf("modular_expt", rhs, v, mod)
       = <<A!PowerMod(Value(x), r, IF mod = 0 THEN Value(y) ELSE mod), Value(y)>>
    /\ EffectOf("~", rhs, v, mod)
       = <<Value(x), (Base ** A!OctetLength(Value(x)) - 1) - Value(x)>>
    /\ EffectOf("<<=", rhs, v, mod) = <<Value(x) * (2 ** r), Value(y)>>
    /\ EffectOf(">>=", rhs, v, mod) = <<Value(x) \div (2 ** r), Value(y)>>
    /\ EffectOf("&=", rhs, v, mod) = <<Value(x) & r, Value(y)>>
    /\ EffectOf("|=", rhs, v, mod) = <<Value(x) | r, Value(y)>>
    /\ EffectOf("^=", rhs, v, mod) = <<Value(x) ^^ r, Value(y)>>

\* Arithmetic says so, too.
LEMMA BitEffectIs ==
  ASSUME NEW rhs, NEW v, NEW mod, NEW r, OperandOf(rhs, v) = r
  PROVE  BitEffects(rhs, v, mod, r)
<1> DEFINE o(name) == Told(name, rhs, v, mod)
<1>1. \A name : o(name).name = name  BY DEF Told
<1>2. \A name : A!Operand(o(name)) = r /\ A!Modulus(o(name)) = IF mod = 0 THEN Value(y) ELSE mod
  BY OperandIs
<1> HIDE DEF o
<1>3. A!Effect(o("expt")) = <<IF r = 0 THEN 1 ELSE Value(x) ** r, Value(y)>>
  BY <1>1, <1>2 DEF A!Effect, A!**, **
<1>4. A!Effect(o("modular_expt"))
      = <<A!PowerMod(Value(x), r, IF mod = 0 THEN Value(y) ELSE mod), Value(y)>>
  BY <1>1, <1>2 DEF A!Effect
<1>5. A!Effect(o("~")) = <<Value(x), (Base ** A!OctetLength(Value(x)) - 1) - Value(x)>>
  BY <1>1, <1>2 DEF A!Effect, A!Ones, A!**, **
<1>6. /\ A!Effect(o("<<=")) = <<Value(x) * (2 ** r), Value(y)>>
      /\ A!Effect(o(">>=")) = <<Value(x) \div (2 ** r), Value(y)>>
  BY <1>1, <1>2 DEF A!Effect, A!**, **
<1>7. A!Effect(o("&=")) = <<Value(x) & r, Value(y)>>
  <2>1. A!Effect(o("&=")) = <<A!&(Value(x), r), Value(y)>>  BY <1>1, <1>2 DEF A!Effect
  <2>2. A!&(Value(x), r) = Value(x) & r
    BY DEF A!&, &, A!BitByBit, BitByBit, A!AND, AND, A!Bit, Bit
  <2>3. QED  BY <2>1, <2>2
<1>8. A!Effect(o("|=")) = <<Value(x) | r, Value(y)>>
  <2>1. A!Effect(o("|=")) = <<A!|(Value(x), r), Value(y)>>  BY <1>1, <1>2 DEF A!Effect
  <2>2. A!|(Value(x), r) = Value(x) | r
    BY DEF A!|, |, A!BitByBit, BitByBit, A!OR, OR, A!Bit, Bit
  <2>3. QED  BY <2>1, <2>2
<1>9. A!Effect(o("^=")) = <<Value(x) ^^ r, Value(y)>>
  <2>1. A!Effect(o("^=")) = <<A!^^(Value(x), r), Value(y)>>  BY <1>1, <1>2 DEF A!Effect
  <2>2. A!^^(Value(x), r) = Value(x) ^^ r
    BY DEF A!^^, ^^, A!BitByBit, BitByBit, A!XOR, XOR, A!Bit, Bit
  <2>3. QED  BY <2>1, <2>2
<1>10. QED  BY <1>3, <1>4, <1>5, <1>6, <1>7, <1>8, <1>9 DEF o, EffectOf, BitEffects

\* The two numbers stay numbers, and the step is one of the arithmetic.
Right == IsNumber(x') /\ IsNumber(y') /\ A!Next

\* An operation whose results are numbers, and those Arithmetic asks for, is right.
LEMMA BecomesRight ==
  ASSUME NEW name, NEW rhs, NEW v, NEW mod, NEW n, NEW m, Becomes(name, rhs, v, mod, n, m),
         NEW p, NEW q, Means(n, p), Means(m, q), EffectOf(name, rhs, v, mod) = <<p, q>>
  PROVE  Right
<1>1. op' = Told(name, rhs, v, mod) /\ x' = n /\ y' = m /\ steps' = steps + 1
  BY DEF Becomes, Told
<1>2. IsNumber(n) /\ IsNumber(m) /\ Value(n) = p /\ Value(m) = q  BY DEF Means
<1>3. A!Effect(op') = <<p, q>>  BY <1>1 DEF EffectOf
<1>4. Value(x)' = p /\ Value(y)' = q  BY <1>1, <1>2 DEF Value
<1>5. A!Next  BY <1>1, <1>3, <1>4 DEF A!Next
<1>6. QED  BY <1>1, <1>2, <1>5 DEF Right

\* What all operators rely on and keep.
NumbersInv == IsNumber(x) /\ IsNumber(y)

\* What operations are given.
LEMMA InputsAre ==
  /\ \A v \in Fixnums : v \in Fixnum
  /\ \A f \in Fill : f \in Octet
  /\ \A m \in Moduli : m \in Fixnum /\ m > 1
  /\ \A e \in Exponents : e \in Nat
  /\ \A s \in Shifts : s \in Nat
<1>1. /\ Fixnums \subseteq 0 .. Base ** W - 1 /\ Fill \subseteq Octet
      /\ Moduli \subseteq 2 .. Base ** W - 1 /\ Exponents \subseteq Nat /\ Shifts \subseteq Nat
  BY NaturalAssumption
<1>2. Base ** W \in Nat
  <2>1. W \in Nat  BY BaseIs
  <2>2. QED  BY <2>1, BasePowers
<1>3. QED  BY <1>1, <1>2 DEF Fixnum

\* An operand is a fixnum, or the value of one of the two numbers.
LEMMA OperandsAre ==
  ASSUME NumbersInv
  PROVE  /\ \A v : OperandOf("fixnum", v) = v
         /\ \A r \in {"x", "y"} : \A v : OperandOf(r, v) = Value(Rhs(r)) /\ IsNumber(Rhs(r))
         /\ Means(x, Value(x)) /\ Means(y, Value(y)) /\ Value(x) \in Nat /\ Value(y) \in Nat
<1>1. IsNumber(x) /\ IsNumber(y)  BY DEF NumbersInv
<1>2. Value(x) \in Nat /\ Value(y) \in Nat  BY <1>1, NumberHas
<1>3. QED  BY <1>1, <1>2 DEF OperandOf, Rhs, Means

\* Assignments, ++ and --.
LEMMA AssignmentsRight ==
  ASSUME NumbersInv, borne'
  PROVE  /\ \A v \in Fixnums : AssignFixnum(v) => Right
         /\ \A f \in Fill : CopyToOther(f) => Right
         /\ Increment => Right
         /\ Decrement => Right
<1>1. IsNumber(x) /\ IsNumber(y) /\ (\A v \in Fixnums : v \in Fixnum) /\ (\A f \in Fill : f \in Octet)  BY InputsAre DEF NumbersInv
<1>2. Means(x, Value(x)) /\ Means(y, Value(y)) /\ Value(x) \in Nat  BY OperandsAre
<1>3. ASSUME NEW v \in Fixnums, AssignFixnum(v) PROVE Right
  <2>1. FixnumSize(v) <= Capacity(x) /\ Becomes("=", "fixnum", v, 1, replaced_by_fixnum(x, v), y)
    BY <1>3 DEF AssignFixnum, ByFixnum, Bears
  <2>2. x.mem \in Memory /\ Len(x.mem) >= 1 /\ Capacity(x) = Len(x.mem)  BY <1>1, NumberHas
  <2>3. Means(replaced_by_fixnum(x, v), v)  BY <1>1, <2>1, <2>2, ReplacedByFixnum
  <2>4. EffectOf("=", "fixnum", v, 1) = <<v, Value(y)>>
    <3>1. Effects("fixnum", v, 1, v)  BY EffectIs, OperandsAre
    <3>2. QED  BY <3>1 DEF Effects
  <2>5. QED  BY <1>2, <2>1, <2>3, <2>4, BecomesRight
<1>4. ASSUME NEW f \in Fill, CopyToOther(f) PROVE Right
  <2>1. Becomes("copy", "fixnum", 0, 1, x, Assign(y, x, f))  BY <1>4 DEF CopyToOther
  <2>2. Means(Assign(y, x, f), Value(x))  BY <1>1, AssignIs
  <2>3. EffectOf("copy", "fixnum", 0, 1) = <<Value(x), Value(x)>>
    <3>1. Effects("fixnum", 0, 1, 0)  BY EffectIs, OperandsAre
    <3>2. QED  BY <3>1 DEF Effects
  <2>4. QED  BY <1>2, <2>1, <2>2, <2>3, BecomesRight
<1>5. ASSUME Increment PROVE Right
  <2>1. Becomes("+=", "fixnum", 1, 1, add_digit(x, 1), y)  BY <1>5 DEF Increment, ByFixnum
  <2>2. 1 \in Octet /\ 1 # 0  BY OctetIs
  <2>3. Means(add_digit(x, 1), Value(x) + 1)  BY <1>1, <2>2, AddDigitIs
  <2>4. EffectOf("+=", "fixnum", 1, 1) = <<Value(x) + 1, Value(y)>>
    <3>1. Effects("fixnum", 1, 1, 1)  BY EffectIs, OperandsAre
    <3>2. QED  BY <3>1 DEF Effects
  <2>5. QED  BY <1>2, <2>1, <2>3, <2>4, BecomesRight
<1>6. ASSUME Decrement PROVE Right
  <2>1. Becomes("-=", "fixnum", 1, 1, decrease_from_slot(x, 1), y)  BY <1>6 DEF Decrement, ByFixnum
  <2>2. Means(decrease_from_slot(x, 1), Difference(Value(x), 1))
    BY <1>1, DecrementIs DEF Difference
  <2>3. EffectOf("-=", "fixnum", 1, 1) = <<Difference(Value(x), 1), Value(y)>>
    <3>1. Effects("fixnum", 1, 1, 1)  BY EffectIs, OperandsAre
    <3>2. QED  BY <3>1 DEF Effects
  <2>4. QED  BY <1>2, <2>1, <2>2, <2>3, BecomesRight
<1>7. QED  BY <1>3, <1>4, <1>5, <1>6

\* Sums and differences.
LEMMA SumsRight ==
  ASSUME NumbersInv, borne'
  PROVE  /\ \A v \in Fixnums : AddFixnum(v) => Right
         /\ \A r \in {"x", "y"}, f \in Fill : AddNatural(r, f) => Right
         /\ \A v \in Fixnums : SubtractFixnum(v) => Right
         /\ \A r \in {"x", "y"} : SubtractNatural(r) => Right
<1>1. IsNumber(x) /\ IsNumber(y) /\ (\A v \in Fixnums : v \in Fixnum) /\ (\A f \in Fill : f \in Octet)  BY InputsAre DEF NumbersInv
<1>2. Means(x, Value(x)) /\ Means(y, Value(y)) /\ Value(x) \in Nat  BY OperandsAre
<1>3. /\ \A r \in {"x", "y"} : OperandOf(r, 0) = Value(Rhs(r)) /\ IsNumber(Rhs(r))
      /\ \A v : OperandOf("fixnum", v) = v
  BY OperandsAre
<1>4. ASSUME NEW v \in Fixnums, AddFixnum(v) PROVE Right
  <2>1. /\ IF v >= Base THEN Capacity(x) <= Larger(x.payload, W) \/ Zeroed(x)
           ELSE v # 0 \/ x.payload # 0
        /\ Becomes("+=", "fixnum", v, 1, PlusFixnum(x, v), y)
    BY <1>4 DEF AddFixnum, ByFixnum, Bears
  <2>2. Means(PlusFixnum(x, v), Value(x) + v)  BY <1>1, <2>1, PlusFixnumIs DEF Zeroed
  <2>3. EffectOf("+=", "fixnum", v, 1) = <<Value(x) + v, Value(y)>>
    <3>1. Effects("fixnum", v, 1, v)  BY <1>3, EffectIs
    <3>2. QED  BY <3>1 DEF Effects
  <2>4. QED  BY <1>2, <2>1, <2>2, <2>3, BecomesRight
<1>5. ASSUME NEW r \in {"x", "y"}, NEW f \in Fill, AddNatural(r, f) PROVE Right
  <2>1. /\ r = "x" => x.payload < 2 \/ Capacity(x) > x.payload
        /\ Becomes("+=", r, 0, 1, PlusNatural(x, Rhs(r), r = "x", f), y)
    BY <1>5 DEF AddNatural, ByNumber, Bears
  <2> DEFINE same == r = "x"
  <2>2. same \in BOOLEAN /\ (same => Rhs(r) = x /\ (x.payload < 2 \/ Capacity(x) > x.payload))
    BY <2>1 DEF Rhs
  <2>3. Becomes("+=", r, 0, 1, PlusNatural(x, Rhs(r), same, f), y)  BY <2>1
  <2> HIDE DEF same
  <2>4. Means(PlusNatural(x, Rhs(r), same, f), Value(x) + Value(Rhs(r)))
    BY <1>1, <1>3, <2>2, PlusNaturalIs
  <2>5. EffectOf("+=", r, 0, 1) = <<Value(x) + Value(Rhs(r)), Value(y)>>
    <3>1. Effects(r, 0, 1, Value(Rhs(r)))  BY <1>3, EffectIs
    <3>2. QED  BY <3>1 DEF Effects
  <2>6. QED  BY <1>2, <2>3, <2>4, <2>5, BecomesRight
<1>6. ASSUME NEW v \in Fixnums, SubtractFixnum(v) PROVE Right
  <2>1. Becomes("-=", "fixnum", v, 1, MinusFixnum(x, v), y)  BY <1>6 DEF SubtractFixnum, ByFixnum
  <2>2. Means(MinusFixnum(x, v), Difference(Value(x), v))  BY <1>1, MinusFixnumIs
  <2>3. EffectOf("-=", "fixnum", v, 1) = <<Difference(Value(x), v), Value(y)>>
    <3>1. Effects("fixnum", v, 1, v)  BY <1>3, EffectIs
    <3>2. QED  BY <3>1 DEF Effects
  <2>4. QED  BY <1>2, <2>1, <2>2, <2>3, BecomesRight
<1>7. ASSUME NEW r \in {"x", "y"}, SubtractNatural(r) PROVE Right
  <2>1. Becomes("-=", r, 0, 1, MinusNatural(x, Rhs(r)), y)  BY <1>7 DEF SubtractNatural, ByNumber
  <2>2. Means(MinusNatural(x, Rhs(r)), Difference(Value(x), Value(Rhs(r))))
    BY <1>1, <1>3, MinusNaturalIs
  <2>3. EffectOf("-=", r, 0, 1) = <<Difference(Value(x), Value(Rhs(r))), Value(y)>>
    <3>1. Effects(r, 0, 1, Value(Rhs(r)))  BY <1>3, EffectIs
    <3>2. QED  BY <3>1 DEF Effects
  <2>4. QED  BY <1>2, <2>1, <2>2, <2>3, BecomesRight
<1>8. QED  BY <1>4, <1>5, <1>6, <1>7

\* Products.
LEMMA ProductsRight ==
  ASSUME NumbersInv
  PROVE  /\ \A v \in Fixnums, f \in Fill : MultiplyFixnum(v, f) => Right
         /\ \A r \in {"x", "y"}, f \in Fill : MultiplyNatural(r, f) => Right
<1>1. IsNumber(x) /\ IsNumber(y) /\ (\A v \in Fixnums : v \in Fixnum) /\ (\A f \in Fill : f \in Octet)  BY InputsAre DEF NumbersInv
<1>2. Means(x, Value(x)) /\ Means(y, Value(y)) /\ Value(x) \in Nat  BY OperandsAre
<1>3. /\ \A r \in {"x", "y"} : OperandOf(r, 0) = Value(Rhs(r)) /\ IsNumber(Rhs(r))
      /\ \A v : OperandOf("fixnum", v) = v
  BY OperandsAre
<1>4. ASSUME NEW v \in Fixnums, NEW f \in Fill, MultiplyFixnum(v, f) PROVE Right
  <2>1. Becomes("*=", "fixnum", v, 1, TimesFixnum(x, v, f), y)
    BY <1>4 DEF MultiplyFixnum, ByFixnum
  <2>2. Means(TimesFixnum(x, v, f), Value(x) * v)  BY <1>1, TimesFixnumIs
  <2>3. EffectOf("*=", "fixnum", v, 1) = <<Value(x) * v, Value(y)>>
    <3>1. Effects("fixnum", v, 1, v)  BY <1>3, EffectIs
    <3>2. QED  BY <3>1 DEF Effects
  <2>4. QED  BY <1>2, <2>1, <2>2, <2>3, BecomesRight
<1>5. ASSUME NEW r \in {"x", "y"}, NEW f \in Fill, MultiplyNatural(r, f) PROVE Right
  <2>1. Becomes("*=", r, 0, 1, TimesNatural(x, Rhs(r), f), y)
    BY <1>5 DEF MultiplyNatural, ByNumber
  <2>2. Means(TimesNatural(x, Rhs(r), f), Value(x) * Value(Rhs(r)))  BY <1>1, <1>3, TimesNaturalIs
  <2>3. EffectOf("*=", r, 0, 1) = <<Value(x) * Value(Rhs(r)), Value(y)>>
    <3>1. Effects(r, 0, 1, Value(Rhs(r)))  BY <1>3, EffectIs
    <3>2. QED  BY <3>1 DEF Effects
  <2>4. QED  BY <1>2, <2>1, <2>2, <2>3, BecomesRight
<1>6. QED  BY <1>4, <1>5

\* A division that yields quotient and remainder is right, a division by zero as well.
LEMMA DivisionRight ==
  ASSUME NumbersInv, NEW rhs, NEW v, NEW r \in Nat, OperandOf(rhs, v) = r, NEW o \in Oremainders,
         NEW d, DivisionIs(d, x, r, y, o), Becomes(DivisionName(o), rhs, v, 1, d[1], d[2])
  PROVE  Right
<1> DEFINE a == Value(x)
           b == Value(y)
           q == a \div r
           m == a % r
<1>1. Means(x, a) /\ Means(y, b) /\ a \in Nat  BY OperandsAre
<1>2. r # 0 /\ a = 0 => q = 0 /\ m = 0
  <2>1. 0 \in Nat  OBVIOUS
  <2>2. QED  BY <2>1, SmallDividend
<1>3. /\ EffectOf("/=", rhs, v, 1) = <<IF r = 0 THEN a ELSE q, b>>
      /\ EffectOf("%=", rhs, v, 1) = <<IF a = 0 \/ r = 0 THEN a ELSE m, b>>
      /\ EffectOf("quotient_remainder", rhs, v, 1)
         = IF a = 0 THEN <<0, 0>> ELSE IF r = 0 THEN <<a, b>> ELSE <<q, m>>
  <2>1. Effects(rhs, v, 1, r)  BY EffectIs
  <2>2. QED  BY <2>1 DEF Effects
<1>4. /\ r = 0 /\ a # 0 => d = <<x, y>>
      /\ ~(r = 0 /\ a # 0) => Results(d, y, o, IF r = 0 THEN 0 ELSE q, IF r = 0 THEN 0 ELSE m)
  BY DEF DivisionIs
<1> HIDE DEF q, m, a, b
<1>5. CASE r = 0 /\ a # 0
  <2>1. d[1] = x /\ d[2] = y  BY <1>4, <1>5
  <2>2. EffectOf(DivisionName(o), rhs, v, 1) = <<a, b>>
    BY <1>3, <1>5 DEF DivisionName, Oremainders
  <2>3. QED  BY <1>1, <2>1, <2>2, BecomesRight
<1>6. CASE ~(r = 0 /\ a # 0)
  <2>1. CASE o = "none"
    <3>1. Means(d[1], IF r = 0 THEN a ELSE q) /\ d[2] = y  BY <1>4, <1>6, <2>1 DEF Results
    <3>2. DivisionName(o) = "/="  BY <2>1 DEF DivisionName
    <3>3. QED  BY <1>1, <1>3, <3>1, <3>2, BecomesRight
  <2>2. CASE o = "this"
    <3>1. Means(d[1], IF a = 0 \/ r = 0 THEN a ELSE m) /\ d[2] = y
      BY <1>2, <1>4, <1>6, <2>2 DEF Results
    <3>2. DivisionName(o) = "%="  BY <2>2 DEF DivisionName
    <3>3. QED  BY <1>1, <1>3, <3>1, <3>2, BecomesRight
  <2>3. CASE o = "other"
    <3>1. Means(d[1], IF a = 0 THEN 0 ELSE q) /\ Means(d[2], IF a = 0 THEN 0 ELSE m)
      BY <1>2, <1>4, <1>6, <2>3 DEF Results
    <3>2. DivisionName(o) = "quotient_remainder"  BY <2>3 DEF DivisionName
    <3>3. EffectOf("quotient_remainder", rhs, v, 1)
          = <<IF a = 0 THEN 0 ELSE q, IF a = 0 THEN 0 ELSE m>>
      BY <1>3, <1>6
    <3>4. QED  BY <3>1, <3>2, <3>3, BecomesRight
  <2>4. QED  BY <2>1, <2>2, <2>3 DEF Oremainders
<1>7. QED  BY <1>5, <1>6

\* Divisions, with the remainder in either number or in none.
LEMMA DivisionsRight ==
  ASSUME NumbersInv, borne'
  PROVE  /\ \A v \in Fixnums, o \in Oremainders, f \in Fill : QuotientFixnum(v, o, f) => Right
         /\ \A r \in {"x", "y"}, o \in Oremainders, f \in Fill : QuotientNatural(r, o, f) => Right
<1>1. IsNumber(x) /\ IsNumber(y) /\ (\A v \in Fixnums : v \in Fixnum) /\ (\A f \in Fill : f \in Octet)  BY InputsAre DEF NumbersInv
<1>2. /\ \A r \in {"x", "y"} : OperandOf(r, 0) = Value(Rhs(r)) /\ IsNumber(Rhs(r))
      /\ \A v : OperandOf("fixnum", v) = v
  BY OperandsAre
<1>3. ASSUME NEW v \in Fixnums, NEW o \in Oremainders, NEW f \in Fill, QuotientFixnum(v, o, f) PROVE Right
  <2> DEFINE d == DivideFixnum(x, v, y, o, f)
  <2>1. FixnumSize(v) < W /\ (o = "other" => Capacity(y) >= W)
        /\ Becomes(DivisionName(o), "fixnum", v, 1, d[1], d[2])
    BY <1>3 DEF QuotientFixnum, Bears
  <2>2. DivisionIs(d, x, v, y, o)  BY <1>1, <2>1, DivideFixnumIs DEF DivisionIs
  <2>3. v \in Nat  BY <1>1, FixnumIs
  <2> HIDE DEF d
  <2>4. QED  BY <1>2, <2>1, <2>2, <2>3, DivisionRight
<1>4. ASSUME NEW r \in {"x", "y"}, NEW o \in Oremainders, NEW f \in Fill, QuotientNatural(r, o, f) PROVE Right
  <2> DEFINE d == DivideNatural(x, Rhs(r), y, o, f)
  <2>1. Rhs(r).payload # W /\ (o = "other" => Capacity(y) >= W)
        /\ Becomes(DivisionName(o), r, 0, 1, d[1], d[2])
    BY <1>4 DEF QuotientNatural, Bears
  <2>2. DivisionIs(d, x, Value(Rhs(r)), y, o)  BY <1>1, <1>2, <2>1, DivideNaturalIs
  <2>3. Value(Rhs(r)) \in Nat  BY <1>2, NumberHas
  <2> HIDE DEF d
  <2>4. QED  BY <1>2, <2>1, <2>2, <2>3, DivisionRight
<1>5. QED  BY <1>3, <1>4

\* Powers, with and without a modulus.
LEMMA PowersRight ==
  ASSUME NumbersInv, borne'
  PROVE  /\ \A e \in Exponents, f \in Fill : Expt(e, f) => Right
         /\ \A e \in Exponents, m \in Moduli, f \in Fill : ModularExpt(e, m, f) => Right
         /\ \A e \in Exponents, f \in Fill : ModularExptByNumber(e, f) => Right
         /\ \A r \in {"x", "y"}, f \in Fill : ModularExptNumbers(r, f) => Right
         /\ \A r \in {"x", "y"}, m \in Moduli, f \in Fill : ModularExptOfNumber(r, m, f) => Right
<1>1. IsNumber(x) /\ IsNumber(y) /\ (\A f \in Fill : f \in Octet) /\ (\A e \in Exponents : e \in Nat)
      /\ \A m \in Moduli : m \in Fixnum /\ m > 1
  BY InputsAre DEF NumbersInv
<1>2. Means(x, Value(x)) /\ Means(y, Value(y)) /\ Value(x) \in Nat /\ Value(y) \in Nat  BY OperandsAre
<1>3. /\ \A r \in {"x", "y"} : OperandOf(r, 0) = Value(Rhs(r)) /\ IsNumber(Rhs(r))
      /\ \A e : OperandOf("fixnum", e) = e
  BY OperandsAre
<1>4. ASSUME NEW e \in Exponents, NEW f \in Fill, Expt(e, f) PROVE Right
  <2>1. Becomes("expt", "fixnum", e, 1, expt(x, e, f), y)  BY <1>4 DEF Expt, ByFixnum
  <2>2. Means(expt(x, e, f), Value(x) ** e)  BY <1>1, ExptIs
  <2>3. EffectOf("expt", "fixnum", e, 1) = <<IF e = 0 THEN 1 ELSE Value(x) ** e, Value(y)>>
    <3>1. BitEffects("fixnum", e, 1, e)  BY <1>3, BitEffectIs
    <3>2. QED  BY <3>1 DEF BitEffects
  <2>4. e = 0 => Value(x) ** e = 1
    <3>1. Value(x) \in Int  BY <1>2
    <3>2. QED  BY <3>1, Powers
  <2>5. EffectOf("expt", "fixnum", e, 1) = <<Value(x) ** e, Value(y)>>  BY <2>3, <2>4
  <2>6. QED  BY <1>2, <2>1, <2>2, <2>5, BecomesRight
<1>5. ASSUME NEW e \in Exponents, NEW m \in Moduli, NEW f \in Fill, ModularExpt(e, m, f) PROVE Right
  <2> DEFINE n == FromFixnum(m, f)
             size == 2 * W
  <2>1. FixnumSize(m) < W
        /\ Becomes("modular_expt", "fixnum", e, m, modular_expt(x, e, n, size, f), y)
    BY <1>5 DEF ModularExpt, Bears
  <2>11. size \in Nat  BY BaseIs
  <2>2. IsNumber(n) /\ Value(n) = m  BY <1>1, FromFixnumIs DEF Means
  <2>3. n.payload = FixnumSize(m)  BY DEF FromFixnum, replaced_by_fixnum, Number
  <2>4. n.payload # W
    <3>1. FixnumSize(m) \in 0 .. W /\ W \in Nat  BY <1>1, FixnumIs, BaseIs
    <3> HIDE DEF n
    <3>2. QED  BY <2>1, <2>3, <3>1
  <2> HIDE DEF n, size
  <2>5. Means(modular_expt(x, e, n, size, f), (Value(x) ** e) % Value(n))
    BY <1>1, <2>2, <2>4, <2>11, ModularExptIs
  <2>6. m \in Nat \ {0}
    <3>1. m \in Nat  BY <1>1, FixnumIs
    <3>2. QED  BY <1>1, <3>1
  <2>7. A!PowerMod(Value(x), e, m) = (Value(x) ** e) % m  BY <1>1, <1>2, <2>6, PowerModIs
  <2>8. EffectOf("modular_expt", "fixnum", e, m) = <<A!PowerMod(Value(x), e, m), Value(y)>>
    <3>1. BitEffects("fixnum", e, m, e)  BY <1>3, <2>6, BitEffectIs
    <3>2. QED  BY <2>6, <3>1 DEF BitEffects
  <2>9. EffectOf("modular_expt", "fixnum", e, m) = <<(Value(x) ** e) % Value(n), Value(y)>>
    BY <2>2, <2>7, <2>8
  <2>10. QED  BY <1>2, <2>1, <2>5, <2>9, BecomesRight
<1>6. ASSUME NEW e \in Exponents, NEW f \in Fill, ModularExptByNumber(e, f) PROVE Right
  <2> DEFINE size == 2 * (IF is_fixnum(y) THEN W ELSE y.payload)
  <2>1. y.payload # W /\ Value(y) > 1
        /\ Becomes("modular_expt", "fixnum", e, 0, modular_expt(x, e, y, size, f), y)
    BY <1>6 DEF ModularExptByNumber, HasModulus, Bears
  <2>7. size \in Nat
    <3>1. y.payload \in Nat /\ W \in Nat  BY <1>1, NumberHas, BaseIs
    <3>2. QED  BY <3>1
  <2> HIDE DEF size
  <2>2. Means(modular_expt(x, e, y, size, f), (Value(x) ** e) % Value(y))
    BY <1>1, <2>1, <2>7, ModularExptIs
  <2>3. Value(y) \in Nat \ {0}  BY <1>2, <2>1
  <2>4. A!PowerMod(Value(x), e, Value(y)) = (Value(x) ** e) % Value(y)
    BY <1>1, <1>2, <2>3, PowerModIs
  <2>5. EffectOf("modular_expt", "fixnum", e, 0) = <<A!PowerMod(Value(x), e, Value(y)), Value(y)>>
    <3>1. BitEffects("fixnum", e, 0, e)  BY <1>3, BitEffectIs
    <3>2. QED  BY <3>1 DEF BitEffects
  <2>6. QED  BY <1>2, <2>1, <2>2, <2>4, <2>5, BecomesRight
<1>7. ASSUME NEW r \in {"x", "y"}, NEW f \in Fill, ModularExptNumbers(r, f) PROVE Right
  <2> DEFINE n == Rhs(r)
  <2>1. y.payload # W /\ Value(y) > 1 /\ (is_fixnum(n) => is_fixnum(y))
        /\ Becomes("modular_expt", r, 0, 0, ModularExptNatural(x, n, y, f), y)
    BY <1>7 DEF ModularExptNumbers, HasModulus, Bears
  <2>2. IsNumber(n) /\ OperandOf(r, 0) = Value(n) /\ Value(n) \in Nat  BY <1>3, NumberHas
  <2> HIDE DEF n
  <2>3. Means(ModularExptNatural(x, n, y, f), (Value(x) ** Value(n)) % Value(y))
    BY <1>1, <2>1, <2>2, ModularExptNaturalIs
  <2>4. Value(y) \in Nat \ {0}  BY <1>2, <2>1
  <2>5. A!PowerMod(Value(x), Value(n), Value(y)) = (Value(x) ** Value(n)) % Value(y)
    BY <1>2, <2>2, <2>4, PowerModIs
  <2>6. EffectOf("modular_expt", r, 0, 0) = <<A!PowerMod(Value(x), Value(n), Value(y)), Value(y)>>
    <3>1. BitEffects(r, 0, 0, Value(n))  BY <2>2, BitEffectIs
    <3>2. QED  BY <3>1 DEF BitEffects
  <2>7. QED  BY <1>2, <2>1, <2>3, <2>5, <2>6, BecomesRight
<1>8. ASSUME NEW r \in {"x", "y"}, NEW m \in Moduli, NEW f \in Fill, ModularExptOfNumber(r, m, f)
      PROVE  Right
  <2> DEFINE n == FromFixnum(m, f)
             size == 2 * W
             k == Value(Rhs(r))
  <2>1. FixnumSize(m) < W /\ Becomes("modular_expt", r, 0, m, modular_expt(x, k, n, size, f), y)
    BY <1>8 DEF ModularExptOfNumber, Bears
  <2>2. size \in Nat  BY BaseIs
  <2>3. IsNumber(n) /\ Value(n) = m  BY <1>1, FromFixnumIs DEF Means
  <2>4. n.payload = FixnumSize(m)  BY DEF FromFixnum, replaced_by_fixnum, Number
  <2>5. n.payload # W
    <3>1. FixnumSize(m) \in 0 .. W /\ W \in Nat  BY <1>1, FixnumIs, BaseIs
    <3> HIDE DEF n
    <3>2. QED  BY <2>1, <2>4, <3>1
  <2>6. OperandOf(r, 0) = k /\ k \in Nat  BY <1>3, NumberHas
  <2> HIDE DEF n, size, k
  <2>7. Means(modular_expt(x, k, n, size, f), (Value(x) ** k) % Value(n))
    BY <1>1, <2>2, <2>3, <2>5, <2>6, ModularExptIs
  <2>8. m \in Nat \ {0}
    <3>1. m \in Nat  BY <1>1, FixnumIs
    <3>2. QED  BY <1>1, <3>1
  <2>9. A!PowerMod(Value(x), k, m) = (Value(x) ** k) % m  BY <1>2, <2>6, <2>8, PowerModIs
  <2>10. EffectOf("modular_expt", r, 0, m) = <<A!PowerMod(Value(x), k, m), Value(y)>>
    <3>1. BitEffects(r, 0, m, k)  BY <2>6, BitEffectIs
    <3>2. QED  BY <2>8, <3>1 DEF BitEffects
  <2>11. QED  BY <1>2, <2>1, <2>3, <2>7, <2>9, <2>10, BecomesRight
<1>9. QED  BY <1>4, <1>5, <1>6, <1>7, <1>8

\* Complements, shifts and the operators on bits.
LEMMA BitsRight ==
  ASSUME NumbersInv
  PROVE  /\ \A f \in Fill : Complement(f) => Right
         /\ \A s \in Shifts, f \in Fill : Shift(s, f) => Right
         /\ \A v \in Fixnums : BitwiseFixnum(v) => Right
         /\ \A r \in {"x", "y"}, f \in Fill : BitwiseNatural(r, f) => Right
<1>1. IsNumber(x) /\ IsNumber(y) /\ (\A v \in Fixnums : v \in Fixnum) /\ (\A f \in Fill : f \in Octet)
      /\ \A s \in Shifts : s \in Nat
  BY InputsAre DEF NumbersInv
<1>2. Means(x, Value(x)) /\ Means(y, Value(y)) /\ Value(x) \in Nat /\ Value(y) \in Nat  BY OperandsAre
<1>3. /\ \A r \in {"x", "y"} : OperandOf(r, 0) = Value(Rhs(r)) /\ IsNumber(Rhs(r))
      /\ \A v : OperandOf("fixnum", v) = v
  BY OperandsAre
<1>4. ASSUME NEW f \in Fill, Complement(f) PROVE Right
  <2>1. Becomes("~", "fixnum", 0, 1, x, complement(x, f))  BY <1>4 DEF Complement
  <2>2. Means(complement(x, f), ((Base ** x.payload) - 1) - Value(x))  BY <1>1, ComplementIs
  <2>3. A!OctetLength(Value(x)) = x.payload  BY <1>1, OctetLengthIs
  <2>4. EffectOf("~", "fixnum", 0, 1)
        = <<Value(x), (Base ** A!OctetLength(Value(x)) - 1) - Value(x)>>
    <3>1. BitEffects("fixnum", 0, 1, 0)  BY <1>3, BitEffectIs
    <3>2. QED  BY <3>1 DEF BitEffects
  <2>5. QED  BY <1>2, <2>1, <2>2, <2>3, <2>4, BecomesRight
<1>5. ASSUME NEW s \in Shifts, NEW f \in Fill, Shift(s, f) PROVE Right
  <2>1. /\ EffectOf("<<=", "fixnum", s, 1) = <<Value(x) * (2 ** s), Value(y)>>
        /\ EffectOf(">>=", "fixnum", s, 1) = <<Value(x) \div (2 ** s), Value(y)>>
    <3>1. BitEffects("fixnum", s, 1, s)  BY <1>3, BitEffectIs
    <3>2. QED  BY <3>1 DEF BitEffects
  <2>2. CASE Becomes("<<=", "fixnum", s, 1, ShiftLeft(x, s, f), y)
    <3>1. Means(ShiftLeft(x, s, f), Value(x) * (2 ** s))  BY <1>1, ShiftLeftIs
    <3>2. QED  BY <1>2, <2>1, <2>2, <3>1, BecomesRight
  <2>3. CASE Becomes(">>=", "fixnum", s, 1, ShiftRight(x, s), y)
    <3>1. x \in [mem : Memory, payload : Nat] /\ Len(x.mem) >= 1 /\ x.payload <= Len(x.mem)
      BY <1>1 DEF IsNumber, Capacity
    <3>2. Value(ShiftRight(x, s)) = Value(x) \div (2 ** s) /\ IsNumber(ShiftRight(x, s))
      BY <1>1, <3>1, ShiftRightIs
    <3>3. Means(ShiftRight(x, s), Value(x) \div (2 ** s))  BY <3>2 DEF Means
    <3>4. QED  BY <1>2, <2>1, <2>3, <3>3, BecomesRight
  <2>4. QED  BY <1>5, <2>2, <2>3 DEF Shift, ByFixnum
<1>6. ASSUME NEW v \in Fixnums, BitwiseFixnum(v) PROVE Right
  <2>1. /\ EffectOf("&=", "fixnum", v, 1) = <<Value(x) & v, Value(y)>>
        /\ EffectOf("|=", "fixnum", v, 1) = <<Value(x) | v, Value(y)>>
        /\ EffectOf("^=", "fixnum", v, 1) = <<Value(x) ^^ v, Value(y)>>
    <3>1. BitEffects("fixnum", v, 1, v)  BY <1>3, BitEffectIs
    <3>2. QED  BY <3>1 DEF BitEffects
  <2>2. CASE Becomes("&=", "fixnum", v, 1, Mask(x, FixnumOctets(v), FixnumSize(v)), y)
    <3>1. v \in Fixnum  BY <1>1
    <3>2. /\ FixnumSize(v) \in 0 .. W /\ FixnumOctets(v) \in Memory
          /\ Len(FixnumOctets(v)) = FixnumSize(v)
          /\ ValueOf(Base, FixnumOctets(v), FixnumSize(v)) = v
      BY <3>1, FixnumIs
    <3> DEFINE d == FixnumOctets(v)
               l == FixnumSize(v)
    <3>3. l \in Nat /\ d \in Memory /\ Len(d) = l /\ ValueOf(Base, d, l) = v  BY <3>2, BaseIs
    <3>4. Becomes("&=", "fixnum", v, 1, Mask(x, d, l), y)  BY <2>2
    <3> HIDE DEF d, l
    <3>5. DigitsOf(Base, d, l)  BY <3>3, OctetIs DEF DigitsOf, Memory
    <3>6. Means(Mask(x, d, l), Value(x) & ValueOf(Base, d, l))  BY <1>1, <3>3, <3>5, MaskIs
    <3>7. Means(Mask(x, d, l), Value(x) & v)  BY <3>3, <3>6
    <3>8. QED  BY <1>2, <2>1, <3>4, <3>7, BecomesRight
  <2>3. CASE Becomes("|=", "fixnum", v, 1, OrFixnum(x, v), y)
    <3>1. Means(OrFixnum(x, v), Value(x) | v)  BY <1>1, OrFixnumIs
    <3>2. QED  BY <1>2, <2>1, <2>3, <3>1, BecomesRight
  <2>4. CASE Becomes("^=", "fixnum", v, 1, XorFixnum(x, v), y)
    <3>1. Means(XorFixnum(x, v), Value(x) ^^ v)  BY <1>1, XorFixnumIs
    <3>2. QED  BY <1>2, <2>1, <2>4, <3>1, BecomesRight
  <2>5. QED  BY <1>6, <2>2, <2>3, <2>4 DEF BitwiseFixnum, ByFixnum
<1>7. ASSUME NEW r \in {"x", "y"}, NEW f \in Fill, BitwiseNatural(r, f) PROVE Right
  <2> DEFINE n == Rhs(r)
  <2>1. IsNumber(n) /\ OperandOf(r, 0) = Value(n)  BY <1>3
  <2>2. \/ Becomes("&=", r, 0, 1, Mask(x, n.mem, n.payload), y)
        \/ Becomes("|=", r, 0, 1, OrNatural(x, n, f), y)
        \/ Becomes("^=", r, 0, 1, XorNatural(x, n, f), y)
    BY <1>7 DEF BitwiseNatural, ByNumber
  <2> HIDE DEF n
  <2>3. /\ EffectOf("&=", r, 0, 1) = <<Value(x) & Value(n), Value(y)>>
        /\ EffectOf("|=", r, 0, 1) = <<Value(x) | Value(n), Value(y)>>
        /\ EffectOf("^=", r, 0, 1) = <<Value(x) ^^ Value(n), Value(y)>>
    <3>1. BitEffects(r, 0, 1, Value(n))  BY <2>1, BitEffectIs
    <3>2. QED  BY <3>1 DEF BitEffects
  <2>4. CASE Becomes("&=", r, 0, 1, Mask(x, n.mem, n.payload), y)
    <3>1. n.payload \in Nat /\ DigitsOf(Base, n.mem, n.payload)
          /\ Value(n) = ValueOf(Base, n.mem, n.payload)
      BY <2>1, NumberHas
    <3>2. Means(Mask(x, n.mem, n.payload), Value(x) & Value(n))  BY <1>1, <3>1, MaskIs
    <3>3. QED  BY <1>2, <2>3, <2>4, <3>2, BecomesRight
  <2>5. CASE Becomes("|=", r, 0, 1, OrNatural(x, n, f), y)
    <3>1. Means(OrNatural(x, n, f), Value(x) | Value(n))  BY <1>1, <2>1, OrNaturalIs
    <3>2. QED  BY <1>2, <2>3, <2>5, <3>1, BecomesRight
  <2>6. CASE Becomes("^=", r, 0, 1, XorNatural(x, n, f), y)
    <3>1. Means(XorNatural(x, n, f), Value(x) ^^ Value(n))  BY <1>1, <2>1, XorNaturalIs
    <3>2. QED  BY <1>2, <2>3, <2>6, <3>1, BecomesRight
  <2>7. QED  BY <2>2, <2>4, <2>5, <2>6
<1>8. QED  BY <1>4, <1>5, <1>6, <1>7

\* Every operation is right, in any order.
LEMMA StepsRight ==
  ASSUME NumbersInv, Next, borne'
  PROVE  Right
<1>1. CASE Increment \/ Decrement  BY <1>1, AssignmentsRight
<1>2. ASSUME NEW v \in Fixnums,
             \/ AssignFixnum(v) \/ AddFixnum(v) \/ SubtractFixnum(v) \/ BitwiseFixnum(v)
             \/ \E f \in Fill, o \in Oremainders : QuotientFixnum(v, o, f)
             \/ \E f \in Fill : MultiplyFixnum(v, f)
      PROVE  Right
  BY <1>2, AssignmentsRight, SumsRight, BitsRight, DivisionsRight, ProductsRight
<1>3. ASSUME NEW r \in {"x", "y"},
             \/ SubtractNatural(r)
             \/ \E f \in Fill :
                  \/ AddNatural(r, f) \/ MultiplyNatural(r, f) \/ BitwiseNatural(r, f)
                  \/ ModularExptNumbers(r, f) \/ (\E m \in Moduli : ModularExptOfNumber(r, m, f))
                  \/ \E o \in Oremainders : QuotientNatural(r, o, f)
      PROVE  Right
  BY <1>3, SumsRight, ProductsRight, BitsRight, PowersRight, DivisionsRight
<1>4. ASSUME NEW f \in Fill,
             \/ CopyToOther(f) \/ Complement(f)
             \/ \E s \in Shifts : Shift(s, f)
             \/ \E e \in Exponents :
                  \/ Expt(e, f) \/ ModularExptByNumber(e, f)
                  \/ \E m \in Moduli : ModularExpt(e, m, f)
      PROVE  Right
  BY <1>4, AssignmentsRight, BitsRight, PowersRight
<1>5. ~ModularExptOverwritten  BY DEF ModularExptOverwritten, PowerOfOverwritten, Bears
<1>6. QED  BY <1>1, <1>2, <1>3, <1>4, <1>5 DEF Next

\* Nothing is followed after an operation that the code does not bear.
LEMMA NextWhileBorne ==
  ASSUME Next
  PROVE  borne /\ steps' = steps + 1
<1>1. ASSUME NEW name, NEW rhs, NEW v, NEW mod, NEW n, NEW m, Becomes(name, rhs, v, mod, n, m)
      PROVE  borne /\ steps' = steps + 1
  BY <1>1 DEF Becomes
<1>2. CASE Increment \/ Decrement \/ ModularExptOverwritten
  BY <1>1, <1>2 DEF Increment, Decrement, ModularExptOverwritten, PowerOfOverwritten, ByFixnum
<1>3. ASSUME NEW v \in Fixnums,
             \/ AssignFixnum(v) \/ AddFixnum(v) \/ SubtractFixnum(v) \/ BitwiseFixnum(v)
             \/ \E f \in Fill, o \in Oremainders : QuotientFixnum(v, o, f)
             \/ \E f \in Fill : MultiplyFixnum(v, f)
      PROVE  borne /\ steps' = steps + 1
  BY <1>1, <1>3 DEF AssignFixnum, AddFixnum, SubtractFixnum, BitwiseFixnum, QuotientFixnum,
                    MultiplyFixnum, ByFixnum
<1>4. ASSUME NEW r \in {"x", "y"},
             \/ SubtractNatural(r)
             \/ \E f \in Fill :
                  \/ AddNatural(r, f) \/ MultiplyNatural(r, f) \/ BitwiseNatural(r, f)
                  \/ ModularExptNumbers(r, f) \/ (\E m \in Moduli : ModularExptOfNumber(r, m, f))
                  \/ \E o \in Oremainders : QuotientNatural(r, o, f)
      PROVE  borne /\ steps' = steps + 1
  BY <1>1, <1>4 DEF SubtractNatural, AddNatural, MultiplyNatural, BitwiseNatural,
                    ModularExptNumbers, ModularExptOfNumber, QuotientNatural, ByNumber
<1>5. ASSUME NEW f \in Fill,
             \/ CopyToOther(f) \/ Complement(f)
             \/ \E s \in Shifts : Shift(s, f)
             \/ \E e \in Exponents :
                  \/ Expt(e, f) \/ ModularExptByNumber(e, f)
                  \/ \E m \in Moduli : ModularExpt(e, m, f)
      PROVE  borne /\ steps' = steps + 1
  BY <1>1, <1>5 DEF CopyToOther, Complement, Shift, Expt, ModularExptByNumber, ModularExpt, ByFixnum
<1>6. QED  BY <1>2, <1>3, <1>4, <1>5 DEF Next

\* Texts and fixnums make numbers.
LEMMA FirstNumbers ==
  ASSUME Init
  PROVE  NumbersInv /\ A!Init
<1>1. \A t \in Texts : \A n \in Made(t) : IsNumber(n)
  <2> SUFFICES ASSUME NEW t \in Texts, NEW n \in Made(t) PROVE IsNumber(n)  OBVIOUS
  <2>1. t \in Seq(Octet) /\ t # << >>  BY NaturalAssumption
  <2>2. QED  BY <2>1, MadeAreNumbers
<1>2. \A v \in Fixnums, f \in Fill : IsNumber(FromFixnum(v, f))
  <2> SUFFICES ASSUME NEW v \in Fixnums, NEW f \in Fill PROVE IsNumber(FromFixnum(v, f))  OBVIOUS
  <2>1. v \in Fixnum /\ f \in Octet  BY InputsAre
  <2>2. QED  BY <2>1, FromFixnumIs DEF Means
<1>3. IsNumber(y)  BY <1>1 DEF Init
<1>4. IsNumber(x)
  <2>1. \/ x \in UNION {Made(t) : t \in Texts}
        \/ x \in {FromFixnum(v, f) : v \in Fixnums, f \in Fill}
    BY DEF Init
  <2>2. CASE x \in UNION {Made(t) : t \in Texts}  BY <1>1, <2>2
  <2>3. CASE x \in {FromFixnum(v, f) : v \in Fixnums, f \in Fill}
    <3>1. PICK v \in Fixnums, f \in Fill : x = FromFixnum(v, f)  BY <2>3
    <3>2. QED  BY <1>2, <3>1
  <2>4. QED  BY <2>1, <2>2, <2>3
<1>5. A!Init  BY DEF Init, A!Init
<1>6. QED  BY <1>3, <1>4, <1>5 DEF NumbersInv

\* What numbers tell of themselves is right.
LEMMA NumbersObserved ==
  ASSUME NumbersInv
  PROVE  Canonical /\ Observed
<1>1. IsNumber(x) /\ IsNumber(y)  BY DEF NumbersInv
<1>2. Canonical  BY <1>1 DEF Canonical, IsNumber
<1>3. compare(x, y) = Sign(Value(x) - Value(y))  BY <1>1, CompareIs
<1>4. \A v \in Fixnums : compareFixnum(x, v) = Sign(Value(x) - v)
  BY <1>1, InputsAre, CompareFixnumIs
<1>5. integer_length(x) = BitLength(Value(x))  BY <1>1, IntegerLengthIs
<1>6. \A m \in 0 .. (x.payload + 1) * Bits, f \in Fill :
        is_bit_set(x, m, f) <=> \/ BitSet(Value(x), m)
                                \/ m = x.payload * Bits /\ OctetAbove(x, f) % 2 = 1
  <2> SUFFICES ASSUME NEW m \in 0 .. (x.payload + 1) * Bits, NEW f \in Fill
               PROVE  is_bit_set(x, m, f) <=> \/ BitSet(Value(x), m)
                                              \/ m = x.payload * Bits /\ OctetAbove(x, f) % 2 = 1
    OBVIOUS
  <2>1. f \in Octet  BY InputsAre
  <2>2. m \in Nat
    <3>1. \A s, t \in Nat : (s + 1) * t \in Nat  OBVIOUS
    <3>2. x.payload \in Nat /\ Bits \in Nat  BY <1>1, NumberHas, BaseIs
    <3>3. (x.payload + 1) * Bits \in Nat  BY <3>1, <3>2
    <3> DEFINE top == (x.payload + 1) * Bits
    <3> HIDE DEF top
    <3>4. m \in 0 .. top /\ top \in Nat  BY <3>3 DEF top
    <3>5. QED  BY <3>4
  <2>3. QED  BY <1>1, <2>1, <2>2, IsBitSetIs
<1>7. \A s \in Shifts, e \in Shifts, f \in Fill :
        s <= e => Value(bit_field(x, s, e, f)) = (Value(x) % (2 ** e)) \div (2 ** s)
  <2> SUFFICES ASSUME NEW s \in Shifts, NEW e \in Shifts, NEW f \in Fill, s <= e
               PROVE  Value(bit_field(x, s, e, f)) = (Value(x) % (2 ** e)) \div (2 ** s)
    OBVIOUS
  <2>1. s \in Nat /\ e \in Nat /\ f \in Octet  BY InputsAre
  <2>2. QED  BY <1>1, <2>1, BitFieldIs
<1>8. QED  BY <1>2, <1>3, <1>4, <1>5, <1>6, <1>7 DEF Observed

\* The memories of the two numbers stay octets, the payloads stay within them and
\* without leading zeros, as long as the code bears its uses: what all operators
\* rely on.
Kept == borne => NumbersInv

THEOREM NumbersKept == Spec => []Kept
<1>1. Init => Kept  BY FirstNumbers DEF Kept
<1>2. Kept /\ [Next]_vars => Kept'
  <2> SUFFICES ASSUME Kept, [Next]_vars, borne' PROVE NumbersInv'  BY DEF Kept
  <2>1. CASE Next
    <3>1. NumbersInv  BY <2>1, NextWhileBorne DEF Kept
    <3>2. Right  BY <2>1, <3>1, StepsRight
    <3>3. QED  BY <3>2 DEF Right, NumbersInv
  <2>2. CASE UNCHANGED vars
    <3>1. borne  BY <2>2 DEF vars
    <3>2. NumbersInv  BY <3>1 DEF Kept
    <3>3. QED  BY <2>2, <3>2 DEF vars, NumbersInv
  <2>3. QED  BY <2>1, <2>2
<1>3. QED  BY <1>1, <1>2, PTL DEF Spec

\* Payloads lie within their memory and have no leading zero, until an operation is
\* used in one of the ways listed at Bears.
THEOREM AlwaysCanonical == Spec => []Canonical
<1>1. Spec => []Kept  BY NumbersKept
<1>2. Kept => Canonical  BY NumbersObserved DEF Kept, Canonical
<1>3. QED  BY <1>1, <1>2, PTL

\* Until then comparisons, lengths in bits, bits (but for the one above the payload)
\* and bit fields are those of the values.
THEOREM AlwaysObserved == Spec => []Observed
<1>1. Spec => []Kept  BY NumbersKept
<1>2. Kept => Observed  BY NumbersObserved DEF Kept, Observed
<1>3. QED  BY <1>1, <1>2, PTL

\* Every operation on the octets that the code bears is the operation on the numbers
\* they stand for: carries, borrows, the estimates of the long division, results
\* computed in the operand's memory and numbers that are their own operand lose
\* nothing.
THEOREM ComputesArithmetic == Spec => Arithmetical
<1>1. Spec => []Kept  BY NumbersKept
<1>2. Init => A!Init  BY FirstNumbers
<1>3. Kept /\ [Next]_vars => [A!Next]_<<Value(x), Value(y), op, borne, steps>>
  <2> SUFFICES ASSUME Kept, [Next]_vars
               PROVE  [A!Next]_<<Value(x), Value(y), op, borne, steps>>
    OBVIOUS
  <2>1. CASE Next
    <3>1. borne /\ steps' = steps + 1  BY <2>1, NextWhileBorne
    <3>2. CASE borne'
      <4>1. NumbersInv  BY <3>1 DEF Kept
      <4>2. Right  BY <2>1, <3>2, <4>1, StepsRight
      <4>3. QED  BY <4>2 DEF Right
    <3>3. CASE ~borne'  BY <3>1, <3>3 DEF A!Next
    <3>4. QED  BY <3>2, <3>3
  <2>2. CASE UNCHANGED vars  BY <2>2 DEF vars, Value
  <2>3. QED  BY <2>1, <2>2
<1>4. QED  BY <1>1, <1>2, <1>3, PTL DEF Spec, Arithmetical, A!Spec
=============================================================================
