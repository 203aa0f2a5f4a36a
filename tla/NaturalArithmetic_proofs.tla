--------------------- MODULE NaturalArithmetic_proofs ---------------------
(***************************************************************************)
(* Facts about recursion, and about powers, digits, carries and bits; and  *)
(* what natural.cpp makes of them with the octets of a memory: how numbers *)
(* are made, added, subtracted, multiplied, divided and compared.          *)
(*                                                                         *)
(* Numbers of any length are computed by loops over their digits; what     *)
(* such a loop computes is shown by induction, which has to be derived     *)
(* from the well-foundedness of the numbers first.                         *)
(***************************************************************************)
EXTENDS NaturalNumber, WellFoundedInduction, SequenceTheorems, TLAPS


-----------------------------------------------------------------------------
(***************************************************************************)
(* Part 1. Recursion. A recursive function is what its definition          *)
(* describes because its argument becomes smaller; what it computes is     *)
(* shown with the least argument for which it would not.                   *)
(***************************************************************************)

\* Every set of numbers that has any has a smallest one.
LEMMA NatHasMinimum ==
  ASSUME NEW T \in SUBSET Nat, T # {}
  PROVE  \E n \in T : \A m \in T : n <= m
<1> DEFINE R == {mn \in Nat \X Nat : mn[1] < mn[2]}
<1>1. IsWellFoundedOn(R, Nat)  BY NatLessThanWellFounded DEF OpToRel
<1>2. PICK n \in T : \A m \in T : <<m, n>> \notin R
  <2> HIDE DEF R
  <2>1. QED  BY <1>1, WFMin
<1>3. \A m \in T : ~(m < n)  BY <1>2
<1>4. QED  BY <1>3

\* Elements of D that are good when all smaller ones are, are good.
LEMMA Induction ==
  ASSUME NEW D, NEW size \in [D -> Nat], NEW Good,
         \A e \in D : (\A u \in D : size[u] < size[e] => u \in Good) => e \in Good
  PROVE  D \subseteq Good
<1> DEFINE T == {n \in Nat : \E e \in D : size[e] = n /\ e \notin Good}
<1> SUFFICES ASSUME T # {} PROVE FALSE  OBVIOUS
<1>1. PICK n \in T : \A m \in T : n <= m
  <2>1. T \in SUBSET Nat  OBVIOUS
  <2> HIDE DEF T
  <2>2. QED  BY <2>1, NatHasMinimum
<1>2. PICK e \in D : size[e] = n /\ e \notin Good  BY <1>1
<1>3. \A u \in D : size[u] < size[e] => u \in Good  BY <1>1, <1>2
<1>4. QED  BY <1>2, <1>3

\* Induction over the numbers.
LEMMA NatIsInductive ==
  ASSUME NEW Good, 0 \in Good, \A n \in Nat : n \in Good => n + 1 \in Good
  PROVE  Nat \subseteq Good
<1> DEFINE size == [n \in Nat |-> n]
<1>1. size \in [Nat -> Nat]  OBVIOUS
<1>2. ASSUME NEW n \in Nat, \A m \in Nat : size[m] < size[n] => m \in Good PROVE n \in Good
  <2>1. CASE n = 0  BY <2>1
  <2>2. CASE n # 0
    <3>1. n - 1 \in Nat /\ size[n - 1] < size[n] /\ (n - 1) + 1 = n  BY <2>2
    <3>2. QED  BY <1>2, <3>1
  <2>3. QED  BY <2>1, <2>2
<1>3. QED
  <2> HIDE DEF size
  <2>1. QED  BY <1>1, <1>2, Induction

(***************************************************************************)
(* A recursive function looks at one smaller argument, next[e], unless e   *)
(* is one of Stops.                                                        *)
(***************************************************************************)
Recursive(D, S, size, Stops, start, next, step) ==
  /\ size \in [D -> Nat] /\ Stops \in SUBSET D
  /\ start \in [Stops -> S] /\ next \in [D \ Stops -> D] /\ step \in [D \ Stops -> [S -> S]]
  /\ \A e \in D \ Stops : size[next[e]] < size[e]

Computes(f, D, Stops, start, next, step) ==
  \A e \in D : f[e] = IF e \in Stops THEN start[e] ELSE step[e][f[next[e]]]

\* There is a function that computes what the recursion says.
LEMMA Recursion ==
  ASSUME NEW D, NEW S, NEW size, NEW Stops, NEW start, NEW next, NEW step,
         Recursive(D, S, size, Stops, start, next, step)
  PROVE  \E f \in [D -> S] : Computes(f, D, Stops, start, next, step)
<1> USE DEF Recursive, Computes
<1> DEFINE Result(g, e) == IF e \in Stops THEN start[e] ELSE step[e][g[next[e]]]
           Correct(g, n) == \A e \in D : size[e] < n => g[e] = Result(g, e)
           Good == {n \in Nat : \E g \in [D -> S] : Correct(g, n)}
<1>1. \A g \in [D -> S], e \in D : Result(g, e) \in S  OBVIOUS
<1>2. CASE S = {}
  <2>1. D = {}
    <3> SUFFICES ASSUME D # {} PROVE FALSE  OBVIOUS
    <3>1. Stops = {}  BY <1>2
    <3>2. \A e \in D : \E u \in D : size[u] < size[e]  BY <3>1
    <3>3. DEFINE None == {e \in D : FALSE}
    <3>4. \A e \in D : (\A u \in D : size[u] < size[e] => u \in None) => e \in None  BY <3>2
    <3>5. D \subseteq None
      <4> HIDE DEF None
      <4>1. QED  BY <3>4, Induction
    <3>6. QED  BY <3>5
  <2>2. QED  BY <2>1
<1>3. CASE S # {}
  <2>1. \A n \in Nat : \E g \in [D -> S] : Correct(g, n)
    <3>1. 0 \in Good
      <4>1. PICK v \in S : TRUE  BY <1>3
      <4>2. [e \in D |-> v] \in [D -> S] /\ Correct([e \in D |-> v], 0)  OBVIOUS
      <4>3. QED  BY <4>2
    <3>2. ASSUME NEW n \in Nat, n \in Good PROVE n + 1 \in Good
      <4>1. PICK g \in [D -> S] : Correct(g, n)  BY <3>2
      <4>2. DEFINE h == [e \in D |-> Result(g, e)]
      <4>3. h \in [D -> S]  BY <1>1
      <4>4. ASSUME NEW e \in D, size[e] < n + 1 PROVE h[e] = Result(h, e)
        <5>1. CASE e \in Stops  BY <5>1
        <5>2. CASE e \notin Stops
          <6>1. next[e] \in D /\ size[next[e]] < n  BY <4>4, <5>2
          <6>2. h[next[e]] = g[next[e]]  BY <4>1, <6>1
          <6>3. QED  BY <5>2, <6>2
        <5>3. QED  BY <5>1, <5>2
      <4>5. Correct(h, n + 1)  BY <4>4
      <4> HIDE DEF h, Correct
      <4>6. QED  BY <4>3, <4>5
    <3>3. Nat \subseteq Good
      <4> HIDE DEF Good
      <4>1. QED  BY <3>1, <3>2, NatIsInductive
    <3>4. QED  BY <3>3
  <2>2. ASSUME NEW g, NEW h, NEW n \in Nat, Correct(g, n), Correct(h, n)
        PROVE  \A e \in D : size[e] < n => g[e] = h[e]
    <3> DEFINE Same == {e \in D : size[e] < n => g[e] = h[e]}
    <3>1. ASSUME NEW e \in D, \A u \in D : size[u] < size[e] => u \in Same PROVE e \in Same
      <4>1. CASE e \in Stops  BY <2>2, <4>1
      <4>2. CASE e \notin Stops /\ size[e] < n
        <5>1. next[e] \in D /\ size[next[e]] < size[e] /\ size[next[e]] < n  BY <4>2
        <5>2. g[next[e]] = h[next[e]]  BY <3>1, <5>1
        <5>3. QED  BY <2>2, <4>2, <5>2
      <4>3. QED  BY <4>1, <4>2
    <3>2. D \subseteq Same
      <4> HIDE DEF Same
      <4>1. QED  BY <3>1, Induction
    <3>3. QED  BY <3>2
  <2>3. DEFINE try(n) == CHOOSE g \in [D -> S] : Correct(g, n)
               f == [e \in D |-> try(size[e] + 1)[e]]
  <2>4. \A n \in Nat : try(n) \in [D -> S] /\ Correct(try(n), n)
    <3> SUFFICES ASSUME NEW n \in Nat PROVE try(n) \in [D -> S] /\ Correct(try(n), n)  OBVIOUS
    <3>1. \E g \in [D -> S] : Correct(g, n)  BY <2>1
    <3> HIDE DEF Correct
    <3>2. QED  BY <3>1
  <2>5. f \in [D -> S]
    <3>1. ASSUME NEW e \in D PROVE try(size[e] + 1)[e] \in S
      <4>1. size[e] + 1 \in Nat  OBVIOUS
      <4>2. try(size[e] + 1) \in [D -> S]  BY <2>4, <4>1
      <4> HIDE DEF try
      <4>3. QED  BY <4>2
    <3> HIDE DEF try
    <3>2. QED  BY <3>1
  <2>6. ASSUME NEW e \in D PROVE f[e] = Result(f, e)
    <3>1. size[e] + 1 \in Nat  OBVIOUS
    <3>2. Correct(try(size[e] + 1), size[e] + 1)  BY <2>4, <3>1
    <3>3. f[e] = Result(try(size[e] + 1), e)
      <4> HIDE DEF try
      <4>1. QED  BY <3>2
    <3>4. CASE e \in Stops  BY <3>3, <3>4
    <3>5. CASE e \notin Stops
      <4>1. next[e] \in D /\ size[next[e]] + 1 \in Nat /\ size[next[e]] + 1 <= size[e]  BY <3>5
      <4>2. Correct(try(size[next[e]] + 1), size[next[e]] + 1)  BY <2>4, <4>1
      <4>3. Correct(try(size[e] + 1), size[next[e]] + 1)
        <5> HIDE DEF try
        <5>1. QED  BY <3>1, <3>2, <4>1
      <4>4. try(size[next[e]] + 1)[next[e]] = try(size[e] + 1)[next[e]]
        <5>1. size[next[e]] < size[next[e]] + 1  BY <4>1
        <5> HIDE DEF try, Correct
        <5>2. QED  BY <2>2, <4>1, <4>2, <4>3, <5>1
      <4>5. f[next[e]] = try(size[e] + 1)[next[e]]
        <5> HIDE DEF try
        <5>1. QED  BY <4>1, <4>4
      <4> HIDE DEF try, f
      <4>6. QED  BY <3>3, <3>5, <4>5
    <3>6. QED  BY <3>4, <3>5
  <2>7. QED
    <3> HIDE DEF f
    <3>1. QED  BY <2>5, <2>6
<1>4. QED  BY <1>2, <1>3

\* What a value has from that for the next argument, all values have.
Inherits(f, D, T, Stops, next) ==
  /\ \A e \in Stops : f[e] \in T
  /\ \A e \in D \ Stops : f[next[e]] \in T => f[e] \in T

\* Values have what the value of the next argument hands on.
LEMMA Inherited ==
  ASSUME NEW D, NEW S, NEW size, NEW Stops, NEW start, NEW next, NEW step,
         Recursive(D, S, size, Stops, start, next, step),
         NEW T, NEW f, Inherits(f, D, T, Stops, next)
  PROVE  \A e \in D : f[e] \in T
<1> USE DEF Inherits
<1> DEFINE Good == {e \in D : f[e] \in T}
<1>1. size \in [D -> Nat] /\ Stops \in SUBSET D /\ next \in [D \ Stops -> D]
      /\ \A e \in D \ Stops : size[next[e]] < size[e]
  BY DEF Recursive
<1>2. \A e \in D : (\A u \in D : size[u] < size[e] => u \in Good) => e \in Good
  <2> SUFFICES ASSUME NEW e \in D, \A u \in D : size[u] < size[e] => u \in Good
               PROVE  f[e] \in T
    OBVIOUS
  <2>1. CASE e \in Stops  BY <2>1
  <2>2. CASE e \notin Stops
    <3>1. next[e] \in D /\ size[next[e]] < size[e]  BY <1>1, <2>2
    <3>2. f[next[e]] \in T  BY <3>1
    <3>3. QED  BY <2>2, <3>2
  <2>3. QED  BY <2>1, <2>2
<1>3. D \subseteq Good
  <2> HIDE DEF Good
  <2>1. QED  BY <1>1, <1>2, Induction
<1>4. QED  BY <1>3

(***************************************************************************)
(* A loop from 1 to n is the recursion on what it has done so far.         *)
(***************************************************************************)
Loops(f, n, start, step) == f[0] = start /\ \A i \in 1 .. n : f[i] = step[i][f[i - 1]]

\* What holds before a loop and is kept by every step holds all the time.
LEMMA LoopKeeps ==
  ASSUME NEW n \in Nat, NEW T, NEW f, f[0] \in T, \A i \in 1 .. n : f[i - 1] \in T => f[i] \in T
  PROVE  \A i \in 0 .. n : f[i] \in T
<1> DEFINE Good == {i \in Nat : i <= n => f[i] \in T}
<1>1. 0 \in Good  OBVIOUS
<1>2. ASSUME NEW i \in Nat, i \in Good PROVE i + 1 \in Good
  <2>1. i + 1 <= n => i + 1 \in 1 .. n /\ (i + 1) - 1 = i /\ i <= n  OBVIOUS
  <2>2. QED  BY <1>2, <2>1
<1>3. Nat \subseteq Good
  <2> HIDE DEF Good
  <2>1. QED  BY <1>1, <1>2, NatIsInductive
<1>4. QED  BY <1>3

\* There is a function that computes what a loop does.
LEMMA Loop ==
  ASSUME NEW n \in Nat, NEW S, NEW start \in S, NEW step \in [1 .. n -> [S -> S]]
  PROVE  \E f \in [0 .. n -> S] : Loops(f, n, start, step)
<1> DEFINE D == 0 .. n
           size == [i \in D |-> i]
           first == [i \in {0} |-> start]
           next == [i \in D \ {0} |-> i - 1]
           stepping == [i \in D \ {0} |-> step[i]]
<1>1. D \ {0} = 1 .. n /\ {0} \in SUBSET D  OBVIOUS
<1>2. Recursive(D, S, size, {0}, first, next, stepping)
  <2>1. next \in [D \ {0} -> D]  OBVIOUS
  <2>2. stepping \in [D \ {0} -> [S -> S]]  BY <1>1
  <2>3. first \in [{0} -> S]  OBVIOUS
  <2>4. QED  BY <1>1, <2>1, <2>2, <2>3 DEF Recursive
<1>3. PICK f \in [D -> S] : Computes(f, D, {0}, first, next, stepping)
  <2> HIDE DEF D, size, first, next, stepping
  <2>1. QED  BY <1>2, Recursion
<1>4. f[0] = start  BY <1>1, <1>3 DEF Computes
<1>5. ASSUME NEW i \in 1 .. n PROVE f[i] = step[i][f[i - 1]]
  <2>1. i \in D \ {0} /\ i \in D /\ i \notin {0}  OBVIOUS
  <2>2. f[i] = stepping[i][f[next[i]]]
    <3> HIDE DEF D, first, next, stepping
    <3>1. QED  BY <1>3, <2>1 DEF Computes
  <2>3. QED  BY <2>1, <2>2
<1>6. QED  BY <1>4, <1>5 DEF Loops
-----------------------------------------------------------------------------
(***************************************************************************)
(* Part 2. Powers.                                                         *)
(***************************************************************************)
\* The powers of b are what their definition says.
LEMMA Powers ==
  ASSUME NEW b \in Int
  PROVE  b ** 0 = 1 /\ \A n \in Nat : b ** n \in Int /\ b ** (n + 1) = b * (b ** n)
<1> DEFINE size == [i \in Nat |-> i]
           start == [i \in {0} |-> 1]
           next == [i \in Nat \ {0} |-> i - 1]
           step == [i \in Nat \ {0} |-> [v \in Int |-> b * v]]
           Is(f) == f = [i \in Nat |-> IF i = 0 THEN 1 ELSE b * f[i - 1]]
           p == CHOOSE f : Is(f)
<1>1. Recursive(Nat, Int, size, {0}, start, next, step)
  <2>1. step \in [Nat \ {0} -> [Int -> Int]] /\ next \in [Nat \ {0} -> Nat]  OBVIOUS
  <2>2. QED  BY <2>1 DEF Recursive
<1>2. PICK f \in [Nat -> Int] : Computes(f, Nat, {0}, start, next, step)
  <2> HIDE DEF size, start, next, step
  <2>1. QED  BY <1>1, Recursion
<1>3. \A i \in Nat : f[i] = IF i = 0 THEN 1 ELSE b * f[i - 1]
  <2> SUFFICES ASSUME NEW i \in Nat PROVE f[i] = IF i = 0 THEN 1 ELSE b * f[i - 1]  OBVIOUS
  <2>1. CASE i = 0  BY <1>2, <2>1 DEF Computes
  <2>2. CASE i # 0
    <3>1. f[i] = step[i][f[next[i]]]
      <4> HIDE DEF step, next, start
      <4>1. QED  BY <1>2, <2>2 DEF Computes
    <3>2. next[i] = i - 1 /\ f[i - 1] \in Int /\ step[i] = [v \in Int |-> b * v]  BY <2>2
    <3>3. QED  BY <2>2, <3>1, <3>2
  <2>3. QED  BY <2>1, <2>2
<1>4. Is(f)  BY <1>3
<1>5. Is(p)
  <2> HIDE DEF Is
  <2>1. QED  BY <1>4
<1>6. \A n \in Nat : b ** n = p[n]  BY DEF **
<1>7. \A i \in Nat : p[i] = IF i = 0 THEN 1 ELSE b * p[i - 1]
  <2> HIDE DEF p
  <2>1. QED  BY <1>5
<1> DEFINE Good == {n \in Nat : p[n] \in Int /\ p[n + 1] = b * p[n]}
<1> HIDE DEF p, Is
<1>8. 0 \in Good  BY <1>7
<1>9. ASSUME NEW n \in Nat, n \in Good PROVE n + 1 \in Good
  <2>1. p[n + 1] \in Int  BY <1>9
  <2>2. p[(n + 1) + 1] = b * p[n + 1]  BY <1>7
  <2>3. QED  BY <2>1, <2>2
<1>10. Nat \subseteq Good
  <2> HIDE DEF Good
  <2>1. QED  BY <1>8, <1>9, NatIsInductive
<1>11. b ** 0 = 1  BY <1>6, <1>7
<1>12. ASSUME NEW n \in Nat PROVE b ** n \in Int /\ b ** (n + 1) = b * (b ** n)
  <2>1. b ** n = p[n] /\ b ** (n + 1) = p[n + 1]  BY <1>6
  <2>2. QED  BY <1>10, <2>1
<1>13. QED  BY <1>11, <1>12

\* Powers of numbers that are not 0 are not 0.
LEMMA PositivePower ==
  ASSUME NEW b \in Nat \ {0}
  PROVE  \A n \in Nat : b ** n \in Nat \ {0}
<1> DEFINE Good == {n \in Nat : b ** n \in Nat \ {0}}
<1>1. 0 \in Good  BY Powers
<1>2. ASSUME NEW n \in Nat, n \in Good PROVE n + 1 \in Good
  <2>1. b ** (n + 1) = b * (b ** n)  BY Powers
  <2>2. \A v \in Nat \ {0} : b * v \in Nat \ {0}  OBVIOUS
  <2> HIDE DEF Good
  <2>3. b ** n \in Nat \ {0}  BY <1>2 DEF Good
  <2>4. QED  BY <2>1, <2>2, <2>3 DEF Good
<1>3. Nat \subseteq Good
  <2> HIDE DEF Good
  <2>1. QED  BY <1>1, <1>2, NatIsInductive
<1>4. QED  BY <1>3

\* A product of powers.
LEMMA PowerOfSum ==
  ASSUME NEW b \in Int, NEW m \in Nat
  PROVE  \A n \in Nat : b ** (m + n) = (b ** m) * (b ** n)
<1> DEFINE Good == {n \in Nat : b ** (m + n) = (b ** m) * (b ** n)}
<1>0. b ** m \in Int  BY Powers
<1>1. 0 \in Good  BY <1>0, Powers
<1>2. ASSUME NEW n \in Nat, n \in Good PROVE n + 1 \in Good
  <2>1. b ** (m + (n + 1)) = b * (b ** (m + n))
    <3>1. m + n \in Nat /\ m + (n + 1) = (m + n) + 1  OBVIOUS
    <3>2. QED  BY <3>1, Powers
  <2>2. b ** (n + 1) = b * (b ** n) /\ b ** n \in Int  BY Powers
  <2>3. \A u, v \in Int : b * (u * v) = u * (b * v)  OBVIOUS
  <2>4. QED  BY <1>0, <1>2, <2>1, <2>2, <2>3
<1>3. Nat \subseteq Good
  <2> HIDE DEF Good
  <2>1. QED  BY <1>1, <1>2, NatIsInductive
<1>4. QED  BY <1>3

\* A power of a product.
LEMMA PowerOfProduct ==
  ASSUME NEW b \in Int, NEW c \in Int
  PROVE  \A n \in Nat : (b * c) ** n = (b ** n) * (c ** n)
<1> DEFINE Good == {n \in Nat : (b * c) ** n = (b ** n) * (c ** n)}
<1>0. b * c \in Int  OBVIOUS
<1>1. 0 \in Good  BY <1>0, Powers
<1>2. ASSUME NEW n \in Nat, n \in Good PROVE n + 1 \in Good
  <2>1. (b * c) ** (n + 1) = (b * c) * ((b * c) ** n)  BY <1>0, Powers
  <2>2. b ** (n + 1) = b * (b ** n) /\ b ** n \in Int  BY Powers
  <2>3. c ** (n + 1) = c * (c ** n) /\ c ** n \in Int  BY Powers
  <2>4. \A u, v \in Int : (b * c) * (u * v) = (b * u) * (c * v)  OBVIOUS
  <2>5. QED  BY <1>2, <2>1, <2>2, <2>3, <2>4
<1>3. Nat \subseteq Good
  <2> HIDE DEF Good
  <2>1. QED  BY <1>1, <1>2, NatIsInductive
<1>4. QED  BY <1>3

\* A power of a power.
LEMMA PowerOfPower ==
  ASSUME NEW b \in Int, NEW m \in Nat
  PROVE  \A n \in Nat : (b ** m) ** n = b ** (m * n)
<1> DEFINE Good == {n \in Nat : (b ** m) ** n = b ** (m * n)}
<1>0. b ** m \in Int  BY Powers
<1>1. 0 \in Good  BY <1>0, Powers
<1>2. ASSUME NEW n \in Nat, n \in Good PROVE n + 1 \in Good
  <2>1. (b ** m) ** (n + 1) = (b ** m) * ((b ** m) ** n)  BY <1>0, Powers
  <2>2. m * n \in Nat /\ m * (n + 1) = m + m * n  OBVIOUS
  <2>3. b ** (m * (n + 1)) = (b ** m) * (b ** (m * n))  BY <2>2, PowerOfSum
  <2>4. QED  BY <1>2, <2>1, <2>3
<1>3. Nat \subseteq Good
  <2> HIDE DEF Good
  <2>1. QED  BY <1>1, <1>2, NatIsInductive
<1>4. QED  BY <1>3

\* Higher powers are larger.
LEMMA PowersGrow ==
  ASSUME NEW b \in Nat \ {0, 1}, NEW m \in Nat, NEW n \in Nat, m < n
  PROVE  b ** m < b ** n /\ b * (b ** m) <= b ** n
<1>1. b ** n = (b ** (m + 1)) * (b ** (n - (m + 1)))
  <2>1. m + 1 \in Nat /\ n - (m + 1) \in Nat /\ (m + 1) + (n - (m + 1)) = n  OBVIOUS
  <2>2. QED  BY <2>1, PowerOfSum
<1>2. b ** (m + 1) = b * (b ** m) /\ b ** m \in Nat \ {0} /\ b ** (n - (m + 1)) \in Nat \ {0}
      /\ b ** (m + 1) \in Nat \ {0}
  <2>1. m + 1 \in Nat /\ n - (m + 1) \in Nat /\ b \in Nat \ {0}  OBVIOUS
  <2>2. b ** (m + 1) = b * (b ** m)  BY Powers
  <2>3. QED  BY <2>1, <2>2, PositivePower
<1>3. \A u, v \in Nat \ {0} : u * v >= u  OBVIOUS
<1>4. b ** n >= b * (b ** m)  BY <1>1, <1>2, <1>3
<1>5. \A u \in Nat \ {0} : b * u > u /\ b * u \in Nat  OBVIOUS
<1>6. b ** n \in Nat  BY PositivePower
<1>7. QED  BY <1>2, <1>4, <1>5, <1>6

\* A number is less than its power of two.
LEMMA LessThanPower ==
  ASSUME NEW b \in Nat \ {0, 1}
  PROVE  \A n \in Nat : n < b ** n
<1> DEFINE Good == {n \in Nat : n < b ** n}
<1>1. 0 \in Good  BY Powers
<1>2. ASSUME NEW n \in Nat, n \in Good PROVE n + 1 \in Good
  <2>1. b ** (n + 1) = b * (b ** n) /\ b ** n \in Nat  BY Powers, PositivePower
  <2>2. \A v \in Nat : v > n => b * v > n + 1 \/ v = 1
    <3>1. \A v \in Nat : v > 1 => b * v >= 2 * v  OBVIOUS
    <3>2. QED  BY <3>1
  <2>3. b ** n = 1 => n = 0 /\ b * (b ** n) > n + 1  BY <1>2, <2>1
  <2>4. QED  BY <1>2, <2>1, <2>2, <2>3
<1>3. Nat \subseteq Good
  <2> HIDE DEF Good
  <2>1. QED  BY <1>1, <1>2, NatIsInductive
<1>4. QED  BY <1>3

-----------------------------------------------------------------------------
(***************************************************************************)
(* Part 3. Digits, and the numbers they stand for.                         *)
(***************************************************************************)
\* Induction over the first numbers.
LEMMA UpTo ==
  ASSUME NEW n \in Nat, NEW Good, 0 \in Good, \A i \in 1 .. n : i - 1 \in Good => i \in Good
  PROVE  0 .. n \subseteq Good
<1> DEFINE f == [i \in Nat |-> i]
<1>1. f[0] \in Good /\ \A i \in 1 .. n : f[i - 1] \in Good => f[i] \in Good  OBVIOUS
<1>2. \A i \in 0 .. n : f[i] \in Good
  <2> HIDE DEF f
  <2>1. QED  BY <1>1, LoopKeeps
<1>3. QED  BY <1>2

\* A loop over numbers and what its definition as a function says.
Computed(f, n, start, step) == f = [i \in 0 .. n |-> IF i = 0 THEN start ELSE step[i][f[i - 1]]]

\* There is such a function.
LEMMA Chain ==
  ASSUME NEW n \in Nat, NEW S, NEW start \in S, NEW step \in [1 .. n -> [S -> S]]
  PROVE  \E f \in [0 .. n -> S] : Computed(f, n, start, step)
<1>1. PICK f \in [0 .. n -> S] : Loops(f, n, start, step)  BY Loop
<1>2. \A i \in 0 .. n : f[i] = IF i = 0 THEN start ELSE step[i][f[i - 1]]
  <2> SUFFICES ASSUME NEW i \in 0 .. n
               PROVE  f[i] = IF i = 0 THEN start ELSE step[i][f[i - 1]]
    OBVIOUS
  <2>1. i = 0 \/ i \in 1 .. n  OBVIOUS
  <2>2. QED  BY <1>1, <2>1 DEF Loops
<1>3. QED  BY <1>1, <1>2 DEF Computed

Ints(d, k) == \A i \in 1 .. k : d[i] \in Int
DigitsOf(b, d, k) == \A i \in 1 .. k : d[i] \in 0 .. b - 1
Same(d, e, k) == \A i \in 1 .. k : d[i] = e[i]

Sums(b, d, k, s) ==
  /\ s \in [0 .. k -> Int]
  /\ s[0] = 0
  /\ \A i \in 1 .. k : s[i] = s[i - 1] + d[i] * (b ** (i - 1))

\* The value of digits is the last of their sums.
LEMMA ValueIsSum ==
  ASSUME NEW b \in Int, NEW k \in Nat, NEW d, Ints(d, k)
  PROVE  \E s : Sums(b, d, k, s) /\ ValueOf(b, d, k) = s[k]
<1> DEFINE Is(f) == f = [i \in 0 .. k |-> IF i = 0 THEN 0 ELSE f[i - 1] + d[i] * (b ** (i - 1))]
           s == CHOOSE f : Is(f)
           step == [i \in 1 .. k |-> [v \in Int |-> v + d[i] * (b ** (i - 1))]]
<1>1. \A i \in 1 .. k : d[i] * (b ** (i - 1)) \in Int
  <2> SUFFICES ASSUME NEW i \in 1 .. k PROVE d[i] * (b ** (i - 1)) \in Int  OBVIOUS
  <2>1. i - 1 \in Nat /\ d[i] \in Int  BY DEF Ints
  <2>2. b ** (i - 1) \in Int  BY <2>1, Powers
  <2>3. QED  BY <2>1, <2>2
<1>2. step \in [1 .. k -> [Int -> Int]]
  <2>1. ASSUME NEW i \in 1 .. k, NEW v \in Int PROVE v + d[i] * (b ** (i - 1)) \in Int  BY <1>1
  <2>2. QED  BY <2>1
<1>3. PICK f \in [0 .. k -> Int] : Computed(f, k, 0, step)
  <2> HIDE DEF step
  <2>1. 0 \in Int  OBVIOUS
  <2>2. QED  BY <1>2, <2>1, Chain
<1>4. ASSUME NEW i \in 0 .. k, i # 0 PROVE step[i][f[i - 1]] = f[i - 1] + d[i] * (b ** (i - 1))
  <2>1. i \in 1 .. k /\ i - 1 \in 0 .. k  BY <1>4
  <2>2. f[i - 1] \in Int  BY <1>3, <2>1
  <2>3. QED  BY <2>1, <2>2
<1>5. Is(f)
  <2> HIDE DEF step
  <2>1. QED  BY <1>3, <1>4 DEF Computed
<1>6. Is(s)
  <2> HIDE DEF Is
  <2>1. QED  BY <1>5
<1>7. ValueOf(b, d, k) = s[k]  BY DEF ValueOf
<1>8. s[0] = 0 /\ \A i \in 1 .. k : s[i] = s[i - 1] + d[i] * (b ** (i - 1))
  <2> HIDE DEF s
  <2>1. 0 \in 0 .. k /\ \A i \in 1 .. k : i \in 0 .. k /\ i # 0  OBVIOUS
  <2>2. s[0] = 0  BY <1>6, <2>1
  <2>3. QED  BY <1>6, <2>1, <2>2
<1>9. \A i \in 0 .. k : s[i] \in Int
  <2>1. \A i \in 1 .. k : s[i - 1] \in Int => s[i] \in Int
    <3> HIDE DEF s
    <3>1. QED  BY <1>1, <1>8
  <2> HIDE DEF s
  <2>2. s[0] \in Int  BY <1>8
  <2>3. QED  BY <2>1, <2>2, LoopKeeps
<1>10. s \in [0 .. k -> Int]
  <2> HIDE DEF s
  <2>1. s = [i \in 0 .. k |-> s[i]]  BY <1>6
  <2>2. QED  BY <1>9, <2>1
<1>11. Sums(b, d, k, s)  BY <1>8, <1>10 DEF Sums
<1>12. QED  BY <1>7, <1>11

\* Sums of the same digits are the same.
LEMMA SumsAgree ==
  ASSUME NEW b \in Int, NEW k \in Nat, NEW m \in Nat, NEW d, NEW e, NEW s, NEW t,
         Sums(b, d, k, s), Sums(b, e, m, t), k <= m, Same(d, e, k)
  PROVE  s[k] = t[k]
<1> DEFINE Good == {i \in 0 .. k : s[i] = t[i]}
<1>1. 0 \in Good  BY DEF Sums
<1>2. ASSUME NEW i \in 1 .. k, i - 1 \in Good PROVE i \in Good
  <2>1. i \in 1 .. m /\ i \in 0 .. k  OBVIOUS
  <2>2. QED  BY <1>2, <2>1 DEF Sums, Same
<1>3. 0 .. k \subseteq Good
  <2> HIDE DEF Good
  <2>1. QED  BY <1>1, <1>2, UpTo
<1>4. QED  BY <1>3

\* The value of digits is a sum over the digits.
LEMMA Values ==
  ASSUME NEW b \in Int, NEW k \in Nat, NEW d, Ints(d, k)
  PROVE  /\ ValueOf(b, d, 0) = 0
         /\ \A j \in 0 .. k : ValueOf(b, d, j) \in Int
         /\ \A j \in 1 .. k : ValueOf(b, d, j) = ValueOf(b, d, j - 1) + d[j] * (b ** (j - 1))
<1>1. PICK s : Sums(b, d, k, s) /\ ValueOf(b, d, k) = s[k]  BY ValueIsSum
<1>2. ASSUME NEW j \in 0 .. k PROVE ValueOf(b, d, j) = s[j]
  <2>1. j \in Nat /\ j <= k /\ Ints(d, j) /\ Same(d, d, j)  BY DEF Ints, Same
  <2>2. PICK t : Sums(b, d, j, t) /\ ValueOf(b, d, j) = t[j]  BY <2>1, ValueIsSum
  <2>3. t[j] = s[j]  BY <1>1, <2>1, <2>2, SumsAgree
  <2>4. QED  BY <2>2, <2>3
<1>3. 0 \in 0 .. k /\ \A j \in 1 .. k : j \in 0 .. k /\ j - 1 \in 0 .. k  OBVIOUS
<1>4. QED  BY <1>1, <1>2, <1>3 DEF Sums

\* The same digits stand for the same number.
LEMMA SameDigits ==
  ASSUME NEW b \in Int, NEW k \in Nat, NEW d, NEW e, Ints(d, k), Same(d, e, k)
  PROVE  ValueOf(b, d, k) = ValueOf(b, e, k)
<1>1. PICK s : Sums(b, d, k, s) /\ ValueOf(b, d, k) = s[k]  BY ValueIsSum
<1>2. Ints(e, k)  BY DEF Ints, Same
<1>3. PICK t : Sums(b, e, k, t) /\ ValueOf(b, e, k) = t[k]  BY <1>2, ValueIsSum
<1>4. QED  BY <1>1, <1>3, SumsAgree

\* The value of k digits is less than the k-th power of the base.
LEMMA ValueIsBounded ==
  ASSUME NEW b \in Nat \ {0}, NEW k \in Nat, NEW d, DigitsOf(b, d, k)
  PROVE  \A j \in 0 .. k : ValueOf(b, d, j) \in 0 .. (b ** j) - 1
<1> DEFINE Good == {j \in 0 .. k : ValueOf(b, d, j) \in 0 .. (b ** j) - 1}
<1>0. b \in Int /\ Ints(d, k)  BY DEF Ints, DigitsOf
<1>1. 0 \in Good
  <2>1. ValueOf(b, d, 0) = 0 /\ b ** 0 = 1  BY <1>0, Values, Powers
  <2>2. QED  BY <2>1
<1>2. ASSUME NEW j \in 1 .. k, j - 1 \in Good PROVE j \in Good
  <2>1. ValueOf(b, d, j) = ValueOf(b, d, j - 1) + d[j] * (b ** (j - 1))  BY <1>0, Values
  <2>2. b ** j = b * (b ** (j - 1)) /\ b ** (j - 1) \in Int
    <3>1. j - 1 \in Nat /\ (j - 1) + 1 = j  OBVIOUS
    <3>2. QED  BY <1>0, <3>1, Powers
  <2>3. ASSUME NEW p \in Int, NEW v \in 0 .. p - 1, NEW w \in 0 .. b - 1
        PROVE  v + w * p \in 0 .. (b * p) - 1
    <3>1. w * p <= (b - 1) * p /\ w * p >= 0  OBVIOUS
    <3>2. (b - 1) * p = b * p - p /\ w * p \in Int /\ b * p \in Int  OBVIOUS
    <3>3. QED  BY <3>1, <3>2
  <2>4. d[j] \in 0 .. b - 1  BY DEF DigitsOf
  <2>5. ValueOf(b, d, j - 1) \in 0 .. (b ** (j - 1)) - 1  BY <1>2
  <2>6. QED  BY <2>1, <2>2, <2>3, <2>4, <2>5
<1>3. 0 .. k \subseteq Good
  <2> HIDE DEF Good
  <2>1. QED  BY <1>1, <1>2, UpTo
<1>4. QED  BY <1>3

\* If the highest of k digits is not 0 their value is at least the power before.
LEMMA ValueIsLarge ==
  ASSUME NEW b \in Nat \ {0}, NEW k \in Nat \ {0}, NEW d, DigitsOf(b, d, k), d[k] # 0
  PROVE  ValueOf(b, d, k) >= b ** (k - 1)
<1>0. b \in Int /\ Ints(d, k) /\ k \in 1 .. k /\ k - 1 \in 0 .. k  BY DEF Ints, DigitsOf
<1>1. ValueOf(b, d, k) = ValueOf(b, d, k - 1) + d[k] * (b ** (k - 1))  BY <1>0, Values
<1>2. ValueOf(b, d, k - 1) \in 0 .. (b ** (k - 1)) - 1  BY <1>0, ValueIsBounded
<1>3. b ** (k - 1) \in Nat  BY PositivePower
<1>4. d[k] \in Nat \ {0}  BY <1>0 DEF DigitsOf
<1>5. \A p \in Nat, w \in Nat \ {0} : w * p >= p /\ w * p \in Nat  OBVIOUS
<1>6. QED  BY <1>1, <1>2, <1>3, <1>4, <1>5

\* The digits z are left of the digits d when t is handed from digit to digit.
HandedOn(b, d, z, t, k) ==
  /\ \A i \in 0 .. k : t[i] \in Int
  /\ \A i \in 1 .. k : d[i] + t[i - 1] = z[i] + b * t[i]

\* What every digit hands to the next one, the value hands to its end.
LEMMA Telescope ==
  ASSUME NEW b \in Int, NEW k \in Nat, NEW d, NEW z, NEW t, Ints(d, k), Ints(z, k),
         HandedOn(b, d, z, t, k)
  PROVE  \A j \in 0 .. k : ValueOf(b, d, j) + t[0] = ValueOf(b, z, j) + t[j] * (b ** j)
<1> USE DEF HandedOn
<1> DEFINE Good == {j \in 0 .. k : ValueOf(b, d, j) + t[0] = ValueOf(b, z, j) + t[j] * (b ** j)}
<1>1. 0 \in Good
  <2>1. ValueOf(b, d, 0) = 0 /\ ValueOf(b, z, 0) = 0 /\ b ** 0 = 1  BY Values, Powers
  <2>2. 0 \in 0 .. k /\ t[0] \in Int  OBVIOUS
  <2>3. QED  BY <2>1, <2>2
<1>2. ASSUME NEW j \in 1 .. k, j - 1 \in Good PROVE j \in Good
  <2>0. j - 1 \in 0 .. k /\ j \in 0 .. k /\ (j - 1) + 1 = j /\ j - 1 \in Nat  OBVIOUS
  <2>1. ValueOf(b, d, j) = ValueOf(b, d, j - 1) + d[j] * (b ** (j - 1))  BY Values
  <2>2. ValueOf(b, z, j) = ValueOf(b, z, j - 1) + z[j] * (b ** (j - 1))  BY Values
  <2>3. b ** j = b * (b ** (j - 1)) /\ b ** (j - 1) \in Int  BY <2>0, Powers
  <2>4. ValueOf(b, d, j - 1) \in Int /\ ValueOf(b, z, j - 1) \in Int  BY <2>0, Values
  <2>5. ValueOf(b, d, j - 1) + t[0] = ValueOf(b, z, j - 1) + t[j - 1] * (b ** (j - 1))  BY <1>2
  <2>6. d[j] \in Int /\ z[j] \in Int /\ t[j] \in Int /\ t[j - 1] \in Int /\ t[0] \in Int
    BY <2>0 DEF Ints
  <2>7. d[j] + t[j - 1] = z[j] + b * t[j]  OBVIOUS
  <2>8. d[j] * (b ** (j - 1)) + t[j - 1] * (b ** (j - 1)) = z[j] * (b ** (j - 1)) + t[j] * (b ** j)
    <3>1. \A w, u, p \in Int : (w + u) * p = w * p + u * p  OBVIOUS
    <3>2. \A v, w, p \in Int : (v + b * w) * p = v * p + w * (b * p)  OBVIOUS
    <3>3. (d[j] + t[j - 1]) * (b ** (j - 1)) = d[j] * (b ** (j - 1)) + t[j - 1] * (b ** (j - 1))
      BY <2>3, <2>6, <3>1
    <3>4. (z[j] + b * t[j]) * (b ** (j - 1)) = z[j] * (b ** (j - 1)) + t[j] * (b ** j)
      BY <2>3, <2>6, <3>2
    <3>5. QED  BY <2>7, <3>3, <3>4
  <2>9. \A w, u \in Int : w * u \in Int  OBVIOUS
  <2>10. b ** j \in Int  BY <2>0, Powers
  <2>11. /\ d[j] * (b ** (j - 1)) \in Int /\ t[j - 1] * (b ** (j - 1)) \in Int
         /\ z[j] * (b ** (j - 1)) \in Int /\ t[j] * (b ** j) \in Int
    BY <2>3, <2>6, <2>9, <2>10
  <2>12. ValueOf(b, d, j) + t[0] = ValueOf(b, z, j) + t[j] * (b ** j)
    BY <2>1, <2>2, <2>4, <2>5, <2>6, <2>8, <2>11
  <2>13. QED  BY <2>0, <2>12
<1>3. 0 .. k \subseteq Good
  <2> HIDE DEF Good
  <2>1. QED  BY <1>1, <1>2, UpTo
<1>4. QED  BY <1>3

\* A sum of digits and multiples of digits.
Combined(s, d, q, e, k) == \A i \in 1 .. k : s[i] = d[i] + q * e[i]

\* The number such sums stand for is that sum of numbers.
LEMMA CombinedValue ==
  ASSUME NEW b \in Int, NEW k \in Nat, NEW d, NEW e, NEW s, NEW q \in Int, Ints(d, k), Ints(e, k),
         Combined(s, d, q, e, k)
  PROVE  \A j \in 0 .. k : ValueOf(b, s, j) = ValueOf(b, d, j) + q * ValueOf(b, e, j)
<1> USE DEF Combined
<1> DEFINE Good == {j \in 0 .. k : ValueOf(b, s, j) = ValueOf(b, d, j) + q * ValueOf(b, e, j)}
<1>0. Ints(s, k)
  <2>1. \A u, v \in Int : u + q * v \in Int  OBVIOUS
  <2>2. QED  BY <2>1 DEF Ints
<1>1. 0 \in Good
  <2>1. ValueOf(b, d, 0) = 0 /\ ValueOf(b, e, 0) = 0 /\ ValueOf(b, s, 0) = 0  BY <1>0, Values
  <2>2. QED  BY <2>1
<1>2. ASSUME NEW j \in 1 .. k, j - 1 \in Good PROVE j \in Good
  <2>0. j - 1 \in 0 .. k /\ j \in 0 .. k /\ j - 1 \in Nat  OBVIOUS
  <2>1. ValueOf(b, d, j) = ValueOf(b, d, j - 1) + d[j] * (b ** (j - 1))  BY Values
  <2>2. ValueOf(b, e, j) = ValueOf(b, e, j - 1) + e[j] * (b ** (j - 1))  BY Values
  <2>3. ValueOf(b, s, j) = ValueOf(b, s, j - 1) + s[j] * (b ** (j - 1))  BY <1>0, Values
  <2>4. ValueOf(b, d, j - 1) \in Int /\ ValueOf(b, e, j - 1) \in Int  BY <2>0, Values
  <2>5. b ** (j - 1) \in Int  BY <2>0, Powers
  <2>6. d[j] \in Int /\ e[j] \in Int  BY DEF Ints
  <2>7. \A u, v, w, z, p \in Int : (u + q * v) + (w + q * z) * p = (u + w * p) + q * (v + z * p)
    OBVIOUS
  <2>8. s[j] = d[j] + q * e[j]  OBVIOUS
  <2>9. ValueOf(b, s, j - 1) = ValueOf(b, d, j - 1) + q * ValueOf(b, e, j - 1)  BY <1>2
  <2>10. ValueOf(b, s, j) = ValueOf(b, d, j) + q * ValueOf(b, e, j)
    BY <2>1, <2>2, <2>3, <2>4, <2>5, <2>6, <2>7, <2>8, <2>9
  <2>11. QED  BY <2>0, <2>10
<1>3. 0 .. k \subseteq Good
  <2> HIDE DEF Good
  <2>1. QED  BY <1>1, <1>2, UpTo
<1>4. QED  BY <1>3

\* Digits that are 0 add nothing.
Zeros(d, j, k) == \A i \in j .. k : d[i] = 0

\* Zeros above j digits change nothing.
LEMMA ZerosAbove ==
  ASSUME NEW b \in Int, NEW k \in Nat, NEW j \in 0 .. k, NEW d, Ints(d, k), Zeros(d, j + 1, k)
  PROVE  ValueOf(b, d, k) = ValueOf(b, d, j)
<1> DEFINE Good == {i \in 0 .. k : i >= j => ValueOf(b, d, i) = ValueOf(b, d, j)}
<1>1. 0 \in Good  OBVIOUS
<1>2. ASSUME NEW i \in 1 .. k, i - 1 \in Good PROVE i \in Good
  <2>0. i - 1 \in 0 .. k /\ i \in 0 .. k /\ i - 1 \in Nat  OBVIOUS
  <2>1. CASE i <= j  BY <2>0, <2>1
  <2>2. CASE i > j
    <3>1. ValueOf(b, d, i) = ValueOf(b, d, i - 1) + d[i] * (b ** (i - 1))  BY Values
    <3>2. d[i] = 0 /\ i - 1 >= j  BY <2>2 DEF Zeros
    <3>3. b ** (i - 1) \in Int /\ ValueOf(b, d, i - 1) \in Int  BY <2>0, Powers, Values
    <3>4. ValueOf(b, d, i - 1) = ValueOf(b, d, j)  BY <1>2, <3>2
    <3>5. ValueOf(b, d, i) = ValueOf(b, d, j)  BY <3>1, <3>2, <3>3, <3>4
    <3>6. QED  BY <2>0, <3>5
  <2>3. QED  BY <2>1, <2>2
<1>3. 0 .. k \subseteq Good
  <2> HIDE DEF Good
  <2>1. QED  BY <1>1, <1>2, UpTo
<1>4. QED  BY <1>3

\* The value of j digits and of those above them.
Above(e, d, j, k) == \A i \in 1 .. k : e[i] = d[j + i]

\* A number is its j lowest digits and, that many places higher, the others.
LEMMA SplitValue ==
  ASSUME NEW b \in Int, NEW j \in Nat, NEW k \in Nat, NEW d, NEW e, Ints(d, j + k), Above(e, d, j, k)
  PROVE  ValueOf(b, d, j + k) = ValueOf(b, d, j) + (b ** j) * ValueOf(b, e, k)
<1> USE DEF Above
<1> DEFINE Good == {i \in 0 .. k : ValueOf(b, d, j + i) = ValueOf(b, d, j) + (b ** j) * ValueOf(b, e, i)}
<1>0. Ints(e, k)
  <2>1. \A i \in 1 .. k : j + i \in 1 .. j + k  OBVIOUS
  <2>2. QED  BY <2>1 DEF Ints
<1>a. b ** j \in Int /\ j + k \in Nat /\ j \in 0 .. j + k  BY Powers
<1>b. ValueOf(b, d, j) \in Int  BY <1>a, Values
<1>1. 0 \in Good
  <2>1. ValueOf(b, e, 0) = 0 /\ j + 0 = j  BY <1>0, Values
  <2>2. QED  BY <1>a, <1>b, <2>1
<1>2. ASSUME NEW i \in 1 .. k, i - 1 \in Good PROVE i \in Good
  <2>0. i - 1 \in 0 .. k /\ i \in 0 .. k /\ i - 1 \in Nat /\ j + i \in 1 .. j + k
        /\ (j + i) - 1 = j + (i - 1)
    OBVIOUS
  <2>1. ValueOf(b, d, j + i) = ValueOf(b, d, (j + i) - 1) + d[j + i] * (b ** ((j + i) - 1))
    BY <1>a, <2>0, Values
  <2>2. ValueOf(b, e, i) = ValueOf(b, e, i - 1) + e[i] * (b ** (i - 1))  BY <1>0, Values
  <2>3. b ** (j + (i - 1)) = (b ** j) * (b ** (i - 1)) /\ b ** (i - 1) \in Int
    BY <2>0, PowerOfSum, Powers
  <2>4. e[i] = d[j + i] /\ e[i] \in Int  BY <1>0 DEF Ints
  <2>5. ValueOf(b, e, i - 1) \in Int  BY <1>0, <2>0, Values
  <2>6. ValueOf(b, d, j + (i - 1)) = ValueOf(b, d, j) + (b ** j) * ValueOf(b, e, i - 1)  BY <1>2
  <2>7. \A v, w, t, p, r \in Int : (v + p * w) + t * (p * r) = v + p * (w + t * r)  OBVIOUS
  <2>8. ValueOf(b, d, j + i) = (ValueOf(b, d, j) + (b ** j) * ValueOf(b, e, i - 1))
                               + e[i] * ((b ** j) * (b ** (i - 1)))
    BY <2>0, <2>1, <2>3, <2>4, <2>6
  <2>9. ValueOf(b, d, j + i) = ValueOf(b, d, j) + (b ** j) * ValueOf(b, e, i)
    BY <1>a, <1>b, <2>2, <2>3, <2>4, <2>5, <2>7, <2>8
  <2>10. QED  BY <2>0, <2>9
<1>3. 0 .. k \subseteq Good
  <2> HIDE DEF Good
  <2>1. QED  BY <1>1, <1>2, UpTo
<1>4. QED  BY <1>3

-----------------------------------------------------------------------------
(***************************************************************************)
(* Part 4. Division by the base, comparisons and carries.                  *)
(***************************************************************************)
\* Quotient and remainder.
LEMMA Division ==
  ASSUME NEW b \in Nat \ {0}, NEW n \in Int
  PROVE  /\ n \div b \in Int /\ n % b \in 0 .. b - 1
         /\ n = b * (n \div b) + (n % b)
         /\ n \in Nat => n \div b \in Nat
  OBVIOUS

\* A sum of a multiple of b and less than b.
LEMMA DivisionIsUnique ==
  ASSUME NEW b \in Nat \ {0}, NEW n \in Int, NEW q \in Int, NEW r \in 0 .. b - 1, n = b * q + r
  PROVE  q = n \div b /\ r = n % b
<1>1. n = b * (n \div b) + (n % b) /\ n \div b \in Int /\ n % b \in 0 .. b - 1  BY Division
<1>2. q = n \div b
  <2>1. \A u, v \in Int : u < v => b * u + b <= b * v
    <3> SUFFICES ASSUME NEW u \in Int, NEW v \in Int, u < v PROVE b * u + b <= b * v  OBVIOUS
    <3>1. v - (u + 1) \in Nat  OBVIOUS
    <3>2. b * (v - (u + 1)) \in Nat  BY <3>1
    <3>3. b * (v - (u + 1)) = b * v - (b * u + b)  OBVIOUS
    <3>4. b * v \in Int /\ b * u \in Int  OBVIOUS
    <3>5. QED  BY <3>2, <3>3, <3>4
  <2>2. ~(q < n \div b)
    <3>1. q < n \div b => b * q + b <= b * (n \div b)  BY <1>1, <2>1
    <3>2. b * q \in Int /\ b * (n \div b) \in Int  BY <1>1
    <3>3. QED  BY <1>1, <3>1, <3>2
  <2>3. ~(n \div b < q)
    <3>1. n \div b < q => b * (n \div b) + b <= b * q  BY <1>1, <2>1
    <3>2. b * q \in Int /\ b * (n \div b) \in Int  BY <1>1
    <3>3. QED  BY <1>1, <3>1, <3>2
  <2>4. QED  BY <1>1, <2>2, <2>3
<1>3. b * q \in Int  OBVIOUS
<1>4. QED  BY <1>1, <1>2, <1>3

\* A division in two steps.
LEMMA DivisionTwice ==
  ASSUME NEW b \in Nat \ {0}, NEW p \in Nat \ {0}, NEW n \in Int
  PROVE  (n \div p) \div b = n \div (p * b) /\ n % (p * b) = p * ((n \div p) % b) + (n % p)
<1> DEFINE u == n \div p
           v == n % p
           q == u \div b
           r == u % b
<1>1. n = p * u + v /\ u \in Int /\ v \in 0 .. p - 1  BY Division
<1>2. u = b * q + r /\ q \in Int /\ r \in 0 .. b - 1
  <2>1. u \in Int  BY <1>1
  <2> HIDE DEF u
  <2>2. QED  BY <2>1, Division
<1> HIDE DEF u, v, q, r
<1>3. p * r + v \in 0 .. (p * b) - 1
  <2>1. p * r >= 0 /\ p * r <= p * (b - 1) /\ p * r \in Int  BY <1>2
  <2>2. p * (b - 1) = p * b - p /\ p * b \in Int  OBVIOUS
  <2>3. QED  BY <1>1, <2>1, <2>2
<1>4. n = (p * b) * q + (p * r + v)
  <2>1. p * (b * q + r) = (p * b) * q + p * r  BY <1>2
  <2>2. (p * b) * q \in Int /\ p * r \in Int  BY <1>2
  <2>3. QED  BY <1>1, <1>2, <2>1, <2>2
<1>5. p * b \in Nat \ {0} /\ p * r + v \in Int  BY <1>3
<1>6. q = n \div (p * b) /\ p * r + v = n % (p * b)  BY <1>2, <1>3, <1>4, <1>5, DivisionIsUnique
<1>7. QED  BY <1>6 DEF u, v, q, r

\* The digits of a number.
LEMMA DigitsOfNumber ==
  ASSUME NEW b \in Nat \ {0}, NEW n \in Nat, NEW k \in Nat, NEW d,
         \A i \in 1 .. k : d[i] = (n \div (b ** (i - 1))) % b
  PROVE  DigitsOf(b, d, k) /\ \A j \in 0 .. k : n = ValueOf(b, d, j) + (n \div (b ** j)) * (b ** j)
<1> DEFINE t == [i \in 0 .. k |-> n \div (b ** i)]
           none == [i \in 1 .. k |-> 0]
<1>1. \A i \in 0 .. k : b ** i \in Nat \ {0} /\ t[i] \in Nat
  <2> SUFFICES ASSUME NEW i \in 0 .. k PROVE b ** i \in Nat \ {0} /\ t[i] \in Nat  OBVIOUS
  <2>1. b ** i \in Nat \ {0}  BY PositivePower
  <2>2. \A p \in Nat \ {0} : n \div p \in Nat  OBVIOUS
  <2>3. QED  BY <2>1, <2>2
<1>2. ASSUME NEW i \in 1 .. k PROVE 0 + t[i - 1] = d[i] + b * t[i] /\ d[i] \in 0 .. b - 1
  <2>1. i - 1 \in 0 .. k /\ i \in 0 .. k /\ (i - 1) + 1 = i /\ i - 1 \in Nat  OBVIOUS
  <2>2. d[i] = t[i - 1] % b  BY <2>1
  <2>3. t[i] = t[i - 1] \div b
    <3>1. b ** i = b * (b ** (i - 1))  BY <2>1, Powers
    <3>2. (n \div (b ** (i - 1))) \div b = n \div ((b ** (i - 1)) * b)
      <4>1. \A p \in Nat \ {0} : (n \div p) \div b = n \div (p * b)
        <5> SUFFICES ASSUME NEW p \in Nat \ {0} PROVE (n \div p) \div b = n \div (p * b)  OBVIOUS
        <5>1. n \in Int  OBVIOUS
        <5>2. QED  BY <5>1, DivisionTwice, Zenon
      <4>2. QED  BY <1>1, <2>1, <4>1
    <3>3. b * (b ** (i - 1)) = (b ** (i - 1)) * b  BY <1>1, <2>1
    <3>4. QED  BY <2>1, <3>1, <3>2, <3>3
  <2>4. t[i - 1] \in Int  BY <1>1, <2>1
  <2> HIDE DEF t
  <2>5. t[i - 1] = b * (t[i - 1] \div b) + (t[i - 1] % b) /\ t[i - 1] % b \in 0 .. b - 1
        /\ t[i - 1] \div b \in Int
    BY <2>4, Division
  <2>6. t[i - 1] = b * t[i] + d[i] /\ d[i] \in 0 .. b - 1 /\ t[i] \in Int  BY <2>2, <2>3, <2>5
  <2>7. b * t[i] \in Int  BY <2>6
  <2>8. QED  BY <2>4, <2>6, <2>7
<1>3. DigitsOf(b, d, k) /\ Ints(d, k) /\ Ints(none, k) /\ \A i \in 1 .. k : none[i] = 0
  <2>1. DigitsOf(b, d, k)  BY <1>2 DEF DigitsOf
  <2>2. Ints(d, k)  BY <2>1 DEF DigitsOf, Ints
  <2>3. \A i \in 1 .. k : none[i] = 0  OBVIOUS
  <2>4. Ints(none, k)  BY <2>3 DEF Ints
  <2>5. QED  BY <2>1, <2>2, <2>3, <2>4
<1>4. b ** 0 = 1 /\ t[0] = n
  <2>1. b ** 0 = 1  BY Powers
  <2>2. n \div 1 = n  OBVIOUS
  <2>3. QED  BY <2>1, <2>2
<1>5. ASSUME NEW j \in 0 .. k PROVE n = ValueOf(b, d, j) + (n \div (b ** j)) * (b ** j)
  <2>1. b \in Int /\ \A i \in 0 .. k : t[i] \in Int  BY <1>1
  <2>2. \A i \in 1 .. k : none[i] + t[i - 1] = d[i] + b * t[i]
    <3> HIDE DEF t, none
    <3>1. QED  BY <1>2, <1>3
  <2>3. ValueOf(b, none, j) + t[0] = ValueOf(b, d, j) + t[j] * (b ** j)
    <3> HIDE DEF t, none
    <3>1. HandedOn(b, none, d, t, k)  BY <2>1, <2>2 DEF HandedOn
    <3>2. QED  BY <1>3, <2>1, <3>1, Telescope
  <2>4. ValueOf(b, none, j) = 0
    <3>1. 0 \in 0 .. j /\ j \in Nat /\ Zeros(none, 0 + 1, j)  BY <1>3 DEF Zeros
    <3>2. Ints(none, j)  BY DEF Ints
    <3> HIDE DEF none
    <3>3. ValueOf(b, none, j) = ValueOf(b, none, 0)  BY <3>1, <3>2, ZerosAbove
    <3>4. ValueOf(b, none, 0) = 0  BY <3>2, <3>1, Values
    <3>5. QED  BY <3>3, <3>4
  <2>5. t[j] = n \div (b ** j)  OBVIOUS
  <2> HIDE DEF t
  <2>6. QED  BY <1>4, <2>3, <2>4, <2>5
<1>6. QED  BY <1>3, <1>5

\* The highest digit in which two numbers differ says which one is larger.
LEMMA HighestDiffers ==
  ASSUME NEW b \in Nat \ {0}, NEW k \in Nat, NEW d, NEW e, DigitsOf(b, d, k), DigitsOf(b, e, k),
         NEW i \in 1 .. k, d[i] < e[i], \A j \in i + 1 .. k : d[j] = e[j]
  PROVE  ValueOf(b, d, k) < ValueOf(b, e, k)
<1> DEFINE s == [j \in 1 .. k |-> e[j] + (-1) * d[j]]
<1>1. Ints(d, k) /\ Ints(e, k) /\ b \in Int /\ i \in 0 .. k /\ i - 1 \in 0 .. k /\ i - 1 \in Nat
      /\ k \in 0 .. k
  BY DEF Ints, DigitsOf
<1>2. Ints(s, k)  BY <1>1 DEF Ints
<1>3. Zeros(s, i + 1, k)
  <2>1. ASSUME NEW j \in i + 1 .. k PROVE s[j] = 0
    <3>1. j \in 1 .. k  OBVIOUS
    <3>2. d[j] = e[j] /\ e[j] \in Int  BY <1>1, <3>1 DEF Ints
    <3>3. QED  BY <3>1, <3>2
  <2> HIDE DEF s
  <2>2. QED  BY <2>1 DEF Zeros
<1>4. Combined(s, e, -1, d, k)  BY DEF Combined
<1> HIDE DEF s
<1>5. ValueOf(b, s, k) = ValueOf(b, s, i)  BY <1>1, <1>2, <1>3, ZerosAbove
<1>6. \A j \in 0 .. k : ValueOf(b, s, j) = ValueOf(b, e, j) + (-1) * ValueOf(b, d, j)
  BY <1>1, <1>4, CombinedValue
<1>7. ValueOf(b, d, i) = ValueOf(b, d, i - 1) + d[i] * (b ** (i - 1))
      /\ ValueOf(b, e, i) = ValueOf(b, e, i - 1) + e[i] * (b ** (i - 1))
  BY <1>1, Values
<1>8. ValueOf(b, d, i - 1) \in 0 .. (b ** (i - 1)) - 1 /\ ValueOf(b, e, i - 1) \in 0 .. (b ** (i - 1)) - 1
  BY <1>1, ValueIsBounded
<1>9. b ** (i - 1) \in Nat  BY <1>1, PositivePower
<1>10. d[i] * (b ** (i - 1)) + b ** (i - 1) <= e[i] * (b ** (i - 1))
  <2>1. d[i] \in Nat /\ e[i] \in Nat /\ d[i] + 1 <= e[i]  BY DEF DigitsOf
  <2>2. \A u, v, p \in Nat : u + 1 <= v => (u + 1) * p <= v * p  OBVIOUS
  <2>3. \A u, p \in Nat : (u + 1) * p = u * p + p  OBVIOUS
  <2>4. QED  BY <1>9, <2>1, <2>2, <2>3
<1>11. d[i] * (b ** (i - 1)) \in Int /\ e[i] * (b ** (i - 1)) \in Int
  <2>1. d[i] \in Int /\ e[i] \in Int  BY <1>1 DEF Ints
  <2>2. QED  BY <1>9, <2>1
<1>12. ValueOf(b, d, i) < ValueOf(b, e, i) /\ ValueOf(b, d, i) \in Int /\ ValueOf(b, e, i) \in Int
  BY <1>7, <1>8, <1>9, <1>10, <1>11
<1>13. ValueOf(b, d, k) \in Int /\ ValueOf(b, e, k) \in Int  BY <1>1, Values
<1>14. ValueOf(b, s, k) = ValueOf(b, e, k) + (-1) * ValueOf(b, d, k)
       /\ ValueOf(b, s, i) = ValueOf(b, e, i) + (-1) * ValueOf(b, d, i)
  BY <1>1, <1>6
<1>15. \A u, v, p, q \in Int : u < v /\ q + (-1) * p = v + (-1) * u => p < q  OBVIOUS
<1>16. ValueOf(b, e, k) + (-1) * ValueOf(b, d, k) = ValueOf(b, e, i) + (-1) * ValueOf(b, d, i)
  BY <1>5, <1>14
<1>17. QED  BY <1>12, <1>13, <1>15, <1>16

\* What is carried, and what is left.
LEMMA Carrying ==
  ASSUME NEW b \in Nat \ {0}, NEW k \in Nat, NEW d, NEW first \in Int, Ints(d, k)
  PROVE  LET c == Carries(b, d, k, first) IN
         /\ c[0] = first /\ \A i \in 0 .. k : c[i] \in Int
         /\ \A i \in 1 .. k : c[i] = (d[i] + c[i - 1]) \div b
<1> DEFINE Is(f) == f = [i \in 0 .. k |-> IF i = 0 THEN first ELSE (d[i] + f[i - 1]) \div b]
           c == CHOOSE f : Is(f)
           step == [i \in 1 .. k |-> [v \in Int |-> (d[i] + v) \div b]]
<1>1. ASSUME NEW i \in 1 .. k, NEW v \in Int PROVE (d[i] + v) \div b \in Int
  <2>1. d[i] + v \in Int  BY DEF Ints
  <2>2. QED  BY <2>1, Division
<1>2. step \in [1 .. k -> [Int -> Int]]  BY <1>1
<1>3. PICK f \in [0 .. k -> Int] : Computed(f, k, first, step)
  <2> HIDE DEF step
  <2>1. QED  BY <1>2, Chain
<1>4. ASSUME NEW i \in 0 .. k, i # 0 PROVE step[i][f[i - 1]] = (d[i] + f[i - 1]) \div b
  <2>1. i \in 1 .. k /\ i - 1 \in 0 .. k  BY <1>4
  <2>2. f[i - 1] \in Int  BY <1>3, <2>1
  <2>3. QED  BY <2>1, <2>2
<1>5. Is(f)
  <2> HIDE DEF step
  <2>1. QED  BY <1>3, <1>4 DEF Computed
<1>6. Is(c)
  <2> HIDE DEF Is
  <2>1. QED  BY <1>5
<1>7. Carries(b, d, k, first) = c  BY DEF Carries
<1> HIDE DEF c
<1>8. c[0] = first /\ \A i \in 1 .. k : c[i] = (d[i] + c[i - 1]) \div b
  <2>1. 0 \in 0 .. k /\ \A i \in 1 .. k : i \in 0 .. k /\ i # 0  OBVIOUS
  <2>2. c[0] = first  BY <1>6, <2>1
  <2>3. QED  BY <1>6, <2>1, <2>2
<1>9. \A i \in 0 .. k : c[i] \in Int
  <2>1. \A i \in 1 .. k : c[i - 1] \in Int => c[i] \in Int  BY <1>1, <1>8
  <2>2. c[0] \in Int  BY <1>8
  <2>3. QED  BY <2>1, <2>2, LoopKeeps
<1>10. QED  BY <1>7, <1>8, <1>9

\* Nothing is lost of it.
LEMMA CarriedValue ==
  ASSUME NEW b \in Nat \ {0}, NEW k \in Nat, NEW d, NEW first \in Int, Ints(d, k), NEW c,
         c = Carries(b, d, k, first), NEW z, z = Carried(b, d, k, c)
  PROVE  /\ z \in [1 .. k -> 0 .. b - 1] /\ DigitsOf(b, z, k)
         /\ \A j \in 0 .. k : ValueOf(b, d, j) + first = ValueOf(b, z, j) + c[j] * (b ** j)
<1>1. /\ c[0] = first /\ \A i \in 0 .. k : c[i] \in Int
      /\ \A i \in 1 .. k : c[i] = (d[i] + c[i - 1]) \div b
  BY Carrying
<1>2. z = [i \in 1 .. k |-> (d[i] + c[i - 1]) % b]  BY DEF Carried
<1>3. ASSUME NEW i \in 1 .. k
      PROVE  z[i] \in 0 .. b - 1 /\ d[i] + c[i - 1] = z[i] + b * c[i]
  <2>1. d[i] \in Int /\ c[i - 1] \in Int /\ c[i] \in Int
    <3>1. i - 1 \in 0 .. k /\ i \in 0 .. k  OBVIOUS
    <3>2. QED  BY <1>1, <3>1 DEF Ints
  <2>2. d[i] + c[i - 1] \in Int  BY <2>1
  <2>3. d[i] + c[i - 1] = b * ((d[i] + c[i - 1]) \div b) + ((d[i] + c[i - 1]) % b)
        /\ (d[i] + c[i - 1]) % b \in 0 .. b - 1
    BY <2>2, Division
  <2>4. z[i] = (d[i] + c[i - 1]) % b /\ c[i] = (d[i] + c[i - 1]) \div b  BY <1>1, <1>2
  <2>5. b * c[i] \in Int  BY <2>1
  <2>6. QED  BY <2>3, <2>4, <2>5
<1>4. z \in [1 .. k -> 0 .. b - 1] /\ DigitsOf(b, z, k) /\ Ints(z, k)
  BY <1>2, <1>3 DEF DigitsOf, Ints
<1>5. \A j \in 0 .. k : ValueOf(b, d, j) + c[0] = ValueOf(b, z, j) + c[j] * (b ** j)
  <2>1. b \in Int  OBVIOUS
  <2>2. HandedOn(b, d, z, c, k)  BY <1>1, <1>3 DEF HandedOn
  <2>3. QED  BY <1>4, <2>1, <2>2, Telescope
<1>6. QED  BY <1>1, <1>4, <1>5

-----------------------------------------------------------------------------
(***************************************************************************)
(* Part 5. Bits.                                                           *)
(***************************************************************************)
\* Tables that leave what both numbers have no bit of.
Tables == {t \in [Bit \X Bit -> Bit] : t[<<0, 0>>] = 0}

\* The tables of natural.cpp.
LEMMA TheTables == AND \in Tables /\ OR \in Tables /\ XOR \in Tables
  BY DEF Tables, AND, OR, XOR, Bit

\* The lowest bits, and the others.
LEMMA Bits1 ==
  ASSUME NEW table \in Tables
  PROVE  /\ BitByBit(table, 0, 0) = 0
         /\ \A m, n \in Nat :
              /\ BitByBit(table, m, n) \in Nat
              /\ BitByBit(table, m, n)
                   = 2 * BitByBit(table, m \div 2, n \div 2) + table[<<m % 2, n % 2>>]
<1> DEFINE D == Nat \X Nat
           size == [p \in D |-> p[1] + p[2]]
           zero == {<<0, 0>>}
           start == [p \in zero |-> 0]
           halves(p) == <<p[1] \div 2, p[2] \div 2>>
           low(p) == table[<<p[1] % 2, p[2] % 2>>]
           next == [p \in D \ zero |-> halves(p)]
           step == [p \in D \ zero |-> [v \in Nat |-> 2 * v + low(p)]]
           Is(f) == f = [p \in D |-> IF p = <<0, 0>> THEN 0 ELSE 2 * f[halves(p)] + low(p)]
           b == CHOOSE f : Is(f)
<1>1. ASSUME NEW p \in D
      PROVE  halves(p) \in D /\ low(p) \in Bit /\ (p # <<0, 0>> => size[halves(p)] < size[p])
  <2>1. PICK m \in Nat, n \in Nat : p = <<m, n>>  OBVIOUS
  <2>2. m \div 2 \in Nat /\ n \div 2 \in Nat /\ m \div 2 <= m /\ n \div 2 <= n  OBVIOUS
  <2>3. m % 2 \in Bit /\ n % 2 \in Bit  BY DEF Bit
  <2>4. halves(p) = <<m \div 2, n \div 2>> /\ low(p) = table[<<m % 2, n % 2>>]  BY <2>1
  <2>5. halves(p) \in D  BY <2>2, <2>4
  <2>6. low(p) \in Bit  BY <2>3, <2>4 DEF Tables
  <2>7. size[p] = m + n /\ size[halves(p)] = m \div 2 + n \div 2  BY <2>1, <2>4, <2>5
  <2>8. p # <<0, 0>> => m # 0 \/ n # 0  BY <2>1
  <2>9. (m # 0 => m \div 2 < m) /\ (n # 0 => n \div 2 < n)  OBVIOUS
  <2> HIDE DEF size, halves, low, D
  <2>10. p # <<0, 0>> => size[halves(p)] < size[p]  BY <2>2, <2>7, <2>8, <2>9
  <2>11. QED  BY <2>5, <2>6, <2>10
<1>2. Recursive(D, Nat, size, zero, start, next, step)
  <2>1. size \in [D -> Nat] /\ zero \in SUBSET D /\ start \in [zero -> Nat]  OBVIOUS
  <2>2. next \in [D \ zero -> D] /\ \A p \in D \ zero : size[next[p]] < size[p]
    <3> HIDE DEF halves, size
    <3>1. QED  BY <1>1
  <2>3. step \in [D \ zero -> [Nat -> Nat]]
    <3>1. ASSUME NEW p \in D, NEW v \in Nat PROVE 2 * v + low(p) \in Nat
      <4> HIDE DEF low
      <4>1. low(p) \in Bit  BY <1>1
      <4>2. low(p) \in Nat  BY <4>1 DEF Bit
      <4>3. QED  BY <4>2
    <3> HIDE DEF low, D, zero
    <3>2. QED  BY <3>1
  <2> HIDE DEF size, zero, start, next, step, D
  <2>4. QED  BY <2>1, <2>2, <2>3 DEF Recursive
<1>3. PICK f \in [D -> Nat] : Computes(f, D, zero, start, next, step)
  <2> HIDE DEF size, zero, start, next, step, D
  <2>1. QED  BY <1>2, Recursion
<1>4. ASSUME NEW p \in D PROVE f[p] = IF p = <<0, 0>> THEN 0 ELSE 2 * f[halves(p)] + low(p)
  <2>1. f[p] = IF p \in zero THEN start[p] ELSE step[p][f[next[p]]]
    <3> HIDE DEF zero, start, next, step, D
    <3>1. QED  BY <1>3 DEF Computes
  <2>2. CASE p = <<0, 0>>  BY <2>1, <2>2
  <2>3. CASE p # <<0, 0>>
    <3>1. next[p] = halves(p) /\ f[halves(p)] \in Nat
      <4>1. halves(p) \in D  BY <1>1
      <4> HIDE DEF halves
      <4>2. QED  BY <1>3, <2>3, <4>1
    <3> HIDE DEF halves, low, D
    <3>2. step[p] = [v \in Nat |-> 2 * v + low(p)]  BY <2>3
    <3>3. QED  BY <2>1, <2>3, <3>1, <3>2
  <2>4. QED  BY <2>2, <2>3
<1>5. Is(f)
  <2> HIDE DEF halves, low, D
  <2>1. f = [p \in D |-> f[p]]  BY <1>3
  <2>2. QED  BY <1>4, <2>1
<1>6. Is(b)
  <2> HIDE DEF Is
  <2>1. QED  BY <1>5
<1>7. \A m, n \in Nat : BitByBit(table, m, n) = b[<<m, n>>]  BY DEF BitByBit
<1>8. \A p \in D : b[p] = IF p = <<0, 0>> THEN 0 ELSE 2 * b[halves(p)] + low(p)
  <2> HIDE DEF b, halves, low, D
  <2>1. QED  BY <1>6
<1>9. b = f
  <2> DEFINE Good == {p \in D : b[p] = f[p]}
  <2>1. ASSUME NEW p \in D, \A q \in D : size[q] < size[p] => q \in Good PROVE p \in Good
    <3>1. CASE p = <<0, 0>>
      <4> HIDE DEF b, halves, low, D
      <4>1. b[p] = 0 /\ f[p] = 0  BY <1>4, <1>8, <3>1
      <4>2. QED  BY <4>1
    <3>2. CASE p # <<0, 0>>
      <4>1. halves(p) \in Good
        <5> HIDE DEF b, halves, size, D, Good
        <5>1. QED  BY <1>1, <2>1, <3>2
      <4>2. b[halves(p)] = f[halves(p)]  BY <4>1
      <4> HIDE DEF b, halves, low, D
      <4>3. b[p] = f[p]  BY <1>4, <1>8, <3>2, <4>2
      <4>4. QED  BY <4>3
    <3>3. QED  BY <3>1, <3>2
  <2>2. size \in [D -> Nat]  OBVIOUS
  <2>3. D \subseteq Good
    <3> HIDE DEF Good, size, D
    <3>1. QED  BY <2>1, <2>2, Induction
  <2>4. b = [p \in D |-> b[p]]
    <3> HIDE DEF b, D, halves, low
    <3>1. QED  BY <1>6
  <2>5. f = [p \in D |-> f[p]]
    <3> HIDE DEF D
    <3>1. QED  BY <1>3
  <2>6. \A p \in D : b[p] = f[p]
    <3> HIDE DEF b, D
    <3>1. QED  BY <2>3
  <2> HIDE DEF b, D
  <2>7. QED  BY <2>4, <2>5, <2>6
<1>10. \A m, n \in Nat : b[<<m, n>>] \in Nat
  <2> HIDE DEF b
  <2>1. QED  BY <1>3, <1>9
<1>11. ASSUME NEW m \in Nat, NEW n \in Nat
       PROVE  b[<<m, n>>] = 2 * b[<<m \div 2, n \div 2>>] + table[<<m % 2, n % 2>>]
  <2>1. CASE m = 0 /\ n = 0
    <3>1. m \div 2 = 0 /\ n \div 2 = 0 /\ m % 2 = 0 /\ n % 2 = 0  BY <2>1
    <3>2. b[<<0, 0>>] = 0
      <4>1. <<0, 0>> \in D  OBVIOUS
      <4> HIDE DEF b, D, halves, low
      <4>2. QED  BY <1>8, <4>1
    <3>3. table[<<0, 0>>] = 0  BY DEF Tables
    <3> HIDE DEF b
    <3>4. QED  BY <2>1, <3>1, <3>2, <3>3
  <2>2. CASE ~(m = 0 /\ n = 0)
    <3>1. <<m, n>> \in D /\ <<m, n>> # <<0, 0>>  BY <2>2
    <3>2. halves(<<m, n>>) = <<m \div 2, n \div 2>> /\ low(<<m, n>>) = table[<<m % 2, n % 2>>]
      OBVIOUS
    <3> HIDE DEF b, D, halves, low
    <3>3. QED  BY <1>8, <3>1, <3>2
  <2>3. QED  BY <2>1, <2>2
<1>12. b[<<0, 0>>] = 0
  <2>1. <<0, 0>> \in D  OBVIOUS
  <2> HIDE DEF b, D, halves, low
  <2>2. QED  BY <1>8, <2>1
<1> HIDE DEF b
<1>13. QED
  <2>1. ASSUME NEW m \in Nat, NEW n \in Nat
        PROVE  /\ BitByBit(table, m, n) \in Nat
               /\ BitByBit(table, m, n)
                    = 2 * BitByBit(table, m \div 2, n \div 2) + table[<<m % 2, n % 2>>]
    <3>1. m \div 2 \in Nat /\ n \div 2 \in Nat  OBVIOUS
    <3>2. BitByBit(table, m, n) = b[<<m, n>>]
          /\ BitByBit(table, m \div 2, n \div 2) = b[<<m \div 2, n \div 2>>]
      BY <1>7, <3>1
    <3>3. QED  BY <1>10, <1>11, <3>2
  <2>2. BitByBit(table, 0, 0) = 0  BY <1>7, <1>12
  <2>3. QED  BY <2>1, <2>2

\* A number below b and a multiple of b.
SplitBits(table, b) ==
  \A m, n \in 0 .. b - 1, u, v \in Nat :
    BitByBit(table, m + b * u, n + b * v) = BitByBit(table, m, n) + b * BitByBit(table, u, v)

\* Halves of such numbers.
LEMMA HalfOfSplit ==
  ASSUME NEW b \in Nat \ {0}, NEW m \in 0 .. (2 * b) - 1, NEW u \in Nat
  PROVE  /\ m \div 2 \in 0 .. b - 1
         /\ (m + (2 * b) * u) \div 2 = m \div 2 + b * u /\ (m + (2 * b) * u) % 2 = m % 2
<1>1. m \div 2 \in 0 .. b - 1 /\ m = 2 * (m \div 2) + (m % 2) /\ m % 2 \in 0 .. 1  OBVIOUS
<1>2. b * u \in Nat /\ (2 * b) * u = 2 * (b * u)  OBVIOUS
<1>3. \A p, q \in Nat, r \in 0 .. 1 : (2 * p + r + 2 * q) \div 2 = p + q /\ (2 * p + r + 2 * q) % 2 = r
  OBVIOUS
<1>4. m + (2 * b) * u = 2 * (m \div 2) + (m % 2) + 2 * (b * u)  BY <1>1, <1>2
<1>5. m \div 2 \in Nat  BY <1>1
<1>6. QED  BY <1>1, <1>2, <1>3, <1>4, <1>5

\* The bits from the k-th on have nothing to do with those below.
LEMMA BitsSplit ==
  ASSUME NEW table \in Tables
  PROVE  \A k \in Nat : SplitBits(table, 2 ** k)
<1> DEFINE Good == {k \in Nat : SplitBits(table, 2 ** k)}
<1>1. 0 \in Good
  <2>1. 2 ** 0 = 1  BY Powers
  <2>2. SplitBits(table, 1)
    <3>1. BitByBit(table, 0, 0) = 0 /\ \A m, n \in Nat : BitByBit(table, m, n) \in Nat  BY Bits1
    <3>2. ASSUME NEW m \in 0 .. 1 - 1, NEW n \in 0 .. 1 - 1, NEW u \in Nat, NEW v \in Nat
          PROVE  BitByBit(table, m + 1 * u, n + 1 * v)
                   = BitByBit(table, m, n) + 1 * BitByBit(table, u, v)
      <4>1. m = 0 /\ n = 0 /\ m + 1 * u = u /\ n + 1 * v = v  OBVIOUS
      <4>2. QED  BY <3>1, <4>1
    <3>3. QED  BY <3>2 DEF SplitBits
  <2>3. QED  BY <2>1, <2>2
<1>2. ASSUME NEW k \in Nat, k \in Good PROVE k + 1 \in Good
  <2> DEFINE b == 2 ** k
  <2>1. 2 ** (k + 1) = 2 * b /\ b \in Nat \ {0}
    <3>1. 2 ** (k + 1) = 2 * (2 ** k)  BY Powers
    <3>2. QED  BY <3>1, PositivePower
  <2>2. SplitBits(table, b)  BY <1>2
  <2> HIDE DEF b
  <2>3. ASSUME NEW m \in 0 .. (2 * b) - 1, NEW n \in 0 .. (2 * b) - 1, NEW u \in Nat, NEW v \in Nat
        PROVE  BitByBit(table, m + (2 * b) * u, n + (2 * b) * v)
                 = BitByBit(table, m, n) + (2 * b) * BitByBit(table, u, v)
    <3> DEFINE p == m + (2 * b) * u
               q == n + (2 * b) * v
    <3>1. m \div 2 \in 0 .. b - 1 /\ p \div 2 = m \div 2 + b * u /\ p % 2 = m % 2
      BY <2>1, HalfOfSplit
    <3>2. n \div 2 \in 0 .. b - 1 /\ q \div 2 = n \div 2 + b * v /\ q % 2 = n % 2
      BY <2>1, HalfOfSplit
    <3>3. p \in Nat /\ q \in Nat /\ m \in Nat /\ n \in Nat
      <4>1. (2 * b) * u \in Nat /\ (2 * b) * v \in Nat  BY <2>1
      <4>2. QED  BY <4>1
    <3> HIDE DEF p, q
    <3>4. BitByBit(table, p, q) = 2 * BitByBit(table, p \div 2, q \div 2) + table[<<p % 2, q % 2>>]
      BY <3>3, Bits1
    <3>5. BitByBit(table, m, n) = 2 * BitByBit(table, m \div 2, n \div 2) + table[<<m % 2, n % 2>>]
      BY <3>3, Bits1
    <3>6. BitByBit(table, m \div 2 + b * u, n \div 2 + b * v)
            = BitByBit(table, m \div 2, n \div 2) + b * BitByBit(table, u, v)
      BY <2>2, <3>1, <3>2 DEF SplitBits
    <3>7. /\ BitByBit(table, m \div 2, n \div 2) \in Int /\ BitByBit(table, u, v) \in Int
          /\ table[<<m % 2, n % 2>>] \in Int
      <4>1. m \div 2 \in Nat /\ n \div 2 \in Nat  BY <3>1, <3>2
      <4>2. m % 2 \in Bit /\ n % 2 \in Bit  BY <3>3 DEF Bit
      <4>3. table[<<m % 2, n % 2>>] \in Bit  BY <4>2 DEF Tables
      <4>4. table[<<m % 2, n % 2>>] \in Int  BY <4>3 DEF Bit
      <4>5. BitByBit(table, m \div 2, n \div 2) \in Nat /\ BitByBit(table, u, v) \in Nat  BY <4>1, Bits1
      <4>6. QED  BY <4>4, <4>5
    <3>8. \A s, t, z \in Int : 2 * (s + b * t) + z = (2 * s + z) + (2 * b) * t  BY <2>1
    <3>9. BitByBit(table, p, q) = 2 * (BitByBit(table, m \div 2, n \div 2) + b * BitByBit(table, u, v))
                                  + table[<<m % 2, n % 2>>]
      BY <3>1, <3>2, <3>4, <3>6
    <3>10. BitByBit(table, p, q) = BitByBit(table, m, n) + (2 * b) * BitByBit(table, u, v)
      <4>1. 2 * (BitByBit(table, m \div 2, n \div 2) + b * BitByBit(table, u, v)) + table[<<m % 2, n % 2>>]
              = (2 * BitByBit(table, m \div 2, n \div 2) + table[<<m % 2, n % 2>>])
                + (2 * b) * BitByBit(table, u, v)
        BY <3>7, <3>8
      <4>2. QED  BY <3>5, <3>9, <4>1
    <3>11. QED  BY <3>10 DEF p, q
  <2>4. SplitBits(table, 2 * b)  BY <2>3 DEF SplitBits
  <2>5. QED  BY <2>1, <2>4
<1>3. Nat \subseteq Good
  <2> HIDE DEF Good
  <2>1. QED  BY <1>1, <1>2, NatIsInductive
<1>4. QED  BY <1>3

\* There are no more bits than there were.
LEMMA BitsBounded ==
  ASSUME NEW table \in Tables
  PROVE  \A k \in Nat : \A m, n \in 0 .. (2 ** k) - 1 : BitByBit(table, m, n) \in 0 .. (2 ** k) - 1
<1> DEFINE Good == {k \in Nat : \A m, n \in 0 .. (2 ** k) - 1 :
                                  BitByBit(table, m, n) \in 0 .. (2 ** k) - 1}
<1>1. 0 \in Good
  <2>1. 2 ** 0 = 1 /\ BitByBit(table, 0, 0) = 0  BY Powers, Bits1
  <2>2. QED  BY <2>1
<1>2. ASSUME NEW k \in Nat, k \in Good PROVE k + 1 \in Good
  <2> DEFINE b == 2 ** k
  <2>1. 2 ** (k + 1) = 2 * b /\ b \in Nat \ {0}
    <3>1. 2 ** (k + 1) = 2 * (2 ** k)  BY Powers
    <3>2. QED  BY <3>1, PositivePower
  <2>2. \A m, n \in 0 .. b - 1 : BitByBit(table, m, n) \in 0 .. b - 1  BY <1>2
  <2> HIDE DEF b
  <2>3. ASSUME NEW m \in 0 .. (2 * b) - 1, NEW n \in 0 .. (2 * b) - 1
        PROVE  BitByBit(table, m, n) \in 0 .. (2 * b) - 1
    <3>1. m \div 2 \in 0 .. b - 1 /\ n \div 2 \in 0 .. b - 1 /\ m \in Nat /\ n \in Nat  BY <2>1
    <3>2. BitByBit(table, m, n) = 2 * BitByBit(table, m \div 2, n \div 2) + table[<<m % 2, n % 2>>]
      BY <3>1, Bits1
    <3>3. m % 2 \in Bit /\ n % 2 \in Bit  BY <3>1 DEF Bit
    <3>4. table[<<m % 2, n % 2>>] \in 0 .. 1  BY <3>3 DEF Tables, Bit
    <3>5. BitByBit(table, m \div 2, n \div 2) \in 0 .. b - 1  BY <2>2, <3>1
    <3>6. QED  BY <2>1, <3>2, <3>4, <3>5
  <2>4. QED  BY <2>1, <2>3
<1>3. Nat \subseteq Good
  <2> HIDE DEF Good
  <2>1. QED  BY <1>1, <1>2, NatIsInductive
<1>4. QED  BY <1>3

\* Bits are taken together digit by digit.
LEMMA BitsOfDigits ==
  ASSUME NEW table \in Tables, NEW w \in Nat, NEW b, b = 2 ** w, NEW k \in Nat, NEW d, NEW e, NEW z,
         DigitsOf(b, d, k), DigitsOf(b, e, k), \A i \in 1 .. k : z[i] = BitByBit(table, d[i], e[i])
  PROVE  /\ DigitsOf(b, z, k)
         /\ \A j \in 0 .. k : ValueOf(b, z, j) = BitByBit(table, ValueOf(b, d, j), ValueOf(b, e, j))
<1> DEFINE Good == {j \in 0 .. k :
                      ValueOf(b, z, j) = BitByBit(table, ValueOf(b, d, j), ValueOf(b, e, j))}
<1>0. b \in Nat \ {0}  BY PositivePower
<1>1. DigitsOf(b, z, k)
  <2>1. ASSUME NEW i \in 1 .. k PROVE z[i] \in 0 .. b - 1
    <3>1. d[i] \in 0 .. (2 ** w) - 1 /\ e[i] \in 0 .. (2 ** w) - 1  BY DEF DigitsOf
    <3>2. BitByBit(table, d[i], e[i]) \in 0 .. (2 ** w) - 1  BY <3>1, BitsBounded
    <3>3. QED  BY <3>2
  <2>2. QED  BY <2>1 DEF DigitsOf
<1>2. Ints(d, k) /\ Ints(e, k) /\ Ints(z, k) /\ b \in Int  BY <1>0, <1>1 DEF Ints, DigitsOf
<1>3. 0 \in Good
  <2>1. ValueOf(b, d, 0) = 0 /\ ValueOf(b, e, 0) = 0 /\ ValueOf(b, z, 0) = 0  BY <1>2, Values
  <2>2. BitByBit(table, 0, 0) = 0  BY Bits1
  <2>3. QED  BY <2>1, <2>2
<1>4. ASSUME NEW j \in 1 .. k, j - 1 \in Good PROVE j \in Good
  <2> DEFINE p == b ** (j - 1)
  <2>0. j - 1 \in 0 .. k /\ j - 1 \in Nat /\ w * (j - 1) \in Nat /\ j \in 0 .. k  OBVIOUS
  <2>1. p = 2 ** (w * (j - 1)) /\ p \in Nat \ {0}
    <3>1. (2 ** w) ** (j - 1) = 2 ** (w * (j - 1))  BY <2>0, PowerOfPower
    <3>2. QED  BY <1>0, <2>0, <3>1, PositivePower
  <2>2. SplitBits(table, p)  BY <2>0, <2>1, BitsSplit
  <2>3. /\ ValueOf(b, d, j) = ValueOf(b, d, j - 1) + d[j] * p
        /\ ValueOf(b, e, j) = ValueOf(b, e, j - 1) + e[j] * p
        /\ ValueOf(b, z, j) = ValueOf(b, z, j - 1) + z[j] * p
    BY <1>2, Values
  <2>4. ValueOf(b, d, j - 1) \in 0 .. p - 1 /\ ValueOf(b, e, j - 1) \in 0 .. p - 1
    BY <1>0, <2>0, ValueIsBounded
  <2> HIDE DEF p
  <2>5. d[j] \in Nat /\ e[j] \in Nat /\ z[j] \in Nat /\ z[j] = BitByBit(table, d[j], e[j])
    BY <1>0, <1>1 DEF DigitsOf
  <2>6. d[j] * p = p * d[j] /\ e[j] * p = p * e[j] /\ z[j] * p = p * z[j]  BY <2>1, <2>5
  <2>7. BitByBit(table, ValueOf(b, d, j - 1) + p * d[j], ValueOf(b, e, j - 1) + p * e[j])
          = BitByBit(table, ValueOf(b, d, j - 1), ValueOf(b, e, j - 1)) + p * z[j]
    BY <2>2, <2>4, <2>5 DEF SplitBits
  <2>8. ValueOf(b, z, j - 1) = BitByBit(table, ValueOf(b, d, j - 1), ValueOf(b, e, j - 1))  BY <1>4
  <2>9. ValueOf(b, z, j) = BitByBit(table, ValueOf(b, d, j), ValueOf(b, e, j))
    BY <2>3, <2>6, <2>7, <2>8
  <2>10. QED  BY <2>0, <2>9
<1>5. 0 .. k \subseteq Good
  <2> HIDE DEF Good
  <2>1. QED  BY <1>3, <1>4, UpTo
<1>6. QED  BY <1>1, <1>5

\* No bits of a number and all bits of it.
LEMMA NeutralBits ==
  \A n \in Nat : /\ (n & 0) = 0 /\ (0 & n) = 0
                 /\ (n | 0) = n /\ (0 | n) = n
                 /\ (n ^^ 0) = n /\ (0 ^^ n) = n
<1> DEFINE Is(n) == /\ BitByBit(AND, n, 0) = 0 /\ BitByBit(AND, 0, n) = 0
                    /\ BitByBit(OR, n, 0) = n /\ BitByBit(OR, 0, n) = n
                    /\ BitByBit(XOR, n, 0) = n /\ BitByBit(XOR, 0, n) = n
           Good == {n \in Nat : Is(n)}
           size == [n \in Nat |-> n]
<1>1. ASSUME NEW n \in Nat, \A m \in Nat : size[m] < size[n] => m \in Good PROVE n \in Good
  <2>1. CASE n = 0  BY <2>1, TheTables, Bits1
  <2>2. CASE n # 0
    <3>1. n \div 2 \in Nat /\ n \div 2 < n /\ n = 2 * (n \div 2) + (n % 2) /\ 0 \div 2 = 0 /\ 0 % 2 = 0
          /\ n % 2 \in Bit
      BY <2>2 DEF Bit
    <3>2. Is(n \div 2)  BY <1>1, <3>1
    <3>3. \A u \in Bit : /\ AND[<<u, 0>>] = 0 /\ AND[<<0, u>>] = 0
                         /\ OR[<<u, 0>>] = u /\ OR[<<0, u>>] = u
                         /\ XOR[<<u, 0>>] = u /\ XOR[<<0, u>>] = u
      BY DEF AND, OR, XOR, Bit
    <3>4. ASSUME NEW t \in Tables
          PROVE  /\ BitByBit(t, n, 0) = 2 * BitByBit(t, n \div 2, 0) + t[<<n % 2, 0>>]
                 /\ BitByBit(t, 0, n) = 2 * BitByBit(t, 0, n \div 2) + t[<<0, n % 2>>]
      <4>1. 0 \in Nat  OBVIOUS
      <4>2. BitByBit(t, n, 0) = 2 * BitByBit(t, n \div 2, 0 \div 2) + t[<<n % 2, 0 % 2>>]
        BY <4>1, Bits1
      <4>3. BitByBit(t, 0, n) = 2 * BitByBit(t, 0 \div 2, n \div 2) + t[<<0 % 2, n % 2>>]
        BY <4>1, Bits1
      <4>4. QED  BY <3>1, <4>2, <4>3
    <3>5. BitByBit(AND, n, 0) = 0 /\ BitByBit(AND, 0, n) = 0
      BY <3>1, <3>2, <3>3, <3>4, TheTables
    <3>6. BitByBit(OR, n, 0) = n /\ BitByBit(OR, 0, n) = n
      BY <3>1, <3>2, <3>3, <3>4, TheTables
    <3>7. BitByBit(XOR, n, 0) = n /\ BitByBit(XOR, 0, n) = n
      BY <3>1, <3>2, <3>3, <3>4, TheTables
    <3>8. QED  BY <3>5, <3>6, <3>7
  <2>3. QED  BY <2>1, <2>2
<1>2. size \in [Nat -> Nat]  OBVIOUS
<1>3. Nat \subseteq Good
  <2> HIDE DEF Good, size
  <2>1. QED  BY <1>1, <1>2, Induction
<1>4. \A n \in Nat : Is(n)  BY <1>3
<1>5. QED  BY <1>4 DEF &, |, ^^

\* A bit of either number is one of both.
LEMMA OrIsLarge == \A m, n \in Nat : (m | n) = 0 => m = 0 /\ n = 0
<1> DEFINE D == Nat \X Nat
           size == [p \in D |-> p[1] + p[2]]
           Good == {p \in D : BitByBit(OR, p[1], p[2]) = 0 => p[1] = 0 /\ p[2] = 0}
<1>1. ASSUME NEW p \in D, \A q \in D : size[q] < size[p] => q \in Good PROVE p \in Good
  <2>1. PICK m \in Nat, n \in Nat : p = <<m, n>>  OBVIOUS
  <2>2. CASE m = 0 /\ n = 0  BY <2>1, <2>2
  <2>3. CASE (m # 0 \/ n # 0) /\ BitByBit(OR, m, n) = 0
    <3>1. m \div 2 \in Nat /\ n \div 2 \in Nat /\ m \div 2 + n \div 2 < m + n
          /\ m = 2 * (m \div 2) + (m % 2) /\ n = 2 * (n \div 2) + (n % 2)
          /\ m % 2 \in Bit /\ n % 2 \in Bit
      BY <2>3 DEF Bit
    <3>2. BitByBit(OR, m, n) = 2 * BitByBit(OR, m \div 2, n \div 2) + OR[<<m % 2, n % 2>>]
          /\ BitByBit(OR, m \div 2, n \div 2) \in Nat
      BY <3>1, TheTables, Bits1
    <3>3. \A u, w \in Bit : OR[<<u, w>>] \in Nat /\ (OR[<<u, w>>] = 0 => u = 0 /\ w = 0)
      BY DEF OR, Bit
    <3>4. m % 2 = 0 /\ n % 2 = 0 /\ BitByBit(OR, m \div 2, n \div 2) = 0
      <4>1. OR[<<m % 2, n % 2>>] \in Nat  BY <3>1, <3>3
      <4>2. OR[<<m % 2, n % 2>>] = 0 /\ BitByBit(OR, m \div 2, n \div 2) = 0
        BY <2>3, <3>2, <4>1
      <4>3. QED  BY <3>1, <3>3, <4>2
    <3>5. <<m \div 2, n \div 2>> \in Good
      <4>1. <<m \div 2, n \div 2>> \in D /\ size[<<m \div 2, n \div 2>>] = m \div 2 + n \div 2
            /\ size[p] = m + n
        BY <2>1, <3>1
      <4> HIDE DEF size, Good, D
      <4>2. QED  BY <1>1, <3>1, <4>1
    <3>6. m \div 2 = 0 /\ n \div 2 = 0  BY <3>4, <3>5
    <3>7. QED  BY <2>3, <3>1, <3>4, <3>6
  <2>4. CASE BitByBit(OR, m, n) # 0  BY <2>1, <2>4
  <2>5. QED  BY <2>2, <2>3, <2>4
<1>2. size \in [D -> Nat]  OBVIOUS
<1>3. D \subseteq Good
  <2> HIDE DEF Good, size, D
  <2>1. QED  BY <1>1, <1>2, Induction
<1>4. ASSUME NEW m \in Nat, NEW n \in Nat, BitByBit(OR, m, n) = 0 PROVE m = 0 /\ n = 0
  <2>1. <<m, n>> \in Good  BY <1>3
  <2>2. QED  BY <1>4, <2>1
<1>5. QED  BY <1>4 DEF |


-----------------------------------------------------------------------------
(***************************************************************************)
(* Part 6. Octets and memories.                                            *)
(***************************************************************************)
\* An octet has two values at least.
LEMMA BaseIs == Base \in Nat \ {0, 1} /\ Base \in Int /\ Bits \in Nat \ {0} /\ W \in Nat \ {0, 1}
<1>1. Bits \in Nat \ {0} /\ Bits - 1 \in Nat /\ W \in Nat \ {0, 1}  BY NaturalAssumption
<1>2. 2 ** ((Bits - 1) + 1) = 2 * (2 ** (Bits - 1))  BY <1>1, Powers
<1>3. 2 ** (Bits - 1) \in Nat \ {0}  BY <1>1, PositivePower
<1>4. (Bits - 1) + 1 = Bits  BY <1>1
<1>5. QED  BY <1>1, <1>2, <1>3, <1>4 DEF Base

\* Octets are digits.
LEMMA OctetIs ==
  /\ Octet = 0 .. Base - 1 /\ Octet \subseteq Nat /\ 0 \in Octet /\ 1 \in Octet
  /\ Base - 1 \in Octet
  BY BaseIs DEF Octet

\* A function on the first numbers is a sequence.
LEMMA FunctionIsSeq ==
  ASSUME NEW S, NEW n \in Nat, NEW f \in [1 .. n -> S]
  PROVE  f \in Seq(S) /\ Len(f) = n
<1>1. f \in Seq(S)  OBVIOUS
<1>2. DOMAIN f = 1 .. n  OBVIOUS
<1>3. Len(f) \in Nat /\ DOMAIN f = 1 .. Len(f)  BY <1>1, LenProperties
<1>4. QED
  <2>1. \A m \in Nat : 1 .. m = 1 .. n => m = n
    <3> SUFFICES ASSUME NEW m \in Nat, 1 .. m = 1 .. n, m # n PROVE FALSE  OBVIOUS
    <3>1. CASE m < n
      <4>1. n \in 1 .. n  BY <3>1
      <4>2. n \in 1 .. m  BY <4>1
      <4>3. QED  BY <3>1, <4>2
    <3>2. CASE m > n
      <4>1. m \in 1 .. m  BY <3>2
      <4>2. m \in 1 .. n  BY <4>1
      <4>3. QED  BY <3>2, <4>2
    <3>3. QED  BY <3>1, <3>2
  <2>2. QED  BY <1>1, <1>2, <1>3, <2>1

\* The largest of some numbers up to k.
LEMMA MaxIs ==
  ASSUME NEW k \in Nat, NEW S \in SUBSET (0 .. k), S # {}
  PROVE  Max(S) \in S /\ \A i \in S : i <= Max(S)
<1> DEFINE T == {n \in Nat : k - n \in S}
<1>1. T \in SUBSET Nat /\ T # {}
  <2>1. PICK i \in S : TRUE  OBVIOUS
  <2>2. k - i \in Nat /\ k - (k - i) = i  OBVIOUS
  <2>3. k - i \in T  BY <2>1, <2>2
  <2>4. QED  BY <2>3
<1>2. PICK n \in T : \A m \in T : n <= m
  <2> HIDE DEF T
  <2>1. QED  BY <1>1, NatHasMinimum
<1>3. k - n \in S /\ \A i \in S : k - n >= i
  <2> SUFFICES ASSUME NEW i \in S PROVE k - n >= i  BY <1>2
  <2>1. k - i \in Nat /\ k - (k - i) = i  OBVIOUS
  <2>2. k - i \in T  BY <2>1
  <2>3. n <= k - i  BY <1>2, <2>2
  <2>4. QED  BY <2>1, <2>3
<1>4. \E v \in S : \A i \in S : v >= i  BY <1>3
<1>5. Max(S) \in S /\ \A i \in S : Max(S) >= i  BY <1>4 DEF Max
<1>6. QED  BY <1>5

\* The smallest of some numbers.
LEMMA MinIs ==
  ASSUME NEW S \in SUBSET Nat, S # {}
  PROVE  Min(S) \in S /\ \A i \in S : Min(S) <= i
<1>1. \E n \in S : \A m \in S : n <= m  BY NatHasMinimum
<1>2. QED  BY <1>1 DEF Min

\* The smaller and the larger one of two numbers.
LEMMA SmallerIs ==
  ASSUME NEW i \in Nat, NEW j \in Nat
  PROVE  /\ Smaller(i, j) = IF i <= j THEN i ELSE j
         /\ Larger(i, j) = IF i <= j THEN j ELSE i
<1>1. Smaller(i, j) \in {i, j} /\ Smaller(i, j) <= i /\ Smaller(i, j) <= j
  <2>1. {i, j} \in SUBSET Nat /\ {i, j} # {}  OBVIOUS
  <2>2. QED  BY <2>1, MinIs DEF Smaller
<1>2. Larger(i, j) \in {i, j} /\ Larger(i, j) >= i /\ Larger(i, j) >= j
  <2>1. {i, j} \in SUBSET (0 .. i + j) /\ {i, j} # {} /\ i + j \in Nat  OBVIOUS
  <2>2. QED  BY <2>1, MaxIs DEF Larger
<1>3. QED  BY <1>1, <1>2

Memory == Seq(Octet)

\* Octets d written into a memory that has room for them.
LEMMA PutIs ==
  ASSUME NEW mem \in Memory, NEW d \in Memory, NEW j \in Nat \ {0}, j + Len(d) - 1 <= Len(mem)
  PROVE  /\ Put(mem, j, d) \in Memory /\ Len(Put(mem, j, d)) = Len(mem)
         /\ \A i \in 1 .. Len(mem) :
              Put(mem, j, d)[i] = IF i >= j /\ i < j + Len(d) THEN d[i - j + 1] ELSE mem[i]
<1> USE DEF Memory
<1> DEFINE a == SubSeq(mem, 1, j - 1)
           z == SubSeq(mem, j + Len(d), Len(mem))
<1>0. Len(mem) \in Nat /\ Len(d) \in Nat
      /\ (\A i \in 1 .. Len(mem) : mem[i] \in Octet) /\ \A i \in 1 .. Len(d) : d[i] \in Octet
  BY LenProperties, ElementOfSeq
<1>1. a \in Seq(Octet) /\ Len(a) = j - 1 /\ \A i \in 1 .. j - 1 : a[i] = mem[i]
  <2>1. \A i \in 1 .. j - 1 : mem[i] \in Octet  BY <1>0
  <2>2. 1 \in Int /\ j - 1 \in Int  OBVIOUS
  <2>3. a \in Seq(Octet)
        /\ Len(a) = (IF 1 <= j - 1 THEN (j - 1) - 1 + 1 ELSE 0)
        /\ \A i \in 1 .. (j - 1) - 1 + 1 : a[i] = mem[1 + i - 1]
    BY <2>1, <2>2, SubSeqProperties
  <2> HIDE DEF a
  <2>4. QED  BY <2>3
<1>2. z \in Seq(Octet) /\ Len(z) = Len(mem) - (j + Len(d)) + 1
      /\ \A i \in 1 .. Len(mem) - (j + Len(d)) + 1 : z[i] = mem[(j + Len(d)) + i - 1]
  <2>1. \A i \in j + Len(d) .. Len(mem) : mem[i] \in Octet  BY <1>0
  <2>2. j + Len(d) \in Int /\ Len(mem) \in Int  BY <1>0
  <2>3. z \in Seq(Octet)
        /\ Len(z) = (IF j + Len(d) <= Len(mem) THEN Len(mem) - (j + Len(d)) + 1 ELSE 0)
        /\ \A i \in 1 .. Len(mem) - (j + Len(d)) + 1 : z[i] = mem[(j + Len(d)) + i - 1]
    BY <2>1, <2>2, SubSeqProperties
  <2> HIDE DEF z
  <2>4. QED  BY <1>0, <2>3
<1> DEFINE ad == a \o d
           adz == ad \o z
<1>3. Put(mem, j, d) = SubSeq(adz, 1, Len(mem))  BY DEF Put
<1> HIDE DEF a, z
<1>4. ad \in Seq(Octet) /\ Len(ad) = (j - 1) + Len(d)
      /\ \A i \in 1 .. (j - 1) + Len(d) : ad[i] = IF i <= j - 1 THEN a[i] ELSE d[i - (j - 1)]
  BY <1>1, ConcatProperties
<1> HIDE DEF ad
<1>5. adz \in Seq(Octet) /\ Len(adz) = Len(mem)
      /\ \A i \in 1 .. Len(mem) : adz[i] = IF i <= (j - 1) + Len(d) THEN ad[i] ELSE z[i - ((j - 1) + Len(d))]
  <2>0. ad \in Seq(Octet) /\ z \in Seq(Octet)  BY <1>2, <1>4
  <2>1. adz \in Seq(Octet) /\ Len(adz) = Len(ad) + Len(z)
        /\ \A i \in 1 .. Len(ad) + Len(z) : adz[i] = IF i <= Len(ad) THEN ad[i] ELSE z[i - Len(ad)]
    BY <2>0, ConcatProperties
  <2> HIDE DEF adz
  <2>2. Len(ad) + Len(z) = Len(mem)  BY <1>0, <1>2, <1>4
  <2>3. QED  BY <1>4, <2>1, <2>2
<1> HIDE DEF adz
<1>6. SubSeq(adz, 1, Len(adz)) = adz  BY <1>5, SubSeqFull
<1>7. Put(mem, j, d) = adz  BY <1>3, <1>5, <1>6
<1>8. ASSUME NEW i \in 1 .. Len(mem)
      PROVE  adz[i] = IF i >= j /\ i < j + Len(d) THEN d[i - j + 1] ELSE mem[i]
  <2>1. CASE i < j
    <3>1. i \in 1 .. j - 1 /\ i \in 1 .. (j - 1) + Len(d) /\ i <= (j - 1) + Len(d)  BY <1>0, <2>1
    <3>2. adz[i] = ad[i] /\ ad[i] = a[i] /\ a[i] = mem[i]  BY <1>1, <1>4, <1>5, <3>1
    <3>3. QED  BY <2>1, <3>2
  <2>2. CASE i >= j /\ i < j + Len(d)
    <3>1. i \in 1 .. (j - 1) + Len(d) /\ i <= (j - 1) + Len(d) /\ ~(i <= j - 1)
          /\ i - (j - 1) = i - j + 1
      BY <1>0, <2>2
    <3>2. adz[i] = ad[i] /\ ad[i] = d[i - (j - 1)]  BY <1>4, <1>5, <3>1
    <3>3. QED  BY <2>2, <3>1, <3>2
  <2>3. CASE i >= j + Len(d)
    <3>1. ~(i <= (j - 1) + Len(d)) /\ i - ((j - 1) + Len(d)) \in 1 .. Len(mem) - (j + Len(d)) + 1
          /\ (j + Len(d)) + (i - ((j - 1) + Len(d))) - 1 = i
      BY <1>0, <2>3
    <3>2. adz[i] = z[i - ((j - 1) + Len(d))]  BY <1>5, <3>1
    <3>3. z[i - ((j - 1) + Len(d))] = mem[i]  BY <1>2, <3>1
    <3>4. QED  BY <1>0, <2>3, <3>2, <3>3
  <2>4. QED  BY <1>0, <2>1, <2>2, <2>3
<1>9. QED  BY <1>5, <1>7, <1>8

\* The last octets replaced.
LEMMA WriteIs ==
  ASSUME NEW mem \in Memory, NEW d \in Memory, Len(d) <= Len(mem)
  PROVE  /\ Write(mem, d) \in Memory /\ Len(Write(mem, d)) = Len(mem)
         /\ \A i \in 1 .. Len(mem) : Write(mem, d)[i] = IF i <= Len(d) THEN d[i] ELSE mem[i]
<1>0. Len(mem) \in Nat /\ Len(d) \in Nat  BY LenProperties DEF Memory
<1>1. 1 \in Nat \ {0} /\ 1 + Len(d) - 1 <= Len(mem)  BY <1>0
<1>2. /\ Put(mem, 1, d) \in Memory /\ Len(Put(mem, 1, d)) = Len(mem)
      /\ \A i \in 1 .. Len(mem) :
           Put(mem, 1, d)[i] = IF i >= 1 /\ i < 1 + Len(d) THEN d[i - 1 + 1] ELSE mem[i]
  BY <1>1, PutIs
<1>3. \A i \in 1 .. Len(mem) : (i >= 1 /\ i < 1 + Len(d) <=> i <= Len(d)) /\ i - 1 + 1 = i  BY <1>0
<1>4. QED  BY <1>2, <1>3 DEF Write

-----------------------------------------------------------------------------
(***************************************************************************)
(* Part 7. Numbers, and how they are made.                                 *)
(***************************************************************************)
IsNumber(n) ==
  /\ n \in [mem : Memory, payload : Nat]
  /\ Capacity(n) >= 1 /\ n.payload <= Capacity(n)
  /\ n.payload > 0 => n.mem[n.payload] # 0

Means(n, v) == IsNumber(n) /\ Value(n) = v

\* A memory, how much of it is the payload, and no leading zero.
LEMMA NumberIs ==
  ASSUME NEW mem \in Memory, NEW k \in 0 .. Len(mem), Len(mem) >= 1, k > 0 => mem[k] # 0
  PROVE  /\ Means(Number(mem, k), ValueOf(Base, mem, k))
         /\ Number(mem, k).mem = mem /\ Number(mem, k).payload = k
<1>1. Number(mem, k) \in [mem : Memory, payload : Nat]  BY DEF Number
<1>2. Number(mem, k).mem = mem /\ Number(mem, k).payload = k  BY DEF Number
<1>3. QED  BY <1>1, <1>2 DEF Means, IsNumber, Value, Capacity

\* The octets of a memory are digits.
LEMMA MemoryIs ==
  ASSUME NEW mem \in Memory
  PROVE  /\ Len(mem) \in Nat /\ mem \in [1 .. Len(mem) -> Octet]
         /\ \A i \in 1 .. Len(mem) : mem[i] \in Octet
         /\ \A k \in 0 .. Len(mem) : DigitsOf(Base, mem, k) /\ Ints(mem, k)
<1>1. Len(mem) \in Nat /\ mem \in [1 .. Len(mem) -> Octet]
      /\ \A i \in 1 .. Len(mem) : mem[i] \in Octet
  BY LenProperties, ElementOfSeq DEF Memory
<1>2. ASSUME NEW k \in 0 .. Len(mem), NEW i \in 1 .. k PROVE mem[i] \in Octet
  <2>1. i \in 1 .. Len(mem)  BY <1>1
  <2>2. QED  BY <1>1, <2>1
<1>3. QED  BY <1>1, <1>2, OctetIs DEF DigitsOf, Ints

\* A memory that is a function on the first numbers.
LEMMA FunctionIsMemory ==
  ASSUME NEW k \in Nat, NEW f \in [1 .. k -> Octet]
  PROVE  f \in Memory /\ Len(f) = k
  BY FunctionIsSeq DEF Memory

\* The value of a memory is that of the octets in it.
LEMMA MemoryValue ==
  ASSUME NEW mem \in Memory, NEW k \in 0 .. Len(mem)
  PROVE  /\ ValueOf(Base, mem, k) \in 0 .. (Base ** k) - 1 /\ ValueOf(Base, mem, k) \in Nat
         /\ k > 0 /\ mem[k] # 0 => ValueOf(Base, mem, k) >= Base ** (k - 1)
<1>1. DigitsOf(Base, mem, k) /\ k \in Nat /\ k \in 0 .. k /\ Base \in Nat \ {0} /\ Len(mem) \in Nat
  BY MemoryIs, BaseIs
<1>2. \A j \in 0 .. k : ValueOf(Base, mem, j) \in 0 .. (Base ** j) - 1  BY <1>1, ValueIsBounded
<1>3. ASSUME k > 0, mem[k] # 0 PROVE ValueOf(Base, mem, k) >= Base ** (k - 1)
  <2>1. k \in Nat \ {0}  BY <1>1, <1>3
  <2>2. QED  BY <1>1, <1>3, <2>1, ValueIsLarge
<1>4. QED  BY <1>1, <1>2, <1>3

\* A number is 0 if it has no octets, and at least the power of its length before.
LEMMA NumberHas ==
  ASSUME NEW n, IsNumber(n)
  PROVE  /\ n.mem \in Memory /\ Len(n.mem) \in Nat /\ Len(n.mem) >= 1 /\ Capacity(n) = Len(n.mem)
         /\ n.payload \in 0 .. Len(n.mem) /\ n.payload \in Nat
         /\ n.payload > 0 => n.mem[n.payload] # 0
         /\ \A i \in 1 .. Len(n.mem) : n.mem[i] \in Octet
         /\ DigitsOf(Base, n.mem, n.payload) /\ Ints(n.mem, n.payload)
         /\ Value(n) = ValueOf(Base, n.mem, n.payload)
         /\ Value(n) \in Nat /\ Value(n) < Base ** n.payload
         /\ n.payload > 0 => Value(n) >= Base ** (n.payload - 1) /\ Value(n) > 0
         /\ is_zero(n) <=> n.payload = 0
         /\ n.payload = 0 <=> Value(n) = 0
<1>1. /\ n.mem \in Memory /\ Len(n.mem) \in Nat /\ Len(n.mem) >= 1 /\ Capacity(n) = Len(n.mem)
      /\ n.payload \in 0 .. Len(n.mem) /\ n.payload \in Nat
      /\ n.payload > 0 => n.mem[n.payload] # 0
  <2>1. n.mem \in Memory /\ n.payload \in Nat  BY DEF IsNumber
  <2>2. Len(n.mem) \in Nat  BY <2>1, MemoryIs
  <2>3. QED  BY <2>1, <2>2 DEF IsNumber, Capacity
<1>2. /\ \A i \in 1 .. Len(n.mem) : n.mem[i] \in Octet
      /\ DigitsOf(Base, n.mem, n.payload) /\ Ints(n.mem, n.payload)
  BY <1>1, MemoryIs
<1>3. Value(n) = ValueOf(Base, n.mem, n.payload)  BY DEF Value
<1>4. /\ Value(n) \in Nat /\ Value(n) < Base ** n.payload
      /\ n.payload > 0 => Value(n) >= Base ** (n.payload - 1)
  <2>1. ValueOf(Base, n.mem, n.payload) \in 0 .. (Base ** n.payload) - 1
        /\ ValueOf(Base, n.mem, n.payload) \in Nat
    BY <1>1, MemoryValue
  <2>2. n.payload > 0 => Value(n) >= Base ** (n.payload - 1)  BY <1>1, <1>3, MemoryValue
  <2>3. Base ** n.payload \in Int  BY <1>1, BaseIs, Powers
  <2>4. QED  BY <1>3, <2>1, <2>2, <2>3
<1>5. n.payload > 0 => Value(n) > 0
  <2>1. n.payload > 0 => n.payload - 1 \in Nat  BY <1>1
  <2>2. Base \in Nat \ {0}  BY BaseIs
  <2>3. n.payload > 0 => Base ** (n.payload - 1) \in Nat \ {0}  BY <2>1, <2>2, PositivePower
  <2>4. QED  BY <1>4, <2>3
<1>6. n.payload = 0 => Value(n) = 0
  <2>1. Base ** 0 = 1  BY BaseIs, Powers
  <2>2. QED  BY <1>4, <2>1
<1>7. is_zero(n) <=> n.payload = 0  BY <1>1 DEF is_zero
<1>8. QED  BY <1>1, <1>2, <1>3, <1>4, <1>5, <1>6, <1>7

\* What is left when leading zeros are skipped.
LEMMA SkipIs ==
  ASSUME NEW mem \in Memory, NEW k \in 0 .. Len(mem), Len(mem) >= 1
  PROVE  /\ Means(skip_leading_zeros(mem, k), ValueOf(Base, mem, k))
         /\ skip_leading_zeros(mem, k).payload <= k
         /\ skip_leading_zeros(mem, k).mem = mem
<1> DEFINE S == {0} \cup {i \in 1 .. k : mem[i] # 0}
           p == Max(S)
<1>0. Len(mem) \in Nat /\ k \in Nat /\ Ints(mem, k) /\ Base \in Int  BY MemoryIs, BaseIs
<1>1. p \in S /\ \A i \in S : i <= p
  <2>1. S \in SUBSET (0 .. k) /\ S # {}  BY <1>0
  <2> HIDE DEF S
  <2>2. QED  BY <1>0, <2>1, MaxIs
<1>2. skip_leading_zeros(mem, k) = Number(mem, p)  BY DEF skip_leading_zeros
<1> HIDE DEF p
<1>3. p \in 0 .. Len(mem) /\ p <= k /\ p \in 0 .. k /\ (p > 0 => mem[p] # 0)  BY <1>0, <1>1
<1>4. Zeros(mem, p + 1, k)
  <2>1. ASSUME NEW i \in p + 1 .. k PROVE mem[i] = 0
    <3>1. i \in 1 .. k /\ ~(i <= p)  BY <1>0, <1>3
    <3>2. QED  BY <1>1, <3>1
  <2>2. QED  BY <2>1 DEF Zeros
<1>5. ValueOf(Base, mem, k) = ValueOf(Base, mem, p)  BY <1>0, <1>3, <1>4, ZerosAbove
<1>6. Means(Number(mem, p), ValueOf(Base, mem, p)) /\ Number(mem, p).mem = mem /\ Number(mem, p).payload = p
  BY <1>3, NumberIs
<1>7. QED  BY <1>2, <1>3, <1>5, <1>6

Fixnum == 0 .. Base ** W - 1

\* The octets of an unsigned long long.
LEMMA FixnumIs ==
  ASSUME NEW v \in Fixnum
  PROVE  /\ v \in Nat
         /\ FixnumSize(v) \in 0 .. W /\ FixnumOctets(v) \in Memory
         /\ Len(FixnumOctets(v)) = FixnumSize(v)
         /\ FixnumSize(v) > 0 => FixnumOctets(v)[FixnumSize(v)] # 0
         /\ ValueOf(Base, FixnumOctets(v), FixnumSize(v)) = v
         /\ \A i \in 1 .. FixnumSize(v) : FixnumOctets(v)[i] = FixnumOctet(v, i)
         /\ \A i \in 1 .. W : FixnumOctet(v, i) \in Octet
         /\ \A i \in FixnumSize(v) + 1 .. W : FixnumOctet(v, i) = 0
<1> DEFINE d == [i \in 1 .. W |-> FixnumOctet(v, i)]
           S == {0} \cup {i \in 1 .. W : FixnumOctet(v, i) # 0}
           k == Max(S)
<1>0. W \in Nat /\ Base \in Nat \ {0} /\ Base \in Int  BY BaseIs
<1>a. Base ** W \in Nat \ {0}  BY <1>0, PositivePower
<1>b. v \in Nat /\ v < Base ** W  BY <1>a DEF Fixnum
<1>1. k \in S /\ \A i \in S : i <= k
  <2>1. S \in SUBSET (0 .. W) /\ S # {}  BY <1>0
  <2> HIDE DEF S
  <2>2. QED  BY <1>0, <2>1, MaxIs
<1>2. FixnumSize(v) = k  BY DEF FixnumSize
<1> HIDE DEF k
<1>3. k \in 0 .. W /\ (k > 0 => k \in 1 .. W /\ FixnumOctet(v, k) # 0)  BY <1>0, <1>1
<1>4. \A i \in 1 .. W : d[i] = (v \div (Base ** (i - 1))) % Base  BY DEF FixnumOctet
<1>5. DigitsOf(Base, d, W) /\ \A j \in 0 .. W : v = ValueOf(Base, d, j) + (v \div (Base ** j)) * (Base ** j)
  <2> HIDE DEF d
  <2>1. QED  BY <1>0, <1>b, <1>4, DigitsOfNumber
<1>6. \A i \in 1 .. W : FixnumOctet(v, i) \in Octet  BY <1>5 DEF DigitsOf, Octet
<1>7. ValueOf(Base, d, W) = v
  <2>1. v \div (Base ** W) = 0
    <3>1. \A p \in Nat \ {0} : v < p => v \div p = 0  BY <1>b
    <3>2. QED  BY <1>a, <1>b, <3>1
  <2>2. W \in 0 .. W  BY <1>0
  <2>3. v = ValueOf(Base, d, W) + (v \div (Base ** W)) * (Base ** W)
    <3> HIDE DEF d
    <3>1. QED  BY <1>5, <2>2
  <2>4. Ints(d, W)  BY <1>5 DEF DigitsOf, Ints
  <2>5. ValueOf(Base, d, W) \in Int
    <3> HIDE DEF d
    <3>1. QED  BY <1>0, <2>2, <2>4, Values
  <2> HIDE DEF d
  <2>6. QED  BY <1>a, <2>1, <2>3, <2>5
<1>8. \A i \in k + 1 .. W : FixnumOctet(v, i) = 0
  <2> SUFFICES ASSUME NEW i \in k + 1 .. W PROVE FixnumOctet(v, i) = 0  OBVIOUS
  <2>1. i \in 1 .. W /\ ~(i <= k)  BY <1>0, <1>3
  <2>2. QED  BY <1>1, <2>1
<1>9. ValueOf(Base, d, k) = v
  <2>1. Zeros(d, k + 1, W)
    <3>1. ASSUME NEW i \in k + 1 .. W PROVE d[i] = 0
      <4>1. i \in 1 .. W  BY <1>0, <1>3
      <4>2. QED  BY <1>8, <4>1
    <3> HIDE DEF d
    <3>2. QED  BY <3>1 DEF Zeros
  <2>2. Ints(d, W)  BY <1>5 DEF DigitsOf, Ints
  <2> HIDE DEF d
  <2>3. ValueOf(Base, d, W) = ValueOf(Base, d, k)  BY <1>0, <1>3, <2>1, <2>2, ZerosAbove
  <2>4. QED  BY <1>7, <2>3
<1>10. FixnumOctets(v) = [i \in 1 .. k |-> FixnumOctet(v, i)]  BY <1>2 DEF FixnumOctets
<1>11. FixnumOctets(v) \in [1 .. k -> Octet] /\ \A i \in 1 .. k : FixnumOctets(v)[i] = FixnumOctet(v, i)
  <2>1. \A i \in 1 .. k : i \in 1 .. W  BY <1>0, <1>3
  <2>2. QED  BY <1>6, <1>10, <2>1
<1>12. k \in Nat  BY <1>3
<1>13. FixnumOctets(v) \in Memory /\ Len(FixnumOctets(v)) = k  BY <1>11, <1>12, FunctionIsMemory
<1>14. ValueOf(Base, FixnumOctets(v), k) = ValueOf(Base, d, k)
  <2>1. Same(d, FixnumOctets(v), k)
    <3>1. ASSUME NEW i \in 1 .. k PROVE d[i] = FixnumOctets(v)[i]
      <4>1. i \in 1 .. W  BY <1>0, <1>3
      <4>2. QED  BY <1>11, <4>1
    <3>2. QED  BY <3>1 DEF Same
  <2>2. Ints(d, k)
    <3>1. \A i \in 1 .. k : i \in 1 .. W  BY <1>0, <1>3
    <3>2. QED  BY <1>5, <3>1 DEF DigitsOf, Ints
  <2> HIDE DEF d
  <2>3. QED  BY <1>0, <1>12, <2>1, <2>2, SameDigits
<1>15. k > 0 => FixnumOctets(v)[k] # 0
  <2>1. k > 0 => k \in 1 .. k  BY <1>12
  <2>2. QED  BY <1>3, <1>11, <2>1
<1> HIDE DEF d
<1>16. QED  BY <1>2, <1>3, <1>6, <1>8, <1>9, <1>11, <1>13, <1>14, <1>15, <1>b

\* A number whose octets have been written into a memory.
LEMMA WrittenIs ==
  ASSUME NEW mem \in Memory, NEW d \in Memory, Len(d) <= Len(mem), Len(mem) >= 1,
         NEW k \in 0 .. Len(d), k > 0 => d[k] # 0
  PROVE  /\ Means(Number(Write(mem, d), k), ValueOf(Base, d, k))
         /\ Number(Write(mem, d), k).payload = k
         /\ Capacity(Number(Write(mem, d), k)) = Len(mem)
<1>0. Len(mem) \in Nat /\ Len(d) \in Nat /\ k \in Nat /\ Base \in Int  BY MemoryIs, BaseIs
<1> DEFINE m == Write(mem, d)
<1>1. /\ m \in Memory /\ Len(m) = Len(mem)
      /\ \A i \in 1 .. Len(mem) : m[i] = IF i <= Len(d) THEN d[i] ELSE mem[i]
  BY WriteIs
<1>2. Number(Write(mem, d), k) = Number(m, k)  OBVIOUS
<1> HIDE DEF m
<1>3. \A i \in 1 .. k : i \in 1 .. Len(mem) /\ i <= Len(d)  BY <1>0
<1>4. Same(d, m, k)  BY <1>1, <1>3 DEF Same
<1>5. Ints(d, k)  BY MemoryIs
<1>6. ValueOf(Base, d, k) = ValueOf(Base, m, k)  BY <1>0, <1>4, <1>5, SameDigits
<1>7. k \in 0 .. Len(m) /\ (k > 0 => m[k] # 0) /\ Len(m) >= 1
  <2>1. k > 0 => k \in 1 .. k  BY <1>0
  <2>2. QED  BY <1>0, <1>1, <1>4, <2>1 DEF Same
<1>8. Means(Number(m, k), ValueOf(Base, m, k)) /\ Number(m, k).mem = m /\ Number(m, k).payload = k
  BY <1>1, <1>7, NumberIs
<1>9. QED  BY <1>1, <1>2, <1>6, <1>8 DEF Capacity

\* New memory.
LEMMA MallocIs ==
  ASSUME NEW size \in Nat, NEW fill \in Octet
  PROVE  /\ malloc(size, fill) \in Memory /\ Len(malloc(size, fill)) = size
         /\ \A i \in 1 .. size : malloc(size, fill)[i] = fill
<1>1. malloc(size, fill) \in [1 .. size -> Octet]  BY DEF malloc
<1>2. \A i \in 1 .. size : malloc(size, fill)[i] = fill  BY DEF malloc
<1>3. QED  BY <1>1, <1>2, FunctionIsMemory

\* The first octets of a memory.
LEMMA PrefixIs ==
  ASSUME NEW mem \in Memory, NEW k \in 0 .. Len(mem)
  PROVE  /\ SubSeq(mem, 1, k) \in Memory /\ Len(SubSeq(mem, 1, k)) = k
         /\ \A i \in 1 .. k : SubSeq(mem, 1, k)[i] = mem[i]
         /\ ValueOf(Base, SubSeq(mem, 1, k), k) = ValueOf(Base, mem, k)
<1> DEFINE s == SubSeq(mem, 1, k)
<1>0. k \in Nat /\ Len(mem) \in Nat /\ Base \in Int  BY MemoryIs, BaseIs
<1>1. s \in Memory /\ Len(s) = k /\ \A i \in 1 .. k : s[i] = mem[i]
  <2>1. \A i \in 1 .. k : mem[i] \in Octet
    <3>1. \A i \in 1 .. k : i \in 1 .. Len(mem)  BY <1>0
    <3>2. QED  BY <3>1, MemoryIs
  <2>2. 1 \in Int /\ k \in Int  BY <1>0
  <2>3. s \in Seq(Octet) /\ Len(s) = (IF 1 <= k THEN k - 1 + 1 ELSE 0)
        /\ \A i \in 1 .. k - 1 + 1 : s[i] = mem[1 + i - 1]
    BY <2>1, <2>2, SubSeqProperties
  <2> HIDE DEF s
  <2>4. QED  BY <1>0, <2>3 DEF Memory
<1>2. Same(mem, s, k) /\ Ints(mem, k)
  <2>1. Ints(mem, k)  BY MemoryIs
  <2> HIDE DEF s
  <2>2. QED  BY <1>1, <2>1 DEF Same
<1>3. ValueOf(Base, mem, k) = ValueOf(Base, s, k)
  <2> HIDE DEF s
  <2>1. QED  BY <1>0, <1>2, SameDigits
<1>4. QED  BY <1>1, <1>3

\* replaced_by_fixnum of natural.cpp, in a memory that has room.
LEMMA ReplacedByFixnum ==
  ASSUME NEW v \in Fixnum, NEW n, n.mem \in Memory, Len(n.mem) >= 1, FixnumSize(v) <= Len(n.mem)
  PROVE  Means(replaced_by_fixnum(n, v), v)
<1> DEFINE d == FixnumOctets(v)
           k == FixnumSize(v)
<1>1. k \in 0 .. W /\ d \in Memory /\ Len(d) = k /\ (k > 0 => d[k] # 0) /\ ValueOf(Base, d, k) = v
  BY FixnumIs
<1>2. replaced_by_fixnum(n, v) = Number(Write(n.mem, d), k)  BY DEF replaced_by_fixnum
<1> HIDE DEF d, k
<1>3. k <= Len(n.mem)  BY DEF k
<1>4. k \in 0 .. Len(d) /\ Len(d) <= Len(n.mem)  BY <1>1, <1>3
<1>5. Means(Number(Write(n.mem, d), k), ValueOf(Base, d, k))  BY <1>1, <1>4, WrittenIs
<1>6. QED  BY <1>1, <1>2, <1>5

\* Natural(unsigned long long).
LEMMA FromFixnumIs ==
  ASSUME NEW v \in Fixnum, NEW f \in Octet
  PROVE  Means(FromFixnum(v, f), v)
<1>1. W \in Nat /\ W >= 1  BY BaseIs
<1>2. malloc(W, f) \in Memory /\ Len(malloc(W, f)) = W  BY <1>1, MallocIs
<1> DEFINE n == Number(malloc(W, f), 0)
<1>3. n.mem = malloc(W, f)  BY DEF Number
<1>4. FixnumSize(v) \in 0 .. W  BY FixnumIs
<1>5. FromFixnum(v, f) = replaced_by_fixnum(n, v)  BY DEF FromFixnum
<1> HIDE DEF n
<1>6. n.mem \in Memory /\ Len(n.mem) >= 1 /\ FixnumSize(v) <= Len(n.mem)  BY <1>1, <1>2, <1>3, <1>4
<1>7. QED  BY <1>5, <1>6, ReplacedByFixnum

\* A number moved into a larger memory is the same, and nothing is before it.
LEMMA RecallocIs ==
  ASSUME NEW n, IsNumber(n), NEW size \in Nat \ {0}, n.payload <= size
  PROVE  /\ Means(recalloc(n, size), Value(n)) /\ recalloc(n, size).payload = n.payload
         /\ Capacity(recalloc(n, size)) = size
         /\ \A i \in 1 .. n.payload : recalloc(n, size).mem[i] = n.mem[i]
         /\ \A i \in n.payload + 1 .. size : recalloc(n, size).mem[i] = 0
<1> DEFINE mem == malloc(size, 0)
           d == SubSeq(n.mem, 1, n.payload)
<1>0. /\ n.mem \in Memory /\ n.payload \in 0 .. Len(n.mem) /\ n.payload \in Nat
      /\ (n.payload > 0 => n.mem[n.payload] # 0) /\ Value(n) = ValueOf(Base, n.mem, n.payload)
  BY NumberHas
<1>1. mem \in Memory /\ Len(mem) = size /\ \A i \in 1 .. size : mem[i] = 0
  <2>1. size \in Nat /\ 0 \in Octet  BY OctetIs
  <2>2. QED  BY <2>1, MallocIs
<1>2. d \in Memory /\ Len(d) = n.payload /\ (\A i \in 1 .. n.payload : d[i] = n.mem[i])
      /\ ValueOf(Base, d, n.payload) = ValueOf(Base, n.mem, n.payload)
  BY <1>0, PrefixIs
<1>3. recalloc(n, size) = Number(Write(mem, d), n.payload)  BY DEF recalloc
<1> HIDE DEF mem, d
<1>4. Len(d) <= Len(mem) /\ Len(mem) >= 1 /\ n.payload \in 0 .. Len(d)
      /\ (n.payload > 0 => d[n.payload] # 0)
  <2>1. n.payload > 0 => n.payload \in 1 .. n.payload  BY <1>0
  <2>2. QED  BY <1>0, <1>1, <1>2, <2>1
<1>5. /\ Means(Number(Write(mem, d), n.payload), ValueOf(Base, d, n.payload))
      /\ Number(Write(mem, d), n.payload).payload = n.payload
      /\ Capacity(Number(Write(mem, d), n.payload)) = Len(mem)
  BY <1>1, <1>2, <1>4, WrittenIs
<1>6. \A i \in 1 .. Len(mem) : Write(mem, d)[i] = IF i <= Len(d) THEN d[i] ELSE mem[i]
  BY <1>1, <1>2, <1>4, WriteIs
<1>7. recalloc(n, size).mem = Write(mem, d)  BY <1>3 DEF Number
<1>8. \A i \in 1 .. n.payload : recalloc(n, size).mem[i] = n.mem[i]
  <2>1. \A i \in 1 .. n.payload : i \in 1 .. Len(mem) /\ i <= Len(d)  BY <1>0, <1>1, <1>2
  <2>2. QED  BY <1>2, <1>6, <1>7, <2>1
<1>9. \A i \in n.payload + 1 .. size : recalloc(n, size).mem[i] = 0
  <2>1. \A i \in n.payload + 1 .. size : i \in 1 .. size /\ i \in 1 .. Len(mem) /\ ~(i <= Len(d))
    BY <1>0, <1>1, <1>2
  <2>2. QED  BY <1>1, <1>6, <1>7, <2>1
<1>10. QED  BY <1>0, <1>1, <1>2, <1>3, <1>5, <1>8, <1>9

\* smart_prealloc keeps the number.
LEMMA SmartPreallocIs ==
  ASSUME NEW n, IsNumber(n), NEW size \in Nat
  PROVE  Means(smart_prealloc(n, size), Value(n))
<1>1. n.payload \in Nat /\ Capacity(n) \in Nat /\ Capacity(n) >= 1  BY NumberHas
<1>2. CASE size + n.payload > Capacity(n)
  <2>1. size + n.payload \in Nat \ {0} /\ n.payload <= size + n.payload  BY <1>1, <1>2
  <2>2. Means(recalloc(n, size + n.payload), Value(n))  BY <2>1, RecallocIs
  <2>3. QED  BY <1>2, <2>2 DEF smart_prealloc
<1>3. CASE ~(size + n.payload > Capacity(n))  BY <1>3 DEF smart_prealloc, Means
<1>4. QED  BY <1>2, <1>3

\* The copy constructor.
LEMMA CopyIs ==
  ASSUME NEW n, IsNumber(n), NEW f \in Octet
  PROVE  /\ Means(Copy(n, f), Value(n)) /\ Copy(n, f).payload = n.payload
         /\ \A i \in 1 .. n.payload : Copy(n, f).mem[i] = n.mem[i]
<1> DEFINE size == Larger(n.payload, W)
           mem == malloc(size, f)
           d == SubSeq(n.mem, 1, n.payload)
<1>0. /\ n.mem \in Memory /\ n.payload \in 0 .. Len(n.mem) /\ n.payload \in Nat
      /\ (n.payload > 0 => n.mem[n.payload] # 0) /\ Value(n) = ValueOf(Base, n.mem, n.payload)
  BY NumberHas
<1>1. size \in Nat /\ size >= n.payload /\ size >= 1
  <2>1. W \in Nat /\ W >= 1  BY BaseIs
  <2>2. QED  BY <1>0, <2>1, SmallerIs
<1>2. Copy(n, f) = Number(Write(mem, d), n.payload)  BY DEF Copy
<1> HIDE DEF size
<1>3. mem \in Memory /\ Len(mem) = size  BY <1>1, MallocIs
<1>4. d \in Memory /\ Len(d) = n.payload /\ (\A i \in 1 .. n.payload : d[i] = n.mem[i])
      /\ ValueOf(Base, d, n.payload) = ValueOf(Base, n.mem, n.payload)
  BY <1>0, PrefixIs
<1> HIDE DEF mem, d
<1>5. Len(d) <= Len(mem) /\ Len(mem) >= 1 /\ n.payload \in 0 .. Len(d)
      /\ (n.payload > 0 => d[n.payload] # 0)
  <2>1. n.payload > 0 => n.payload \in 1 .. n.payload  BY <1>0
  <2>2. QED  BY <1>0, <1>1, <1>3, <1>4, <2>1
<1>6. /\ Means(Number(Write(mem, d), n.payload), ValueOf(Base, d, n.payload))
      /\ Number(Write(mem, d), n.payload).payload = n.payload
  BY <1>3, <1>4, <1>5, WrittenIs
<1>7. \A i \in 1 .. Len(mem) : Write(mem, d)[i] = IF i <= Len(d) THEN d[i] ELSE mem[i]
  BY <1>3, <1>4, <1>5, WriteIs
<1>8. Copy(n, f).mem = Write(mem, d)  BY <1>2 DEF Number
<1>9. \A i \in 1 .. n.payload : i \in 1 .. Len(mem) /\ i <= Len(d)  BY <1>0, <1>1, <1>3, <1>4
<1>10. QED  BY <1>0, <1>2, <1>4, <1>6, <1>7, <1>8, <1>9

\* The copy assignment.
LEMMA AssignIs ==
  ASSUME NEW o, IsNumber(o), NEW n, IsNumber(n), NEW f \in Octet
  PROVE  Means(Assign(o, n, f), Value(n))
<1> DEFINE mem == IF n.payload > Capacity(o) THEN malloc(n.payload, f) ELSE o.mem
           d == SubSeq(n.mem, 1, n.payload)
<1>0. /\ n.mem \in Memory /\ n.payload \in 0 .. Len(n.mem) /\ n.payload \in Nat
      /\ (n.payload > 0 => n.mem[n.payload] # 0) /\ Value(n) = ValueOf(Base, n.mem, n.payload)
  BY NumberHas
<1>1. o.mem \in Memory /\ Len(o.mem) \in Nat /\ Len(o.mem) >= 1 /\ Capacity(o) = Len(o.mem)  BY NumberHas
<1>2. mem \in Memory /\ Len(mem) >= 1 /\ Len(mem) >= n.payload
  <2>1. malloc(n.payload, f) \in Memory /\ Len(malloc(n.payload, f)) = n.payload  BY <1>0, MallocIs
  <2>2. QED  BY <1>0, <1>1, <2>1
<1>3. Assign(o, n, f) = Number(Write(mem, d), n.payload)  BY DEF Assign
<1>4. d \in Memory /\ Len(d) = n.payload /\ (\A i \in 1 .. n.payload : d[i] = n.mem[i])
      /\ ValueOf(Base, d, n.payload) = ValueOf(Base, n.mem, n.payload)
  BY <1>0, PrefixIs
<1> HIDE DEF mem, d
<1>5. Len(d) <= Len(mem) /\ n.payload \in 0 .. Len(d) /\ (n.payload > 0 => d[n.payload] # 0)
  <2>1. n.payload > 0 => n.payload \in 1 .. n.payload  BY <1>0
  <2>2. QED  BY <1>0, <1>2, <1>4, <2>1
<1>6. Means(Number(Write(mem, d), n.payload), ValueOf(Base, d, n.payload))
  BY <1>2, <1>4, <1>5, WrittenIs
<1>7. QED  BY <1>0, <1>3, <1>4, <1>6

\* The constructors from texts.
LEMMA MadeAreNumbers ==
  ASSUME NEW text \in Seq(Octet), text # << >>
  PROVE  \A n \in Made(text) : IsNumber(n)
<1>0. Len(text) \in Nat \ {0} /\ \A i \in 1 .. Len(text) : text[i] \in Octet
  BY EmptySeq, LenProperties, ElementOfSeq
<1>1. IsNumber(from_memory(text))
  <2> DEFINE mem == [i \in 1 .. Len(text) |-> text[Len(text) - i + 1]]
  <2>1. mem \in [1 .. Len(text) -> Octet]
    <3>1. \A i \in 1 .. Len(text) : Len(text) - i + 1 \in 1 .. Len(text)  BY <1>0
    <3>2. QED  BY <1>0, <3>1
  <2>2. from_memory(text) = skip_leading_zeros(mem, Len(text))  BY DEF from_memory
  <2> HIDE DEF mem
  <2>3. mem \in Memory /\ Len(mem) = Len(text)  BY <1>0, <2>1, FunctionIsMemory
  <2>4. Len(text) \in 0 .. Len(mem) /\ Len(mem) >= 1  BY <1>0, <2>3
  <2>5. Means(skip_leading_zeros(mem, Len(text)), ValueOf(Base, mem, Len(text)))
    BY <2>3, <2>4, SkipIs
  <2>6. QED  BY <2>2, <2>5 DEF Means
<1>2. IsNumber(natural_from_base16(text))
  <2> DEFINE half == 2 ** (Bits \div 2)
             digit(i) == IF i < Len(text) THEN text[Len(text) - i] % half ELSE 0
             capacity == (Len(text) + 1) \div 2
             mem == [i \in 1 .. capacity |-> digit(2 * i - 1) * half + digit(2 * i - 2)]
  <2>1. half \in Nat \ {0} /\ half * half <= Base
    <3> DEFINE h == Bits \div 2
    <3>1. h \in Nat /\ h + h \in Nat /\ (h + h = Bits \/ h + h < Bits) /\ Bits \in Nat /\ half = 2 ** h
      BY BaseIs
    <3> HIDE DEF h, half
    <3>2. 2 ** (h + h) = half * half  BY <3>1, PowerOfSum
    <3>3. half \in Nat \ {0}  BY <3>1, PositivePower
    <3>4. h + h < Bits => 2 ** (h + h) < 2 ** Bits  BY <3>1, PowersGrow
    <3>5. half * half \in Int  BY <3>3
    <3>6. Base \in Int  BY BaseIs
    <3>7. QED  BY <3>1, <3>2, <3>3, <3>4, <3>5, <3>6 DEF Base
  <2> HIDE DEF half
  <2>2. ASSUME NEW i \in Nat PROVE digit(i) \in 0 .. half - 1
    <3>1. CASE i < Len(text)
      <4>1. Len(text) - i \in 1 .. Len(text)  BY <1>0, <3>1
      <4>2. text[Len(text) - i] \in Int  BY <1>0, <4>1, OctetIs
      <4>3. text[Len(text) - i] % half \in 0 .. half - 1  BY <2>1, <4>2, Division
      <4>4. QED  BY <3>1, <4>3
    <3>2. CASE ~(i < Len(text))  BY <2>1, <3>2
    <3>3. QED  BY <3>1, <3>2
  <2>3. capacity \in Nat \ {0}  BY <1>0
  <2>4. mem \in [1 .. capacity -> Octet]
    <3>1. \A u, v \in 0 .. half - 1 : u * half + v \in Octet
      <4> SUFFICES ASSUME NEW u \in 0 .. half - 1, NEW v \in 0 .. half - 1 PROVE u * half + v \in Octet
        OBVIOUS
      <4>1. u * half <= (half - 1) * half /\ u * half \in Nat  BY <2>1
      <4>2. (half - 1) * half = half * half - half /\ half * half \in Int  BY <2>1
      <4>3. Base \in Int  BY BaseIs
      <4>4. QED  BY <2>1, <4>1, <4>2, <4>3 DEF Octet
    <3>2. \A i \in 1 .. capacity : 2 * i - 1 \in Nat /\ 2 * i - 2 \in Nat  BY <2>3
    <3> HIDE DEF digit, capacity
    <3>3. QED  BY <2>2, <3>1, <3>2
  <2>5. natural_from_base16(text) = skip_leading_zeros(mem, capacity)  BY DEF natural_from_base16, half
  <2> HIDE DEF mem, capacity
  <2>6. mem \in Memory /\ Len(mem) = capacity  BY <2>3, <2>4, FunctionIsMemory
  <2>7. capacity \in 0 .. Len(mem) /\ Len(mem) >= 1  BY <2>3, <2>6
  <2>8. Means(skip_leading_zeros(mem, capacity), ValueOf(Base, mem, capacity))  BY <2>6, <2>7, SkipIs
  <2>9. QED  BY <2>5, <2>8 DEF Means
<1>3. QED  BY <1>1, <1>2 DEF Made

-----------------------------------------------------------------------------
(***************************************************************************)
(* Part 8. Addition.                                                       *)
(***************************************************************************)
\* Multiples of a number are as far from each other as it is large.
LEMMA Multiples ==
  ASSUME NEW p \in Nat \ {0}
  PROVE  \A i, j \in Int : /\ i * p \in Int
                           /\ i < j => i * p + p <= j * p
                           /\ i <= j => i * p <= j * p
<1> SUFFICES ASSUME NEW i \in Int, NEW j \in Int
             PROVE  /\ i * p \in Int
                    /\ i < j => i * p + p <= j * p
                    /\ i <= j => i * p <= j * p
  OBVIOUS
<1>1. i * p \in Int /\ j * p \in Int  OBVIOUS
<1>2. ASSUME i < j PROVE i * p + p <= j * p
  <2>1. j - i - 1 \in Nat  BY <1>2
  <2>2. (j - i - 1) * p \in Nat  BY <2>1
  <2>3. (j - i - 1) * p = j * p - i * p - p  OBVIOUS
  <2>4. QED  BY <1>1, <2>2, <2>3
<1>3. QED  BY <1>1, <1>2

\* What is carried out of a sum is its quotient, and so it is bounded.
LEMMA QuotientIs ==
  ASSUME NEW p \in Nat \ {0}, NEW n \in Nat, NEW q \in Int, NEW r \in 0 .. p - 1, n = r + q * p
  PROVE  q \in Nat /\ q = n \div p /\ \A j \in Nat : n < j * p <=> q < j
<1>1. p * q = q * p /\ p * q \in Int  OBVIOUS
<1>2. n = p * q + r  BY <1>1
<1>3. q = n \div p  BY <1>2, DivisionIsUnique
<1>4. \A j \in Int : /\ j * p \in Int
                     /\ q < j => q * p + p <= j * p
                     /\ j <= q => j * p <= q * p
  BY Multiples
<1>5. \A j \in Int : n < j * p <=> q < j
  <2> SUFFICES ASSUME NEW j \in Int PROVE n < j * p <=> q < j  OBVIOUS
  <2>1. q * p \in Int /\ j * p \in Int  BY <1>4
  <2>2. CASE q < j
    <3>1. q * p + p <= j * p  BY <1>4, <2>2
    <3>2. QED  BY <2>1, <2>2, <3>1
  <2>3. CASE ~(q < j)
    <3>1. j * p <= q * p  BY <1>4, <2>3
    <3>2. QED  BY <2>1, <2>3, <3>1
  <2>4. QED  BY <2>2, <2>3
<1>6. q \in Nat
  <2>1. ~(n < 0 * p)  OBVIOUS
  <2>2. ~(q < 0)  BY <1>5, <2>1
  <2>3. QED  BY <2>2
<1>7. \A j \in Nat : n < j * p <=> q < j  BY <1>5
<1>8. QED  BY <1>3, <1>6, <1>7, Zenon

Positive(d, k, first) == \A j \in 0 .. k : ValueOf(Base, d, j) + first \in Nat

\* The octet carried out of a sum in each place.
LEMMA CarryIs ==
  ASSUME NEW k \in Nat, NEW d, Ints(d, k), NEW first \in Int, Positive(d, k, first),
         NEW c, c = Carries(Base, d, k, first), NEW z, z = Carried(Base, d, k, c)
  PROVE  /\ z \in Memory /\ Len(z) = k
         /\ \A j \in 0 .. k :
              /\ c[j] \in Nat
              /\ ValueOf(Base, d, j) + first = ValueOf(Base, z, j) + c[j] * (Base ** j)
              /\ ValueOf(Base, z, j) \in 0 .. (Base ** j) - 1
              /\ \A m \in Nat : ValueOf(Base, d, j) + first < m * (Base ** j) <=> c[j] < m
<1>0. Base \in Nat \ {0}  BY BaseIs
<1>1. /\ z \in [1 .. k -> 0 .. Base - 1] /\ DigitsOf(Base, z, k)
      /\ \A j \in 0 .. k : ValueOf(Base, d, j) + first = ValueOf(Base, z, j) + c[j] * (Base ** j)
  BY <1>0, CarriedValue
<1>2. z \in Memory /\ Len(z) = k
  <2>1. z \in [1 .. k -> Octet]  BY <1>1 DEF Octet
  <2>2. QED  BY <2>1, FunctionIsMemory
<1>3. \A i \in 0 .. k : c[i] \in Int  BY <1>0, Carrying
<1>4. \A j \in 0 .. k : ValueOf(Base, z, j) \in 0 .. (Base ** j) - 1  BY <1>0, <1>1, ValueIsBounded
<1>5. ASSUME NEW j \in 0 .. k
      PROVE  c[j] \in Nat /\ \A m \in Nat : ValueOf(Base, d, j) + first < m * (Base ** j) <=> c[j] < m
  <2>1. Base ** j \in Nat \ {0}  BY <1>0, PositivePower
  <2>2. ValueOf(Base, d, j) + first \in Nat  BY DEF Positive
  <2>3. QED  BY <1>1, <1>3, <1>4, <2>1, <2>2, QuotientIs
<1>6. QED  BY <1>1, <1>2, <1>4, <1>5

\* A number that is large enough has an octet in the highest place.
LEMMA HighestNotZero ==
  ASSUME NEW k \in Nat \ {0}, NEW z, DigitsOf(Base, z, k), ValueOf(Base, z, k) >= Base ** (k - 1)
  PROVE  z[k] # 0
<1> SUFFICES ASSUME z[k] = 0 PROVE FALSE  OBVIOUS
<1>0. Base \in Nat \ {0} /\ k - 1 \in Nat /\ k - 1 \in 0 .. k /\ k \in 1 .. k  BY BaseIs
<1>1. Ints(z, k)  BY <1>0 DEF DigitsOf, Ints
<1>2. ValueOf(Base, z, k) = ValueOf(Base, z, k - 1) + z[k] * (Base ** (k - 1))  BY <1>0, <1>1, Values
<1>3. ValueOf(Base, z, k - 1) \in 0 .. (Base ** (k - 1)) - 1  BY <1>0, ValueIsBounded
<1>4. Base ** (k - 1) \in Nat \ {0}  BY <1>0, PositivePower
<1>5. z[k] * (Base ** (k - 1)) = 0  BY <1>4
<1>6. QED  BY <1>2, <1>3, <1>4, <1>5

\* One more octet.
LEMMA AppendIs ==
  ASSUME NEW z \in Memory, NEW o \in Octet
  PROVE  /\ Append(z, o) \in Memory /\ Len(Append(z, o)) = Len(z) + 1
         /\ Append(z, o)[Len(z) + 1] = o /\ \A i \in 1 .. Len(z) : Append(z, o)[i] = z[i]
         /\ ValueOf(Base, Append(z, o), Len(z) + 1)
              = ValueOf(Base, z, Len(z)) + o * (Base ** Len(z))
<1> DEFINE k == Len(z)
           a == Append(z, o)
<1>0. k \in Nat /\ z \in [1 .. k -> Octet] /\ Ints(z, k) /\ Base \in Int /\ k \in 0 .. k  BY MemoryIs, BaseIs
<1>1. a \in Memory /\ Len(a) = k + 1 /\ a[k + 1] = o /\ \A i \in 1 .. k : a[i] = z[i]
  BY AppendProperties DEF Memory
<1> HIDE DEF a
<1>2. Ints(a, k + 1)
  <2>1. k + 1 \in 0 .. Len(a)  BY <1>0, <1>1
  <2>2. QED  BY <1>1, <2>1, MemoryIs
<1>3. ValueOf(Base, a, k + 1) = ValueOf(Base, a, (k + 1) - 1) + a[k + 1] * (Base ** ((k + 1) - 1))
  <2>1. k + 1 \in Nat /\ k + 1 \in 1 .. k + 1  BY <1>0
  <2>2. QED  BY <1>0, <1>2, <2>1, Values
<1>4. (k + 1) - 1 = k  BY <1>0
<1>5. ValueOf(Base, z, k) = ValueOf(Base, a, k)
  <2>1. Same(z, a, k)  BY <1>1 DEF Same
  <2>2. QED  BY <1>0, <2>1, SameDigits
<1>6. QED  BY <1>1, <1>3, <1>4, <1>5 DEF a

\* Memories that are the same above octet k differ by what the octets below do.
LEMMA SameAbove ==
  ASSUME NEW a, NEW z, NEW k \in Nat, NEW m \in Nat, k <= m, Ints(a, m), Ints(z, m),
         \A i \in k + 1 .. m : a[i] = z[i]
  PROVE  /\ ValueOf(Base, a, m) - ValueOf(Base, a, k) = ValueOf(Base, z, m) - ValueOf(Base, z, k)
         /\ ValueOf(Base, a, m) \in Int /\ ValueOf(Base, a, k) \in Int
         /\ ValueOf(Base, z, m) \in Int /\ ValueOf(Base, z, k) \in Int
<1> DEFINE j == m - k
           e == [i \in 1 .. j |-> a[k + i]]
<1>0. j \in Nat /\ k + j = m /\ Base \in Int /\ k \in 0 .. m /\ m \in 0 .. m  BY BaseIs
<1>1. \A i \in 1 .. j : k + i \in k + 1 .. m  BY <1>0
<1>2. Above(e, a, k, j) /\ Above(e, z, k, j)  BY <1>1 DEF Above
<1> HIDE DEF e, j
<1>3. ValueOf(Base, a, k + j) = ValueOf(Base, a, k) + (Base ** k) * ValueOf(Base, e, j)
  BY <1>0, <1>2, SplitValue
<1>4. ValueOf(Base, z, k + j) = ValueOf(Base, z, k) + (Base ** k) * ValueOf(Base, e, j)
  BY <1>0, <1>2, SplitValue
<1>5. Base ** k \in Int  BY <1>0, Powers
<1>6. ValueOf(Base, e, j) \in Int
  <2>1. Ints(e, j)
    <3>1. \A i \in 1 .. j : k + i \in 1 .. m  BY <1>0
    <3>2. QED  BY <1>2, <3>1 DEF Above, Ints
  <2>2. j \in 0 .. j  BY <1>0
  <2>3. QED  BY <1>0, <2>1, <2>2, Values
<1>7. /\ ValueOf(Base, a, m) \in Int /\ ValueOf(Base, a, k) \in Int
      /\ ValueOf(Base, z, m) \in Int /\ ValueOf(Base, z, k) \in Int
  BY <1>0, Values
<1>8. (Base ** k) * ValueOf(Base, e, j) \in Int  BY <1>5, <1>6
<1>9. QED  BY <1>0, <1>3, <1>4, <1>7, <1>8

\* The sums of n's octets and what is in their places, carried from place to place.
LEMMA CarriedOut ==
  ASSUME NEW mem \in Memory, NEW k \in Nat \ {0}, k <= Len(mem),
         NEW d, Ints(d, k), NEW first \in Nat, \A i \in 1 .. k : d[i] \in Nat,
         NEW v, v = ValueOf(Base, d, k) + first, v >= Base ** (k - 1), v < Base ** (k + 1),
         NEW c, c = Carries(Base, d, k, first), NEW z, z = Carried(Base, d, k, c)
  PROVE  /\ c[k] \in Octet /\ \A m \in Nat : v < m * (Base ** k) <=> c[k] < m
         /\ z \in Memory /\ Len(z) = k
         /\ c[k] = 0 => Means(Number(Write(mem, z), k), v)
         /\ c[k] # 0 /\ k < Len(mem) => Means(Number(Write(mem, Append(z, c[k])), k + 1), v)
<1>0. Base \in Nat \ {0} /\ Base \in Int /\ k \in Nat /\ k \in 0 .. k /\ k - 1 \in Nat /\ Len(mem) \in Nat
  BY BaseIs, MemoryIs
<1>1. \A j \in 0 .. k : ValueOf(Base, d, j) + first \in Nat
  <2>1. ValueOf(Base, d, 0) = 0  BY <1>0, Values
  <2>2. \A j \in 1 .. k : ValueOf(Base, d, j) = ValueOf(Base, d, j - 1) + d[j] * (Base ** (j - 1))
    BY <1>0, Values
  <2> DEFINE Good == {j \in Nat : ValueOf(Base, d, j) \in Nat}
  <2>3. 0 \in Good  BY <2>1
  <2>4. ASSUME NEW j \in 1 .. k, j - 1 \in Good PROVE j \in Good
    <3>0. j - 1 \in Nat  BY <1>0
    <3>1. Base ** (j - 1) \in Nat  BY <1>0, <3>0, PositivePower
    <3>2. d[j] * (Base ** (j - 1)) \in Nat  BY <3>1
    <3>3. QED  BY <2>2, <2>4, <3>2
  <2>5. 0 .. k \subseteq Good
    <3> HIDE DEF Good
    <3>1. QED  BY <1>0, <2>3, <2>4, UpTo
  <2>6. QED  BY <2>5
<1>2. /\ z \in Memory /\ Len(z) = k
      /\ c[k] \in Nat /\ v = ValueOf(Base, z, k) + c[k] * (Base ** k)
      /\ ValueOf(Base, z, k) \in 0 .. (Base ** k) - 1
      /\ \A m \in Nat : v < m * (Base ** k) <=> c[k] < m
  <2>1. first \in Int  OBVIOUS
  <2>2. /\ z \in Memory /\ Len(z) = k
        /\ \A j \in 0 .. k :
              /\ c[j] \in Nat
              /\ ValueOf(Base, d, j) + first = ValueOf(Base, z, j) + c[j] * (Base ** j)
              /\ ValueOf(Base, z, j) \in 0 .. (Base ** j) - 1
              /\ \A m \in Nat : ValueOf(Base, d, j) + first < m * (Base ** j) <=> c[j] < m
    <3>1. Positive(d, k, first)  BY <1>1 DEF Positive
    <3>2. QED  BY <1>0, <2>1, <3>1, CarryIs
  <2>3. QED  BY <1>0, <2>2, Zenon
<1>3. c[k] \in Octet
  <2>1. Base ** (k + 1) = Base * (Base ** k)  BY <1>0, Powers
  <2>2. v < Base * (Base ** k)  BY <2>1
  <2>3. c[k] < Base  BY <1>0, <1>2, <2>2
  <2>4. QED  BY <1>0, <1>2, <2>3 DEF Octet
<1>4. Base ** k \in Nat \ {0} /\ Base ** (k - 1) \in Nat \ {0}  BY <1>0, PositivePower
<1>5. DigitsOf(Base, z, k)  BY <1>0, <1>2, MemoryIs
<1>6. ASSUME c[k] = 0 PROVE Means(Number(Write(mem, z), k), v)
  <2>1. c[k] * (Base ** k) = 0  BY <1>4, <1>6
  <2>0. ValueOf(Base, z, k) \in Nat  BY <1>2, <1>4
  <2>2. v = ValueOf(Base, z, k)  BY <1>2, <2>0, <2>1
  <2>3. z[k] # 0  BY <1>5, <2>2, HighestNotZero
  <2>4. Means(Number(Write(mem, z), k), ValueOf(Base, z, k))
    <3>1. Len(z) <= Len(mem) /\ Len(mem) >= 1 /\ k \in 0 .. Len(z)  BY <1>0, <1>2
    <3>2. QED  BY <1>2, <2>3, <3>1, WrittenIs
  <2>5. QED  BY <2>2, <2>4
<1>7. ASSUME c[k] # 0, k < Len(mem) PROVE Means(Number(Write(mem, Append(z, c[k])), k + 1), v)
  <2> DEFINE e == Append(z, c[k])
  <2>1. /\ e \in Memory /\ Len(e) = k + 1 /\ e[k + 1] = c[k]
        /\ ValueOf(Base, e, k + 1) = ValueOf(Base, z, k) + c[k] * (Base ** k)
    <3>1. /\ e \in Memory /\ Len(e) = Len(z) + 1 /\ e[Len(z) + 1] = c[k]
          /\ ValueOf(Base, e, Len(z) + 1) = ValueOf(Base, z, Len(z)) + c[k] * (Base ** Len(z))
      BY <1>2, <1>3, AppendIs
    <3> HIDE DEF e
    <3>2. QED  BY <1>2, <3>1
  <2> HIDE DEF e
  <2>2. Len(e) <= Len(mem) /\ Len(mem) >= 1 /\ k + 1 \in 0 .. Len(e) /\ e[k + 1] # 0
    BY <1>0, <1>7, <2>1
  <2>3. Means(Number(Write(mem, e), k + 1), ValueOf(Base, e, k + 1))  BY <2>1, <2>2, WrittenIs
  <2>4. QED  BY <1>2, <2>1, <2>3 DEF e
<1>8. QED  BY <1>2, <1>3, <1>6, <1>7

\* The sums of a number's octets and what is in their places, in its own memory.
LEMMA ReplacedIs ==
  ASSUME NEW n, IsNumber(n), n.payload > 0, NEW d, Ints(d, n.payload), NEW first \in Nat,
         \A i \in 1 .. n.payload : d[i] \in Nat,
         NEW v, v = ValueOf(Base, d, n.payload) + first,
         v >= Base ** (n.payload - 1), v < Base ** (n.payload + 1)
  PROVE  Means(Replaced(n, d, first), v)
<1> DEFINE k == n.payload
           c == Carries(Base, d, k, first)
           z == Carried(Base, d, k, c)
           room == IF Capacity(n) = k THEN Append(n.mem, 0) ELSE n.mem
<1>0. /\ n.mem \in Memory /\ Len(n.mem) \in Nat /\ Len(n.mem) >= 1 /\ Capacity(n) = Len(n.mem)
      /\ k \in 0 .. Len(n.mem) /\ k \in Nat \ {0} /\ 0 \in Octet
  BY NumberHas, OctetIs
<1>1. Replaced(n, d, first) = IF c[k] = 0 THEN Number(Write(n.mem, z), k)
                              ELSE Number(Write(room, Append(z, c[k])), k + 1)
  BY DEF Replaced
<1>2. room \in Memory /\ k < Len(room)
  <2>1. Append(n.mem, 0) \in Memory /\ Len(Append(n.mem, 0)) = Len(n.mem) + 1  BY <1>0, AppendIs
  <2>2. QED  BY <1>0, <2>1
<1> HIDE DEF room, c, z, k
<1>3. Ints(d, k) /\ (\A i \in 1 .. k : d[i] \in Nat) /\ v = ValueOf(Base, d, k) + first
      /\ v >= Base ** (k - 1) /\ v < Base ** (k + 1)
  BY DEF k
<1>4. c = Carries(Base, d, k, first) /\ z = Carried(Base, d, k, c)  BY DEF c, z
<1>5. k <= Len(n.mem) /\ k <= Len(room)
  <2>1. Len(room) \in Nat  BY <1>2, MemoryIs
  <2>2. QED  BY <1>0, <1>2, <2>1
<1>6. c[k] = 0 => Means(Number(Write(n.mem, z), k), v)  BY <1>0, <1>3, <1>4, <1>5, CarriedOut
<1>7. c[k] # 0 => Means(Number(Write(room, Append(z, c[k])), k + 1), v)
  BY <1>0, <1>2, <1>3, <1>4, <1>5, CarriedOut
<1>8. QED  BY <1>1, <1>6, <1>7

\* Powers of the base, one after the other.
LEMMA BasePowers ==
  ASSUME NEW k \in Nat
  PROVE  /\ Base ** k \in Nat \ {0} /\ Base ** (k + 1) = Base * (Base ** k)
         /\ Base ** (k + 1) \in Nat \ {0}
         /\ Base ** (k + 1) >= 2 * (Base ** k) /\ Base ** 0 = 1 /\ Base ** 1 = Base
         /\ \A j \in Nat : j <= k => Base ** j <= Base ** k
<1>0. Base \in Nat \ {0, 1} /\ Base \in Nat \ {0} /\ Base \in Int  BY BaseIs
<1>1. Base ** k \in Nat \ {0} /\ Base ** (k + 1) \in Nat \ {0}
  <2>1. k + 1 \in Nat  OBVIOUS
  <2>2. QED  BY <1>0, <2>1, PositivePower
<1>2. Base ** (k + 1) = Base * (Base ** k) /\ Base ** 0 = 1  BY <1>0, Powers
<1>3. Base ** 1 = Base
  <2>1. Base ** (0 + 1) = Base * (Base ** 0)  BY <1>0, Powers
  <2>2. QED  BY <1>0, <1>2, <2>1
<1>4. Base ** (k + 1) >= 2 * (Base ** k)
  <2>1. 2 * (Base ** k) <= Base * (Base ** k)  BY <1>0, <1>1, Multiples
  <2>2. QED  BY <1>2, <2>1
<1>5. ASSUME NEW j \in Nat, j <= k PROVE Base ** j <= Base ** k
  <2>1. CASE j < k
    <3>1. Base ** j < Base ** k  BY <1>0, <2>1, PowersGrow
    <3>2. Base ** j \in Int  BY <1>0, Powers
    <3>3. QED  BY <1>1, <3>1, <3>2
  <2>2. CASE j = k  BY <1>1, <2>2
  <2>3. QED  BY <1>5, <2>1, <2>2
<1>6. QED  BY <1>1, <1>2, <1>3, <1>4, <1>5

\* A number of one octet.
LEMMA OneOctet ==
  ASSUME NEW mem \in Memory, Len(mem) >= 1, NEW o \in Octet, o # 0
  PROVE  Means(Number([mem EXCEPT ![1] = o], 1), o)
<1> DEFINE m == [mem EXCEPT ![1] = o]
<1>0. Len(mem) \in Nat /\ mem \in [1 .. Len(mem) -> Octet] /\ 1 \in 1 .. Len(mem) /\ o \in Int
  BY MemoryIs, OctetIs
<1>1. m \in [1 .. Len(mem) -> Octet] /\ m[1] = o  BY <1>0
<1> HIDE DEF m
<1>2. m \in Memory /\ Len(m) = Len(mem)  BY <1>0, <1>1, FunctionIsMemory
<1>3. 1 \in 0 .. Len(m) /\ Len(m) >= 1 /\ m[1] # 0  BY <1>0, <1>1, <1>2
<1>4. Means(Number(m, 1), ValueOf(Base, m, 1))  BY <1>2, <1>3, NumberIs
<1>5. ValueOf(Base, m, 1) = o
  <2>1. Ints(m, 1) /\ Base \in Int /\ 1 \in Nat /\ 1 \in 1 .. 1  BY <1>2, <1>3, MemoryIs, BaseIs
  <2>2. ValueOf(Base, m, 0) = 0  BY <2>1, Values
  <2>3. ValueOf(Base, m, 1) = ValueOf(Base, m, 1 - 1) + m[1] * (Base ** (1 - 1))  BY <2>1, Values
  <2>4. Base ** 0 = 1 /\ 1 - 1 = 0  BY <2>1, Powers
  <2>5. QED  BY <1>0, <1>1, <2>2, <2>3, <2>4
<1>6. QED  BY <1>4, <1>5 DEF m

\* add_digit of natural.cpp.
LEMMA AddDigitIs ==
  ASSUME NEW n, IsNumber(n), NEW o \in Octet, n.payload > 0 \/ o # 0
  PROVE  Means(add_digit(n, o), Value(n) + o)
<1> DEFINE k == n.payload
<1>0. /\ n.mem \in Memory /\ Len(n.mem) \in Nat /\ Len(n.mem) >= 1 /\ k \in 0 .. Len(n.mem) /\ k \in Nat
      /\ (\A i \in 1 .. Len(n.mem) : n.mem[i] \in Octet) /\ Ints(n.mem, k)
      /\ Value(n) = ValueOf(Base, n.mem, k) /\ Value(n) \in Nat /\ Value(n) < Base ** k
      /\ (k > 0 => Value(n) >= Base ** (k - 1)) /\ (k = 0 => Value(n) = 0)
  BY NumberHas
<1>1. o \in Nat /\ o < Base /\ Base \in Int  BY BaseIs DEF Octet
<1>2. CASE k = 0
  <2>1. o # 0  BY <1>2
  <2>2. Means(Number([n.mem EXCEPT ![1] = o], 1), o)  BY <1>0, <2>1, OneOctet
  <2>3. Value(n) + o = o  BY <1>0, <1>1, <1>2
  <2>4. QED  BY <1>2, <2>2, <2>3 DEF add_digit
<1>3. CASE k # 0
  <2> DEFINE v == Value(n) + o
  <2>0. k - 1 \in Nat  BY <1>0, <1>3
  <2>1. v >= Base ** (k - 1) /\ v < Base ** (k + 1)
    <3>1. Base ** k \in Nat /\ Base ** (k + 1) >= 2 * (Base ** k) /\ Base ** (k + 1) \in Nat
      BY <1>0, BasePowers
    <3>2. Base ** 1 <= Base ** k /\ Base ** 1 = Base
      <4>1. 1 \in Nat /\ 1 <= k  BY <1>0, <1>3
      <4>2. QED  BY <1>0, <4>1, BasePowers
    <3>3. Base ** (k - 1) \in Nat  BY <2>0, BasePowers
    <3>4. QED  BY <1>0, <1>1, <1>3, <3>1, <3>2, <3>3
  <2>2. \A i \in 1 .. k : n.mem[i] \in Nat
    <3>1. \A i \in 1 .. k : i \in 1 .. Len(n.mem)  BY <1>0
    <3>2. QED  BY <1>0, <3>1, OctetIs
  <2>3. v = ValueOf(Base, n.mem, k) + o  BY <1>0
  <2> HIDE DEF v
  <2>4. Means(Replaced(n, n.mem, o), v)
    <3>1. n.payload > 0  BY <1>0, <1>3
    <3>2. QED  BY <1>0, <1>1, <2>1, <2>2, <2>3, <3>1, ReplacedIs
  <2>5. QED  BY <1>3, <2>4 DEF add_digit, v
<1>4. QED  BY <1>2, <1>3

\* A memory with nothing above the payload has the value of the number in all places.
LEMMA ZeroedValue ==
  ASSUME NEW n, IsNumber(n), \A i \in n.payload + 1 .. Capacity(n) : n.mem[i] = 0,
         NEW k \in n.payload .. Capacity(n)
  PROVE  ValueOf(Base, n.mem, k) = Value(n)
<1>0. /\ n.mem \in Memory /\ Len(n.mem) \in Nat /\ Capacity(n) = Len(n.mem) /\ n.payload \in Nat
      /\ Value(n) = ValueOf(Base, n.mem, n.payload) /\ Base \in Int
  BY NumberHas, BaseIs
<1>1. k \in Nat /\ k \in 0 .. Len(n.mem) /\ n.payload \in 0 .. k  BY <1>0
<1>2. Ints(n.mem, k)  BY <1>0, <1>1, MemoryIs
<1>3. Zeros(n.mem, n.payload + 1, k)
  <2>1. \A i \in n.payload + 1 .. k : i \in n.payload + 1 .. Capacity(n)  BY <1>0, <1>1
  <2>2. QED  BY <2>1 DEF Zeros
<1>4. QED  BY <1>0, <1>1, <1>2, <1>3, ZerosAbove

\* A number with a quotient of zero is its own remainder.
LEMMA NoQuotient ==
  ASSUME NEW b \in Nat \ {0}, NEW n \in Nat, n \div b = 0
  PROVE  n < b /\ n % b = n
<1>1. n % b \in 0 .. b - 1 /\ n = b * (n \div b) + (n % b)  BY Division
<1>2. \A q, r \in Int : q = 0 => b * q + r = r  OBVIOUS
<1>3. n \div b \in Int /\ n % b \in Int  BY <1>1, Division
<1>4. n = n % b  BY <1>1, <1>2, <1>3
<1>5. QED  BY <1>1, <1>4

\* operator+= of an unsigned long long: whatever carries, in the memory before the
\* payload as well, which must hold nothing.
LEMMA PlusFixnumIs ==
  ASSUME NEW n, IsNumber(n), NEW v \in Fixnum,
         IF v >= Base
         THEN \/ Capacity(n) <= Larger(n.payload, W)
              \/ \A i \in n.payload + 1 .. Capacity(n) : n.mem[i] = 0
         ELSE v # 0 \/ n.payload # 0
  PROVE  Means(PlusFixnum(n, v), Value(n) + v)
<1>0. /\ n.payload \in Nat /\ Capacity(n) \in Nat /\ Capacity(n) >= n.payload /\ v \in Nat
      /\ W \in Nat \ {0} /\ Base \in Nat \ {0, 1} /\ v < Base ** W
      /\ Value(n) \in Nat /\ Value(n) < Base ** n.payload
  <2>1. v \in Nat /\ W \in Nat \ {0} /\ Base \in Nat \ {0, 1}  BY FixnumIs, BaseIs
  <2>2. Base ** W \in Nat  BY <2>1, BasePowers
  <2>3. v < Base ** W  BY <2>1, <2>2 DEF Fixnum
  <2>4. /\ n.payload \in Nat /\ Capacity(n) \in Nat /\ Capacity(n) >= n.payload
        /\ Value(n) \in Nat /\ Value(n) < Base ** n.payload
    BY NumberHas
  <2>5. QED  BY <2>1, <2>3, <2>4
<1>1. CASE v < Base
  <2>1. PlusFixnum(n, v) = add_digit(n, v)  BY <1>1 DEF PlusFixnum
  <2>2. v \in Octet  BY <1>0, <1>1 DEF Octet
  <2>3. v # 0 \/ n.payload # 0  BY <1>0, <1>1
  <2>4. n.payload > 0 \/ v # 0  BY <1>0, <2>3
  <2>5. QED  BY <2>1, <2>2, <2>4, AddDigitIs
<1>2. CASE ~(v < Base)
  <2> DEFINE size == Larger(n.payload, W)
             m == IF Capacity(n) <= size THEN recalloc(n, size + 1) ELSE n
             rest == Carries(Base, m.mem, Capacity(m), v)
             S == {Capacity(m)} \cup {i \in 1 .. Capacity(m) : rest[i] = 0}
             k == Min(S)
             z == Carried(Base, m.mem, k, rest)
             last == Larger(n.payload, k)
  <2>1. PlusFixnum(n, v) = Number(Write(m.mem, z), last)  BY <1>2 DEF PlusFixnum
  <2>2. size \in Nat \ {0} /\ size >= n.payload /\ size >= W  BY <1>0, SmallerIs
  <2> HIDE DEF size
  <2>3. Capacity(n) <= size \/ \A i \in n.payload + 1 .. Capacity(n) : n.mem[i] = 0
    <3>1. v >= Base  BY <1>0, <1>2
    <3>2. QED  BY <3>1 DEF size
  <2>4. /\ IsNumber(m) /\ Value(m) = Value(n) /\ m.payload = n.payload
        /\ Capacity(m) >= size + 1 /\ \A i \in n.payload + 1 .. Capacity(m) : m.mem[i] = 0
    <3>1. CASE Capacity(n) <= size
      <4>1. size + 1 \in Nat \ {0} /\ n.payload <= size + 1  BY <1>0, <2>2
      <4>2. /\ Means(recalloc(n, size + 1), Value(n)) /\ recalloc(n, size + 1).payload = n.payload
            /\ Capacity(recalloc(n, size + 1)) = size + 1
            /\ \A i \in n.payload + 1 .. size + 1 : recalloc(n, size + 1).mem[i] = 0
        BY <4>1, RecallocIs
      <4>3. m = recalloc(n, size + 1)  BY <3>1
      <4> HIDE DEF m
      <4>4. QED  BY <4>1, <4>2, <4>3 DEF Means
    <3>2. CASE ~(Capacity(n) <= size)
      <4>1. m = n  BY <3>2
      <4> HIDE DEF m
      <4>2. QED  BY <1>0, <2>2, <2>3, <3>2, <4>1
    <3>3. QED  BY <3>1, <3>2
  <2> HIDE DEF m
  <2> DEFINE top == Capacity(m)
  <2>5. /\ m.mem \in Memory /\ top = Len(m.mem) /\ top \in Nat /\ top >= 1 /\ top >= size + 1
        /\ Ints(m.mem, top) /\ (n.payload > 0 => m.mem[n.payload] # 0) /\ n.payload <= top
        /\ \A i \in 1 .. top : m.mem[i] \in Octet
    <3>1. /\ m.mem \in Memory /\ top = Len(m.mem) /\ top \in Nat /\ top >= 1
          /\ (n.payload > 0 => m.mem[n.payload] # 0) /\ n.payload <= top
          /\ \A i \in 1 .. top : m.mem[i] \in Octet
      BY <2>4, NumberHas
    <3>2. Ints(m.mem, top)
      <4>1. top \in 0 .. top  BY <3>1
      <4>2. QED  BY <3>1, <4>1, MemoryIs
    <3>3. QED  BY <2>4, <3>1, <3>2
  <2>6. rest = Carries(Base, m.mem, top, v)  OBVIOUS
  <2> HIDE DEF rest, top
  \* The value of what is below each place.
  <2>7. \A j \in 0 .. top : ValueOf(Base, m.mem, j) \in Nat
    <3>1. \A j \in 0 .. top : j \in 0 .. Len(m.mem)  BY <2>5
    <3>2. QED  BY <2>5, <3>1, MemoryValue
  <2>8. Positive(m.mem, top, v)
    <3>1. \A j \in 0 .. top : ValueOf(Base, m.mem, j) + v \in Nat  BY <1>0, <2>7
    <3>2. QED  BY <3>1 DEF Positive
  <2> DEFINE all == Carried(Base, m.mem, top, rest)
  <2>9. /\ all \in Memory /\ Len(all) = top
        /\ \A j \in 0 .. top :
             /\ rest[j] \in Nat
             /\ ValueOf(Base, m.mem, j) + v = ValueOf(Base, all, j) + rest[j] * (Base ** j)
             /\ \A i \in Nat : ValueOf(Base, m.mem, j) + v < i * (Base ** j) <=> rest[j] < i
    <3>1. v \in Int  BY <1>0
    <3>2. all = Carried(Base, m.mem, top, rest)  OBVIOUS
    <3> HIDE DEF all
    <3>3. QED  BY <2>5, <2>6, <2>8, <3>1, <3>2, CarryIs
  <2>10. /\ rest[0] = v
         /\ \A i \in 1 .. top : rest[i] = (m.mem[i] + rest[i - 1]) \div Base
    <3>1. v \in Int /\ Base \in Nat \ {0}  BY <1>0
    <3>2. QED  BY <2>5, <2>6, <3>1, Carrying
  <2>11. rest[top] = 0
    <3>1. top \in 0 .. top /\ top \in n.payload .. Capacity(m)  BY <1>0, <2>5 DEF top
    <3>2. ValueOf(Base, m.mem, top) = Value(n)  BY <2>4, <3>1, ZeroedValue
    <3>3. Value(n) + v < 1 * (Base ** top)
      <4>1. Base ** n.payload <= Base ** size /\ Base ** W <= Base ** size
            /\ Base ** (size + 1) >= 2 * (Base ** size) /\ Base ** size \in Nat
        BY <1>0, <2>2, BasePowers
      <4>2. Base ** (size + 1) <= Base ** top /\ Base ** top \in Nat
        <5>1. size + 1 \in Nat /\ size + 1 <= top  BY <2>2, <2>5
        <5>2. QED  BY <2>5, <5>1, BasePowers
      <4>3. Base ** n.payload \in Nat /\ Base ** W \in Nat /\ Base ** (size + 1) \in Nat
        <5>1. size + 1 \in Nat  BY <2>2
        <5>2. QED  BY <1>0, <5>1, BasePowers
      <4>4. QED  BY <1>0, <4>1, <4>2, <4>3
    <3>4. rest[top] < 1  BY <2>9, <3>1, <3>2, <3>3
    <3>5. QED  BY <2>9, <3>1, <3>4
  <2>12. k \in 2 .. top /\ rest[k] = 0 /\ rest[k - 1] # 0
    <3>1. k \in S /\ \A i \in S : k <= i
      <4>1. S \in SUBSET Nat /\ S # {}  BY <2>5 DEF top
      <4> HIDE DEF S
      <4>2. QED  BY <4>1, MinIs
    <3>2. k \in 1 .. top /\ rest[k] = 0  BY <2>5, <2>11, <3>1 DEF top
    <3> HIDE DEF k
    <3>3. k # 1
      <4> SUFFICES ASSUME k = 1 PROVE FALSE  OBVIOUS
      <4>1. 1 \in 1 .. top /\ 1 - 1 = 0  BY <2>5
      <4>2. rest[1] = (m.mem[1] + v) \div Base  BY <2>10, <4>1
      <4>3. m.mem[1] \in Nat  BY <2>5, <4>1, OctetIs
      <4>4. m.mem[1] + v \in Nat /\ Base \in Nat \ {0}  BY <1>0, <4>3
      <4>5. m.mem[1] + v < Base  BY <3>2, <4>2, <4>4, NoQuotient
      <4>6. QED  BY <1>0, <1>2, <4>3, <4>5
    <3>4. rest[k - 1] # 0
      <4>1. k - 1 \in 1 .. top /\ ~(k <= k - 1)  BY <2>5, <3>2, <3>3
      <4>2. k - 1 \notin S  BY <3>1, <4>1
      <4>3. QED  BY <4>1, <4>2 DEF top
    <3>5. QED  BY <2>5, <3>2, <3>3, <3>4
  <2> HIDE DEF k, S
  <2>13. z \in Memory /\ Len(z) = k /\ (\A i \in 1 .. k : z[i] = (m.mem[i] + rest[i - 1]) % Base)
         /\ ValueOf(Base, z, k) = ValueOf(Base, m.mem, k) + v
    <3>1. \A i \in 1 .. k : i \in 1 .. top  BY <2>5, <2>12
    <3>2. \A i \in 1 .. top : all[i] = (m.mem[i] + rest[i - 1]) % Base  BY DEF Carried
    <3>3. z = [i \in 1 .. k |-> (m.mem[i] + rest[i - 1]) % Base]  BY DEF Carried
    <3>4. k \in Nat /\ k \in 0 .. top /\ k \in 0 .. Len(all)  BY <2>5, <2>9, <2>12
    <3> HIDE DEF all, z
    <3>5. \A i \in 1 .. k : z[i] = all[i]  BY <3>1, <3>2, <3>3
    <3>6. \A i \in 1 .. k : z[i] \in Octet
      <4>1. \A i \in 1 .. top : all[i] \in Octet  BY <2>9, MemoryIs
      <4>2. QED  BY <3>1, <3>5, <4>1
    <3>7. z \in [1 .. k -> Octet]  BY <3>3, <3>6
    <3>8. z \in Memory /\ Len(z) = k  BY <3>4, <3>7, FunctionIsMemory
    <3>9. ValueOf(Base, z, k) = ValueOf(Base, all, k)
      <4>1. Same(z, all, k)  BY <3>5 DEF Same
      <4>2. Ints(z, k)
        <5>1. k \in 0 .. Len(z)  BY <3>4, <3>8
        <5>2. QED  BY <3>8, <5>1, MemoryIs
      <4>3. QED  BY <1>0, <3>4, <4>1, <4>2, SameDigits
    <3>10. ValueOf(Base, m.mem, k) + v = ValueOf(Base, all, k) + 0
      <4>1. rest[k] * (Base ** k) = 0
        <5>1. Base ** k \in Int  BY <3>4, BasePowers
        <5>2. QED  BY <2>12, <5>1
      <4>2. QED  BY <2>9, <3>4, <4>1
    <3>11. ValueOf(Base, all, k) \in Int  BY <2>9, <3>4, MemoryValue
    <3>12. ValueOf(Base, z, k) = ValueOf(Base, m.mem, k) + v  BY <1>0, <2>7, <3>4, <3>9, <3>10, <3>11
    <3>13. \A i \in 1 .. k : z[i] = (m.mem[i] + rest[i - 1]) % Base  BY <3>3
    <3>14. QED  BY <3>8, <3>12, <3>13
  <2> HIDE DEF z, all
  <2> DEFINE w == Write(m.mem, z)
  <2>14. w \in Memory /\ Len(w) = top /\ \A i \in 1 .. top : w[i] = IF i <= k THEN z[i] ELSE m.mem[i]
    <3>1. Len(z) <= Len(m.mem)  BY <2>5, <2>12, <2>13
    <3>2. QED  BY <2>5, <2>13, <3>1, WriteIs
  <2> HIDE DEF w
  <2>15. last \in Nat /\ last >= n.payload /\ last >= k /\ last \in 2 .. top
         /\ (last = k \/ (last = n.payload /\ n.payload > k))
    <3>1. k \in Nat  BY <2>12
    <3>2. last = IF n.payload <= k THEN k ELSE n.payload  BY <1>0, <3>1, SmallerIs
    <3> HIDE DEF last
    <3>3. QED  BY <1>0, <2>5, <2>12, <3>2
  <2> HIDE DEF last
  <2>16. ValueOf(Base, w, last) = Value(n) + v
    <3>1. Ints(w, last) /\ Ints(m.mem, last) /\ Ints(m.mem, k) /\ Ints(z, k)
      <4>1. last \in 0 .. Len(w) /\ last \in 0 .. Len(m.mem) /\ k \in 0 .. Len(m.mem) /\ k \in 0 .. Len(z)
        BY <2>5, <2>12, <2>13, <2>14, <2>15
      <4>2. QED  BY <2>5, <2>13, <2>14, <4>1, MemoryIs
    <3>2. k \in Nat /\ k <= last  BY <2>12, <2>15
    <3>3. \A i \in k + 1 .. last : w[i] = m.mem[i]
      <4>1. \A i \in k + 1 .. last : i \in 1 .. top /\ ~(i <= k)  BY <2>5, <2>12, <2>15
      <4>2. QED  BY <2>14, <4>1
    <3>4. /\ ValueOf(Base, w, last) - ValueOf(Base, w, k)
               = ValueOf(Base, m.mem, last) - ValueOf(Base, m.mem, k)
          /\ ValueOf(Base, w, last) \in Int /\ ValueOf(Base, w, k) \in Int
          /\ ValueOf(Base, m.mem, last) \in Int /\ ValueOf(Base, m.mem, k) \in Int
      BY <2>15, <3>1, <3>2, <3>3, SameAbove
    <3>5. ValueOf(Base, z, k) = ValueOf(Base, w, k)
      <4>1. \A i \in 1 .. k : i \in 1 .. top /\ i <= k  BY <2>5, <2>12
      <4>2. Same(z, w, k)  BY <2>14, <4>1 DEF Same
      <4>3. QED  BY <1>0, <3>1, <3>2, <4>2, SameDigits
    <3>6. ValueOf(Base, m.mem, last) = Value(n)
      <4>1. last \in m.payload .. Capacity(m)  BY <1>0, <2>4, <2>15 DEF top
      <4>2. QED  BY <2>4, <4>1, ZeroedValue
    <3>7. ValueOf(Base, z, k) = ValueOf(Base, m.mem, k) + v  BY <2>13
    <3>8. QED  BY <1>0, <3>4, <3>5, <3>6, <3>7
  <2>17. w[last] # 0
    <3>1. CASE last = n.payload /\ n.payload > k
      <4>1. last \in 1 .. top /\ ~(last <= k) /\ n.payload > 0  BY <2>12, <2>15, <3>1
      <4>2. QED  BY <2>5, <2>14, <3>1, <4>1
    <3>2. CASE last = k
      <4>1. k \in 1 .. top /\ k \in 1 .. k /\ k <= k /\ k - 1 \in 0 .. top /\ k \in 0 .. top  BY <2>5, <2>12
      <4>2. w[last] = (m.mem[k] + rest[k - 1]) % Base  BY <2>13, <2>14, <3>2, <4>1
      <4>3. (m.mem[k] + rest[k - 1]) \div Base = 0  BY <2>10, <2>12, <4>1
      <4>4. m.mem[k] \in Nat /\ rest[k - 1] \in Nat \ {0}  BY <2>5, <2>9, <2>12, <4>1, OctetIs
      <4>5. Base \in Nat \ {0} /\ m.mem[k] + rest[k - 1] \in Nat \ {0}  BY <1>0, <4>4
      <4>6. (m.mem[k] + rest[k - 1]) % Base = m.mem[k] + rest[k - 1]  BY <4>3, <4>5, NoQuotient
      <4>7. QED  BY <4>2, <4>5, <4>6
    <3>3. QED  BY <2>15, <3>1, <3>2
  <2>18. Means(Number(w, last), ValueOf(Base, w, last))
    <3>1. last \in 0 .. Len(w) /\ Len(w) >= 1  BY <2>5, <2>14, <2>15
    <3>2. QED  BY <2>14, <2>17, <3>1, NumberIs
  <2>19. QED  BY <2>1, <2>16, <2>18 DEF w
<1>3. QED  BY <1>1, <1>2

\* The octets of a number, and zeros above.
Padded(n, k) == [i \in 1 .. k |-> IF i <= n.payload THEN n.mem[i] ELSE 0]

\* Zeros before the payload change nothing.
LEMMA PaddedIs ==
  ASSUME NEW n, IsNumber(n), NEW k \in Nat, n.payload <= k
  PROVE  /\ DigitsOf(Base, Padded(n, k), k) /\ Ints(Padded(n, k), k)
         /\ \A i \in 1 .. k : Padded(n, k)[i] = IF i <= n.payload THEN n.mem[i] ELSE 0
         /\ ValueOf(Base, Padded(n, k), k) = Value(n)
<1> DEFINE p == Padded(n, k)
<1>0. /\ n.payload \in Nat /\ Len(n.mem) \in Nat /\ n.payload <= Len(n.mem)
      /\ (\A i \in 1 .. Len(n.mem) : n.mem[i] \in Octet) /\ Ints(n.mem, n.payload)
      /\ Value(n) = ValueOf(Base, n.mem, n.payload) /\ Base \in Int
  BY NumberHas, BaseIs
<1>1. \A i \in 1 .. k : p[i] = IF i <= n.payload THEN n.mem[i] ELSE 0  BY DEF Padded
<1> HIDE DEF p
<1>2. ASSUME NEW i \in 1 .. k PROVE p[i] \in Octet
  <2>1. i <= n.payload => i \in 1 .. Len(n.mem)  BY <1>0
  <2>2. QED  BY <1>0, <1>1, <2>1, OctetIs
<1>3. DigitsOf(Base, p, k) /\ Ints(p, k)  BY <1>2, OctetIs DEF DigitsOf, Ints
<1>4. Zeros(p, n.payload + 1, k)
  <2>1. \A i \in n.payload + 1 .. k : i \in 1 .. k /\ ~(i <= n.payload)  BY <1>0
  <2>2. QED  BY <1>1, <2>1 DEF Zeros
<1>5. n.payload \in 0 .. k  BY <1>0
<1>6. ValueOf(Base, p, k) = ValueOf(Base, p, n.payload)  BY <1>0, <1>3, <1>4, <1>5, ZerosAbove
<1>7. Same(n.mem, p, n.payload)
  <2>1. \A i \in 1 .. n.payload : i \in 1 .. k /\ i <= n.payload  BY <1>5
  <2>2. QED  BY <1>1, <2>1 DEF Same
<1>8. ValueOf(Base, n.mem, n.payload) = ValueOf(Base, p, n.payload)  BY <1>0, <1>7, SameDigits
<1>9. QED  BY <1>0, <1>1, <1>3, <1>6, <1>8 DEF p

\* operator+= of a Natural, itself included if its memory has an octet to spare.
LEMMA PlusNaturalIs ==
  ASSUME NEW n, IsNumber(n), NEW rhs, IsNumber(rhs), NEW same \in BOOLEAN, NEW f \in Octet,
         same => rhs = n /\ (n.payload < 2 \/ Capacity(n) > n.payload)
  PROVE  Means(PlusNatural(n, rhs, same, f), Value(n) + Value(rhs))
<1> DEFINE size == Larger(n.payload, rhs.payload)
           common == Smaller(n.payload, rhs.payload)
           mem == IF Capacity(n) <= size THEN malloc(size + 1, f) ELSE n.mem
           addend == IF same THEN mem ELSE rhs.mem
           long == IF n.payload < rhs.payload THEN rhs.mem ELSE n.mem
           sum == [i \in 1 .. size |-> IF i <= common THEN n.mem[i] + addend[i] ELSE long[i]]
           c == Carries(Base, sum, size, 0)
           z == Carried(Base, sum, size, c)
<1>0. /\ n.payload \in Nat /\ Capacity(n) = Len(n.mem) /\ Len(n.mem) \in Nat /\ n.mem \in Memory
      /\ Value(n) \in Nat /\ Value(n) < Base ** n.payload
      /\ (n.payload > 0 => Value(n) >= Base ** (n.payload - 1))
  BY NumberHas
<1>1. /\ rhs.payload \in Nat /\ Value(rhs) \in Nat /\ Value(rhs) < Base ** rhs.payload
      /\ (rhs.payload > 0 => Value(rhs) >= Base ** (rhs.payload - 1) /\ rhs.mem[rhs.payload] # 0)
      /\ Value(rhs) = ValueOf(Base, rhs.mem, rhs.payload) /\ Ints(rhs.mem, rhs.payload)
      /\ rhs.payload <= Len(rhs.mem) /\ Len(rhs.mem) \in Nat
      /\ (\A i \in 1 .. Len(rhs.mem) : rhs.mem[i] \in Octet)
  BY NumberHas
<1>2. CASE rhs.payload = 0
  <2>1. Value(rhs) = 0  BY <1>2, NumberHas
  <2>2. PlusNatural(n, rhs, same, f) = n  BY <1>2 DEF PlusNatural
  <2>3. Value(n) + Value(rhs) = Value(n)  BY <1>0, <2>1
  <2>4. QED  BY <2>2, <2>3 DEF Means
<1>3. CASE rhs.payload = 1
  <2>1. 1 \in 1 .. Len(rhs.mem) /\ 1 \in Nat /\ 1 \in 1 .. 1 /\ Base \in Int  BY <1>1, <1>3, BaseIs
  <2>2. ValueOf(Base, rhs.mem, 0) = 0  BY <1>1, <1>3, <2>1, Values
  <2>3. ValueOf(Base, rhs.mem, 1) = ValueOf(Base, rhs.mem, 1 - 1) + rhs.mem[1] * (Base ** (1 - 1))
    BY <1>1, <1>3, <2>1, Values
  <2>4. Base ** 0 = 1 /\ 1 - 1 = 0  BY <2>1, Powers
  <2>5. rhs.mem[1] \in Octet /\ rhs.mem[1] \in Int /\ rhs.mem[1] # 0  BY <1>1, <1>3, <2>1, OctetIs
  <2>6. Value(rhs) = rhs.mem[1]  BY <1>1, <1>3, <2>2, <2>3, <2>4, <2>5
  <2>7. PlusNatural(n, rhs, same, f) = add_digit(n, rhs.mem[1])  BY <1>3 DEF PlusNatural
  <2>8. QED  BY <2>5, <2>6, <2>7, AddDigitIs
<1>4. CASE rhs.payload > 1
  <2>1. PlusNatural(n, rhs, same, f) = IF c[size] = 1 THEN Number(Write(mem, Append(z, 1)), size + 1)
                                       ELSE Number(Write(mem, z), size)
    BY <1>1, <1>4 DEF PlusNatural
  <2>2. size \in Nat \ {0} /\ size >= n.payload /\ size >= rhs.payload
        /\ (size = n.payload \/ size = rhs.payload)
        /\ common = IF n.payload <= rhs.payload THEN n.payload ELSE rhs.payload
    BY <1>0, <1>1, <1>4, SmallerIs
  <2>3. mem \in Memory /\ size < Len(mem)
    <3>1. size + 1 \in Nat  BY <2>2
    <3>2. malloc(size + 1, f) \in Memory /\ Len(malloc(size + 1, f)) = size + 1  BY <3>1, MallocIs
    <3>3. QED  BY <1>0, <2>2, <3>2
  <2>4. addend = rhs.mem
    <3>1. CASE same
      <4>1. rhs = n /\ Capacity(n) > n.payload  BY <1>1, <1>4, <3>1
      <4>2. size = n.payload  BY <1>0, <2>2, <4>1
      <4>3. mem = n.mem  BY <1>0, <4>1, <4>2
      <4>4. QED  BY <3>1, <4>1, <4>3
    <3>2. CASE ~same  BY <3>2
    <3>3. QED  BY <3>1, <3>2
  <2> DEFINE p == Padded(n, size)
             q == Padded(rhs, size)
  <2>5. /\ DigitsOf(Base, p, size) /\ Ints(p, size) /\ ValueOf(Base, p, size) = Value(n)
        /\ \A i \in 1 .. size : p[i] = IF i <= n.payload THEN n.mem[i] ELSE 0
    BY <2>2, PaddedIs
  <2>6. /\ DigitsOf(Base, q, size) /\ Ints(q, size) /\ ValueOf(Base, q, size) = Value(rhs)
        /\ \A i \in 1 .. size : q[i] = IF i <= rhs.payload THEN rhs.mem[i] ELSE 0
    BY <1>1, <2>2, PaddedIs
  <2>7. ASSUME NEW i \in 1 .. size PROVE sum[i] = p[i] + q[i] /\ sum[i] \in Nat
    <3>1. p[i] \in Nat /\ q[i] \in Nat  BY <2>5, <2>6 DEF DigitsOf
    <3>2. sum[i] = IF i <= common THEN n.mem[i] + rhs.mem[i] ELSE long[i]  BY <2>4
    <3>3. CASE i <= common
      <4>1. i <= n.payload /\ i <= rhs.payload  BY <1>0, <1>1, <2>2, <3>3
      <4>2. QED  BY <2>5, <2>6, <3>1, <3>2, <3>3, <4>1
    <3>4. CASE ~(i <= common) /\ n.payload < rhs.payload
      <4>1. ~(i <= n.payload)  BY <1>0, <1>1, <2>2, <3>4
      <4>2. p[i] = 0  BY <2>5, <4>1
      <4>3. i <= rhs.payload  BY <1>0, <1>1, <2>2, <3>4
      <4>4. q[i] = rhs.mem[i]  BY <2>6, <4>3
      <4>5. sum[i] = q[i]  BY <3>2, <3>4, <4>4
      <4>6. QED  BY <3>1, <4>2, <4>5
    <3>5. CASE ~(i <= common) /\ ~(n.payload < rhs.payload)
      <4>1. ~(i <= rhs.payload)  BY <1>0, <1>1, <2>2, <3>5
      <4>2. q[i] = 0  BY <2>6, <4>1
      <4>3. i <= n.payload  BY <1>0, <1>1, <2>2, <3>5
      <4>4. p[i] = n.mem[i]  BY <2>5, <4>3
      <4>5. sum[i] = p[i]  BY <3>2, <3>5, <4>4
      <4>6. QED  BY <3>1, <4>2, <4>5
    <3>6. QED  BY <3>3, <3>4, <3>5
  <2> HIDE DEF p, q, sum, mem, size, c, z
  <2>8. ValueOf(Base, sum, size) = Value(n) + Value(rhs)
    <3>1. \A i \in 1 .. size : sum[i] = p[i] + 1 * q[i]
      <4> SUFFICES ASSUME NEW i \in 1 .. size PROVE sum[i] = p[i] + 1 * q[i]  OBVIOUS
      <4>1. q[i] \in Int  BY <2>6 DEF Ints
      <4>2. QED  BY <2>7, <4>1
    <3>2. Combined(sum, p, 1, q, size)  BY <3>1 DEF Combined
    <3>3. size \in Nat /\ size \in 0 .. size /\ Base \in Int /\ 1 \in Int  BY <2>2, BaseIs
    <3>4. ValueOf(Base, sum, size) = ValueOf(Base, p, size) + 1 * ValueOf(Base, q, size)
      BY <2>5, <2>6, <3>2, <3>3, CombinedValue
    <3>5. QED  BY <1>1, <2>5, <2>6, <3>4
  <2> DEFINE v == Value(n) + Value(rhs)
  <2>9. v = ValueOf(Base, sum, size) + 0 /\ v >= Base ** (size - 1) /\ v < Base ** (size + 1)
        /\ v < 2 * (Base ** size)
    <3>1. Base ** n.payload <= Base ** size /\ Base ** rhs.payload <= Base ** size
          /\ Base ** size \in Nat /\ Base ** (size + 1) \in Nat /\ Base ** (size + 1) >= 2 * (Base ** size)
      BY <1>0, <1>1, <2>2, BasePowers
    <3>2. size - 1 \in Nat  BY <2>2
    <3>3. Base ** (size - 1) \in Nat /\ Base ** n.payload \in Nat /\ Base ** rhs.payload \in Nat
      BY <1>0, <1>1, <3>2, BasePowers
    <3>4. v >= Base ** (size - 1)
      <4>1. CASE size = n.payload  BY <1>0, <1>1, <2>2, <3>3, <4>1
      <4>2. CASE size = rhs.payload  BY <1>0, <1>1, <2>2, <3>3, <4>2
      <4>3. QED  BY <2>2, <4>1, <4>2
    <3>5. QED  BY <1>0, <1>1, <2>8, <3>1, <3>3, <3>4
  <2>10. c = Carries(Base, sum, size, 0) /\ z = Carried(Base, sum, size, c)  BY DEF c, z
  <2> HIDE DEF v
  <2>11. /\ c[size] \in Octet /\ (\A m \in Nat : v < m * (Base ** size) <=> c[size] < m)
         /\ (c[size] = 0 => Means(Number(Write(mem, z), size), v))
         /\ (c[size] # 0 /\ size < Len(mem) => Means(Number(Write(mem, Append(z, c[size])), size + 1), v))
    <3>1. Ints(sum, size)  BY <2>7 DEF Ints
    <3>2. size <= Len(mem) /\ 0 \in Nat
      <4>1. Len(mem) \in Nat  BY <2>3, MemoryIs
      <4>2. QED  BY <2>2, <2>3, <4>1
    <3>3. \A i \in 1 .. size : sum[i] \in Nat  BY <2>7
    <3>4. QED  BY <2>2, <2>3, <2>9, <2>10, <3>1, <3>2, <3>3, CarriedOut
  <2>12. c[size] = 0 \/ c[size] = 1
    <3>1. c[size] < 2  BY <2>9, <2>11
    <3>2. c[size] \in Nat  BY <2>11, OctetIs
    <3>3. QED  BY <3>1, <3>2
  <2>13. QED  BY <2>1, <2>3, <2>11, <2>12 DEF v
<1>5. QED  BY <1>1, <1>2, <1>3, <1>4

-----------------------------------------------------------------------------
(***************************************************************************)
(* Part 9. Subtraction.                                                    *)
(***************************************************************************)
\* decrease_from_slot of natural.cpp: one less from an octet on, if there is anything
\* in the octets from there on.
LEMMA DecreaseIs ==
  ASSUME NEW mem \in Memory, NEW k \in Nat, NEW slot \in 1 .. k, k <= Len(mem), mem[k] # 0
  PROVE  LET r == decrease_from_slot(Number(mem, k), slot) IN
         /\ r.mem \in Memory /\ Len(r.mem) = Len(mem) /\ r.payload \in 0 .. k
         /\ ValueOf(Base, r.mem, r.payload) = ValueOf(Base, mem, k) - Base ** (slot - 1)
         /\ slot = 1 /\ r.payload > 0 => r.mem[r.payload] # 0
<1> DEFINE n == Number(mem, k)
           nonzero == {i \in slot .. k : mem[i] > 0}
           t == Min(nonzero)
           d == Append(malloc(t - slot, Base - 1), mem[t] - 1)
           last == IF mem[t] = 1 /\ t = k THEN k - 1 ELSE k
<1>0. /\ Len(mem) \in Nat /\ (\A i \in 1 .. Len(mem) : mem[i] \in Octet) /\ k \in 1 .. Len(mem)
      /\ Base \in Int /\ Base \in Nat \ {0, 1} /\ slot \in Nat /\ slot >= 1 /\ slot <= k
  BY MemoryIs, BaseIs
<1>1. /\ t \in slot .. k /\ mem[t] > 0 /\ \A i \in slot .. k : mem[i] > 0 => t <= i
  <2>1. k \in nonzero
    <3>1. mem[k] \in Nat  BY <1>0, OctetIs
    <3>2. QED  BY <1>0, <3>1
  <2>2. nonzero \in SUBSET Nat /\ nonzero # {}  BY <1>0, <2>1
  <2>3. t \in nonzero /\ \A i \in nonzero : t <= i
    <3> HIDE DEF nonzero
    <3>1. QED  BY <2>2, MinIs
  <2>4. QED  BY <2>3
<1>2. decrease_from_slot(n, slot) = Number(Put(mem, slot, d), last)
  <2>1. n.mem = mem /\ n.payload = k  BY DEF Number
  <2>2. {i \in slot .. n.payload : n.mem[i] > 0} = nonzero  BY <2>1
  <2>3. nonzero # {}
    <3>1. mem[k] \in Nat /\ k \in slot .. k  BY <1>0, OctetIs
    <3>2. QED  BY <3>1
  <2>4. ~(slot > k)  BY <1>0
  <2> HIDE DEF n, nonzero
  <2>5. decrease_from_slot(n, slot)
          = Number(Put(n.mem, slot, Append(malloc(t - slot, Base - 1), n.mem[t] - 1)),
                   IF n.mem[t] = 1 /\ t = n.payload THEN n.payload - 1 ELSE n.payload)
    BY <2>1, <2>2, <2>3, <2>4 DEF decrease_from_slot
  <2>6. QED  BY <2>1, <2>5
<1> HIDE DEF t, nonzero
<1>3. /\ t \in Nat /\ t >= slot /\ t <= k /\ mem[t] \in 1 .. Base - 1 /\ t - slot \in Nat
      /\ \A i \in slot .. t - 1 : mem[i] = 0
  <2>1. t \in 1 .. Len(mem) /\ t \in Nat /\ t >= slot /\ t <= k /\ t - slot \in Nat  BY <1>0, <1>1
  <2>2. mem[t] \in 0 .. Base - 1  BY <1>0, <2>1 DEF Octet
  <2>3. ASSUME NEW i \in slot .. t - 1 PROVE mem[i] = 0
    <3>1. i \in slot .. k /\ i \in 1 .. Len(mem) /\ ~(t <= i)  BY <1>0, <2>1
    <3>2. mem[i] \in Nat  BY <1>0, <3>1, OctetIs
    <3>3. QED  BY <1>1, <3>1, <3>2
  <2>4. QED  BY <1>0, <1>1, <2>1, <2>2, <2>3
<1>4. /\ d \in Memory /\ Len(d) = t - slot + 1 /\ d[t - slot + 1] = mem[t] - 1
      /\ \A i \in 1 .. t - slot : d[i] = Base - 1
  <2>1. Base - 1 \in Octet /\ mem[t] - 1 \in Octet  BY <1>0, <1>3 DEF Octet
  <2>2. malloc(t - slot, Base - 1) \in Memory /\ Len(malloc(t - slot, Base - 1)) = t - slot
        /\ \A i \in 1 .. t - slot : malloc(t - slot, Base - 1)[i] = Base - 1
    BY <1>3, <2>1, MallocIs
  <2> DEFINE e == malloc(t - slot, Base - 1)
             o == mem[t] - 1
  <2>3. d = Append(e, o) /\ e \in Memory /\ Len(e) = t - slot /\ o \in Octet
        /\ \A i \in 1 .. t - slot : e[i] = Base - 1
    BY <2>1, <2>2
  <2> HIDE DEF e, d
  <2>4. /\ Append(e, o) \in Memory /\ Len(Append(e, o)) = Len(e) + 1
        /\ Append(e, o)[Len(e) + 1] = o /\ \A i \in 1 .. Len(e) : Append(e, o)[i] = e[i]
    <3> HIDE DEF o
    <3>1. QED  BY <2>3, AppendIs
  <2>5. QED  BY <2>3, <2>4
<1> HIDE DEF d
<1> DEFINE r == Put(mem, slot, d)
<1>5. /\ r \in Memory /\ Len(r) = Len(mem)
      /\ \A i \in 1 .. Len(mem) : r[i] = IF i >= slot /\ i <= t THEN d[i - slot + 1] ELSE mem[i]
  <2>1. slot \in Nat \ {0} /\ slot + Len(d) - 1 <= Len(mem)  BY <1>0, <1>3, <1>4
  <2>2. /\ r \in Memory /\ Len(r) = Len(mem)
        /\ \A i \in 1 .. Len(mem) : r[i] = IF i >= slot /\ i < slot + Len(d) THEN d[i - slot + 1] ELSE mem[i]
    BY <1>4, <2>1, PutIs
  <2>3. \A i \in 1 .. Len(mem) : i < slot + Len(d) <=> i <= t  BY <1>0, <1>3, <1>4
  <2>4. QED  BY <2>2, <2>3
<1> HIDE DEF r
\* The octets from the slot on, and what is taken from each.
<1> DEFINE j == slot - 1
           len == k - j
           u == [i \in 1 .. len |-> mem[j + i]]
           w == [i \in 1 .. len |-> r[j + i]]
           b == [i \in 0 .. len |-> IF j + i < t THEN -1 ELSE 0]
<1>6. j \in Nat /\ len \in Nat \ {0} /\ j + len = k /\ len \in 0 .. len /\ 0 \in 0 .. len /\ j \in 0 .. k
  BY <1>0
<1>7. \A i \in 1 .. len : j + i \in 1 .. Len(mem) /\ j + i >= slot  BY <1>0
<1>8. /\ (\A i \in 1 .. len : u[i] = mem[j + i] /\ w[i] = r[j + i])
      /\ (\A i \in 0 .. len : b[i] = IF j + i < t THEN -1 ELSE 0)
  OBVIOUS
<1>9. b[0] = -1 /\ b[len] = 0  BY <1>0, <1>3, <1>6, <1>8
<1> HIDE DEF u, w, b
<1>10. Ints(u, len) /\ Ints(w, len)
  <2>1. \A i \in 1 .. Len(mem) : r[i] \in Octet  BY <1>5, MemoryIs
  <2>2. ASSUME NEW i \in 1 .. len PROVE u[i] \in Int /\ w[i] \in Int
    <3>1. mem[j + i] \in Octet /\ r[j + i] \in Octet  BY <1>0, <1>7, <2>1
    <3>2. QED  BY <1>8, <3>1, OctetIs
  <2>3. QED  BY <2>2 DEF Ints
<1>11. HandedOn(Base, u, w, b, len)
  <2>1. ASSUME NEW i \in 1 .. len PROVE u[i] + b[i - 1] = w[i] + Base * b[i]
    <3>0. i - 1 \in 0 .. len /\ i \in 0 .. len /\ j + i \in 1 .. Len(mem)  BY <1>6, <1>7
    <3>1. u[i] = mem[j + i] /\ w[i] = r[j + i] /\ mem[j + i] \in Int  BY <1>0, <1>8, <3>0, OctetIs
    <3>2. b[i] = (IF j + i < t THEN -1 ELSE 0) /\ b[i - 1] = IF j + (i - 1) < t THEN -1 ELSE 0
      BY <1>8, <3>0
    <3>3. r[j + i] = IF j + i <= t THEN d[i] ELSE mem[j + i]
      <4>1. j + i >= slot /\ (j + i) - slot + 1 = i  BY <1>0, <1>7
      <4>2. QED  BY <1>5, <3>0, <4>1
    <3>4. CASE j + i < t
      <4>1. mem[j + i] = 0
        <5>1. j + i \in slot .. t - 1  BY <1>0, <1>3, <1>7, <3>4
        <5>2. QED  BY <1>3, <5>1
      <4>2. d[i] = Base - 1
        <5>1. i \in 1 .. t - slot  BY <1>0, <1>3, <3>4
        <5>2. QED  BY <1>4, <5>1
      <4>3. b[i] = -1 /\ b[i - 1] = -1 /\ w[i] = Base - 1 /\ u[i] = 0
        BY <1>0, <1>3, <3>1, <3>2, <3>3, <3>4, <4>1, <4>2
      <4>4. QED  BY <1>0, <4>3
    <3>5. CASE j + i = t
      <4>1. i = t - slot + 1  BY <1>0, <1>3, <3>5
      <4>2. d[i] = mem[t] - 1  BY <1>4, <4>1
      <4>3. b[i] = 0 /\ b[i - 1] = -1 /\ w[i] = mem[t] - 1 /\ u[i] = mem[t]
        BY <1>0, <1>3, <3>1, <3>2, <3>3, <3>5, <4>2
      <4>4. QED  BY <1>0, <1>3, <4>3
    <3>6. CASE j + i > t
      <4>1. b[i] = 0 /\ b[i - 1] = 0 /\ w[i] = u[i]  BY <1>0, <1>3, <3>1, <3>2, <3>3, <3>6
      <4>2. u[i] \in Int  BY <3>1
      <4>3. QED  BY <1>0, <4>1, <4>2
    <3>7. QED  BY <1>0, <1>3, <3>4, <3>5, <3>6
  <2>2. \A i \in 0 .. len : b[i] \in Int  BY <1>8
  <2>3. QED  BY <2>1, <2>2 DEF HandedOn
<1>12. ValueOf(Base, u, len) - 1 = ValueOf(Base, w, len)
  <2>1. ValueOf(Base, u, len) + b[0] = ValueOf(Base, w, len) + b[len] * (Base ** len)
    BY <1>0, <1>6, <1>10, <1>11, Telescope
  <2>2. ValueOf(Base, u, len) \in Int /\ ValueOf(Base, w, len) \in Int  BY <1>0, <1>6, <1>10, Values
  <2>3. Base ** len \in Int  BY <1>6, BasePowers
  <2>4. b[len] * (Base ** len) = 0  BY <1>9, <2>3
  <2>5. QED  BY <1>9, <2>1, <2>2, <2>4
<1>13. ValueOf(Base, r, k) = ValueOf(Base, mem, k) - Base ** j
  <2>1. Above(u, mem, j, len) /\ Above(w, r, j, len)  BY <1>8 DEF Above
  <2>2. Ints(mem, j + len) /\ Ints(r, j + len)
    <3>1. j + len \in 0 .. Len(mem) /\ j + len \in 0 .. Len(r)  BY <1>0, <1>5, <1>6
    <3>2. QED  BY <1>5, <3>1, MemoryIs
  <2>3. ValueOf(Base, mem, j + len) = ValueOf(Base, mem, j) + (Base ** j) * ValueOf(Base, u, len)
    BY <1>0, <1>6, <2>1, <2>2, SplitValue
  <2>4. ValueOf(Base, r, j + len) = ValueOf(Base, r, j) + (Base ** j) * ValueOf(Base, w, len)
    BY <1>0, <1>6, <2>1, <2>2, SplitValue
  <2>5. ValueOf(Base, mem, j) = ValueOf(Base, r, j)
    <3>1. Same(mem, r, j)
      <4>1. \A i \in 1 .. j : i \in 1 .. Len(mem) /\ ~(i >= slot)  BY <1>0
      <4>2. QED  BY <1>5, <4>1 DEF Same
    <3>2. Ints(mem, j)
      <4>1. j \in 0 .. Len(mem)  BY <1>0
      <4>2. QED  BY <4>1, MemoryIs
    <3>3. QED  BY <1>0, <1>6, <3>1, <3>2, SameDigits
  <2>6. ValueOf(Base, u, len) \in Int /\ ValueOf(Base, mem, j) \in Int /\ Base ** j \in Int
    <3>1. ValueOf(Base, u, len) \in Int  BY <1>0, <1>6, <1>10, Values
    <3>2. ValueOf(Base, mem, j) \in Int
      <4>1. k \in Nat /\ Ints(mem, k)  BY <1>6, <2>2
      <4>2. QED  BY <1>0, <1>6, <4>1, Values
    <3>3. QED  BY <1>6, <3>1, <3>2, BasePowers
  <2>7. \A p, q, s \in Int : s + p * (q - 1) = (s + p * q) - p  OBVIOUS
  <2>8. ValueOf(Base, mem, j) + (Base ** j) * (ValueOf(Base, u, len) - 1)
          = (ValueOf(Base, mem, j) + (Base ** j) * ValueOf(Base, u, len)) - Base ** j
    BY <2>6, <2>7
  <2>9. QED  BY <1>6, <1>12, <2>3, <2>4, <2>5, <2>8
<1>14. last \in 0 .. k /\ ValueOf(Base, r, last) = ValueOf(Base, r, k)
  <2>1. CASE mem[t] = 1 /\ t = k
    <3>1. last = k - 1 /\ k - 1 \in 0 .. k /\ k \in Nat  BY <1>0, <2>1
    <3>2. r[k] = 0
      <4>1. k - slot + 1 = t - slot + 1 /\ k >= slot /\ k <= t  BY <1>0, <2>1
      <4>2. r[k] = d[t - slot + 1]  BY <1>0, <1>5, <4>1
      <4>3. QED  BY <1>4, <2>1, <4>2
    <3>3. Zeros(r, (k - 1) + 1, k)
      <4>1. \A i \in (k - 1) + 1 .. k : i = k  BY <1>0
      <4>2. QED  BY <3>2, <4>1 DEF Zeros
    <3>4. Ints(r, k)
      <4>1. k \in 0 .. Len(r)  BY <1>0, <1>5
      <4>2. QED  BY <1>5, <4>1, MemoryIs
    <3>5. ValueOf(Base, r, k) = ValueOf(Base, r, k - 1)  BY <1>0, <3>1, <3>3, <3>4, ZerosAbove
    <3>6. QED  BY <3>1, <3>5
  <2>2. CASE ~(mem[t] = 1 /\ t = k)  BY <2>2
  <2>3. QED  BY <2>1, <2>2
<1>15. ASSUME slot = 1, last > 0 PROVE r[last] # 0
  <2>1. CASE t < k
    <3>1. last = k /\ ~(k <= t)  BY <1>0, <1>3, <2>1
    <3>2. QED  BY <1>0, <1>5, <3>1
  <2>2. CASE t = k /\ mem[t] = 1
    <3>1. last = k - 1 /\ k - 1 \in 1 .. t - slot /\ k - 1 \in 1 .. Len(mem) /\ k - 1 >= slot
          /\ k - 1 <= t /\ (k - 1) - slot + 1 = k - 1
      BY <1>0, <1>3, <1>14, <1>15, <2>2
    <3>2. r[k - 1] = d[k - 1] /\ d[k - 1] = Base - 1  BY <1>4, <1>5, <3>1
    <3>3. QED  BY <1>0, <3>1, <3>2
  <2>3. CASE t = k /\ mem[t] # 1
    <3>1. last = k /\ k >= slot /\ k <= t /\ k - slot + 1 = t - slot + 1  BY <1>0, <2>3
    <3>2. r[k] = mem[t] - 1  BY <1>0, <1>4, <1>5, <3>1
    <3>3. QED  BY <1>3, <2>3, <3>1, <3>2
  <2>4. QED  BY <1>0, <1>3, <2>1, <2>2, <2>3
<1> HIDE DEF last
<1>16. decrease_from_slot(n, slot).mem = r /\ decrease_from_slot(n, slot).payload = last
  BY <1>2 DEF Number, r
<1>17. QED  BY <1>5, <1>13, <1>14, <1>15, <1>16

\* Numbers are compared by their lengths first.
LEMMA LongerIsLarger ==
  ASSUME NEW n, IsNumber(n), NEW m, IsNumber(m), n.payload < m.payload
  PROVE  Value(n) < Value(m)
<1>1. /\ n.payload \in Nat /\ Value(n) \in Nat /\ Value(n) < Base ** n.payload
      /\ m.payload \in Nat /\ Value(m) \in Nat /\ (m.payload > 0 => Value(m) >= Base ** (m.payload - 1))
  BY NumberHas
<1>2. m.payload - 1 \in Nat /\ n.payload <= m.payload - 1  BY <1>1
<1>3. Base ** n.payload <= Base ** (m.payload - 1) /\ Base ** n.payload \in Nat
      /\ Base ** (m.payload - 1) \in Nat
  BY <1>1, <1>2, BasePowers
<1>4. QED  BY <1>1, <1>3

\* operator--.
LEMMA DecrementIs ==
  ASSUME NEW n, IsNumber(n)
  PROVE  Means(decrease_from_slot(n, 1), IF Value(n) < 1 THEN 0 ELSE Value(n) - 1)
<1>0. /\ n.mem \in Memory /\ Len(n.mem) \in Nat /\ Len(n.mem) >= 1 /\ n.payload \in 0 .. Len(n.mem)
      /\ (n.payload > 0 => n.mem[n.payload] # 0) /\ Value(n) \in Nat
      /\ (n.payload = 0 <=> Value(n) = 0) /\ Value(n) = ValueOf(Base, n.mem, n.payload)
  BY NumberHas
<1>1. n = Number(n.mem, n.payload)  BY DEF IsNumber, Number
<1>2. CASE n.payload = 0
  <2>1. decrease_from_slot(n, 1) = n  BY <1>2 DEF decrease_from_slot
  <2>2. QED  BY <1>0, <1>2, <2>1 DEF Means
<1>3. CASE n.payload # 0
  <2> DEFINE r == decrease_from_slot(Number(n.mem, n.payload), 1)
  <2>1. n.payload \in Nat /\ 1 \in 1 .. n.payload /\ n.payload <= Len(n.mem) /\ n.mem[n.payload] # 0
    BY <1>0, <1>3
  <2>2. /\ r.mem \in Memory /\ Len(r.mem) = Len(n.mem) /\ r.payload \in 0 .. n.payload
        /\ ValueOf(Base, r.mem, r.payload) = ValueOf(Base, n.mem, n.payload) - Base ** (1 - 1)
        /\ (r.payload > 0 => r.mem[r.payload] # 0)
    BY <1>0, <2>1, DecreaseIs
  <2>3. r = Number(r.mem, r.payload)
    BY DEF decrease_from_slot, Number
  <2> HIDE DEF r
  <2>4. Means(Number(r.mem, r.payload), ValueOf(Base, r.mem, r.payload))
    <3>1. r.payload \in 0 .. Len(r.mem) /\ Len(r.mem) >= 1  BY <1>0, <2>1, <2>2
    <3>2. QED  BY <2>2, <3>1, NumberIs
  <2>5. Base ** (1 - 1) = 1  BY BaseIs, Powers
  <2>6. ValueOf(Base, r.mem, r.payload) = Value(n) - 1 /\ ~(Value(n) < 1)  BY <1>0, <1>3, <2>2, <2>5
  <2>7. QED  BY <1>1, <2>3, <2>4, <2>6 DEF r
<1>4. QED  BY <1>2, <1>3

Difference(m, n) == IF m < n THEN 0 ELSE m - n

\* operator-= of some octets: borrows from octet to octet and from what is above.
LEMMA MinusIs ==
  ASSUME NEW n, IsNumber(n), NEW d \in Memory, NEW size \in 0 .. Len(d), size > 0 => d[size] # 0
  PROVE  Means(Minus(n, d, size), Difference(Value(n), ValueOf(Base, d, size)))
<1> DEFINE k == Smaller(n.payload, size)
           borrowed == CHOOSE b : b = [i \in 0 .. k |-> IF i = 0 \/ n.mem[i] >= d[i] + b[i - 1] THEN 0 ELSE 1]
           z == [i \in 1 .. k |-> (n.mem[i] - d[i] - borrowed[i - 1]) % Base]
           mem == Write(n.mem, z)
           m == IF borrowed[k] = 1 THEN decrease_from_slot(Number(mem, n.payload), k + 1)
                ELSE Number(mem, n.payload)
           v == ValueOf(Base, d, size)
<1>0. /\ n.payload \in Nat /\ Capacity(n) = Len(n.mem) /\ Len(n.mem) \in Nat /\ n.mem \in Memory
      /\ Value(n) \in Nat /\ Value(n) < Base ** n.payload /\ Len(n.mem) >= 1 /\ n.payload <= Len(n.mem)
      /\ (n.payload > 0 => n.mem[n.payload] # 0) /\ Value(n) = ValueOf(Base, n.mem, n.payload)
      /\ (\A i \in 1 .. Len(n.mem) : n.mem[i] \in Octet) /\ n.payload \in 0 .. Len(n.mem)
  BY NumberHas
<1>1. /\ Len(d) \in Nat /\ size \in Nat /\ (\A i \in 1 .. size : d[i] \in Octet) /\ Ints(d, size)
      /\ v \in Nat /\ (size > 0 => v >= Base ** (size - 1)) /\ Base \in Nat \ {0, 1} /\ Base \in Int
  <2>1. Len(d) \in Nat /\ size \in Nat /\ Ints(d, size)  BY MemoryIs
  <2>2. \A i \in 1 .. size : i \in 1 .. Len(d)  BY <2>1
  <2>3. \A i \in 1 .. size : d[i] \in Octet  BY <2>2, MemoryIs
  <2>4. v \in Nat /\ (size > 0 => v >= Base ** (size - 1))  BY MemoryValue
  <2>5. QED  BY <2>1, <2>3, <2>4, BaseIs
<1>2. k \in Nat /\ k <= n.payload /\ k <= size /\ (k = size \/ (k = n.payload /\ n.payload < size))
      /\ (size > n.payload <=> k # size)
  <2>1. k = IF n.payload <= size THEN n.payload ELSE size  BY <1>0, <1>1, SmallerIs
  <2> HIDE DEF k
  <2>2. QED  BY <1>0, <1>1, <2>1
<1>3. Minus(n, d, size) = IF size > n.payload \/ (borrowed[k] = 1 /\ n.payload = k)
                          THEN bzero(Number(mem, 0)) ELSE skip_leading_zeros(m.mem, m.payload)
  BY DEF Minus
<1> HIDE DEF k
<1>4. /\ borrowed \in [0 .. k -> {0, 1}] /\ borrowed[0] = 0
      /\ \A i \in 1 .. k : borrowed[i] = IF n.mem[i] >= d[i] + borrowed[i - 1] THEN 0 ELSE 1
  <2> DEFINE step == [i \in 1 .. k |-> [b \in {0, 1} |-> IF n.mem[i] >= d[i] + b THEN 0 ELSE 1]]
  <2>1. step \in [1 .. k -> [{0, 1} -> {0, 1}]] /\ 0 \in {0, 1}  OBVIOUS
  <2>2. \A i \in 1 .. k, b \in {0, 1} : step[i][b] = IF n.mem[i] >= d[i] + b THEN 0 ELSE 1  OBVIOUS
  <2> HIDE DEF step
  <2>3. PICK f \in [0 .. k -> {0, 1}] : Computed(f, k, 0, step)  BY <1>2, <2>1, Chain
  <2>4. f = [i \in 0 .. k |-> IF i = 0 THEN 0 ELSE step[i][f[i - 1]]]  BY <2>3 DEF Computed
  <2>5. \A i \in 1 .. k : i - 1 \in 0 .. k /\ f[i - 1] \in {0, 1} /\ i # 0 /\ i \in 0 .. k
    BY <1>2, <2>3
  <2>6. f = [i \in 0 .. k |-> IF i = 0 \/ n.mem[i] >= d[i] + f[i - 1] THEN 0 ELSE 1]
    <3>1. ASSUME NEW i \in 0 .. k
          PROVE  (IF i = 0 THEN 0 ELSE step[i][f[i - 1]])
                   = IF i = 0 \/ n.mem[i] >= d[i] + f[i - 1] THEN 0 ELSE 1
      <4>1. i # 0 => i \in 1 .. k  BY <1>2
      <4>2. QED  BY <2>2, <2>5, <4>1
    <3>2. QED  BY <2>4, <3>1
  <2>7. borrowed = [i \in 0 .. k |-> IF i = 0 \/ n.mem[i] >= d[i] + borrowed[i - 1] THEN 0 ELSE 1]
    BY <2>6
  <2> HIDE DEF borrowed
  <2>8. borrowed \in [0 .. k -> {0, 1}]  BY <2>7
  <2>9. 0 \in 0 .. k  BY <1>2
  <2>10. QED  BY <2>5, <2>7, <2>8, <2>9
<1> HIDE DEF borrowed
<1>5. \A i \in 1 .. k : /\ i \in 1 .. n.payload /\ i \in 1 .. size /\ i \in 1 .. Len(n.mem)
                        /\ i - 1 \in 0 .. k /\ i \in 0 .. k
                        /\ n.mem[i] \in 0 .. Base - 1 /\ d[i] \in 0 .. Base - 1
  <2>1. \A i \in 1 .. k : i \in 1 .. n.payload /\ i \in 1 .. size /\ i \in 1 .. Len(n.mem)
                          /\ i - 1 \in 0 .. k /\ i \in 0 .. k
    BY <1>0, <1>1, <1>2
  <2>2. QED  BY <1>0, <1>1, <2>1 DEF Octet
<1>a. \A p, q \in 0 .. Base - 1, b \in {0, 1} :
         /\ p - q - b \in Int /\ p - q - b >= 0 - Base /\ p - q - b < Base
         /\ p >= q + b <=> p - q - b >= 0
         /\ (p + (-1) * q) + (0 - b) = p - q - b
  BY <1>1
<1>b. \A i \in 1 .. k : borrowed[i - 1] \in {0, 1}  BY <1>4, <1>5
<1>6. z \in [1 .. k -> Octet] /\ \A i \in 1 .. k : z[i] = (n.mem[i] - d[i] - borrowed[i - 1]) % Base
  <2>1. ASSUME NEW i \in 1 .. k PROVE (n.mem[i] - d[i] - borrowed[i - 1]) % Base \in Octet
    <3>1. n.mem[i] - d[i] - borrowed[i - 1] \in Int /\ Base \in Nat \ {0}  BY <1>1, <1>5, <1>a, <1>b
    <3>2. QED  BY <3>1, Division DEF Octet
  <2>2. QED  BY <2>1
<1>7. z \in Memory /\ Len(z) = k  BY <1>2, <1>6, FunctionIsMemory
<1>8. mem \in Memory /\ Len(mem) = Len(n.mem)
      /\ \A i \in 1 .. Len(n.mem) : mem[i] = IF i <= k THEN z[i] ELSE n.mem[i]
  <2>1. Len(z) <= Len(n.mem)  BY <1>0, <1>2, <1>7
  <2> HIDE DEF z
  <2>2. QED  BY <1>0, <1>7, <2>1, WriteIs
<1> HIDE DEF mem
\* What is written below octet k.
<1>9. ValueOf(Base, n.mem, k) - ValueOf(Base, d, k) = ValueOf(Base, z, k) - borrowed[k] * (Base ** k)
      /\ Ints(n.mem, k) /\ Ints(d, k) /\ Ints(z, k)
  <2> DEFINE s == [i \in 1 .. k |-> n.mem[i] + (-1) * d[i]]
             t == [i \in 0 .. k |-> 0 - borrowed[i]]
  <2>1. Ints(n.mem, k) /\ Ints(d, k) /\ Ints(z, k) /\ Ints(s, k)
    <3>1. \A i \in 1 .. k : n.mem[i] \in Int /\ d[i] \in Int /\ n.mem[i] + (-1) * d[i] \in Int  BY <1>1, <1>5
    <3>2. k \in 0 .. Len(z)  BY <1>2, <1>7
    <3>3. Ints(z, k)  BY <1>7, <3>2, MemoryIs
    <3> HIDE DEF z
    <3>4. QED  BY <3>1, <3>3 DEF Ints
  <2>2. Combined(s, n.mem, -1, d, k)  BY DEF Combined
  <2>3. HandedOn(Base, s, z, t, k)
    <3>1. ASSUME NEW i \in 1 .. k PROVE s[i] + t[i - 1] = z[i] + Base * t[i]
      <4> DEFINE a == n.mem[i] - d[i] - borrowed[i - 1]
      <4>1. borrowed[i - 1] \in {0, 1} /\ borrowed[i] = IF a >= 0 THEN 0 ELSE 1
        <5>1. borrowed[i - 1] \in {0, 1}  BY <1>4, <1>5
        <5>2. n.mem[i] >= d[i] + borrowed[i - 1] <=> a >= 0  BY <1>5, <1>a, <5>1
        <5>3. QED  BY <1>4, <5>1, <5>2
      <4>2. a \in Int /\ a >= 0 - Base /\ a < Base  BY <1>5, <1>a, <4>1
      <4>3. s[i] + t[i - 1] = a
        <5>1. s[i] = n.mem[i] + (-1) * d[i] /\ t[i - 1] = 0 - borrowed[i - 1]  BY <1>5
        <5> HIDE DEF s, t
        <5>2. QED  BY <1>5, <1>a, <4>1, <5>1
      <4>4. z[i] = a % Base /\ t[i] = 0 - borrowed[i]  BY <1>5, <1>6
      <4> HIDE DEF a, s, t, z
      <4>5. Base \in Nat \ {0}  BY <1>1
      <4>6. CASE a >= 0
        <5>1. a \in 0 .. Base - 1 /\ 0 \in Int /\ a = Base * 0 + a  BY <1>1, <4>2, <4>6
        <5>2. a = a % Base  BY <4>2, <4>5, <5>1, DivisionIsUnique
        <5>3. QED  BY <1>1, <4>1, <4>2, <4>3, <4>4, <4>6, <5>2
      <4>7. CASE ~(a >= 0)
        <5>1. a + Base \in 0 .. Base - 1 /\ -1 \in Int /\ a = Base * (-1) + (a + Base)  BY <1>1, <4>2, <4>7
        <5>2. a + Base = a % Base  BY <4>2, <4>5, <5>1, DivisionIsUnique
        <5>3. z[i] = a + Base /\ t[i] = -1  BY <4>1, <4>4, <4>7, <5>2
        <5>4. QED  BY <1>1, <4>2, <4>3, <5>3
      <4>8. QED  BY <4>6, <4>7
    <3>2. \A i \in 0 .. k : t[i] \in Int
      <4>1. \A i \in 0 .. k : borrowed[i] \in Int  BY <1>4
      <4>2. QED  BY <4>1
    <3> HIDE DEF s, t, z
    <3>3. QED  BY <3>1, <3>2 DEF HandedOn
  <2>4. t[0] = 0 /\ t[k] = 0 - borrowed[k] /\ borrowed[k] \in {0, 1}
    <3>1. 0 \in 0 .. k /\ k \in 0 .. k  BY <1>2
    <3>2. QED  BY <1>4, <3>1
  <2> HIDE DEF s, t, z
  <2>5. k \in 0 .. k /\ -1 \in Int  BY <1>2
  <2>6. ValueOf(Base, s, k) + t[0] = ValueOf(Base, z, k) + t[k] * (Base ** k)
    BY <1>1, <1>2, <2>1, <2>3, <2>5, Telescope
  <2>7. ValueOf(Base, s, k) = ValueOf(Base, n.mem, k) + (-1) * ValueOf(Base, d, k)
    BY <1>1, <1>2, <2>1, <2>2, <2>5, CombinedValue
  <2>8. ValueOf(Base, n.mem, k) \in Int /\ ValueOf(Base, d, k) \in Int /\ ValueOf(Base, z, k) \in Int
        /\ ValueOf(Base, s, k) \in Int
    BY <1>1, <1>2, <2>1, <2>5, Values
  <2>9. Base ** k \in Int  BY <1>2, BasePowers
  <2>10. t[k] * (Base ** k) = 0 - borrowed[k] * (Base ** k) /\ borrowed[k] * (Base ** k) \in Int
    <3>1. \A p, q \in Int : (0 - p) * q = 0 - p * q /\ p * q \in Int  OBVIOUS
    <3>2. borrowed[k] \in Int  BY <2>4
    <3>3. QED  BY <2>4, <2>9, <3>1, <3>2
  <2>11. QED  BY <2>1, <2>4, <2>6, <2>7, <2>8, <2>10
<1>10. /\ Ints(mem, n.payload) /\ Ints(n.mem, n.payload)
       /\ ValueOf(Base, mem, k) = ValueOf(Base, z, k)
       /\ ValueOf(Base, mem, n.payload) - ValueOf(Base, z, k) = Value(n) - ValueOf(Base, n.mem, k)
       /\ ValueOf(Base, mem, n.payload) \in Int /\ ValueOf(Base, z, k) \in Int /\ ValueOf(Base, n.mem, k) \in Int
  <2>1. Ints(mem, n.payload) /\ Ints(n.mem, n.payload)
    <3>1. n.payload \in 0 .. Len(mem)  BY <1>0, <1>8
    <3>2. QED  BY <1>0, <1>8, <3>1, MemoryIs
  <2>2. \A i \in k + 1 .. n.payload : mem[i] = n.mem[i]
    <3>1. \A i \in k + 1 .. n.payload : i \in 1 .. Len(n.mem) /\ ~(i <= k)  BY <1>0, <1>2
    <3>2. QED  BY <1>8, <3>1
  <2>3. /\ ValueOf(Base, mem, n.payload) - ValueOf(Base, mem, k)
             = ValueOf(Base, n.mem, n.payload) - ValueOf(Base, n.mem, k)
        /\ ValueOf(Base, mem, n.payload) \in Int /\ ValueOf(Base, mem, k) \in Int
        /\ ValueOf(Base, n.mem, n.payload) \in Int /\ ValueOf(Base, n.mem, k) \in Int
    BY <1>0, <1>2, <2>1, <2>2, SameAbove
  <2>4. ValueOf(Base, z, k) = ValueOf(Base, mem, k)
    <3>1. \A i \in 1 .. k : i \in 1 .. Len(n.mem) /\ i <= k  BY <1>5
    <3>2. Same(z, mem, k)  BY <1>8, <3>1 DEF Same
    <3> HIDE DEF z
    <3>3. QED  BY <1>1, <1>2, <1>9, <3>2, SameDigits
  <2>5. QED  BY <1>0, <2>1, <2>3, <2>4
<1> HIDE DEF z, v
<1>11. borrowed[k] \in {0, 1} /\ Base ** k \in Nat \ {0}
       /\ (borrowed[k] = 1 => borrowed[k] * (Base ** k) = Base ** k)
       /\ (borrowed[k] = 0 => borrowed[k] * (Base ** k) = 0)
  <2>1. k \in 0 .. k  BY <1>2
  <2>2. borrowed[k] \in {0, 1} /\ Base ** k \in Nat \ {0}  BY <1>2, <1>4, <2>1, BasePowers
  <2>3. QED  BY <2>2
<1>12. CASE size > n.payload \/ (borrowed[k] = 1 /\ n.payload = k)
  <2>1. Means(bzero(Number(mem, 0)), 0)
    <3>1. bzero(Number(mem, 0)) = Number(mem, 0)  BY DEF bzero, Number
    <3>2. 0 \in 0 .. Len(mem) /\ Len(mem) >= 1  BY <1>0, <1>8
    <3>3. Means(Number(mem, 0), ValueOf(Base, mem, 0))  BY <1>8, <3>2, NumberIs
    <3>4. Ints(mem, 0) /\ 0 \in Nat  BY <1>8, <3>2, MemoryIs
    <3>5. ValueOf(Base, mem, 0) = 0  BY <1>1, <3>4, Values
    <3>6. QED  BY <3>1, <3>3, <3>5
  <2>2. Value(n) < v
    <3>1. CASE size > n.payload
      <4>1. size - 1 \in Nat /\ n.payload <= size - 1 /\ size > 0  BY <1>0, <1>1, <3>1
      <4>2. Base ** n.payload <= Base ** (size - 1) /\ Base ** (size - 1) \in Nat /\ Base ** n.payload \in Nat
        BY <1>0, <4>1, BasePowers
      <4>3. QED  BY <1>0, <1>1, <4>1, <4>2
    <3>2. CASE borrowed[k] = 1 /\ n.payload = k /\ ~(size > n.payload)
      <4>1. k = size  BY <1>0, <1>1, <1>2, <3>2
      <4>2. Value(n) - v = ValueOf(Base, z, k) - Base ** k  BY <1>0, <1>9, <1>11, <3>2, <4>1 DEF v
      <4>3. ValueOf(Base, z, k) \in 0 .. (Base ** k) - 1
        <5>1. k \in 0 .. Len(z)  BY <1>2, <1>7
        <5>2. QED  BY <1>7, <5>1, MemoryValue
      <4>4. QED  BY <1>0, <1>1, <1>11, <4>2, <4>3
    <3>3. QED  BY <1>12, <3>1, <3>2
  <2>3. QED  BY <1>3, <1>12, <2>1, <2>2 DEF Difference, v
<1>13. CASE ~(size > n.payload \/ (borrowed[k] = 1 /\ n.payload = k))
  <2>1. k = size  BY <1>0, <1>1, <1>2, <1>13
  <2>2. ValueOf(Base, mem, n.payload) - borrowed[k] * (Base ** k) = Value(n) - v
    <3>1. ValueOf(Base, n.mem, k) - v = ValueOf(Base, z, k) - borrowed[k] * (Base ** k)
      BY <1>9, <2>1 DEF v
    <3>2. borrowed[k] * (Base ** k) \in Int  BY <1>11
    <3>3. v \in Int  BY <1>1
    <3>4. \A p, q, r, s, t, u \in Int : p - q = r - s /\ s - t = q - u => p - u = r - t  OBVIOUS
    <3>5. Value(n) \in Int  BY <1>0
    <3>6. QED  BY <1>10, <3>1, <3>2, <3>3, <3>4, <3>5
  <2>3. /\ m.mem \in Memory /\ Len(m.mem) = Len(n.mem) /\ m.payload \in 0 .. Len(n.mem)
        /\ ValueOf(Base, m.mem, m.payload) = Value(n) - v
    <3>1. CASE borrowed[k] = 1
      <4>1. k + 1 \in 1 .. n.payload /\ n.payload > k  BY <1>0, <1>2, <1>13, <3>1
      <4>2. mem[n.payload] # 0
        <5>1. n.payload \in 1 .. Len(n.mem) /\ ~(n.payload <= k) /\ n.payload > 0  BY <1>0, <1>2, <4>1
        <5>2. QED  BY <1>0, <1>8, <5>1
      <4>3. m = decrease_from_slot(Number(mem, n.payload), k + 1)  BY <3>1
      <4> HIDE DEF m
      <4>4. /\ m.mem \in Memory /\ Len(m.mem) = Len(mem) /\ m.payload \in 0 .. n.payload
            /\ ValueOf(Base, m.mem, m.payload) = ValueOf(Base, mem, n.payload) - Base ** ((k + 1) - 1)
        BY <1>0, <1>8, <4>1, <4>2, <4>3, DecreaseIs
      <4>5. (k + 1) - 1 = k  BY <1>2
      <4>6. QED  BY <1>0, <1>8, <1>11, <2>2, <3>1, <4>4, <4>5
    <3>2. CASE borrowed[k] = 0
      <4>1. m = Number(mem, n.payload)  BY <3>2
      <4>2. m.mem = mem /\ m.payload = n.payload  BY <4>1 DEF Number
      <4> HIDE DEF m
      <4>3. QED  BY <1>0, <1>8, <1>10, <1>11, <2>2, <3>2, <4>2
    <3>3. QED  BY <1>11, <3>1, <3>2
  <2> HIDE DEF m
  <2>4. Means(skip_leading_zeros(m.mem, m.payload), Value(n) - v)
    <3>1. m.payload \in 0 .. Len(m.mem) /\ Len(m.mem) >= 1  BY <1>0, <2>3
    <3>2. Means(skip_leading_zeros(m.mem, m.payload), ValueOf(Base, m.mem, m.payload))
      BY <2>3, <3>1, SkipIs
    <3>3. QED  BY <2>3, <3>2
  <2>5. ~(Value(n) < v)
    <3>1. ValueOf(Base, m.mem, m.payload) \in Nat
      <4>1. m.payload \in 0 .. Len(m.mem)  BY <2>3
      <4>2. QED  BY <2>3, <4>1, MemoryValue
    <3>2. QED  BY <1>0, <1>1, <2>3, <3>1
  <2>6. QED  BY <1>3, <1>13, <2>4, <2>5 DEF Difference, m, v
<1>14. QED  BY <1>12, <1>13

\* operator-= of an unsigned long long and of a Natural, itself included.
LEMMA MinusFixnumIs ==
  ASSUME NEW n, IsNumber(n), NEW v \in Fixnum
  PROVE  Means(MinusFixnum(n, v), Difference(Value(n), v))
<1>0. Value(n) \in Nat /\ (is_zero(n) <=> n.payload = 0) /\ (n.payload = 0 <=> Value(n) = 0)  BY NumberHas
<1>1. /\ v \in Nat /\ FixnumSize(v) \in 0 .. W /\ FixnumOctets(v) \in Memory
      /\ Len(FixnumOctets(v)) = FixnumSize(v)
      /\ FixnumSize(v) > 0 => FixnumOctets(v)[FixnumSize(v)] # 0
      /\ ValueOf(Base, FixnumOctets(v), FixnumSize(v)) = v
  BY FixnumIs
<1>2. CASE is_zero(n) \/ v = 0
  <2>1. MinusFixnum(n, v) = n  BY <1>2 DEF MinusFixnum
  <2>2. Difference(Value(n), v) = Value(n)  BY <1>0, <1>1, <1>2 DEF Difference
  <2>3. QED  BY <2>1, <2>2 DEF Means
<1>3. CASE ~(is_zero(n) \/ v = 0)
  <2>1. FixnumSize(v) \in 0 .. Len(FixnumOctets(v))  BY <1>1
  <2>2. Means(Minus(n, FixnumOctets(v), FixnumSize(v)),
              Difference(Value(n), ValueOf(Base, FixnumOctets(v), FixnumSize(v))))
    BY <1>1, <2>1, MinusIs
  <2>3. QED  BY <1>1, <1>3, <2>2 DEF MinusFixnum
<1>4. QED  BY <1>2, <1>3

\* The number with no octets.
LEMMA ZeroIs == ASSUME NEW n, IsNumber(n) PROVE Means(bzero(n), 0)
<1>0. n.mem \in Memory /\ Len(n.mem) \in Nat /\ Len(n.mem) >= 1  BY NumberHas
<1>1. bzero(n) = Number(n.mem, 0)  BY DEF IsNumber, bzero, Number
<1>2. 0 \in 0 .. Len(n.mem) /\ 0 \in Nat  BY <1>0
<1>3. Means(Number(n.mem, 0), ValueOf(Base, n.mem, 0))  BY <1>0, <1>2, NumberIs
<1>4. Ints(n.mem, 0) /\ Base \in Int  BY <1>0, <1>2, MemoryIs, BaseIs
<1>5. ValueOf(Base, n.mem, 0) = 0  BY <1>2, <1>4, Values
<1>6. QED  BY <1>1, <1>3, <1>5

\* operator-= of a Natural (natural.cpp:1244).
LEMMA MinusNaturalIs ==
  ASSUME NEW n, IsNumber(n), NEW rhs, IsNumber(rhs)
  PROVE  Means(MinusNatural(n, rhs), Difference(Value(n), Value(rhs)))
<1>0. Value(n) \in Nat /\ n.payload \in Nat  BY NumberHas
<1>1. /\ Value(rhs) \in Nat /\ (is_zero(rhs) <=> rhs.payload = 0) /\ (rhs.payload = 0 <=> Value(rhs) = 0)
      /\ rhs.payload \in 0 .. Len(rhs.mem) /\ rhs.payload \in Nat /\ rhs.mem \in Memory
      /\ (rhs.payload > 0 => rhs.mem[rhs.payload] # 0) /\ Value(rhs) = ValueOf(Base, rhs.mem, rhs.payload)
  BY NumberHas
<1>2. CASE is_zero(rhs)
  <2>1. MinusNatural(n, rhs) = n  BY <1>2 DEF MinusNatural
  <2>2. Difference(Value(n), Value(rhs)) = Value(n)  BY <1>0, <1>1, <1>2 DEF Difference
  <2>3. QED  BY <2>1, <2>2 DEF Means
<1>3. CASE ~is_zero(rhs) /\ n.payload < rhs.payload
  <2>1. Value(n) < Value(rhs)  BY <1>3, LongerIsLarger
  <2>2. Means(bzero(n), 0)  BY ZeroIs
  <2>3. QED  BY <1>3, <2>1, <2>2 DEF MinusNatural, Difference
<1>4. CASE ~is_zero(rhs) /\ ~(n.payload < rhs.payload)
  <2>1. Means(Minus(n, rhs.mem, rhs.payload), Difference(Value(n), ValueOf(Base, rhs.mem, rhs.payload)))
    BY <1>1, MinusIs
  <2>2. QED  BY <1>1, <1>4, <2>1 DEF MinusNatural
<1>5. QED  BY <1>2, <1>3, <1>4

-----------------------------------------------------------------------------
(***************************************************************************)
(* Part 10. Multiplication.                                                *)
(***************************************************************************)
\* A number of one octet is that octet.
LEMMA OneOctetValue ==
  ASSUME NEW n, IsNumber(n), n.payload = 1
  PROVE  n.mem[1] \in Octet /\ n.mem[1] \in Nat \ {0} /\ Value(n) = n.mem[1]
<1>0. /\ n.mem \in Memory /\ Len(n.mem) \in Nat /\ Len(n.mem) >= 1 /\ n.mem[1] # 0
      /\ (\A i \in 1 .. Len(n.mem) : n.mem[i] \in Octet) /\ Ints(n.mem, 1) /\ Value(n) = ValueOf(Base, n.mem, 1)
  BY NumberHas
<1>1. 1 \in 1 .. Len(n.mem) /\ 1 \in Nat /\ 1 \in 1 .. 1 /\ Base \in Int  BY <1>0, BaseIs
<1>2. ValueOf(Base, n.mem, 0) = 0  BY <1>0, <1>1, Values
<1>3. ValueOf(Base, n.mem, 1) = ValueOf(Base, n.mem, 1 - 1) + n.mem[1] * (Base ** (1 - 1))
  BY <1>0, <1>1, Values
<1>4. Base ** 0 = 1 /\ 1 - 1 = 0  BY <1>1, Powers
<1>5. n.mem[1] \in Octet /\ n.mem[1] \in Int /\ n.mem[1] \in Nat  BY <1>0, <1>1, OctetIs
<1>6. QED  BY <1>0, <1>2, <1>3, <1>4, <1>5

\* The products of some octets and one octet.
LEMMA ScaledValue ==
  ASSUME NEW k \in Nat, NEW d, Ints(d, k), NEW q \in Int, NEW s, \A i \in 1 .. k : s[i] = d[i] * q
  PROVE  Ints(s, k) /\ ValueOf(Base, s, k) = ValueOf(Base, d, k) * q
<1> DEFINE none == [i \in 1 .. k |-> 0]
<1>0. Base \in Int /\ k \in 0 .. k /\ 0 \in 0 .. k  BY BaseIs
<1>1. Ints(none, k) /\ Zeros(none, 0 + 1, k)  BY DEF Ints, Zeros
<1>2. \A i \in 1 .. k : none[i] = 0  OBVIOUS
<1> HIDE DEF none
<1>3. ASSUME NEW i \in 1 .. k PROVE s[i] \in Int /\ s[i] = none[i] + q * d[i]
  <2>1. d[i] \in Int  BY DEF Ints
  <2>2. QED  BY <1>2, <2>1
<1>4. Ints(s, k) /\ Combined(s, none, q, d, k)  BY <1>3 DEF Ints, Combined
<1>5. ValueOf(Base, s, k) = ValueOf(Base, none, k) + q * ValueOf(Base, d, k)
  BY <1>0, <1>1, <1>4, CombinedValue
<1>6. ValueOf(Base, none, k) = ValueOf(Base, none, 0)  BY <1>0, <1>1, ZerosAbove
<1>7. ValueOf(Base, none, 0) = 0 /\ ValueOf(Base, d, k) \in Int
  <2>1. ValueOf(Base, none, 0) = 0  BY <1>0, <1>1, Values
  <2>2. ValueOf(Base, d, k) \in Int  BY <1>0, Values
  <2>3. QED  BY <2>1, <2>2
<1>8. QED  BY <1>4, <1>5, <1>6, <1>7

\* times_digit of natural.cpp.
LEMMA TimesDigitIs ==
  ASSUME NEW n, IsNumber(n), n.payload > 0, NEW q \in Octet
  PROVE  Means(times_digit(n, q), Value(n) * q)
<1> DEFINE k == n.payload
           s == [i \in 1 .. k |-> n.mem[i] * q]
           v == Value(n) * q
<1>0. /\ Len(n.mem) \in Nat /\ k \in 0 .. Len(n.mem) /\ k \in Nat /\ k - 1 \in Nat
      /\ (\A i \in 1 .. Len(n.mem) : n.mem[i] \in Octet) /\ Ints(n.mem, k)
      /\ Value(n) = ValueOf(Base, n.mem, k) /\ Value(n) \in Nat /\ Value(n) < Base ** k
      /\ Value(n) >= Base ** (k - 1)
  BY NumberHas
<1>1. q \in Nat /\ q < Base /\ Base \in Nat \ {0}  BY BaseIs DEF Octet
<1>2. CASE q = 0
  <2>1. times_digit(n, q) = bzero(n) /\ v = 0  BY <1>0, <1>2 DEF times_digit
  <2>2. QED  BY <2>1, ZeroIs
<1>3. CASE q = 1
  <2>1. times_digit(n, q) = n /\ v = Value(n)  BY <1>0, <1>3 DEF times_digit
  <2>2. QED  BY <2>1 DEF Means
<1>4. CASE q # 0 /\ q # 1
  <2>1. times_digit(n, q) = Replaced(n, s, 0)  BY <1>4 DEF times_digit
  <2>2. \A i \in 1 .. k : s[i] = n.mem[i] * q  OBVIOUS
  <2> HIDE DEF s
  <2>3. Ints(s, k) /\ ValueOf(Base, s, k) = ValueOf(Base, n.mem, k) * q
    <3>1. q \in Int  BY <1>1
    <3>2. QED  BY <1>0, <2>2, <3>1, ScaledValue
  <2>4. \A i \in 1 .. k : s[i] \in Nat
    <3> SUFFICES ASSUME NEW i \in 1 .. k PROVE s[i] \in Nat  OBVIOUS
    <3>1. i \in 1 .. Len(n.mem)  BY <1>0
    <3>2. n.mem[i] \in Nat  BY <1>0, <3>1, OctetIs
    <3>3. QED  BY <1>1, <2>2, <3>2
  <2>5. v \in Nat /\ v >= Base ** (k - 1) /\ v < Base ** (k + 1)
    <3>1. v \in Nat /\ v >= Value(n)
      <4>1. Value(n) * q = Value(n) + Value(n) * (q - 1) /\ Value(n) * (q - 1) \in Nat /\ Value(n) * q \in Nat
        BY <1>0, <1>1, <1>4
      <4>2. QED  BY <1>0, <4>1
    <3>2. Base ** k \in Nat \ {0} /\ Base ** (k + 1) = Base * (Base ** k) /\ Base ** (k - 1) \in Nat
          /\ Base ** (k + 1) \in Nat
      BY <1>0, BasePowers
    <3>3. v < Base * (Base ** k)
      <4>1. Value(n) * q < (Base ** k) * q
        <5>1. q \in Nat \ {0} /\ Value(n) \in Int /\ Base ** k \in Int  BY <1>0, <1>1, <1>4, <3>2
        <5>2. Value(n) * q + q <= (Base ** k) * q  BY <1>0, <5>1, Multiples
        <5>3. Value(n) * q \in Int /\ (Base ** k) * q \in Int  BY <5>1
        <5>4. QED  BY <5>1, <5>2, <5>3
      <4>2. q * (Base ** k) <= Base * (Base ** k)
        <5>1. q \in Int /\ Base \in Int /\ q <= Base  BY <1>1
        <5>2. QED  BY <3>2, <5>1, Multiples
      <4>3. (Base ** k) * q = q * (Base ** k) /\ q * (Base ** k) \in Int /\ Base * (Base ** k) \in Int
        BY <1>1, <3>2
      <4>4. QED  BY <3>1, <4>1, <4>2, <4>3
    <3>4. QED  BY <1>0, <3>1, <3>2, <3>3
  <2>6. v = ValueOf(Base, s, k) + 0 /\ 0 \in Nat  BY <1>0, <2>3, <2>5
  <2> HIDE DEF v
  <2>7. Means(Replaced(n, s, 0), v)  BY <1>0, <2>3, <2>4, <2>5, <2>6, ReplacedIs
  <2>8. QED  BY <2>1, <2>7 DEF v
<1>5. QED  BY <1>2, <1>3, <1>4

IsRow(n, q, j, p, sum, c, r) ==
  /\ sum = [i \in 1 .. n.payload |-> n.mem[i] * q + p[i + j - 1]]
  /\ c = Carries(Base, sum, n.payload, 0)
  /\ r = Put(p, j, Append(Carried(Base, sum, n.payload, c), c[n.payload]))

\* A row of a product: the octets of n times q, added to what is in the places from j on.
LEMMA RowIs ==
  ASSUME NEW n, IsNumber(n), NEW q \in Octet, NEW j \in Nat \ {0}, NEW p \in Memory,
         n.payload + j <= Len(p), NEW sum, NEW c, NEW r, IsRow(n, q, j, p, sum, c, r)
  PROVE  /\ r \in Memory /\ Len(r) = Len(p)
         /\ ValueOf(Base, r, n.payload + j)
              = ValueOf(Base, p, n.payload + j - 1) + (Value(n) * q) * (Base ** (j - 1))
<1> DEFINE k == n.payload
           z == Carried(Base, sum, k, c)
           o == [i \in 1 .. k |-> p[(j - 1) + i]]
           e == Append(z, c[k])
<1>0. /\ k \in Nat /\ Len(n.mem) \in Nat /\ k \in 0 .. Len(n.mem) /\ Ints(n.mem, k)
      /\ (\A i \in 1 .. Len(n.mem) : n.mem[i] \in Octet)
      /\ Value(n) = ValueOf(Base, n.mem, k) /\ Value(n) \in Nat /\ Value(n) < Base ** k
  BY NumberHas
<1>1. Len(p) \in Nat /\ (\A i \in 1 .. Len(p) : p[i] \in Octet)  BY MemoryIs
<1>2. Base \in Nat \ {0} /\ Base \in Int /\ q \in Nat /\ q < Base /\ q \in Int /\ 0 \in Nat /\ 0 \in Int
      /\ k \in 0 .. k
  BY <1>0, BaseIs DEF Octet
<1>3. \A i \in 1 .. k : /\ i \in 1 .. Len(n.mem) /\ i + j - 1 \in 1 .. Len(p) /\ i + j - 1 = (j - 1) + i
                        /\ n.mem[i] \in Nat /\ p[(j - 1) + i] \in Nat /\ p[(j - 1) + i] \in Octet
  <2>1. \A i \in 1 .. k : i \in 1 .. Len(n.mem) /\ i + j - 1 \in 1 .. Len(p) /\ i + j - 1 = (j - 1) + i
    BY <1>0, <1>1
  <2>2. QED  BY <1>0, <1>1, <2>1, OctetIs
<1>4. \A i \in 1 .. k : sum[i] = o[i] + q * n.mem[i] /\ sum[i] \in Nat /\ o[i] \in Octet /\ o[i] = p[(j - 1) + i]
  <2> SUFFICES ASSUME NEW i \in 1 .. k
               PROVE  sum[i] = o[i] + q * n.mem[i] /\ sum[i] \in Nat /\ o[i] \in Octet /\ o[i] = p[(j - 1) + i]
    OBVIOUS
  <2>1. sum[i] = n.mem[i] * q + p[(j - 1) + i]  BY <1>3 DEF IsRow
  <2>2. o[i] = p[(j - 1) + i]  OBVIOUS
  <2> HIDE DEF o
  <2>3. n.mem[i] \in Nat /\ p[(j - 1) + i] \in Nat /\ o[i] \in Octet  BY <1>3, <2>2
  <2>4. n.mem[i] * q = q * n.mem[i] /\ q * n.mem[i] \in Nat  BY <1>2, <2>3
  <2>5. QED  BY <2>1, <2>2, <2>3, <2>4
<1>5. o \in Memory /\ Len(o) = k
  <2>1. o \in [1 .. k -> Octet]  BY <1>3
  <2>2. QED  BY <1>0, <2>1, FunctionIsMemory
<1> HIDE DEF o
<1>6. Ints(sum, k) /\ Ints(o, k) /\ ValueOf(Base, o, k) \in 0 .. (Base ** k) - 1
      /\ ValueOf(Base, sum, k) = ValueOf(Base, o, k) + q * Value(n)
  <2>1. Ints(sum, k)  BY <1>4 DEF Ints
  <2>2. Ints(o, k)  BY <1>2, <1>5, MemoryIs
  <2>3. Combined(sum, o, q, n.mem, k)  BY <1>4 DEF Combined
  <2>4. ValueOf(Base, sum, k) = ValueOf(Base, o, k) + q * ValueOf(Base, n.mem, k)
    BY <1>0, <1>2, <2>2, <2>3, CombinedValue
  <2>5. ValueOf(Base, o, k) \in 0 .. (Base ** k) - 1  BY <1>2, <1>5, MemoryValue
  <2>6. QED  BY <1>0, <2>1, <2>2, <2>4, <2>5
<1>7. Positive(sum, k, 0)
  <2>1. ASSUME NEW i \in 0 .. k PROVE ValueOf(Base, sum, i) + 0 \in Nat
    <3>0. i \in Nat  BY <1>0
    <3>1. Ints(o, i) /\ Ints(n.mem, i) /\ Combined(sum, o, q, n.mem, i)
      <4>1. \A h \in 1 .. i : h \in 1 .. k  BY <1>0
      <4>2. QED  BY <1>0, <1>4, <1>6, <4>1 DEF Ints, Combined
    <3>2. ValueOf(Base, sum, i) = ValueOf(Base, o, i) + q * ValueOf(Base, n.mem, i)
      <4>1. i \in 0 .. i  BY <3>0
      <4>2. QED  BY <1>2, <3>0, <3>1, <4>1, CombinedValue
    <3>3. ValueOf(Base, o, i) \in Nat /\ ValueOf(Base, n.mem, i) \in Nat
      <4>1. i \in 0 .. Len(o) /\ i \in 0 .. Len(n.mem)  BY <1>0, <1>5
      <4>2. ValueOf(Base, o, i) \in Nat  BY <1>5, <4>1, MemoryValue
      <4>3. n.mem \in Memory  BY NumberHas
      <4>4. ValueOf(Base, n.mem, i) \in Nat  BY <4>1, <4>3, MemoryValue
      <4>5. QED  BY <4>2, <4>4
    <3>4. q * ValueOf(Base, n.mem, i) \in Nat  BY <1>2, <3>3
    <3>5. QED  BY <3>2, <3>3, <3>4
  <2>2. QED  BY <2>1 DEF Positive
<1>8. /\ z \in Memory /\ Len(z) = k /\ c[k] \in Nat
      /\ ValueOf(Base, sum, k) + 0 = ValueOf(Base, z, k) + c[k] * (Base ** k)
      /\ \A m \in Nat : ValueOf(Base, sum, k) + 0 < m * (Base ** k) <=> c[k] < m
  <2>1. z = Carried(Base, sum, k, c) /\ c = Carries(Base, sum, k, 0)  BY DEF IsRow
  <2> HIDE DEF z
  <2>2. /\ z \in Memory /\ Len(z) = k
        /\ \A i \in 0 .. k :
              /\ c[i] \in Nat
              /\ ValueOf(Base, sum, i) + 0 = ValueOf(Base, z, i) + c[i] * (Base ** i)
              /\ ValueOf(Base, z, i) \in 0 .. (Base ** i) - 1
              /\ \A m \in Nat : ValueOf(Base, sum, i) + 0 < m * (Base ** i) <=> c[i] < m
    BY <1>0, <1>2, <1>6, <1>7, <2>1, CarryIs
  <2>3. QED  BY <1>2, <2>2, Zenon
<1> HIDE DEF z
<1>9. c[k] \in Octet
  <2>1. Base ** k \in Nat \ {0}  BY <1>0, BasePowers
  <2>2. q * Value(n) \in Int /\ q * Value(n) + Base ** k <= Base * (Base ** k)
    <3>1. q * Value(n) <= q * (Base ** k)
      <4>1. CASE q = 0
        <5>1. 0 * Value(n) = 0 /\ 0 * (Base ** k) = 0  BY <1>0, <2>1
        <5>2. QED  BY <4>1, <5>1
      <4>2. CASE q # 0
        <5>1. q \in Nat \ {0} /\ Value(n) \in Int /\ Base ** k \in Int /\ Value(n) <= Base ** k
          BY <1>0, <1>2, <2>1, <4>2
        <5>2. Value(n) * q <= (Base ** k) * q  BY <5>1, Multiples
        <5>3. Value(n) * q = q * Value(n) /\ (Base ** k) * q = q * (Base ** k)  BY <5>1
        <5>4. QED  BY <5>2, <5>3
      <4>3. QED  BY <4>1, <4>2
    <3>2. q * (Base ** k) + Base ** k <= Base * (Base ** k)  BY <1>2, <2>1, Multiples
    <3>3. q * Value(n) \in Int /\ q * (Base ** k) \in Int /\ Base * (Base ** k) \in Int  BY <1>0, <1>2, <2>1
    <3>4. QED  BY <2>1, <3>1, <3>2, <3>3
  <2>3. ValueOf(Base, sum, k) + 0 < Base * (Base ** k)
    <3>1. Base * (Base ** k) \in Int  BY <1>2, <2>1
    <3>2. QED  BY <1>6, <2>1, <2>2, <3>1
  <2>4. c[k] < Base  BY <1>2, <1>8, <2>3
  <2>5. QED  BY <1>2, <1>8, <2>4 DEF Octet
<1>10. /\ e \in Memory /\ Len(e) = k + 1 /\ ValueOf(Base, e, k + 1) = ValueOf(Base, o, k) + q * Value(n)
  <2>1. /\ e \in Memory /\ Len(e) = Len(z) + 1
        /\ ValueOf(Base, e, Len(z) + 1) = ValueOf(Base, z, Len(z)) + c[k] * (Base ** Len(z))
    BY <1>8, <1>9, AppendIs
  <2> HIDE DEF e
  <2>2. ValueOf(Base, o, k) \in Nat  BY <1>5, <1>2, MemoryValue
  <2>3. ValueOf(Base, sum, k) \in Int  BY <1>0, <1>2, <1>6, Values
  <2>4. QED  BY <1>6, <1>8, <2>1, <2>3
<1>11. /\ r \in Memory /\ Len(r) = Len(p)
       /\ \A i \in 1 .. Len(p) : r[i] = IF i >= j /\ i < j + Len(e) THEN e[i - j + 1] ELSE p[i]
  <2>1. r = Put(p, j, e)  BY DEF e, z, IsRow
  <2> HIDE DEF e
  <2>2. j + Len(e) - 1 <= Len(p)  BY <1>0, <1>1, <1>10
  <2>3. QED  BY <1>10, <2>1, <2>2, PutIs
<1> HIDE DEF e
<1>12. ValueOf(Base, r, (j - 1) + (k + 1))
         = ValueOf(Base, r, j - 1) + (Base ** (j - 1)) * ValueOf(Base, e, k + 1)
  <2>1. Above(e, r, j - 1, k + 1)
    <3>1. ASSUME NEW i \in 1 .. k + 1 PROVE e[i] = r[(j - 1) + i]
      <4>1. (j - 1) + i \in 1 .. Len(p) /\ (j - 1) + i >= j /\ (j - 1) + i < j + Len(e)
            /\ ((j - 1) + i) - j + 1 = i
        <5>1. i >= 1 /\ i <= k + 1 /\ i \in Nat  BY <1>0
        <5>2. k + j <= Len(p) /\ Len(e) = k + 1  BY <1>10
        <5>3. j \in Nat /\ j >= 1 /\ k \in Nat /\ Len(p) \in Nat  BY <1>0, <1>1
        <5> HIDE DEF k
        <5>4. QED  BY ONLY <5>1, <5>2, <5>3
      <4>2. QED  BY <1>11, <4>1
    <3>2. QED  BY <3>1 DEF Above
  <2>2. Ints(r, (j - 1) + (k + 1))
    <3>1. (j - 1) + (k + 1) \in 0 .. Len(r)  BY <1>0, <1>1, <1>11
    <3>2. QED  BY <1>11, <3>1, MemoryIs
  <2>3. j - 1 \in Nat /\ k + 1 \in Nat  BY <1>0
  <2>4. QED  BY <1>2, <2>1, <2>2, <2>3, SplitValue
<1>13. ValueOf(Base, p, (j - 1) + k) = ValueOf(Base, p, j - 1) + (Base ** (j - 1)) * ValueOf(Base, o, k)
  <2>1. Above(o, p, j - 1, k)  BY <1>4 DEF Above
  <2>2. Ints(p, (j - 1) + k)
    <3>1. (j - 1) + k \in 0 .. Len(p)  BY <1>0, <1>1
    <3>2. QED  BY <3>1, MemoryIs
  <2>3. j - 1 \in Nat  BY <1>0
  <2>4. QED  BY <1>0, <1>2, <2>1, <2>2, <2>3, SplitValue
<1>14. ValueOf(Base, r, j - 1) = ValueOf(Base, p, j - 1) /\ ValueOf(Base, p, j - 1) \in Int
  <2>1. Same(p, r, j - 1)
    <3>1. \A i \in 1 .. j - 1 : i \in 1 .. Len(p) /\ ~(i >= j)  BY <1>0, <1>1
    <3>2. QED  BY <1>11, <3>1 DEF Same
  <2>2. j - 1 \in 0 .. Len(p) /\ j - 1 \in Nat  BY <1>0, <1>1
  <2>3. Ints(p, j - 1)  BY <2>2, MemoryIs
  <2>4. ValueOf(Base, p, j - 1) \in Nat  BY <2>2, MemoryValue
  <2>5. QED  BY <1>2, <2>1, <2>2, <2>3, <2>4, SameDigits
<1>15. (j - 1) + (k + 1) = k + j /\ (j - 1) + k = k + j - 1  BY <1>0
<1>16. Base ** (j - 1) \in Int /\ ValueOf(Base, o, k) \in Int
  <2>1. j - 1 \in Nat  OBVIOUS
  <2>2. Base ** (j - 1) \in Int  BY <2>1, BasePowers
  <2>3. QED  BY <1>0, <1>2, <1>6, <2>2, Values
<1>17. \A a, b, s, t, u \in Int : a + b * (s + t * u) = (a + b * s) + (u * t) * b  OBVIOUS
<1>18. ValueOf(Base, p, j - 1) + (Base ** (j - 1)) * (ValueOf(Base, o, k) + q * Value(n))
         = (ValueOf(Base, p, j - 1) + (Base ** (j - 1)) * ValueOf(Base, o, k)) + (Value(n) * q) * (Base ** (j - 1))
  <2>1. Value(n) \in Int  BY <1>0
  <2>2. QED  BY <1>2, <1>14, <1>16, <1>17, <2>1
<1>19. QED  BY <1>10, <1>11, <1>12, <1>13, <1>14, <1>15, <1>18

\* Octets moved to the end of the memory are the number they were.
LEMMA MovedIs ==
  ASSUME NEW mem \in Memory, NEW d \in Memory, Len(d) <= Len(mem)
  PROVE  /\ MoveDown(mem, d) \in Memory /\ Len(MoveDown(mem, d)) = Len(mem)
         /\ \A i \in 1 .. Len(d) : MoveDown(mem, d)[i] = d[i]
         /\ \A k \in 0 .. Len(d) : ValueOf(Base, MoveDown(mem, d), k) = ValueOf(Base, d, k)
<1> DEFINE j == Len(mem) - Len(d) + 1
           u == Put(mem, j, d)
           w == Write(u, d)
<1>0. Len(mem) \in Nat /\ Len(d) \in Nat /\ Base \in Int  BY MemoryIs, BaseIs
<1>1. u \in Memory /\ Len(u) = Len(mem)
  <2>1. j \in Nat \ {0} /\ j + Len(d) - 1 <= Len(mem)  BY <1>0
  <2> HIDE DEF j
  <2>2. QED  BY <2>1, PutIs
<1>2. MoveDown(mem, d) = w  BY DEF MoveDown
<1> HIDE DEF u
<1>3. w \in Memory /\ Len(w) = Len(u) /\ \A i \in 1 .. Len(u) : w[i] = IF i <= Len(d) THEN d[i] ELSE u[i]
  <2>1. Len(d) <= Len(u)  BY <1>1
  <2>2. QED  BY <1>1, <2>1, WriteIs
<1> HIDE DEF w
<1>4. \A i \in 1 .. Len(d) : w[i] = d[i]
  <2>1. \A i \in 1 .. Len(d) : i \in 1 .. Len(u) /\ i <= Len(d)  BY <1>0, <1>1
  <2>2. QED  BY <1>3, <2>1
<1>5. ASSUME NEW k \in 0 .. Len(d) PROVE ValueOf(Base, w, k) = ValueOf(Base, d, k)
  <2>1. Same(d, w, k)
    <3>1. \A i \in 1 .. k : i \in 1 .. Len(d)  BY <1>0
    <3>2. QED  BY <1>4, <3>1 DEF Same
  <2>2. Ints(d, k) /\ k \in Nat  BY <1>0, MemoryIs
  <2>3. QED  BY <1>0, <2>1, <2>2, SameDigits
<1>6. QED  BY <1>1, <1>2, <1>3, <1>4, <1>5

\* The product of a number and some octets, in its own memory or in a new one.
LEMMA TimesIs ==
  ASSUME NEW n, IsNumber(n), NEW k \in Nat, NEW d, \A i \in 1 .. k : d[i] \in Octet,
         NEW room \in Nat \ {0}, n.payload + k <= room, NEW f \in Octet
  PROVE  Means(Times(n, d, k, room, f), Value(n) * ValueOf(Base, d, k))
<1> DEFINE in_place == Capacity(n) >= room + n.payload
           old(i) == IF in_place THEN n.mem[Capacity(n) - room + i] ELSE f
           first == [i \in 1 .. room |-> IF i <= n.payload THEN 0 ELSE old(i)]
           Sum(j, p) == [i \in 1 .. n.payload |-> n.mem[i] * d[j] + p[i + j - 1]]
           After(j, p) == LET sum == Sum(j, p)
                              c == Carries(Base, sum, n.payload, 0)
                          IN Put(p, j, Append(Carried(Base, sum, n.payload, c), c[n.payload]))
           S == {p \in Memory : Len(p) = room}
           step == [j \in 1 .. k |-> [p \in S |-> After(j, p)]]
<1>0. /\ n.mem \in Memory /\ Capacity(n) = Len(n.mem) /\ Len(n.mem) \in Nat /\ n.payload \in Nat
      /\ Value(n) \in Nat /\ Base \in Int /\ Len(n.mem) >= 1
      /\ (\A i \in 1 .. Len(n.mem) : n.mem[i] \in Octet)
  BY NumberHas, BaseIs
<1>1. ASSUME NEW j \in 1 .. k, NEW p \in S
      PROVE  /\ After(j, p) \in S
             /\ ValueOf(Base, After(j, p), n.payload + j)
                  = ValueOf(Base, p, n.payload + j - 1) + (Value(n) * d[j]) * (Base ** (j - 1))
  <2> DEFINE sum == Sum(j, p)
             c == Carries(Base, sum, n.payload, 0)
             r == Put(p, j, Append(Carried(Base, sum, n.payload, c), c[n.payload]))
  <2>1. IsRow(n, d[j], j, p, sum, c, r)  BY DEF IsRow
  <2>2. After(j, p) = r  OBVIOUS
  <2> HIDE DEF After, sum, c, r
  <2>3. d[j] \in Octet /\ j \in Nat \ {0} /\ p \in Memory /\ Len(p) = room /\ n.payload + j <= Len(p)
    <3>1. j <= k /\ Len(p) = room  OBVIOUS
    <3>2. QED  BY <1>0, <3>1
  <2>4. /\ r \in Memory /\ Len(r) = Len(p)
        /\ ValueOf(Base, r, n.payload + j)
             = ValueOf(Base, p, n.payload + j - 1) + (Value(n) * d[j]) * (Base ** (j - 1))
    BY <2>1, <2>3, RowIs
  <2>5. QED  BY <2>2, <2>3, <2>4
<1>2. first \in S
  <2>1. ASSUME NEW i \in 1 .. room PROVE (IF i <= n.payload THEN 0 ELSE old(i)) \in Octet
    <3>1. 0 \in Octet  BY OctetIs
    <3>2. CASE in_place
      <4>1. Capacity(n) - room + i \in 1 .. Len(n.mem)  BY <1>0, <3>2
      <4>2. n.mem[Capacity(n) - room + i] \in Octet  BY <1>0, <4>1
      <4>3. QED  BY <3>1, <3>2, <4>2
    <3>3. CASE ~in_place  BY <3>1, <3>3
    <3>4. QED  BY <3>2, <3>3
  <2> HIDE DEF old
  <2>2. first \in [1 .. room -> Octet]  BY <2>1
  <2>3. room \in Nat  OBVIOUS
  <2> HIDE DEF first
  <2>4. QED  BY <2>2, <2>3, FunctionIsMemory
<1>3. \A i \in 1 .. n.payload : first[i] = 0
  <2>1. \A i \in 1 .. n.payload : i \in 1 .. room /\ i <= n.payload  BY <1>0
  <2> HIDE DEF old
  <2>2. QED  BY <2>1
<1> HIDE DEF After, S
<1>4. step \in [1 .. k -> [S -> S]] /\ \A j \in 1 .. k, p \in S : step[j][p] = After(j, p)  BY <1>1
<1> HIDE DEF step
<1> DEFINE row == CHOOSE g : g = [j \in 0 .. k |-> IF j = 0 THEN first ELSE After(j, g[j - 1])]
<1>5. /\ row[0] = first /\ (\A j \in 0 .. k : row[j] \in S)
      /\ \A j \in 1 .. k : row[j] = After(j, row[j - 1])
  <2> HIDE DEF first
  <2>1. PICK g \in [0 .. k -> S] : Computed(g, k, first, step)  BY <1>2, <1>4, Chain
  <2>2. g = [j \in 0 .. k |-> IF j = 0 THEN first ELSE step[j][g[j - 1]]]  BY <2>1 DEF Computed
  <2>3. \A j \in 1 .. k : j - 1 \in 0 .. k /\ g[j - 1] \in S /\ j # 0 /\ j \in 0 .. k  BY <2>1
  <2>4. g = [j \in 0 .. k |-> IF j = 0 THEN first ELSE After(j, g[j - 1])]
    <3>1. ASSUME NEW j \in 0 .. k
          PROVE  (IF j = 0 THEN first ELSE step[j][g[j - 1]]) = IF j = 0 THEN first ELSE After(j, g[j - 1])
      <4>1. j # 0 => j \in 1 .. k  OBVIOUS
      <4>2. QED  BY <1>4, <2>3, <4>1
    <3>2. QED  BY <2>2, <3>1
  <2>5. row = [j \in 0 .. k |-> IF j = 0 THEN first ELSE After(j, row[j - 1])]  BY <2>4
  <2> HIDE DEF row
  <2>6. row[0] = first /\ \A j \in 1 .. k : row[j] = After(j, row[j - 1])
    <3>1. 0 \in 0 .. k  OBVIOUS
    <3>2. QED  BY <2>3, <2>5, <3>1
  <2>7. 0 .. k \subseteq {j \in Nat : row[j] \in S}
    <3> DEFINE Good == {j \in Nat : row[j] \in S}
    <3>1. 0 \in Good  BY <1>2, <2>6
    <3>2. \A j \in 1 .. k : j - 1 \in Good => j \in Good  BY <1>1, <2>6
    <3> HIDE DEF Good
    <3>3. 0 .. k \subseteq Good  BY <3>1, <3>2, UpTo
    <3>4. QED  BY <3>3 DEF Good
  <2>8. QED  BY <2>6, <2>7
<1>6. Times(n, d, k, room, f)
        = skip_leading_zeros(IF in_place THEN MoveDown(n.mem, row[k]) ELSE row[k], n.payload + k)
  BY DEF Times, After
<1> HIDE DEF row, first, in_place
<1>7. Ints(d, k)  BY OctetIs DEF Ints
<1>8. \A j \in 0 .. k : ValueOf(Base, row[j], n.payload + j) = Value(n) * ValueOf(Base, d, j)
  <2> DEFINE Good == {j \in Nat : ValueOf(Base, row[j], n.payload + j) = Value(n) * ValueOf(Base, d, j)}
  <2>1. 0 \in Good
    <3>1. ValueOf(Base, d, 0) = 0 /\ 0 \in 0 .. k  BY <1>0, <1>7, Values
    <3>2. row[0] = first /\ first \in Memory /\ Len(first) = room  BY <1>2, <1>5 DEF S
    <3>3. n.payload \in 0 .. Len(first) /\ 0 \in 0 .. n.payload  BY <1>0, <3>2
    <3>4. Ints(first, n.payload) /\ Zeros(first, 0 + 1, n.payload)  BY <1>3, <3>2, <3>3, MemoryIs DEF Zeros
    <3>5. ValueOf(Base, first, n.payload) = ValueOf(Base, first, 0)  BY <1>0, <3>3, <3>4, ZerosAbove
    <3>6. ValueOf(Base, first, 0) = 0  BY <1>0, <3>4, Values
    <3>7. Value(n) * 0 = 0 /\ n.payload + 0 = n.payload  BY <1>0
    <3>8. QED  BY <3>1, <3>2, <3>5, <3>6, <3>7
  <2>2. ASSUME NEW j \in 1 .. k, j - 1 \in Good PROVE j \in Good
    <3>1. j - 1 \in 0 .. k /\ j - 1 \in Nat /\ n.payload + (j - 1) = n.payload + j - 1 /\ j \in Nat
      BY <1>0
    <3>2. row[j - 1] \in S /\ row[j] = After(j, row[j - 1])  BY <1>5, <3>1
    <3>3. ValueOf(Base, row[j], n.payload + j)
            = ValueOf(Base, row[j - 1], n.payload + j - 1) + (Value(n) * d[j]) * (Base ** (j - 1))
      BY <1>1, <3>2
    <3>4. ValueOf(Base, row[j - 1], n.payload + j - 1) = Value(n) * ValueOf(Base, d, j - 1)
      BY <2>2, <3>1
    <3>5. ValueOf(Base, d, j) = ValueOf(Base, d, j - 1) + d[j] * (Base ** (j - 1))  BY <1>0, <1>7, Values
    <3>6. ValueOf(Base, d, j - 1) \in Int /\ d[j] \in Int /\ Base ** (j - 1) \in Int
      <4>1. ValueOf(Base, d, j - 1) \in Int  BY <1>0, <1>7, <3>1, Values
      <4>2. d[j] \in Octet  OBVIOUS
      <4>3. Base ** (j - 1) \in Int  BY <3>1, BasePowers
      <4>4. QED  BY <4>1, <4>2, <4>3, OctetIs
    <3>7. \A p, q, r, s \in Int : p * q + (p * r) * s = p * (q + r * s)  OBVIOUS
    <3>8. Value(n) \in Int  BY <1>0
    <3>9. Value(n) * ValueOf(Base, d, j - 1) + (Value(n) * d[j]) * (Base ** (j - 1))
            = Value(n) * (ValueOf(Base, d, j - 1) + d[j] * (Base ** (j - 1)))
      BY <3>6, <3>7, <3>8
    <3>10. QED  BY <3>1, <3>3, <3>4, <3>5, <3>9
  <2>3. 0 .. k \subseteq Good
    <3> HIDE DEF Good
    <3>1. QED  BY <2>1, <2>2, UpTo
  <2>4. QED  BY <2>3
<1> DEFINE mem == IF in_place THEN MoveDown(n.mem, row[k]) ELSE row[k]
           last == n.payload + k
<1>9. k \in 0 .. k /\ row[k] \in Memory /\ Len(row[k]) = room /\ last \in Nat /\ last <= room /\ last \in 0 .. room
  <2>1. k \in 0 .. k  OBVIOUS
  <2>2. QED  BY <1>0, <1>5, <2>1 DEF S
<1>10. mem \in Memory /\ Len(mem) >= 1 /\ last \in 0 .. Len(mem) /\ ValueOf(Base, mem, last) = ValueOf(Base, row[k], last)
  <2>1. CASE in_place
    <3>1. Len(row[k]) <= Len(n.mem)  BY <1>0, <1>9, <2>1 DEF in_place
    <3>2. mem = MoveDown(n.mem, row[k])  BY <2>1
    <3>3. last \in 0 .. Len(row[k])  BY <1>9
    <3> HIDE DEF mem, last
    <3>4. mem \in Memory /\ Len(mem) = Len(n.mem) /\ ValueOf(Base, mem, last) = ValueOf(Base, row[k], last)
      BY <1>0, <1>9, <3>1, <3>2, <3>3, MovedIs
    <3>5. QED  BY <1>0, <1>9, <3>1, <3>4
  <2>2. CASE ~in_place  BY <1>9, <2>2
  <2>3. QED  BY <2>1, <2>2
<1>11. ValueOf(Base, row[k], last) = Value(n) * ValueOf(Base, d, k)  BY <1>8, <1>9
<1>12. Times(n, d, k, room, f) = skip_leading_zeros(mem, last)  BY <1>6
<1> HIDE DEF mem, last
<1>13. Means(skip_leading_zeros(mem, last), ValueOf(Base, mem, last))  BY <1>10, SkipIs
<1>14. QED  BY <1>10, <1>11, <1>12, <1>13

\* operator*= of an unsigned long long and of a Natural, itself included.
LEMMA TimesFixnumIs ==
  ASSUME NEW n, IsNumber(n), NEW v \in Fixnum, NEW f \in Octet
  PROVE  Means(TimesFixnum(n, v, f), Value(n) * v)
<1>0. /\ n.payload \in Nat /\ Value(n) \in Nat /\ (is_zero(n) <=> n.payload = 0)
      /\ (n.payload = 0 <=> Value(n) = 0)
  BY NumberHas
<1>1. /\ v \in Nat /\ FixnumSize(v) \in 0 .. W /\ FixnumOctets(v) \in Memory
      /\ Len(FixnumOctets(v)) = FixnumSize(v)
      /\ ValueOf(Base, FixnumOctets(v), FixnumSize(v)) = v
  BY FixnumIs
<1>2. CASE is_zero(n)
  <2>1. TimesFixnum(n, v, f) = n /\ Value(n) * v = Value(n)  BY <1>0, <1>1, <1>2 DEF TimesFixnum
  <2>2. QED  BY <2>1 DEF Means
<1>3. CASE ~is_zero(n) /\ v < Base
  <2>1. v \in Octet /\ n.payload > 0  BY <1>0, <1>1, <1>3, BaseIs DEF Octet
  <2>2. QED  BY <1>3, <2>1, TimesDigitIs DEF TimesFixnum
<1>4. CASE ~is_zero(n) /\ ~(v < Base)
  <2> DEFINE d == FixnumOctets(v)
             k == FixnumSize(v)
             room == n.payload + W
  <2>1. TimesFixnum(n, v, f) = Times(n, d, k, room, f)  BY <1>4 DEF TimesFixnum
  <2>2. k \in Nat /\ room \in Nat \ {0} /\ n.payload + k <= room  BY <1>0, <1>1, BaseIs
  <2>3. \A i \in 1 .. k : d[i] \in Octet  BY <1>1, MemoryIs
  <2>4. ValueOf(Base, d, k) = v  BY <1>1
  <2> HIDE DEF d, k, room
  <2>5. Means(Times(n, d, k, room, f), Value(n) * ValueOf(Base, d, k))  BY <2>2, <2>3, TimesIs
  <2>6. QED  BY <2>1, <2>4, <2>5
<1>5. QED  BY <1>2, <1>3, <1>4

\* operator*= of a Natural, which may be the number itself.
LEMMA TimesNaturalIs ==
  ASSUME NEW n, IsNumber(n), NEW rhs, IsNumber(rhs), NEW f \in Octet
  PROVE  Means(TimesNatural(n, rhs, f), Value(n) * Value(rhs))
<1>0. /\ n.payload \in Nat /\ Value(n) \in Nat /\ (is_zero(n) <=> n.payload = 0)
      /\ (n.payload = 0 <=> Value(n) = 0)
  BY NumberHas
<1>1. /\ rhs.payload \in Nat /\ Value(rhs) \in Nat /\ (is_zero(rhs) <=> rhs.payload = 0)
      /\ (rhs.payload = 0 <=> Value(rhs) = 0) /\ Value(rhs) = ValueOf(Base, rhs.mem, rhs.payload)
      /\ Len(rhs.mem) \in Nat /\ rhs.payload <= Len(rhs.mem)
      /\ (\A i \in 1 .. Len(rhs.mem) : rhs.mem[i] \in Octet)
  BY NumberHas
<1>2. CASE is_zero(n)
  <2>1. TimesNatural(n, rhs, f) = n /\ Value(n) * Value(rhs) = Value(n)
    BY <1>0, <1>1, <1>2 DEF TimesNatural
  <2>2. QED  BY <2>1 DEF Means
<1>3. CASE ~is_zero(n) /\ rhs.payload > 1
  <2> DEFINE k == rhs.payload
             room == n.payload + k
  <2>1. TimesNatural(n, rhs, f) = Times(n, rhs.mem, k, room, f)  BY <1>3 DEF TimesNatural
  <2>2. k \in Nat /\ room \in Nat \ {0} /\ n.payload + k <= room  BY <1>0, <1>1, <1>3
  <2>3. \A i \in 1 .. k : rhs.mem[i] \in Octet
    <3>1. \A i \in 1 .. k : i \in 1 .. Len(rhs.mem)  BY <1>1
    <3>2. QED  BY <1>1, <3>1
  <2>4. Value(rhs) = ValueOf(Base, rhs.mem, k)  BY <1>1
  <2> HIDE DEF k, room
  <2>5. Means(Times(n, rhs.mem, k, room, f), Value(n) * ValueOf(Base, rhs.mem, k))  BY <2>2, <2>3, TimesIs
  <2>6. QED  BY <2>1, <2>4, <2>5
<1>4. CASE ~is_zero(n) /\ ~(rhs.payload > 1) /\ is_zero(rhs)
  <2>1. TimesNatural(n, rhs, f) = bzero(n) /\ Value(n) * Value(rhs) = 0
    BY <1>0, <1>1, <1>4 DEF TimesNatural
  <2>2. QED  BY <2>1, ZeroIs
<1>5. CASE ~is_zero(n) /\ ~(rhs.payload > 1) /\ ~is_zero(rhs)
  <2>1. rhs.payload = 1 /\ n.payload > 0  BY <1>0, <1>1, <1>5
  <2>2. rhs.mem[1] \in Octet /\ Value(rhs) = rhs.mem[1]  BY <2>1, OneOctetValue
  <2>3. QED  BY <1>5, <2>1, <2>2, TimesDigitIs DEF TimesNatural
<1>6. QED  BY <1>2, <1>3, <1>4, <1>5

-----------------------------------------------------------------------------
(***************************************************************************)
(* Part 11. Division by an unsigned long long.                             *)
(***************************************************************************)
Descends(f, n, start, step) ==
  f = [i \in 1 .. n + 1 |-> IF i > n THEN start ELSE step[i][f[i + 1]]]

\* A loop from the highest octet to the lowest one.
LEMMA Descent ==
  ASSUME NEW n \in Nat, NEW S, NEW start \in S, NEW step \in [1 .. n -> [S -> S]]
  PROVE  \E f \in [1 .. n + 1 -> S] : Descends(f, n, start, step)
<1> DEFINE up == [i \in 1 .. n |-> step[n + 1 - i]]
<1>1. up \in [1 .. n -> [S -> S]]
  <2>1. \A i \in 1 .. n : n + 1 - i \in 1 .. n  OBVIOUS
  <2>2. QED  BY <2>1
<1>2. \A i \in 1 .. n : up[i] = step[n + 1 - i]  OBVIOUS
<1> HIDE DEF up
<1>3. PICK g \in [0 .. n -> S] : Computed(g, n, start, up)  BY <1>1, Chain
<1>4. g = [i \in 0 .. n |-> IF i = 0 THEN start ELSE up[i][g[i - 1]]]  BY <1>3 DEF Computed
<1> DEFINE f == [i \in 1 .. n + 1 |-> g[n + 1 - i]]
<1>5. \A i \in 1 .. n + 1 : n + 1 - i \in 0 .. n  OBVIOUS
<1>6. f \in [1 .. n + 1 -> S]  BY <1>3, <1>5
<1>7. ASSUME NEW i \in 1 .. n + 1 PROVE g[n + 1 - i] = IF i > n THEN start ELSE step[i][f[i + 1]]
  <2>1. CASE i > n
    <3>1. n + 1 - i = 0 /\ 0 \in 0 .. n  BY <2>1
    <3>2. g[0] = start  BY <1>4, <3>1
    <3>3. QED  BY <2>1, <3>1, <3>2
  <2>2. CASE ~(i > n)
    <3>1. n + 1 - i \in 1 .. n /\ n + 1 - i # 0 /\ n + 1 - (n + 1 - i) = i /\ i + 1 \in 1 .. n + 1
          /\ n + 1 - (i + 1) = (n + 1 - i) - 1
      BY <2>2
    <3>2. g[n + 1 - i] = up[n + 1 - i][g[(n + 1 - i) - 1]]  BY <1>4, <1>5, <3>1
    <3>3. up[n + 1 - i] = step[i]  BY <1>2, <3>1
    <3>4. f[i + 1] = g[(n + 1 - i) - 1]  BY <3>1
    <3>5. QED  BY <2>2, <3>2, <3>3, <3>4
  <2>3. QED  BY <2>1, <2>2
<1>8. f = [i \in 1 .. n + 1 |-> IF i > n THEN start ELSE step[i][f[i + 1]]]  BY <1>7
<1> HIDE DEF f
<1>9. Descends(f, n, start, step)  BY <1>8 DEF Descends
<1>10. QED  BY <1>6, <1>9

\* A small fixnum has few octets.
LEMMA FewOctets ==
  ASSUME NEW v \in Fixnum, NEW k \in Nat, v < Base ** k
  PROVE  FixnumSize(v) <= k
<1> DEFINE s == FixnumSize(v)
           d == FixnumOctets(v)
<1>1. v \in Nat /\ s \in 0 .. W /\ d \in Memory /\ Len(d) = s /\ (s > 0 => d[s] # 0) /\ ValueOf(Base, d, s) = v
  BY FixnumIs
<1> HIDE DEF s, d
<1>2. s \in Nat /\ s \in 0 .. Len(d)  BY <1>1, BaseIs
<1>3. s > 0 => v >= Base ** (s - 1)  BY <1>1, <1>2, MemoryValue
<1>4. ASSUME s > k PROVE FALSE
  <2>1. s - 1 \in Nat /\ k <= s - 1 /\ s > 0  BY <1>2, <1>4
  <2>2. Base ** k <= Base ** (s - 1) /\ Base ** k \in Nat /\ Base ** (s - 1) \in Nat  BY <2>1, BasePowers
  <2>3. QED  BY <1>1, <1>3, <2>1, <2>2
<1>5. QED  BY <1>2, <1>4 DEF s

\* The quotient, the remainder, and where they are.
Results(r, o, oremainder, quotient, remainder) ==
  /\ oremainder = "none" => Means(r[1], quotient) /\ r[2] = o
  /\ oremainder = "this" => Means(r[1], remainder) /\ r[2] = o
  /\ oremainder = "other" => Means(r[1], quotient) /\ Means(r[2], remainder)

\* The remainder of a division by a fixnum goes where oremainder says.
LEMMA PutRemainderIs ==
  ASSUME NEW q, NEW quotient, Means(q, quotient), NEW o, IsNumber(o), NEW oremainder \in Oremainders,
         NEW v \in Fixnum, FixnumSize(v) <= Capacity(q), oremainder = "other" => Capacity(o) >= W
  PROVE  Results(PutRemainder(q, o, oremainder, v), o, oremainder, quotient, v)
<1>0. FixnumSize(v) \in 0 .. W /\ FixnumSize(v) \in Nat /\ W \in Nat  BY FixnumIs, BaseIs
<1>1. q.mem \in Memory /\ Len(q.mem) >= 1 /\ Capacity(q) = Len(q.mem)  BY NumberHas DEF Means
<1>2. o.mem \in Memory /\ Len(o.mem) \in Nat /\ Len(o.mem) >= 1 /\ Capacity(o) = Len(o.mem)  BY NumberHas
<1>3. CASE oremainder = "none"
  <2>1. PutRemainder(q, o, oremainder, v) = <<q, o>>  BY <1>3 DEF PutRemainder
  <2>2. QED  BY <1>3, <2>1 DEF Results
<1>4. CASE oremainder = "this"
  <2>1. PutRemainder(q, o, oremainder, v) = <<replaced_by_fixnum(q, v), o>>  BY <1>4 DEF PutRemainder
  <2>2. Means(replaced_by_fixnum(q, v), v)  BY <1>1, ReplacedByFixnum
  <2>3. QED  BY <1>4, <2>1, <2>2 DEF Results
<1>5. CASE oremainder = "other"
  <2>1. PutRemainder(q, o, oremainder, v) = <<q, replaced_by_fixnum(o, v)>>  BY <1>5 DEF PutRemainder
  <2>2. FixnumSize(v) <= Len(o.mem)  BY <1>0, <1>2, <1>5
  <2>3. Means(replaced_by_fixnum(o, v), v)  BY <1>2, <2>2, ReplacedByFixnum
  <2>4. QED  BY <1>5, <2>1, <2>3 DEF Results
<1>6. QED  BY <1>3, <1>4, <1>5 DEF Oremainders

\* A number smaller than the divisor is the remainder.
LEMMA AllRemainsIs ==
  ASSUME NEW n, IsNumber(n), NEW o, IsNumber(o), NEW oremainder \in Oremainders, NEW f \in Octet
  PROVE  Results(AllRemains(n, o, oremainder, f), o, oremainder, 0, Value(n))
<1>0. Means(bzero(n), 0) /\ Means(n, Value(n)) /\ Means(Assign(o, n, f), Value(n))
  BY ZeroIs, AssignIs DEF Means
<1>3. CASE oremainder = "none"
  <2>1. AllRemains(n, o, oremainder, f) = <<bzero(n), o>>  BY <1>3 DEF AllRemains
  <2>2. QED  BY <1>0, <1>3, <2>1 DEF Results
<1>4. CASE oremainder = "this"
  <2>1. AllRemains(n, o, oremainder, f) = <<n, o>>  BY <1>4 DEF AllRemains
  <2>2. QED  BY <1>0, <1>4, <2>1 DEF Results
<1>5. CASE oremainder = "other"
  <2>1. AllRemains(n, o, oremainder, f) = <<bzero(n), Assign(o, n, f)>>  BY <1>5 DEF AllRemains
  <2>2. QED  BY <1>0, <1>5, <2>1 DEF Results
<1>6. QED  BY <1>3, <1>4, <1>5 DEF Oremainders

\* Numbers smaller than the divisor.
LEMMA SmallDividend ==
  ASSUME NEW v \in Nat \ {0}, NEW n \in Nat, n < v
  PROVE  n \div v = 0 /\ n % v = n
<1>1. 0 \in Int /\ n \in 0 .. v - 1 /\ n = v * 0 + n  OBVIOUS
<1>2. QED  BY <1>1, DivisionIsUnique

AreRemainders(n, v, rest, q) ==
  /\ rest[n.payload + 1] = 0
  /\ \A i \in 1 .. n.payload + 1 : rest[i] \in 0 .. v - 1
  /\ \A i \in 1 .. n.payload : /\ q[i] = (rest[i + 1] * Base + n.mem[i]) \div v
                               /\ rest[i] = (rest[i + 1] * Base + n.mem[i]) % v

\* The remainders of the dividend's octets, from the highest to the lowest.
LEMMA RemaindersAre ==
  ASSUME NEW n, IsNumber(n), NEW v \in Nat \ {0}, NEW rest, NEW q, AreRemainders(n, v, rest, q)
  PROVE  /\ DigitsOf(Base, q, n.payload)
         /\ ValueOf(Base, q, n.payload) = Value(n) \div v /\ rest[1] = Value(n) % v
<1> DEFINE k == n.payload
           z == [i \in 1 .. k |-> q[i] * v]
           t == [i \in 0 .. k |-> 0 - rest[i + 1]]
<1>0. /\ k \in Nat /\ Len(n.mem) \in Nat /\ k <= Len(n.mem) /\ Ints(n.mem, k)
      /\ (\A i \in 1 .. Len(n.mem) : n.mem[i] \in Octet)
      /\ Value(n) = ValueOf(Base, n.mem, k) /\ Value(n) \in Nat
      /\ Base \in Nat \ {0, 1} /\ Base \in Int /\ k \in 0 .. k
  BY NumberHas, BaseIs
<1>1. \A i \in 1 .. k : i \in 1 .. Len(n.mem) /\ i \in 1 .. k + 1 /\ i + 1 \in 1 .. k + 1
                        /\ i - 1 \in 0 .. k /\ i \in 0 .. k /\ (i - 1) + 1 = i
  BY <1>0
<1>2. \A a \in 0 .. v - 1, b \in 0 .. Base - 1 :
        a * Base + b \in Nat /\ a * Base + b < Base * v /\ a * Base = Base * a
  <2> SUFFICES ASSUME NEW a \in 0 .. v - 1, NEW b \in 0 .. Base - 1
               PROVE  a * Base + b \in Nat /\ a * Base + b < Base * v /\ a * Base = Base * a
    OBVIOUS
  <2>1. a * Base + Base <= v * Base
    <3>1. a \in Int /\ v \in Int /\ a < v /\ Base \in Nat \ {0}  BY <1>0
    <3>2. QED  BY <3>1, Multiples
  <2>2. a * Base \in Nat /\ v * Base = Base * v /\ a * Base = Base * a /\ v * Base \in Nat  BY <1>0
  <2>3. QED  BY <1>0, <2>1, <2>2
<1>3. \A i \in 1 .. k :
        /\ rest[i] \in 0 .. v - 1 /\ rest[i + 1] \in 0 .. v - 1 /\ n.mem[i] \in 0 .. Base - 1
        /\ rest[i + 1] * Base + n.mem[i] = v * q[i] + rest[i] /\ q[i] \in 0 .. Base - 1
  <2> SUFFICES ASSUME NEW i \in 1 .. k
               PROVE  /\ rest[i] \in 0 .. v - 1 /\ rest[i + 1] \in 0 .. v - 1 /\ n.mem[i] \in 0 .. Base - 1
                      /\ rest[i + 1] * Base + n.mem[i] = v * q[i] + rest[i] /\ q[i] \in 0 .. Base - 1
    OBVIOUS
  <2>1. rest[i] \in 0 .. v - 1 /\ rest[i + 1] \in 0 .. v - 1 /\ n.mem[i] \in 0 .. Base - 1
    <3>1. rest[i] \in 0 .. v - 1 /\ rest[i + 1] \in 0 .. v - 1  BY <1>1 DEF AreRemainders
    <3>2. QED  BY <1>0, <1>1, <3>1 DEF Octet
  <2> DEFINE a == rest[i + 1] * Base + n.mem[i]
  <2>2. a \in Nat /\ a < Base * v  BY <1>2, <2>1
  <2>3. q[i] = a \div v /\ rest[i] = a % v  BY DEF AreRemainders
  <2> HIDE DEF a
  <2>4. a \div v \in Nat /\ a = v * (a \div v) + (a % v)
    <3>1. a \in Int  BY <2>2
    <3>2. QED  BY <2>2, <3>1, Division
  <2>5. v * q[i] = q[i] * v /\ q[i] \in Nat  BY <2>3, <2>4
  <2>6. a = rest[i] + q[i] * v  BY <2>1, <2>3, <2>4, <2>5
  <2>7. q[i] < Base
    <3>1. q[i] \in Int /\ rest[i] \in 0 .. v - 1 /\ a \in Nat  BY <2>1, <2>2, <2>5
    <3>2. \A j \in Nat : a < j * v <=> q[i] < j  BY <2>6, <3>1, QuotientIs
    <3>3. Base \in Nat  BY <1>0
    <3>4. QED  BY <2>2, <3>2, <3>3
  <2>8. q[i] \in 0 .. Base - 1  BY <1>0, <2>5, <2>7
  <2>9. a = v * q[i] + rest[i]  BY <2>3, <2>4
  <2>10. QED  BY <2>1, <2>8, <2>9 DEF a
<1>4. DigitsOf(Base, q, k) /\ Ints(q, k)
  <2>1. \A i \in 1 .. k : q[i] \in 0 .. Base - 1 /\ q[i] \in Int  BY <1>0, <1>3
  <2>2. QED  BY <2>1 DEF DigitsOf, Ints
<1>5. (\A i \in 1 .. k : z[i] = q[i] * v) /\ \A i \in 0 .. k : t[i] = 0 - rest[i + 1]  OBVIOUS
<1> HIDE DEF z, t
<1>6. Ints(z, k) /\ ValueOf(Base, z, k) = ValueOf(Base, q, k) * v
  <2>1. v \in Int /\ k \in Nat /\ \A i \in 1 .. k : z[i] = q[i] * v  BY <1>0, <1>5
  <2> HIDE DEF k
  <2>2. QED  BY <1>4, <2>1, ScaledValue
<1>7. HandedOn(Base, n.mem, z, t, k)
  <2>1. ASSUME NEW i \in 1 .. k PROVE n.mem[i] + t[i - 1] = z[i] + Base * t[i]
    <3>1. t[i - 1] = 0 - rest[i] /\ t[i] = 0 - rest[i + 1] /\ z[i] = q[i] * v  BY <1>1, <1>5
    <3>2. /\ rest[i] \in Int /\ rest[i + 1] \in Int /\ n.mem[i] \in Int /\ q[i] \in Int
      BY <1>3
    <3>3. rest[i + 1] * Base + n.mem[i] = v * q[i] + rest[i]  BY <1>3
    <3>4. Base \in Int /\ v \in Int  BY <1>0
    <3>5. Base * (0 - rest[i + 1]) = 0 - rest[i + 1] * Base /\ rest[i + 1] * Base \in Int
          /\ q[i] * v = v * q[i] /\ v * q[i] \in Int
      BY <3>2, <3>4
    <3>6. \A a, b, c, d \in Int : a + b = c + d => b + (0 - d) = c + (0 - a)  OBVIOUS
    <3>7. n.mem[i] + (0 - rest[i]) = v * q[i] + (0 - rest[i + 1] * Base)
      <4> DEFINE a == rest[i + 1] * Base
                 c == v * q[i]
      <4>1. a \in Int /\ c \in Int /\ a + n.mem[i] = c + rest[i]  BY <3>3, <3>5
      <4> HIDE DEF a, c
      <4>2. n.mem[i] + (0 - rest[i]) = c + (0 - a)  BY <3>2, <3>6, <4>1
      <4>3. QED  BY <4>2 DEF a, c
    <3>8. 0 - rest[i + 1] * Base = Base * t[i]  BY <3>1, <3>5
    <3>9. n.mem[i] + t[i - 1] = v * q[i] + Base * t[i]  BY <3>1, <3>7, <3>8
    <3>10. QED  BY <3>1, <3>5, <3>9
  <2>2. \A i \in 0 .. k : t[i] \in Int
    <3>1. \A i \in 0 .. k : i + 1 \in 1 .. k + 1  BY <1>0
    <3>2. \A i \in 1 .. k + 1 : rest[i] \in Int  BY DEF AreRemainders
    <3>3. QED  BY <1>5, <3>1, <3>2
  <2>3. QED  BY <2>1, <2>2 DEF HandedOn
<1>8. Value(n) = v * ValueOf(Base, q, k) + rest[1]
  <2>1. ValueOf(Base, n.mem, k) + t[0] = ValueOf(Base, z, k) + t[k] * (Base ** k)
    BY <1>0, <1>6, <1>7, Telescope
  <2>2. t[0] = 0 - rest[1] /\ t[k] = 0 /\ rest[1] \in Int
    <3>1. 0 \in 0 .. k /\ 0 + 1 = 1 /\ 1 \in 1 .. k + 1  BY <1>0
    <3>2. rest[k + 1] = 0 /\ rest[1] \in Int  BY <3>1 DEF AreRemainders
    <3>3. QED  BY <1>0, <1>5, <3>1, <3>2
  <2>3. Base ** k \in Int /\ ValueOf(Base, q, k) \in Int
    <3>1. ValueOf(Base, q, k) \in Int  BY <1>0, <1>4, Values
    <3>0. k \in Nat  BY <1>0
    <3>2. Base ** k \in Nat \ {0}  BY <3>0, BasePowers
    <3>3. QED  BY <3>1, <3>2
  <2>4. t[k] * (Base ** k) = 0  BY <2>2, <2>3
  <2>5. ValueOf(Base, q, k) * v = v * ValueOf(Base, q, k) /\ v * ValueOf(Base, q, k) \in Int  BY <2>3
  <2>6. QED  BY <1>0, <1>6, <2>1, <2>2, <2>4, <2>5
<1>9. ValueOf(Base, q, k) = Value(n) \div v /\ rest[1] = Value(n) % v
  <2>1. ValueOf(Base, q, k) \in Int  BY <1>0, <1>4, Values
  <2>2. rest[1] \in 0 .. v - 1
    <3>1. 1 \in 1 .. k + 1  BY <1>0
    <3>2. QED  BY <3>1 DEF AreRemainders
  <2>3. Value(n) \in Int  BY <1>0
  <2>4. QED  BY <1>8, <2>1, <2>2, <2>3, DivisionIsUnique
<1>10. QED  BY <1>4, <1>9

\* The remainder and the quotient of two numbers are smaller than the number.
LEMMA PartsAreSmaller ==
  ASSUME NEW v \in Nat \ {0}, NEW n \in Nat
  PROVE  /\ n \div v \in Nat /\ n % v \in Nat /\ n \div v <= n /\ n % v <= n /\ n % v < v
         /\ \A p, r \in Nat \ {0} : r <= v /\ n < p * r => n \div v < p
<1>1. n \div v \in Nat /\ n % v \in 0 .. v - 1 /\ n = v * (n \div v) + (n % v)
  <2>1. n \in Int  OBVIOUS
  <2>2. n \div v \in Int /\ n % v \in 0 .. v - 1 /\ n = v * (n \div v) + (n % v)  BY <2>1, Division
  <2>3. n \div v \in Nat  BY <2>1, Division
  <2>4. QED  BY <2>2, <2>3
<1> DEFINE q == n \div v
           m == n % v
<1>2. q \in Nat /\ m \in 0 .. v - 1 /\ n = v * q + m  BY <1>1
<1> HIDE DEF q, m
<1>3. v * q >= q
  <2>1. (v - 1) * q \in Nat /\ (v - 1) * q = v * q - q  BY <1>2
  <2>2. v * q \in Int  BY <1>2
  <2>3. QED  BY <1>2, <2>1, <2>2
<1>4. q <= n /\ m <= n /\ m < v /\ m \in Nat
  <2>1. v * q \in Nat  BY <1>2
  <2>2. QED  BY <1>2, <1>3, <2>1
<1>5. ASSUME NEW p \in Nat \ {0}, NEW r \in Nat \ {0}, r <= v, n < p * r, q >= p PROVE FALSE
  <2>1. p * r \in Nat /\ q * r \in Nat /\ v * q \in Nat /\ q * r = r * q  BY <1>2
  <2>2. p * r <= q * r  BY <1>2, <1>5, Multiples
  <2>3. r * q <= v * q
    <3>1. q \in Nat \ {0} /\ r \in Int /\ v \in Int  BY <1>2, <1>5
    <3>2. QED  BY <1>5, <3>1, Multiples
  <2>4. QED  BY <1>2, <1>5, <2>1, <2>2, <2>3
<1>6. QED  BY <1>2, <1>4, <1>5 DEF q, m

\* A number below a fixnum is one.
LEMMA BelowFixnum == ASSUME NEW v \in Fixnum, NEW m \in Nat, m <= v PROVE m \in Fixnum
<1>1. v \in Nat /\ W \in Nat  BY FixnumIs, BaseIs
<1>2. Base ** W \in Nat  BY <1>1, BasePowers
<1>3. QED  BY <1>1, <1>2 DEF Fixnum

\* operator/= and %= of an unsigned long long of fewer octets than it may have, and
\* quotient_remainder.
LEMMA DivideFixnumIs ==
  ASSUME NEW n, IsNumber(n), NEW v \in Fixnum, FixnumSize(v) < W, NEW o, IsNumber(o),
         NEW oremainder \in Oremainders, NEW f \in Octet, oremainder = "other" => Capacity(o) >= W
  PROVE  LET r == DivideFixnum(n, v, o, oremainder, f) IN
         IF v = 0 /\ Value(n) # 0 THEN r = <<n, o>>
         ELSE Results(r, o, oremainder, IF v = 0 THEN 0 ELSE Value(n) \div v, IF v = 0 THEN 0 ELSE Value(n) % v)
<1> DEFINE k == n.payload
           skipped == IF v < Base THEN 0 ELSE FixnumSize(v) - 1
           dividend(r, i) == (r * Base + n.mem[i]) % (Base ** W)
           rest == CHOOSE g : g = [i \in 1 .. n.payload + 1 |->
                                     IF i > n.payload THEN 0 ELSE dividend(g[i + 1], i) % v]
           quotient == [i \in 1 .. n.payload - skipped |-> dividend(rest[i + 1], i) \div v]
           value == DivideFixnum(n, v, o, oremainder, f)
<1>0. /\ n.mem \in Memory /\ Capacity(n) = Len(n.mem) /\ Len(n.mem) \in Nat /\ k \in Nat /\ k <= Len(n.mem)
      /\ Value(n) \in Nat /\ Value(n) < Base ** k /\ Len(n.mem) >= 1
      /\ (is_zero(n) <=> k = 0) /\ (k = 0 <=> Value(n) = 0)
      /\ (\A i \in 1 .. Len(n.mem) : n.mem[i] \in Octet)
  BY NumberHas
<1>a. Base \in Nat \ {0, 1} /\ W \in Nat  BY BaseIs
<1>b. /\ v \in Nat /\ FixnumSize(v) \in 0 .. W /\ FixnumSize(v) \in Nat
      /\ (FixnumSize(v) > 0 => v >= Base ** (FixnumSize(v) - 1)) /\ v < Base ** FixnumSize(v)
  <2>1. /\ v \in Nat /\ FixnumSize(v) \in 0 .. W /\ FixnumOctets(v) \in Memory
        /\ Len(FixnumOctets(v)) = FixnumSize(v)
        /\ FixnumSize(v) > 0 => FixnumOctets(v)[FixnumSize(v)] # 0
        /\ ValueOf(Base, FixnumOctets(v), FixnumSize(v)) = v
    BY FixnumIs
  <2> DEFINE s == FixnumSize(v)
             d == FixnumOctets(v)
  <2>2. s \in 0 .. Len(d) /\ s \in Nat /\ d \in Memory /\ ValueOf(Base, d, s) = v /\ (s > 0 => d[s] # 0)
    BY <1>a, <2>1
  <2> HIDE DEF s, d
  <2>3. v \in 0 .. (Base ** s) - 1 /\ (s > 0 => v >= Base ** (s - 1))  BY <2>2, MemoryValue
  <2>4. Base ** s \in Nat  BY <2>2, BasePowers
  <2>5. QED  BY <1>a, <2>1, <2>3, <2>4 DEF s
<1>c. 0 \in Fixnum /\ FixnumSize(0) = 0
  <2>1. 0 \in Fixnum  BY <1>b, BelowFixnum
  <2>2. 0 \in Nat /\ 0 < Base ** 0  BY <1>a, BasePowers
  <2>3. FixnumSize(0) <= 0  BY <2>1, <2>2, FewOctets
  <2>4. FixnumSize(0) \in 0 .. W  BY <2>1, FixnumIs
  <2>5. QED  BY <1>a, <2>1, <2>3, <2>4
<1>1. CASE is_zero(n)
  <2>1. value = PutRemainder(n, o, oremainder, 0)  BY <1>1 DEF DivideFixnum
  <2>2. Means(n, 0)  BY <1>0, <1>1 DEF Means
  <2>3. Results(PutRemainder(n, o, oremainder, 0), o, oremainder, 0, 0)
    <3>1. FixnumSize(0) <= Capacity(n)  BY <1>0, <1>c
    <3>2. QED  BY <1>c, <2>2, <3>1, PutRemainderIs
  <2>4. v # 0 => 0 \div v = 0 /\ 0 % v = 0
    <3>1. v # 0 => v \in Nat \ {0} /\ 0 < v /\ 0 \in Nat  BY <1>b
    <3>2. QED  BY <3>1, SmallDividend
  <2>5. Value(n) = 0  BY <1>0, <1>1
  <2> HIDE DEF value
  <2>6. QED  BY <2>1, <2>3, <2>4, <2>5 DEF value
<1>2. CASE ~is_zero(n) /\ v = 0
  <2>1. value = <<n, o>>  BY <1>2 DEF DivideFixnum
  <2>2. Value(n) # 0  BY <1>0, <1>2
  <2> HIDE DEF value
  <2>3. QED  BY <1>2, <2>1, <2>2 DEF value
<1>3. CASE ~is_zero(n) /\ v = 1
  <2>1. value = PutRemainder(n, o, oremainder, 0)  BY <1>3 DEF DivideFixnum
  <2>2. Value(n) \div 1 = Value(n) /\ Value(n) % 1 = 0
    <3>1. Value(n) \in Int /\ 0 \in 0 .. 1 - 1 /\ Value(n) = 1 * Value(n) + 0 /\ 1 \in Nat \ {0}  BY <1>0
    <3>2. QED  BY <3>1, DivisionIsUnique
  <2>3. Results(PutRemainder(n, o, oremainder, 0), o, oremainder, Value(n), 0)
    <3>1. FixnumSize(0) <= Capacity(n)  BY <1>0, <1>c
    <3>2. Means(n, Value(n))  BY DEF Means
    <3>3. QED  BY <1>c, <3>1, <3>2, PutRemainderIs
  <2> HIDE DEF value
  <2>4. QED  BY <1>3, <2>1, <2>2, <2>3 DEF value
<1>d. (skipped \in Nat /\ Base ** skipped <= v) \/ v = 0
  <2> SUFFICES ASSUME v # 0 PROVE skipped \in Nat /\ Base ** skipped <= v  OBVIOUS
  <2>1. CASE v < Base
    <3>1. Base ** 0 = 1  BY <1>a, BasePowers
    <3>2. QED  BY <1>b, <2>1, <3>1
  <2>2. CASE ~(v < Base)
    <3>1. FixnumSize(v) > 0
      <4>1. FixnumSize(v) = 0 => v < Base ** 0 /\ Base ** 0 = 1  BY <1>b, BasePowers
      <4>2. QED  BY <1>a, <1>b, <2>2, <4>1
    <3>2. QED  BY <1>b, <2>2, <3>1
  <2>3. QED  BY <2>1, <2>2
<1>4. CASE ~is_zero(n) /\ v # 0 /\ v # 1 /\ k <= skipped
  <2>1. value = AllRemains(n, o, oremainder, f)  BY <1>4 DEF DivideFixnum
  <2> HIDE DEF skipped
  <2>2. Value(n) < v
    <3>1. Base ** k <= Base ** skipped /\ Base ** k \in Nat /\ Base ** skipped \in Nat
      BY <1>0, <1>4, <1>d, BasePowers
    <3>2. QED  BY <1>0, <1>4, <1>b, <1>d, <3>1
  <2>3. Value(n) \div v = 0 /\ Value(n) % v = Value(n)
    <3>1. v \in Nat \ {0}  BY <1>4, <1>b
    <3>2. QED  BY <1>0, <2>2, <3>1, SmallDividend
  <2>4. Results(AllRemains(n, o, oremainder, f), o, oremainder, 0, Value(n))  BY AllRemainsIs
  <2> HIDE DEF value
  <2>5. QED  BY <1>4, <2>1, <2>3, <2>4 DEF value
<1>5. CASE ~is_zero(n) /\ v # 0 /\ v # 1 /\ ~(k <= skipped)
  <2>1. value = PutRemainder(skip_leading_zeros(Write(n.mem, quotient), k - skipped), o, oremainder, rest[1])
    BY <1>5 DEF DivideFixnum
  <2>2. v \in Nat \ {0} /\ skipped \in Nat /\ Base ** skipped <= v /\ skipped < k  BY <1>0, <1>5, <1>b, <1>d
  <2> HIDE DEF skipped, value
  <2>3. ASSUME NEW r \in 0 .. v - 1, NEW i \in 1 .. k PROVE dividend(r, i) = r * Base + n.mem[i]
    <3>1. i \in 1 .. Len(n.mem)  BY <1>0
    <3>2. n.mem[i] \in 0 .. Base - 1  BY <1>0, <3>1 DEF Octet
    <3>3. r * Base + Base <= v * Base /\ r * Base \in Nat /\ v * Base \in Nat
      <4>1. Base \in Nat \ {0} /\ r \in Int /\ v \in Int /\ r < v  BY <1>a, <2>2
      <4>2. r * Base + Base <= v * Base  BY <4>1, Multiples
      <4>3. QED  BY <1>a, <2>2, <4>2
    <3>4. v * Base <= Base ** W
      <4>1. FixnumSize(v) + 1 \in Nat /\ FixnumSize(v) + 1 <= W  BY <1>a, <1>b
      <4>2. Base ** (FixnumSize(v) + 1) <= Base ** W  BY <1>a, <4>1, BasePowers
      <4>3. Base ** (FixnumSize(v) + 1) = Base * (Base ** FixnumSize(v)) /\ Base ** FixnumSize(v) \in Nat
            /\ Base ** (FixnumSize(v) + 1) \in Nat
        BY <1>b, BasePowers
      <4>4. v * Base <= (Base ** FixnumSize(v)) * Base
        <5>1. Base \in Nat \ {0} /\ v \in Int /\ Base ** FixnumSize(v) \in Int /\ v <= Base ** FixnumSize(v)
          BY <1>a, <1>b, <4>3
        <5>2. QED  BY <5>1, Multiples
      <4>5. (Base ** FixnumSize(v)) * Base = Base * (Base ** FixnumSize(v))  BY <1>a, <4>3
      <4>6. Base ** W \in Nat  BY <1>a, BasePowers
      <4>7. QED  BY <3>3, <4>2, <4>3, <4>4, <4>5, <4>6
    <3>5. Base ** W \in Nat \ {0}  BY <1>a, BasePowers
    <3>6. r * Base + n.mem[i] \in Nat /\ r * Base + n.mem[i] < Base ** W  BY <1>a, <3>2, <3>3, <3>4, <3>5
    <3>7. (r * Base + n.mem[i]) % (Base ** W) = r * Base + n.mem[i]  BY <3>5, <3>6, SmallDividend
    <3>8. QED  BY <3>7
  <2> DEFINE S == 0 .. v - 1
             step == [i \in 1 .. k |-> [r \in S |-> dividend(r, i) % v]]
  <2>4. \A r \in S, i \in 1 .. k : dividend(r, i) % v \in S /\ dividend(r, i) \in Nat
    <3> SUFFICES ASSUME NEW r \in S, NEW i \in 1 .. k
                 PROVE  dividend(r, i) % v \in S /\ dividend(r, i) \in Nat
      OBVIOUS
    <3>1. i \in 1 .. Len(n.mem)  BY <1>0
    <3>2. n.mem[i] \in Nat /\ r * Base \in Nat  BY <1>0, <1>a, <3>1, OctetIs
    <3>3. dividend(r, i) \in Nat  BY <2>3, <3>2
    <3> HIDE DEF dividend
    <3>4. dividend(r, i) \in Int  BY <3>3
    <3>5. QED  BY <2>2, <3>3, <3>4, Division
  <2> HIDE DEF dividend
  <2>5. step \in [1 .. k -> [S -> S]] /\ \A i \in 1 .. k, r \in S : step[i][r] = dividend(r, i) % v  BY <2>4
  <2> HIDE DEF step
  <2>6. 0 \in S  BY <2>2
  <2> HIDE DEF S
  <2>7. PICK g \in [1 .. k + 1 -> S] : Descends(g, k, 0, step)  BY <1>0, <2>5, <2>6, Descent
  <2>8. rest \in [1 .. k + 1 -> S] /\ rest[k + 1] = 0 /\ \A i \in 1 .. k : rest[i] = dividend(rest[i + 1], i) % v
    <3>1. g = [i \in 1 .. k + 1 |-> IF i > k THEN 0 ELSE step[i][g[i + 1]]]  BY <2>7 DEF Descends
    <3>2. \A i \in 1 .. k : i + 1 \in 1 .. k + 1 /\ i \in 1 .. k + 1 /\ ~(i > k)  BY <1>0
    <3>3. \A i \in 1 .. k + 1 : ~(i > k) => i \in 1 .. k  BY <1>0
    <3>4. g = [i \in 1 .. k + 1 |-> IF i > k THEN 0 ELSE dividend(g[i + 1], i) % v]
      <4>1. ASSUME NEW i \in 1 .. k + 1
            PROVE  (IF i > k THEN 0 ELSE step[i][g[i + 1]]) = IF i > k THEN 0 ELSE dividend(g[i + 1], i) % v
        <5>1. ~(i > k) => i \in 1 .. k /\ g[i + 1] \in S  BY <2>7, <3>2, <3>3
        <5>2. QED  BY <2>5, <5>1
      <4>2. QED  BY <3>1, <4>1
    <3>5. rest = [i \in 1 .. k + 1 |-> IF i > k THEN 0 ELSE dividend(rest[i + 1], i) % v]  BY <3>4
    <3> HIDE DEF rest
    <3> DEFINE h == [i \in 1 .. k + 1 |-> rest[i]]
    <3>6. k + 1 \in 1 .. k + 1 /\ k + 1 > k  BY <1>0
    <3>7. rest[k + 1] = 0  BY <3>5, <3>6
    <3>8. \A i \in 1 .. k : rest[i] = dividend(rest[i + 1], i) % v  BY <3>2, <3>5
    <3>9. \A j \in 0 .. k : rest[k + 1 - j] \in S
      <4> DEFINE Good == {j \in Nat : rest[k + 1 - j] \in S}
      <4>1. 0 \in Good
        <5>1. k + 1 - 0 = k + 1  BY <1>0
        <5>2. QED  BY <2>6, <3>7, <5>1
      <4>2. ASSUME NEW j \in 1 .. k, j - 1 \in Good PROVE j \in Good
        <5>1. k + 1 - j \in 1 .. k /\ k + 1 - (j - 1) = (k + 1 - j) + 1 /\ j \in Nat  BY <1>0
        <5>2. rest[(k + 1 - j) + 1] \in S  BY <4>2, <5>1
        <5>3. rest[k + 1 - j] \in S  BY <2>4, <3>8, <5>1, <5>2
        <5>4. QED  BY <5>1, <5>3
      <4> HIDE DEF Good
      <4>3. 0 .. k \subseteq Good  BY <1>0, <4>1, <4>2, UpTo
      <4>4. QED  BY <4>3 DEF Good
    <3>10. \A i \in 1 .. k + 1 : rest[i] \in S
      <4>1. \A i \in 1 .. k + 1 : k + 1 - i \in 0 .. k /\ k + 1 - (k + 1 - i) = i  BY <1>0
      <4>2. QED  BY <3>9, <4>1
    <3>11. rest \in [1 .. k + 1 -> S]  BY <3>5, <3>10
    <3>12. QED  BY <3>7, <3>8, <3>11
  <2> HIDE DEF rest
  <2> DEFINE q == [i \in 1 .. k |-> dividend(rest[i + 1], i) \div v]
  <2>9. AreRemainders(n, v, rest, q)
    <3>1. \A i \in 1 .. k : q[i] = dividend(rest[i + 1], i) \div v  OBVIOUS
    <3> HIDE DEF q
    <3>2. \A i \in 1 .. k : i + 1 \in 1 .. k + 1  BY <1>0
    <3>3. \A i \in 1 .. k : rest[i + 1] \in 0 .. v - 1  BY <2>8, <3>2 DEF S
    <3>4. \A i \in 1 .. k : dividend(rest[i + 1], i) = rest[i + 1] * Base + n.mem[i]  BY <2>3, <3>3
    <3>5. \A i \in 1 .. k : q[i] = (rest[i + 1] * Base + n.mem[i]) \div v
                            /\ rest[i] = (rest[i + 1] * Base + n.mem[i]) % v
      BY <2>8, <3>1, <3>4
    <3>6. \A i \in 1 .. k + 1 : rest[i] \in 0 .. v - 1  BY <2>8 DEF S
    <3>7. QED  BY <2>8, <3>5, <3>6 DEF AreRemainders
  <2>10. /\ DigitsOf(Base, q, k)
         /\ ValueOf(Base, q, k) = Value(n) \div v /\ rest[1] = Value(n) % v
    <3> HIDE DEF q
    <3>1. QED  BY <2>2, <2>9, RemaindersAre
  \* The highest octets of the quotient are none, and are skipped.
  <2> DEFINE m == k - skipped
             Q == Value(n) \div v
             R == Value(n) % v
  <2>11. m \in Nat \ {0} /\ m <= k /\ m + skipped = k  BY <1>0, <2>2
  <2>12. Q \in Nat /\ R \in Nat /\ R <= Value(n) /\ R < v /\ Q < Base ** m
    <3>1. Q \in Nat /\ R \in Nat /\ R <= Value(n) /\ R < v  BY <1>0, <2>2, PartsAreSmaller
    <3>2. Base ** (m + skipped) = (Base ** m) * (Base ** skipped)
      <4>1. Base \in Int /\ m \in Nat  BY <1>a, <2>11
      <4>2. QED  BY <2>2, <4>1, PowerOfSum
    <3>3. Base ** m \in Nat \ {0} /\ Base ** skipped \in Nat \ {0}  BY <2>2, <2>11, BasePowers
    <3>4. Value(n) < (Base ** m) * (Base ** skipped)  BY <1>0, <2>11, <3>2
    <3>5. Q < Base ** m
      <4>1. \A p, r \in Nat \ {0} : r <= v /\ Value(n) < p * r => Value(n) \div v < p
        BY <1>0, <2>2, PartsAreSmaller
      <4>2. Q = Value(n) \div v  OBVIOUS
      <4> HIDE DEF Q, m
      <4>3. QED  BY <2>2, <3>3, <3>4, <4>1, <4>2
    <3>6. QED  BY <3>1, <3>5
  <2>13. quotient = [i \in 1 .. m |-> q[i]]
    <3>1. \A i \in 1 .. m : i \in 1 .. k  BY <1>0, <2>11
    <3>2. \A i \in 1 .. m : q[i] = dividend(rest[i + 1], i) \div v  BY <3>1
    <3> HIDE DEF q
    <3>3. QED  BY <3>2
  <2> HIDE DEF q, m, Q, R
  <2>14. quotient \in Memory /\ Len(quotient) = m /\ ValueOf(Base, quotient, m) = ValueOf(Base, q, m)
    <3>1. \A i \in 1 .. m : q[i] \in Octet
      <4>1. \A i \in 1 .. m : i \in 1 .. k  BY <1>0, <2>11
      <4>2. QED  BY <2>10, <4>1 DEF DigitsOf, Octet
    <3>2. quotient \in [1 .. m -> Octet] /\ \A i \in 1 .. m : quotient[i] = q[i]  BY <2>13, <3>1
    <3> HIDE DEF quotient
    <3>3. quotient \in Memory /\ Len(quotient) = m  BY <2>11, <3>2, FunctionIsMemory
    <3>4. Same(quotient, q, m)  BY <3>2 DEF Same
    <3>5. Ints(quotient, m) /\ Base \in Int /\ m \in Nat
      <4>1. m \in 0 .. Len(quotient)  BY <2>11, <3>3
      <4>2. QED  BY <1>a, <2>11, <3>3, <4>1, MemoryIs
    <3>6. QED  BY <3>3, <3>4, <3>5, SameDigits
  <2> HIDE DEF quotient
  <2>15. ValueOf(Base, q, m) = Q
    <3> DEFINE e == [i \in 1 .. skipped |-> q[m + i]]
    <3>1. Above(e, q, m, skipped)  BY DEF Above
    <3>2. \A i \in 1 .. skipped : e[i] \in 0 .. Base - 1
      <4>1. \A i \in 1 .. skipped : m + i \in 1 .. k  BY <1>0, <2>2, <2>11
      <4>2. \A i \in 1 .. skipped : q[m + i] \in 0 .. Base - 1  BY <2>10, <4>1 DEF DigitsOf
      <4>3. QED  BY <4>2
    <3> HIDE DEF e
    <3>3. DigitsOf(Base, e, skipped) /\ skipped \in 0 .. skipped /\ m \in 0 .. k /\ k \in 0 .. k
      BY <1>0, <2>2, <2>11, <3>2 DEF DigitsOf
    <3>4. Ints(q, m + skipped)
      <4>1. \A i \in 1 .. k : q[i] \in Int  BY <1>a, <2>10 DEF DigitsOf
      <4>2. QED  BY <2>11, <4>1 DEF Ints
    <3>5. ValueOf(Base, q, m + skipped) = ValueOf(Base, q, m) + (Base ** m) * ValueOf(Base, e, skipped)
      <4>1. m \in Nat /\ Base \in Int  BY <1>a, <2>11
      <4>2. QED  BY <2>2, <3>1, <3>4, <4>1, SplitValue
    <3>6. ValueOf(Base, e, skipped) \in 0 .. (Base ** skipped) - 1
      <4>1. Base \in Nat \ {0}  BY <1>a
      <4>2. QED  BY <2>2, <3>3, <4>1, ValueIsBounded
    <3>7. ValueOf(Base, q, m) \in 0 .. (Base ** m) - 1
      <4>1. Base \in Nat \ {0}  BY <1>a
      <4>2. QED  BY <1>0, <2>10, <3>3, <4>1, ValueIsBounded
    <3>8. Base ** m \in Nat \ {0}  BY <2>11, BasePowers
    <3> DEFINE u == ValueOf(Base, e, skipped)
    <3>9. u \in Int /\ u \in Nat /\ Q = ValueOf(Base, q, m) + (Base ** m) * u
      <4>1. Base ** skipped \in Nat  BY <2>2, BasePowers
      <4>2. u \in Nat  BY <3>6, <4>1
      <4>3. QED  BY <2>10, <2>11, <3>5, <4>2 DEF Q
    <3> HIDE DEF u
    <3>10. u < 1
      <4>1. (Base ** m) * u = u * (Base ** m) /\ 1 * (Base ** m) = Base ** m  BY <3>8, <3>9
      <4>2. Q = ValueOf(Base, q, m) + u * (Base ** m)  BY <3>9, <4>1
      <4>3. Q < 1 * (Base ** m)  BY <2>12, <4>1
      <4>4. \A j \in Nat : Q < j * (Base ** m) <=> u < j  BY <2>12, <3>7, <3>8, <3>9, <4>2, QuotientIs
      <4>5. 1 \in Nat  OBVIOUS
      <4>6. QED  BY <4>3, <4>4, <4>5
    <3>11. (Base ** m) * u = 0 /\ ValueOf(Base, q, m) \in Int
      <4>1. u = 0  BY <3>9, <3>10
      <4>2. QED  BY <3>7, <3>8, <4>1
    <3>12. QED  BY <3>9, <3>11
  <2> DEFINE mem == Write(n.mem, quotient)
  <2>16. Len(quotient) <= Len(n.mem)  BY <1>0, <2>11, <2>14
  <2>17. mem \in Memory /\ Len(mem) = Len(n.mem)
         /\ \A i \in 1 .. Len(n.mem) : mem[i] = IF i <= Len(quotient) THEN quotient[i] ELSE n.mem[i]
    BY <1>0, <2>14, <2>16, WriteIs
  <2> HIDE DEF mem
  <2>18. Means(skip_leading_zeros(mem, m), Q) /\ Capacity(skip_leading_zeros(mem, m)) = Len(n.mem)
    <3>1. m \in 0 .. Len(mem) /\ Len(mem) >= 1  BY <1>0, <2>11, <2>17
    <3>2. Means(skip_leading_zeros(mem, m), ValueOf(Base, mem, m)) /\ skip_leading_zeros(mem, m).mem = mem
      BY <2>17, <3>1, SkipIs
    <3>3. ValueOf(Base, quotient, m) = ValueOf(Base, mem, m)
      <4>1. Same(quotient, mem, m)
        <5>1. \A i \in 1 .. m : i \in 1 .. Len(n.mem) /\ i <= Len(quotient)  BY <1>0, <2>11, <2>14
        <5>2. QED  BY <2>17, <5>1 DEF Same
      <4>2. Ints(quotient, m)
        <5>1. m \in 0 .. Len(quotient)  BY <2>11, <2>14
        <5>2. QED  BY <2>14, <5>1, MemoryIs
      <4>3. Base \in Int /\ m \in Nat  BY <1>a, <2>11
      <4>4. QED  BY <4>1, <4>2, <4>3, SameDigits
    <3>4. QED  BY <2>14, <2>15, <2>17, <3>2, <3>3 DEF Capacity
  <2>19. R \in Fixnum /\ FixnumSize(R) <= Len(n.mem)
    <3>1. R \in Fixnum  BY <1>b, <2>12, BelowFixnum
    <3>2. R < Base ** k
      <4>1. Base ** k \in Nat  BY <1>0, BasePowers
      <4>2. QED  BY <1>0, <2>12, <4>1
    <3>3. FixnumSize(R) <= k  BY <1>0, <3>1, <3>2, FewOctets
    <3>4. FixnumSize(R) \in 0 .. W  BY <3>1, FixnumIs
    <3>5. QED  BY <1>0, <1>a, <3>1, <3>3, <3>4
  <2> DEFINE p == skip_leading_zeros(mem, m)
  <2>20. Means(p, Q) /\ FixnumSize(R) <= Capacity(p)  BY <2>18, <2>19
  <2> HIDE DEF p
  <2>21. Results(PutRemainder(p, o, oremainder, R), o, oremainder, Q, R)  BY <2>19, <2>20, PutRemainderIs
  <2>22. value = PutRemainder(p, o, oremainder, R)  BY <2>1, <2>10 DEF mem, m, p, R
  <2>23. QED  BY <1>5, <2>21, <2>22 DEF value, Q, R
<1>6. QED  BY <1>1, <1>2, <1>3, <1>4, <1>5

-----------------------------------------------------------------------------
(***************************************************************************)
(* Part 12. The long division, from the estimate of a quotient's octet.    *)
(***************************************************************************)

\* w is the number that is left of f * n without its lower octets, p being their power.
Near(f, n, w, p) == w * p <= f * n /\ f * n < (w + 1) * p

\* What may be multiplied by v2 without exceeding u3 is at most Q + 1.
Within(Q, v2, u3) == \A q \in Nat : q * v2 <= u3 /\ q <= v2 + 1 => q <= Q + 1

\* An estimate by the highest octets is the octet of the quotient or one more.
LEMMA EstimateIsNear ==
  ASSUME NEW p \in Nat \ {0}, NEW f \in Nat \ {0}, NEW u \in Nat, NEW v \in Nat \ {0},
         NEW v2 \in Nat, NEW u3 \in Nat, Near(f, v, v2, p), Near(f, u, u3, p),
         NEW Q \in Nat, Q * v <= u, u < (Q + 1) * v
  PROVE  Q * v2 <= u3 /\ Within(Q, v2, u3)
<1> DEFINE V == f * v
           U == f * u
<1>1. v2 * p <= V /\ V < (v2 + 1) * p /\ u3 * p <= U /\ U < (u3 + 1) * p  BY DEF Near
<1>2. V \in Nat \ {0} /\ U \in Nat
  <2>1. f * v \in Nat /\ f * u \in Nat /\ f * v # 0  OBVIOUS
  <2>2. QED  BY <2>1
<1>3. Q * V <= U /\ U < (Q + 1) * V
  <2>1. \A i, j \in Int : (i < j => i * f + f <= j * f) /\ (i <= j => i * f <= j * f)  BY Multiples
  <2>2. Q * v \in Int /\ (Q + 1) * v \in Int /\ u \in Int  OBVIOUS
  <2>3. (Q * v) * f <= u * f /\ u * f + f <= ((Q + 1) * v) * f  BY <2>1, <2>2
  <2>4. (Q * v) * f = Q * V /\ u * f = U /\ ((Q + 1) * v) * f = (Q + 1) * V  OBVIOUS
  <2>5. Q * V \in Int /\ (Q + 1) * V \in Int  BY <1>2
  <2>6. QED  BY <1>2, <2>3, <2>4, <2>5
<1> HIDE DEF V, U
<1>4. \A i, j \in Int : i * p \in Int /\ (i < j => i * p + p <= j * p) /\ (i <= j => i * p <= j * p)
  BY Multiples
<1>5. Q * v2 <= u3
  <2> SUFFICES ASSUME ~(Q * v2 <= u3) PROVE FALSE  OBVIOUS
  <2>1. Q * v2 \in Int /\ u3 + 1 \in Int /\ u3 + 1 <= Q * v2
    <3>1. Q * v2 \in Int  OBVIOUS
    <3>2. QED  BY <3>1
  <2>2. (u3 + 1) * p <= (Q * v2) * p  BY <1>4, <2>1
  <2>3. Q * (v2 * p) <= Q * V
    <3>1. CASE Q = 0
      <4>1. 0 * (v2 * p) = 0 /\ 0 * V = 0  BY <1>2
      <4>2. QED  BY <3>1, <4>1
    <3>2. CASE Q # 0
      <4>1. v2 * p \in Int /\ V \in Int /\ Q \in Nat \ {0}  BY <1>2, <3>2
      <4>2. (v2 * p) * Q <= V * Q  BY <1>1, <4>1, Multiples
      <4>3. (v2 * p) * Q = Q * (v2 * p) /\ V * Q = Q * V  BY <4>1
      <4>4. QED  BY <4>2, <4>3
    <3>3. QED  BY <3>1, <3>2
  <2>4. (Q * v2) * p = Q * (v2 * p)  OBVIOUS
  <2>5. (u3 + 1) * p \in Int /\ (Q * v2) * p \in Int /\ Q * V \in Int  BY <1>2
  <2>6. QED  BY <1>1, <1>2, <1>3, <2>2, <2>3, <2>4, <2>5
<1>6. ASSUME NEW q \in Nat, q * v2 <= u3, q <= v2 + 1, ~(q <= Q + 1) PROVE FALSE
  <2>1. q - 1 \in Nat \ {0} /\ Q + 1 <= q - 1  BY <1>6
  <2>2. (Q + 1) * V <= (q - 1) * V
    <3>1. Q + 1 \in Int /\ q - 1 \in Int  BY <2>1
    <3>2. QED  BY <1>2, <2>1, <3>1, Multiples
  <2>3. V * (q - 1) + (q - 1) <= ((v2 + 1) * p) * (q - 1)
    <3>1. V \in Int /\ (v2 + 1) * p \in Int  BY <1>2
    <3>2. QED  BY <1>1, <2>1, <3>1, Multiples
  <2>4. (q * v2) * p <= u3 * p
    <3>1. q * v2 \in Int /\ u3 \in Int  OBVIOUS
    <3>2. QED  BY <1>4, <1>6, <3>1
  <2>5. V * (q - 1) = (q - 1) * V /\ ((v2 + 1) * p) * (q - 1) = ((q - 1) * (v2 + 1)) * p
    <3>1. V \in Int /\ q - 1 \in Int  BY <1>2
    <3>2. QED  BY <3>1
  <2>6. (q * v2) * p < ((q - 1) * (v2 + 1)) * p
    <3>1. (q * v2) * p \in Int /\ u3 * p \in Int /\ (q - 1) * V \in Int /\ (Q + 1) * V \in Int
          /\ ((q - 1) * (v2 + 1)) * p \in Int
      BY <1>2, <2>1
    <3>2. QED  BY <1>1, <1>2, <1>3, <2>1, <2>2, <2>3, <2>4, <2>5, <3>1
  <2>7. q * v2 < (q - 1) * (v2 + 1)
    <3>1. q * v2 \in Int /\ (q - 1) * (v2 + 1) \in Int  OBVIOUS
    <3>2. (q - 1) * (v2 + 1) <= q * v2 => ((q - 1) * (v2 + 1)) * p <= (q * v2) * p  BY <1>4, <3>1
    <3>3. (q * v2) * p \in Int /\ ((q - 1) * (v2 + 1)) * p \in Int  BY <3>1
    <3>4. QED  BY <2>6, <3>1, <3>2, <3>3
  <2>8. (q - 1) * (v2 + 1) = q * v2 + q - v2 - 1 /\ q * v2 \in Int  OBVIOUS
  <2>9. QED  BY <1>6, <2>7, <2>8
<1>7. QED  BY <1>5, <1>6 DEF Within

\* The highest octets of a number, times a divisor of Base.
LEMMA HighestAreNear ==
  ASSUME NEW f \in Nat \ {0}, NEW g \in Nat \ {0}, f * g = Base, NEW r \in Nat \ {0},
         NEW high \in Nat, NEW low \in 0 .. r - 1, NEW n, n = high * r + low
  PROVE  /\ Near(f, n, (f * high) \div Base, Base * r)
         /\ \A k \in Nat : f * high < k * Base => f * (high + 1) <= k * Base
<1> DEFINE B == Base
           w == (f * high) \div B
<1>a. B \in Nat \ {0}  BY BaseIs
<1>1. w \in Nat /\ w * B <= f * high /\ f * high < (w + 1) * B
  <2>1. f * high \in Int /\ f * high \in Nat  OBVIOUS
  <2>2. w \in Nat /\ (f * high) % B \in 0 .. B - 1 /\ f * high = B * w + ((f * high) % B)
    BY <1>a, <2>1, Division
  <2>3. B * w = w * B /\ (w + 1) * B = w * B + B /\ w * B \in Int  BY <1>a, <2>2
  <2>4. QED  BY <1>a, <2>1, <2>2, <2>3
<1> HIDE DEF w
<1>2. ASSUME NEW k \in Nat, f * high < k * B PROVE f * (high + 1) <= k * B
  <2>1. k * B = (k * g) * f /\ f * high = high * f /\ f * (high + 1) = (high + 1) * f  OBVIOUS
  <2>2. high < k * g
    <3>1. k * g \in Int /\ high \in Int  OBVIOUS
    <3>2. k * g <= high => (k * g) * f <= high * f  BY <3>1, Multiples
    <3>3. (k * g) * f \in Int /\ high * f \in Int  OBVIOUS
    <3>4. QED  BY <1>2, <2>1, <3>1, <3>2, <3>3
  <2>3. high + 1 <= k * g /\ high + 1 \in Int /\ k * g \in Int  BY <2>2
  <2>4. (high + 1) * f <= (k * g) * f  BY <2>3, Multiples
  <2>5. QED  BY <2>1, <2>4
<1>3. f * (high + 1) <= (w + 1) * B
  <2>1. w + 1 \in Nat  BY <1>1
  <2>2. QED  BY <1>1, <1>2, <2>1
<1>4. \A i, j \in Int : i * r \in Int /\ (i < j => i * r + r <= j * r) /\ (i <= j => i * r <= j * r)
  BY Multiples
<1>5. w * (B * r) <= f * n
  <2>1. w * B \in Int /\ f * high \in Int  BY <1>a, <1>1
  <2>2. (w * B) * r <= (f * high) * r  BY <1>1, <1>4, <2>1
  <2>3. (w * B) * r = w * (B * r)  BY <1>a, <1>1
  <2>4. f * n = (f * high) * r + f * low  OBVIOUS
  <2>5. f * low \in Nat /\ (f * high) * r \in Int /\ (w * B) * r \in Int  BY <2>1
  <2>6. QED  BY <2>2, <2>3, <2>4, <2>5
<1>6. f * n < (w + 1) * (B * r)
  <2>1. f * (high + 1) \in Int /\ (w + 1) * B \in Int  BY <1>a, <1>1
  <2>2. (f * (high + 1)) * r <= ((w + 1) * B) * r  BY <1>3, <1>4, <2>1
  <2>3. ((w + 1) * B) * r = (w + 1) * (B * r)  BY <1>a, <1>1
  <2>4. f * n = (f * high) * r + f * low /\ (f * (high + 1)) * r = (f * high) * r + f * r  OBVIOUS
  <2>5. f * low < f * r
    <3>1. low \in Int /\ r \in Int /\ low < r  OBVIOUS
    <3>2. low * f + f <= r * f  BY <3>1, Multiples
    <3>3. low * f = f * low /\ r * f = f * r /\ f * low \in Int  BY <3>1
    <3>4. QED  BY <3>2, <3>3
  <2>6. f * low \in Int /\ f * r \in Int /\ (f * high) * r \in Int /\ ((w + 1) * B) * r \in Int  BY <2>1
  <2>7. QED  BY <2>2, <2>3, <2>4, <2>5, <2>6
<1>7. QED  BY <1>2, <1>5, <1>6 DEF Near, w

\* The three highest octets of a number, and the four highest of a dividend.
HighestThree(d, m) == d[m] * (Base ** 2) + d[m - 1] * Base + d[m - 2]

\* The powers of the base a quotient's octet is estimated with.
LEMMA SquareAndCube ==
  /\ Base ** 2 = Base * Base /\ Base ** 3 = Base * (Base * Base)
  /\ Base * Base \in Nat \ {0} /\ Base * (Base * Base) \in Nat \ {0}
<1>1. Base \in Nat \ {0}  BY BaseIs
<1>2. Base ** 1 = Base /\ 1 \in Nat /\ 2 \in Nat  BY BasePowers, <1>1
<1>3. Base ** (1 + 1) = Base * (Base ** 1) /\ Base ** (2 + 1) = Base * (Base ** 2)  BY <1>2, BasePowers
<1>4. 1 + 1 = 2 /\ 2 + 1 = 3  OBVIOUS
<1>5. Base ** 2 = Base * Base /\ Base ** 3 = Base * (Base * Base)  BY <1>2, <1>3, <1>4
<1>6. Base * Base \in Nat \ {0}  BY <1>1
<1>7. Base * (Base * Base) \in Nat \ {0}  BY <1>1, <1>6
<1>8. QED  BY <1>5, <1>6, <1>7

\* What the highest octets stand for.
LEMMA HighestIs ==
  ASSUME NEW m \in Nat, NEW d, DigitsOf(Base, d, m), m >= 3
  PROVE  /\ HighestThree(d, m) \in 0 .. (Base ** 3) - 1
         /\ d[m] # 0 => HighestThree(d, m) >= Base ** 2
         /\ ValueOf(Base, d, m - 3) \in 0 .. (Base ** (m - 3)) - 1
         /\ ValueOf(Base, d, m) = HighestThree(d, m) * (Base ** (m - 3)) + ValueOf(Base, d, m - 3)
<1> DEFINE B == Base
           r == B ** (m - 3)
<1>a. B \in Nat \ {0, 1}  BY BaseIs
<1>1. m - 3 \in Nat /\ m - 2 \in Nat /\ m - 1 \in Nat /\ m \in 1 .. m /\ m - 1 \in 1 .. m /\ m - 2 \in 1 .. m
      /\ m - 3 \in 0 .. m
  OBVIOUS
<1>2. d[m] \in 0 .. B - 1 /\ d[m - 1] \in 0 .. B - 1 /\ d[m - 2] \in 0 .. B - 1  BY <1>1 DEF DigitsOf
<1>3. r \in Nat \ {0} /\ B ** (m - 2) = B * r /\ B ** (m - 1) = B * (B * r)
  <2>1. (m - 3) + 1 = m - 2 /\ (m - 2) + 1 = m - 1  OBVIOUS
  <2>2. B ** ((m - 3) + 1) = B * r /\ r \in Nat \ {0}  BY <1>1, BasePowers
  <2>3. B ** ((m - 2) + 1) = B * (B ** (m - 2))  BY <1>1, BasePowers
  <2>4. QED  BY <2>1, <2>2, <2>3
<1> HIDE DEF r
<1>4. ValueOf(B, d, m - 3) \in 0 .. r - 1
  <2>1. B \in Nat \ {0}  BY <1>a
  <2>2. \A j \in 0 .. m : ValueOf(B, d, j) \in 0 .. (B ** j) - 1  BY <2>1, ValueIsBounded
  <2>3. QED  BY <1>1, <2>2 DEF r
<1>5. ValueOf(B, d, m) = HighestThree(d, m) * r + ValueOf(B, d, m - 3)
  <2>1. Ints(d, m) /\ B \in Int  BY <1>a DEF DigitsOf, Ints
  <2>2. \A j \in 1 .. m : ValueOf(B, d, j) = ValueOf(B, d, j - 1) + d[j] * (B ** (j - 1))  BY <2>1, Values
  <2>3. (m - 1) - 1 = m - 2 /\ (m - 2) - 1 = m - 3  OBVIOUS
  <2>4. ValueOf(B, d, m) = ValueOf(B, d, m - 1) + d[m] * (B ** (m - 1))  BY <1>1, <2>2
  <2>5. ValueOf(B, d, m - 1) = ValueOf(B, d, m - 2) + d[m - 1] * (B ** (m - 2))  BY <1>1, <2>2, <2>3
  <2>6. ValueOf(B, d, m - 2) = ValueOf(B, d, m - 3) + d[m - 2] * r  BY <1>1, <2>2, <2>3 DEF r
  <2>7. HighestThree(d, m) * r = (d[m] * (B * B) + d[m - 1] * B + d[m - 2]) * r
    BY SquareAndCube DEF HighestThree
  <2>8. (d[m] * (B * B) + d[m - 1] * B + d[m - 2]) * r
          = d[m] * (B * (B * r)) + d[m - 1] * (B * r) + d[m - 2] * r
    BY <1>a, <1>2, <1>3
  <2>9. /\ d[m] * (B * (B * r)) \in Int /\ d[m - 1] * (B * r) \in Int /\ d[m - 2] * r \in Int
        /\ ValueOf(B, d, m - 3) \in Int
    <3>1. B * r \in Int /\ B * (B * r) \in Int  BY <1>a, <1>3
    <3>2. QED  BY <1>2, <1>3, <1>4, <3>1
  <2>10. QED  BY <1>3, <2>4, <2>5, <2>6, <2>7, <2>8, <2>9
<1>6. HighestThree(d, m) \in 0 .. (B ** 3) - 1 /\ (d[m] # 0 => HighestThree(d, m) >= B ** 2)
  <2>1. d[m] * (B * B) + (B * B) <= B * (B * B) /\ d[m] * (B * B) \in Nat
        /\ (d[m] # 0 => d[m] * (B * B) >= B * B)
    <3>1. B * B \in Nat \ {0} /\ d[m] \in Int /\ B \in Int /\ d[m] < B /\ d[m] >= 0  BY <1>a, <1>2
    <3>2. d[m] * (B * B) + (B * B) <= B * (B * B)  BY <3>1, Multiples
    <3>3. d[m] # 0 => 1 <= d[m] /\ 1 \in Int  BY <3>1
    <3>4. d[m] # 0 => 1 * (B * B) <= d[m] * (B * B)  BY <3>1, <3>3, Multiples
    <3>5. d[m] * (B * B) \in Nat /\ 1 * (B * B) = B * B  BY <3>1
    <3>6. QED  BY <3>2, <3>4, <3>5
  <2>2. d[m - 1] * B + B <= B * B /\ d[m - 1] * B \in Nat
    <3>1. B \in Nat \ {0} /\ d[m - 1] \in Int /\ B \in Int /\ d[m - 1] < B /\ d[m - 1] >= 0  BY <1>a, <1>2
    <3>2. d[m - 1] * B + B <= B * B  BY <3>1, Multiples
    <3>3. d[m - 1] * B \in Nat  BY <3>1
    <3>4. QED  BY <3>2, <3>3
  <2>3. B * B \in Nat /\ B * (B * B) \in Nat /\ B ** 2 = B * B /\ B ** 3 = B * (B * B)  BY SquareAndCube
  <2>4. HighestThree(d, m) = d[m] * (B * B) + d[m - 1] * B + d[m - 2]  BY <2>3 DEF HighestThree
  <2>5. QED  BY <1>a, <1>2, <2>1, <2>2, <2>3, <2>4
<1>7. QED  BY <1>4, <1>5, <1>6 DEF r

\* The factor makes the highest octet of the divisor at least half of Base.
IsShifting(s, h) ==
  /\ s.factor \in Nat \ {0} /\ \E g \in Nat \ {0} : s.factor * g = Base
  /\ s.vn_1 \in Nat \ {0} /\ s.vn_2 \in Octet
  /\ s.vn_1 * Base + s.vn_2 = (s.factor * h) \div Base
  /\ s.vn_1 * Base + s.vn_2 >= Base
  /\ s.factor * (h + 1) <= Base ** 3

\* Half of a number, rounded down.
LEMMA Halves ==
  ASSUME NEW c \in Nat, NEW h \in Nat
  PROVE  /\ c \div 2 \in Nat /\ 2 * (c \div 2) <= c /\ c <= 2 * (c \div 2) + 1
         /\ (h < c \div 2 => 2 * h < c) /\ (c <= h => c \div 2 <= h)
  OBVIOUS

\* The normalisation of a divisor of at least three octets is one.
LEMMA ShiftingIs ==
  ASSUME NEW v, IsNumber(v), v.payload >= 3
  PROVE  IsShifting(Shifting(v), HighestThree(v.mem, v.payload))
<1> DEFINE L == v.payload
           B == Base
           h == HighestThree(v.mem, L)
           E == {e \in {2 ** s : s \in 0 .. Bits} : h * e >= (B ** 3) \div 2}
           f == Min(E)
           s == Shifting(v)
<1>a. B \in Nat \ {0, 1} /\ Bits \in Nat \ {0} /\ Bits \in Nat /\ B = 2 ** Bits  BY BaseIs DEF Base
<1>0. L \in Nat /\ DigitsOf(B, v.mem, L) /\ v.mem[L] # 0 /\ L >= 3  BY NumberHas
<1>1. h \in 0 .. (B ** 3) - 1 /\ h >= B ** 2
  <2> HIDE DEF h, L
  <2>1. QED  BY <1>0, HighestIs DEF h
<1>2. s = [factor |-> f, vn_1 |-> (h * f) \div (B ** 2), vn_2 |-> ((h * f) \div B) % B]
  BY DEF Shifting, HighestThree
<1> HIDE DEF s, h, L
<1>b. /\ B ** 2 = B * B /\ B ** 3 = B * (B * B) /\ B * B \in Nat \ {0} /\ B * (B * B) \in Nat \ {0}
      /\ h \in Nat
  BY <1>1, SquareAndCube
<1>c. \A i \in Nat : 2 ** i \in Nat \ {0} /\ 2 ** (i + 1) = 2 * (2 ** i)
  <2>1. 2 \in Nat \ {0} /\ 2 \in Int  OBVIOUS
  <2>2. \A i \in Nat : 2 ** i \in Nat \ {0}  BY <2>1, PositivePower
  <2>3. \A i \in Nat : 2 ** (i + 1) = 2 * (2 ** i)  BY <2>1, Powers
  <2>4. QED  BY <2>2, <2>3
<1>3. f \in E /\ (\A e \in E : f <= e)
  <2>1. E \in SUBSET Nat  BY <1>a, <1>c
  <2>2. 2 ** Bits \in E
    <3>1. Bits \in 0 .. Bits  BY <1>a
    <3>2. h * B >= B * (B * B)
      <4>1. B \in Nat \ {0} /\ B * B \in Int /\ h \in Int /\ B * B <= h  BY <1>a, <1>b, <1>1
      <4>2. (B * B) * B <= h * B  BY <4>1, Multiples
      <4>3. (B * B) * B = B * (B * B)  BY <1>a
      <4>4. QED  BY <4>2, <4>3
    <3>3. (B ** 3) \div 2 <= h * B
      <4>1. B ** 3 \in Nat /\ h * B \in Nat /\ B ** 3 <= h * B  BY <1>a, <1>b, <3>2
      <4>2. QED  BY <4>1, Halves
    <3>4. QED  BY <1>a, <1>b, <3>1, <3>3
  <2>3. QED  BY <2>1, <2>2, MinIs
<1>4. PICK j \in 0 .. Bits : f = 2 ** j  BY <1>3
<1>5. f \in Nat \ {0} /\ \E g \in Nat \ {0} : f * g = B
  <2>1. j \in Nat /\ Bits - j \in Nat /\ j + (Bits - j) = Bits  BY <1>a
  <2>2. 2 ** (j + (Bits - j)) = (2 ** j) * (2 ** (Bits - j))
    <3>1. 2 \in Int  OBVIOUS
    <3>2. \A i \in Nat : 2 ** (j + i) = (2 ** j) * (2 ** i)  BY <2>1, <3>1, PowerOfSum
    <3>3. QED  BY <2>1, <3>2
  <2>3. 2 ** j \in Nat \ {0} /\ 2 ** (Bits - j) \in Nat \ {0}  BY <1>c, <2>1
  <2>4. QED  BY <1>a, <1>4, <2>1, <2>2, <2>3
<1>6. h * f >= (B ** 3) \div 2  BY <1>3
<1>7. h * f < B ** 3
  <2>1. CASE j = 0
    <3>1. 2 ** 0 = 1
      <4>1. 2 \in Int  OBVIOUS
      <4>2. QED  BY <4>1, Powers
    <3>2. h * 1 = h  BY <1>b
    <3>3. QED  BY <1>1, <1>4, <1>b, <2>1, <3>1, <3>2
  <2>2. CASE j # 0
    <3>1. j - 1 \in 0 .. Bits /\ j - 1 \in Nat /\ (j - 1) + 1 = j  BY <2>2, <1>a
    <3> DEFINE e == 2 ** (j - 1)
    <3>2. f = 2 * e /\ e \in Nat \ {0}
      <4>1. 2 ** ((j - 1) + 1) = 2 * (2 ** (j - 1)) /\ 2 ** (j - 1) \in Nat \ {0}  BY <1>c, <3>1
      <4>2. QED  BY <1>4, <3>1, <4>1
    <3>3. ~(f <= e)  BY <3>2
    <3>4. ~(h * e >= (B ** 3) \div 2)  BY <1>3, <3>1, <3>3
    <3> HIDE DEF e
    <3>5. h * e \in Nat /\ B ** 3 \in Nat /\ (B ** 3) \div 2 \in Nat  BY <1>b, <3>2, Halves
    <3>6. 2 * (h * e) < B ** 3
      <4>1. h * e < (B ** 3) \div 2  BY <3>4, <3>5
      <4>2. QED  BY <3>5, <4>1, Halves
    <3>7. h * (2 * e) = 2 * (h * e)  BY <1>b, <3>2
    <3>8. QED  BY <3>2, <3>6, <3>7
  <2>3. QED  BY <2>1, <2>2
<1> HIDE DEF f
<1>8. h * f = f * h /\ h * f \in Nat  BY <1>5, <1>b
<1> DEFINE w == (f * h) \div B
<1>9. w \in Nat /\ w \div B = (h * f) \div (B ** 2) /\ w = B * (w \div B) + (w % B)
      /\ w \div B \in Nat /\ w % B \in 0 .. B - 1
  <2>1. f * h \in Nat /\ f * h \in Int /\ B \in Nat \ {0}  BY <1>8, <1>a
  <2>2. w \in Int /\ w \in Nat  BY <2>1, Division
  <2>3. w \div B = (f * h) \div (B * B)  BY <2>1, DivisionTwice
  <2> HIDE DEF w
  <2>4. w = B * (w \div B) + (w % B) /\ w \div B \in Nat /\ w % B \in 0 .. B - 1  BY <2>1, <2>2, Division
  <2>5. QED  BY <1>8, <1>b, <2>2, <2>3, <2>4
<1>10. w >= B
  <2>1. 2 * ((B ** 3) \div 2) = B ** 3
    <3> DEFINE c == 2 ** (Bits - 1)
    <3>1. Bits - 1 \in Nat /\ (Bits - 1) + 1 = Bits  BY <1>a
    <3>2. c \in Nat \ {0} /\ B = 2 * c
      <4>1. 2 ** ((Bits - 1) + 1) = 2 * (2 ** (Bits - 1)) /\ 2 ** (Bits - 1) \in Nat \ {0}  BY <1>c, <3>1
      <4>2. QED  BY <1>a, <3>1, <4>1
    <3> HIDE DEF c
    <3>3. B * (B * B) = 2 * (c * (B * B)) /\ c * (B * B) \in Nat
      <4>1. c * (B * B) \in Nat  BY <1>b, <3>2
      <4>2. (2 * c) * (B * B) = 2 * (c * (B * B))  BY <1>b, <3>2
      <4>3. QED  BY <3>2, <4>1, <4>2
    <3>4. \A i \in Nat : (2 * i) \div 2 = i  OBVIOUS
    <3>5. QED  BY <1>b, <3>3, <3>4
  <2>2. 2 * (f * h) >= B * (B * B)
    <3>1. (B ** 3) \div 2 \in Nat  BY <1>b, Halves
    <3>2. QED  BY <1>6, <1>8, <1>b, <2>1, <3>1
  <2>3. B * (B * B) >= 2 * (B * B)
    <3>1. B * B \in Nat \ {0} /\ 2 \in Int /\ B \in Int /\ 2 <= B  BY <1>a, <1>b
    <3>2. QED  BY <3>1, Multiples
  <2>4. f * h >= B * B
    <3>1. f * h \in Nat /\ B * B \in Nat /\ B * (B * B) \in Nat  BY <1>8, <1>b
    <3>2. QED  BY <2>2, <2>3, <3>1
  <2>5. f * h = B * w + ((f * h) % B) /\ (f * h) % B \in 0 .. B - 1
    <3>1. f * h \in Int /\ B \in Nat \ {0}  BY <1>a, <1>8
    <3>2. QED  BY <3>1, Division
  <2> HIDE DEF w
  <2>6. CASE ~(w >= B)
    <3>0. w \in Nat /\ B \in Nat  BY <1>9, <1>a
    <3>1. w + 1 <= B /\ w \in Int /\ B \in Int /\ w < B
      <4> HIDE DEF B
      <4>1. QED  BY <2>6, <3>0
    <3>2. w * B + B <= B * B
      <4>1. B \in Nat \ {0}  BY <1>a
      <4>2. QED  BY <3>1, <4>1, Multiples
    <3>3. w * B = B * w /\ B * w \in Int /\ B * B \in Int  BY <1>a, <3>1
    <3>4. QED  BY <1>a, <2>4, <2>5, <3>2, <3>3
  <2>7. QED  BY <2>6
<1>11. w \div B # 0
  <2>1. w \div B = 0 => w < B
    <3>1. w \div B = 0 => w = B * 0 + (w % B)  BY <1>9
    <3>2. B * 0 = 0  BY <1>a
    <3> HIDE DEF w
    <3>3. QED  BY <1>a, <1>9, <3>1, <3>2
  <2> HIDE DEF w
  <2>2. QED  BY <1>a, <1>9, <1>10, <2>1
<1>12. f * (h + 1) <= B ** 3
  <2>1. PICK g \in Nat \ {0} : f * g = B  BY <1>5
  <2>2. B * (B * B) = (B * B) * B /\ B * B \in Nat  BY <1>a
  <2>3. f * h < (B * B) * B  BY <1>7, <1>8, <1>b, <2>2
  <2>4. 1 \in Nat \ {0} /\ 0 \in 0 .. 1 - 1 /\ h * 1 + 0 = h * 1 + 0  OBVIOUS
  <2>5. \A k \in Nat : f * h < k * B => f * (h + 1) <= k * B
    <3> DEFINE n == h * 1 + 0
    <3>1. n = h * 1 + 0  OBVIOUS
    <3> HIDE DEF n
    <3>2. QED  BY <1>5, <1>b, <2>1, <2>4, <3>1, HighestAreNear
  <2>6. QED  BY <1>b, <2>2, <2>3, <2>5
<1>13. s.factor = f /\ s.vn_1 = w \div B /\ s.vn_2 = w % B
  BY <1>2, <1>8, <1>9
<1>14. (w \div B) * B + (w % B) = w
  <2>1. (w \div B) * B = B * (w \div B)  BY <1>9, <1>a
  <2>2. QED  BY <1>9, <2>1
<1> HIDE DEF w
<1>15. QED  BY <1>5, <1>9, <1>10, <1>11, <1>12, <1>13, <1>14 DEF IsShifting, Octet, w, L, s, h

\* Whatever the octets are, the estimate is an octet.
LEMMA EstimateIsOctet ==
  ASSUME NEW s, s.factor \in Nat, s.vn_1 \in Nat \ {0}, s.vn_2 \in Nat, NEW u4 \in Nat
  PROVE  q_hat(u4, s) \in Octet
<1> DEFINE B == Base
           u2 == ((s.factor * u4) \div (B ** 2)) % (B ** 2)
           u1 == ((s.factor * u4) \div B) % B
           q0 == Smaller(u2 \div s.vn_1, B - 1)
           r(q) == u2 - q * s.vn_1
           S == {q \in 0 .. q0 : q * s.vn_2 <= r(q) * B + u1}
<1>a. B \in Nat \ {0, 1} /\ B \in Nat \ {0} /\ B ** 2 \in Nat \ {0}  BY BaseIs, SquareAndCube
<1>1. q_hat(u4, s) = Max(S)  BY DEF q_hat
<1>2. s.factor * u4 \in Int /\ s.factor * u4 \in Nat  OBVIOUS
<1>3. u2 \in Nat /\ u1 \in Nat
  <2>1. (s.factor * u4) \div (B ** 2) \in Int /\ (s.factor * u4) \div B \in Int  BY <1>a, <1>2, Division
  <2>2. u2 \in 0 .. (B ** 2) - 1  BY <1>a, <2>1, Division
  <2>3. u1 \in 0 .. B - 1  BY <1>a, <2>1, Division
  <2> HIDE DEF u1, u2
  <2>4. QED  BY <1>a, <2>2, <2>3
<1> HIDE DEF u1, u2
<1>4. q0 \in Nat /\ q0 <= B - 1
  <2>1. u2 \in Int  BY <1>3
  <2>2. u2 \div s.vn_1 \in Nat  BY <1>3, <2>1, Division
  <2>3. B - 1 \in Nat  BY <1>a
  <2>4. QED  BY <2>2, <2>3, SmallerIs
<1> HIDE DEF q0
<1>5. 0 \in S
  <2>1. 0 * s.vn_2 = 0 /\ 0 * s.vn_1 = 0  OBVIOUS
  <2>2. r(0) = u2  BY <1>3, <2>1
  <2>3. u2 * B \in Nat  BY <1>3, <1>a
  <2>4. 0 \in 0 .. q0  BY <1>4
  <2>5. QED  BY <1>3, <2>1, <2>2, <2>3, <2>4
<1>6. S \in SUBSET (0 .. q0) /\ S # {}  BY <1>5
<1>7. Max(S) \in S  BY <1>4, <1>6, MaxIs
<1>8. Max(S) \in 0 .. q0  BY <1>6, <1>7
<1> HIDE DEF S
<1>9. QED  BY <1>1, <1>4, <1>8, <1>a, OctetIs

\* The estimate is the largest octet whose product with the two highest octets of the
\* divisor is within the three highest of the dividend.
LEMMA EstimateIs ==
  ASSUME NEW h, NEW s, IsShifting(s, h), NEW u4 \in Nat, s.factor * u4 < (Base * Base) * (Base * Base)
  PROVE  LET v2 == s.vn_1 * Base + s.vn_2
             u3 == (s.factor * u4) \div Base
         IN /\ q_hat(u4, s) \in Octet
            /\ q_hat(u4, s) * v2 <= u3
            /\ \A q \in Octet : q * v2 <= u3 => q <= q_hat(u4, s)
<1> DEFINE B == Base
           w == s.factor * u4
           u3 == w \div B
           u2 == u3 \div B
           u1 == u3 % B
           q0 == Smaller(u2 \div s.vn_1, B - 1)
           v2 == s.vn_1 * B + s.vn_2
           r(q) == u2 - q * s.vn_1
           S == {q \in 0 .. q0 : q * s.vn_2 <= r(q) * B + u1}
<1>a. B \in Nat \ {0, 1} /\ B \in Nat \ {0} /\ B \in Nat /\ B * B \in Nat \ {0} /\ B ** 2 = B * B
  BY BaseIs, SquareAndCube
<1>b. s.factor \in Nat \ {0} /\ s.vn_1 \in Nat \ {0} /\ s.vn_2 \in Nat
  <2>1. s.factor \in Nat \ {0} /\ s.vn_1 \in Nat \ {0} /\ s.vn_2 \in Octet  BY DEF IsShifting
  <2>2. QED  BY <2>1, OctetIs
<1>c. w \in Nat /\ w < (B * B) * (B * B)  BY <1>b
<1>1. q_hat(u4, s) = Max(S)
  <2>1. (w \div (B ** 2)) % (B ** 2) = u2
    <3>1. w \in Int  BY <1>c
    <3> HIDE DEF w
    <3>2. (w \div B) \div B = w \div (B * B)  BY <1>a, <3>1, DivisionTwice
    <3>3. w \div (B * B) \in Nat  BY <1>a, <1>c, <3>1, Division
    <3>4. w \div (B * B) < B * B
      <4>1. \A p, q \in Nat \ {0} : q <= B * B /\ w < p * q => w \div (B * B) < p
        BY <1>a, <1>c, PartsAreSmaller
      <4>2. QED  BY <1>a, <1>c, <4>1
    <3>5. (w \div (B * B)) % (B * B) = w \div (B * B)  BY <1>a, <3>3, <3>4, SmallDividend
    <3>6. QED  BY <1>a, <3>2, <3>5
  <2>2. q_hat(u4, s) = Max({q \in 0 .. Smaller(((w \div (B ** 2)) % (B ** 2)) \div s.vn_1, B - 1) :
            q * s.vn_2 <= (((w \div (B ** 2)) % (B ** 2)) - q * s.vn_1) * B + ((w \div B) % B)})
    BY DEF q_hat
  <2>3. QED  BY <2>1, <2>2
<1> HIDE DEF w
<1>2. u3 \in Nat /\ u2 \in Nat /\ u1 \in 0 .. B - 1 /\ u1 \in Nat /\ u3 = B * u2 + u1
  <2>1. u3 \in Nat
    <3>1. w \in Int  BY <1>c
    <3>2. QED  BY <1>a, <1>c, <3>1, Division
  <2> HIDE DEF u3
  <2>2. u3 \in Int  BY <2>1
  <2>3. u2 \in Nat /\ u1 \in 0 .. B - 1 /\ u3 = B * u2 + u1  BY <1>a, <2>1, <2>2, Division
  <2>4. QED  BY <1>a, <2>1, <2>3
<1> DEFINE d == u2 \div s.vn_1
<1>3. d \in Nat /\ \A j \in Nat : u2 < j * s.vn_1 <=> d < j
  <2>1. u2 \in Int  BY <1>2
  <2> HIDE DEF u2
  <2>2. d \in Nat /\ u2 % s.vn_1 \in 0 .. s.vn_1 - 1 /\ u2 = s.vn_1 * d + (u2 % s.vn_1)
    <3>1. d \in Nat  BY <1>2, <1>b, <2>1, Division
    <3>2. u2 % s.vn_1 \in 0 .. s.vn_1 - 1 /\ u2 = s.vn_1 * d + (u2 % s.vn_1)  BY <1>b, <2>1, Division
    <3>3. QED  BY <3>1, <3>2
  <2> DEFINE t == u2 % s.vn_1
  <2> HIDE DEF d, t
  <2>3. u2 = t + d * s.vn_1 /\ t \in 0 .. s.vn_1 - 1 /\ d \in Int
    <3>1. t \in 0 .. s.vn_1 - 1 /\ u2 = s.vn_1 * d + t  BY <2>2 DEF t
    <3>2. s.vn_1 * d = d * s.vn_1 /\ d * s.vn_1 \in Int /\ t \in Int  BY <1>b, <2>2, <3>1
    <3>3. QED  BY <2>2, <3>1, <3>2
  <2>4. \A j \in Nat : u2 < j * s.vn_1 <=> d < j  BY <1>2, <1>b, <2>3, QuotientIs
  <2>5. QED  BY <2>2, <2>4
<1> HIDE DEF u3, u2, u1, d
<1>4. q0 \in Nat /\ q0 <= B - 1 /\ \A q \in Nat : q <= d /\ q <= B - 1 => q <= q0
  <2>1. B - 1 \in Nat  BY <1>a
  <2>2. q0 = IF d <= B - 1 THEN d ELSE B - 1  BY <1>3, <2>1, SmallerIs DEF d
  <2> HIDE DEF q0
  <2>3. QED  BY <1>3, <2>1, <2>2
<1> HIDE DEF q0
<1>5. ASSUME NEW q \in Nat
      PROVE  /\ q * s.vn_2 <= r(q) * B + u1 <=> q * v2 <= u3
             /\ q * v2 <= u3 => q <= d
  <2>1. q * v2 = (q * s.vn_1) * B + q * s.vn_2  BY <1>a, <1>b
  <2>2. r(q) * B = B * u2 - (q * s.vn_1) * B  BY <1>2, <1>a, <1>b
  <2>3. (q * s.vn_1) * B \in Int /\ B * u2 \in Int /\ q * s.vn_2 \in Nat /\ q * s.vn_1 \in Int
    BY <1>2, <1>a, <1>b
  <2>4. q * s.vn_2 <= r(q) * B + u1 <=> q * v2 <= u3  BY <1>2, <2>1, <2>2, <2>3
  <2>5. ASSUME q * v2 <= u3 PROVE q <= d
    <3>1. q * s.vn_1 <= u2
      <4>1. CASE ~(q * s.vn_1 <= u2)
        <5>1. u2 < q * s.vn_1 /\ u2 \in Int  BY <1>2, <2>3, <4>1
        <5>2. u2 * B + B <= (q * s.vn_1) * B  BY <1>a, <2>3, <5>1, Multiples
        <5>3. u2 * B = B * u2  BY <1>a, <1>2
        <5>4. QED  BY <1>2, <1>a, <2>1, <2>3, <2>5, <5>2, <5>3
      <4>2. QED  BY <4>1
    <3>2. ~(u2 < q * s.vn_1)  BY <1>2, <2>3, <3>1
    <3>3. ~(d < q)  BY <1>3, <3>2
    <3>4. QED  BY <1>3, <3>3
  <2>6. QED  BY <2>4, <2>5
<1>6. s.factor \in Nat  BY <1>b
<1>7. q_hat(u4, s) \in Octet  BY <1>6, <1>b, EstimateIsOctet
<1>8. S \in SUBSET (0 .. q0) /\ 0 \in S
  <2>1. 0 \in Nat /\ 0 * v2 = 0 /\ 0 <= u3  BY <1>2, <1>a, <1>b
  <2>2. 0 * s.vn_2 <= r(0) * B + u1  BY <1>5, <2>1
  <2>3. 0 \in 0 .. q0  BY <1>4
  <2>4. QED  BY <2>2, <2>3
<1>9. Max(S) \in S /\ \A q \in S : q <= Max(S)
  <2>1. S # {}  BY <1>8
  <2> HIDE DEF S
  <2>2. QED  BY <1>4, <1>8, <2>1, MaxIs
<1>10. Max(S) * v2 <= u3
  <2>1. Max(S) \in Nat  BY <1>4, <1>8, <1>9
  <2>2. Max(S) * s.vn_2 <= r(Max(S)) * B + u1  BY <1>9
  <2> HIDE DEF S
  <2>3. QED  BY <1>5, <2>1, <2>2
<1>11. ASSUME NEW q \in Octet, q * v2 <= u3 PROVE q <= Max(S)
  <2>1. q \in Nat /\ q <= B - 1  BY <1>a, OctetIs
  <2>2. q <= d  BY <1>5, <1>11, <2>1
  <2>3. q \in 0 .. q0  BY <1>4, <2>1, <2>2
  <2>4. q * s.vn_2 <= r(q) * B + u1  BY <1>5, <1>11, <2>1
  <2>5. q \in S  BY <2>3, <2>4
  <2> HIDE DEF S
  <2>6. QED  BY <1>9, <2>5
<1> HIDE DEF S
<1>12. QED  BY <1>1, <1>7, <1>10, <1>11 DEF u3, w

\* The k octets of a memory from octet t on.
Window(u, t, k) == [i \in 1 .. k |-> u[t + i - 1]]

\* Octets of a memory are octets.
LEMMA WindowIs ==
  ASSUME NEW u \in Memory, NEW t \in Nat \ {0}, NEW k \in Nat, t + k - 1 <= Len(u)
  PROVE  /\ Window(u, t, k) \in Memory /\ Len(Window(u, t, k)) = k
         /\ \A i \in 1 .. k : Window(u, t, k)[i] = u[t + i - 1] /\ u[t + i - 1] \in Octet
<1>1. Len(u) \in Nat /\ \A i \in 1 .. Len(u) : u[i] \in Octet  BY MemoryIs
<1>2. \A i \in 1 .. k : t + i - 1 \in 1 .. Len(u)  BY <1>1
<1>3. \A i \in 1 .. k : u[t + i - 1] \in Octet  BY <1>1, <1>2
<1>4. Window(u, t, k) \in [1 .. k -> Octet] /\ \A i \in 1 .. k : Window(u, t, k)[i] = u[t + i - 1]
  BY <1>3 DEF Window
<1>5. QED  BY <1>3, <1>4, FunctionIsMemory

\* What subtracting a product leaves, and hands on, at each octet.
Differences == [carry : Nat, borrowed : {0, 1}, digit : Octet]
IsDifference(u, t, v, q, c) ==
  /\ c \in [0 .. v.payload + 1 -> Differences]
  /\ c[0] = u_vq_hat(0, 0)
  /\ \A i \in 1 .. v.payload + 1 :
       c[i] = u_vq_hat(u[t + i - 1], Padded(v, v.payload + 1)[i] * q + c[i - 1].carry + c[i - 1].borrowed)

\* An octet without a product that is handed on to it.
LEMMA OctetDifference ==
  ASSUME NEW o \in Octet, NEW d \in Nat
  PROVE  LET r == u_vq_hat(o, d) IN
         /\ r \in Differences
         /\ o - d = r.digit - Base * (r.carry + r.borrowed)
         /\ d <= (Base - 1) * Base => r.carry + r.borrowed <= Base - 1
         /\ d <= Base - 1 => r.carry = 0
<1> DEFINE B == Base
           r == u_vq_hat(o, d)
           k == d \div B
           m == d % B
           g == (o - d) % B
           h == (o - d) \div B
<1>a. B \in Nat \ {0, 1} /\ B \in Nat \ {0} /\ o \in 0 .. B - 1 /\ o \in Int  BY BaseIs, OctetIs
<1>1. k \in Nat /\ m \in 0 .. B - 1 /\ d = B * k + m
  <2>1. d \in Int  OBVIOUS
  <2>2. k \in Nat  BY <1>a, <2>1, Division
  <2>3. m \in 0 .. B - 1 /\ d = B * k + m  BY <1>a, <2>1, Division
  <2>4. QED  BY <2>2, <2>3
<1>2. r = [carry |-> k, borrowed |-> IF o < m THEN 1 ELSE 0, digit |-> g]  BY DEF u_vq_hat
<1> HIDE DEF k, m, r
<1> DEFINE e == IF o < m THEN 1 ELSE 0
<1>3. g \in 0 .. B - 1 /\ o - d = g - B * (k + e)
  <2> DEFINE z == o - m + B * e
  <2>1. z \in 0 .. B - 1
    <3>1. CASE o < m
      <4>1. B * e = B  BY <1>a, <3>1
      <4>2. QED  BY <1>a, <1>1, <3>1, <4>1
    <3>2. CASE ~(o < m)
      <4>1. B * e = 0  BY <1>a, <3>2
      <4>2. QED  BY <1>a, <1>1, <3>2, <4>1
    <3>3. QED  BY <3>1, <3>2
  <2>2. o - d = B * (0 - (k + e)) + z
    <3>1. B * (0 - (k + e)) = 0 - B * k - B * e  BY <1>a, <1>1
    <3>2. B * k \in Int /\ B * e \in Int /\ m \in Int  BY <1>a, <1>1
    <3>3. QED  BY <1>a, <1>1, <3>1, <3>2
  <2>3. o - d \in Int /\ 0 - (k + e) \in Int  BY <1>a, <1>1
  <2> HIDE DEF z, e
  <2>4. z = (o - d) % B  BY <1>a, <2>1, <2>2, <2>3, DivisionIsUnique
  <2>5. B * (0 - (k + e)) = 0 - B * (k + e) /\ B * (k + e) \in Int
    <3>1. e \in Int  BY DEF e
    <3>2. QED  BY <1>1, <1>a, <3>1
  <2>6. QED  BY <1>a, <2>1, <2>2, <2>4, <2>5
<1> HIDE DEF g
<1>4. r.carry = k /\ r.borrowed = e /\ r.digit = g /\ e \in {0, 1}  BY <1>2
<1>5. r \in Differences  BY <1>1, <1>2, <1>3 DEF Differences, Octet
<1>6. ASSUME d <= (B - 1) * B PROVE k + e <= B - 1
  <2>1. k <= B - 1 /\ (k = B - 1 => m = 0)
    <3>1. (B - 1) * B \in Int /\ k * B = B * k /\ k * B \in Int /\ B - 1 \in Int /\ k \in Int  BY <1>1, <1>a
    <3>2. k <= B - 1
      <4>1. B - 1 < k => (B - 1) * B + B <= k * B  BY <1>a, <3>1, Multiples
      <4>2. QED  BY <1>1, <1>6, <1>a, <3>1, <4>1
    <3>3. k = B - 1 => m = 0  BY <1>1, <1>6, <1>a, <3>1
    <3>4. QED  BY <3>2, <3>3
  <2>2. CASE k = B - 1
    <3>1. ~(o < m)  BY <1>a, <2>1, <2>2
    <3>2. QED  BY <1>a, <2>2, <3>1
  <2>3. CASE k # B - 1
    <3>1. e <= 1 /\ e \in Int  OBVIOUS
    <3>2. QED  BY <1>1, <1>a, <2>1, <2>3, <3>1
  <2>4. QED  BY <2>2, <2>3
<1>7. ASSUME d <= B - 1 PROVE k = 0
  <2>1. d < B  BY <1>7, <1>a
  <2>2. QED  BY <1>a, <2>1, SmallDividend DEF k
<1> HIDE DEF e
<1>8. QED  BY <1>3, <1>4, <1>5, <1>6, <1>7 DEF r

\* The octets that are left, and what is borrowed from beyond the highest.
LEMMA DifferenceIs ==
  ASSUME NEW v, IsNumber(v), NEW q \in Octet, NEW u \in Memory, NEW t \in Nat \ {0},
         t + v.payload <= Len(u), NEW c, IsDifference(u, t, v, q, c),
         NEW z, z = [i \in 1 .. v.payload + 1 |-> c[i].digit]
  PROVE  LET top == v.payload + 1 IN
         /\ DigitsOf(Base, z, top)
         /\ c[top].borrowed \in {0, 1}
         /\ ValueOf(Base, Window(u, t, top), top)
              = q * Value(v) + ValueOf(Base, z, top) - c[top].borrowed * (Base ** top)
<1> DEFINE B == Base
           L == v.payload
           top == L + 1
           e == Padded(v, top)
           w == Window(u, t, top)
           T(i) == c[i].carry + c[i].borrowed
           dd(i) == e[i] * q + c[i - 1].carry + c[i - 1].borrowed
<1>a. B \in Nat \ {0, 1} /\ B \in Int /\ q \in 0 .. B - 1 /\ q \in Int  BY BaseIs, OctetIs
<1>0. L \in Nat /\ top \in Nat /\ top \in 0 .. top /\ 0 \in 0 .. top /\ L <= top  BY NumberHas
<1>1. /\ DigitsOf(B, e, top) /\ Ints(e, top) /\ ValueOf(B, e, top) = Value(v)
      /\ \A i \in 1 .. top : e[i] = IF i <= L THEN v.mem[i] ELSE 0
  <2>1. L <= top /\ top \in Nat  BY <1>0
  <2> HIDE DEF top
  <2>2. QED  BY <2>1, PaddedIs
<1>2. w \in Memory /\ Len(w) = top /\ \A i \in 1 .. top : w[i] = u[t + i - 1] /\ u[t + i - 1] \in Octet
  <2>1. Len(u) \in Nat  BY MemoryIs
  <2>2. t + top - 1 <= Len(u)  BY <1>0, <2>1
  <2> HIDE DEF top
  <2>3. QED  BY <1>0, <2>2, WindowIs
<1>3. /\ \A i \in 0 .. top : c[i].carry \in Nat /\ c[i].borrowed \in {0, 1} /\ c[i].digit \in Octet
      /\ c[0] = u_vq_hat(0, 0)
      /\ \A i \in 1 .. top : c[i] = u_vq_hat(u[t + i - 1], dd(i))
  <2>1. \A i \in 0 .. top : c[i] \in Differences  BY DEF IsDifference
  <2>2. QED  BY <2>1 DEF IsDifference, Differences
<1>b. \A i \in 0 .. top : c[i].carry \in Nat /\ c[i].borrowed \in Nat
  <2>1. \A i \in 0 .. top : c[i].borrowed \in Nat  BY <1>3
  <2>2. QED  BY <1>3, <2>1
<1> HIDE DEF e, w
<1>4. \A i \in 1 .. top : i - 1 \in 0 .. top /\ i \in 0 .. top  BY <1>0
<1>5. \A i \in 1 .. top : e[i] \in 0 .. B - 1  BY <1>1 DEF DigitsOf
<1> HIDE DEF top
<1>6. \A i \in 1 .. top : dd(i) \in Nat
  <2> SUFFICES ASSUME NEW i \in 1 .. top PROVE dd(i) \in Nat  OBVIOUS
  <2>1. c[i - 1].carry \in Nat /\ c[i - 1].borrowed \in Nat  BY <1>b, <1>4
  <2>2. e[i] \in Nat /\ q \in Nat  BY <1>a, <1>5
  <2>3. e[i] * q \in Nat  BY <2>2
  <2> DEFINE P == e[i] * q
             C == c[i - 1].carry
             E == c[i - 1].borrowed
  <2>4. P \in Nat /\ C \in Nat /\ E \in Nat /\ dd(i) = P + C + E  BY <2>1, <2>3
  <2> HIDE DEF P, C, E, dd
  <2>5. QED  BY <2>4
<1>7. \A i \in 1 .. top : u[t + i - 1] - dd(i) = c[i].digit - B * T(i)
  <2> SUFFICES ASSUME NEW i \in 1 .. top PROVE u[t + i - 1] - dd(i) = c[i].digit - B * T(i)  OBVIOUS
  <2>1. u[t + i - 1] \in Octet /\ dd(i) \in Nat  BY <1>2, <1>6
  <2>2. c[i] = u_vq_hat(u[t + i - 1], dd(i))  BY <1>3
  <2> HIDE DEF dd
  <2>3. QED  BY <2>1, <2>2, OctetDifference
<1>8. \A i \in 0 .. top : T(i) \in 0 .. B - 1
  <2>1. T(0) = 0
    <3>1. 0 < B /\ 0 \in Nat /\ B \in Nat \ {0}  BY <1>a
    <3>2. 0 \div B = 0 /\ 0 % B = 0  BY <3>1, SmallDividend
    <3>3. c[0].carry = 0 /\ c[0].borrowed = 0  BY <1>3, <3>2 DEF u_vq_hat
    <3>4. QED  BY <3>3
  <2>2. ASSUME NEW i \in 1 .. top, T(i - 1) \in 0 .. B - 1 PROVE T(i) \in 0 .. B - 1
    <3>1. dd(i) <= (B - 1) * B
      <4>1. e[i] * q <= (B - 1) * (B - 1)
        <5>1. e[i] \in Nat /\ e[i] <= B - 1 /\ B - 1 \in Nat \ {0} /\ q \in Nat /\ q <= B - 1  BY <1>5, <1>a
        <5>2. q * (B - 1) <= (B - 1) * (B - 1)  BY <5>1, Multiples
        <5>3. CASE q = 0
          <6>1. e[i] * 0 = 0 /\ (B - 1) * (B - 1) \in Nat  BY <5>1
          <6>2. QED  BY <5>3, <6>1
        <5>4. CASE q # 0
          <6>1. q \in Nat \ {0} /\ e[i] \in Int /\ B - 1 \in Int  BY <5>1, <5>4
          <6>2. e[i] * q <= (B - 1) * q  BY <5>1, <6>1, Multiples
          <6>3. (B - 1) * q = q * (B - 1) /\ e[i] * q \in Int /\ q * (B - 1) \in Int /\ (B - 1) * (B - 1) \in Int
            BY <5>1
          <6>4. QED  BY <5>2, <6>2, <6>3
        <5>5. QED  BY <5>3, <5>4
      <4>2. (B - 1) * B = (B - 1) * (B - 1) + (B - 1) /\ (B - 1) * (B - 1) \in Int /\ e[i] * q \in Int
        BY <1>5, <1>a
      <4>3. dd(i) = e[i] * q + T(i - 1)
        <5>1. c[i - 1].carry \in Int /\ c[i - 1].borrowed \in Int  BY <1>3, <1>4
        <5>2. QED  BY <4>2, <5>1
      <4> HIDE DEF dd, T
      <4>4. QED  BY <1>a, <2>2, <4>1, <4>2, <4>3
    <3>2. u[t + i - 1] \in Octet /\ dd(i) \in Nat  BY <1>2, <1>6
    <3>3. c[i] = u_vq_hat(u[t + i - 1], dd(i))  BY <1>3
    <3>4. T(i) <= B - 1
      <4> HIDE DEF dd
      <4>1. QED  BY <3>1, <3>2, <3>3, OctetDifference
    <3>5. c[i].carry \in Nat /\ c[i].borrowed \in Nat  BY <1>3, <1>4
    <3>6. QED  BY <1>a, <3>4, <3>5
  <2>3. 0 \in 0 .. B - 1  BY <1>a
  <2> DEFINE Good == {i \in Nat : T(i) \in 0 .. B - 1}
  <2> HIDE DEF T
  <2>4. 0 \in Good  BY <2>1, <2>3
  <2>5. \A i \in 1 .. top : i - 1 \in Good => i \in Good
    <3>1. \A i \in 1 .. top : i \in Nat  BY <1>0
    <3>2. QED  BY <2>2, <3>1
  <2> HIDE DEF Good
  <2>6. 0 .. top \subseteq Good  BY <1>0, <2>4, <2>5, UpTo
  <2>7. QED  BY <2>6 DEF Good
<1>9. c[top].carry = 0 /\ T(top) = c[top].borrowed
  <2>1. top \in 1 .. top /\ ~(top <= L)  BY <1>0 DEF top
  <2>2. e[top] = 0  BY <1>1, <2>1
  <2>3. dd(top) = T(top - 1)
    <3>1. c[top - 1].carry \in Nat /\ c[top - 1].borrowed \in Nat  BY <1>b, <1>4, <2>1
    <3>2. 0 * q = 0  BY <1>a
    <3>3. QED  BY <2>2, <3>1, <3>2
  <2>4. T(top - 1) <= B - 1
    <3>1. top - 1 \in 0 .. top  BY <1>4, <2>1
    <3> HIDE DEF T
    <3>2. QED  BY <1>8, <1>a, <3>1
  <2>5. u[t + top - 1] \in Octet /\ dd(top) \in Nat  BY <1>2, <1>6, <2>1
  <2>6. c[top] = u_vq_hat(u[t + top - 1], dd(top))  BY <1>3, <2>1
  <2>7. dd(top) <= B - 1
    <3> HIDE DEF T, dd
    <3>1. QED  BY <2>3, <2>4
  <2>8. c[top].carry = 0
    <3> HIDE DEF dd
    <3>1. QED  BY <2>5, <2>6, <2>7, OctetDifference
  <2>9. c[top].borrowed \in Nat  BY <1>0, <1>3
  <2>10. QED  BY <2>8, <2>9
<1> DEFINE d == [i \in 1 .. top |-> w[i] + (0 - q) * e[i]]
           s == [i \in 0 .. top |-> 0 - T(i)]
<1>10. DigitsOf(B, z, top) /\ Ints(z, top) /\ \A i \in 1 .. top : z[i] = c[i].digit
  <2>1. \A i \in 1 .. top : z[i] = c[i].digit  BY DEF top
  <2>2. \A i \in 1 .. top : z[i] \in 0 .. B - 1  BY <1>3, <1>4, <2>1, OctetIs
  <2>3. QED  BY <1>a, <2>1, <2>2 DEF DigitsOf, Ints
<1>11. /\ Ints(d, top) /\ Combined(d, w, 0 - q, e, top) /\ Ints(w, top)
       /\ \A i \in 1 .. top : d[i] = w[i] + (0 - q) * e[i]
  <2>1. \A i \in 1 .. top : w[i] \in Int /\ e[i] \in Int
    <3>1. \A i \in 1 .. top : w[i] \in Nat  BY <1>2, OctetIs
    <3>2. QED  BY <1>5, <1>a, <3>1
  <2>2. \A i \in 1 .. top : d[i] = w[i] + (0 - q) * e[i]  OBVIOUS
  <2>3. \A i \in 1 .. top : (0 - q) * e[i] \in Int  BY <1>a, <2>1
  <2>4. \A i \in 1 .. top : d[i] \in Int  BY <2>1, <2>2, <2>3
  <2>5. QED  BY <2>1, <2>2, <2>4 DEF Ints, Combined
<1>12. HandedOn(B, d, z, s, top)
  <2>1. \A i \in 0 .. top : s[i] = 0 - T(i) /\ s[i] \in Int
    <3> HIDE DEF T
    <3>1. \A i \in 0 .. top : T(i) \in Int  BY <1>8, <1>a
    <3>2. QED  BY <3>1
  <2>2. ASSUME NEW i \in 1 .. top PROVE d[i] + s[i - 1] = z[i] + B * s[i]
    <3>1. d[i] = w[i] + (0 - q) * e[i] /\ w[i] = u[t + i - 1] /\ z[i] = c[i].digit  BY <1>2, <1>10, <1>11
    <3>2. s[i - 1] = 0 - T(i - 1) /\ s[i] = 0 - T(i)  BY <1>4, <2>1
    <3>3. u[t + i - 1] - dd(i) = c[i].digit - B * T(i)  BY <1>7
    <3>4. dd(i) = e[i] * q + T(i - 1)
      <4>1. c[i - 1].carry \in Int /\ c[i - 1].borrowed \in Int  BY <1>3, <1>4
      <4>2. e[i] * q \in Int  BY <1>5, <1>a
      <4>3. QED  BY <4>1, <4>2
    <3>5. T(i - 1) \in Int /\ T(i) \in Int
      <4> HIDE DEF T
      <4>1. QED  BY <1>4, <1>8, <1>a
    <3>6. c[i].digit \in Int /\ u[t + i - 1] \in Int  BY <1>2, <1>3, <1>4, OctetIs
    <3> HIDE DEF T, dd, s, d
    <3>7. (0 - q) * e[i] = 0 - e[i] * q /\ e[i] * q \in Int /\ B * (0 - T(i)) = 0 - B * T(i) /\ B * T(i) \in Int
      BY <1>5, <1>a, <3>5
    <3> DEFINE P == (0 - q) * e[i]
               Q == e[i] * q
               R == B * (0 - T(i))
               S == B * T(i)
               g == c[i].digit
               o == u[t + i - 1]
    <3>8. d[i] = o + P /\ s[i - 1] = 0 - T(i - 1) /\ z[i] + B * s[i] = g + R
          /\ o - dd(i) = g - S /\ dd(i) = Q + T(i - 1) /\ P = 0 - Q /\ R = 0 - S
          /\ Q \in Int /\ S \in Int /\ g \in Int /\ o \in Int /\ T(i - 1) \in Int
      BY <3>1, <3>2, <3>3, <3>4, <3>5, <3>6, <3>7
    <3> HIDE DEF P, Q, R, S, g, o
    <3>9. QED  BY <3>8
  <2> HIDE DEF s, d, T, dd
  <2>3. QED  BY <2>1, <2>2 DEF HandedOn
<1> HIDE DEF d
<1>13. ValueOf(B, d, top) + s[0] = ValueOf(B, z, top) + s[top] * (B ** top)
  <2> HIDE DEF s
  <2>1. \A j \in 0 .. top : ValueOf(B, d, j) + s[0] = ValueOf(B, z, j) + s[j] * (B ** j)
    BY <1>a, <1>0, <1>10, <1>11, <1>12, Telescope
  <2>2. QED  BY <1>0, <2>1
<1>14. ValueOf(B, d, top) = ValueOf(B, w, top) + (0 - q) * ValueOf(B, e, top)
  <2>1. 0 - q \in Int  BY <1>a
  <2>2. \A j \in 0 .. top : ValueOf(B, d, j) = ValueOf(B, w, j) + (0 - q) * ValueOf(B, e, j)
    BY <1>a, <1>0, <1>1, <1>11, <2>1, CombinedValue
  <2>3. QED  BY <1>0, <2>2
<1>15. s[0] = 0 /\ s[top] = 0 - c[top].borrowed
  <2>1. c[0].carry = 0 /\ c[0].borrowed = 0
    <3>1. 0 < B /\ 0 \in Nat /\ B \in Nat \ {0}  BY <1>a
    <3>2. 0 \div B = 0 /\ 0 % B = 0  BY <3>1, SmallDividend
    <3>3. QED  BY <1>3, <3>2 DEF u_vq_hat
  <2>2. T(0) = 0  BY <2>1
  <2> HIDE DEF T
  <2>3. QED  BY <1>0, <1>9, <2>2
<1>16. c[top].borrowed \in {0, 1}  BY <1>0, <1>3
<1> HIDE DEF s
<1>17. ValueOf(B, w, top) = q * Value(v) + ValueOf(B, z, top) - c[top].borrowed * (B ** top)
  <2>1. B ** top \in Int /\ ValueOf(B, z, top) \in Int /\ ValueOf(B, w, top) \in Int /\ Value(v) \in Int
    <3>1. B ** top \in Int  BY <1>0, BasePowers
    <3>2. \A j \in 0 .. top : ValueOf(B, z, j) \in Int  BY <1>0, <1>a, <1>10, Values
    <3>3. \A j \in 0 .. top : ValueOf(B, w, j) \in Int  BY <1>0, <1>a, <1>11, Values
    <3>4. Value(v) \in Int  BY NumberHas
    <3>5. QED  BY <1>0, <3>1, <3>2, <3>3, <3>4
  <2>2. (0 - q) * Value(v) = 0 - q * Value(v) /\ q * Value(v) \in Int  BY <1>a, <2>1
  <2>3. (0 - c[top].borrowed) * (B ** top) = 0 - c[top].borrowed * (B ** top)
        /\ c[top].borrowed * (B ** top) \in Int
    BY <1>16, <2>1
  <2>4. QED  BY <1>1, <1>13, <1>14, <1>15, <2>1, <2>2, <2>3
<1>18. QED  BY <1>10, <1>16, <1>17 DEF top, w

\* What is left of a dividend: its octets and the quotient's octets so far.
States(k) == {s \in [u : Memory, q : Seq(Int)] : Len(s.u) = k}

\* Octets u from t on, less the product of q and v.
LEMMA SubtractProductIs ==
  ASSUME NEW v, IsNumber(v), v.payload > 0, NEW q \in Octet, NEW k \in Nat, NEW s \in States(k),
         NEW t \in Nat \ {0}, t + v.payload <= k
  PROVE  LET r == SubtractProduct(s, t, v, q)
             top == v.payload + 1
             u == ValueOf(Base, Window(s.u, t, top), top)
         IN /\ r \in States(k)
            /\ \A i \in 1 .. t - 1 : r.u[i] = s.u[i]
            /\ \E digit \in Int : r.q = <<digit>> \o s.q
            /\ \A Q \in Nat :
                 Q * Value(v) <= u /\ u < (Q + 1) * Value(v) /\ q \in {Q, Q + 1}
                 => r.q = <<Q>> \o s.q /\ ValueOf(Base, Window(r.u, t, top), top) = u - Q * Value(v)
<1> DEFINE B == Base
           L == v.payload
           top == L + 1
           octet(i) == IF i < top THEN v.mem[i] ELSE 0
           c == CHOOSE g : g = [i \in 0 .. top |->
                  IF i = 0 THEN u_vq_hat(0, 0)
                  ELSE u_vq_hat(s.u[t + i - 1], octet(i) * q + g[i - 1].carry + g[i - 1].borrowed)]
           difference == [i \in 1 .. top |-> c[i].digit]
           back == [i \in 1 .. top |-> c[i].digit + octet(i)]
           octets == IF c[top].borrowed = 0 THEN difference
                     ELSE Carried(B, back, top, Carries(B, back, top, 0))
           digit == IF c[top].borrowed = 0 THEN q ELSE q - 1
           r == SubtractProduct(s, t, v, q)
           X == ValueOf(B, Window(s.u, t, top), top)
           V == Value(v)
           P == B ** top
<1>a. B \in Nat \ {0, 1} /\ B \in Nat \ {0} /\ B \in Int /\ q \in 0 .. B - 1 /\ q \in Int  BY BaseIs, OctetIs
<1>0. L \in Nat /\ top \in Nat /\ top \in 0 .. top /\ top = L + 1 /\ L <= top /\ V \in Nat /\ V \in Nat \ {0}
      /\ V < B ** L
  BY NumberHas
<1>1. s.u \in Memory /\ s.q \in Seq(Int) /\ Len(s.u) = k /\ s = [u |-> s.u, q |-> s.q]  BY DEF States
<1>2. r = [u |-> Put(s.u, t, octets), q |-> <<digit>> \o s.q]  BY DEF SubtractProduct
<1> HIDE DEF r
<1> DEFINE e == Padded(v, top)
<1>3. /\ DigitsOf(B, e, top) /\ Ints(e, top) /\ ValueOf(B, e, top) = V
      /\ \A i \in 1 .. top : e[i] = octet(i)
  <2>1. \A i \in 1 .. top : i < top <=> i <= L  BY <1>0
  <2> HIDE DEF top
  <2>2. /\ DigitsOf(B, e, top) /\ Ints(e, top) /\ ValueOf(B, e, top) = V
        /\ \A i \in 1 .. top : e[i] = IF i <= L THEN v.mem[i] ELSE 0
    BY <1>0, PaddedIs
  <2> HIDE DEF e
  <2>3. QED  BY <2>1, <2>2
<1> HIDE DEF e, octet
<1>4. \A i \in 1 .. top : s.u[t + i - 1] \in Octet /\ e[i] \in 0 .. B - 1 /\ i \in 0 .. top /\ i - 1 \in 0 .. top
  <2>1. \A i \in 1 .. top : t + i - 1 \in 1 .. k  BY <1>0
  <2>2. \A i \in 1 .. k : s.u[i] \in Octet  BY <1>1, MemoryIs
  <2>3. \A i \in 1 .. top : i \in 0 .. top /\ i - 1 \in 0 .. top  BY <1>0
  <2>4. \A i \in 1 .. top : e[i] \in 0 .. B - 1  BY <1>3 DEF DigitsOf
  <2>5. QED  BY <2>1, <2>2, <2>3, <2>4
<1>5. IsDifference(s.u, t, v, q, c)
  <2> DEFINE d(i, p) == octet(i) * q + p.carry + p.borrowed
             start == u_vq_hat(0, 0)
             step == [i \in 1 .. top |-> [p \in Differences |-> u_vq_hat(s.u[t + i - 1], d(i, p))]]
  <2>1. start \in Differences
    <3>1. 0 \in Octet /\ 0 \in Nat  BY OctetIs
    <3>2. QED  BY <3>1, OctetDifference
  <2>2. \A i \in 1 .. top, p \in Differences : u_vq_hat(s.u[t + i - 1], d(i, p)) \in Differences
    <3> SUFFICES ASSUME NEW i \in 1 .. top, NEW p \in Differences
                 PROVE  u_vq_hat(s.u[t + i - 1], d(i, p)) \in Differences
      OBVIOUS
    <3>1. octet(i) \in Nat /\ q \in Nat /\ octet(i) * q \in Nat
      <4>1. octet(i) \in Nat /\ q \in Nat  BY <1>3, <1>4, <1>a
      <4>2. QED  BY <4>1
    <3>2. p.carry \in Nat /\ p.borrowed \in Nat  BY DEF Differences
    <3>3. d(i, p) \in Nat
      <4> DEFINE f == octet(i) * q
                 g == p.carry
                 h == p.borrowed
      <4>1. f \in Nat /\ g \in Nat /\ h \in Nat /\ d(i, p) = f + g + h  BY <3>1, <3>2
      <4> HIDE DEF f, g, h, d
      <4>2. QED  BY <4>1
    <3> HIDE DEF d
    <3>4. QED  BY <1>4, <3>3, OctetDifference
  <2> HIDE DEF d
  <2>3. step \in [1 .. top -> [Differences -> Differences]]
        /\ \A i \in 1 .. top, p \in Differences : step[i][p] = u_vq_hat(s.u[t + i - 1], d(i, p))
    BY <2>2
  <2> HIDE DEF step, start, top
  <2>4. PICK g \in [0 .. top -> Differences] : Computed(g, top, start, step)  BY <1>0, <2>1, <2>3, Chain
  <2>5. g = [i \in 0 .. top |-> IF i = 0 THEN start ELSE u_vq_hat(s.u[t + i - 1], d(i, g[i - 1]))]
    <3>1. g = [i \in 0 .. top |-> IF i = 0 THEN start ELSE step[i][g[i - 1]]]  BY <2>4 DEF Computed
    <3>2. ASSUME NEW i \in 0 .. top
          PROVE  (IF i = 0 THEN start ELSE step[i][g[i - 1]])
                   = IF i = 0 THEN start ELSE u_vq_hat(s.u[t + i - 1], d(i, g[i - 1]))
      <4>1. i # 0 => i \in 1 .. top /\ i - 1 \in 0 .. top  BY <1>0
      <4>2. i # 0 => g[i - 1] \in Differences  BY <2>4, <4>1
      <4>3. QED  BY <2>3, <4>1, <4>2
    <3>3. QED  BY <3>1, <3>2
  <2>6. c = [i \in 0 .. top |-> IF i = 0 THEN start ELSE u_vq_hat(s.u[t + i - 1], d(i, c[i - 1]))]
    BY <2>5 DEF start, d
  <2> HIDE DEF c
  <2>7. 0 \in 0 .. top /\ c[0] = start
    <3>1. 0 \in 0 .. top  BY <1>0
    <3>2. QED  BY <2>6, <3>1
  <2>8. \A i \in 1 .. top : c[i] = u_vq_hat(s.u[t + i - 1], d(i, c[i - 1]))
    <3>1. \A i \in 1 .. top : i \in 0 .. top /\ i # 0  BY <1>0
    <3>2. QED  BY <2>6, <3>1
  <2>9. \A i \in 0 .. top : c[i] \in Differences
    <3> DEFINE T == Differences
    <3>1. c[0] \in T  BY <2>1, <2>7
    <3>2. \A i \in 1 .. top : c[i - 1] \in T => c[i] \in T  BY <2>2, <2>8
    <3> HIDE DEF T
    <3>3. \A i \in 0 .. top : c[i] \in T  BY <1>0, <3>1, <3>2, LoopKeeps
    <3>4. QED  BY <3>3 DEF T
  <2>10. c \in [0 .. top -> Differences]  BY <2>6, <2>9
  <2>11. \A i \in 1 .. top : c[i] = u_vq_hat(s.u[t + i - 1], e[i] * q + c[i - 1].carry + c[i - 1].borrowed)
    BY <1>3, <2>8 DEF d
  <2>12. QED  BY <1>0, <2>7, <2>10, <2>11 DEF IsDifference, e, start
<1> HIDE DEF c
<1> DEFINE Z == ValueOf(B, difference, top)
           b == c[top].borrowed
<1>6. /\ DigitsOf(B, difference, top) /\ b \in {0, 1}
      /\ X = q * V + Z - b * P
  <2>1. t + L <= Len(s.u)  BY <1>1
  <2>2. difference = [i \in 1 .. L + 1 |-> c[i].digit]  OBVIOUS
  <2> HIDE DEF difference
  <2>3. QED  BY <1>1, <1>5, <2>1, <2>2, DifferenceIs
<1>7. P \in Nat \ {0} /\ Z \in 0 .. P - 1 /\ V < P
  <2>1. P \in Nat \ {0}  BY <1>0, BasePowers
  <2>2. \A j \in 0 .. top : ValueOf(B, difference, j) \in 0 .. (B ** j) - 1
    <3> HIDE DEF difference, top
    <3>1. QED  BY <1>0, <1>a, <1>6, ValueIsBounded
  <2>3. Z \in 0 .. P - 1  BY <1>0, <2>2
  <2>4. B ** L <= P
    <3> HIDE DEF top
    <3>1. \A j \in Nat : j <= top => B ** j <= B ** top  BY <1>0, BasePowers
    <3>2. QED  BY <1>0, <3>1
  <2>5. B ** L \in Nat  BY <1>0, BasePowers
  <2> HIDE DEF P, Z
  <2>6. QED  BY <1>0, <2>1, <2>3, <2>4, <2>5
<1> DEFINE sum == ValueOf(B, back, top)
           cc == Carries(B, back, top, 0)
           zz == Carried(B, back, top, cc)
<1>8. /\ zz \in Memory /\ Len(zz) = top
      /\ \E j \in Int : Z + V = ValueOf(B, zz, top) + j * P
      /\ ValueOf(B, zz, top) \in 0 .. P - 1
  <2>1. \A i \in 1 .. top : back[i] = difference[i] + 1 * e[i] /\ back[i] \in Int /\ difference[i] \in Int
    <3> SUFFICES ASSUME NEW i \in 1 .. top
                 PROVE  back[i] = difference[i] + 1 * e[i] /\ back[i] \in Int /\ difference[i] \in Int
      OBVIOUS
    <3>1. back[i] = c[i].digit + e[i] /\ difference[i] = c[i].digit  BY <1>3
    <3>2. difference[i] \in 0 .. B - 1  BY <1>6 DEF DigitsOf
    <3>3. e[i] \in Int  BY <1>4, <1>a
    <3>4. QED  BY <1>a, <3>1, <3>2, <3>3
  <2>2. Combined(back, difference, 1, e, top) /\ Ints(back, top) /\ Ints(difference, top)
    BY <2>1 DEF Combined, Ints
  <2>3. 1 \in Int /\ 0 \in Int  OBVIOUS
  <2> HIDE DEF back, difference, top
  <2>4. \A j \in 0 .. top : ValueOf(B, back, j) = ValueOf(B, difference, j) + 1 * ValueOf(B, e, j)
    BY <1>0, <1>3, <1>a, <2>2, <2>3, CombinedValue
  <2>5. sum = Z + V
    <3>1. sum = Z + 1 * V  BY <1>0, <1>3, <2>4
    <3>2. 1 * V = V  BY <1>0
    <3>3. QED  BY <3>1, <3>2
  <2>6. /\ zz \in [1 .. top -> 0 .. B - 1] /\ DigitsOf(B, zz, top)
        /\ \A j \in 0 .. top : ValueOf(B, back, j) + 0 = ValueOf(B, zz, j) + cc[j] * (B ** j)
    BY <1>0, <1>a, <2>2, <2>3, CarriedValue
  <2>7. zz \in Memory /\ Len(zz) = top
    <3>1. zz \in [1 .. top -> Octet]  BY <2>6, OctetIs
    <3>2. QED  BY <1>0, <3>1, FunctionIsMemory
  <2>8. cc[top] \in Int
    <3>1. \A i \in 0 .. top : cc[i] \in Int  BY <1>0, <1>a, <2>2, <2>3, Carrying
    <3>2. QED  BY <1>0, <3>1
  <2>9. ValueOf(B, zz, top) \in 0 .. P - 1
    <3>1. \A j \in 0 .. top : ValueOf(B, zz, j) \in 0 .. (B ** j) - 1
      <4> HIDE DEF zz
      <4>1. QED  BY <1>0, <1>a, <2>6, ValueIsBounded
    <3>2. QED  BY <1>0, <3>1
  <2>10. sum + 0 = ValueOf(B, zz, top) + cc[top] * P  BY <1>0, <2>6
  <2>11. sum + 0 = Z + V
    <3> HIDE DEF sum, Z
    <3>1. QED  BY <1>0, <1>7, <2>5
  <2>12. QED  BY <2>7, <2>8, <2>9, <2>10, <2>11
<1>9. difference \in Memory /\ Len(difference) = top
  <2>1. \A i \in 1 .. top : difference[i] \in Octet  BY <1>6, OctetIs DEF DigitsOf
  <2>2. difference \in [1 .. top -> Octet]  BY <2>1
  <2> HIDE DEF difference, top
  <2>3. QED  BY <1>0, <2>2, FunctionIsMemory
<1>10. octets \in Memory /\ Len(octets) = top /\ (b = 0 => octets = difference) /\ (b # 0 => octets = zz)
  BY <1>8, <1>9
<1> HIDE DEF octets, difference, zz, Z, P, X, V, back
<1>11. r.u = Put(s.u, t, octets) /\ r.q = <<digit>> \o s.q /\ r = [u |-> r.u, q |-> r.q]  BY <1>2
<1>12. /\ r.u \in Memory /\ Len(r.u) = k
       /\ \A i \in 1 .. k : r.u[i] = IF i >= t /\ i < t + top THEN octets[i - t + 1] ELSE s.u[i]
  <2>1. t + Len(octets) - 1 <= Len(s.u)  BY <1>0, <1>1, <1>10
  <2>2. QED  BY <1>1, <1>10, <1>11, <2>1, PutIs
<1>13. digit \in Int /\ r \in States(k)
  <2>1. digit \in Int  BY <1>a
  <2> HIDE DEF digit
  <2>2. <<digit>> \o s.q \in Seq(Int)  BY <1>1, <2>1
  <2>3. QED  BY <1>11, <1>12, <2>1, <2>2 DEF States
<1>14. \A i \in 1 .. t - 1 : r.u[i] = s.u[i]
  <2>1. \A i \in 1 .. t - 1 : i \in 1 .. k /\ ~(i >= t)  BY <1>0
  <2>2. QED  BY <1>12, <2>1
<1>15. ValueOf(B, Window(r.u, t, top), top) = ValueOf(B, octets, top)
  <2> DEFINE w == Window(r.u, t, top)
  <2>1. \A i \in 1 .. top : w[i] = r.u[t + i - 1]  BY DEF Window
  <2>2. \A i \in 1 .. top : t + i - 1 \in 1 .. k /\ t + i - 1 >= t /\ t + i - 1 < t + top /\ (t + i - 1) - t + 1 = i
    BY <1>0
  <2>3. \A i \in 1 .. top : r.u[t + i - 1] = octets[i]  BY <1>12, <2>2
  <2>4. Same(octets, w, top)  BY <2>1, <2>3 DEF Same
  <2>5. Ints(octets, top)  BY <1>0, <1>10, MemoryIs
  <2> HIDE DEF w, top
  <2>6. ValueOf(B, octets, top) = ValueOf(B, w, top)  BY <1>0, <1>a, <2>4, <2>5, SameDigits
  <2>7. QED  BY <2>6 DEF w
<1>16. ASSUME NEW Q \in Nat, Q * V <= X, X < (Q + 1) * V, q \in {Q, Q + 1}
       PROVE  digit = Q /\ ValueOf(B, octets, top) = X - Q * V
  <2>1. Q * V \in Int /\ (Q + 1) * V = Q * V + V /\ X = q * V + Z - b * P /\ 0 * P = 0 /\ 1 * P = P /\ Z \in Nat
        /\ Z < P /\ P \in Nat /\ V \in Nat /\ X \in Int
    <3>1. Q * V \in Int /\ (Q + 1) * V = Q * V + V /\ 0 * P = 0 /\ 1 * P = P  BY <1>0, <1>7
    <3>2. Z \in Nat /\ Z < P /\ P \in Nat /\ V \in Nat  BY <1>0, <1>7
    <3>3. q * V \in Int /\ b * P \in Int  BY <1>6, <1>a, <3>2
    <3>4. X \in Int  BY <1>6, <3>2, <3>3
    <3>5. QED  BY <1>6, <3>1, <3>2, <3>4
  <2>2. CASE b = 0
    <3>1. X = q * V + Z
      <4>1. X = q * V + Z - 0  BY <2>1, <2>2
      <4>2. q * V \in Int  BY <1>a, <2>1
      <4>3. QED  BY <2>1, <4>1, <4>2
    <3>2. q = Q
      <4>1. CASE q = Q + 1
        <5>1. X = (Q + 1) * V + Z  BY <3>1, <4>1
        <5>2. QED  BY <1>16, <2>1, <5>1
      <4>2. QED  BY <1>16, <4>1
    <3>3. ValueOf(B, octets, top) = Z /\ digit = q  BY <1>10, <2>2 DEF Z
    <3>4. Z = X - Q * V
      <4>1. X = Q * V + Z  BY <3>1, <3>2
      <4>2. QED  BY <2>1, <4>1
    <3>5. QED  BY <3>2, <3>3, <3>4
  <2>3. CASE b = 1
    <3>1. X = q * V + Z - P  BY <2>1, <2>3
    <3>2. q = Q + 1
      <4>1. CASE q = Q
        <5>1. X = Q * V + Z - P  BY <3>1, <4>1
        <5>2. QED  BY <1>16, <2>1, <5>1
      <4>2. QED  BY <1>16, <4>1
    <3>3. X - Q * V = Z + V - P
      <4>1. X = (Q + 1) * V + Z - P  BY <3>1, <3>2
      <4>2. QED  BY <2>1, <4>1
    <3> DEFINE R == X - Q * V
               zv == ValueOf(B, zz, top)
    <3>4. R \in 0 .. P - 1
      <4>1. R \in Int /\ R >= 0 /\ R < V  BY <1>16, <2>1
      <4>2. QED  BY <1>7, <2>1, <4>1
    <3>5. PICK j \in Int : Z + V = zv + j * P  BY <1>8
    <3>6. zv \in 0 .. P - 1  BY <1>8
    <3>7. Z + V = R + 1 * P  BY <2>1, <3>3
    <3> HIDE DEF R, zv
    <3>8. zv = R
      <4>1. Z + V = P * j + zv /\ Z + V = P * 1 + R
        <5>1. j * P = P * j /\ 1 * P = P * 1 /\ j * P \in Int  BY <2>1
        <5>2. zv \in Int /\ R \in Int  BY <2>1, <3>4, <3>6
        <5>3. QED  BY <2>1, <3>5, <3>7, <5>1, <5>2
      <4>2. Z + V \in Int /\ 1 \in Int  BY <2>1
      <4>3. zv = (Z + V) % P  BY <1>7, <3>6, <4>1, <4>2, DivisionIsUnique
      <4>4. R = (Z + V) % P  BY <1>7, <3>4, <4>1, <4>2, DivisionIsUnique
      <4>5. QED  BY <4>3, <4>4
    <3>9. digit = Q
      <4>1. digit = q - 1  BY <2>3
      <4>2. QED  BY <3>2, <4>1
    <3>10. QED  BY <1>10, <2>3, <3>8, <3>9 DEF R, zv
  <2>4. QED  BY <1>6, <2>2, <2>3
<1> HIDE DEF digit, top
<1>17. QED  BY <1>11, <1>13, <1>14, <1>15, <1>16 DEF top, X, V, r

\* The octets that a number below a power has beyond it are zero.
LEMMA NothingAbove ==
  ASSUME NEW k \in Nat, NEW w, DigitsOf(Base, w, k + 1), ValueOf(Base, w, k + 1) < Base ** k
  PROVE  ValueOf(Base, w, k) = ValueOf(Base, w, k + 1)
<1>a. Base \in Nat \ {0} /\ Base \in Int  BY BaseIs
<1>0. k + 1 \in Nat /\ k + 1 \in 1 .. k + 1 /\ (k + 1) - 1 = k /\ k \in 0 .. k + 1  OBVIOUS
<1>1. Ints(w, k + 1)
  <2>1. \A i \in 1 .. k + 1 : w[i] \in 0 .. Base - 1  BY DEF DigitsOf
  <2>2. \A i \in 1 .. k + 1 : w[i] \in Int  BY <1>a, <2>1
  <2>3. QED  BY <2>2 DEF Ints
<1>2. ValueOf(Base, w, k + 1) = ValueOf(Base, w, k) + w[k + 1] * (Base ** k)
  <2>1. \A j \in 1 .. k + 1 : ValueOf(Base, w, j) = ValueOf(Base, w, j - 1) + w[j] * (Base ** (j - 1))
    BY <1>a, <1>0, <1>1, Values
  <2>2. QED  BY <1>0, <2>1
<1>3. ValueOf(Base, w, k) \in 0 .. (Base ** k) - 1
  <2>1. \A j \in 0 .. k + 1 : ValueOf(Base, w, j) \in 0 .. (Base ** j) - 1  BY <1>a, <1>0, ValueIsBounded
  <2>2. QED  BY <1>0, <2>1
<1> DEFINE P == Base ** k
           o == w[k + 1]
           z == ValueOf(Base, w, k)
<1>4. P \in Nat \ {0} /\ o \in 0 .. Base - 1
  <2>1. P \in Nat \ {0}  BY BasePowers
  <2>2. o \in 0 .. Base - 1  BY <1>0 DEF DigitsOf
  <2>3. QED  BY <2>1, <2>2
<1>5. z \in 0 .. P - 1 /\ ValueOf(Base, w, k + 1) = z + o * P /\ ValueOf(Base, w, k + 1) < P  BY <1>2, <1>3
<1> HIDE DEF P, o, z
<1>6. o = 0
  <2>1. CASE o # 0
    <3>1. 1 <= o /\ 1 \in Int /\ o \in Int  BY <1>4, <1>a, <2>1
    <3>2. 1 * P <= o * P /\ o * P \in Int /\ 1 * P = P  BY <1>4, <3>1, Multiples
    <3>3. QED  BY <1>4, <1>5, <3>2
  <2>2. QED  BY <2>1
<1>7. 0 * P = 0 /\ z \in Int  BY <1>4, <1>5
<1>8. QED  BY <1>5, <1>6, <1>7 DEF z

\* The dividend of a step: what is left of the last one, and the next octet.
LEMMA NextDividend ==
  ASSUME NEW u \in Memory, NEW t \in Nat \ {0}, NEW k \in Nat, t + k <= Len(u)
  PROVE  /\ ValueOf(Base, Window(u, t, k + 1), k + 1)
              = ValueOf(Base, Window(u, t + 1, k), k) * Base + u[t]
         /\ u[t] \in Octet /\ ValueOf(Base, Window(u, t + 1, k), k) \in Nat
<1> DEFINE w == Window(u, t, k + 1)
           e == Window(u, t + 1, k)
<1>a. Base \in Nat \ {0} /\ Base \in Int /\ Base ** 0 = 1 /\ Base ** 1 = Base  BY BaseIs, BasePowers
<1>0. Len(u) \in Nat /\ k + 1 \in Nat /\ t + 1 \in Nat \ {0} /\ k \in 0 .. k /\ 1 \in Nat
  BY MemoryIs
<1>1. w \in Memory /\ Len(w) = k + 1 /\ \A i \in 1 .. k + 1 : w[i] = u[t + i - 1] /\ u[t + i - 1] \in Octet
  <2>1. t + (k + 1) - 1 <= Len(u)  BY <1>0
  <2>2. QED  BY <1>0, <2>1, WindowIs
<1>2. e \in Memory /\ Len(e) = k /\ \A i \in 1 .. k : e[i] = u[(t + 1) + i - 1]
  <2>1. (t + 1) + k - 1 <= Len(u)  BY <1>0
  <2>2. QED  BY <1>0, <2>1, WindowIs
<1> HIDE DEF w, e
<1>3. Above(e, w, 1, k)
  <2>1. \A i \in 1 .. k : 1 + i \in 1 .. k + 1 /\ t + (1 + i) - 1 = (t + 1) + i - 1  BY <1>0
  <2>2. QED  BY <1>1, <1>2, <2>1 DEF Above
<1>4. Ints(w, 1 + k)
  <2>1. k + 1 \in 0 .. Len(w) /\ 1 + k = k + 1  BY <1>1
  <2>2. QED  BY <1>1, <2>1, MemoryIs
<1>5. ValueOf(Base, w, 1 + k) = ValueOf(Base, w, 1) + (Base ** 1) * ValueOf(Base, e, k)
  BY <1>a, <1>0, <1>3, <1>4, SplitValue
<1>6. ValueOf(Base, w, 1) = w[1] /\ w[1] = u[t] /\ w[1] \in Octet
  <2>1. 1 \in 1 .. k + 1 /\ t + 1 - 1 = t /\ 1 - 1 = 0 /\ 1 + k = k + 1  OBVIOUS
  <2>2. w[1] = u[t] /\ w[1] \in Octet  BY <1>1, <2>1
  <2>3. ValueOf(Base, w, 0) = 0 /\ \A j \in 1 .. k + 1 : ValueOf(Base, w, j) = ValueOf(Base, w, j - 1) + w[j] * (Base ** (j - 1))
    <3>1. ValueOf(Base, w, 0) = 0  BY <1>a, <1>0, <1>4, <2>1, Values
    <3>2. \A j \in 1 .. k + 1 : ValueOf(Base, w, j) = ValueOf(Base, w, j - 1) + w[j] * (Base ** (j - 1))
      BY <1>a, <1>0, <1>4, <2>1, Values
    <3>3. QED  BY <3>1, <3>2
  <2>4. ValueOf(Base, w, 1) = 0 + w[1] * 1  BY <1>a, <2>1, <2>3
  <2>5. w[1] \in Nat  BY <2>2, OctetIs
  <2>6. QED  BY <2>2, <2>4, <2>5
<1>7. ValueOf(Base, e, k) \in Nat
  <2>1. k \in 0 .. Len(e)  BY <1>2, <1>0
  <2>2. QED  BY <1>2, <2>1, MemoryValue
<1>8. 1 + k = k + 1 /\ Base * ValueOf(Base, e, k) = ValueOf(Base, e, k) * Base /\ w[1] \in Int
      /\ ValueOf(Base, e, k) * Base \in Int
  BY <1>a, <1>6, <1>7, OctetIs
<1> DEFINE q == ValueOf(Base, e, k) * Base
<1> HIDE DEF q
<1>9. ValueOf(Base, w, k + 1) = u[t] + q  BY <1>a, <1>5, <1>6, <1>8 DEF q
<1>10. u[t] + q = q + u[t]  BY <1>6, <1>8 DEF q
<1>11. QED  BY <1>6, <1>7, <1>9, <1>10 DEF w, e, q

\* The four highest octets of a dividend.
LEMMA LeadingIs ==
  ASSUME NEW u \in Memory, NEW t \in Nat \ {0}, NEW k \in Nat, k >= 3, t + k <= Len(u)
  PROVE  /\ Leading(u, t + k) \in Nat
         /\ \E low \in 0 .. (Base ** (k - 3)) - 1 :
              ValueOf(Base, Window(u, t, k + 1), k + 1) = Leading(u, t + k) * (Base ** (k - 3)) + low
<1> DEFINE w == Window(u, t, k + 1)
           r == Base ** (k - 3)
           h == HighestThree(w, k)
           o == w[k + 1]
           low == ValueOf(Base, w, k - 3)
<1>a. Base \in Nat \ {0} /\ Base \in Int  BY BaseIs
<1>0. Len(u) \in Nat /\ k + 1 \in Nat /\ k - 3 \in Nat /\ k \in Nat /\ k \in 0 .. k + 1 /\ k + 1 \in 1 .. k + 1
      /\ (k + 1) - 1 = k /\ (k - 3) + 3 = k
  BY MemoryIs
<1>1. w \in Memory /\ Len(w) = k + 1 /\ \A i \in 1 .. k + 1 : w[i] = u[t + i - 1] /\ u[t + i - 1] \in Octet
  <2>1. t + (k + 1) - 1 <= Len(u)  BY <1>0
  <2>2. QED  BY <1>0, <2>1, WindowIs
<1> HIDE DEF w
<1>2. DigitsOf(Base, w, k) /\ Ints(w, k + 1)
  <2>1. k \in 0 .. Len(w) /\ k + 1 \in 0 .. Len(w)  BY <1>0, <1>1
  <2>2. QED  BY <1>1, <2>1, MemoryIs
<1>3. h \in 0 .. (Base ** 3) - 1 /\ low \in 0 .. r - 1 /\ ValueOf(Base, w, k) = h * r + low
  BY <1>2, HighestIs
<1>4. r \in Nat \ {0} /\ Base ** k = (Base ** 3) * r /\ Base ** 3 \in Nat \ {0}
  <2>1. r \in Nat \ {0}  BY <1>0, BasePowers
  <2>2. Base ** 3 \in Nat \ {0} /\ 3 \in Nat  BY SquareAndCube
  <2>3. 3 + (k - 3) = k  BY <1>0
  <2>4. \A i \in Nat : Base ** (3 + i) = (Base ** 3) * (Base ** i)  BY <1>a, <2>2, PowerOfSum
  <2>5. Base ** (3 + (k - 3)) = (Base ** 3) * (Base ** (k - 3))  BY <1>0, <2>4
  <2>6. QED  BY <2>1, <2>2, <2>3, <2>5
<1>5. o \in Nat  BY <1>0, <1>1, OctetIs
<1>6. ValueOf(Base, w, k + 1) = ValueOf(Base, w, k) + o * (Base ** k)
  <2>1. \A j \in 1 .. k + 1 : ValueOf(Base, w, j) = ValueOf(Base, w, j - 1) + w[j] * (Base ** (j - 1))
    BY <1>a, <1>0, <1>2, Values
  <2>2. QED  BY <1>0, <2>1
<1>7. Leading(u, t + k) = o * (Base ** 3) + h
  <2>1. k + 1 \in 1 .. k + 1 /\ k \in 1 .. k + 1 /\ k - 1 \in 1 .. k + 1 /\ k - 2 \in 1 .. k + 1
        /\ t + (k + 1) - 1 = t + k /\ t + (k - 1) - 1 = (t + k) - 2 /\ t + k - 1 = (t + k) - 1
        /\ t + (k - 2) - 1 = (t + k) - 3
    BY <1>0
  <2>2. w[k + 1] = u[t + k] /\ w[k] = u[(t + k) - 1] /\ w[k - 1] = u[(t + k) - 2] /\ w[k - 2] = u[(t + k) - 3]
    BY <1>1, <2>1
  <2>3. w[k] \in Nat /\ w[k - 1] \in Nat /\ w[k - 2] \in Nat  BY <1>1, <2>1, OctetIs
  <2>4. Base ** 2 \in Nat  BY SquareAndCube
  <2>5. w[k] * (Base ** 2) \in Int /\ w[k - 1] * Base \in Int /\ o * (Base ** 3) \in Int
    <3>1. \A i, j \in Nat : i * j \in Int  OBVIOUS
    <3>2. w[k] * (Base ** 2) \in Int  BY <2>3, <2>4, <3>1
    <3>3. w[k - 1] * Base \in Int  BY <1>a, <2>3, <3>1
    <3>4. o * (Base ** 3) \in Int  BY <1>4, <1>5, <3>1
    <3>5. QED  BY <3>2, <3>3, <3>4
  <2>6. Leading(u, t + k) = o * (Base ** 3) + w[k] * (Base ** 2) + w[k - 1] * Base + w[k - 2]
    BY <2>2 DEF Leading
  <2> DEFINE a1 == o * (Base ** 3)
             a2 == w[k] * (Base ** 2)
             a3 == w[k - 1] * Base
             a4 == w[k - 2]
  <2>7. h = a2 + a3 + a4  BY DEF HighestThree
  <2>8. a1 \in Int /\ a2 \in Int /\ a3 \in Int /\ a4 \in Int  BY <2>3, <2>5
  <2>9. Leading(u, t + k) = a1 + a2 + a3 + a4  BY <2>6
  <2> HIDE DEF a1, a2, a3, a4, h
  <2>10. Leading(u, t + k) = a1 + h  BY <2>7, <2>8, <2>9
  <2>11. QED  BY <2>10 DEF a1
<1> HIDE DEF h, o, low, r
<1>8. h \in Nat /\ low \in Nat  BY <1>3, <1>4
<1>9. (o * (Base ** 3) + h) * r = o * ((Base ** 3) * r) + h * r /\ o * (Base ** 3) \in Nat /\ o * ((Base ** 3) * r) \in Int
      /\ h * r \in Int
  <2>1. o * (Base ** 3) \in Nat /\ (Base ** 3) * r \in Nat /\ h * r \in Int  BY <1>4, <1>5, <1>8
  <2>2. o * ((Base ** 3) * r) \in Int  BY <1>5, <2>1
  <2>3. (o * (Base ** 3)) * r = o * ((Base ** 3) * r)  BY <1>4, <1>5
  <2>4. (o * (Base ** 3) + h) * r = (o * (Base ** 3)) * r + h * r  BY <1>4, <1>8, <2>1
  <2>5. QED  BY <2>1, <2>2, <2>3, <2>4
<1>10. ValueOf(Base, w, k + 1) = Leading(u, t + k) * r + low
  <2>1. ValueOf(Base, w, k + 1) = (h * r + low) + o * ((Base ** 3) * r)  BY <1>3, <1>4, <1>6
  <2>2. Leading(u, t + k) * r = o * ((Base ** 3) * r) + h * r  BY <1>7, <1>9
  <2> DEFINE p == o * ((Base ** 3) * r)
             q == h * r
  <2>3. p \in Int /\ q \in Int  BY <1>9
  <2>4. ValueOf(Base, w, k + 1) = (q + low) + p /\ Leading(u, t + k) * r = p + q  BY <2>1, <2>2
  <2> HIDE DEF p, q
  <2>5. QED  BY <1>8, <2>3, <2>4
<1>11. Leading(u, t + k) \in Nat  BY <1>7, <1>8, <1>9
<1>12. QED  BY <1>3, <1>10, <1>11 DEF w, r

\* What is left is less than the divisor, and a step takes the next octet to it.
TakesOctet(v, k, s, t, r) ==
  LET L == v.payload
      left == ValueOf(Base, Window(s.u, t + 1, L), L)
      rest == ValueOf(Base, Window(r.u, t, L), L)
  IN /\ r \in States(k)
     /\ \A i \in 1 .. t - 1 : r.u[i] = s.u[i]
     /\ left < Value(v) =>
          \E Q \in Octet : /\ r.q = <<Q>> \o s.q
                           /\ left * Base + s.u[t] = Q * Value(v) + rest
                           /\ rest \in Nat /\ rest < Value(v)

\* A step of the long division finds the next octet of the quotient.
LEMMA DivisionStepIs ==
  ASSUME NEW v, IsNumber(v), v.payload >= 3, NEW k \in Nat, NEW s \in States(k),
         NEW t \in Nat \ {0}, t + v.payload <= k
  PROVE  TakesOctet(v, k, s, t, DivisionStep(s, t, v))
<1> DEFINE B == Base
           L == v.payload
           top == L + 1
           V == Value(v)
           u4 == Leading(s.u, t + L)
           sh == Shifting(v)
           h == HighestThree(v.mem, L)
           q == q_hat(u4, sh)
           r == SubtractProduct(s, t, v, q)
           X == ValueOf(B, Window(s.u, t, top), top)
           left == ValueOf(B, Window(s.u, t + 1, L), L)
           p == B ** (L - 3)
<1>a. B \in Nat \ {0, 1} /\ B \in Nat \ {0} /\ B \in Int /\ B * B \in Nat \ {0} /\ B * (B * B) \in Nat \ {0}
      /\ B ** 3 = B * (B * B)
  BY BaseIs, SquareAndCube
<1>0. L \in Nat /\ L > 0 /\ top \in Nat /\ L - 3 \in Nat /\ V \in Nat \ {0} /\ v.mem[L] # 0 /\ DigitsOf(B, v.mem, L)
      /\ V < B ** L /\ V = ValueOf(B, v.mem, L) /\ L >= 3
  BY NumberHas
<1>1. s.u \in Memory /\ Len(s.u) = k  BY DEF States
<1>2. DivisionStep(s, t, v) = r  BY DEF DivisionStep
<1>3. IsShifting(sh, h)  BY ShiftingIs
<1>4. u4 \in Nat /\ \E low \in 0 .. p - 1 : X = u4 * p + low
  <2>1. t + L <= Len(s.u)  BY <1>1
  <2>2. QED  BY <1>0, <1>1, <2>1, LeadingIs
<1>5. sh.factor \in Nat \ {0} /\ sh.vn_1 \in Nat \ {0} /\ sh.vn_2 \in Nat /\ sh.factor \in Nat
  <2>1. sh.factor \in Nat \ {0} /\ sh.vn_1 \in Nat \ {0} /\ sh.vn_2 \in Octet  BY <1>3 DEF IsShifting
  <2>2. QED  BY <2>1, OctetIs
<1>6. q \in Octet
  <2> HIDE DEF u4, sh
  <2>1. QED  BY <1>4, <1>5, EstimateIsOctet
<1> HIDE DEF u4, sh, q
<1> DEFINE u1 == ValueOf(B, Window(r.u, t, top), top)
<1>7. /\ r \in States(k) /\ \A i \in 1 .. t - 1 : r.u[i] = s.u[i]
      /\ \A Q \in Nat : Q * V <= X /\ X < (Q + 1) * V /\ q \in {Q, Q + 1}
                        => r.q = <<Q>> \o s.q /\ u1 = X - Q * V
  BY <1>0, <1>6, SubtractProductIs
<1> HIDE DEF r
<1>8. X = left * B + s.u[t] /\ s.u[t] \in 0 .. B - 1 /\ left \in Nat
  <2>1. t + L <= Len(s.u)  BY <1>1
  <2>2. QED  BY <1>0, <1>1, <2>1, NextDividend, OctetIs
<1> DEFINE w == Window(r.u, t, top)
           rest == ValueOf(B, Window(r.u, t, L), L)
<1>9. w \in Memory /\ Len(w) = top /\ (u1 < B ** L => rest = u1)
  <2>0. r.u \in Memory /\ Len(r.u) = k  BY <1>7 DEF States
  <2>1. t + top - 1 <= Len(r.u) /\ t + L - 1 <= Len(r.u)  BY <1>0, <2>0
  <2>2. w \in Memory /\ Len(w) = top /\ \A i \in 1 .. top : w[i] = r.u[t + i - 1]
    <3> HIDE DEF top
    <3>1. QED  BY <1>0, <2>0, <2>1, WindowIs
  <2>3. /\ Window(r.u, t, L) \in Memory /\ Len(Window(r.u, t, L)) = L
        /\ \A i \in 1 .. L : Window(r.u, t, L)[i] = r.u[t + i - 1]
    BY <1>0, <2>0, <2>1, WindowIs
  <2>4. Same(Window(r.u, t, L), w, L)
    <3>1. \A i \in 1 .. L : i \in 1 .. top  BY <1>0
    <3>2. QED  BY <2>2, <2>3, <3>1 DEF Same
  <2>5. Ints(Window(r.u, t, L), L)
    <3>1. L \in 0 .. L  BY <1>0
    <3>2. QED  BY <2>3, <3>1, MemoryIs
  <2>6. rest = ValueOf(B, w, L)
    <3> HIDE DEF w
    <3>1. QED  BY <1>0, <1>a, <2>4, <2>5, SameDigits
  <2>7. u1 < B ** L => ValueOf(B, w, L) = u1
    <3>1. DigitsOf(B, w, top)
      <4>1. top \in 0 .. Len(w)  BY <1>0, <2>2
      <4>2. QED  BY <2>2, <4>1, MemoryIs
    <3> HIDE DEF w
    <3>2. QED  BY <1>0, <3>1, NothingAbove DEF w
  <2>8. QED  BY <2>2, <2>6, <2>7
<1> HIDE DEF X, left, w, V, u1, rest, p
<1>10. ASSUME left < V
       PROVE  \E Q \in Octet : /\ r.q = <<Q>> \o s.q
                               /\ left * B + s.u[t] = Q * V + rest
                               /\ rest \in Nat /\ rest < V
  <2>1. X \in Nat /\ X < B * V
    <3>1. left \in Int /\ V \in Int /\ left < V  BY <1>0, <1>8, <1>10
    <3>2. left * B + B <= V * B  BY <1>a, <3>1, Multiples
    <3>3. V * B = B * V /\ B * V \in Int /\ left * B \in Nat  BY <1>a, <1>0, <1>8
    <3>4. QED  BY <1>a, <1>8, <3>2, <3>3
  <2> DEFINE Q == X \div V
  <2>2. Q \in Nat /\ Q * V <= X /\ X < (Q + 1) * V /\ Q < B
    <3>1. X \in Int  BY <2>1
    <3>2. Q \in Nat /\ X % V \in 0 .. V - 1 /\ X = V * Q + (X % V)
      <4>1. Q \in Nat  BY <1>0, <2>1, <3>1, Division
      <4>2. X % V \in 0 .. V - 1 /\ X = V * Q + (X % V)  BY <1>0, <3>1, Division
      <4>3. QED  BY <4>1, <4>2
    <3>3. Q < B
      <4>1. \A i, j \in Nat \ {0} : j <= V /\ X < i * j => X \div V < i  BY <1>0, <2>1, PartsAreSmaller
      <4>2. V <= V  BY <1>0
      <4>3. QED  BY <1>0, <1>a, <2>1, <4>1, <4>2
    <3> DEFINE m == X % V
    <3> HIDE DEF Q, m
    <3>4. V * Q = Q * V /\ (Q + 1) * V = Q * V + V /\ Q * V \in Int  BY <1>0, <3>2
    <3>5. m \in 0 .. V - 1 /\ X = V * Q + m  BY <3>2 DEF m
    <3>6. QED  BY <1>0, <3>2, <3>3, <3>4, <3>5
  <2> HIDE DEF Q
  <2>3. PICK low \in 0 .. p - 1 : X = u4 * p + low  BY <1>4
  <2>4. p \in Nat \ {0} /\ B * p \in Nat \ {0}
    <3>1. p \in Nat \ {0}  BY <1>0, BasePowers DEF p
    <3>2. QED  BY <1>a, <3>1
  <2> DEFINE vlow == ValueOf(B, v.mem, L - 3)
  <2>5. h \in Nat /\ vlow \in 0 .. p - 1 /\ V = h * p + vlow
    <3>1. /\ h \in 0 .. (B ** 3) - 1 /\ vlow \in 0 .. (B ** (L - 3)) - 1
          /\ ValueOf(B, v.mem, L) = h * (B ** (L - 3)) + vlow
      BY <1>0, HighestIs
    <3>2. B ** 3 \in Nat  BY SquareAndCube
    <3> HIDE DEF h, vlow
    <3>3. QED  BY <1>0, <3>1, <3>2 DEF p
  <2> HIDE DEF h, vlow
  <2> DEFINE f == sh.factor
             v2 == sh.vn_1 * B + sh.vn_2
             u3 == (f * u4) \div B
  <2>6. PICK g \in Nat \ {0} : f * g = B  BY <1>3 DEF IsShifting
  <2>7. v2 = (f * h) \div B /\ v2 >= B /\ f * (h + 1) <= B ** 3  BY <1>3 DEF IsShifting
  <2>8. Near(f, V, v2, B * p)
    <3>1. Near(f, V, (f * h) \div B, B * p)  BY <1>5, <2>4, <2>5, <2>6, HighestAreNear
    <3>2. QED  BY <2>7, <3>1
  <2>9. Near(f, X, u3, B * p)  BY <1>4, <1>5, <2>3, <2>4, <2>6, HighestAreNear
  <2>10. f * u4 < (B * B) * (B * B)
    <3>1. u4 < B * (h + 1)
      <4>1. V < (h + 1) * p
        <5>1. (h + 1) * p = h * p + p /\ h * p \in Int  BY <2>4, <2>5
        <5>2. QED  BY <2>4, <2>5, <5>1
      <4>2. B * V < (B * (h + 1)) * p
        <5>1. V \in Int /\ (h + 1) * p \in Int  BY <1>0, <2>4, <2>5
        <5>2. V * B + B <= ((h + 1) * p) * B  BY <1>a, <4>1, <5>1, Multiples
        <5>3. V * B = B * V /\ ((h + 1) * p) * B = (B * (h + 1)) * p /\ B * V \in Int
              /\ (B * (h + 1)) * p \in Int
          BY <1>a, <1>0, <2>4, <2>5
        <5>4. QED  BY <1>a, <5>2, <5>3
      <4>3. u4 * p <= X /\ u4 * p \in Int
        <5>1. u4 * p \in Int  BY <1>4, <2>4
        <5>2. QED  BY <2>1, <2>3, <2>4, <5>1
      <4>4. B * (h + 1) \in Int /\ u4 \in Int /\ (B * (h + 1)) * p \in Int /\ B * V \in Int
        <5>1. B * (h + 1) \in Int  BY <1>a, <2>5
        <5>2. (B * (h + 1)) * p \in Int  BY <2>4, <5>1
        <5>3. QED  BY <1>a, <1>0, <1>4, <5>1, <5>2
      <4>5. B * (h + 1) <= u4 => (B * (h + 1)) * p <= u4 * p  BY <2>4, <4>4, Multiples
      <4>6. QED  BY <2>1, <4>2, <4>3, <4>4, <4>5
    <3>2. f * u4 < f * (B * (h + 1))
      <4>1. u4 \in Int /\ B * (h + 1) \in Int  BY <1>a, <1>4, <2>5
      <4>2. u4 * f + f <= (B * (h + 1)) * f  BY <1>5, <3>1, <4>1, Multiples
      <4>3. u4 * f = f * u4 /\ (B * (h + 1)) * f = f * (B * (h + 1)) /\ f * u4 \in Int
            /\ f * (B * (h + 1)) \in Int
        BY <1>5, <4>1
      <4>4. QED  BY <1>5, <4>2, <4>3
    <3>3. f * (B * (h + 1)) = (f * (h + 1)) * B  BY <1>a, <1>5, <2>5
    <3>4. (f * (h + 1)) * B <= (B * (B * B)) * B
      <4>1. f * (h + 1) \in Int /\ B * (B * B) \in Int  BY <1>a, <1>5, <2>5
      <4>2. QED  BY <1>a, <2>7, <4>1, Multiples
    <3>5. (B * (B * B)) * B = (B * B) * (B * B)  BY <1>a
    <3>6. f * u4 \in Int /\ (f * (h + 1)) * B \in Int /\ (B * B) * (B * B) \in Int
      <4>1. f * (h + 1) \in Int  BY <1>5, <2>5
      <4>2. QED  BY <1>a, <1>4, <1>5, <4>1
    <3>7. QED  BY <3>2, <3>3, <3>4, <3>5, <3>6
  <2>11. q * v2 <= u3 /\ \A i \in Octet : i * v2 <= u3 => i <= q
    BY <1>3, <1>4, <2>10, EstimateIs DEF q
  <2>12. v2 \in Nat /\ u3 \in Nat
    <3>1. sh.vn_1 * B \in Nat  BY <1>a, <1>5
    <3>2. f * u4 \in Nat /\ f * u4 \in Int  BY <1>4, <1>5
    <3>3. u3 \in Nat  BY <1>a, <3>2, Division
    <3>4. v2 \in Nat  BY <1>5, <3>1
    <3>5. QED  BY <3>3, <3>4
  <2> HIDE DEF f, v2, u3
  <2>13. Q * v2 <= u3 /\ \A i \in Nat : i * v2 <= u3 /\ i <= v2 + 1 => i <= Q + 1
    <3>1. f \in Nat \ {0}  BY <1>5 DEF f
    <3> DEFINE bp == B * p
    <3>2. bp \in Nat \ {0} /\ Near(f, V, v2, bp) /\ Near(f, X, u3, bp)  BY <2>4, <2>8, <2>9
    <3> HIDE DEF bp
    <3>3. Q * V <= X /\ X < (Q + 1) * V /\ V \in Nat \ {0} /\ X \in Nat /\ Q \in Nat /\ v2 \in Nat /\ u3 \in Nat
      BY <1>0, <2>1, <2>2, <2>12
    <3>4. Q * v2 <= u3  BY <3>1, <3>2, <3>3, EstimateIsNear
    <3>5. Within(Q, v2, u3)  BY <3>1, <3>2, <3>3, EstimateIsNear
    <3>6. QED  BY <3>4, <3>5 DEF Within
  <2>14. Q \in Octet /\ Q <= q  BY <1>a, <2>2, <2>11, <2>13, OctetIs
  <2>15. q <= Q + 1
    <3>1. q \in Nat /\ q < B  BY <1>6, <1>a, OctetIs
    <3>2. q <= v2 + 1  BY <1>a, <2>7, <2>12, <3>1
    <3>3. QED  BY <2>11, <2>13, <3>1, <3>2
  <2>16. q \in {Q, Q + 1}
    <3>1. q \in Nat  BY <1>6, OctetIs
    <3>2. QED  BY <2>2, <2>14, <2>15, <3>1
  <2>17. r.q = <<Q>> \o s.q /\ u1 = X - Q * V  BY <1>7, <2>2, <2>16
  <2>18. u1 \in Nat /\ u1 < V /\ X = Q * V + u1
    <3> DEFINE P == Q * V
    <3>1. P \in Int /\ (Q + 1) * V = P + V  BY <1>0, <2>2
    <3>2. P <= X /\ X < P + V /\ u1 = X - P  BY <2>2, <2>17, <3>1
    <3> HIDE DEF P
    <3>3. u1 \in Nat /\ u1 < V /\ X = P + u1  BY <1>0, <2>1, <3>1, <3>2
    <3>4. QED  BY <3>3 DEF P
  <2>19. rest = u1
    <3>1. B ** L \in Nat  BY <1>0, BasePowers
    <3>2. QED  BY <1>0, <1>9, <2>18, <3>1
  <2>20. QED  BY <1>8, <2>14, <2>17, <2>18, <2>19
<1>11. QED  BY <1>2, <1>7, <1>10 DEF left, V, rest, TakesOctet

\* One more octet before the others.
LEMMA PrependIs ==
  ASSUME NEW d \in Memory, NEW o \in Octet
  PROVE  /\ <<o>> \o d \in Memory /\ Len(<<o>> \o d) = Len(d) + 1
         /\ ValueOf(Base, <<o>> \o d, Len(d) + 1) = o + Base * ValueOf(Base, d, Len(d))
<1> DEFINE e == <<o>> \o d
           k == Len(d)
<1>a. Base \in Int /\ Base \in Nat /\ Base ** 0 = 1 /\ Base ** 1 = Base  BY BaseIs, BasePowers
<1>1. k \in Nat /\ e \in Memory /\ Len(e) = 1 + k /\ e[1] = o /\ \A i \in 1 .. k : e[1 + i] = d[i]
  <2>1. k \in Nat  BY MemoryIs
  <2>2. e \in Memory /\ Len(e) = 1 + k  BY DEF Memory
  <2>3. e[1] = o  BY DEF Memory
  <2>4. \A i \in 1 .. k : e[1 + i] = d[i]  BY <2>1 DEF Memory
  <2>5. QED  BY <2>1, <2>2, <2>3, <2>4
<1> HIDE DEF e, k
<1>2. Above(d, e, 1, k)  BY <1>1 DEF Above
<1>3. Ints(e, 1 + k) /\ 1 \in Nat
  <2>1. 1 + k \in 0 .. Len(e)  BY <1>1
  <2>2. QED  BY <1>1, <2>1, MemoryIs
<1>4. ValueOf(Base, e, 1 + k) = ValueOf(Base, e, 1) + (Base ** 1) * ValueOf(Base, d, k)
  BY <1>1, <1>2, <1>3, <1>a, SplitValue
<1>5. ValueOf(Base, e, 1) = o
  <2>1. 1 + k \in Nat /\ 1 \in 1 .. 1 + k /\ 1 - 1 = 0  BY <1>1
  <2>2. ValueOf(Base, e, 0) = 0  BY <1>a, <1>3, <2>1, Values
  <2>3. \A j \in 1 .. 1 + k : ValueOf(Base, e, j) = ValueOf(Base, e, j - 1) + e[j] * (Base ** (j - 1))
    BY <1>a, <1>3, <2>1, Values
  <2>4. ValueOf(Base, e, 1) = 0 + o * 1  BY <1>1, <1>a, <2>1, <2>2, <2>3
  <2>5. o \in Nat  BY OctetIs
  <2>6. QED  BY <2>4, <2>5
<1>6. 1 + k = k + 1  BY <1>1
<1>7. QED  BY <1>1, <1>4, <1>5, <1>6, <1>a DEF e, k

\* What has been divided so far, down to octet t.
IsDivided(n, v, k, s, t) ==
  LET L == v.payload
      rest == ValueOf(Base, Window(s.u, t, L), L)
  IN /\ s \in States(k) /\ \A i \in 1 .. t - 1 : s.u[i] = n.mem[i]
     /\ s.q \in Memory /\ Len(s.q) = n.payload - L + 2 - t
     /\ rest \in Nat /\ rest < Value(v)
     /\ Value(n) = (ValueOf(Base, s.q, Len(s.q)) * Value(v) + rest) * (Base ** (t - 1))
                     + ValueOf(Base, n.mem, t - 1)

\* The first octets of a dividend are less than a divisor of as many.
HasRoom(mem, n) ==
  /\ n.payload + 1 <= Len(mem) /\ mem[n.payload + 1] = 0
  /\ \A i \in 1 .. n.payload : mem[i] = n.mem[i]

\* What the long division keeps holds before its first step.
LEMMA DivisionStarts ==
  ASSUME NEW n, IsNumber(n), NEW v, IsNumber(v), v.payload >= 3, n.payload >= v.payload,
         NEW mem \in Memory, HasRoom(mem, n)
  PROVE  IsDivided(n, v, Len(mem), [u |-> mem, q |-> << >>], n.payload - v.payload + 2)
<1> DEFINE B == Base
           N == n.payload
           L == v.payload
           size == N - L + 1
           t == N - L + 2
           V == Value(v)
           w == Window(mem, t, L)
           rest == ValueOf(B, w, L)
           s == [u |-> mem, q |-> << >>]
<1>a. B \in Nat \ {0, 1} /\ B \in Nat \ {0} /\ B \in Int  BY BaseIs
<1>0. /\ N \in Nat /\ L \in Nat /\ size \in Nat /\ t \in Nat \ {0} /\ Len(mem) \in Nat /\ t = size + 1
      /\ size + L = N + 1 /\ t - 1 = size /\ V \in Nat /\ size <= N /\ L - 1 \in Nat /\ size + (L - 1) = N
      /\ N + 1 <= Len(mem) /\ N + 1 \in 0 .. Len(mem) /\ size \in 0 .. Len(mem) /\ t + L - 1 <= Len(mem)
      /\ size + L \in 0 .. Len(mem) /\ (\A i \in 1 .. size : i \in 1 .. N) /\ N - L + 2 - t = 0
  <2>1. N \in Nat /\ L \in Nat /\ V \in Nat /\ Len(mem) \in Nat  BY NumberHas, MemoryIs
  <2>2. N + 1 <= Len(mem) /\ L <= N /\ L >= 3  BY DEF HasRoom
  <2> HIDE DEF V, N, L
  <2>3. QED  BY <2>1, <2>2
<1>b. Value(n) \in Nat /\ Value(n) < B ** N /\ Ints(n.mem, N) /\ Value(n) = ValueOf(B, n.mem, N)
      /\ V >= B ** (L - 1)
  BY NumberHas
<1>1. ValueOf(B, mem, size + L) = Value(n)
  <2>1. Ints(mem, N + 1) /\ Zeros(mem, N + 1, N + 1) /\ N \in 0 .. N + 1 /\ N + 1 \in Nat
    <3>1. Ints(mem, N + 1)  BY <1>0, MemoryIs
    <3>2. Zeros(mem, N + 1, N + 1)
      <4>1. mem[N + 1] = 0  BY DEF HasRoom
      <4> HIDE DEF N
      <4>2. \A i \in N + 1 .. N + 1 : i = N + 1  BY <1>0
      <4>3. QED  BY <4>1, <4>2 DEF Zeros
    <3> HIDE DEF N
    <3>3. QED  BY <1>0, <3>1, <3>2
  <2>2. ValueOf(B, mem, N + 1) = ValueOf(B, mem, N)
    <3> HIDE DEF N
    <3>1. QED  BY <1>a, <2>1, ZerosAbove
  <2>3. Same(n.mem, mem, N)  BY DEF Same, HasRoom
  <2> HIDE DEF N
  <2>4. ValueOf(B, n.mem, N) = ValueOf(B, mem, N)  BY <1>0, <1>a, <1>b, <2>3, SameDigits
  <2>5. QED  BY <1>0, <1>b, <2>2, <2>4
<1>2. w \in Memory /\ Len(w) = L /\ \A i \in 1 .. L : w[i] = mem[t + i - 1]
  <2>1. t + L - 1 <= Len(mem)  BY <1>0
  <2> HIDE DEF t, L
  <2>2. QED  BY <1>0, <2>1, WindowIs
<1> HIDE DEF w
<1>3. ValueOf(B, mem, size + L) = ValueOf(B, mem, size) + (B ** size) * rest
  <2>1. Above(w, mem, size, L)
    <3>1. \A i \in 1 .. L : t + i - 1 = size + i  BY <1>0
    <3>2. QED  BY <1>2, <3>1 DEF Above
  <2>2. Ints(mem, size + L)
    <3> HIDE DEF size, L
    <3>1. QED  BY <1>0, MemoryIs
  <2> HIDE DEF size, L
  <2>3. QED  BY <1>0, <1>a, <2>1, <2>2, SplitValue
<1>4. rest \in Nat
  <2>1. L \in 0 .. Len(w)  BY <1>0, <1>2
  <2>2. QED  BY <1>2, <2>1, MemoryValue
<1>5. ValueOf(B, mem, size) = ValueOf(B, n.mem, size) /\ ValueOf(B, mem, size) \in Nat
  <2>1. size \in 0 .. Len(mem)  BY <1>0
  <2> HIDE DEF size
  <2>2. Ints(mem, size) /\ ValueOf(B, mem, size) \in Nat  BY <2>1, MemoryIs, MemoryValue
  <2>3. Same(mem, n.mem, size)
    <3>1. \A i \in 1 .. size : i \in 1 .. N  BY <1>0
    <3>2. QED  BY <3>1 DEF Same, HasRoom
  <2>4. QED  BY <1>0, <1>a, <2>2, <2>3, SameDigits
<1> HIDE DEF rest
<1> DEFINE P == B ** size
           Pv == B ** (L - 1)
           low == ValueOf(B, n.mem, size)
<1>6. P \in Nat \ {0} /\ Pv \in Nat \ {0} /\ B ** N = P * Pv
  <2>1. P \in Nat \ {0} /\ Pv \in Nat \ {0}  BY <1>0, BasePowers
  <2>2. \A i \in Nat : B ** (size + i) = (B ** size) * (B ** i)
    <3> HIDE DEF size
    <3>1. QED  BY <1>0, <1>a, PowerOfSum
  <2>3. B ** (size + (L - 1)) = P * Pv  BY <1>0, <2>2
  <2>4. QED  BY <1>0, <2>1, <2>3
<1> HIDE DEF P, Pv, low
<1>7. Value(n) = low + P * rest /\ low \in Nat  BY <1>1, <1>3, <1>5 DEF P, low
<1>8. rest < V
  <2>1. CASE Pv <= rest
    <3>1. Pv * P <= rest * P /\ Pv * P = P * Pv /\ rest * P = P * rest /\ P * rest \in Int /\ P * Pv \in Int
      <4>1. Pv \in Int /\ rest \in Int  BY <1>4, <1>6
      <4>2. Pv * P <= rest * P  BY <1>6, <2>1, <4>1, Multiples
      <4>3. QED  BY <1>6, <4>1, <4>2
    <3>2. QED  BY <1>6, <1>7, <1>b, <3>1
  <2>2. CASE ~(Pv <= rest)  BY <1>0, <1>4, <1>6, <1>b, <2>2 DEF Pv
  <2>3. QED  BY <2>1, <2>2
<1>9. Value(n) = (ValueOf(B, << >>, 0) * V + rest) * P + low
  <2>1. ValueOf(B, << >>, 0) = 0
    <3>1. Ints(<< >>, 0) /\ 0 \in Nat  BY DEF Ints
    <3>2. QED  BY <1>a, <3>1, Values
  <2>2. 0 * V + rest = rest  BY <1>0, <1>4
  <2>3. rest * P = P * rest /\ P * rest \in Int  BY <1>4, <1>6
  <2>4. QED  BY <1>7, <2>1, <2>2, <2>3
<1>10. s \in States(Len(mem)) /\ s.q \in Memory /\ Len(s.q) = 0 /\ s.u = mem /\ s.q = << >>
  BY DEF States, Memory
<1>11. \A i \in 1 .. t - 1 : s.u[i] = n.mem[i]
  <2>1. \A i \in 1 .. N : mem[i] = n.mem[i]  BY DEF HasRoom
  <2> HIDE DEF N, t, size
  <2>2. \A i \in 1 .. t - 1 : i \in 1 .. N  BY <1>0
  <2>3. QED  BY <1>10, <2>1, <2>2
<1>12. n.payload - v.payload + 2 - t = 0  BY <1>0
<1> HIDE DEF s
<1>13. QED  BY <1>0, <1>4, <1>8, <1>9, <1>10, <1>11, <1>12 DEF IsDivided, rest, w, P, low, t, s

\* One step further.
LEMMA DivisionGoesOn ==
  ASSUME NEW n, IsNumber(n), NEW v, IsNumber(v), v.payload >= 3, n.payload >= v.payload,
         NEW k \in Nat, n.payload + 1 <= k, NEW t \in 1 .. n.payload - v.payload + 1,
         NEW s, IsDivided(n, v, k, s, t + 1)
  PROVE  IsDivided(n, v, k, DivisionStep(s, t, v), t)
<1> DEFINE B == Base
           N == n.payload
           L == v.payload
           V == Value(v)
           r == DivisionStep(s, t, v)
           left == ValueOf(B, Window(s.u, t + 1, L), L)
           rest == ValueOf(B, Window(r.u, t, L), L)
           z == ValueOf(B, s.q, Len(s.q))
           P == B ** (t - 1)
           low == ValueOf(B, n.mem, t - 1)
<1>a. B \in Nat \ {0, 1} /\ B \in Nat \ {0} /\ B \in Nat /\ B \in Int  BY BaseIs
<1>0. /\ N \in Nat /\ L \in Nat /\ V \in Nat /\ t \in Nat \ {0} /\ t + L <= k /\ t \in 1 .. N
      /\ t - 1 \in Nat /\ (t - 1) + 1 = t /\ (t + 1) - 1 = t /\ Ints(n.mem, N) /\ n.mem[t] \in Octet
  <2>1. N \in Nat /\ L \in Nat /\ V \in Nat /\ Ints(n.mem, N) /\ Len(n.mem) \in Nat /\ N \in 0 .. Len(n.mem)
        /\ \A i \in 1 .. Len(n.mem) : n.mem[i] \in Octet
    BY NumberHas
  <2> HIDE DEF V
  <2>2. t \in Nat \ {0} /\ t + L <= k /\ t \in 1 .. N /\ t - 1 \in Nat /\ (t - 1) + 1 = t /\ (t + 1) - 1 = t
        /\ t \in 1 .. Len(n.mem)
    BY <2>1
  <2>3. QED  BY <2>1, <2>2
<1>1. /\ s \in States(k) /\ (\A i \in 1 .. t : s.u[i] = n.mem[i])
      /\ s.q \in Memory /\ Len(s.q) = N - L + 2 - (t + 1) /\ left \in Nat /\ left < V
      /\ Value(n) = (z * V + left) * (B ** t) + ValueOf(B, n.mem, t)
  BY <1>0 DEF IsDivided
<1>2. /\ r \in States(k) /\ (\A i \in 1 .. t - 1 : r.u[i] = s.u[i])
      /\ \E Q \in Octet : /\ r.q = <<Q>> \o s.q
                          /\ left * B + s.u[t] = Q * V + rest
                          /\ rest \in Nat /\ rest < V
  <2>1. TakesOctet(v, k, s, t, r)  BY <1>0, <1>1, DivisionStepIs
  <2>2. QED  BY <1>1, <2>1 DEF TakesOctet
<1>3. PICK Q \in Octet : /\ r.q = <<Q>> \o s.q
                         /\ left * B + s.u[t] = Q * V + rest
                         /\ rest \in Nat /\ rest < V
  BY <1>2
<1> HIDE DEF r, left, rest, z, P, low, V
<1>4. r.q \in Memory /\ Len(r.q) = Len(s.q) + 1 /\ ValueOf(B, r.q, Len(r.q)) = Q + B * z
  <2>1. s.q \in Memory /\ r.q = <<Q>> \o s.q  BY <1>1, <1>3
  <2> DEFINE d == s.q
             e == <<Q>> \o d
  <2>2. d \in Memory /\ r.q = e /\ z = ValueOf(B, d, Len(d))  BY <2>1 DEF z
  <2>3. e \in Memory /\ Len(e) = Len(d) + 1 /\ ValueOf(B, e, Len(d) + 1) = Q + B * ValueOf(B, d, Len(d))
    BY <2>2, PrependIs
  <2> HIDE DEF e
  <2>4. QED  BY <2>2, <2>3
<1>5. Len(r.q) = N - L + 2 - t
  <2>1. Len(s.q) = N - L + 2 - (t + 1)  BY <1>1
  <2>2. Len(r.q) = Len(s.q) + 1  BY <1>4
  <2>3. N \in Int /\ L \in Int /\ t \in Int  BY <1>0
  <2> HIDE DEF N, L
  <2>4. N - L + 2 - (t + 1) + 1 = N - L + 2 - t  BY <2>3
  <2>5. QED  BY <2>1, <2>2, <2>4
<1>6. \A i \in 1 .. t - 1 : r.u[i] = n.mem[i]
  <2>1. \A i \in 1 .. t - 1 : i \in 1 .. t  BY <1>0
  <2>2. QED  BY <1>1, <1>2, <2>1
<1>7. P \in Nat \ {0} /\ B ** t = B * P
  BY <1>0, BasePowers DEF P
<1>8. ValueOf(B, n.mem, t) = low + n.mem[t] * P /\ low \in Int
  <2>1. \A j \in 1 .. N : ValueOf(B, n.mem, j) = ValueOf(B, n.mem, j - 1) + n.mem[j] * (B ** (j - 1))
    BY <1>0, <1>a, Values
  <2>2. \A j \in 0 .. N : ValueOf(B, n.mem, j) \in Int  BY <1>0, <1>a, Values
  <2>3. t - 1 \in 0 .. N  BY <1>0
  <2>4. QED  BY <1>0, <2>1, <2>2, <2>3 DEF P, low
<1>9. z \in Int /\ Q \in Int /\ n.mem[t] \in Int /\ s.u[t] = n.mem[t] /\ rest \in Int /\ V \in Int /\ left \in Int
  <2>1. z \in Nat
    <3>1. Len(s.q) \in Nat /\ Len(s.q) \in 0 .. Len(s.q)  BY <1>1, MemoryIs
    <3>2. QED  BY <1>1, <3>1, MemoryValue DEF z
  <2>2. t \in 1 .. t  BY <1>0
  <2>3. QED  BY <1>0, <1>1, <1>3, <2>1, <2>2, OctetIs
<1>10. Value(n) = ((Q + B * z) * V + rest) * P + low
  <2> DEFINE o == n.mem[t]
             zv == z * V
  <2>1. zv \in Int /\ o \in Int /\ P \in Int /\ low \in Int  BY <1>7, <1>8, <1>9
  <2>2. Value(n) = (zv + left) * (B * P) + (low + o * P)  BY <1>1, <1>7, <1>8
  <2>3. (Q + B * z) * V = Q * V + B * zv
    <3>1. (Q + B * z) * V = Q * V + (B * z) * V  BY <1>9, <1>a
    <3>2. (B * z) * V = B * (z * V)  BY <1>9, <1>a
    <3>3. QED  BY <3>1, <3>2
  <2>4. left * B + o = Q * V + rest  BY <1>3, <1>9
  <2> DEFINE qv == Q * V
             bz == B * zv
             lb == left * B
  <2> HIDE DEF o, zv
  <2>5. qv \in Int /\ bz \in Int /\ lb \in Int  BY <1>9, <1>a, <2>1
  <2>6. (zv + left) * (B * P) = (bz + lb) * P
    <3>1. (zv + left) * (B * P) = ((zv + left) * B) * P  BY <1>9, <1>a, <2>1
    <3>2. (zv + left) * B = B * zv + left * B  BY <1>9, <1>a, <2>1
    <3>3. QED  BY <3>1, <3>2
  <2> HIDE DEF qv, bz, lb
  <2>7. lb + o = qv + rest  BY <2>4 DEF qv, lb
  <2>8. (bz + lb) * P + o * P = (bz + lb + o) * P  BY <2>1, <2>5
  <2>9. bz + lb + o = (qv + bz) + rest  BY <1>9, <2>1, <2>5, <2>7
  <2>10. (bz + lb) * P \in Int /\ o * P \in Int  BY <2>1, <2>5
  <2>11. Value(n) = (bz + lb) * P + (low + o * P)  BY <2>2, <2>6
  <2>12. Value(n) = (bz + lb + o) * P + low
    <3> DEFINE c1 == (bz + lb) * P
               c2 == o * P
               c3 == (bz + lb + o) * P
    <3>1. c1 \in Int /\ c2 \in Int /\ c1 + c2 = c3 /\ Value(n) = c1 + (low + c2)  BY <2>8, <2>10, <2>11
    <3> HIDE DEF c1, c2, c3
    <3>2. Value(n) = c3 + low  BY <2>1, <3>1
    <3>3. QED  BY <3>2 DEF c3
  <2>13. QED  BY <2>3, <2>9, <2>12 DEF qv, bz
<1>11. QED  BY <1>2, <1>3, <1>4, <1>5, <1>6, <1>10 DEF IsDivided, P, low, rest, V, r

\* A quotient and a remainder are the ones of the division.
LEMMA QuotientAndRemainder ==
  ASSUME NEW v \in Nat \ {0}, NEW n \in Nat, NEW q \in Nat, NEW r \in Nat, r < v, n = q * v + r
  PROVE  q = n \div v /\ r = n % v
<1>1. q * v = v * q /\ r \in 0 .. v - 1 /\ q \in Int /\ n \in Int  OBVIOUS
<1>2. n = v * q + r  BY <1>1
<1>3. QED  BY <1>1, <1>2, DivisionIsUnique

\* operator/=, %= and quotient_remainder of a Natural that is longer than a fixnum.
LEMMA LongDivisionIs ==
  ASSUME NEW n, IsNumber(n), NEW v, IsNumber(v), v.payload >= 3, n.payload >= v.payload,
         NEW o, IsNumber(o), NEW oremainder \in Oremainders, NEW f \in Octet
  PROVE  Results(LongDivision(n, v, o, oremainder, f), o, oremainder,
                 Value(n) \div Value(v), Value(n) % Value(v))
<1> DEFINE B == Base
           N == n.payload
           L == v.payload
           V == Value(v)
           size == N - L + 1
           room == IF oremainder = "this" THEN N + 1 ELSE N + size + 1
           m == IF Capacity(n) < room THEN recalloc(n, room) ELSE n
           start == [u |-> [m.mem EXCEPT ![N + 1] = 0], q |-> << >>]
           step == CHOOSE g : g = [t \in 1 .. size + 1 |->
                     IF t > size THEN start ELSE DivisionStep(g[t + 1], t, v)]
<1>a. B \in Nat \ {0, 1} /\ B \in Nat \ {0} /\ B \in Int  BY BaseIs
<1>0. /\ N \in Nat /\ L \in Nat /\ size \in Nat \ {0} /\ size \in Nat /\ size + L = N + 1 /\ size <= N + 1
      /\ V \in Nat \ {0} /\ Value(n) \in Nat /\ N + 1 \in Nat \ {0} /\ L > 0
      /\ room \in Nat \ {0} /\ N + 1 <= room /\ N <= room /\ Len(n.mem) \in Nat /\ Capacity(n) = Len(n.mem)
  <2>1. N \in Nat /\ L \in Nat /\ V \in Nat /\ Len(n.mem) \in Nat /\ Value(n) \in Nat /\ Capacity(n) = Len(n.mem)
        /\ (L = 0 <=> V = 0)
    BY NumberHas
  <2> HIDE DEF V, N, L
  <2>2. L <= N /\ L >= 3  BY DEF N, L
  <2>3. QED  BY <2>1, <2>2
<1>1. LongDivision(n, v, o, oremainder, f) = Divided(step[1], v, o, oremainder, f)  BY DEF LongDivision
<1> HIDE DEF size, room
<1>2. /\ m.mem \in Memory /\ N + 1 <= Len(m.mem) /\ \A i \in 1 .. N : m.mem[i] = n.mem[i]
  <2>1. CASE Capacity(n) < room
    <3>1. /\ Means(recalloc(n, room), Value(n)) /\ Capacity(recalloc(n, room)) = room
          /\ \A i \in 1 .. N : recalloc(n, room).mem[i] = n.mem[i]
      BY <1>0, RecallocIs
    <3>2. recalloc(n, room).mem \in Memory /\ Capacity(recalloc(n, room)) = Len(recalloc(n, room).mem)
      BY <3>1, NumberHas DEF Means
    <3>3. QED  BY <1>0, <2>1, <3>1, <3>2
  <2>2. CASE ~(Capacity(n) < room)
    <3>1. n.mem \in Memory  BY NumberHas
    <3>2. QED  BY <1>0, <2>2, <3>1
  <2>3. QED  BY <2>1, <2>2
<1> HIDE DEF m
<1> DEFINE mem == [m.mem EXCEPT ![N + 1] = 0]
           k == Len(mem)
<1>3. mem \in Memory /\ k \in Nat /\ N + 1 <= k /\ HasRoom(mem, n)
  <2>0. Len(m.mem) \in Nat /\ \A i \in 1 .. Len(m.mem) : m.mem[i] \in Octet  BY <1>2, MemoryIs
  <2>1. m.mem \in [1 .. Len(m.mem) -> Octet] /\ 0 \in Octet  BY <1>2, MemoryIs, OctetIs
  <2>2. mem \in [1 .. Len(m.mem) -> Octet] /\ \A i \in 1 .. Len(m.mem) : mem[i] = IF i = N + 1 THEN 0 ELSE m.mem[i]
    BY <2>1
  <2> HIDE DEF mem
  <2>3. mem \in Memory /\ Len(mem) = Len(m.mem)  BY <2>0, <2>2, FunctionIsMemory
  <2>4. mem[N + 1] = 0
    <3>1. N + 1 \in 1 .. Len(m.mem)  BY <1>0, <1>2, <2>0
    <3>2. QED  BY <2>2, <3>1
  <2>5. \A i \in 1 .. N : mem[i] = n.mem[i]
    <3>1. \A i \in 1 .. N : i \in 1 .. Len(m.mem) /\ i # N + 1  BY <1>0, <1>2, <2>0
    <3>2. QED  BY <1>2, <2>2, <3>1
  <2>6. QED  BY <1>2, <2>0, <2>3, <2>4, <2>5 DEF HasRoom
<1> HIDE DEF mem, k
<1>4. start = [u |-> mem, q |-> << >>]  BY DEF mem
<1> HIDE DEF start
<1>5. IsDivided(n, v, k, start, size + 1)
  <2>1. IsDivided(n, v, Len(mem), [u |-> mem, q |-> << >>], N - L + 2)  BY <1>3, DivisionStarts
  <2>2. N - L + 2 = size + 1  BY <1>0 DEF size
  <2>3. QED  BY <1>4, <2>1, <2>2 DEF k
<1> DEFINE S == States(k)
           stepf == [t \in 1 .. size |-> [s \in S |-> DivisionStep(s, t, v)]]
<1>6. \A t \in 1 .. size, s \in S : DivisionStep(s, t, v) \in S
  <2> SUFFICES ASSUME NEW t \in 1 .. size, NEW s \in S PROVE DivisionStep(s, t, v) \in S  OBVIOUS
  <2>1. t \in Nat \ {0} /\ t + L <= k  BY <1>0, <1>3
  <2>2. TakesOctet(v, k, s, t, DivisionStep(s, t, v))  BY <1>3, <2>1, DivisionStepIs
  <2>3. QED  BY <2>2 DEF TakesOctet
<1>7. stepf \in [1 .. size -> [S -> S]] /\ \A t \in 1 .. size, s \in S : stepf[t][s] = DivisionStep(s, t, v)
  BY <1>6
<1>8. start \in S  BY <1>5 DEF IsDivided
<1> HIDE DEF S, stepf
<1>9. PICK g \in [1 .. size + 1 -> S] : Descends(g, size, start, stepf)  BY <1>0, <1>7, <1>8, Descent
<1>10. step = [t \in 1 .. size + 1 |-> IF t > size THEN start ELSE DivisionStep(step[t + 1], t, v)]
  <2>1. g = [t \in 1 .. size + 1 |-> IF t > size THEN start ELSE stepf[t][g[t + 1]]]  BY <1>9 DEF Descends
  <2>2. ASSUME NEW t \in 1 .. size + 1
        PROVE  (IF t > size THEN start ELSE stepf[t][g[t + 1]])
                 = IF t > size THEN start ELSE DivisionStep(g[t + 1], t, v)
    <3>1. ~(t > size) => t \in 1 .. size /\ t + 1 \in 1 .. size + 1  BY <1>0
    <3>2. ~(t > size) => g[t + 1] \in S  BY <1>9, <3>1
    <3>3. QED  BY <1>7, <3>1, <3>2
  <2>3. g = [t \in 1 .. size + 1 |-> IF t > size THEN start ELSE DivisionStep(g[t + 1], t, v)]  BY <2>1, <2>2
  <2>4. QED  BY <2>3
<1> HIDE DEF step
<1>11. step[size + 1] = start
  <2>1. size + 1 \in 1 .. size + 1 /\ size + 1 > size  BY <1>0
  <2>2. QED  BY <1>10, <2>1
<1>12. \A t \in 1 .. size : step[t] = DivisionStep(step[t + 1], t, v)
  <2>1. \A t \in 1 .. size : t \in 1 .. size + 1 /\ ~(t > size)  BY <1>0
  <2>2. QED  BY <1>10, <2>1
<1>13. \A t \in 1 .. size : IsDivided(n, v, k, step[t + 1], t + 1) => IsDivided(n, v, k, step[t], t)
  <2> SUFFICES ASSUME NEW t \in 1 .. size, IsDivided(n, v, k, step[t + 1], t + 1)
               PROVE  IsDivided(n, v, k, step[t], t)
    OBVIOUS
  <2>1. t \in 1 .. N - L + 1  BY DEF size
  <2>2. IsDivided(n, v, k, DivisionStep(step[t + 1], t, v), t)  BY <1>3, <2>1, DivisionGoesOn
  <2>3. QED  BY <1>12, <2>2
<1>14. IsDivided(n, v, k, step[1], 1)
  <2> DEFINE Good == {j \in Nat : IsDivided(n, v, k, step[size + 1 - j], size + 1 - j)}
  <2>1. 0 \in Good
    <3>1. size + 1 - 0 = size + 1  BY <1>0
    <3>2. QED  BY <1>5, <1>11, <3>1
  <2>2. ASSUME NEW j \in 1 .. size, j - 1 \in Good PROVE j \in Good
    <3>1. size + 1 - j \in 1 .. size /\ size + 1 - (j - 1) = (size + 1 - j) + 1 /\ j \in Nat  BY <1>0
    <3>2. IsDivided(n, v, k, step[(size + 1 - j) + 1], (size + 1 - j) + 1)  BY <2>2, <3>1
    <3>3. IsDivided(n, v, k, step[size + 1 - j], size + 1 - j)  BY <1>13, <3>1, <3>2
    <3>4. QED  BY <3>1, <3>3
  <2> HIDE DEF Good
  <2>3. 0 .. size \subseteq Good  BY <1>0, <2>1, <2>2, UpTo
  <2>4. size \in Good /\ size + 1 - size = 1  BY <1>0, <2>3
  <2>5. QED  BY <2>4 DEF Good
<1> DEFINE s == step[1]
           R == ValueOf(B, Window(s.u, 1, L), L)
           Q == ValueOf(B, s.q, Len(s.q))
<1>15. /\ s.u \in Memory /\ Len(s.u) = k /\ s.q \in Memory /\ Len(s.q) = size
       /\ R \in Nat /\ R < V /\ Value(n) = (Q * V + R) * (B ** 0) + ValueOf(B, n.mem, 0)
  <2>1. N - L + 2 - 1 = size /\ 1 - 1 = 0
    <3>1. N \in Int /\ L \in Int  BY <1>0
    <3> HIDE DEF N, L
    <3>2. N - L + 2 - 1 = N - L + 1  BY <3>1
    <3>3. QED  BY <3>2 DEF size
  <2>2. /\ s \in States(k) /\ s.q \in Memory /\ Len(s.q) = n.payload - L + 2 - 1
        /\ R \in Nat /\ R < Value(v)
        /\ Value(n) = (ValueOf(Base, s.q, Len(s.q)) * Value(v) + R) * (Base ** (1 - 1)) + ValueOf(Base, n.mem, 1 - 1)
    <3> HIDE DEF s
    <3>1. IsDivided(n, v, k, s, 1)  BY <1>14 DEF s
    <3>2. QED  BY <3>1 DEF IsDivided
  <2> HIDE DEF s
  <2>3. s.u \in Memory /\ Len(s.u) = k  BY <2>2 DEF States
  <2>4. QED  BY <2>1, <2>2, <2>3
<1> HIDE DEF s
<1>16. Q \in Nat
  <2>1. Len(s.q) \in 0 .. Len(s.q)  BY <1>0, <1>15
  <2>2. QED  BY <1>15, <2>1, MemoryValue
<1>17. ValueOf(B, s.u, L) = R
  <2> DEFINE w == Window(s.u, 1, L)
  <2>1. 1 + L - 1 <= Len(s.u) /\ 1 \in Nat \ {0}  BY <1>0, <1>3, <1>15
  <2>2. w \in Memory /\ Len(w) = L /\ \A i \in 1 .. L : w[i] = s.u[1 + i - 1]
    <3>1. s.u \in Memory /\ L \in Nat  BY <1>0, <1>15
    <3> DEFINE u == s.u
    <3>2. u \in Memory /\ 1 + L - 1 <= Len(u) /\ w = Window(u, 1, L)  BY <2>1, <3>1
    <3> HIDE DEF u, L, w
    <3>3. w \in Memory /\ Len(w) = L  BY <2>1, <3>1, <3>2, WindowIs
    <3>4. \A i \in 1 .. L : w[i] = u[1 + i - 1]  BY <2>1, <3>1, <3>2, WindowIs
    <3>5. QED  BY <3>3, <3>4 DEF u
  <2> HIDE DEF w
  <2>3. Same(w, s.u, L)
    <3>1. \A i \in 1 .. L : 1 + i - 1 = i  BY <1>0
    <3>2. QED  BY <2>2, <3>1 DEF Same
  <2>4. Ints(w, L)
    <3>1. L \in 0 .. Len(w)  BY <1>0, <2>2
    <3>2. QED  BY <2>2, <3>1, MemoryIs
  <2>5. ValueOf(B, w, L) = ValueOf(B, s.u, L)  BY <1>0, <1>a, <2>3, <2>4, SameDigits
  <2>6. QED  BY <2>5 DEF w
<1> HIDE DEF Q, R
<1>18. Value(n) = Q * V + R
  <2>1. ValueOf(B, n.mem, 0) = 0
    <3>1. Ints(n.mem, 0) /\ 0 \in Nat  BY DEF Ints
    <3>2. QED  BY <1>a, <3>1, Values
  <2>2. B ** 0 = 1  BY <1>a, BasePowers
  <2>3. Q * V + R \in Int
    <3>1. Q * V \in Int  BY <1>0, <1>16
    <3>2. QED  BY <1>15, <3>1
  <2> DEFINE z == Q * V + R
  <2> HIDE DEF z
  <2>4. Value(n) = z * 1 + 0 /\ z \in Int  BY <1>15, <2>1, <2>2, <2>3 DEF z
  <2>5. QED  BY <2>4 DEF z
<1>19. Q = Value(n) \div V /\ R = Value(n) % V  BY <1>0, <1>15, <1>16, <1>18, QuotientAndRemainder
<1> DEFINE remainder == skip_leading_zeros(s.u, L)
           moved == MoveDown(s.u, s.q)
           quotient == skip_leading_zeros(moved, Len(s.q))
<1>20. Means(remainder, R)
  <2>1. L \in 0 .. Len(s.u) /\ Len(s.u) >= 1  BY <1>0, <1>3, <1>15
  <2>2. Means(skip_leading_zeros(s.u, L), ValueOf(Base, s.u, L))
    <3> HIDE DEF L
    <3>1. QED  BY <1>15, <2>1, SkipIs
  <2>3. QED  BY <1>17, <2>2
<1>21. Means(quotient, Q)
  <2>1. Len(s.q) <= Len(s.u) /\ Len(s.q) \in 0 .. Len(s.q)  BY <1>0, <1>3, <1>15
  <2>2. moved \in Memory /\ Len(moved) = Len(s.u)  BY <1>15, <2>1, MovedIs
  <2>3. \A j \in 0 .. Len(s.q) : ValueOf(Base, moved, j) = ValueOf(Base, s.q, j)  BY <1>15, <2>1, MovedIs
  <2>4. ValueOf(Base, moved, Len(s.q)) = Q  BY <2>1, <2>3 DEF Q
  <2> HIDE DEF moved
  <2>5. Len(s.q) \in 0 .. Len(moved) /\ Len(moved) >= 1  BY <1>0, <1>3, <1>15, <2>1, <2>2
  <2>6. Means(skip_leading_zeros(moved, Len(s.q)), ValueOf(Base, moved, Len(s.q)))  BY <2>2, <2>5, SkipIs
  <2>7. QED  BY <2>4, <2>6
<1> DEFINE d == Divided(s, v, o, oremainder, f)
<1>22. d = CASE oremainder = "none" -> <<quotient, o>>
             [] oremainder = "this" -> <<remainder, o>>
             [] oremainder = "other" -> <<quotient, Assign(o, remainder, f)>>
  BY DEF Divided
<1>23. Means(Assign(o, remainder, f), R)
  <2> HIDE DEF remainder
  <2>1. IsNumber(remainder) /\ Value(remainder) = R  BY <1>20 DEF Means
  <2>2. Means(Assign(o, remainder, f), Value(remainder))  BY <2>1, AssignIs
  <2>3. QED  BY <2>1, <2>2
<1> HIDE DEF d, remainder, quotient
<1>24. Results(d, o, oremainder, Q, R)
  <2>1. oremainder = "none" => Means(d[1], Q) /\ d[2] = o  BY <1>21, <1>22
  <2>2. oremainder = "this" => Means(d[1], R) /\ d[2] = o  BY <1>20, <1>22
  <2>3. oremainder = "other" => Means(d[1], Q) /\ Means(d[2], R)  BY <1>21, <1>22, <1>23
  <2>4. QED  BY <2>1, <2>2, <2>3 DEF Results
<1>25. QED  BY <1>1, <1>19, <1>24 DEF d, s

-----------------------------------------------------------------------------
(***************************************************************************)
(* Part 13. Comparison, and which division it chooses.                     *)
(***************************************************************************)

\* The highest octet that differs decides.
Differ(d, e, k) == {i \in 1 .. k : d[i] # e[i]}
Decided(d, e, k) ==
  LET differ == Differ(d, e, k)
  IN IF differ = {} THEN 0 ELSE IF d[Max(differ)] < e[Max(differ)] THEN -1 ELSE 1

\* The order of two numbers of equal length is that of these octets.
LEMMA DecidedIs ==
  ASSUME NEW k \in Nat, NEW d, NEW e, DigitsOf(Base, d, k), DigitsOf(Base, e, k)
  PROVE  Decided(d, e, k) = Sign(ValueOf(Base, d, k) - ValueOf(Base, e, k))
<1> DEFINE S == Differ(d, e, k)
           u == ValueOf(Base, d, k)
           v == ValueOf(Base, e, k)
<1>a. Base \in Nat \ {0} /\ Base \in Int  BY BaseIs
<1>1. \A i \in 1 .. k : d[i] \in Int /\ e[i] \in Int
  <2>1. \A i \in 1 .. k : d[i] \in 0 .. Base - 1 /\ e[i] \in 0 .. Base - 1  BY DEF DigitsOf
  <2>2. QED  BY <1>a, <2>1
<1>2. Ints(d, k) /\ Ints(e, k)  BY <1>1 DEF Ints
<1>3. u \in Int /\ v \in Int
  <2>1. k \in 0 .. k  OBVIOUS
  <2>2. \A j \in 0 .. k : ValueOf(Base, d, j) \in Int  BY <1>a, <1>2, Values
  <2>3. \A j \in 0 .. k : ValueOf(Base, e, j) \in Int  BY <1>a, <1>2, Values
  <2>4. QED  BY <2>1, <2>2, <2>3
<1>4. CASE S = {}
  <2>1. Same(d, e, k)  BY <1>4 DEF Differ, Same
  <2>2. u = v  BY <1>a, <1>2, <2>1, SameDigits
  <2>3. Sign(u - v) = 0
    <3> HIDE DEF u, v
    <3>1. u - v = 0  BY <1>3, <2>2
    <3>2. QED  BY <3>1 DEF Sign
  <2>4. Decided(d, e, k) = 0  BY <1>4 DEF Decided
  <2>5. QED  BY <2>3, <2>4
<1>5. CASE S # {}
  <2> DEFINE j == Max(S)
  <2>1. S \in SUBSET (0 .. k) /\ S \in SUBSET (1 .. k)  BY DEF Differ
  <2>2. j \in S /\ \A i \in S : i <= j  BY <1>5, <2>1, MaxIs
  <2>3. j \in 1 .. k /\ d[j] # e[j]  BY <2>2 DEF Differ
  <2>4. \A i \in j + 1 .. k : d[i] = e[i]
    <3> HIDE DEF j
    <3>1. \A i \in j + 1 .. k : i \in 1 .. k /\ ~(i <= j)  BY <2>3
    <3>2. QED  BY <2>2, <3>1 DEF Differ
  <2>5. Decided(d, e, k) = IF d[j] < e[j] THEN -1 ELSE 1  BY <1>5 DEF Decided
  <2> HIDE DEF j, S
  <2>6. CASE d[j] < e[j]
    <3>1. u < v  BY <1>a, <2>3, <2>4, <2>6, HighestDiffers
    <3> HIDE DEF u, v
    <3>2. u - v < 0  BY <1>3, <3>1
    <3>3. QED  BY <2>5, <2>6, <3>2 DEF Sign, u, v
  <2>7. CASE ~(d[j] < e[j])
    <3>1. e[j] < d[j] /\ \A i \in j + 1 .. k : e[i] = d[i]  BY <1>1, <2>3, <2>4, <2>7
    <3>2. v < u  BY <1>a, <2>3, <3>1, HighestDiffers
    <3> HIDE DEF u, v
    <3>3. u - v > 0 /\ ~(u - v < 0)  BY <1>3, <3>2
    <3>4. QED  BY <2>5, <2>7, <3>3 DEF Sign, u, v
  <2>8. QED  BY <2>6, <2>7
<1>6. QED  BY <1>4, <1>5

\* compare of two Naturals.
LEMMA CompareIs ==
  ASSUME NEW n, IsNumber(n), NEW m, IsNumber(m)
  PROVE  compare(n, m) = Sign(Value(n) - Value(m))
<1>0. /\ n.payload \in Nat /\ m.payload \in Nat /\ Value(n) \in Nat /\ Value(m) \in Nat
      /\ DigitsOf(Base, n.mem, n.payload) /\ DigitsOf(Base, m.mem, m.payload)
      /\ Value(n) = ValueOf(Base, n.mem, n.payload) /\ Value(m) = ValueOf(Base, m.mem, m.payload)
  BY NumberHas
<1>1. CASE n.payload < m.payload
  <2>1. Value(n) < Value(m)  BY <1>1, LongerIsLarger
  <2>2. Value(n) - Value(m) < 0 /\ n.payload # m.payload  BY <1>0, <1>1, <2>1
  <2>3. QED  BY <1>1, <2>2 DEF compare, Sign
<1>2. CASE m.payload < n.payload
  <2>1. Value(m) < Value(n)  BY <1>2, LongerIsLarger
  <2>2. Value(n) - Value(m) > 0 /\ ~(Value(n) - Value(m) < 0) /\ n.payload # m.payload /\ ~(n.payload < m.payload)
    BY <1>0, <1>2, <2>1
  <2>3. QED  BY <2>2 DEF compare, Sign
<1>3. CASE n.payload = m.payload
  <2>1. compare(n, m) = Decided(n.mem, m.mem, n.payload)  BY <1>3 DEF compare, Decided, Differ
  <2>2. DigitsOf(Base, m.mem, n.payload)  BY <1>0, <1>3
  <2>3. Decided(n.mem, m.mem, n.payload)
          = Sign(ValueOf(Base, n.mem, n.payload) - ValueOf(Base, m.mem, n.payload))
    BY <1>0, <2>2, DecidedIs
  <2>4. QED  BY <1>0, <1>3, <2>1, <2>3
<1>4. QED  BY <1>0, <1>1, <1>2, <1>3

\* The octets of a fixnum, all of them.
LEMMA AllFixnumOctets ==
  ASSUME NEW v \in Fixnum, NEW d, d = [i \in 1 .. W |-> FixnumOctet(v, i)]
  PROVE  DigitsOf(Base, d, W) /\ ValueOf(Base, d, W) = v
<1>a. Base \in Nat \ {0} /\ W \in Nat /\ W \in 0 .. W /\ v \in Nat  BY BaseIs, FixnumIs
<1>b. Base ** W \in Nat \ {0} /\ v < Base ** W
  <2>1. Base ** W \in Nat \ {0}  BY <1>a, BasePowers
  <2>2. QED  BY <1>a, <2>1 DEF Fixnum
<1>1. \A i \in 1 .. W : d[i] = (v \div (Base ** (i - 1))) % Base  BY DEF FixnumOctet
<1>2. DigitsOf(Base, d, W) /\ \A j \in 0 .. W : v = ValueOf(Base, d, j) + (v \div (Base ** j)) * (Base ** j)
  BY ONLY <1>a, <1>1, DigitsOfNumber
<1>3. \A j \in 0 .. W : v = ValueOf(Base, d, j) + (v \div (Base ** j)) * (Base ** j)  BY <1>2
<1>4. v = ValueOf(Base, d, W) + (v \div (Base ** W)) * (Base ** W)  BY <1>a, <1>3
<1>5. v \div (Base ** W) = 0  BY <1>a, <1>b, SmallDividend
<1>6. ValueOf(Base, d, W) \in Int
  <2>1. \A j \in 0 .. W : ValueOf(Base, d, j) \in 0 .. (Base ** j) - 1  BY <1>a, <1>2, ValueIsBounded
  <2>2. ValueOf(Base, d, W) \in 0 .. (Base ** W) - 1  BY <1>a, <2>1
  <2>3. QED  BY <1>b, <2>2
<1> DEFINE P == Base ** W
           z == ValueOf(Base, d, W)
<1> HIDE DEF P, z
<1>7. v = z + 0 * P /\ z \in Int /\ P \in Nat  BY <1>b, <1>4, <1>5, <1>6 DEF P, z
<1>8. v = z
  <2>1. 0 * P = 0  BY <1>7
  <2>2. QED  BY <1>7, <2>1
<1>9. QED  BY <1>2, <1>8 DEF z

\* compare of a Natural and an unsigned long long.
LEMMA CompareFixnumIs ==
  ASSUME NEW n, IsNumber(n), NEW v \in Fixnum
  PROVE  compareFixnum(n, v) = Sign(Value(n) - v)
<1>a. Base \in Nat \ {0} /\ W \in Nat /\ v \in Nat  BY BaseIs, FixnumIs
<1>0. /\ n.payload \in Nat /\ Value(n) \in Nat
      /\ n.payload > 0 => Value(n) >= Base ** (n.payload - 1)
  BY NumberHas
<1>1. CASE ~is_fixnum(n)
  <2>1. n.payload - 1 \in Nat /\ W <= n.payload - 1 /\ n.payload > 0  BY <1>a, <1>0, <1>1 DEF is_fixnum
  <2>2. Base ** W <= Base ** (n.payload - 1) /\ Base ** W \in Nat /\ Base ** (n.payload - 1) \in Nat
    BY <1>a, <2>1, BasePowers
  <2>3. v < Base ** W  BY <1>a, <2>2 DEF Fixnum
  <2>4. Value(n) - v > 0 /\ ~(Value(n) - v < 0)  BY <1>a, <1>0, <2>1, <2>2, <2>3
  <2>5. QED  BY <1>1, <2>4 DEF compareFixnum, Sign
<1>2. CASE is_fixnum(n)
  <2>1. n.payload <= W  BY <1>2 DEF is_fixnum
  <2> DEFINE p == Padded(n, W)
             d == [i \in 1 .. W |-> FixnumOctet(v, i)]
             octet(i) == IF i > n.payload THEN 0 ELSE n.mem[i]
             differ == {i \in 1 .. W : octet(i) # FixnumOctet(v, i)}
  <2>2. /\ DigitsOf(Base, p, W) /\ ValueOf(Base, p, W) = Value(n)
        /\ \A i \in 1 .. W : p[i] = IF i <= n.payload THEN n.mem[i] ELSE 0
    BY <1>a, <2>1, PaddedIs
  <2>3. DigitsOf(Base, d, W) /\ ValueOf(Base, d, W) = v  BY AllFixnumOctets
  <2>4. \A i \in 1 .. W : p[i] = octet(i) /\ d[i] = FixnumOctet(v, i)  BY <1>0, <2>2
  <2>5. Decided(p, d, W) = Sign(Value(n) - v)
    <3> HIDE DEF p, d
    <3>1. QED  BY <1>a, <2>2, <2>3, DecidedIs
  <2>6. compareFixnum(n, v) = IF differ = {} THEN 0
                              ELSE IF octet(Max(differ)) < FixnumOctet(v, Max(differ)) THEN -1 ELSE 1
    BY <1>2 DEF compareFixnum
  <2>7. differ = Differ(p, d, W)
    <3> HIDE DEF p, d, octet
    <3>1. QED  BY <2>4 DEF Differ
  <2>8. differ # {} => Max(differ) \in 1 .. W
    <3>1. differ \in SUBSET (0 .. W) /\ differ \in SUBSET (1 .. W)  BY <1>a
    <3> HIDE DEF differ
    <3>2. QED  BY <1>a, <3>1, MaxIs
  <2> HIDE DEF differ, p, d, octet
  <2>9. QED  BY <2>4, <2>5, <2>6, <2>7, <2>8 DEF Decided
<1>3. QED  BY <1>1, <1>2

\* fixnum64_ref(0) of a number that is a fixnum is the number.
LEMMA FixnumRefIs ==
  ASSUME NEW n, IsNumber(n), n.payload <= W
  PROVE  fixnum64_ref0(n) = Value(n) /\ Value(n) \in Fixnum
<1>a. Base \in Nat \ {0} /\ W \in Nat \ {0} /\ W \in Nat /\ W > 1  BY BaseIs
<1>0. /\ n.payload \in Nat /\ Value(n) \in Nat /\ Value(n) < Base ** n.payload
      /\ n.payload = 0 <=> Value(n) = 0
  BY NumberHas
<1>1. Value(n) \in Fixnum
  <2>1. Base ** n.payload <= Base ** W /\ Base ** W \in Nat /\ Base ** n.payload \in Nat  BY <1>a, <1>0, BasePowers
  <2>2. QED  BY <1>0, <2>1 DEF Fixnum
<1>2. CASE n.payload = 0  BY <1>0, <1>1, <1>2 DEF fixnum64_ref0
<1>3. CASE n.payload # 0
  <2>1. n.payload - 1 \in Nat /\ n.payload - 1 < W  BY <1>a, <1>0, <1>3
  <2>2. (n.payload - 1) \div W = 0  BY <1>a, <2>1, SmallDividend
  <2>3. W * 0 = 0 /\ Base ** 0 = 1  BY <1>a, BasePowers
  <2>4. Value(n) \div 1 = Value(n)
    <3>1. Value(n) \in Int /\ 0 \in 0 .. 1 - 1 /\ Value(n) = 1 * Value(n) + 0 /\ 1 \in Nat \ {0}  BY <1>0
    <3>2. QED  BY <3>1, DivisionIsUnique
  <2>5. QED  BY <1>1, <1>3, <2>2, <2>3, <2>4 DEF fixnum64_ref0
<1>4. QED  BY <1>2, <1>3

\* operator/= and %= of a Natural, and quotient_remainder.
DivisionIs(r, n, v, o, oremainder) ==
  IF v = 0 /\ Value(n) # 0 THEN r = <<n, o>>
  ELSE Results(r, o, oremainder, IF v = 0 THEN 0 ELSE Value(n) \div v, IF v = 0 THEN 0 ELSE Value(n) % v)

\* Division by a Natural: by a fixnum if it is that short, the long division if not.
LEMMA DivideNaturalIs ==
  ASSUME NEW n, IsNumber(n), NEW rhs, IsNumber(rhs), rhs.payload # W, NEW o, IsNumber(o),
         NEW oremainder \in Oremainders, NEW f \in Octet, oremainder = "other" => Capacity(o) >= W
  PROVE  DivisionIs(DivideNatural(n, rhs, o, oremainder, f), n, Value(rhs), o, oremainder)
<1> DEFINE r == DivideNatural(n, rhs, o, oremainder, f)
           v == Value(rhs)
<1>a. Base \in Nat \ {0} /\ W \in Nat \ {0, 1} /\ W \in Nat  BY BaseIs
<1>0. /\ n.payload \in Nat /\ Value(n) \in Nat /\ (is_zero(n) <=> n.payload = 0) /\ (n.payload = 0 <=> Value(n) = 0)
      /\ n.mem \in Memory /\ Len(n.mem) \in Nat /\ Len(n.mem) >= 1 /\ Capacity(n) = Len(n.mem)
  BY NumberHas
<1>b. rhs.payload \in Nat /\ v \in Nat /\ v < Base ** rhs.payload /\ (rhs.payload = 0 <=> v = 0)  BY NumberHas
<1>c. compare(n, rhs) = Sign(Value(n) - v)  BY CompareIs
<1>d. 0 \in Fixnum /\ FixnumSize(0) = 0
  <2>1. 0 \in Fixnum
    <3>1. Base ** W \in Nat \ {0}  BY <1>a, BasePowers
    <3>2. QED  BY <3>1 DEF Fixnum
  <2>2. 0 \in Nat /\ 0 < Base ** 0  BY <1>a, BasePowers
  <2>3. FixnumSize(0) <= 0  BY <2>1, <2>2, FewOctets
  <2>4. FixnumSize(0) \in 0 .. W  BY <2>1, FixnumIs
  <2>5. QED  BY <1>a, <2>1, <2>3, <2>4
<1> HIDE DEF v
<1>1. CASE is_zero(n)
  <2>1. r = PutRemainder(n, o, oremainder, 0)  BY <1>1 DEF DivideNatural
  <2>2. Means(n, 0)  BY <1>0, <1>1 DEF Means
  <2>3. Results(PutRemainder(n, o, oremainder, 0), o, oremainder, 0, 0)
    <3>1. FixnumSize(0) <= Capacity(n)  BY <1>0, <1>d
    <3>2. QED  BY <1>d, <2>2, <3>1, PutRemainderIs
  <2>4. v # 0 => 0 \div v = 0 /\ 0 % v = 0
    <3>1. v # 0 => v \in Nat \ {0} /\ 0 < v /\ 0 \in Nat  BY <1>b
    <3>2. QED  BY <3>1, SmallDividend
  <2>5. Value(n) = 0  BY <1>0, <1>1
  <2> HIDE DEF r
  <2>6. QED  BY <2>1, <2>3, <2>4, <2>5 DEF r, v, DivisionIs
<1>2. CASE ~is_zero(n) /\ is_fixnum(rhs)
  <2>1. rhs.payload <= W /\ rhs.payload < W  BY <1>2, <1>a, <1>b DEF is_fixnum
  <2>2. fixnum64_ref0(rhs) = v /\ v \in Fixnum  BY <2>1, FixnumRefIs DEF v
  <2>3. r = DivideFixnum(n, v, o, oremainder, f)  BY <1>2, <2>2 DEF DivideNatural
  <2>4. FixnumSize(v) < W
    <3>1. FixnumSize(v) <= rhs.payload  BY <1>b, <2>2, FewOctets
    <3>2. FixnumSize(v) \in 0 .. W  BY <2>2, FixnumIs
    <3>3. QED  BY <1>a, <1>b, <2>1, <3>1, <3>2
  <2> HIDE DEF r
  <2>5. IF v = 0 /\ Value(n) # 0 THEN r = <<n, o>>
        ELSE Results(r, o, oremainder, IF v = 0 THEN 0 ELSE Value(n) \div v, IF v = 0 THEN 0 ELSE Value(n) % v)
    BY <2>2, <2>3, <2>4, DivideFixnumIs
  <2>6. QED  BY <2>5 DEF DivisionIs, r, v
<1>3. CASE ~is_zero(n) /\ ~is_fixnum(rhs)
  <2>1. rhs.payload >= 3 /\ v # 0 /\ v \in Nat \ {0}  BY <1>3, <1>a, <1>b DEF is_fixnum
  <2>2. ASSUME Results(r, o, oremainder, Value(n) \div v, Value(n) % v)
        PROVE  DivisionIs(r, n, v, o, oremainder)
    BY <2>1, <2>2 DEF DivisionIs
  <2>3. CASE Value(n) > v
    <3>1. Value(n) - v > 0 /\ ~(Value(n) - v < 0)  BY <1>0, <1>b, <2>3
    <3>2. compare(n, rhs) = 1  BY <1>c, <3>1 DEF Sign, v
    <3>3. r = LongDivision(n, rhs, o, oremainder, f)  BY <1>3, <3>2 DEF DivideNatural
    <3>4. n.payload >= rhs.payload
      <4>1. n.payload < rhs.payload => Value(n) < v  BY LongerIsLarger DEF v
      <4>2. QED  BY <1>0, <1>b, <2>3, <4>1
    <3> HIDE DEF r
    <3>5. Results(LongDivision(n, rhs, o, oremainder, f), o, oremainder, Value(n) \div v, Value(n) % v)
      BY <2>1, <3>4, LongDivisionIs DEF v
    <3>6. QED  BY <2>2, <3>3, <3>5 DEF r, v
  <2>4. CASE Value(n) = v
    <3>1. Value(n) - v = 0  BY <1>0, <1>b, <2>4
    <3>2. compare(n, rhs) = 0  BY <1>c, <3>1 DEF Sign, v
    <3> DEFINE one == Number([n.mem EXCEPT ![1] = 1], 1)
    <3>3. r = PutRemainder(one, o, oremainder, 0)
      <4>1. ~(0 > 0)  OBVIOUS
      <4>2. QED  BY <1>3, <3>2, <4>1 DEF DivideNatural
    <3>4. Means(one, 1) /\ FixnumSize(0) <= Capacity(one)
      <4>1. 1 \in Octet /\ 1 # 0  BY OctetIs
      <4>2. Means(one, 1)  BY <1>0, <4>1, OneOctet
      <4> HIDE DEF one
      <4>3. Capacity(one) >= 1  BY <4>2 DEF Means, IsNumber
      <4>4. Capacity(one) \in Nat  BY <4>2, NumberHas DEF Means
      <4>5. QED  BY <1>d, <4>2, <4>3, <4>4
    <3> HIDE DEF one, r
    <3>5. Results(PutRemainder(one, o, oremainder, 0), o, oremainder, 1, 0)  BY <1>d, <3>4, PutRemainderIs
    <3>6. Value(n) \div v = 1 /\ Value(n) % v = 0
      <4>1. v = v * 1 + 0 /\ 0 \in 0 .. v - 1 /\ v \in Int /\ 1 \in Int /\ 0 \in Int  BY <2>1
      <4>2. 1 = v \div v /\ 0 = v % v  BY <2>1, <4>1, DivisionIsUnique
      <4>3. QED  BY <2>4, <4>2
    <3>7. QED  BY <2>2, <3>3, <3>5, <3>6 DEF r, v
  <2>5. CASE Value(n) < v
    <3>1. Value(n) - v < 0  BY <1>0, <1>b, <2>5
    <3>2. compare(n, rhs) = -1  BY <1>c, <3>1 DEF Sign, v
    <3>3. r = AllRemains(n, o, oremainder, f)
      <4>1. ~(-1 > 0) /\ -1 # 0  OBVIOUS
      <4>2. QED  BY <1>3, <3>2, <4>1 DEF DivideNatural
    <3> HIDE DEF r
    <3>4. Results(AllRemains(n, o, oremainder, f), o, oremainder, 0, Value(n))  BY AllRemainsIs
    <3>5. Value(n) \div v = 0 /\ Value(n) % v = Value(n)  BY <1>0, <2>1, <2>5, SmallDividend
    <3>6. QED  BY <2>2, <3>3, <3>4, <3>5 DEF r, v
  <2>6. QED  BY <1>0, <1>b, <2>3, <2>4, <2>5 DEF v, r
<1>4. QED  BY <1>1, <1>2, <1>3
=============================================================================
