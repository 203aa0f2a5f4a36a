------------------------------- MODULE Digits -------------------------------
(***************************************************************************)
(* Natural numbers and their digits to any base, as far as                 *)
(* Jargon/datum/natural.cpp and its specification need them: powers, the   *)
(* number some digits stand for, what is carried from digit to digit, and  *)
(* the operators on bits.                                                  *)
(***************************************************************************)
EXTENDS Integers

\* The n-th power of b.
b ** n == LET p[i \in Nat] == IF i = 0 THEN 1 ELSE b * p[i - 1] IN p[n]

\* The number the digits d[1], ..., d[k] to the base b stand for, the lowest first.
ValueOf(b, d, k) ==
  LET s[i \in 0 .. k] == IF i = 0 THEN 0 ELSE s[i - 1] + d[i] * (b ** (i - 1))
  IN s[k]

\* What the sums d[1], ..., d[k] carry, each into the next one, and the digits that
\* are left of them.
Carries(b, d, k, first) ==
  LET c[i \in 0 .. k] == IF i = 0 THEN first ELSE (d[i] + c[i - 1]) \div b
  IN c
Carried(b, d, k, c) == [i \in 1 .. k |-> (d[i] + c[i - 1]) % b]

\* The bits of m and n, each two of them replaced by what a table has for them.
BitByBit(table, m, n) ==
  LET b[p \in Nat \X Nat] ==
        IF p = <<0, 0>> THEN 0
        ELSE 2 * b[<<p[1] \div 2, p[2] \div 2>>] + table[<<p[1] % 2, p[2] % 2>>]
  IN b[<<m, n>>]

Bit == {0, 1}
AND == [p \in Bit \X Bit |-> p[1] * p[2]]
OR == [p \in Bit \X Bit |-> IF p = <<0, 0>> THEN 0 ELSE 1]
XOR == [p \in Bit \X Bit |-> (p[1] + p[2]) % 2]

m & n == BitByBit(AND, m, n)
m | n == BitByBit(OR, m, n)
m ^^ n == BitByBit(XOR, m, n)

=============================================================================
