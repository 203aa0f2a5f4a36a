----------------------------- MODULE Arithmetic -----------------------------
(***************************************************************************)
(* What the operators of Natural (Jargon/datum/natural.cpp) promise: two   *)
(* natural numbers, a (the accumulator, *this) and b (another operand, and *)
(* where remainders go), and the arithmetic of Nat.  There are no octets,  *)
(* no memory and no carries here.                                          *)
(***************************************************************************)
EXTENDS Integers, Digits

CONSTANT Octet   \* the number of values of an octet

VARIABLES a, b,
          op,      \* the last operation: its name, its operand and a modulus
          borne,   \* whether all of them were used as the code bears it
          steps    \* how many operations there have been

\* The operand of an operation: a fixnum, or one of the two numbers.
Operand(o) == CASE o.rhs = "x" -> a [] o.rhs = "y" -> b [] OTHER -> o.v
Modulus(o) == IF o.mod = 0 THEN b ELSE o.mod

Monus(m, n) == IF m < n THEN 0 ELSE m - n

\* The length of n in octets, and the largest number of that length.
OctetLength(n) == CHOOSE k \in 0 .. n : Octet ** k > n /\ \A i \in 0 .. k - 1 : Octet ** i <= n
Ones(n) == Octet ** OctetLength(n) - 1

\* n ** e modulo m.
PowerMod(n, e, m) ==
  LET p[i \in 0 .. e] == IF i = 0 THEN 1 % m
                         ELSE LET half == p[i \div 2]
                              IN (((half * half) % m) * (IF i % 2 = 1 THEN n % m ELSE 1)) % m
  IN p[e]

\* The values of a and b after operation o.  A division by zero does nothing.
Effect(o) ==
  LET r == Operand(o) IN
  CASE o.name = "="   -> <<r, b>>
    [] o.name = "copy" -> <<a, a>>
    [] o.name = "+="  -> <<a + r, b>>
    [] o.name = "-="  -> <<Monus(a, r), b>>
    [] o.name = "*="  -> <<a * r, b>>
    [] o.name = "/="  -> <<IF r = 0 THEN a ELSE a \div r, b>>
    [] o.name = "%="  -> <<IF a = 0 \/ r = 0 THEN a ELSE a % r, b>>
    [] o.name = "quotient_remainder" ->
         IF a = 0 THEN <<0, 0>> ELSE IF r = 0 THEN <<a, b>> ELSE <<a \div r, a % r>>
    [] o.name = "expt" -> <<IF r = 0 THEN 1 ELSE a ** r, b>>
    [] o.name = "modular_expt" -> <<PowerMod(a, r, Modulus(o)), b>>
    [] o.name = "~"   -> <<a, Ones(a) - a>>
    [] o.name = "<<=" -> <<a * (2 ** r), b>>
    [] o.name = ">>=" -> <<a \div (2 ** r), b>>
    [] o.name = "&="  -> <<a & r, b>>
    [] o.name = "|="  -> <<a | r, b>>
    [] o.name = "^="  -> <<a ^^ r, b>>

Init == op.name = "make" /\ borne = TRUE /\ steps = 0

\* Nothing is promised of an operation that is used in another way.
Next == steps' = steps + 1 /\ (borne' => <<a', b'>> = Effect(op'))

Spec == Init /\ [][Next]_<<a, b, op, borne, steps>>

=============================================================================
