---------------------------- MODULE NaturalNumber ----------------------------
(***************************************************************************)
(* Natural (Jargon/datum/natural.cpp): natural numbers of any size in a    *)
(* memory of octets that is reused from operation to operation.  The       *)
(* number is in the last octets of the memory, its payload; what is before *)
(* the payload is left over from earlier operations, or was never written. *)
(*                                                                         *)
(* The octets are counted from the right: mem[i] is natural[capacity - i]. *)
(* An octet has Bits bits and an unsigned long long W octets.              *)
(***************************************************************************)
EXTENDS Integers, Sequences, FiniteSetsExt, Digits

CONSTANTS
  Bits, W,
  Fixnums,      \* operands that are an unsigned long long
  Shifts, Exponents, Moduli,
  Texts,        \* the octets numbers are made from, first octet first
  Fill,         \* what new memory holds
  MaxOctets,    \* bound: larger results are not followed
  MaxSteps      \* bound: operations of a behaviour

Base == 2 ** Bits
Octet == 0 .. Base - 1

ASSUME NaturalAssumption ==
  /\ Bits \in Nat \ {0} /\ W \in Nat \ {0, 1}
  /\ Fill \subseteq Octet
  /\ Fixnums \subseteq 0 .. Base ** W - 1
  /\ Moduli \subseteq 2 .. Base ** W - 1
  /\ Texts \subseteq Seq(Octet) \ {<< >>}
  /\ Shifts \subseteq Nat /\ Exponents \subseteq Nat

VARIABLES
  x, y,         \* two numbers, the accumulator (*this) and another one
  op,           \* the last operation
  borne,        \* whether the code bears all the operations so far, see Bears
  steps

vars == <<x, y, op, borne, steps>>

-----------------------------------------------------------------------------
(* Memory. *)

Number(mem, payload) == [mem |-> mem, payload |-> payload]
Capacity(n) == Len(n.mem)

Smaller(i, j) == Min({i, j})
Larger(i, j) == Max({i, j})

\* new uint8[size]: not initialised.
malloc(size, fill) == [i \in 1 .. size |-> fill]

\* The memory with octets from octet j on, or the last ones, replaced by those of d.
Put(mem, j, d) ==
  SubSeq(SubSeq(mem, 1, j - 1) \o d \o SubSeq(mem, j + Len(d), Len(mem)), 1, Len(mem))
Write(mem, d) == Put(mem, 1, d)

bzero(n) == [n EXCEPT !.payload = 0]

skip_leading_zeros(mem, k) == Number(mem, Max({0} \cup {i \in 1 .. k : mem[i] # 0}))

recalloc(n, size) == Number(Write(malloc(size, 0), SubSeq(n.mem, 1, n.payload)), n.payload)

smart_prealloc(n, size) ==
  IF size + n.payload > Capacity(n) THEN recalloc(n, size + n.payload) ELSE n

\* memmove of the first Len(d) octets of the memory, which hold d, to its end.
MoveDown(mem, d) ==
  Write(Put(mem, Len(mem) - Len(d) + 1, d), d)

\* The octets that are left of the sums d[i], and the octet carried out of them, if any.
Replaced(n, d, first) ==
  LET c == Carries(Base, d, n.payload, first)
      carry == c[n.payload]
      octets == Carried(Base, d, n.payload, c)
      room == IF Capacity(n) = n.payload THEN Append(n.mem, 0) ELSE n.mem
  IN IF carry = 0 THEN Number(Write(n.mem, octets), n.payload)
     ELSE Number(Write(room, Append(octets, carry)), n.payload + 1)

\* The octets of an unsigned long long.
FixnumOctet(v, i) == (v \div (Base ** (i - 1))) % Base
FixnumSize(v) == Max({0} \cup {i \in 1 .. W : FixnumOctet(v, i) # 0})
FixnumOctets(v) == [i \in 1 .. FixnumSize(v) |-> FixnumOctet(v, i)]

\* The number a payload stands for.
Value(n) == ValueOf(Base, n.mem, n.payload)

is_zero(n) == n.payload = 0 \/ (n.payload = 1 /\ n.mem[1] = 0)
is_fixnum(n) == n.payload <= W

-----------------------------------------------------------------------------
(* Constructors and assignments. *)

replaced_by_fixnum(n, v) == Number(Write(n.mem, FixnumOctets(v)), FixnumSize(v))

FromFixnum(v, fill) == replaced_by_fixnum(Number(malloc(W, fill), 0), v)

from_memory(text) ==
  skip_leading_zeros([i \in 1 .. Len(text) |-> text[Len(text) - i + 1]], Len(text))

\* Two digits of half an octet each, from the right.
natural_from_base16(text) ==
  LET half == 2 ** (Bits \div 2)
      digit(i) == IF i < Len(text) THEN text[Len(text) - i] % half ELSE 0
      capacity == (Len(text) + 1) \div 2
  IN skip_leading_zeros([i \in 1 .. capacity |-> digit(2 * i - 1) * half + digit(2 * i - 2)], capacity)

\* The copy constructor.
Copy(n, fill) ==
  Number(Write(malloc(Larger(n.payload, W), fill), SubSeq(n.mem, 1, n.payload)), n.payload)

\* The copy assignment to o of another number n.
Assign(o, n, fill) ==
  LET mem == IF n.payload > Capacity(o) THEN malloc(n.payload, fill) ELSE o.mem
  IN Number(Write(mem, SubSeq(n.mem, 1, n.payload)), n.payload)

-----------------------------------------------------------------------------
(* Addition and subtraction. *)

add_digit(n, digit) ==
  IF n.payload = 0 THEN Number([n.mem EXCEPT ![1] = digit], 1)
  ELSE Replaced(n, n.mem, digit)

\* Addends above the payload of n are whatever the memory holds there.
PlusFixnum(n, v) ==
  LET size == Larger(n.payload, W)
      m == IF Capacity(n) <= size THEN recalloc(n, size + 1) ELSE n
      rest == Carries(Base, m.mem, Capacity(m), v)
      k == Min({Capacity(m)} \cup {i \in 1 .. Capacity(m) : rest[i] = 0})
  IN IF v < Base THEN add_digit(n, v)
     ELSE Number(Write(m.mem, Carried(Base, m.mem, k, rest)), Larger(n.payload, k))

\* If rhs is the number itself, its memory is the new one as well.
PlusNatural(n, rhs, same, fill) ==
  LET size == Larger(n.payload, rhs.payload)
      common == Smaller(n.payload, rhs.payload)
      mem == IF Capacity(n) <= size THEN malloc(size + 1, fill) ELSE n.mem
      addend == IF same THEN mem ELSE rhs.mem
      long == IF n.payload < rhs.payload THEN rhs.mem ELSE n.mem
      sum == [i \in 1 .. size |-> IF i <= common THEN n.mem[i] + addend[i] ELSE long[i]]
      c == Carries(Base, sum, size, 0)
      octets == Carried(Base, sum, size, c)
  IN IF rhs.payload = 0 THEN n
     ELSE IF rhs.payload = 1 THEN add_digit(n, rhs.mem[1])
     ELSE IF c[size] = 1 THEN Number(Write(mem, Append(octets, 1)), size + 1)
     ELSE Number(Write(mem, octets), size)

decrease_from_slot(n, slot) ==
  LET nonzero == {i \in slot .. n.payload : n.mem[i] > 0}
      t == Min(nonzero)
      below(k) == malloc(k - slot, Base - 1)
  IN IF slot > n.payload THEN n
     ELSE IF nonzero = {}
     THEN Number(Put(n.mem, slot, below(n.payload)), 0)
     ELSE Number(Put(n.mem, slot, Append(below(t), n.mem[t] - 1)),
                 IF n.mem[t] = 1 /\ t = n.payload THEN n.payload - 1 ELSE n.payload)

\* A bug: a difference that borrows from above keeps its leading zeros.
Minus_keeps_zeros(n, d, size) ==
  LET k == Smaller(n.payload, size)
      borrowed[i \in 0 .. k] == IF i = 0 \/ n.mem[i] >= d[i] + borrowed[i - 1] THEN 0 ELSE 1
      mem == Write(n.mem, [i \in 1 .. k |-> (n.mem[i] - d[i] - borrowed[i - 1]) % Base])
      m == Number(mem, n.payload)
  IN IF size > n.payload \/ (borrowed[k] = 1 /\ n.payload = k) THEN bzero(m)
     ELSE IF borrowed[k] = 1 THEN decrease_from_slot(m, k + 1)
     ELSE m

\* The octets of d are subtracted; what would be negative is zero.
Minus(n, d, size) ==
  LET k == Smaller(n.payload, size)
      borrowed[i \in 0 .. k] == IF i = 0 \/ n.mem[i] >= d[i] + borrowed[i - 1] THEN 0 ELSE 1
      mem == Write(n.mem, [i \in 1 .. k |-> (n.mem[i] - d[i] - borrowed[i - 1]) % Base])
      m == IF borrowed[k] = 1 THEN decrease_from_slot(Number(mem, n.payload), k + 1)
           ELSE Number(mem, n.payload)
  IN IF size > n.payload \/ (borrowed[k] = 1 /\ n.payload = k) THEN bzero(Number(mem, 0))
     ELSE skip_leading_zeros(m.mem, m.payload)

MinusFixnum(n, v) ==
  IF is_zero(n) \/ v = 0 THEN n ELSE Minus(n, FixnumOctets(v), FixnumSize(v))

MinusNatural(n, rhs) ==
  IF is_zero(rhs) THEN n
  ELSE IF n.payload < rhs.payload THEN bzero(n)
  ELSE Minus(n, rhs.mem, rhs.payload)

-----------------------------------------------------------------------------
(* Multiplication: in place if the memory has room for the product before  *)
(* the number, in new memory otherwise.                                    *)

times_digit(n, digit) ==
  IF digit = 0 THEN bzero(n)
  ELSE IF digit = 1 THEN n
  ELSE Replaced(n, [i \in 1 .. n.payload |-> n.mem[i] * digit], 0)

\* The product of n and the first k octets of d, in a room of that many octets.
Times(n, d, k, room, fill) ==
  LET in_place == Capacity(n) >= room + n.payload
      old(i) == IF in_place THEN n.mem[Capacity(n) - room + i] ELSE fill
      row[j \in 0 .. k] ==
        IF j = 0 THEN [i \in 1 .. room |-> IF i <= n.payload THEN 0 ELSE old(i)]
        ELSE LET p == row[j - 1]
                 sum == [i \in 1 .. n.payload |-> n.mem[i] * d[j] + p[i + j - 1]]
                 c == Carries(Base, sum, n.payload, 0)
             IN Put(p, j, Append(Carried(Base, sum, n.payload, c), c[n.payload]))
  IN skip_leading_zeros(IF in_place THEN MoveDown(n.mem, row[k]) ELSE row[k], n.payload + k)

TimesFixnum(n, v, fill) ==
  IF is_zero(n) THEN n
  ELSE IF v < Base THEN times_digit(n, v)
  ELSE Times(n, FixnumOctets(v), FixnumSize(v), n.payload + W, fill)

TimesNatural(n, rhs, fill) ==
  IF is_zero(n) THEN n
  ELSE IF rhs.payload > 1 THEN Times(n, rhs.mem, rhs.payload, n.payload + rhs.payload, fill)
  ELSE IF is_zero(rhs) THEN bzero(n)
  ELSE times_digit(n, rhs.mem[1])

-----------------------------------------------------------------------------
(* Division.  A division returns <<the number, the other operand>>, one of *)
(* which the remainder may have been put into: oremainder is "none",       *)
(* "this" or "other" (o).                                                  *)

PutRemainder(q, o, oremainder, v) ==
  CASE oremainder = "none"  -> <<q, o>>
    [] oremainder = "this"  -> <<replaced_by_fixnum(q, v), o>>
    [] oremainder = "other" -> <<q, replaced_by_fixnum(o, v)>>

\* A number smaller than the divisor is the remainder.
AllRemains(n, o, oremainder, fill) ==
  CASE oremainder = "none"  -> <<bzero(n), o>>
    [] oremainder = "this"  -> <<n, o>>
    [] oremainder = "other" -> <<bzero(n), Assign(o, n, fill)>>

\* The first octets of the payload that are fewer than those of the divisor
\* only make the first remainder; the others are replaced by the quotient.
DivideFixnum(n, v, o, oremainder, fill) ==
  LET skipped == IF v < Base THEN 0 ELSE FixnumSize(v) - 1
      dividend(r, i) == (r * Base + n.mem[i]) % (Base ** W)
      rest[i \in 1 .. n.payload + 1] ==
        IF i > n.payload THEN 0 ELSE dividend(rest[i + 1], i) % v
      quotient == [i \in 1 .. n.payload - skipped |-> dividend(rest[i + 1], i) \div v]
  IN IF is_zero(n) THEN PutRemainder(n, o, oremainder, 0)
     ELSE IF v = 0 THEN <<n, o>>
     ELSE IF v = 1 THEN PutRemainder(n, o, oremainder, 0)
     ELSE IF n.payload <= skipped THEN AllRemains(n, o, oremainder, fill)
     ELSE PutRemainder(skip_leading_zeros(Write(n.mem, quotient), n.payload - skipped),
                       o, oremainder, rest[1])

\* compare: by the lengths, then octet by octet from the left.
compare(n, rhs) ==
  LET differ == {i \in 1 .. n.payload : n.mem[i] # rhs.mem[i]}
  IN IF n.payload # rhs.payload THEN (IF n.payload < rhs.payload THEN -1 ELSE 1)
     ELSE IF differ = {} THEN 0
     ELSE IF n.mem[Max(differ)] < rhs.mem[Max(differ)] THEN -1 ELSE 1

\* The normalised divisor: its octets from the highest, times the power of two
\* that makes the highest one at least half of Base.
Shifting(v) ==
  LET v3 == v.mem[v.payload] * (Base ** 2) + v.mem[v.payload - 1] * Base + v.mem[v.payload - 2]
      f == Min({e \in {2 ** s : s \in 0 .. Bits} : v3 * e >= (Base ** 3) \div 2})
  IN [factor |-> f, vn_1 |-> (v3 * f) \div (Base ** 2), vn_2 |-> ((v3 * f) \div Base) % Base]

\* The four highest octets of what is left of the dividend at octet t.
Leading(u, m) == u[m] * (Base ** 3) + u[m - 1] * (Base ** 2) + u[m - 2] * Base + u[m - 3]

\* A bug: the estimate is not corrected by the second octet of the divisor.
q_hat_rough(u4, s) == Smaller((((s.factor * u4) \div (Base ** 2)) % (Base ** 2)) \div s.vn_1 + 1, Base - 1)

\* The estimate of a quotient's octet, by the four highest octets of what is left
\* of the dividend and the two highest of the normalised divisor.
q_hat(u4, s) ==
  LET ujnb_ujn_1 == ((s.factor * u4) \div (Base ** 2)) % (Base ** 2)
      ujn_2 == ((s.factor * u4) \div Base) % Base
      q0 == Smaller(ujnb_ujn_1 \div s.vn_1, Base - 1)
      r(q) == ujnb_ujn_1 - q * s.vn_1
  IN Max({q \in 0 .. q0 : q * s.vn_2 <= r(q) * Base + ujn_2})

\* u - d where d is a product, a carry and a borrow.
u_vq_hat(u, d) ==
  [carry |-> d \div Base, borrowed |-> IF u < d % Base THEN 1 ELSE 0, digit |-> (u - d) % Base]

\* u - v * q at octet t, and if that borrows, v is added again and the
\* quotient's octet is one less.
SubtractProduct(s, t, v, q) ==
  LET top == v.payload + 1
      octet(i) == IF i < top THEN v.mem[i] ELSE 0
      c[i \in 0 .. top] ==
        IF i = 0 THEN u_vq_hat(0, 0)
        ELSE LET p == c[i - 1]
             IN u_vq_hat(s.u[t + i - 1], octet(i) * q + p.carry + p.borrowed)
      difference == [i \in 1 .. top |-> c[i].digit]
      back == [i \in 1 .. top |-> c[i].digit + octet(i)]
      octets == IF c[top].borrowed = 0 THEN difference
                ELSE Carried(Base, back, top, Carries(Base, back, top, 0))
  IN [u |-> Put(s.u, t, octets),
      q |-> <<IF c[top].borrowed = 0 THEN q ELSE q - 1>> \o s.q]

DivisionStep(s, t, v) ==
  SubtractProduct(s, t, v, q_hat(Leading(s.u, t + v.payload), Shifting(v)))

\* The remainder is left at the end of the memory; a quotient replaces it.
Divided(s, v, o, oremainder, fill) ==
  LET remainder == skip_leading_zeros(s.u, v.payload)
      quotient == skip_leading_zeros(MoveDown(s.u, s.q), Len(s.q))
  IN CASE oremainder = "none"  -> <<quotient, o>>
       [] oremainder = "this"  -> <<remainder, o>>
       [] oremainder = "other" -> <<quotient, Assign(o, remainder, fill)>>

LongDivision(n, v, o, oremainder, fill) ==
  LET size == n.payload - v.payload + 1
      room == IF oremainder = "this" THEN n.payload + 1 ELSE n.payload + size + 1
      m == IF Capacity(n) < room THEN recalloc(n, room) ELSE n
      step[t \in 1 .. size + 1] ==
        IF t > size THEN [u |-> [m.mem EXCEPT ![n.payload + 1] = 0], q |-> << >>]
        ELSE DivisionStep(step[t + 1], t, v)
  IN Divided(step[1], v, o, oremainder, fill)

\* fixnum64_ref(0): the highest group of W octets, which may be incomplete.
fixnum64_ref0(n) == IF n.payload = 0 THEN 0 ELSE Value(n) \div (Base ** (W * ((n.payload - 1) \div W)))

DivideNatural(n, rhs, o, oremainder, fill) ==
  IF is_zero(n) THEN PutRemainder(n, o, oremainder, 0)
  ELSE IF is_fixnum(rhs) THEN DivideFixnum(n, fixnum64_ref0(rhs), o, oremainder, fill)
  ELSE IF compare(n, rhs) > 0 THEN LongDivision(n, rhs, o, oremainder, fill)
  ELSE IF compare(n, rhs) = 0
  THEN PutRemainder(Number([n.mem EXCEPT ![1] = 1], 1), o, oremainder, 0)
  ELSE AllRemains(n, o, oremainder, fill)

-----------------------------------------------------------------------------
(* Powers: the bits of the exponent from the right, each with a            *)
(* multiplication if it is set and a squaring.                             *)

BitLength(e) == CHOOSE i \in 0 .. e : 2 ** i > e /\ (i = 0 \/ 2 ** (i - 1) <= e)
BitSet(e, i) == (e \div (2 ** i)) % 2 = 1

expt(n, e, fill) ==
  LET one == replaced_by_fixnum(n, 1)
      p[i \in 0 .. BitLength(e)] ==
        IF i = 0 THEN [me |-> one, z |-> Copy(n, fill)]
        ELSE LET q == p[i - 1]
             IN [me |-> IF BitSet(e, i - 1) THEN TimesNatural(q.me, q.z, fill) ELSE q.me,
                 z |-> TimesNatural(q.z, q.z, fill)]
  IN p[BitLength(e)].me

\* The remainder by a modulus that is a number, in place.
Reduced(n, modulus, fill) == DivideNatural(n, modulus, n, "this", fill)[1]

\* Room for products of size octets is made first.
modular_expt(n, e, modulus, size, fill) ==
  LET times(a, b) == Reduced(TimesNatural(a, b, fill), modulus, fill)
      p[i \in 0 .. BitLength(e)] ==
        IF i = 0 THEN [me |-> smart_prealloc(FromFixnum(1, fill), size),
                       self |-> Reduced(smart_prealloc(n, size), modulus, fill)]
        ELSE LET q == p[i - 1]
             IN [me |-> IF BitSet(e, i - 1) THEN times(q.me, q.self) ELSE q.me,
                 self |-> times(q.self, q.self)]
      last == p[BitLength(e)]
  IN IF e = 0 THEN replaced_by_fixnum(n, 1) ELSE Assign(last.self, last.me, fill)

\* Of the four overloads only this one has the exponent and the modulus as
\* numbers; it asks twice whether the exponent is a fixnum and never for the modulus.
ModularExptNatural(n, e, modulus, fill) ==
  IF is_fixnum(e) THEN modular_expt(n, Value(e), FromFixnum(fixnum64_ref0(modulus), fill), 2 * W, fill)
  ELSE modular_expt(n, Value(e), modulus, 2 * modulus.payload, fill)

-----------------------------------------------------------------------------
(* Bits. *)

complement(n, fill) ==
  LET copy == Copy(n, fill)
  IN skip_leading_zeros(Write(copy.mem, [i \in 1 .. copy.payload |-> Base - 1 - copy.mem[i]]),
                        copy.payload)

ShiftLeft(n, shifts, fill) ==
  LET byts == shifts \div Bits
      bits == shifts % Bits
      octet(i) == IF i \in 1 .. n.payload THEN n.mem[i] ELSE 0
      load == n.payload + byts
      total == IF octet(n.payload) * (2 ** bits) >= Base THEN load + 1 ELSE load
      mem == IF Capacity(n) >= total THEN n.mem ELSE malloc(total, IF bits = 0 THEN 0 ELSE fill)
  IN IF is_zero(n) \/ shifts = 0 THEN n
     ELSE Number(Write(mem, [i \in 1 .. total |->
            ((octet(i - byts) * (2 ** bits)) % Base) + ((octet(i - byts - 1) * (2 ** bits)) \div Base)]), total)

\* A bug: the bits that cross from octet to octet are lost.
ShiftRight_octets(n, shifts) ==
  LET byts == shifts \div Bits
      bits == shifts % Bits
      k == n.payload - byts
      digits == [i \in 1 .. k |-> n.mem[i + byts] \div (2 ** bits)]
  IN IF is_zero(n) \/ shifts = 0 THEN n
     ELSE IF k <= 0 THEN bzero(n)
     ELSE Number(Write(n.mem, digits), IF digits[k] = 0 THEN k - 1 ELSE k)

ShiftRight(n, shifts) ==
  LET byts == shifts \div Bits
      bits == shifts % Bits
      k == n.payload - byts
      above(i) == IF i < n.payload THEN n.mem[i + 1] ELSE 0
      digits == [i \in 1 .. k |-> (n.mem[i + byts] \div (2 ** bits))
                                  + (above(i + byts) % (2 ** bits)) * (2 ** (Bits - bits))]
  IN IF is_zero(n) \/ shifts = 0 THEN n
     ELSE IF k <= 0 THEN bzero(n)
     ELSE Number(Write(n.mem, digits), IF bits # 0 /\ digits[k] = 0 THEN k - 1 ELSE k)

Mask(n, d, size) ==
  LET k == Smaller(n.payload, size)
  IN skip_leading_zeros(Write(n.mem, [i \in 1 .. k |-> n.mem[i] & d[i]]), k)

\* The memory before the payload is cleared, since the operand may reach there.
Cleared(n) ==
  LET size == Larger(n.payload, W)
  IN IF Capacity(n) < size THEN recalloc(n, size) ELSE recalloc(n, Capacity(n))

OrFixnum(n, v) ==
  LET m == Cleared(n) IN
  IF v = 0 THEN n
  ELSE Number(Write(m.mem, [i \in 1 .. FixnumSize(v) |-> m.mem[i] | FixnumOctet(v, i)]),
              Larger(n.payload, FixnumSize(v)))

XorFixnum(n, v) ==
  LET m == Cleared(n)
      mem == Write(m.mem, [i \in 1 .. FixnumSize(v) |-> m.mem[i] ^^ FixnumOctet(v, i)])
  IN IF v = 0 THEN n
     ELSE IF n.payload = FixnumSize(v) THEN skip_leading_zeros(mem, n.payload)
     ELSE Number(mem, Larger(n.payload, FixnumSize(v)))

\* Octet by octet where both numbers have one, the longer one's octets above.
Merge(n, rhs, both, fill) ==
  LET size == Larger(n.payload, rhs.payload)
      mem == IF Capacity(n) < size THEN malloc(size, fill) ELSE n.mem
  IN Write(mem, [i \in 1 .. size |->
       IF i <= Smaller(n.payload, rhs.payload) THEN BitByBit(both, n.mem[i], rhs.mem[i])
       ELSE IF n.payload < rhs.payload THEN rhs.mem[i] ELSE n.mem[i]])

OrNatural(n, rhs, fill) ==
  IF is_zero(rhs) THEN n
  ELSE Number(Merge(n, rhs, OR, fill), Larger(n.payload, rhs.payload))

XorNatural(n, rhs, fill) ==
  LET mem == Merge(n, rhs, XOR, fill) IN
  IF is_zero(rhs) THEN n
  ELSE IF n.payload = rhs.payload THEN skip_leading_zeros(mem, n.payload)
  ELSE Number(mem, Larger(n.payload, rhs.payload))

-----------------------------------------------------------------------------
(* What a number is asked for. *)

compareFixnum(n, v) ==
  LET octet(i) == IF i > n.payload THEN 0 ELSE n.mem[i]
      differ == {i \in 1 .. W : octet(i) # FixnumOctet(v, i)}
  IN IF ~is_fixnum(n) THEN 1
     ELSE IF differ = {} THEN 0
     ELSE IF octet(Max(differ)) < FixnumOctet(v, Max(differ)) THEN -1 ELSE 1

integer_length(n) ==
  IF n.payload = 0 THEN 0 ELSE (n.payload - 1) * Bits + BitLength(n.mem[n.payload])

\* At m = payload * Bits it is an octet before the payload that is read, which may
\* be before the memory as well.
OctetAbove(n, before) == IF n.payload < Capacity(n) THEN n.mem[n.payload + 1] ELSE before
is_bit_set(n, m, before) ==
  /\ m <= n.payload * Bits
  /\ BitSet(IF m = n.payload * Bits THEN OctetAbove(n, before) ELSE n.mem[m \div Bits + 1], m % Bits)

\* For start <= endp1.  A field of more than W octets is put into memory that has been
\* enlarged first, by a copy of octets before it that the field then replaces
\* (natural.cpp:1338, 1745).
bit_field(n, start, endp1, fill) ==
  LET startq == start \div Bits
      beyond == endp1 \div Bits >= n.payload
      endq == IF beyond THEN n.payload ELSE endp1 \div Bits
      endr == IF beyond THEN 0 ELSE endp1 % Bits
      size == (endq - startq) + (IF endr > 0 THEN 1 ELSE 0)
      octets == [i \in 1 .. size |-> IF i = size /\ endr > 0 THEN n.mem[startq + i] % (2 ** endr)
                                     ELSE n.mem[startq + i]]
      sub == Number(Write(malloc(Larger(size, W), fill), octets), size)
  IN IF startq >= n.payload THEN Number(malloc(W, fill), 0)
     ELSE ShiftRight(sub, start % Bits)

-----------------------------------------------------------------------------
(***************************************************************************)
(* The code does not bear every use of its operators, and neither guards   *)
(* against the others nor forbids them:                                    *)
(* - n += n in a memory that has no octet to spare (operator+= of a        *)
(*   Natural allows it, but reads the addend from the new memory);         *)
(* - n += v with v > 0xFF while the memory before the payload holds        *)
(*   something (it is added as well), or n += 0 with n = 0 (a payload of   *)
(*   one zero octet);                                                      *)
(* - division by a fixnum of W octets (remainder << 8 overflows);          *)
(* - a short exponent and a long modulus that are both Naturals;           *)
(* - an exponent longer than a fixnum that is the number itself: it is     *)
(*   read while it is replaced by its squares (natural.cpp:125-139);       *)
(* - a fixnum put into a memory of fewer octets.                           *)
(* Such an operation is a step like the others, with the result the code   *)
(* computes, but after it borne is FALSE and nothing else is followed.     *)
(***************************************************************************)
Becomes(name, rhs, v, mod, n, m) ==
  /\ borne
  /\ steps < MaxSteps /\ steps' = steps + 1
  /\ op' = [name |-> name, rhs |-> rhs, v |-> v, mod |-> mod]
  /\ x' = n /\ y' = m
  /\ x'.payload <= MaxOctets /\ y'.payload <= MaxOctets

ByFixnum(name, v, n) == Becomes(name, "fixnum", v, 1, n, y)
ByNumber(name, rhs, n) == Becomes(name, rhs, 0, 1, n, y)

Rhs(r) == IF r = "x" THEN x ELSE y

Bears(condition) == borne' = condition
AlwaysBears == Bears(TRUE)

Zeroed(n) == \A i \in n.payload + 1 .. Capacity(n) : n.mem[i] = 0

AssignFixnum(v) ==
  /\ ByFixnum("=", v, replaced_by_fixnum(x, v))
  /\ Bears(FixnumSize(v) <= Capacity(x))

CopyToOther(f) == Becomes("copy", "fixnum", 0, 1, x, Assign(y, x, f)) /\ AlwaysBears

\* ++ and -- are the operators of one digit.
Increment == ByFixnum("+=", 1, add_digit(x, 1)) /\ AlwaysBears
Decrement == ByFixnum("-=", 1, decrease_from_slot(x, 1)) /\ AlwaysBears

AddFixnum(v) ==
  /\ ByFixnum("+=", v, PlusFixnum(x, v))
  /\ Bears(IF v >= Base THEN Capacity(x) <= Larger(x.payload, W) \/ Zeroed(x)
           ELSE v # 0 \/ x.payload # 0)

AddNatural(r, f) ==
  /\ ByNumber("+=", r, PlusNatural(x, Rhs(r), r = "x", f))
  /\ Bears(r = "x" => x.payload < 2 \/ Capacity(x) > x.payload)

SubtractFixnum(v) == ByFixnum("-=", v, MinusFixnum(x, v)) /\ AlwaysBears
SubtractNatural(r) == ByNumber("-=", r, MinusNatural(x, Rhs(r))) /\ AlwaysBears

MultiplyFixnum(v, f) == ByFixnum("*=", v, TimesFixnum(x, v, f)) /\ AlwaysBears
MultiplyNatural(r, f) == ByNumber("*=", r, TimesNatural(x, Rhs(r), f)) /\ AlwaysBears

Oremainders == {"none", "this", "other"}
DivisionName(o) ==
  CASE o = "none" -> "/=" [] o = "this" -> "%=" [] o = "other" -> "quotient_remainder"

QuotientFixnum(v, o, f) ==
  /\ LET d == DivideFixnum(x, v, y, o, f)
     IN Becomes(DivisionName(o), "fixnum", v, 1, d[1], d[2])
  /\ Bears(FixnumSize(v) < W /\ (o = "other" => Capacity(y) >= W))

QuotientNatural(r, o, f) ==
  /\ LET d == DivideNatural(x, Rhs(r), y, o, f)
     IN Becomes(DivisionName(o), r, 0, 1, d[1], d[2])
  /\ Bears(Rhs(r).payload # W /\ (o = "other" => Capacity(y) >= W))

Expt(e, f) == ByFixnum("expt", e, expt(x, e, f)) /\ AlwaysBears

\* An exponent of more than W octets is read octet by octet.
IsOverwritten(r) == r = "x" /\ ~is_fixnum(x)

HasModulus == borne /\ Value(y) > 1

\* The overloads of modular_expt, by what the exponent and the modulus are: fixnums,
ModularExpt(e, m, f) ==
  /\ Becomes("modular_expt", "fixnum", e, m, modular_expt(x, e, FromFixnum(m, f), 2 * W, f), y)
  /\ Bears(FixnumSize(m) < W)

\* a fixnum and a number,
ModularExptByNumber(e, f) ==
  /\ HasModulus
  /\ LET size == 2 * (IF is_fixnum(y) THEN W ELSE y.payload)
     IN Becomes("modular_expt", "fixnum", e, 0, modular_expt(x, e, y, size, f), y)
  /\ Bears(y.payload # W)

\* a number and a fixnum,
ModularExptOfNumber(r, m, f) ==
  /\ ~IsOverwritten(r)
  /\ Becomes("modular_expt", r, 0, m, modular_expt(x, Value(Rhs(r)), FromFixnum(m, f), 2 * W, f), y)
  /\ Bears(FixnumSize(m) < W)

\* and numbers.
ModularExptNumbers(r, f) ==
  /\ HasModulus
  /\ ~IsOverwritten(r)
  /\ Becomes("modular_expt", r, 0, 0, ModularExptNatural(x, Rhs(r), y, f), y)
  /\ Bears(y.payload # W /\ (is_fixnum(Rhs(r)) => is_fixnum(y)))

\* An exponent that is replaced by its squares may have any bits, and if it becomes
\* zero its highest octet is read behind the memory: the power is some number below
\* the modulus.
PowerOfOverwritten(m, modulus) ==
  LET size == Larger(y.payload, W)
      octets(v) == [i \in 1 .. size |-> FixnumOctet(v, i)]
  IN /\ \E v \in 0 .. modulus - 1 :
          Becomes("modular_expt", "x", 0, m, skip_leading_zeros(octets(v), size), y)
     /\ Bears(FALSE)

ModularExptOverwritten ==
  /\ IsOverwritten("x")
  /\ \/ \E m \in Moduli : PowerOfOverwritten(m, m)
     \/ HasModulus /\ PowerOfOverwritten(0, Value(y))

Complement(f) == Becomes("~", "fixnum", 0, 1, x, complement(x, f)) /\ AlwaysBears

Shift(s, f) ==
  /\ \/ ByFixnum("<<=", s, ShiftLeft(x, s, f))
     \/ ByFixnum(">>=", s, ShiftRight(x, s))
  /\ AlwaysBears

BitwiseFixnum(v) ==
  /\ \/ ByFixnum("&=", v, Mask(x, FixnumOctets(v), FixnumSize(v)))
     \/ ByFixnum("|=", v, OrFixnum(x, v))
     \/ ByFixnum("^=", v, XorFixnum(x, v))
  /\ AlwaysBears

BitwiseNatural(r, f) ==
  /\ \/ ByNumber("&=", r, Mask(x, Rhs(r).mem, Rhs(r).payload))
     \/ ByNumber("|=", r, OrNatural(x, Rhs(r), f))
     \/ ByNumber("^=", r, XorNatural(x, Rhs(r), f))
  /\ AlwaysBears

Made(text) == {from_memory(text), natural_from_base16(text)}

Init ==
  /\ x \in (UNION {Made(t) : t \in Texts}) \cup {FromFixnum(v, f) : v \in Fixnums, f \in Fill}
  /\ y \in UNION {Made(t) : t \in Texts}
  /\ op = [name |-> "make", rhs |-> "fixnum", v |-> 0, mod |-> 1]
  /\ borne = TRUE /\ steps = 0

Next ==
  \/ Increment \/ Decrement \/ ModularExptOverwritten
  \/ \E v \in Fixnums :
       \/ AssignFixnum(v) \/ AddFixnum(v) \/ SubtractFixnum(v) \/ BitwiseFixnum(v)
       \/ \E f \in Fill, o \in Oremainders : QuotientFixnum(v, o, f)
       \/ \E f \in Fill : MultiplyFixnum(v, f)
  \/ \E r \in {"x", "y"} :
       \/ SubtractNatural(r)
       \/ \E f \in Fill :
            \/ AddNatural(r, f) \/ MultiplyNatural(r, f) \/ BitwiseNatural(r, f)
            \/ ModularExptNumbers(r, f) \/ (\E m \in Moduli : ModularExptOfNumber(r, m, f))
            \/ \E o \in Oremainders : QuotientNatural(r, o, f)
  \/ \E f \in Fill :
       \/ CopyToOther(f) \/ Complement(f)
       \/ \E s \in Shifts : Shift(s, f)
       \/ \E e \in Exponents :
            \/ Expt(e, f) \/ ModularExptByNumber(e, f)
            \/ \E m \in Moduli : ModularExpt(e, m, f)

Spec == Init /\ [][Next]_vars

-----------------------------------------------------------------------------
\* The operators compute what the arithmetic of natural numbers says, whatever
\* the memory held before, but for the uses listed at Bears: carries, borrows and
\* the corrections of the long division lose nothing, results computed in the
\* operand's own memory do not run into it, and numbers may be operands of
\* themselves (natural.cpp:442, 627, 678, 744).
A == INSTANCE Arithmetic WITH a <- Value(x), b <- Value(y), Octet <- Base
Arithmetical == A!Spec

\* As long as the code bears its uses, a payload is within its memory and has no
\* leading zero: comparisons go by the lengths first (natural.cpp:385), so a number
\* with a leading zero is larger than the same number without.
Canonical ==
  borne => \A n \in {x, y} : n.payload <= Capacity(n) /\ (n.payload > 0 => n.mem[n.payload] # 0)

Sign(i) == IF i < 0 THEN -1 ELSE IF i > 0 THEN 1 ELSE 0

\* What the numbers of Canonical tell of themselves is what their values say: their
\* order, their length in bits, the numbers between two bits, and their bits, all
\* but the one just above the payload, which is what an octet before it happens to
\* hold (natural.cpp:1311 has <= for <).
Observed ==
  borne =>
    /\ compare(x, y) = Sign(Value(x) - Value(y))
    /\ \A v \in Fixnums : compareFixnum(x, v) = Sign(Value(x) - v)
    /\ integer_length(x) = BitLength(Value(x))
    /\ \A m \in 0 .. (x.payload + 1) * Bits, f \in Fill :
         is_bit_set(x, m, f) <=> \/ BitSet(Value(x), m)
                                 \/ m = x.payload * Bits /\ OctetAbove(x, f) % 2 = 1
    /\ \A s \in Shifts, e \in Shifts, f \in Fill :
         s <= e => Value(bit_field(x, s, e, f)) = (Value(x) % (2 ** e)) \div (2 ** s)

=============================================================================
