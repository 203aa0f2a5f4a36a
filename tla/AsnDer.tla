------------------------------- MODULE AsnDer -------------------------------
(***************************************************************************)
(* The ASN.1 DER octets of lengths, of fixnums (long long) and of          *)
(* sequences of them (asn/der/base.cpp, asn/der/sequence.cpp).  An octet   *)
(* has Base values: the code is the case Base = 256.                       *)
(***************************************************************************)
EXTENDS Integers, Sequences

CONSTANT Base

ASSUME OctetAssumption == Base \in Nat /\ Base >= 4 /\ Base % 2 = 0

Octet == 0 .. Base - 1
Sign == Base \div 2       \* the highest bit, 0b10000000

\* fill_ufixnum_octets, from the last octet to the first: at least one.
ufixnum_octets[n \in Nat] ==
  IF n < Base THEN <<n>> ELSE Append(ufixnum_octets[n \div Base], n % Base)

(***************************************************************************)
(* Lengths.                                                                *)
(***************************************************************************)
fill_length_octets(length) ==
  IF length <= Sign - 1 THEN <<length>>
  ELSE <<Sign + Len(ufixnum_octets[length])>> \o ufixnum_octets[length]

\* A bug: the octet that has the number of the others is not counted.
asn_length_span_uncounted(length) ==
  IF length <= Sign - 1 THEN 1 ELSE Len(ufixnum_octets[length])

asn_length_span(length) ==
  IF length <= Sign - 1 THEN 1 ELSE 1 + Len(ufixnum_octets[length])

\* fill_integer_from_bytes: the number after each of the octets.
integer_after(start, octets) ==
  LET n[i \in 0 .. Len(octets)] == IF i = 0 THEN start ELSE n[i - 1] * Base + octets[i]
  IN  n

\* The code has it in a size_t, which has room for 8 octets.
natural_of(octets) == integer_after(0, octets)[Len(octets)]

\* The length that starts at an offset (from 0), and the offset of what
\* follows it.
asn_octets_to_length(octets, offset) ==
  LET length == octets[offset + 1]
      size == length - Sign
  IN  IF length > Sign
      THEN <<natural_of(SubSeq(octets, offset + 2, offset + 1 + size)), offset + size + 1>>
      ELSE <<length, offset + 1>>

\* The size of the content of the value at an offset, and the offset of what
\* follows the value.
asn_octets_unbox(octets, offset) ==
  LET content == asn_octets_to_length(octets, offset + 1)
  IN  <<content[1], content[2] + content[1]>>

(***************************************************************************)
(* Fixnums.                                                                *)
(***************************************************************************)
Negative == {n \in Int : n < 0}

\* The octets of n < 0: n is shifted until it is -1.
negative_octets[n \in Negative] ==
  IF n \div Base >= -1 THEN <<n % Base>> ELSE Append(negative_octets[n \div Base], n % Base)

fill_fixnum_octets(n) ==
  IF n < 0 THEN negative_octets[n]
  ELSE LET octets == ufixnum_octets[n]
       IN  IF octets[1] >= Sign THEN <<0>> \o octets ELSE octets

natural_span[n \in Nat] ==
  IF n > Base - 1 THEN 1 + natural_span[n \div Base]
  ELSE IF n >= Sign THEN 2 ELSE 1

negative_span[n \in Negative] == 1 + IF n \div Base < -1 THEN negative_span[n \div Base] ELSE 0

asn_fixnum_span(n) == IF n < 0 THEN negative_span[n] ELSE natural_span[n]

\* A bug: the sign is not looked at.
fixnum_of_unsigned(octets) == natural_of(octets)

\* fill_integer_from_bytes with check_sign, of a value that has octets.
fixnum_of(octets) ==
  integer_after(IF octets[1] >= Sign THEN -1 ELSE 0, octets)[Len(octets)]

\* The numbers whose octets are counted in the short form.
Fixnum == {n \in Int : asn_fixnum_span(n) < Sign}

Integer == 2               \* ASNPrimitive::Integer
Sequence == Base - 1       \* any identifier: none is looked at

asn_fixnum_to_octets(n) ==
  <<Integer, Len(fill_fixnum_octets(n))>> \o fill_fixnum_octets(n)

\* The fixnum at an offset, and the offset of what follows it.
asn_octets_to_fixnum(octets, offset) ==
  LET unboxed == asn_octets_unbox(octets, offset)
  IN  <<fixnum_of(SubSeq(octets, unboxed[2] - unboxed[1] + 1, unboxed[2])), unboxed[2]>>

(***************************************************************************)
(* Sequences of fixnums.  The length of a sequence is computed from the    *)
(* spans of its fields before a field is filled.                           *)
(***************************************************************************)
asn_span(payload_span) == 1 + asn_length_span(payload_span) + payload_span

\* The span of the first i fields, and their octets.
fields_span(fields) ==
  LET span[i \in 0 .. Len(fields)] ==
        IF i = 0 THEN 0 ELSE span[i - 1] + asn_span(asn_fixnum_span(fields[i]))
  IN  span

fields_octets(fields) ==
  LET octets[i \in 0 .. Len(fields)] ==
        IF i = 0 THEN <<>> ELSE octets[i - 1] \o asn_fixnum_to_octets(fields[i])
  IN  octets

sequence_span(fields) == fields_span(fields)[Len(fields)]

sequence_into_octets(fields) ==
  <<Sequence>> \o fill_length_octets(sequence_span(fields)) \o fields_octets(fields)[Len(fields)]

\* The fields of the first values of the sequence at an offset, and the offset
\* of what follows them.
fields_from(octets, offset, count) ==
  LET unboxed == asn_octets_unbox(octets, offset)
      fields[i \in 0 .. count] ==
        IF i = 0 THEN <<<<>>, unboxed[2] - unboxed[1]>>
        ELSE LET field == asn_octets_to_fixnum(octets, fields[i - 1][2])
             IN  <<Append(fields[i - 1][1], field[1]), field[2]>>
  IN  fields

sequence_from_octets(octets, offset, count) == fields_from(octets, offset, count)[count]

=============================================================================
