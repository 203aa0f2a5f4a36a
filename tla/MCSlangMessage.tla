--------------------------- MODULE MCSlangMessage ---------------------------
(* An instance of SlangMessage small enough for TLC: bytes of four bits.   *)
EXTENDS SlangMessage

MCMagic == <<2, 7>>

\* Every boundary of one, two and three octets, and negative numbers on both
\* sides of those that keep their sign.
Edges == {0, 1, 7, 8, 15, 16, 127, 128, 255, 2047,
          -1, -8, -9, -16, -17, -128, -129, -256, -257, -2048, -2049}

\* Messages of at most Base words, which the accumulators have room for; the
\* checksums of some are 0, the lengths of some are in the long form.
ShortPayloads == {<<>>, <<15, 2047, 7>>, <<-257, 0, -16>>} \cup {<<n>> : n \in Edges \cup {170, 235, 251, 506}}

\* Datagrams of other programs, too short to be messages.
ShortForeign == {<<>>, <<1>>, <<2, 7>>, <<2, 7, 0, 1, 0, 0>>, <<1, 1, 0, 1, 0, 0>>}

\* One byte over and over, or what could be another message.
MCMemories == {[i \in 1 .. 40 |-> b] : b \in {0, 1, 15}} \cup {MCMagic \o [i \in 1 .. 40 |-> 0]}

\* Messages of more words: eleven fields of three octets make more than 30.
LongPayloads == {[i \in 1 .. 11 |-> n] : n \in {0, 255, 2047}}

=============================================================================
