---------------------------- MODULE SlangMessage ----------------------------
(***************************************************************************)
(* Slang datagrams (peer/slang.cpp): how slang_do_cast makes one of a      *)
(* payload, and which of those that arrive GhostDaemon::on_message gives   *)
(* to the local peers.  A byte has Base values, an unsigned short Base^2.  *)
(* A behaviour is that of one datagram: a message leaves nothing to the    *)
(* next.  What the daemon does with its peers is in SlangDaemon.            *)
(***************************************************************************)
EXTENDS AsnDer

CONSTANTS
  Magic,          \* slang_message_magic, two bytes
  Types, Transactions, Ports,   \* bounds on the fields; port 0 is none
  Payloads,       \* bound on the payloads: the fields of their sequences
  Damages,        \* bound on what a byte is damaged to
  Foreign,        \* bound on the datagrams of other programs
  Memories,       \* bound on what follows a datagram in memory
  NoMessage

Short == 0 .. Base * Base - 1

ASSUME MagicAssumption == Magic \in Seq(Octet) /\ Len(Magic) = 2
ASSUME FieldsAssumption ==
  Types \subseteq Octet /\ Damages \subseteq Octet /\ Transactions \subseteq Short /\ Ports \subseteq Short
ASSUME ForeignAssumption == Foreign \subseteq Seq(Octet)

\* A payload has room for its lengths; behind a datagram there is memory for
\* more than a header and the longest length.
ASSUME PayloadsAssumption ==
  Payloads \subseteq Seq(Fixnum)
  /\ \A fields \in Payloads : Len(ufixnum_octets[sequence_span(fields)]) < Sign
ASSUME MemoriesAssumption == \A memory \in Memories : memory \in Seq(Octet) /\ Len(memory) >= Base + 10

VARIABLES
  stage,        \* "idle", "under way" while the datagram is, and "over"
  datagram,
  sent,         \* the message it was made of, NoMessage if it is foreign
  checksumed,
  damaged,
  applied       \* what the local peers were given of it, NoMessage if nothing

messageVars == <<stage, datagram, sent, checksumed, damaged, applied>>

bigendian_uint16(n) == <<n \div Base, n % Base>>
bigendian_uint16_ref(message, idx) == message[idx + 1] * Base + message[idx + 2]

(***************************************************************************)
(* checksum/ipv4.cpp.  Two unsigned shorts accumulate the bytes at even    *)
(* and at odd offsets, modulo Base^2; the carries are added at the end.    *)
(***************************************************************************)
carry[HL \in Short \X Short] ==
  IF HL[1] < Base /\ HL[2] < Base THEN HL
  ELSE carry[<<(HL[1] % Base) + (HL[2] \div Base), (HL[2] % Base) + (HL[1] \div Base)>>]

\* n and those of the first i bytes whose index (from 1) is odd, or even.
every_second(message, parity, n) ==
  LET sum[i \in 0 .. Len(message)] ==
        IF i = 0 THEN n ELSE sum[i - 1] + IF i % 2 = parity THEN message[i] ELSE 0
  IN  sum

negated(sum) == Base * Base - 1 - sum

update_sum(sum, message) ==
  LET H == every_second(message, 1, sum \div Base)[Len(message)] % (Base * Base)
      L == every_second(message, 0, sum % Base)[Len(message)] % (Base * Base)
      HL == carry[<<H, L>>]
  IN  negated(HL[1] * Base + HL[2])

checksum_ipv4(acc, message) == update_sum(negated(acc), message)

(***************************************************************************)
(* Sending.                                                                *)
(***************************************************************************)
Messages == [type : Types, transaction : Transactions, port : Ports, fields : Payloads]

payload(m) == sequence_into_octets(m.fields)

version(m) == IF m.port = 0 THEN 0 ELSE 1

header(m, checksum) ==
  Magic \o <<version(m), m.type>> \o bigendian_uint16(checksum)
    \o (IF m.port = 0 THEN <<>> ELSE bigendian_uint16(m.transaction) \o bigendian_uint16(m.port))

\* A bug: a checksum that happens to be 0 is sent as it is.
checksum_of_zero(m) == checksum_ipv4(checksum_ipv4(0, header(m, 0)), payload(m))

\* 0 says that there is no checksum; as a checksum it is sent as its equal.
checksum_of(m) ==
  LET sum == checksum_ipv4(checksum_ipv4(0, header(m, 0)), payload(m))
  IN  IF sum = 0 THEN Base * Base - 1 ELSE sum

slang_do_cast(m, checked) ==
  /\ stage = "idle"
  /\ stage' = "under way"
  /\ datagram' = header(m, IF checked THEN checksum_of(m) ELSE 0) \o payload(m)
  /\ sent' = m /\ checksumed' = checked /\ damaged' = FALSE
  /\ applied' = NoMessage

(***************************************************************************)
(* The network: a byte is damaged, or the end is cut off ("discard         *)
(* truncated slang message", slang.cpp:224); other programs use the port.  *)
(***************************************************************************)
Damage(i, b) ==
  /\ stage = "under way" /\ sent # NoMessage /\ ~damaged
  /\ b # datagram[i]
  /\ datagram' = [datagram EXCEPT ![i] = b]
  /\ damaged' = TRUE
  /\ UNCHANGED <<stage, sent, checksumed, applied>>

Truncate(n) ==
  /\ stage = "under way" /\ sent # NoMessage /\ ~damaged
  /\ n < Len(datagram)
  /\ datagram' = SubSeq(datagram, 1, n)
  /\ damaged' = TRUE
  /\ UNCHANGED <<stage, sent, checksumed, applied>>

ForeignCast(d) ==
  /\ stage = "idle"
  /\ stage' = "under way"
  /\ datagram' = d
  /\ sent' = NoMessage /\ checksumed' = FALSE /\ damaged' = FALSE
  /\ applied' = NoMessage

(***************************************************************************)
(* Receiving.  m is the datagram d and the memory that follows it: nothing *)
(* but the last check of dispatch_message looks at the size.               *)
(***************************************************************************)

Accepted(d, m) == Len(d) > 6 \/ SubSeq(m, 1, 2) = Magic

Verified(d, m) == bigendian_uint16_ref(m, 4) = 0 \/ checksum_ipv4(0, d) = 0

\* A bug: a payload may end beyond the datagram.
dispatch_message_beyond(d, m) ==
  LET extended == m[3] = 1
      cursor == IF extended THEN 10 ELSE 6
      end == asn_octets_unbox(m, cursor)[2]
  IN  IF end >= Len(d)
      THEN [type |-> m[4],
            port |-> IF extended THEN bigendian_uint16_ref(m, 8) ELSE 0,
            payload |-> SubSeq(m, cursor + 1, end)]
      ELSE NoMessage

\* A bug: the fields of version 1 are not skipped.
dispatch_message_unversioned(d, m) ==
  LET end == asn_octets_unbox(m, 6)[2]
  IN  IF end = Len(d)
      THEN [type |-> m[4], port |-> 0, payload |-> SubSeq(d, 7, end)]
      ELSE NoMessage

\* A payload that does not end with the datagram is discarded.  The port is the
\* response port, 0 without the fields of version 1.  The transaction is read
\* and logged, but ISlangDaemon::on_message does not hand it to the peers.
dispatch_message(d, m) ==
  LET extended == m[3] = 1
      cursor == IF extended THEN 10 ELSE 6
      end == asn_octets_unbox(m, cursor)[2]
  IN  IF end = Len(d)
      THEN [type |-> m[4],
            port |-> IF extended THEN bigendian_uint16_ref(m, 8) ELSE 0,
            payload |-> SubSeq(d, cursor + 1, end)]
      ELSE NoMessage

Outcome(d, m) == IF Accepted(d, m) /\ Verified(d, m) THEN dispatch_message(d, m) ELSE NoMessage

on_message(memory) ==
  /\ stage = "under way"
  /\ stage' = "over"
  /\ applied' = Outcome(datagram, datagram \o memory)
  /\ UNCHANGED <<datagram, sent, checksumed, damaged>>

MessageInit ==
  /\ stage = "idle"
  /\ datagram = <<>>
  /\ sent = NoMessage /\ checksumed = FALSE /\ damaged = FALSE
  /\ applied = NoMessage

MessageNext ==
  \/ \E m \in Messages, checked \in BOOLEAN : slang_do_cast(m, checked)
  \/ \E i \in DOMAIN datagram, b \in Damages : Damage(i, b)
  \/ \E n \in 0 .. Len(datagram) : Truncate(n)
  \/ \E d \in Foreign : ForeignCast(d)
  \/ \E memory \in Memories : on_message(memory)

MessageSpec == MessageInit /\ [][MessageNext]_messageVars

-----------------------------------------------------------------------------
\* Types of the variables.
MessageTypeOK ==
  /\ stage \in {"idle", "under way", "over"}
  /\ datagram \in Seq(Octet)
  /\ sent \in Messages \cup {NoMessage}
  /\ checksumed \in BOOLEAN /\ damaged \in BOOLEAN
  /\ applied \in [type : Octet, port : Short, payload : Seq(Octet)] \cup {NoMessage}

\* What a peer is to be given of a message.
Expected(m) == [type |-> m.type, port |-> m.port, payload |-> payload(m)]

Answered == stage = "over" /\ sent # NoMessage

\* The peers are given type, port and payload as they were cast, whichever
\* version the message has and whatever its checksum comes to ("checksum of
\* entire message [algorithm is the same as that used in IP/UDP/TCP]",
\* slang.cpp:35).
CastIsApplied == Answered /\ ~damaged => applied = Expected(sent)

\* How many numbers k octets have room for.
room[k \in Nat] == IF k = 0 THEN 1 ELSE Base * room[k - 1]

\* What n is when its octets are read: negative numbers in the lower half of
\* those that their octets have room for lose their sign, because they are
\* shifted until they are -1, whatever the highest octet shows (base.cpp:36-40).
Returned(n) ==
  LET count == room[asn_fixnum_span(n)]
  IN  IF n < 0 /\ 2 * (n + count) < count THEN n + count ELSE n

\* The fields that a peer extracts from the payload are those that were cast,
\* but for the negative ones that lose their sign.
FieldsReturn ==
  Answered /\ ~damaged /\ applied # NoMessage =>
    sequence_from_octets(applied.payload, 0, Len(sent.fields))
      = <<[i \in 1 .. Len(sent.fields) |-> Returned(sent.fields[i])], Len(applied.payload)>>

\* The octets of a payload have the size for which slang_bytes has allocated
\* memory ("asn_xxx_into_octets does not check the boundary, please ensure
\* that the octets is sufficient", der/base.hpp:29): the spans are computed by
\* code of their own.
SpanSuffices == sent # NoMessage => Len(payload(sent)) = asn_span(sequence_span(sent.fields))

\* A checksum catches every damaged byte and every truncated message: even
\* when what is damaged says whether there is a checksum, how long the payload
\* is, or which version, and so which fields, the message has.
DamageIsNoticed == Answered /\ damaged /\ checksumed => applied \in {NoMessage, Expected(sent)}

\* Checksum or not, the size of the datagram is looked at only when the
\* payload has been unboxed: what is in the memory behind it has no influence
\* on what the peers are given.
NothingBeyond ==
  stage = "over" => \A memory \in Memories : Outcome(datagram, datagram \o memory) = applied

=============================================================================
