--------------------------- MODULE MCNaturalNumber ---------------------------
(* An instance of NaturalNumber small enough for TLC: octets of two bits   *)
(* and fixnums of three octets.  Numbers of four octets and more are       *)
(* divided octet by octet, and with octets this small most of the long     *)
(* divisions estimate too much and add the divisor again.                  *)
EXTENDS NaturalNumber

MCTexts == {<<1>>, <<0, 2>>, <<1, 0, 0, 1>>, <<2, 1, 0, 0, 2>>, <<3, 0, 1, 3>>}

=============================================================================
