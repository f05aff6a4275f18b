--------------------------- MODULE AddressPattern ---------------------------
(***************************************************************************)
(* AddressPattern of src/Address.cc: the network and the mask made of an   *)
(* argument ADDRESS[/BITS], and the addresses they match.                  *)
(*                                                                         *)
(* An address is a function from byte positions to bytes.  An IPv4 address *)
(* is stored with the bytes V4Prefix in front of its own.  The text of an  *)
(* argument is given by what inet_pton() and strtol() make of it: the      *)
(* version, the address, and the number after the slash or NoBits.         *)
(***************************************************************************)
EXTENDS Integers

CONSTANTS
  Bytes,      \* 16: bytes of an address
  V4Bytes,    \* 4: bytes of an IPv4 address
  NoBits      \* the argument has no slash

ASSUME BytesAssumption == Bytes \in Nat \ {0} /\ V4Bytes \in 1 .. Bytes

Position == 0 .. Bytes - 1
Byte == 0 .. 255
Address == [Position -> Byte]

Argument == [version : {4, 6}, address : Address, bits : Int \cup {NoBits}]

\* mutant of MaskByte: the comparison is off by one
MaskByteTooMany(maskBits, n) ==
  IF n <= maskBits \div 8 THEN 255 ELSE 0

MaskByte(maskBits, n) ==
  IF n < maskBits \div 8 THEN 255
  ELSE IF n = maskBits \div 8 THEN (255 * 2 ^ (8 - (maskBits % 8))) % 256
  ELSE 0

\* The number of bits asked for, if it is in range for the version.
BitsOK(arg) ==
  arg.bits = NoBits \/ arg.bits \in 0 .. 8 * (IF arg.version = 4 THEN V4Bytes ELSE Bytes)

MaskBits(arg) ==
  IF arg.bits = NoBits THEN 8 * Bytes
  ELSE IF arg.version = 4 THEN arg.bits + 8 * (Bytes - V4Bytes)
  ELSE arg.bits

\* assign(): the network is the address as it was written.
Pattern(arg) ==
  [network |-> arg.address,
   mask |-> [n \in Position |-> MaskByte(MaskBits(arg), n)]]

\* x & m, for a byte m that is ones and then zeros, as those of a mask are.
Masked(x, m) == x - (x % (256 - m))

Matches(p, a) == \A n \in Position : Masked(a[n], p.mask[n]) = p.network[n]
-----------------------------------------------------------------------------
(* What a network is: the addresses that agree with it in the first bits.  *)

\* Bit k of a, from 0 for the most significant one.
Bit(a, k) == (a[k \div 8] \div 2 ^ (7 - (k % 8))) % 2

InNetwork(a, arg) == \A k \in 0 .. MaskBits(arg) - 1 : Bit(a, k) = Bit(arg.address, k)

\* The argument names the network by its lowest address.
Canonical(arg) == \A k \in MaskBits(arg) .. 8 * Bytes - 1 : Bit(arg.address, k) = 0
=============================================================================
