----------------------------- MODULE PrefixBits -----------------------------
(***************************************************************************)
(* The reference meaning of a network prefix, bit by bit: an address a     *)
(* belongs to the network n/plen when the first plen bits of their         *)
(* big-endian byte arrays (indexed from 0, w bytes) agree; prefix bits     *)
(* past the address width are ignored (spec.md 3, 4.1).                    *)
(***************************************************************************)
EXTENDS Naturals

(* Bit k of a big-endian byte array, bit 0 being the most significant.     *)
Bit(b, k) == (b[k \div 8] \div 2 ^ (7 - (k % 8))) % 2

PrefixMatch(n, a, plen, w) ==
  \A k \in 0 .. 8 * w - 1 : k < plen => Bit(n, k) = Bit(a, k)
=============================================================================
