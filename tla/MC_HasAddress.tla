--------------------------- MODULE MC_HasAddress ---------------------------
(* has_address on two-byte addresses.  The byte values are 0, 255 and     *)
(* every single-bit byte, so for each prefix length there are pairs that  *)
(* differ just inside and just outside the prefix; prefix lengths cover   *)
(* every split point of both bytes and lengths past the address width.    *)
EXTENDS HasAddress

MCNBytes == 2
MCByteVals == {0, 255} \cup {2 ^ k : k \in 0 .. 7}
MCPrefixes == (0 .. 17) \cup {24, 32}
=============================================================================
