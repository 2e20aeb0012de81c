------------------------- MODULE HasAddressContract -------------------------
(***************************************************************************)
(* What base_ip_network_address<AddressType>::has_address promises         *)
(* (include/freelan/ip_network_address.hpp 115-120): addr belongs to the   *)
(* network when the first prefix_length bits of addr equal those of the    *)
(* network address.  Prefix bits beyond the address width are ignored      *)
(* (spec.md 3, 4.1 step 6), so a prefix at least as long as the address    *)
(* asks for an exact match.  The call is one atomic step.                  *)
(***************************************************************************)
EXTENDS Naturals, PrefixBits

CONSTANTS
  NBytes,     \* AddressType::bytes_type size: 4 for address_v4, 16 for v6
  ByteVals,   \* the byte values the model draws address bytes from
  Prefixes    \* the values of m_prefix_length the model tries

VARIABLES
  network,        \* address().to_bytes()
  addr,           \* addr.to_bytes()
  prefix_length,  \* m_prefix_length
  returned,       \* has the call returned?
  result          \* its return value, once returned

cvars == <<network, addr, prefix_length, returned, result>>

Bytes == [0 .. NBytes - 1 -> ByteVals]

(* The network/prefix_length contains a, bit by bit.                       *)
Contains(n, a, plen) == PrefixMatch(n, a, plen, NBytes)

CInit ==
  /\ network \in Bytes
  /\ addr \in Bytes
  /\ prefix_length \in Prefixes
  /\ returned = FALSE
  /\ result = FALSE

Return ==
  /\ ~returned
  /\ returned' = TRUE
  /\ result' = Contains(network, addr, prefix_length)
  /\ UNCHANGED <<network, addr, prefix_length>>

CSpec == CInit /\ [][Return]_cvars
=============================================================================
