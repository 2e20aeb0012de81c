----------------------------- MODULE HasAddress -----------------------------
(***************************************************************************)
(* base_ip_network_address<AddressType>::has_address                       *)
(* (src/ip_network_address.cpp 86-115), one loop iteration per step.       *)
(*                                                                         *)
(* The loop walks the two big-endian byte arrays with a counter prefix_len *)
(* that starts at m_prefix_length.  While at least 8 prefix bits remain a  *)
(* byte must match exactly (else return false) and the counter drops by 8; *)
(* the first byte with fewer than 8 remaining bits is compared under the   *)
(* mask (0xFF >> prefix_len) ^ 0xFF and the loop breaks; running out of    *)
(* bytes returns true.  The two addresses and the prefix length are the    *)
(* call's inputs, chosen in Init; the loop must compute                    *)
(* HasAddressContract!Contains of them.                                    *)
(***************************************************************************)
EXTENDS Naturals

CONSTANTS
  NBytes,     \* AddressType::bytes_type size: 4 for address_v4, 16 for v6
  ByteVals,   \* the byte values the model draws address bytes from
  Prefixes    \* the values of m_prefix_length the model tries

ASSUME NBytesAssumption == NBytes \in Nat \ {0}
ASSUME ByteValsAssumption == ByteVals \subseteq 0 .. 255
ASSUME PrefixesAssumption == Prefixes \subseteq Nat

VARIABLES
  network_bytes,    \* address().to_bytes()
  addr_bytes,       \* addr.to_bytes()
  m_prefix_length,  \* the network's prefix length
  prefix_len,       \* the loop's count of prefix bits still to compare
  i,                \* the loop index
  pc,               \* "loop" inside the for loop, "done" once returned
  ret               \* the return value, once pc = "done"

vars == <<network_bytes, addr_bytes, m_prefix_length, prefix_len, i, pc, ret>>

Bytes == [0 .. NBytes - 1 -> ByteVals]

(* x & y on non-negative integers, bit by bit from the least significant.  *)
BitAnd[x \in Nat, y \in Nat] ==
  IF x = 0 \/ y = 0 THEN 0
  ELSE 2 * BitAnd[x \div 2, y \div 2] + (x % 2) * (y % 2)

(* Mutant: the mask without its xor, 0xFF >> prefix_len, which keeps the   *)
(* bits after the prefix instead of those in it.                           *)
MaskNoXor(plen) == 255 \div 2 ^ plen

(* (0xFF >> prefix_len) ^ 0xFF, line 105: the shifted byte has its top     *)
(* prefix_len bits clear and the rest set, so the xor with 0xFF is 255     *)
(* minus it.                                                               *)
Mask(plen) == 255 - (255 \div 2 ^ plen)

(* A byte under the mask, as compared at line 107.                         *)
Masked(b, plen) == BitAnd[b, Mask(plen)]

Init ==
  /\ network_bytes \in Bytes
  /\ addr_bytes \in Bytes
  /\ m_prefix_length \in Prefixes
  /\ prefix_len = m_prefix_length
  /\ i = 0
  /\ pc = "loop"
  /\ ret = FALSE

Return(b) ==
  /\ pc' = "done"
  /\ ret' = b
  /\ UNCHANGED <<prefix_len, i>>

(* Mutant: the whole-byte branch taken from 7 bits on (prefix_len > 6).    *)
CompareFullByteFrom7 ==
  /\ pc = "loop"
  /\ i < NBytes
  /\ prefix_len >= 7
  /\ \/ /\ network_bytes[i] # addr_bytes[i]
        /\ Return(FALSE)
     \/ /\ network_bytes[i] = addr_bytes[i]
        /\ prefix_len' = prefix_len - 8
        /\ i' = i + 1
        /\ UNCHANGED <<pc, ret>>
  /\ UNCHANGED <<network_bytes, addr_bytes, m_prefix_length>>

(* Mutant: the counter is not decremented after a matching byte.           *)
CompareFullByteNoDecrement ==
  /\ pc = "loop"
  /\ i < NBytes
  /\ prefix_len >= 8
  /\ \/ /\ network_bytes[i] # addr_bytes[i]
        /\ Return(FALSE)
     \/ /\ network_bytes[i] = addr_bytes[i]
        /\ i' = i + 1
        /\ UNCHANGED <<pc, ret, prefix_len>>
  /\ UNCHANGED <<network_bytes, addr_bytes, m_prefix_length>>

(* Lines 96-101: prefix_len >= 8, the bytes must be equal.                 *)
CompareFullByte ==
  /\ pc = "loop"
  /\ i < NBytes
  /\ prefix_len >= 8
  /\ \/ /\ network_bytes[i] # addr_bytes[i]
        /\ Return(FALSE)
     \/ /\ network_bytes[i] = addr_bytes[i]
        /\ prefix_len' = prefix_len - 8
        /\ i' = i + 1
        /\ UNCHANGED <<pc, ret>>
  /\ UNCHANGED <<network_bytes, addr_bytes, m_prefix_length>>

(* Lines 103-110: fewer than 8 bits remain: compare under the mask, then   *)
(* return false on a difference or break out to return true.               *)
CompareMaskedByte ==
  /\ pc = "loop"
  /\ i < NBytes
  /\ prefix_len < 8
  /\ Return(Masked(network_bytes[i], prefix_len) = Masked(addr_bytes[i], prefix_len))
  /\ UNCHANGED <<network_bytes, addr_bytes, m_prefix_length>>

(* Line 114: every byte matched in full.                                   *)
EndOfBytes ==
  /\ pc = "loop"
  /\ i = NBytes
  /\ Return(TRUE)
  /\ UNCHANGED <<network_bytes, addr_bytes, m_prefix_length>>

Next == CompareFullByte \/ CompareMaskedByte \/ EndOfBytes

Spec == Init /\ [][Next]_vars

-----------------------------------------------------------------------------
(* Type invariant.                                                         *)
TypeOK ==
  /\ network_bytes \in Bytes
  /\ addr_bytes \in Bytes
  /\ m_prefix_length \in Nat
  /\ prefix_len \in Nat
  /\ i \in 0 .. NBytes
  /\ pc \in {"loop", "done"}
  /\ ret \in BOOLEAN

(* Byte j agrees with the network at the prefix bits it carries: all 8 of  *)
(* them when the prefix reaches past it, the top r under the code's mask   *)
(* when r = m_prefix_length - 8*j is in 0..7, none when the prefix ends    *)
(* before it.                                                              *)
ByteAgrees(j) ==
  LET r == m_prefix_length - 8 * j
  IN  /\ r >= 8 => network_bytes[j] = addr_bytes[j]
      /\ 0 <= r /\ r < 8 =>
           Masked(network_bytes[j], r) = Masked(addr_bytes[j], r)

ByteWise == \A j \in 0 .. NBytes - 1 : ByteAgrees(j)

(* The loop invariant of has_address: while looping, prefix_len counts the *)
(* bits left after i whole bytes, all of which matched; once returned, the *)
(* result is the byte-wise agreement of the two addresses.  It ties the    *)
(* early return at line 99, the decrement at 101 and the break at 110 to   *)
(* the bytes they skip.                                                    *)
LoopInvariant ==
  /\ TypeOK
  /\ pc = "loop" => /\ prefix_len = m_prefix_length - 8 * i
                    /\ \A j \in 0 .. i - 1 : network_bytes[j] = addr_bytes[j]
  /\ pc = "done" => (ret <=> ByteWise)

Contract == INSTANCE HasAddressContract
  WITH network <- network_bytes, addr <- addr_bytes,
       prefix_length <- m_prefix_length,
       returned <- pc = "done", result <- ret

(* The loop implements the atomic contract: has_address returns true      *)
(* exactly when the first m_prefix_length bits of the two addresses agree, *)
(* excess prefix bits asking for an exact match; every other step of the   *)
(* loop is a stutter of the contract.                                      *)
ContractRefinement == Contract!CSpec
=============================================================================
