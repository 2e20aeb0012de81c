-------------------------- MODULE HasAddressProofs --------------------------
(***************************************************************************)
(* Proofs about the has_address loop (HasAddress), for every address width *)
(* and every prefix length.  The inductive invariant is LoopInvariant      *)
(* itself: its loop clause (prefix_len = m_prefix_length - 8*i and the     *)
(* first i bytes equal) is what the return steps need to conclude that the *)
(* value returned is the byte-wise agreement ByteWise.                     *)
(***************************************************************************)
EXTENDS HasAddress, TLAPS

USE NBytesAssumption, ByteValsAssumption, PrefixesAssumption

(* Every step of the loop keeps its variables in their types.              *)
LEMMA TypeStep == TypeOK /\ [Next]_vars => TypeOK'
  <2> SUFFICES ASSUME TypeOK, [Next]_vars PROVE TypeOK'
    OBVIOUS
  <2>0. UNCHANGED <<network_bytes, addr_bytes, m_prefix_length>>
    BY DEF Next, vars, CompareFullByte, CompareMaskedByte, EndOfBytes
  <2>1. CASE CompareFullByte
    <3>1. i' \in 0 .. NBytes /\ prefix_len' \in Nat
      BY <2>1 DEF CompareFullByte, Return, TypeOK
    <3>2. pc' \in {"loop", "done"} /\ ret' \in BOOLEAN
      BY <2>1 DEF CompareFullByte, Return, TypeOK
    <3> QED BY <2>0, <3>1, <3>2 DEF TypeOK
  <2>2. CASE CompareMaskedByte
    BY <2>0, <2>2 DEF CompareMaskedByte, Return, TypeOK
  <2>3. CASE EndOfBytes
    BY <2>0, <2>3 DEF EndOfBytes, Return, TypeOK
  <2>4. CASE UNCHANGED vars
    BY <2>4 DEF vars, TypeOK
  <2> QED BY <2>1, <2>2, <2>3, <2>4 DEF Next

(* The call starts with its variables in their types.                      *)
LEMMA TypeInit == Init => TypeOK
  <2> SUFFICES ASSUME Init PROVE TypeOK
    OBVIOUS
  <2>1. m_prefix_length \in Nat /\ prefix_len \in Nat
    BY DEF Init
  <2>2. i \in 0 .. NBytes
    BY DEF Init
  <2> QED BY <2>1, <2>2 DEF Init, TypeOK

(* The loop keeps its variables in their types.                            *)
THEOREM TypeCorrect == Spec => []TypeOK
BY TypeInit, TypeStep, PTL DEF Spec

(* Whatever the address width and the prefix length, when has_address      *)
(* returns (by the mismatch return at line 99, the masked compare and      *)
(* break at 105-110 or the end of the loop at 114) its result is the       *)
(* byte-wise agreement of the network and the address.                     *)
THEOREM LoopCorrect == Spec => []LoopInvariant
<1>1. Init => LoopInvariant
  BY TypeInit DEF Init, LoopInvariant
<1>2. LoopInvariant /\ [Next]_vars => LoopInvariant'
  <2> SUFFICES ASSUME LoopInvariant, [Next]_vars PROVE LoopInvariant'
    OBVIOUS
  <2> USE DEF LoopInvariant
  <2>0. TypeOK'
    BY TypeStep
  <2>6. ByteWise' <=> ByteWise
    <3>1. UNCHANGED <<network_bytes, addr_bytes, m_prefix_length>>
      BY DEF Next, vars, CompareFullByte, CompareMaskedByte, EndOfBytes
    <3> QED BY <3>1 DEF ByteWise, ByteAgrees
  <2>1. CASE CompareFullByte /\ network_bytes[i] # addr_bytes[i]
    <3>1. ~ByteAgrees(i)
      BY <2>1 DEF CompareFullByte, ByteAgrees, TypeOK
    <3>2. ~ByteWise
      BY <3>1, <2>1 DEF ByteWise, CompareFullByte, TypeOK
    <3>3. pc' = "done" /\ ret' = FALSE
      BY <2>1 DEF CompareFullByte, Return
    <3> QED BY <3>2, <3>3, <2>0, <2>6
  <2>2. CASE CompareFullByte /\ network_bytes[i] = addr_bytes[i]
    BY <2>0, <2>2 DEF CompareFullByte, TypeOK
  <2>3. CASE CompareMaskedByte
    <3> DEFINE same == Masked(network_bytes[i], prefix_len) = Masked(addr_bytes[i], prefix_len)
    <3>1. \A j \in 0 .. i - 1 : ByteAgrees(j)
      BY <2>3 DEF CompareMaskedByte, ByteAgrees, TypeOK
    <3>2. \A j \in i + 1 .. NBytes - 1 : ByteAgrees(j)
      BY <2>3 DEF CompareMaskedByte, ByteAgrees, TypeOK
    <3>3. ByteAgrees(i) <=> same
      BY <2>3 DEF CompareMaskedByte, ByteAgrees, TypeOK, same
    <3>4. ByteWise <=> same
      BY <3>1, <3>2, <3>3, <2>3 DEF ByteWise, CompareMaskedByte, TypeOK
    <3>5. pc' = "done" /\ (ret' <=> same)
      BY <2>3 DEF CompareMaskedByte, Return, same
    <3> QED BY <3>4, <3>5, <2>0, <2>6
  <2>4. CASE EndOfBytes
    <3>1. ByteWise
      BY <2>4 DEF EndOfBytes, ByteWise, ByteAgrees, TypeOK
    <3>2. pc' = "done" /\ ret' = TRUE
      BY <2>4 DEF EndOfBytes, Return
    <3> QED BY <3>1, <3>2, <2>0, <2>6
  <2>5. CASE UNCHANGED vars
    BY <2>5 DEF vars, TypeOK, ByteWise, ByteAgrees
  <2> QED BY <2>1, <2>2, <2>3, <2>4, <2>5 DEF Next
<1> QED BY <1>1, <1>2, PTL DEF Spec
=============================================================================
