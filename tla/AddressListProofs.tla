-------------------------- MODULE AddressListProofs --------------------------
(***************************************************************************)
(* The search of a list of ip_network_address (AddressList) is correct for *)
(* every list, every probe and every address width.  The inductive         *)
(* invariant adds to SearchCorrect that no element before the iterator     *)
(* contains the probe: the visitor returned false for each of them.        *)
(***************************************************************************)
EXTENDS AddressList, TLAPS

USE ListsAssumption

SearchInv ==
  /\ TypeOK
  /\ pc = "loop" => \A k \in 1 .. it - 1 : k \notin Holders
  /\ SearchCorrect

(* The visitor returns true for an element exactly when it is a holder.    *)
LEMMA VisitorIsHolder ==
  ASSUME TypeOK, NEW k \in 1 .. Len(list)
  PROVE  VisitorHasAddress(list[k], addr) <=> k \in Holders
  BY DEF VisitorHasAddress, Holders

LEMMA SearchInit == Init => SearchInv
  <1> SUFFICES ASSUME Init PROVE SearchInv
    OBVIOUS
  <1>1. list \in Seq(Networks)
    BY DEF Init
  <1>2. Len(list) \in Nat
    BY <1>1
  <1>3. it \in 1 .. Len(list) + 1
    BY <1>2 DEF Init
  <1>4. TypeOK
    BY <1>3 DEF Init, TypeOK
  <1> QED BY <1>4 DEF Init, SearchInv, SearchCorrect

LEMMA SearchStep == SearchInv /\ [Next]_vars => SearchInv'
  <1> SUFFICES ASSUME SearchInv, [Next]_vars PROVE SearchInv'
    OBVIOUS
  <1>0. list \in Seq(Networks) /\ Len(list) \in Nat /\ it \in 1 .. Len(list) + 1
    BY DEF SearchInv, TypeOK
  <1>1. CASE VisitElement /\ VisitorHasAddress(list[it], addr)
    <2>1. it \in Holders
      BY <1>0, <1>1, VisitorIsHolder DEF SearchInv, VisitElement
    <2>2. \A m \in Holders : it <= m
      BY <1>0, <1>1 DEF SearchInv, VisitElement, Holders
    <2>3. TypeOK'
      BY <1>0, <1>1 DEF SearchInv, VisitElement, TypeOK
    <2>4. Holders' = Holders
      BY <1>1 DEF VisitElement, Holders
    <2> QED BY <1>1, <2>1, <2>2, <2>3, <2>4 DEF SearchInv, VisitElement, SearchCorrect
  <1>2. CASE VisitElement /\ ~VisitorHasAddress(list[it], addr)
    <2>1. it \notin Holders
      BY <1>0, <1>1, <1>2, VisitorIsHolder DEF SearchInv, VisitElement
    <2>2. TypeOK'
      BY <1>0, <1>2 DEF SearchInv, VisitElement, TypeOK
    <2>3. Holders' = Holders
      BY <1>2 DEF VisitElement, Holders
    <2> QED BY <1>0, <1>2, <2>1, <2>2, <2>3 DEF SearchInv, VisitElement, SearchCorrect
  <1>3. CASE EndOfList
    <2>1. Holders = {}
      BY <1>0, <1>3 DEF SearchInv, EndOfList, Holders
    <2>2. TypeOK'
      BY <1>0, <1>3 DEF SearchInv, EndOfList, TypeOK
    <2>3. Holders' = Holders
      BY <1>3 DEF EndOfList, Holders
    <2> QED BY <1>3, <2>1, <2>2, <2>3 DEF SearchInv, EndOfList, SearchCorrect
  <1>4. CASE UNCHANGED vars
    BY <1>4 DEF vars, SearchInv, TypeOK, SearchCorrect, Holders
  <1> QED BY <1>1, <1>2, <1>3, <1>4 DEF Next, VisitElement

(* The search keeps the iterator within begin .. end.                      *)
THEOREM ListTypeCorrect == Spec => []TypeOK
  <1>1. Spec => []SearchInv
    BY SearchInit, SearchStep, PTL DEF Spec
  <1> QED BY <1>1, PTL DEF SearchInv

(* has_address(begin, end, addr) returns whether an element of the         *)
(* probe's family contains it, and stops at the first one.                 *)
THEOREM SearchCorrectness == Spec => []SearchCorrect
  <1>1. Spec => []SearchInv
    BY SearchInit, SearchStep, PTL DEF Spec
  <1> QED BY <1>1, PTL DEF SearchInv
=============================================================================
