----------------------------- MODULE AddressList -----------------------------
(***************************************************************************)
(* The containment test of an ip_network_address and the search of a list  *)
(* of them (include/freelan/ip_network_address.hpp 249-328).               *)
(*                                                                         *)
(* ip_network_address_has_address_visitor checks the probe's family before *)
(* it converts the probe to that family (m_addr.is_v4() &&                 *)
(* ina.has_address(m_addr.to_v4())), so the conversion, which would throw  *)
(* std::bad_cast for the other family, only runs on a probe of the         *)
(* network's family.                                                       *)
(* has_address(begin, end, addr) walks the list in order and returns true *)
(* at the first element that contains addr, false at the end.  A network's *)
(* own has_address is taken as its contract, PrefixMatch (HasAddress shows *)
(* the loop implements it).                                                *)
(***************************************************************************)
EXTENDS Naturals, Sequences, PrefixBits

CONSTANTS
  Width,      \* bytes of an address of each family: address_v4 4, address_v6 16
  Lists,      \* the lists of networks a caller may search
  Probes      \* the addresses it may look for

Families == {"v4", "v6"}

ASSUME WidthAssumption == Width \in [Families -> Nat \ {0}]

(* Addresses and networks of a family: big-endian bytes, and a prefix.     *)
Address(f) == [fam : {f}, bytes : [0 .. Width[f] - 1 -> 0 .. 255]]
Network(f) == [fam : {f}, bytes : [0 .. Width[f] - 1 -> 0 .. 255], plen : Nat]
Networks == Network("v4") \cup Network("v6")

ASSUME ListsAssumption == Lists \subseteq Seq(Networks)
ASSUME ProbesAssumption == Probes \subseteq Address("v4") \cup Address("v6")

VARIABLES
  list,    \* the elements from begin to end
  addr,    \* the address looked for
  it,      \* the iterator begin, as an index into list
  pc,      \* "loop", "done" once returned
  ret      \* the return value, once pc = "done"

vars == <<list, addr, it, pc, ret>>

(* base_ip_network_address::has_address, by its contract.                  *)
NetHasAddress(ina, a) == PrefixMatch(ina.bytes, a.bytes, ina.plen, Width[ina.fam])

(* Mutant: the family test dropped, the bytes compared across families.    *)
VisitorNoFamilyTest(ina, a) == NetHasAddress(ina, a)

(* ip_network_address_has_address_visitor::operator() (lines 267-280):     *)
(* the family test, then the network's test of the converted probe.        *)
VisitorHasAddress(ina, a) == a.fam = ina.fam /\ NetHasAddress(ina, a)

Init ==
  /\ list \in Lists
  /\ addr \in Probes
  /\ it = 1
  /\ pc = "loop"
  /\ ret = FALSE

(* Mutant: the iterator advanced twice past a non-matching element.        *)
VisitElementSkip ==
  /\ pc = "loop"
  /\ it <= Len(list)
  /\ \/ /\ VisitorHasAddress(list[it], addr)
        /\ pc' = "done"
        /\ ret' = TRUE
        /\ UNCHANGED it
     \/ /\ ~VisitorHasAddress(list[it], addr)
        /\ it' = it + 2
        /\ UNCHANGED <<pc, ret>>
  /\ UNCHANGED <<list, addr>>

(* Lines 321-324: has_address of the element at begin and addr applies    *)
(* the visitor (lines 305-309); true returns, false moves on.              *)
VisitElement ==
  /\ pc = "loop"
  /\ it <= Len(list)
  /\ \/ /\ VisitorHasAddress(list[it], addr)
        /\ pc' = "done"
        /\ ret' = TRUE
        /\ UNCHANGED it
     \/ /\ ~VisitorHasAddress(list[it], addr)
        /\ it' = it + 1
        /\ UNCHANGED <<pc, ret>>
  /\ UNCHANGED <<list, addr>>

(* Line 327: begin reached end.                                            *)
EndOfList ==
  /\ pc = "loop"
  /\ it = Len(list) + 1
  /\ pc' = "done"
  /\ ret' = FALSE
  /\ UNCHANGED <<list, addr, it>>

Next == VisitElement \/ EndOfList

Spec == Init /\ [][Next]_vars

-----------------------------------------------------------------------------
(* Type invariant.                                                         *)
TypeOK ==
  /\ list \in Lists
  /\ addr \in Probes
  /\ it \in 1 .. Len(list) + 1
  /\ pc \in {"loop", "done"}
  /\ ret \in BOOLEAN

(* The elements of the list that contain the probe: same family, and the   *)
(* probe's first plen bits equal the network's.                            *)
Holders == {k \in 1 .. Len(list) :
              list[k].fam = addr.fam /\ NetHasAddress(list[k], addr)}

(* When the search of a list returns, its answer is whether some element   *)
(* of the probe's family contains the probe, whatever the families mixed   *)
(* in the list (cross-family containment is false, spec.md 4.2), and it    *)
(* stopped at the first such element (spec.md 4.3).                       *)
SearchCorrect ==
  pc = "done" => /\ ret <=> Holders # {}
                 /\ ret => it \in Holders /\ \A m \in Holders : it <= m
=============================================================================
