------------------------------ MODULE MC_AddressList ------------------------------
(* One-byte IPv4 and two-byte IPv6 addresses; two networks of each family, *)
(* one of them with a prefix that ends inside a byte, and probes inside    *)
(* and just outside each; every list of up to three of the networks.       *)
EXTENDS AddressList, SequencesExt

MCWidth == [f \in Families |-> IF f = "v4" THEN 1 ELSE 2]

B1(x) == [k \in 0 .. 0 |-> x]
B2(x, y) == [k \in 0 .. 1 |-> IF k = 0 THEN x ELSE y]

MCNetworks ==
  { [fam |-> "v4", bytes |-> B1(128), plen |-> 1],
    [fam |-> "v4", bytes |-> B1(0), plen |-> 8],
    [fam |-> "v6", bytes |-> B2(0, 0), plen |-> 0],
    [fam |-> "v6", bytes |-> B2(1, 0), plen |-> 12] }

MCLists == BoundedSeq(MCNetworks, 3)

MCProbes ==
  { [fam |-> "v4", bytes |-> B1(b)] : b \in {0, 5, 200} } \cup
  { [fam |-> "v6", bytes |-> B2(1, b)] : b \in {15, 16} } \cup
  { [fam |-> "v6", bytes |-> B2(0, 0)] }
=============================================================================
