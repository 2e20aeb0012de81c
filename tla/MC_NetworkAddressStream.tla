---------------------- MODULE MC_NetworkAddressStream ----------------------
(* Every text of up to four tokens over one address of each family, one   *)
(* address no family accepts, '/', a prefix length, a digit run that      *)
(* overflows unsigned int and one other character.  Address texts and     *)
(* digit runs are never adjacent: their characters would run together     *)
(* into one run, which the alphabet already covers.                       *)
EXTENDS NetworkAddressStream, SequencesExt

Alphabet == {AddrTok("v4", 1), AddrTok("v6", 1), BadAddrTok, SlashTok,
             NumTok(8), BigNumTok, JunkTok}

Glued == {"addr", "badaddr", "num", "bignum"}

Writable(s) ==
  \A k \in 1 .. Len(s) - 1 : ~(s[k].kind \in Glued /\ s[k + 1].kind \in Glued)

MCInputs == {s \in BoundedSeq(Alphabet, 4) : Writable(s)}
=============================================================================
