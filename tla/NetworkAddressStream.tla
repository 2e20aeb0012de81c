------------------------- MODULE NetworkAddressStream -------------------------
(***************************************************************************)
(* Reading network addresses from a std::istream                           *)
(* (src/ip_network_address.cpp 57-83, 120-132, 146-175).                   *)
(*                                                                         *)
(* The input is a sequence of tokens, each standing for a run of           *)
(* characters the readers treat as one unit: the text of an address of a   *)
(* family, address characters no family accepts, a '/', a run of decimal   *)
(* digits (one that fits an unsigned int, or one that does not), or any    *)
(* other character.  The stream is the count of tokens consumed and its    *)
(* eofbit and failbit.  A caller holds one variable and extracts into it   *)
(* with operator>> for ipv4_network_address, ipv6_network_address or the   *)
(* ip_network_address variant, or clears the stream's state.               *)
(*                                                                         *)
(* read_ip_address, read_prefix_length and putback (stream_operations.hpp) *)
(* are declared but not defined in src/; they are modelled from spec.md    *)
(* 4.1: a reader consumes its token or fails leaving the position where    *)
(* it was, setting eofbit when it peeks past the end; putback moves the    *)
(* position back and, as std::istream::putback, clears eofbit.             *)
(***************************************************************************)
EXTENDS Naturals, Sequences

CONSTANTS
  Inputs      \* the texts the caller's stream may hold

Families == {"v4", "v6"}

(* A token: its kind, the family of an address, the address or number.    *)
Tok(k, f, v) == [kind |-> k, fam |-> f, val |-> v]
AddrTok(f, a) == Tok("addr", f, a)
SlashTok == Tok("slash", "none", 0)
NumTok(n) == Tok("num", "none", n)
BigNumTok == Tok("bignum", "none", 0)
BadAddrTok == Tok("badaddr", "none", 0)
JunkTok == Tok("junk", "none", 0)
NoTok == Tok("empty", "none", 0)      \* a std::string left empty

(* Only an address text has a family, and only an address or a digit run  *)
(* that fits carries a value.                                              *)
Tokens == {t \in [kind : {"addr", "slash", "num", "bignum", "badaddr", "junk"},
                  fam : Families \cup {"none"}, val : Nat] :
             /\ t.kind = "addr" <=> t.fam \in Families
             /\ t.kind \notin {"addr", "num"} => t.val = 0}

ASSUME InputsAssumption == Inputs \subseteq Seq(Tokens)

VARIABLES
  input,   \* the characters of the stream
  pos,     \* how many tokens have been extracted
  eof,     \* eofbit
  fail,    \* failbit
  value,   \* the caller's variable extracted into
  result   \* what the caller saw of its last call: "ok", "fail", "throw"

vars == <<input, pos, eof, fail, value, result>>

(* A network address value: family, address, prefix length.               *)
Net(f, a, p) == [fam |-> f, addr |-> a, plen |-> p]
NoNet == Net("none", 0, 0)

(* operator<< (lines 137-141): address, "/", decimal prefix length.        *)
Format(v) == <<AddrTok(v.fam, v.addr), SlashTok, NumTok(v.plen)>>

Stream == [pos |-> pos, eof |-> eof, fail |-> fail]
Good(s) == ~s.eof /\ ~s.fail
NextIs(s, ks) == s.pos < Len(input) /\ input[s.pos + 1].kind \in ks

(* Consume one token; peeking for more past the end sets eofbit.           *)
Consume(s) == [pos |-> s.pos + 1, eof |-> s.pos + 1 = Len(input), fail |-> s.fail]
(* Fail without consuming; a peek at the end sets eofbit.                  *)
Reject(s) == [pos |-> s.pos, eof |-> s.eof \/ s.pos = Len(input), fail |-> TRUE]
SetFail(s) == [pos |-> s.pos, eof |-> s.eof, fail |-> TRUE]
Clear(s) == [pos |-> s.pos, eof |-> FALSE, fail |-> FALSE]
Putback(s, n) == [pos |-> s.pos - n, eof |-> FALSE, fail |-> s.fail]
(* Mutant: is.ignore() dropped (line 66): the '/' is left in the stream.  *)
IgnoreNone(s) == s
(* is.ignore() of the character peeked at.                                 *)
Ignore(s) == [pos |-> s.pos + 1, eof |-> s.eof, fail |-> s.fail]

(* read_ip_address<AddressType>: the text of an address of the family.    *)
ReadIpAddress(f, s) ==
  IF NextIs(s, {"addr"}) /\ input[s.pos + 1].fam = f THEN Consume(s) ELSE Reject(s)

(* read_prefix_length<AddressType>: a run of decimal digits.               *)
ReadPrefixLength(s) ==
  IF NextIs(s, {"num", "bignum"}) THEN Consume(s) ELSE Reject(s)

(* Mutant: line 70 puts back the address but not the '/'.                  *)
ReadIpAddressPrefixLengthNoSlash(f, s) ==
  LET s1 == ReadIpAddress(f, s)
      s2 == ReadPrefixLength(Ignore(s1))
      Out(st, ip, pl) == [st |-> st, ip |-> ip, plen |-> pl]
  IN  IF ~Good(s) THEN Out(s, NoTok, NoTok)
      ELSE IF s1.fail THEN Out(s1, NoTok, NoTok)
      ELSE IF Good(s1) /\ input[s1.pos + 1] = SlashTok
           THEN IF s2.fail
                THEN Out(SetFail(Putback(s2, 1)), input[s.pos + 1], NoTok)
                ELSE Out(s2, input[s.pos + 1], input[s2.pos])
      ELSE Out(SetFail(Putback(s1, 1)), input[s.pos + 1], NoTok)

(* read_ip_address_prefix_length (lines 57-83): the stream after it and    *)
(* the two strings it filled in.                                           *)
ReadIpAddressPrefixLength(f, s) ==
  LET s1 == ReadIpAddress(f, s)
      s2 == ReadPrefixLength(Ignore(s1))
      Out(st, ip, pl) == [st |-> st, ip |-> ip, plen |-> pl]
  IN  IF ~Good(s) THEN Out(s, NoTok, NoTok)
      ELSE IF s1.fail THEN Out(s1, NoTok, NoTok)
      ELSE IF Good(s1) /\ input[s1.pos + 1] = SlashTok
           THEN IF s2.fail
                THEN Out(SetFail(Putback(s2, 2)), input[s.pos + 1], NoTok)
                ELSE Out(s2, input[s.pos + 1], input[s2.pos])
      ELSE Out(SetFail(Putback(s1, 1)), input[s.pos + 1], NoTok)

(* operator>> for base_ip_network_address (lines 120-132): on a stream     *)
(* that did not fail, AddressType::from_string of the address text and     *)
(* lexical_cast<unsigned int> of the digits; either throws on text it      *)
(* cannot convert, and the exception leaves the operator.                  *)
FamilyRead(f, s) ==
  LET r == ReadIpAddressPrefixLength(f, s)
  IN  IF r.st.fail THEN [st |-> r.st, out |-> "fail", val |-> NoNet]
      ELSE IF r.ip.kind = "addr" /\ r.plen.kind = "num"
           THEN [st |-> r.st, out |-> "ok", val |-> Net(f, r.ip.val, r.plen.val)]
      ELSE [st |-> r.st, out |-> "throw", val |-> NoNet]

(* Mutant: no is.clear() after the IPv6 attempt fails (line 158).          *)
NetReadNoClear(s) ==
  LET r6 == FamilyRead("v6", s)
      r4 == FamilyRead("v4", r6.st)
  IN  IF s.fail THEN [st |-> s, out |-> "fail", val |-> NoNet]
      ELSE IF r6.out # "fail" THEN r6
      ELSE IF r4.out # "fail" THEN r4
      ELSE [st |-> Clear(r4.st), out |-> "fail", val |-> NoNet]

(* operator>> for ip_network_address (lines 146-175): IPv6 first; after a  *)
(* failure is.clear() and IPv4; after a second failure is.clear() again.   *)
NetRead(s) ==
  LET r6 == FamilyRead("v6", s)
      r4 == FamilyRead("v4", Clear(r6.st))
  IN  IF s.fail THEN [st |-> s, out |-> "fail", val |-> NoNet]
      ELSE IF r6.out # "fail" THEN r6
      ELSE IF r4.out # "fail" THEN r4
      ELSE [st |-> Clear(r4.st), out |-> "fail", val |-> NoNet]

(* The caller's view of a call: the variable is assigned on success, and   *)
(* the call is a success when it does not throw and the stream did not     *)
(* fail.                                                                   *)
Apply(r) ==
  /\ pos' = r.st.pos
  /\ eof' = r.st.eof
  /\ fail' = r.st.fail
  /\ value' = IF r.out = "ok" THEN r.val ELSE value
  /\ result' = IF r.out = "throw" THEN "throw"
               ELSE IF r.st.fail THEN "fail"
               ELSE "ok"
  /\ UNCHANGED input

(* A fresh std::istringstream over one of the inputs; the variable is      *)
(* default-constructed: boost::variant builds its first alternative,       *)
(* ipv4_network_address(), the IPv4 null network 0.0.0.0/0.                *)
Init ==
  /\ input \in Inputs
  /\ pos = 0
  /\ eof = FALSE
  /\ fail = FALSE
  /\ value = Net("v4", 0, 0)
  /\ result = "none"

(* is >> ipv4_network_address or is >> ipv6_network_address.               *)
ReadFamilyNet(f) == Apply(FamilyRead(f, Stream))

(* is >> ip_network_address.                                               *)
ReadNet == Apply(NetRead(Stream))

(* The caller's is.clear() to go on after a failure.                       *)
ClearState ==
  /\ eof' = FALSE
  /\ fail' = FALSE
  /\ result' = "none"
  /\ UNCHANGED <<input, pos, value>>

Next == (\E f \in Families : ReadFamilyNet(f)) \/ ReadNet \/ ClearState

Spec == Init /\ [][Next]_vars

-----------------------------------------------------------------------------
(* Type invariant.                                                         *)
TypeOK ==
  /\ input \in Inputs
  /\ pos \in 0 .. Len(input)
  /\ eof \in BOOLEAN
  /\ fail \in BOOLEAN
  /\ value \in [fam : Families, addr : Nat, plen : Nat]
  /\ result \in {"none", "ok", "fail", "throw"}

(* The tokens a step extracted.                                            *)
Consumed == SubSeq(input, pos + 1, pos')

(* A read is all or nothing: when the caller sees success it has the value *)
(* written by exactly the text extracted, and when it sees failure nothing *)
(* was extracted and its variable is untouched.                            *)
AllOrNothing(A) ==
  A => /\ result' = "ok" => Consumed = Format(value')
       /\ result' = "fail" => pos' = pos /\ value' = value

(* Extracting one family's network address (operator>> for                 *)
(* base_ip_network_address, with the put-back of lines 70 and 76) is all   *)
(* or nothing, so that a caller may retry another grammar.                 *)
FamilyAllOrNothing ==
  [][\A f \in Families : AllOrNothing(ReadFamilyNet(f))]_vars

(* Extracting an ip_network_address is all or nothing (spec.md 4.2, 7).    *)
NetAllOrNothing == [][AllOrNothing(ReadNet)]_vars

(* An extraction from a stream with no characters left fails, as every    *)
(* std::istream extractor does (spec.md 4.1: parse failures are reported,  *)
(* all or nothing), rather than throwing out of operator>> (line 128).     *)
ExhaustedReadFails ==
  [][\A f \in Families : ReadFamilyNet(f) /\ pos = Len(input) => result' = "fail"]_vars

(* parse(format(v)) = v (spec.md 4.1, 8): a read on a good stream whose    *)
(* rest begins with the text operator<< writes for v yields v, by the      *)
(* family's operator>> when v is of that family and by the variant's       *)
(* operator>> whatever v's family, its IPv6 attempt failing and being      *)
(* undone first for an IPv4 text.                                          *)
FormatRoundTrip ==
  [][LET v == Net(input[pos + 1].fam, input[pos + 1].val, input[pos + 3].val)
     IN  (/\ Good(Stream)
          /\ pos + 3 <= Len(input)
          /\ SubSeq(input, pos + 1, pos + 3) = Format(v)
          /\ ReadNet \/ ReadFamilyNet(v.fam))
         => result' = "ok" /\ value' = v]_vars
=============================================================================
