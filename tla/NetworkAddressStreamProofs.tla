---------------------- MODULE NetworkAddressStreamProofs ----------------------
(***************************************************************************)
(* Proofs about reading network addresses from a stream                    *)
(* (NetworkAddressStream), for every set of input texts.                   *)
(*                                                                         *)
(* The readers are pure functions of the stream state; the lemmas below    *)
(* state what read_ip_address_prefix_length and the family operator>>      *)
(* return from any stream state within the text, and the theorems follow   *)
(* from them step by step.  TypeOK is inductive once the stream state is   *)
(* known to stay within the text, which the lemmas give.                   *)
(***************************************************************************)
EXTENDS NetworkAddressStream, SequenceTheorems, TLAPS


(* A stream state over the text: how much was read, eofbit and failbit.    *)
StreamStates == [pos : 0 .. Len(input), eof : BOOLEAN, fail : BOOLEAN]

(* The values a successful extraction can assign.                          *)
NetValues == [fam : Families, addr : Nat, plen : Nat]

(* What the stream operations do to the position and the two flags.  The *)
(* proofs cite these rather than expanding the operators; a flag is stated *)
(* as a predicate and membership of StreamStates separately, the forms the *)
(* SMT backend instantiates.                                               *)
LEMMA ConsumeFacts ==
  ASSUME NEW s
  PROVE  /\ Consume(s).pos = s.pos + 1
         /\ Consume(s).eof <=> s.pos + 1 = Len(input)
         /\ Consume(s).fail <=> s.fail
  BY DEF Consume

LEMMA ConsumeInStates ==
  ASSUME NEW s, s.pos + 1 \in 0 .. Len(input), s.fail \in BOOLEAN
  PROVE  Consume(s) \in StreamStates
  BY DEF Consume, StreamStates

LEMMA RejectFacts ==
  ASSUME NEW s
  PROVE  /\ Reject(s).pos = s.pos
         /\ Reject(s).eof <=> s.eof \/ s.pos = Len(input)
         /\ Reject(s).fail
  BY DEF Reject

LEMMA RejectInStates ==
  ASSUME NEW s \in StreamStates
  PROVE  Reject(s) \in StreamStates
  BY DEF Reject, StreamStates

LEMMA PutbackFailFacts ==
  ASSUME NEW s, NEW n
  PROVE  /\ SetFail(Putback(s, n)).pos = s.pos - n
         /\ ~SetFail(Putback(s, n)).eof
         /\ SetFail(Putback(s, n)).fail
  BY DEF SetFail, Putback

LEMMA PutbackFailInStates ==
  ASSUME NEW s, NEW n, s.pos - n \in 0 .. Len(input)
  PROVE  SetFail(Putback(s, n)) \in StreamStates
  BY DEF SetFail, Putback, StreamStates

LEMMA IgnoreFacts ==
  ASSUME NEW s
  PROVE  /\ Ignore(s).pos = s.pos + 1
         /\ Ignore(s).eof <=> s.eof
         /\ Ignore(s).fail <=> s.fail
  BY DEF Ignore

LEMMA IgnoreInStates ==
  ASSUME NEW s \in StreamStates, s.pos + 1 <= Len(input)
  PROVE  Ignore(s) \in StreamStates
  BY DEF Ignore, StreamStates

LEMMA ClearFacts ==
  ASSUME NEW s
  PROVE  /\ Clear(s).pos = s.pos
         /\ ~Clear(s).eof
         /\ ~Clear(s).fail
  BY DEF Clear

LEMMA ClearInStates ==
  ASSUME NEW s, s.pos \in 0 .. Len(input)
  PROVE  Clear(s) \in StreamStates
  BY DEF Clear, StreamStates

(* A token is the record of its three fields; a digit run has no family.  *)
LEMMA TokenFields ==
  ASSUME NEW t \in Tokens
  PROVE  /\ t = Tok(t.kind, t.fam, t.val)
         /\ t.val \in Nat
         /\ t.kind = "num" => t.fam = "none"
  BY DEF Tokens, Tok, Families

(* Three tokens read one after the other are the text they came from.      *)
LEMMA SubSeqThree ==
  ASSUME NEW S, NEW x \in Seq(S), NEW p \in Nat, p + 3 <= Len(x)
  PROVE  SubSeq(x, p + 1, p + 3) = << x[p + 1], x[p + 2], x[p + 3] >>
  <1>1. Len(SubSeq(x, p + 1, p + 3)) = 3
    BY SubSeqProperties
  <1>2. \A i \in 1 .. 3 : SubSeq(x, p + 1, p + 3)[i] = x[p + i]
    BY SubSeqProperties
  <1>3. SubSeq(x, p + 1, p + 3) \in Seq(S)
    BY SubSeqProperties
  <1>4. << x[p + 1], x[p + 2], x[p + 3] >> \in Seq(S)
    OBVIOUS
  <1>5. Len(<< x[p + 1], x[p + 2], x[p + 3] >>) = 3
    OBVIOUS
  <1>6. \A i \in 1 .. 3 : SubSeq(x, p + 1, p + 3)[i] = << x[p + 1], x[p + 2], x[p + 3] >>[i]
    BY <1>2
  <1> QED BY <1>1, <1>3, <1>4, <1>5, <1>6, SeqEqual, Zenon

(* read_ip_address_prefix_length either fails leaving the position where   *)
(* it was (both put-backs undo what was read), or, when it read an address *)
(* text, has read exactly that address, a '/' and the digit run after it.  *)
PrefixLengthFacts(f, s) ==
  LET r == ReadIpAddressPrefixLength(f, s)
  IN  /\ r.st \in StreamStates
      /\ r.st.fail => r.st.pos = s.pos
      /\ ~r.st.fail /\ r.ip.kind = "addr" =>
           /\ s.pos + 3 <= Len(input)
           /\ r.st.pos = s.pos + 3
           /\ r.ip = input[s.pos + 1]
           /\ r.ip.fam = f
           /\ input[s.pos + 2] = SlashTok
           /\ r.plen = input[s.pos + 3]

LEMMA PrefixLengthRead ==
  ASSUME input \in Seq(Tokens), NEW f \in Families, NEW s \in StreamStates
  PROVE  PrefixLengthFacts(f, s)
  <1> DEFINE s1 == ReadIpAddress(f, s)
  <1> DEFINE t == Ignore(s1)
  <1> DEFINE s2 == ReadPrefixLength(t)
  <1> DEFINE r == ReadIpAddressPrefixLength(f, s)
  <1> SUFFICES /\ r.st \in StreamStates
               /\ r.st.fail => r.st.pos = s.pos
               /\ ~r.st.fail /\ r.ip.kind = "addr" =>
                    /\ s.pos + 3 <= Len(input)
                    /\ r.st.pos = s.pos + 3
                    /\ r.ip = input[s.pos + 1]
                    /\ r.ip.fam = f
                    /\ input[s.pos + 2] = SlashTok
                    /\ r.plen = input[s.pos + 3]
    BY DEF PrefixLengthFacts
  <1>0. Len(input) \in Nat /\ s.pos \in 0 .. Len(input)
    BY DEF StreamStates
  <1>1. CASE ~Good(s)
    <2>1. r = [st |-> s, ip |-> NoTok, plen |-> NoTok]
      BY <1>1 DEF ReadIpAddressPrefixLength
    <2>2. r.ip.kind = "empty"
      BY <2>1 DEF NoTok, Tok
    <2> QED BY <2>1, <2>2
  <1>2. CASE Good(s) /\ s1.fail
    <2>1. r = [st |-> s1, ip |-> NoTok, plen |-> NoTok]
      BY <1>2 DEF ReadIpAddressPrefixLength
    <2>2. s1 = Reject(s)
      BY <1>2, ConsumeFacts DEF ReadIpAddress, Good
    <2>3. s1 \in StreamStates /\ s1.pos = s.pos /\ s1.fail
      BY <2>2, RejectFacts, RejectInStates
    <2>4. r.ip.kind = "empty"
      BY <2>1 DEF NoTok, Tok
    <2> QED BY <2>1, <2>3, <2>4
  (* From here on read_ip_address has consumed an address of the family.   *)
  <1>3. ASSUME Good(s), ~s1.fail
        PROVE  /\ s.pos + 1 <= Len(input)
               /\ input[s.pos + 1].kind = "addr" /\ input[s.pos + 1].fam = f
               /\ s1 = Consume(s)
    <2>1. NextIs(s, {"addr"}) /\ input[s.pos + 1].fam = f
      BY <1>3, RejectFacts DEF ReadIpAddress
    <2> QED BY <1>0, <2>1 DEF ReadIpAddress, NextIs
  <1>4. CASE Good(s) /\ ~s1.fail /\ ~(Good(s1) /\ input[s1.pos + 1] = SlashTok)
    <2>1. r = [st |-> SetFail(Putback(s1, 1)), ip |-> input[s.pos + 1], plen |-> NoTok]
      BY <1>4 DEF ReadIpAddressPrefixLength
    <2>2. s1.pos = s.pos + 1
      BY <1>3, <1>4, ConsumeFacts
    <2>3. r.st = SetFail(Putback(s1, 1))
      BY <2>1
    <2>4. SetFail(Putback(s1, 1)).pos = s.pos
      BY <1>0, <2>2, PutbackFailFacts
    <2>5. SetFail(Putback(s1, 1)) \in StreamStates /\ SetFail(Putback(s1, 1)).fail
      BY <1>0, <2>2, PutbackFailFacts, PutbackFailInStates
    <2> QED BY <2>3, <2>4, <2>5
  <1>5. CASE Good(s) /\ ~s1.fail /\ Good(s1) /\ input[s1.pos + 1] = SlashTok
    <2>0. s1 = Consume(s) /\ s.pos + 1 <= Len(input)
      BY <1>3, <1>5
    <2>a. s1.pos = s.pos + 1 /\ (s1.eof <=> s.pos + 1 = Len(input)) /\ (s1.fail <=> s.fail)
      BY <2>0, ConsumeFacts
    <2>b. ~s1.eof /\ ~s1.fail /\ input[s1.pos + 1] = SlashTok
      BY <1>5 DEF Good
    <2>1. s.pos + 2 <= Len(input) /\ input[s.pos + 2] = SlashTok
      BY <1>0, <2>0, <2>a, <2>b
    <2>2. t.pos = s.pos + 2 /\ ~t.eof /\ ~t.fail
      <3>1. t.pos = s1.pos + 1 /\ (t.eof <=> s1.eof) /\ (t.fail <=> s1.fail)
        BY IgnoreFacts
      <3> QED BY <1>0, <2>a, <2>b, <3>1
    <2>3. CASE s2.fail
      <3>1. r = [st |-> SetFail(Putback(s2, 2)), ip |-> input[s.pos + 1], plen |-> NoTok]
        BY <1>5, <2>3 DEF ReadIpAddressPrefixLength
      <3>2. s2 = Reject(t)
        BY <2>2, <2>3, ConsumeFacts DEF ReadPrefixLength
      <3>3. s2.pos = s.pos + 2
        BY <2>2, <3>2, RejectFacts
      <3>4. r.st = SetFail(Putback(s2, 2))
        BY <3>1
      <3>5. SetFail(Putback(s2, 2)).pos = s.pos
        BY <1>0, <3>3, PutbackFailFacts
      <3>6. SetFail(Putback(s2, 2)) \in StreamStates /\ SetFail(Putback(s2, 2)).fail
        BY <1>0, <3>3, PutbackFailFacts, PutbackFailInStates
      <3> QED BY <3>4, <3>5, <3>6
    <2>4. CASE ~s2.fail
      <3>1. r = [st |-> s2, ip |-> input[s.pos + 1], plen |-> input[s2.pos]]
        BY <1>5, <2>4 DEF ReadIpAddressPrefixLength
      <3>2. NextIs(t, {"num", "bignum"})
        BY <2>4, RejectFacts DEF ReadPrefixLength
      <3>3. s.pos + 3 <= Len(input)
        BY <1>0, <2>2, <3>2 DEF NextIs
      <3>4. s2 = Consume(t)
        BY <3>2 DEF ReadPrefixLength
      <3>5. s2.pos = s.pos + 3 /\ ~s2.fail
        <4>1. Consume(t).pos = t.pos + 1 /\ (Consume(t).fail <=> t.fail)
          BY ConsumeFacts
        <4> QED BY <1>0, <2>2, <3>4, <4>1
      <3>6. s2 \in StreamStates
        <4>0. s1 \in StreamStates
          BY <1>0, <2>0, ConsumeInStates DEF StreamStates
        <4>a. t \in StreamStates
          BY <1>0, <2>1, <2>a, <4>0, IgnoreInStates
        <4>1. t.pos + 1 \in 0 .. Len(input) /\ t.fail \in BOOLEAN
          BY <1>0, <2>2, <3>3, <4>a DEF StreamStates
        <4> QED BY <3>4, <4>1, ConsumeInStates
      <3> QED BY <1>3, <1>5, <2>1, <3>1, <3>3, <3>5, <3>6
    <2> QED BY <2>3, <2>4
  <1> QED BY <1>1, <1>2, <1>4, <1>5

(* operator>> for a family either fails leaving the position where it was, *)
(* throws on a stream that did not fail, or succeeds having read exactly   *)
(* the text operator<< writes for the value it returns.                    *)
FamilyReadFacts(f, s) ==
  LET r == FamilyRead(f, s)
  IN  /\ r.st \in StreamStates
      /\ r.out \in {"ok", "fail", "throw"}
      /\ r.out = "fail" <=> r.st.fail
      /\ r.st.fail => r.st.pos = s.pos
      /\ r.out = "ok" =>
           /\ r.val \in NetValues
           /\ r.val.fam = f
           /\ s.pos + 3 <= Len(input)
           /\ r.st.pos = s.pos + 3
           /\ SubSeq(input, s.pos + 1, s.pos + 3) = Format(r.val)

LEMMA FamilyReadResult ==
  ASSUME input \in Seq(Tokens), NEW f \in Families, NEW s \in StreamStates
  PROVE  FamilyReadFacts(f, s)
  <1> DEFINE p == ReadIpAddressPrefixLength(f, s)
  <1> DEFINE r == FamilyRead(f, s)
  <1> SUFFICES /\ r.st \in StreamStates
               /\ r.out \in {"ok", "fail", "throw"}
               /\ r.out = "fail" <=> r.st.fail
               /\ r.st.fail => r.st.pos = s.pos
               /\ r.out = "ok" =>
                    /\ r.val \in NetValues
                    /\ r.val.fam = f
                    /\ s.pos + 3 <= Len(input)
                    /\ r.st.pos = s.pos + 3
                    /\ SubSeq(input, s.pos + 1, s.pos + 3) = Format(r.val)
    BY DEF FamilyReadFacts
  <1>0. Len(input) \in Nat /\ s.pos \in 0 .. Len(input)
    BY DEF StreamStates
  <1>1. /\ p.st \in StreamStates
        /\ p.st.fail => p.st.pos = s.pos
        /\ ~p.st.fail /\ p.ip.kind = "addr" =>
             /\ s.pos + 3 <= Len(input)
             /\ p.st.pos = s.pos + 3
             /\ p.ip = input[s.pos + 1]
             /\ p.ip.fam = f
             /\ input[s.pos + 2] = SlashTok
             /\ p.plen = input[s.pos + 3]
    BY PrefixLengthRead DEF PrefixLengthFacts
  <1>2. CASE p.st.fail
    <2>1. r = [st |-> p.st, out |-> "fail", val |-> NoNet]
      BY <1>2 DEF FamilyRead
    <2> QED BY <1>1, <1>2, <2>1
  <1>3. CASE ~p.st.fail /\ p.ip.kind = "addr" /\ p.plen.kind = "num"
    <2>1. r = [st |-> p.st, out |-> "ok", val |-> Net(f, p.ip.val, p.plen.val)]
      BY <1>3 DEF FamilyRead
    <2>2. s.pos + 3 <= Len(input) /\ p.st.pos = s.pos + 3
      BY <1>1, <1>3
    <2>3. input[s.pos + 1] \in Tokens /\ input[s.pos + 3] \in Tokens
      BY <1>0, <2>2
    <2>4. p.ip = AddrTok(f, p.ip.val) /\ p.ip.val \in Nat
      BY <1>1, <1>3, <2>3, TokenFields DEF AddrTok
    <2>5. p.plen = NumTok(p.plen.val) /\ p.plen.val \in Nat
      BY <1>1, <1>3, <2>3, TokenFields DEF NumTok
    <2>6. SubSeq(input, s.pos + 1, s.pos + 3)
            = << input[s.pos + 1], input[s.pos + 2], input[s.pos + 3] >>
      BY <1>0, <2>2, SubSeqThree
    <2>7. SubSeq(input, s.pos + 1, s.pos + 3) = Format(Net(f, p.ip.val, p.plen.val))
      BY <1>1, <1>3, <2>4, <2>5, <2>6 DEF Format, Net
    <2>8. Net(f, p.ip.val, p.plen.val) \in NetValues
      BY <2>4, <2>5 DEF Net, NetValues
    <2> QED BY <1>1, <1>3, <2>1, <2>2, <2>7, <2>8 DEF Net
  <1>4. CASE ~p.st.fail /\ ~(p.ip.kind = "addr" /\ p.plen.kind = "num")
    <2>1. r = [st |-> p.st, out |-> "throw", val |-> NoNet]
      BY <1>4 DEF FamilyRead
    <2> QED BY <1>1, <1>4, <2>1
  <1> QED BY <1>2, <1>3, <1>4

(* operator>> for ip_network_address leaves the stream within the text and *)
(* returns a network address of a family when it succeeds.                *)
NetReadTyping(s) ==
  LET r == NetRead(s)
  IN  /\ r.st \in StreamStates
      /\ r.out \in {"ok", "fail", "throw"}
      /\ r.out = "ok" => r.val \in NetValues

LEMMA NetReadResult ==
  ASSUME input \in Seq(Tokens), NEW s \in StreamStates
  PROVE  NetReadTyping(s)
  <1> DEFINE r6 == FamilyRead("v6", s)
  <1> DEFINE r4 == FamilyRead("v4", Clear(r6.st))
  <1> DEFINE r == NetRead(s)
  <1> SUFFICES /\ r.st \in StreamStates
               /\ r.out \in {"ok", "fail", "throw"}
               /\ r.out = "ok" => r.val \in NetValues
    BY DEF NetReadTyping
  <1>1. FamilyReadFacts("v6", s)
    BY FamilyReadResult DEF Families
  <1>2. r6.st \in StreamStates /\ r6.out \in {"ok", "fail", "throw"}
        /\ (r6.out = "ok" => r6.val \in NetValues)
    BY <1>1 DEF FamilyReadFacts
  <1>3. Clear(r6.st) \in StreamStates
    BY <1>2, ClearInStates DEF StreamStates
  <1>4. r4.st \in StreamStates /\ r4.out \in {"ok", "fail", "throw"}
        /\ (r4.out = "ok" => r4.val \in NetValues)
    <2>1. FamilyReadFacts("v4", Clear(r6.st))
      BY <1>3, FamilyReadResult DEF Families
    <2> QED BY <2>1 DEF FamilyReadFacts
  <1>5. Clear(r4.st) \in StreamStates
    BY <1>4, ClearInStates DEF StreamStates
  <1>6. CASE s.fail
    BY <1>6 DEF NetRead
  <1>7. CASE ~s.fail /\ r6.out # "fail"
    BY <1>2, <1>7 DEF NetRead
  <1>8. CASE ~s.fail /\ r6.out = "fail" /\ r4.out # "fail"
    BY <1>4, <1>8 DEF NetRead
  <1>9. CASE ~s.fail /\ r6.out = "fail" /\ r4.out = "fail"
    <2>1. r = [st |-> Clear(r4.st), out |-> "fail", val |-> NoNet]
      BY <1>9 DEF NetRead
    <2> QED BY <1>5, <2>1
  <1> QED BY <1>6, <1>7, <1>8, <1>9

-----------------------------------------------------------------------------
(* The stream state of the variables is a stream state over the text.      *)
LEMMA StreamInStates ==
  ASSUME TypeOK
  PROVE  Stream \in StreamStates
  BY DEF TypeOK, Stream, StreamStates

(* A caller's extraction keeps the variables in their types when the       *)
(* extractor does.                                                         *)
LEMMA ApplyTyped ==
  ASSUME TypeOK, NEW r, Apply(r),
         r.st \in StreamStates, r.out = "ok" => r.val \in NetValues
  PROVE  TypeOK'
  BY DEF Apply, TypeOK, StreamStates, NetValues

LEMMA TypeInit == Init => TypeOK
  <1> SUFFICES ASSUME Init PROVE TypeOK
    OBVIOUS
  <1>1. input \in Seq(Tokens)
    BY InputsAssumption DEF Init
  <1>2. Len(input) \in Nat
    BY <1>1
  <1>3. Net("v4", 0, 0) \in [fam : Families, addr : Nat, plen : Nat]
    BY DEF Net, Families
  <1>4. pos \in 0 .. Len(input)
    BY <1>2 DEF Init
  <1>5. eof \in BOOLEAN /\ fail \in BOOLEAN
    BY DEF Init
  <1>6. value \in [fam : Families, addr : Nat, plen : Nat]
    BY <1>3 DEF Init
  <1> QED BY <1>4, <1>5, <1>6 DEF Init, TypeOK

LEMMA TypeStep == TypeOK /\ [Next]_vars => TypeOK'
  <1> SUFFICES ASSUME TypeOK, [Next]_vars PROVE TypeOK'
    OBVIOUS
  <1>0. input \in Seq(Tokens) /\ Stream \in StreamStates
    BY InputsAssumption, StreamInStates DEF TypeOK
  <1>1. ASSUME NEW f \in Families, ReadFamilyNet(f)
        PROVE  TypeOK'
    <2>1. FamilyReadFacts(f, Stream)
      BY <1>0, FamilyReadResult
    <2>2. FamilyRead(f, Stream).st \in StreamStates
          /\ (FamilyRead(f, Stream).out = "ok" => FamilyRead(f, Stream).val \in NetValues)
      BY <2>1 DEF FamilyReadFacts
    <2> QED BY <1>1, <2>2, ApplyTyped DEF ReadFamilyNet
  <1>2. CASE ReadNet
    <2>1. NetReadTyping(Stream)
      BY <1>0, NetReadResult
    <2>2. NetRead(Stream).st \in StreamStates
          /\ (NetRead(Stream).out = "ok" => NetRead(Stream).val \in NetValues)
      BY <2>1 DEF NetReadTyping
    <2> QED BY <1>2, <2>2, ApplyTyped DEF ReadNet
  <1>3. CASE ClearState
    BY <1>3 DEF ClearState, TypeOK
  <1>4. CASE UNCHANGED vars
    BY <1>4 DEF vars, TypeOK
  <1> QED BY <1>1, <1>2, <1>3, <1>4 DEF Next

(* Every extraction, by a family's operator>> or the variant's, and every  *)
(* clear keeps the position within the text and assigns the caller's       *)
(* variable only a network address of a family.                            *)
THEOREM StreamTypeCorrect == Spec => []TypeOK
  BY TypeInit, TypeStep, PTL DEF Spec

(* One extraction by a family's operator>> is all or nothing.              *)
LEMMA FamilyStepAllOrNothing ==
  ASSUME TypeOK, NEW f \in Families
  PROVE  AllOrNothing(ReadFamilyNet(f))
  <1> DEFINE r == FamilyRead(f, Stream)
  <1> SUFFICES ASSUME ReadFamilyNet(f)
               PROVE  /\ result' = "ok" => Consumed = Format(value')
                      /\ result' = "fail" => pos' = pos /\ value' = value
    BY DEF AllOrNothing
  <1>0. input \in Seq(Tokens) /\ Stream \in StreamStates /\ Stream.pos = pos
    BY InputsAssumption, StreamInStates DEF TypeOK, Stream
  <1>1. /\ r.out \in {"ok", "fail", "throw"}
        /\ r.out = "fail" <=> r.st.fail
        /\ r.st.fail => r.st.pos = pos
        /\ r.out = "ok" =>
             /\ r.st.pos = pos + 3
             /\ SubSeq(input, pos + 1, pos + 3) = Format(r.val)
    <2>1. FamilyReadFacts(f, Stream)
      BY <1>0, FamilyReadResult
    <2> QED BY <1>0, <2>1 DEF FamilyReadFacts
  <1>2. Apply(r)
    BY DEF ReadFamilyNet
  <1>3. ASSUME result' = "ok" PROVE Consumed = Format(value')
    <2>1. r.out = "ok"
      BY <1>1, <1>2, <1>3 DEF Apply
    <2>2. pos' = pos + 3 /\ value' = r.val /\ input' = input
      BY <1>1, <1>2, <2>1 DEF Apply
    <2> QED BY <1>1, <2>1, <2>2 DEF Consumed
  <1>4. ASSUME result' = "fail" PROVE pos' = pos /\ value' = value
    <2>1. r.out = "fail"
      BY <1>1, <1>2, <1>4 DEF Apply
    <2> QED BY <1>1, <1>2, <2>1 DEF Apply
  <1> QED BY <1>3, <1>4

(* Extracting one family's network address is all or nothing, for every   *)
(* set of input texts: what the put-backs of read_ip_address_prefix_length *)
(* (lines 70 and 76) restore lets a caller retry another grammar.          *)
THEOREM FamilyAllOrNothingHolds == Spec => FamilyAllOrNothing
  <1>1. TypeOK => \A f \in Families : AllOrNothing(ReadFamilyNet(f))
    BY FamilyStepAllOrNothing
  <1>2. Spec => []TypeOK
    BY StreamTypeCorrect
  <1> QED BY <1>1, <1>2, PTL DEF FamilyAllOrNothing

-----------------------------------------------------------------------------
(* On a good stream whose rest begins with an address text of family f, a *)
(* '/' and a digit run that fits, operator>> for f reads them and returns  *)
(* the network address they write.                                         *)
LEMMA FamilyReadsText ==
  ASSUME input \in Seq(Tokens), NEW f \in Families, NEW s \in StreamStates,
         Good(s), s.pos + 3 <= Len(input),
         input[s.pos + 1].kind = "addr", input[s.pos + 1].fam = f,
         input[s.pos + 2] = SlashTok, input[s.pos + 3].kind = "num"
  PROVE  /\ FamilyRead(f, s).out = "ok"
         /\ ~FamilyRead(f, s).st.fail
         /\ FamilyRead(f, s).val = Net(f, input[s.pos + 1].val, input[s.pos + 3].val)
  <1> DEFINE s1 == ReadIpAddress(f, s)
  <1> DEFINE t == Ignore(s1)
  <1> DEFINE s2 == ReadPrefixLength(t)
  <1> DEFINE p == ReadIpAddressPrefixLength(f, s)
  <1>0. Len(input) \in Nat /\ s.pos \in 0 .. Len(input) /\ ~s.eof /\ ~s.fail
    BY DEF StreamStates, Good
  <1>1. s1 = Consume(s)
    BY <1>0 DEF ReadIpAddress, NextIs
  <1>2. s1.pos = s.pos + 1 /\ ~s1.eof /\ ~s1.fail
    <2>1. s1.pos = s.pos + 1 /\ (s1.eof <=> s.pos + 1 = Len(input)) /\ (s1.fail <=> s.fail)
      BY <1>1, ConsumeFacts
    <2> QED BY <1>0, <2>1
  <1>3. t.pos = s.pos + 2 /\ ~t.eof /\ ~t.fail
    <2>1. t.pos = s1.pos + 1 /\ (t.eof <=> s1.eof) /\ (t.fail <=> s1.fail)
      BY IgnoreFacts
    <2> QED BY <1>0, <1>2, <2>1
  <1>4. s2 = Consume(t)
    BY <1>0, <1>3 DEF ReadPrefixLength, NextIs
  <1>5. s2.pos = s.pos + 3 /\ ~s2.fail
    <2>1. s2.pos = t.pos + 1 /\ (s2.fail <=> t.fail)
      BY <1>4, ConsumeFacts
    <2> QED BY <1>0, <1>3, <2>1
  <1>6. Good(s1) /\ input[s1.pos + 1] = SlashTok
    <2>1. Good(s1)
      BY <1>2 DEF Good
    <2>2. s1.pos + 1 = s.pos + 2
      BY <1>0, <1>2
    <2> QED BY <2>1, <2>2
  <1>7. p = [st |-> s2, ip |-> input[s.pos + 1], plen |-> input[s2.pos]]
    BY <1>0, <1>2, <1>5, <1>6 DEF ReadIpAddressPrefixLength, Good
  <1>8. p.st = s2 /\ p.ip = input[s.pos + 1] /\ p.plen = input[s.pos + 3]
    BY <1>5, <1>7
  <1> QED BY <1>5, <1>8 DEF FamilyRead

(* On a good stream whose rest begins with an address text of another      *)
(* family, operator>> for f fails having read nothing.                     *)
LEMMA FamilyRejectsOther ==
  ASSUME NEW f \in Families, NEW s \in StreamStates, Good(s),
         s.pos < Len(input), input[s.pos + 1].fam # f
  PROVE  /\ FamilyRead(f, s).out = "fail"
         /\ FamilyRead(f, s).st.pos = s.pos
  <1> DEFINE s1 == ReadIpAddress(f, s)
  <1>1. s1 = Reject(s)
    BY DEF ReadIpAddress
  <1>2. s1.fail /\ s1.pos = s.pos
    BY <1>1, RejectFacts
  <1>3. ReadIpAddressPrefixLength(f, s) = [st |-> s1, ip |-> NoTok, plen |-> NoTok]
    BY <1>2 DEF ReadIpAddressPrefixLength
  <1> QED BY <1>2, <1>3 DEF FamilyRead

(* The same for operator>> for ip_network_address, whatever the family of  *)
(* the text: an IPv6 text is read by its first attempt; on an IPv4 text    *)
(* that attempt fails having read nothing, is.clear() makes the stream     *)
(* good again and the IPv4 attempt reads it.                               *)
LEMMA NetReadsText ==
  ASSUME input \in Seq(Tokens), NEW s \in StreamStates,
         Good(s), s.pos + 3 <= Len(input),
         input[s.pos + 1].kind = "addr",
         input[s.pos + 2] = SlashTok, input[s.pos + 3].kind = "num"
  PROVE  /\ NetRead(s).out = "ok"
         /\ ~NetRead(s).st.fail
         /\ NetRead(s).val = Net(input[s.pos + 1].fam, input[s.pos + 1].val,
                                 input[s.pos + 3].val)
  <1> DEFINE r6 == FamilyRead("v6", s)
  <1> DEFINE r4 == FamilyRead("v4", Clear(r6.st))
  <1> DEFINE w == Net(input[s.pos + 1].fam, input[s.pos + 1].val, input[s.pos + 3].val)
  <1>0. Len(input) \in Nat /\ s.pos \in 0 .. Len(input) /\ ~s.fail
    BY DEF StreamStates, Good
  <1>1. input[s.pos + 1] \in Tokens
    BY <1>0
  <1>2. input[s.pos + 1].fam \in Families
    BY <1>1 DEF Tokens
  <1>3. CASE input[s.pos + 1].fam = "v6"
    <2>1. r6.out = "ok" /\ ~r6.st.fail /\ r6.val = w
      BY <1>3, FamilyReadsText DEF Families
    <2> QED BY <1>0, <2>1 DEF NetRead
  <1>4. CASE input[s.pos + 1].fam = "v4"
    <2>1. r6.out = "fail" /\ r6.st.pos = s.pos
      BY <1>0, <1>4, FamilyRejectsOther DEF Families
    <2>2. Clear(r6.st) \in StreamStates /\ Good(Clear(r6.st)) /\ Clear(r6.st).pos = s.pos
      <3>1. Clear(r6.st).pos = r6.st.pos /\ ~Clear(r6.st).eof /\ ~Clear(r6.st).fail
        BY ClearFacts
      <3>2. Clear(r6.st) \in StreamStates
        BY <1>0, <2>1, ClearInStates
      <3> QED BY <2>1, <3>1, <3>2 DEF Good
    <2>3. r4.out = "ok" /\ ~r4.st.fail /\ r4.val = w
      BY <1>0, <1>4, <2>2, FamilyReadsText DEF Families
    <2> QED BY <1>0, <2>1, <2>3 DEF NetRead
  <1> QED BY <1>2, <1>3, <1>4 DEF Families

(* The step FormatRoundTrip constrains: a read, on a good stream whose     *)
(* rest begins with the text operator<< writes for v, returns v.           *)
RoundTripStep ==
  LET v == Net(input[pos + 1].fam, input[pos + 1].val, input[pos + 3].val)
  IN  (/\ Good(Stream)
       /\ pos + 3 <= Len(input)
       /\ SubSeq(input, pos + 1, pos + 3) = Format(v)
       /\ ReadNet \/ ReadFamilyNet(v.fam))
      => result' = "ok" /\ value' = v

(* An extractor that succeeds on the stream reports success and assigns    *)
(* what it read.                                                           *)
LEMMA ApplyOk ==
  ASSUME NEW r, Apply(r), r.out = "ok", ~r.st.fail
  PROVE  result' = "ok" /\ value' = r.val
  BY DEF Apply

LEMMA RoundTripHolds ==
  ASSUME TypeOK
  PROVE  RoundTripStep
  <1> DEFINE v == Net(input[pos + 1].fam, input[pos + 1].val, input[pos + 3].val)
  <1> SUFFICES ASSUME Good(Stream), pos + 3 <= Len(input),
                      SubSeq(input, pos + 1, pos + 3) = Format(v),
                      ReadNet \/ ReadFamilyNet(v.fam)
               PROVE  result' = "ok" /\ value' = v
    BY Zenon DEF RoundTripStep
  <1>0. input \in Seq(Tokens) /\ pos \in Nat /\ Stream \in StreamStates
        /\ Stream.pos = pos
    BY InputsAssumption, StreamInStates DEF TypeOK, Stream
  <1>1. << input[pos + 1], input[pos + 2], input[pos + 3] >> = Format(v)
    BY <1>0, SubSeqThree
  <1>2. /\ input[pos + 1] = AddrTok(v.fam, v.addr)
        /\ input[pos + 2] = SlashTok
        /\ input[pos + 3] = NumTok(v.plen)
    BY <1>1 DEF Format
  <1>3. input[pos + 1].kind = "addr" /\ input[pos + 3].kind = "num"
        /\ v.fam = input[pos + 1].fam
    BY <1>2 DEF AddrTok, NumTok, Tok, Net
  <1>4. v.fam \in Families
    <2>1. input[pos + 1] \in Tokens
      BY <1>0
    <2> QED BY <1>3, <2>1 DEF Tokens
  <1>5. CASE ReadFamilyNet(v.fam)
    <2>1. /\ FamilyRead(v.fam, Stream).out = "ok"
          /\ ~FamilyRead(v.fam, Stream).st.fail
          /\ FamilyRead(v.fam, Stream).val = v
      BY <1>0, <1>3, <1>4, <1>2, FamilyReadsText
    <2> QED BY <1>5, <2>1, ApplyOk DEF ReadFamilyNet
  <1>6. CASE ReadNet
    <2>1. /\ NetRead(Stream).out = "ok"
          /\ ~NetRead(Stream).st.fail
          /\ NetRead(Stream).val = v
      BY <1>0, <1>3, <1>2, NetReadsText
    <2> QED BY <1>6, <2>1, ApplyOk DEF ReadNet
  <1> QED BY <1>5, <1>6

(* parse(format(v)) = v for every set of input texts: both the family's    *)
(* operator>> and the variant's read back what operator<< writes.          *)
THEOREM RoundTripCorrect == Spec => FormatRoundTrip
  <1>1. TypeOK => RoundTripStep
    BY RoundTripHolds
  <1>2. Spec => []TypeOK
    BY StreamTypeCorrect
  <1> QED BY <1>1, <1>2, PTL DEF FormatRoundTrip, RoundTripStep
=============================================================================
