---------------------------- MODULE ClientProofs ----------------------------
(***************************************************************************)
(* Proofs about the client (Client), for every set of configurations and   *)
(* replies, every number of calls and every width of unsigned int.        *)
(*                                                                         *)
(* BufferHoldsCurrentReply is not inductive alone: the append of read_data *)
(* needs the reply to be a sequence and sent to be within its length.      *)
(* ClientInv adds those typing facts, which TypeOK implies.                *)
(***************************************************************************)
EXTENDS Client, SequenceTheorems, WellFoundedInduction, TLAPS

USE RepliesAssumption

ClientInv ==
  /\ reply \in Reply
  /\ sent \in 0 .. Len(reply.body)
  /\ pc \in {"idle", "connecting", "transfer", "received"}
  /\ BufferHoldsCurrentReply

(* The client starts with an empty buffer, idle.                           *)
LEMMA InitInv == Init => ClientInv
  <1> SUFFICES ASSUME Init PROVE ClientInv
    OBVIOUS
  <1>1. reply \in Reply
    BY DEF Init
  <1>2. sent \in 0 .. Len(reply.body)
    BY <1>1 DEF Init, Reply
  <1> QED BY <1>1, <1>2 DEF Init, ClientInv, BufferHoldsCurrentReply

(* Appending the next chunk extends the prefix the buffer holds by one.    *)
LEMMA PrefixAppend ==
  ASSUME NEW S, NEW s \in Seq(S), NEW n \in 0 .. Len(s) - 1
  PROVE  Append(SubSeq(s, 1, n), s[n + 1]) = SubSeq(s, 1, n + 1)
  <1>1. SubSeq(s, 1, n + 1) = SubSeq(s, 1, n) \o << s[n + 1] >>
    BY SubSeqRecursiveSecond
  <1>2. SubSeq(s, 1, n) \in Seq(S) /\ s[n + 1] \in S
    BY SubSeqProperties
  <1> QED BY <1>1, <1>2, AppendIsConcat

(* Every step of connect(), and a new call, keeps the invariant.           *)
LEMMA StepInv == ClientInv /\ [Next]_vars => ClientInv'
  <1> SUFFICES ASSUME ClientInv, [Next]_vars PROVE ClientInv'
    OBVIOUS
  <1> USE DEF ClientInv, BufferHoldsCurrentReply
  <1>1. CASE Connect
    <2>1. reply' \in Reply
      BY <1>1 DEF Connect
    <2> QED BY <1>1, <2>1 DEF Connect
  <1>2. CASE Accept
    <2>1. SubSeq(reply.body, 1, 0) = << >>
      BY SubSeqEmpty
    <2> QED BY <1>2, <2>1 DEF Accept, Throw
  <1>3. CASE Refused
    BY <1>3 DEF Refused, Throw
  <1>4. CASE ConnectTimeout
    BY <1>4 DEF ConnectTimeout, Throw
  <1>5. CASE ReadData
    <2>1. reply.body \in Seq(JTokens)
      BY DEF Reply
    <2>2. m_data' = SubSeq(reply.body, 1, sent + 1)
      BY <1>5, <2>1, PrefixAppend DEF ReadData
    <2> QED BY <1>5, <2>2 DEF ReadData
  <1>6. CASE TransferReset
    BY <1>6 DEF TransferReset, Throw
  <1>7. CASE TransferComplete
    BY <1>7 DEF TransferComplete
  <1>8. CASE Finish
    BY <1>8 DEF Finish, Throw
  <1>9. CASE UNCHANGED vars
    BY <1>9 DEF vars
  <1> QED BY <1>1, <1>2, <1>3, <1>4, <1>5, <1>6, <1>7, <1>8, <1>9 DEF Next, Perform

(* The buffer holds exactly the current reply's body received so far.     *)
THEOREM BufferCorrect == Spec => []BufferHoldsCurrentReply
  <1>1. Spec => []ClientInv
    BY InitInv, StepInv, PTL DEF Spec
  <1> QED BY <1>1, PTL DEF ClientInv

-----------------------------------------------------------------------------
(* A non-empty set of numbers below a bound has a greatest element: a      *)
(* strictly increasing sequence within 0 .. L would give a strictly        *)
(* decreasing one of naturals, L minus it.                                 *)
LEMMA BoundedMaxExists ==
  ASSUME NEW L \in Nat, NEW T \in SUBSET (0 .. L), T # {}
  PROVE  \E x \in T : \A y \in T : y <= x
  <1> DEFINE R == {ss \in (0 .. L) \X (0 .. L) : ss[1] > ss[2]}
  <1>1. IsWellFoundedOn(R, 0 .. L)
    <2> SUFFICES ASSUME NEW f \in [Nat -> 0 .. L],
                        \A n \in Nat : <<f[n + 1], f[n]>> \in R
                 PROVE  FALSE
      BY DEF IsWellFoundedOn
    <2> DEFINE h == [n \in Nat |-> L - f[n]]
    <2>1. h \in [Nat -> Nat]
      OBVIOUS
    <2>2. \A n \in Nat : <<h[n + 1], h[n]>> \in {ss \in Nat \X Nat : ss[1] < ss[2]}
      <3> SUFFICES ASSUME NEW n \in Nat
                   PROVE  <<h[n + 1], h[n]>> \in {ss \in Nat \X Nat : ss[1] < ss[2]}
        OBVIOUS
      <3>1. f[n + 1] \in 0 .. L /\ f[n] \in 0 .. L /\ f[n + 1] > f[n]
        OBVIOUS
      <3>2. h[n + 1] \in Nat /\ h[n] \in Nat /\ h[n + 1] < h[n]
        BY <3>1
      <3> QED BY <3>2
    <2>3. OpToRel(<, Nat) = {ss \in Nat \X Nat : ss[1] < ss[2]}
      BY Zenon DEF OpToRel
    <2> QED BY <2>1, <2>2, <2>3, NatLessThanWellFounded, Zenon DEF IsWellFoundedOn
  <1>2. PICK x \in T : \A y \in T : ~(<<y, x>> \in R)
    BY <1>1, WFMin
  <1>3. ASSUME NEW y \in T PROVE y <= x
    <2>1. y \in 0 .. L /\ x \in 0 .. L
      OBVIOUS
    <2>2. y > x => <<y, x>> \in R
      BY <2>1
    <2> QED BY <1>2, <2>1, <2>2
  <1> QED BY <1>3

(* values[name] is taken from a member of that name, the last one.         *)
LEMMA LastMemberIsMember ==
  ASSUME NEW d \in Seq(JTokens), NEW k, \E i \in Members(d) : d[i].name = k
  PROVE  LastMember(d, k) \in Members(d) /\ d[LastMember(d, k)].name = k
  <1> DEFINE T == {i \in Members(d) : d[i].name = k}
  <1>0. Len(d) \in Nat
    OBVIOUS
  <1>1. T \in SUBSET (0 .. Len(d)) /\ T # {}
    BY <1>0 DEF Members
  <1>2. \E x \in T : \A y \in T : y <= x
    BY <1>0, <1>1, BoundedMaxExists
  <1>3. \E i \in Members(d) : d[i].name = k /\ \A j \in Members(d) : d[j].name = k => j <= i
    BY <1>2
  <1> QED BY <1>3 DEF LastMember

(* Every value json_to_values stores is the text of a JSON string.         *)
LEMMA ObjectValuesTyped ==
  ASSUME NEW d \in Seq(JTokens), NEW k \in DOMAIN ObjectValues(d)
  PROVE  ObjectValues(d)[k] \in Texts
  <1>1. \E i \in Members(d) : d[i].name = k
    BY DEF ObjectValues
  <1>2. LastMember(d, k) \in 1 .. Len(d)
    BY <1>1, LastMemberIsMember DEF Members
  <1>3. d[LastMember(d, k)] \in JTokens
    BY <1>2
  <1>4. ObjectValues(d)[k] = d[LastMember(d, k)].val.text
    BY <1>1 DEF ObjectValues
  <1> QED BY <1>3, <1>4 DEF JTokens, JValues

(* lexical_cast<unsigned int> of a text, when it does not throw, is a      *)
(* number.                                                                 *)
LEMMA CastTyped ==
  ASSUME NEW t \in Texts, LexicalCastUInt(t).ok
  PROVE  LexicalCastUInt(t).n \in Nat
  <1>1. t.n \in Nat
    BY DEF Texts
  <1>2. CASE t.kind = "dec" /\ t.n < 2 ^ UIntBits
    BY <1>1, <1>2 DEF LexicalCastUInt
  <1>3. CASE ~(t.kind = "dec" /\ t.n < 2 ^ UIntBits) /\ t.kind = "neg" /\ t.n < 2 ^ UIntBits
    <2>1. (2 ^ UIntBits - t.n) % 2 ^ UIntBits \in Nat
      BY <1>1, <1>3, UIntBitsAssumption
    <2> QED BY <1>3, <2>1 DEF LexicalCastUInt
  <1>4. CASE ~(t.kind = "dec" /\ t.n < 2 ^ UIntBits) /\ ~(t.kind = "neg" /\ t.n < 2 ^ UIntBits)
    BY <1>4 DEF LexicalCastUInt
  <1> QED BY <1>2, <1>3, <1>4

InfoRecords == [name : Texts, major : Nat, minor : Nat]

(* get_server_information, when it returns, returns a name text and two   *)
(* numbers read from the reply's object.                                   *)
LEMMA ServerInformationTyped ==
  ASSUME NEW code, NEW ctype, NEW d \in Seq(JTokens),
         ServerInformation(code, ctype, d).ok
  PROVE  ServerInformation(code, ctype, d).info \in InfoRecords
  <1> DEFINE r == ResponseValues(code, ctype, d)
  <1> DEFINE v == r.values
  <1>1. /\ r.ok
        /\ HasValue(v, "name") /\ HasValue(v, "major") /\ HasValue(v, "minor")
        /\ LexicalCastUInt(v["major"]).ok /\ LexicalCastUInt(v["minor"]).ok
        /\ ServerInformation(code, ctype, d).info
             = [name |-> v["name"],
                major |-> LexicalCastUInt(v["major"]).n,
                minor |-> LexicalCastUInt(v["minor"]).n]
    BY DEF ServerInformation
  <1>2. v = ObjectValues(d)
    BY <1>1 DEF ResponseValues, JsonToValues
  <1>3. v["name"] \in Texts /\ v["major"] \in Texts /\ v["minor"] \in Texts
    BY <1>1, <1>2, ObjectValuesTyped DEF HasValue
  <1>4. LexicalCastUInt(v["major"]).n \in Nat /\ LexicalCastUInt(v["minor"]).n \in Nat
    BY <1>1, <1>3, CastTyped
  <1> QED BY <1>1, <1>3, <1>4 DEF InfoRecords

-----------------------------------------------------------------------------
LEMMA ClientTypeInit == Init => TypeOK
  <1> SUFFICES ASSUME Init PROVE TypeOK
    OBVIOUS
  <1>1. reply \in Replies
    BY DEF Init
  <1>2. Len(reply.body) \in Nat
    BY <1>1 DEF Reply
  <1>3. info \in [name : Texts, major : Nat, minor : Nat]
    BY DEF Init, NoInfo, Text, Texts
  <1>4. m_scheme \in {"http://", "https://"} /\ request.connect_timeout \in Nat
    BY DEF Init, SchemeOf, ConfigureRequest
  <1>5. calls \in 0 .. MaxCalls /\ sent \in 0 .. Len(reply.body)
    BY <1>2, MaxCallsAssumption DEF Init
  <1> QED BY <1>1, <1>3, <1>4, <1>5 DEF Init, TypeOK

LEMMA ClientTypeStep == TypeOK /\ [Next]_vars => TypeOK'
  <1> SUFFICES ASSUME TypeOK, [Next]_vars PROVE TypeOK'
    OBVIOUS
  <1>0. Len(reply.body) \in Nat /\ reply.body \in Seq(JTokens)
    BY DEF TypeOK, Reply
  <1>1. CASE Connect
    <2>1. PICK r \in Replies : reply' = r
      BY <1>1 DEF Connect
    <2>2. Len(reply'.body) \in Nat
      BY <2>1 DEF Reply
    <2>3. request'.connect_timeout \in Nat
      BY <1>1 DEF Connect, ConfigureRequest
    <2>4. calls' \in 0 .. MaxCalls /\ sent' \in 0 .. Len(reply'.body)
      BY <1>1, <2>2, MaxCallsAssumption DEF Connect, TypeOK
    <2>5. info' \in [name : Texts, major : Nat, minor : Nat]
      BY <1>1 DEF Connect, NoInfo, Text, Texts
    <2> QED BY <1>1, <2>1, <2>3, <2>4, <2>5 DEF Connect, TypeOK
  <1>2. CASE Accept
    BY <1>2 DEF Accept, Throw, TypeOK
  <1>3. CASE Refused
    BY <1>3 DEF Refused, Throw, TypeOK
  <1>4. CASE ConnectTimeout
    BY <1>4 DEF ConnectTimeout, Throw, TypeOK
  <1>5. CASE ReadData
    <2>1. reply.body[sent + 1] \in JTokens
      BY <1>0, <1>5 DEF ReadData, TypeOK
    <2>2. m_data' \in Seq(JTokens)
      BY <2>1, <1>5 DEF ReadData, TypeOK
    <2>3. sent' \in 0 .. Len(reply.body)
      BY <1>0, <1>5 DEF ReadData, TypeOK
    <2> QED BY <1>5, <2>2, <2>3 DEF ReadData, TypeOK
  <1>6. CASE TransferReset
    BY <1>6 DEF TransferReset, Throw, TypeOK
  <1>7. CASE TransferComplete
    BY <1>7 DEF TransferComplete, TypeOK
  <1>8. CASE Finish
    <2> DEFINE s == ServerInformation(reply.code, reply.ctype, m_data)
    <2>1. CASE s.ok
      <3>1. s.info \in InfoRecords
        BY <2>1, ServerInformationTyped DEF TypeOK
      <3> QED BY <1>8, <2>1, <3>1 DEF Finish, TypeOK, InfoRecords
    <2>2. CASE ~s.ok
      BY <1>8, <2>2 DEF Finish, Throw, TypeOK
    <2> QED BY <2>1, <2>2
  <1>9. CASE UNCHANGED vars
    BY <1>9 DEF vars, TypeOK
  <1> QED BY <1>1, <1>2, <1>3, <1>4, <1>5, <1>6, <1>7, <1>8, <1>9 DEF Next, Perform

(* Every step of connect(), and every new call, keeps the client's         *)
(* variables in their types; in particular the information read is a name  *)
(* text and two numbers whatever members the reply's object repeats.       *)
THEOREM ClientTypeCorrect == Spec => []TypeOK
  BY ClientTypeInit, ClientTypeStep, PTL DEF Spec

-----------------------------------------------------------------------------
(* AuthenticatedInfo needs to know, when perform() hands over the reply,   *)
(* that the handle is the one configure_request built from the            *)
(* configuration, and that over https libcurl accepted the certificate.    *)
AuthInv ==
  /\ TypeOK
  /\ request = ConfigureRequest(cfg)
  /\ pc \in {"transfer", "received"} /\ m_scheme = "https://" =>
       TlsAccepts(request, reply.cert)

(* The step AuthenticatedInfo constrains.                                  *)
AuthenticatedStep ==
  result' = "ok" /\ pc = "received" /\ m_scheme = "https://" =>
    \/ reply.cert = "trusted"
    \/ reply.cert = "private_ca" /\ cfg.ca_info = "ca"
    \/ reply.cert \in {"private_ca", "untrusted"} /\ cfg.disable_peer_verification
    \/ reply.cert = "wrong_host" /\ cfg.disable_host_verification

(* A certificate libcurl accepts under the handle configure_request builds *)
(* is trusted, signed by the configured CA file, or fails a check the      *)
(* configuration disabled.                                                 *)
LEMMA TlsUnderConfig ==
  ASSUME NEW c \in Config, NEW cert, TlsAccepts(ConfigureRequest(c), cert)
  PROVE  \/ cert = "trusted"
         \/ cert = "private_ca" /\ c.ca_info = "ca"
         \/ cert \in {"private_ca", "untrusted"} /\ c.disable_peer_verification
         \/ cert = "wrong_host" /\ c.disable_host_verification
  <1> DEFINE req == ConfigureRequest(c)
  <1>1. req.ca_info = "ca" => c.ca_info = "ca"
    BY DEF ConfigureRequest
  <1>2. ~req.peer_verification => c.disable_peer_verification
    BY DEF ConfigureRequest, Config
  <1>3. ~req.host_verification => c.disable_host_verification
    BY DEF ConfigureRequest, Config
  <1> QED BY <1>1, <1>2, <1>3 DEF TlsAccepts

LEMMA AuthInit == Init => AuthInv
  BY ClientTypeInit DEF Init, AuthInv

LEMMA AuthStep == AuthInv /\ [Next]_vars => AuthInv'
  <1> SUFFICES ASSUME AuthInv, [Next]_vars PROVE AuthInv'
    OBVIOUS
  <1>0. TypeOK'
    BY ClientTypeStep DEF AuthInv
  <1>1. CASE Connect
    BY <1>0, <1>1 DEF Connect, AuthInv
  <1>2. CASE Accept
    BY <1>0, <1>2 DEF Accept, Throw, AuthInv
  <1>3. CASE Refused \/ ConnectTimeout \/ TransferReset
    BY <1>0, <1>3 DEF Refused, ConnectTimeout, TransferReset, Throw, AuthInv
  <1>4. CASE ReadData \/ TransferComplete
    BY <1>0, <1>4 DEF ReadData, TransferComplete, AuthInv
  <1>5. CASE Finish
    BY <1>0, <1>5 DEF Finish, Throw, AuthInv
  <1>6. CASE UNCHANGED vars
    BY <1>0, <1>6 DEF vars, AuthInv
  <1> QED BY <1>1, <1>2, <1>3, <1>4, <1>5, <1>6 DEF Next, Perform

(* Over https a call only reads information from a server whose           *)
(* certificate is trusted, is signed by the configured CA file, or fails a *)
(* check the configuration disabled, for every set of configurations: the  *)
(* flags configure_request sets (lines 217-240) are the ones the TLS check *)
(* of perform() uses.                                                      *)
THEOREM AuthenticatedInfoHolds == Spec => AuthenticatedInfo
  <1>1. AuthInv => AuthenticatedStep
    <2> SUFFICES ASSUME AuthInv, pc = "received", m_scheme = "https://"
                 PROVE  \/ reply.cert = "trusted"
                        \/ reply.cert = "private_ca" /\ cfg.ca_info = "ca"
                        \/ reply.cert \in {"private_ca", "untrusted"} /\ cfg.disable_peer_verification
                        \/ reply.cert = "wrong_host" /\ cfg.disable_host_verification
      BY DEF AuthenticatedStep
    <2>1. cfg \in Config /\ TlsAccepts(ConfigureRequest(cfg), reply.cert)
      BY ConfigsAssumption DEF AuthInv, TypeOK
    <2> QED BY <2>1, TlsUnderConfig
  <1>2. Spec => []AuthInv
    BY AuthInit, AuthStep, PTL DEF Spec
  <1> QED BY <1>1, <1>2, PTL DEF AuthenticatedInfo, AuthenticatedStep
=============================================================================
