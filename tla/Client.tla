-------------------------------- MODULE Client --------------------------------
(***************************************************************************)
(* The HTTP client of src/client.cpp: connect() builds a curl handle       *)
(* (configure_request), asks the server for its information               *)
(* (get_server_information, perform_get_request, perform_request) and      *)
(* decodes the reply (json_to_values, assert_has_value).                   *)
(*                                                                         *)
(* curl::perform() runs synchronously: it connects (bounded by the connect *)
(* timeout), checks the server's certificate as the handle's verification  *)
(* flags say, and hands the body to the write callback read_data chunk by  *)
(* chunk, which appends it to the member m_data.  Those steps are the      *)
(* server's and libcurl's and are modelled as separate actions, each one a *)
(* point where the transfer may stop.  A reply is one of the constant set  *)
(* Replies: how the server behaves for one request.                        *)
(*                                                                         *)
(* The body is a sequence of JSON tokens (braces, brackets and name/value  *)
(* members); rapidjson's parse of the concatenation is modelled by what it *)
(* accepts.  A JSON string is abstracted to the text kinds the code tells  *)
(* apart: a word, decimal digits, '-' then digits, the empty string.        *)
(***************************************************************************)
EXTENDS Naturals, Sequences

CONSTANTS
  Configs,    \* the server configurations the client may be built with
  Replies,    \* how the server may answer one request
  MaxCalls,   \* how many times the caller calls connect()
  UIntBits    \* the width of unsigned int (32 in the builds; less in TLC)

ASSUME MaxCallsAssumption == MaxCalls \in Nat
ASSUME UIntBitsAssumption == UIntBits \in Nat \ {0}

(* The text of a JSON string and a JSON value.                             *)
Text(k, n) == [kind |-> k, n |-> n]
Texts == [kind : {"word", "dec", "neg", "empty"}, n : Nat]
JStr(t) == [type |-> "string", text |-> t]
JNum == [type |-> "number", text |-> Text("empty", 0)]
JValues == [type : {"string", "number"}, text : Texts]

(* A token of the body.                                                    *)
Punct(p) == [t |-> p, name |-> "", val |-> JNum]
LBrace == Punct("{")
RBrace == Punct("}")
LBracket == Punct("[")
RBracket == Punct("]")
Member(k, v) == [t |-> "member", name |-> k, val |-> v]
JTokens == [t : {"{", "}", "[", "]", "member"}, name : STRING, val : JValues]

Reply == [connect : {"ok", "refused", "silent"},
          cert : {"trusted", "private_ca", "untrusted", "wrong_host"},
          reset : BOOLEAN, stall : BOOLEAN,
          code : Nat, ctype : STRING, body : Seq(JTokens)]

Config == [protocol : {"SP_HTTP", "SP_HTTPS"}, user_agent : STRING,
           https_proxy : {"unset", "null", "host"},
           disable_peer_verification : BOOLEAN, ca_info : STRING,
           disable_host_verification : BOOLEAN]

ASSUME ConfigsAssumption == Configs \subseteq Config
ASSUME RepliesAssumption == Replies \subseteq Reply /\ Replies # {}

VARIABLES
  cfg,       \* m_configuration.server
  m_scheme,  \* set by the constructor
  request,   \* the curl handle of the running connect()
  m_data,    \* the member the write callback appends to
  reply,     \* the server's behaviour for the running request
  sent,      \* how many body tokens the server has sent
  pc,        \* "idle", "connecting", "transfer", "received"
  calls,     \* how many connect() calls were made
  result,    \* how the last connect() ended: "none", "ok", "throw"
  info       \* what get_server_information read: name, major, minor

vars == <<cfg, m_scheme, request, m_data, reply, sent, pc, calls, result, info>>

NoInfo == [name |-> Text("empty", 0), major |-> 0, minor |-> 0]

(* server_protocol_to_scheme (lines 67-78); the throw at line 77 is        *)
(* unreachable for the two enumerators.                                    *)
SchemeOf(p) == IF p = "SP_HTTP" THEN "http://" ELSE "https://"

(* Mutant: the host verification flag taken from the peer verification    *)
(* option.                                                                 *)
ConfigureRequestSwapped(c) ==
  [connect_timeout |-> 5,
   user_agent |-> IF c.user_agent = "" THEN "libcurl" ELSE c.user_agent,
   proxy |-> IF c.https_proxy = "unset" THEN "default" ELSE c.https_proxy,
   peer_verification |-> ~c.disable_peer_verification,
   ca_info |-> IF ~c.disable_peer_verification /\ c.ca_info # ""
               THEN c.ca_info ELSE "default",
   host_verification |-> ~c.disable_peer_verification,
   write_function |-> TRUE]

(* configure_request (lines 185-244): a 5 s connect timeout (0 is none),   *)
(* the user agent unless empty, the proxy when one is configured (the null *)
(* endpoint disabling it), peer verification off when disabled and else    *)
(* the CA file when one is named, host verification off when disabled,     *)
(* and read_data as the write function.                                    *)
ConfigureRequest(c) ==
  [connect_timeout |-> 5,
   user_agent |-> IF c.user_agent = "" THEN "libcurl" ELSE c.user_agent,
   proxy |-> IF c.https_proxy = "unset" THEN "default" ELSE c.https_proxy,
   peer_verification |-> ~c.disable_peer_verification,
   ca_info |-> IF ~c.disable_peer_verification /\ c.ca_info # ""
               THEN c.ca_info ELSE "default",
   host_verification |-> ~c.disable_host_verification,
   write_function |-> TRUE]

(* libcurl's TLS check of the server's certificate under the handle's      *)
(* flags: a private CA is trusted only through the configured CA file.     *)
TlsAccepts(req, cert) ==
  \/ cert = "trusted"
  \/ cert = "private_ca" /\ req.ca_info = "ca"
  \/ cert \in {"private_ca", "untrusted"} /\ ~req.peer_verification
  \/ cert = "wrong_host" /\ ~req.host_verification

-----------------------------------------------------------------------------
(* rapidjson's Parse<0>: an object of members, or an empty array; any      *)
(* other token sequence is a syntax error.                                 *)
IsObject(d) ==
  /\ Len(d) >= 2 /\ d[1] = LBrace /\ d[Len(d)] = RBrace
  /\ \A i \in 2 .. Len(d) - 1 : d[i].t = "member"
IsArray(d) == d = <<LBracket, RBracket>>

Members(d) == 2 .. Len(d) - 1

(* values[name] = value in document order: a repeated name keeps its last  *)
(* value.                                                                  *)
LastMember(d, k) ==
  CHOOSE i \in Members(d) : d[i].name = k /\ \A j \in Members(d) : d[j].name = k => j <= i
ObjectValues(d) ==
  [k \in {d[i].name : i \in Members(d)} |-> d[LastMember(d, k)].val.text]

(* json_to_values (lines 112-143).                                         *)
JsonToValues(d) ==
  CASE ~IsObject(d) /\ ~IsArray(d) -> [ok |-> FALSE]                  \* line 122
    [] ~IsObject(d) -> [ok |-> FALSE]                                 \* line 127
    [] \E i \in Members(d) : d[i].val.type # "string" -> [ok |-> FALSE] \* line 136
    [] OTHER -> [ok |-> TRUE, values |-> ObjectValues(d)]

(* boost::lexical_cast<unsigned int>: decimal digits in range; a '-' sign  *)
(* is accepted and the magnitude negated modulo 2^UIntBits; anything else  *)
(* throws bad_lexical_cast.                                                *)
LexicalCastUInt(t) ==
  CASE t.kind = "dec" /\ t.n < 2 ^ UIntBits -> [ok |-> TRUE, n |-> t.n]
    [] t.kind = "neg" /\ t.n < 2 ^ UIntBits ->
         [ok |-> TRUE, n |-> (2 ^ UIntBits - t.n) % 2 ^ UIntBits]
    [] OTHER -> [ok |-> FALSE, n |-> 0]

(* perform_request after request.perform() returned (lines 254-280): the  *)
(* response code, the content type, then json_to_values of m_data.        *)
ResponseValues(code, ctype, data) ==
  CASE code # 200 -> [ok |-> FALSE]                                 \* line 264
    [] ctype # "application/json" -> [ok |-> FALSE]                 \* line 274
    [] OTHER -> JsonToValues(data)                                  \* line 278

(* has_value and assert_has_value (lines 80-100): the key is present.      *)
HasValue(values, key) == key \in DOMAIN values

(* get_server_information (lines 305-327) once perform_get_request        *)
(* returned: assert_has_value of "name", then "major" and "minor" cast to *)
(* unsigned int, each throwing in this order.                              *)
ServerInformation(code, ctype, data) ==
  LET r == ResponseValues(code, ctype, data)
      v == r.values
  IN  CASE ~r.ok -> [ok |-> FALSE]
        [] ~HasValue(v, "name") -> [ok |-> FALSE]
        [] ~HasValue(v, "major") \/ ~LexicalCastUInt(v["major"]).ok -> [ok |-> FALSE]
        [] ~HasValue(v, "minor") \/ ~LexicalCastUInt(v["minor"]).ok -> [ok |-> FALSE]
        [] OTHER -> [ok |-> TRUE,
                     info |-> [name |-> v["name"],
                               major |-> LexicalCastUInt(v["major"]).n,
                               minor |-> LexicalCastUInt(v["minor"]).n]]

-----------------------------------------------------------------------------
(* The constructor (lines 165-170); m_data starts empty.  request and      *)
(* reply stand for the handle and reply of the last call, none yet.        *)
Init ==
  /\ cfg \in Configs
  /\ m_scheme = SchemeOf(cfg.protocol)
  /\ request = ConfigureRequest(cfg)
  /\ m_data = <<>>
  /\ reply = CHOOSE r \in Replies : TRUE    \* no request yet
  /\ sent = 0
  /\ pc = "idle"
  /\ calls = 0
  /\ result = "none"
  /\ info = NoInfo

(* A call ends: perform() or a check threw, or the information was read.   *)
Throw ==
  /\ pc' = "idle"
  /\ result' = "throw"
  /\ UNCHANGED info

(* Mutant: perform_request without m_data.clear() (line 250).              *)
ConnectNoClear ==
  /\ pc = "idle"
  /\ calls < MaxCalls
  /\ request' = ConfigureRequest(cfg)
  /\ \E r \in Replies : reply' = r
  /\ sent' = 0
  /\ pc' = "connecting"
  /\ calls' = calls + 1
  /\ result' = "none"
  /\ info' = NoInfo
  /\ UNCHANGED <<cfg, m_scheme, m_data>>

(* connect() (lines 172-183) up to request.perform(): a fresh handle       *)
(* configured by configure_request, get_server_information's GET of        *)
(* m_scheme + host + "/api/information" (lines 312-320, 283-290), and      *)
(* perform_request's set_url and m_data.clear() (lines 248-250).           *)
Connect ==
  /\ pc = "idle"
  /\ calls < MaxCalls
  /\ request' = ConfigureRequest(cfg)
  /\ \E r \in Replies : reply' = r
  /\ m_data' = <<>>
  /\ sent' = 0
  /\ pc' = "connecting"
  /\ calls' = calls + 1
  /\ result' = "none"
  /\ info' = NoInfo
  /\ UNCHANGED <<cfg, m_scheme>>

(* The server accepts the connection; over https libcurl checks its        *)
(* certificate and perform() throws when the check fails.                  *)
Accept ==
  /\ pc = "connecting"
  /\ reply.connect = "ok"
  /\ \/ /\ m_scheme = "http://" \/ TlsAccepts(request, reply.cert)
        /\ pc' = "transfer"
        /\ UNCHANGED <<result, info>>
     \/ /\ m_scheme = "https://" /\ ~TlsAccepts(request, reply.cert)
        /\ Throw
  /\ UNCHANGED <<cfg, m_scheme, request, m_data, reply, sent, calls>>

(* The connection is refused: perform() throws.                            *)
Refused ==
  /\ pc = "connecting"
  /\ reply.connect = "refused"
  /\ Throw
  /\ UNCHANGED <<cfg, m_scheme, request, m_data, reply, sent, calls>>

(* The server never answers: libcurl's connect timeout fires, the 5 s of   *)
(* line 188 (a timeout of 0 would mean libcurl's default, 300 s).          *)
ConnectTimeout ==
  /\ pc = "connecting"
  /\ reply.connect = "silent"
  /\ Throw
  /\ UNCHANGED <<cfg, m_scheme, request, m_data, reply, sent, calls>>

(* read_data (lines 329-337): the write callback appends the next chunk    *)
(* to m_data and reports it all consumed.                                  *)
ReadData ==
  /\ pc = "transfer"
  /\ sent < Len(reply.body)
  /\ m_data' = Append(m_data, reply.body[sent + 1])
  /\ sent' = sent + 1
  /\ UNCHANGED <<cfg, m_scheme, request, reply, pc, calls, result, info>>

(* The connection breaks during the transfer: perform() throws, m_data     *)
(* keeps what arrived.                                                     *)
TransferReset ==
  /\ pc = "transfer"
  /\ reply.reset
  /\ Throw
  /\ UNCHANGED <<cfg, m_scheme, request, m_data, reply, sent, calls>>

(* The whole body arrived: perform() returns.                              *)
TransferComplete ==
  /\ pc = "transfer"
  /\ sent = Len(reply.body)
  /\ ~reply.reset /\ ~reply.stall
  /\ pc' = "received"
  /\ UNCHANGED <<cfg, m_scheme, request, m_data, reply, sent, calls, result, info>>

(* The checks after perform() (lines 254-280) and the reading of the       *)
(* three values (lines 322-324): connect() returns or throws.              *)
Finish ==
  /\ pc = "received"
  /\ LET s == ServerInformation(reply.code, reply.ctype, m_data)
     IN  \/ /\ s.ok
            /\ pc' = "idle"
            /\ result' = "ok"
            /\ info' = s.info
         \/ /\ ~s.ok
            /\ Throw
  /\ UNCHANGED <<cfg, m_scheme, request, m_data, reply, sent, calls>>

(* The steps of a running connect(), libcurl's and the server's included.  *)
Perform ==
  Accept \/ Refused \/ ConnectTimeout \/ ReadData \/ TransferReset
  \/ TransferComplete \/ Finish

Next == Connect \/ Perform

(* A running call is never stopped for good while one of its steps can    *)
(* happen: the program waits in perform(), and the connect timeout fires.  *)
(* The caller's next connect() is not assumed.                             *)
Spec == Init /\ [][Next]_vars /\ WF_vars(Perform)

-----------------------------------------------------------------------------
(* Type invariant.                                                         *)
TypeOK ==
  /\ cfg \in Configs
  /\ m_scheme \in {"http://", "https://"}
  /\ request.connect_timeout \in Nat
  /\ m_data \in Seq(JTokens)
  /\ reply \in Replies
  /\ sent \in 0 .. Len(reply.body)
  /\ pc \in {"idle", "connecting", "transfer", "received"}
  /\ calls \in 0 .. MaxCalls
  /\ result \in {"none", "ok", "throw"}
  /\ info \in [name : Texts, major : Nat, minor : Nat]

(* The write callback's buffer holds exactly what the server has sent for  *)
(* the running request, nothing left over from an earlier call that failed *)
(* or succeeded: m_data.clear() (line 250) before perform(), against the   *)
(* appends of read_data (line 334); once perform() has returned, it is the *)
(* whole body json_to_values decodes.                                      *)
BufferHoldsCurrentReply ==
  /\ pc = "connecting" => m_data = <<>> /\ sent = 0
  /\ pc \in {"transfer", "received"} => m_data = SubSeq(reply.body, 1, sent)
  /\ pc = "received" => sent = Len(reply.body)

(* Over https a call only reads information from a server whose           *)
(* certificate is trusted, is signed by the configured CA file, or fails   *)
(* a check the configuration disabled (configure_request, lines 217-240).  *)
AuthenticatedInfo ==
  [][result' = "ok" /\ pc = "received" /\ m_scheme = "https://" =>
       \/ reply.cert = "trusted"
       \/ reply.cert = "private_ca" /\ cfg.ca_info = "ca"
       \/ reply.cert \in {"private_ca", "untrusted"} /\ cfg.disable_peer_verification
       \/ reply.cert = "wrong_host" /\ cfg.disable_host_verification]_vars

(* Every connect() returns or throws ("Set the timeout", line 187).        *)
CallReturns == pc # "idle" ~> pc = "idle"

(* The version numbers read are the numbers the server wrote: a major or   *)
(* minor version only comes from a decimal text of that value.             *)
VersionIsServerNumber ==
  [][result' = "ok" /\ pc = "received" =>
       LET v == ObjectValues(reply.body)
       IN  v["major"] = Text("dec", info'.major) /\ v["minor"] = Text("dec", info'.minor)]_vars
=============================================================================
