------------------------------ MODULE MC_Client ------------------------------
(***************************************************************************)
(* The client on small instances: five server configurations covering      *)
(* every branch of configure_request, and replies covering every check of  *)
(* perform_request, json_to_values and assert_has_value, every TLS         *)
(* outcome and every way the transfer can stop.                            *)
(***************************************************************************)
EXTENDS Client

MCUIntBits == 8
MCMaxCalls == 2

Cfg(p, ua, px, dp, ca, dh) ==
  [protocol |-> p, user_agent |-> ua, https_proxy |-> px,
   disable_peer_verification |-> dp, ca_info |-> ca,
   disable_host_verification |-> dh]

MCConfigs ==
  { Cfg("SP_HTTPS", "", "unset", FALSE, "", FALSE),
    Cfg("SP_HTTPS", "freelan", "host", FALSE, "ca", FALSE),
    Cfg("SP_HTTPS", "", "null", TRUE, "ca", FALSE),
    Cfg("SP_HTTPS", "", "unset", FALSE, "", TRUE),
    Cfg("SP_HTTP", "freelan", "unset", FALSE, "", FALSE) }

Word == JStr(Text("word", 0))
Dec(n) == JStr(Text("dec", n))

(* A server information object whose major version is the given string.   *)
InfoBody(major) ==
  <<LBrace, Member("name", Word), Member("major", major), Member("minor", Dec(1)), RBrace>>

MCBodies ==
  { InfoBody(Dec(1)),
    InfoBody(JStr(Text("neg", 1))),                  \* "-1"
    InfoBody(Dec(2 ^ MCUIntBits)),                   \* past unsigned int
    InfoBody(Word),                                  \* not a number
    <<LBrace, Member("name", Word), Member("major", Dec(1)), RBrace>>,  \* no minor
    <<LBrace, Member("major", JNum), RBrace>>,        \* a number, not a string
    <<LBracket, RBracket>>,                           \* not an object
    <<LBrace, Member("name", Word)>>,                 \* syntax error
    <<LBrace, Member("major", Word), Member("name", Word),
      Member("minor", Dec(1)), Member("major", Dec(0)), RBrace>> } \* repeated name

R(conn, cert, reset, stall, code, ctype, body) ==
  [connect |-> conn, cert |-> cert, reset |-> reset, stall |-> stall,
   code |-> code, ctype |-> ctype, body |-> body]

Good(body) == R("ok", "trusted", FALSE, FALSE, 200, "application/json", body)

MCReplies ==
  { Good(b) : b \in MCBodies }
  \cup { R("ok", c, FALSE, FALSE, 200, "application/json", InfoBody(Dec(1))) :
           c \in {"private_ca", "untrusted", "wrong_host"} }
  \cup { R("ok", "trusted", FALSE, FALSE, 404, "application/json", InfoBody(Dec(1))),
         R("ok", "trusted", FALSE, FALSE, 200, "application/json; charset=utf-8", InfoBody(Dec(1))),
         R("ok", "trusted", TRUE, FALSE, 200, "application/json", InfoBody(Dec(1))),
         R("refused", "trusted", FALSE, FALSE, 0, "", <<>>),
         R("silent", "trusted", FALSE, FALSE, 0, "", <<>>) }

(* A server that accepts the request and stops sending half-way.           *)
MCRepliesStall ==
  MCReplies \cup {R("ok", "trusted", FALSE, TRUE, 200, "application/json",
                    <<LBrace, Member("name", Word)>>)}
=============================================================================
