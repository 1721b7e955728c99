------------------------------- MODULE MCLogin -------------------------------
EXTENDS Login

MCNames == {"", "root", "rOOt", "eve", "a,b", "\t"}
MCReserved == {"a,b"}

\* "rOOt" stands for a name stringprep maps to another one.
MCSASLprep ==
  [n \in MCNames |-> CASE n = "rOOt" -> "root" [] n = "\t" -> "" [] OTHER -> n]

MCAccount ==
  [name |-> "root", password |-> "secret", token |-> "123456", apiKeyID |-> 7,
   secret |-> "K", salt |-> "salt"]

-----------------------------------------------------------------------------
(* Keys *)

Raw(id, secret) == [secret |-> secret, id |-> id, dash |-> TRUE]
RawText(r) == [syntax |-> "raw", raw |-> r]
File(text) == [syntax |-> "path", holds |-> text]

Precomputed(iterations) ==
  LET salted == Salted("K", "salt", iterations) IN
  [client_key |-> [type |-> "string", is |-> ClientKey(salted)],
   stored_key |-> [type |-> "string", is |-> StoredKey(salted)],
   server_key |-> [type |-> "string", is |-> ServerKey(salted)],
   api_key_id |-> [type |-> "number", is |-> 7]]

Good == Precomputed(50000)

JsonText(data) == [syntax |-> "json", data |-> data]

KeyTexts == {
  RawText(Raw(7, "K")), RawText(Raw(7, "wrong")), RawText(Raw(8, "K")), RawText(Raw(NotInt, "K")),
  File(RawText(Raw(7, "K"))), [syntax |-> "path"],
  JsonText([raw_key |-> [type |-> "string", is |-> Raw(7, "K")]]),
  File(JsonText(Good)),
  JsonText([Good EXCEPT !["server_key"].is = <<"server", <<"old", "salt", 50000>>>>]),
  JsonText([Good EXCEPT !["client_key"].is = ShortKey]),
  JsonText([f \in DOMAIN Good \ {"stored_key"} |-> Good[f]])}

-----------------------------------------------------------------------------

Key(name, text, bind, method) == [name |-> name, bind |-> bind, method |-> method, key |-> text]

MCOptions ==
  {[name |-> "root", password |-> p, method |-> "password", otp |-> t] :
      p \in {"secret", "guess"}, t \in {"", "123456", "000000"}}
  \cup {Key("root", text, TRUE, "SCRAM") : text \in KeyTexts}
  \cup {Key(n, RawText(Raw(7, "K")), TRUE, "SCRAM") : n \in MCNames}
  \cup {Key("root", text, FALSE, m) : m \in {"SCRAM", "PLAIN"},
                                      text \in {RawText(Raw(7, "K")), File(JsonText(Good))}}
  \cup {Key(n, RawText(Raw(7, "K")), TRUE, "PLAIN") : n \in {"", "eve"}}
  \cup {Key("root", RawText(Raw(7, "K")), TRUE, "GSSAPI")}

\* A server of one release, and ones that differ from it in one thing.
Goldeye ==
  [iterations |-> 50000, choices |-> "listed", mechanisms |-> {"SCRAM", "API_KEY_PLAIN"},
   loginEx |-> TRUE, twoFactor |-> FALSE, nonceSize |-> 64, saltSize |-> 16]

Servers ==
  {Goldeye,
   [Goldeye EXCEPT !.twoFactor = TRUE],
   [Goldeye EXCEPT !.mechanisms = {"API_KEY_PLAIN"}],
   [Goldeye EXCEPT !.choices = "broken"],
   [Goldeye EXCEPT !.choices = "missing", !.loginEx = FALSE],
   [Goldeye EXCEPT !.choices = "missing", !.loginEx = FALSE, !.twoFactor = TRUE],
   [Goldeye EXCEPT !.iterations = 49999],
   [Goldeye EXCEPT !.iterations = 5000000],
   [Goldeye EXCEPT !.iterations = 5000001],
   [Goldeye EXCEPT !.saltSize = 1025]}

Certificate(signature, key) == [key |-> key, signature |-> signature]
Tls(mine, servers) == [transport |-> "tls", cert |-> mine, serverCert |-> servers]
Plain(transport) ==
  [transport |-> transport, cert |-> Certificate("", "none"), serverCert |-> Certificate("", "none")]

Links ==
  {Tls(Certificate(s, "mine"), Certificate(s, "mine")) : s \in {"SHA1", "SHA384", "EdDSA"}}
  \cup {Tls(Certificate("SHA256", "other"), Certificate("SHA256", "mine")),
        Plain("tcp"), Plain("unix")}

\* Every server over TLS, and every connection to the usual server.
MCSites ==
  {<<s, l>> \in Servers \X Links :
     s = Goldeye \/ l = Tls(Certificate("SHA1", "mine"), Certificate("SHA1", "mine"))}
=============================================================================
