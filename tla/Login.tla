-------------------------------- MODULE Login --------------------------------
(***************************************************************************)
(* LoginWithPassword and LoginWithAPIKey (auth.go): a sequence of API      *)
(* calls to a server that keeps a session per connection.  A call ends     *)
(* with the server's answer or, at its deadline or with the connection,    *)
(* without; the server may still serve it then, while the user already     *)
(* tries to log in again.  One action is what the client does from the     *)
(* return of one call to the start of the next.                            *)
(***************************************************************************)
EXTENDS Integers, KeyFile, Scram

CONSTANTS Options,     \* the arguments of the logins users try
          Sites,       \* the pairs of a server (its version and configuration)
                       \* and a connection to it
          Account,     \* the one account of the server
          MaxAttempts  \* bound on the logins tried over one connection

\* A certificate is known by its key; what is empty is never right.
ASSUME LoginAssumption ==
  /\ MaxAttempts \in Nat
  /\ \A site \in Sites :
       /\ site = <<site[1], site[2]>> /\ site[1].choices \in {"listed", "missing", "broken"}
       /\ site[2].transport \in {"tls", "tcp", "unix"}
       /\ site[2].cert.key = site[2].serverCert.key => site[2].cert = site[2].serverCert
  /\ \A o \in Options : o.name \in Names /\ (o.method = "password" \/ IsText(o.key))
  /\ Account.name # "" /\ Account.token # "" /\ Account.secret # ""

VARIABLES
  server,     \* the server
  link,       \* the connection to it
  attempt,    \* number of the login tried last
  option,     \* its arguments
  keyData,    \* the material of its key
  pc,         \* the call it waits for
  result,     \* what it has returned
  number,     \* number of the call made last
  first,      \* the client-first message of this login
  final,      \* its client-final message
  wire,       \* requests the server has not served
  reply,      \* the answer to the call made last
  session,    \* the login the server's session comes from, 0 for none
  exchange,   \* the SCRAM exchange the server has begun
  asked,      \* the server has asked for a one-time password
  blame       \* history: what each login could not help

clientVars == <<attempt, option, keyData, pc, result, number, first, final>>
serverVars == <<session, exchange, asked>>
vars == <<server, link, clientVars, wire, reply, serverVars, blame>>

Attempts == 1..MaxAttempts
Calls == {"choices", "plain", "first", "final", "logout", "password", "legacy", "otp"}
Declined == {"EXPIRED", "DENIED", "REDIRECT", "odd"}

None == [kind |-> "none"]
Verdict(type) == [kind |-> "verdict", type |-> type]
Failure(reason) == [kind |-> "error", reason |-> reason]

TypeOK ==
  /\ <<server, link>> \in Sites
  /\ attempt \in 0..MaxAttempts /\ option \in Options /\ keyData.ok \in BOOLEAN
  /\ pc \in Calls \cup {"idle", "returned"}
  /\ result \in {"idle", "running", "ok", "error"}
  /\ result = "running" <=> pc \in Calls
  /\ number \in Nat
  /\ \A r \in wire : r.n \in 1..number /\ r.attempt \in 1..attempt /\ r.op \in Calls
  /\ reply.kind \in {"none", "error", "choices", "verdict", "scram", "bool"}
  /\ reply # None => pc \in Calls
  /\ session \in 0..attempt /\ asked \in BOOLEAN
  /\ blame \in [Attempts -> SUBSET {"unanswered", "declined", "garbled", "kept"}]

Init ==
  /\ \E site \in Sites : server = site[1] /\ link = site[2]
  /\ attempt = 0 /\ option \in Options /\ keyData = Invalid
  /\ pc = "idle" /\ result = "idle" /\ number = 0
  /\ first = Refused /\ final = Refused
  /\ wire = {} /\ reply = None
  /\ session = 0 /\ exchange = Refused /\ asked = FALSE
  /\ blame = [a \in Attempts |-> {}]

-----------------------------------------------------------------------------
(* API calls and the end of a login *)

\* The next call of this login, with the arguments in body.
Calling(op, body) ==
  /\ pc' = op
  /\ number' = number + 1
  /\ wire' = wire \cup {[n |-> number + 1, attempt |-> attempt', op |-> op, body |-> body]}
  /\ reply' = None /\ result' = "running"

Returns(what) ==
  /\ pc' = "returned" /\ result' = what
  /\ reply' = None
  /\ UNCHANGED <<number, wire>>

Failing == Returns("error")

\* A form without a deadline for the call that ends the session, which no
\* specification uses.
DeadlineOfLogins(call) == call # "logout"

\* Call bounds every call of a login by the default timeout.
HasDeadline(call) == TRUE

\* The call ends without an answer, which ends the login.
CallFails ==
  /\ pc \in Calls /\ HasDeadline(pc)
  /\ blame' = [blame EXCEPT ![attempt] = @ \cup {"unanswered"}]
  /\ Failing
  /\ UNCHANGED <<server, link, attempt, option, keyData, first, final, serverVars>>

\* The answer to the call this login waits for has been read.
Answered(call) ==
  /\ pc = call /\ reply # None
  /\ UNCHANGED <<server, link, attempt, option, keyData, serverVars, blame>>

-----------------------------------------------------------------------------
(* Wrong forms of definitions below, which no specification uses. *)

\* SCRAM is replaced by PLAIN when the server does not offer it.
ChosenOf(mechanisms, mechanism) ==
  IF mechanism = "SCRAM" /\ "SCRAM" \notin mechanisms THEN "PLAIN" ELSE mechanism

\* The server asks for the token once more and gets it once more.
TokenAlways == option.otp

\* The session stays although the server cannot be trusted.
DistrustOnly == Failing

\* An answer is for whatever call is the last one.
HeardAlways(r, answer) == answer

-----------------------------------------------------------------------------
(* LoginWithAPIKey *)

Material(o) == IF o.method = "password" THEN Invalid ELSE KeyMaterial(o.key)

Begin(o) ==
  /\ pc \in {"idle", "returned"} /\ attempt < MaxAttempts
  /\ attempt' = attempt + 1
  /\ option' = o
  /\ keyData' = Material(o)
  /\ IF o.method = "password"
       THEN Calling("password", [name |-> o.name, password |-> o.password])
     ELSE IF keyData'.ok THEN Calling("choices", <<>>) ELSE Failing
  /\ UNCHANGED <<server, link, first, final, serverVars, blame>>

\* A server without the method, or with one that cannot be called before login,
\* is one without SCRAM.
Unknown(r) == r.kind = "error" /\ r.reason \in {"missing", "broken"}

Offered(r) ==
  CASE r.kind = "choices" -> r.mechanisms
    [] Unknown(r) -> {"API_KEY_PLAIN"}
    [] OTHER -> {}

\* The mechanism used; what the server offers does not change it.
Chosen(mechanisms, mechanism) == mechanism

\* resolveChannelBinding
Exempt == link.transport = "unix"

Binding ==
  IF ~option.bind \/ link.transport # "tls" THEN NoBinding ELSE EndPoint(link.cert)

BindingResolved ==
  IF ~option.bind THEN TRUE
  ELSE IF link.transport = "tls" THEN EndPoint(link.cert) # NoBinding ELSE Exempt

StartPlain ==
  IF keyData.raw /\ option.name # ""
    THEN Calling("plain", [name |-> option.name, id |-> keyData.apiKeyID, secret |-> keyData.secret])
    ELSE Failing

StartScram(mechanisms) ==
  LET hello == NewClientFirst(option.name, keyData.apiKeyID, Binding, number + 1) IN
  IF "SCRAM" \in mechanisms /\ BindingResolved /\ hello.ok
    THEN Calling("first", hello) /\ first' = hello
    ELSE Failing /\ UNCHANGED first

GotChoices ==
  /\ Answered("choices")
  /\ LET mechanism == Chosen(Offered(reply), option.method) IN
     CASE reply.kind = "error" /\ ~Unknown(reply) -> Failing /\ UNCHANGED first
       [] mechanism = "PLAIN" -> StartPlain /\ UNCHANGED first
       [] mechanism = "SCRAM" -> StartScram(Offered(reply))
       [] OTHER -> Failing /\ UNCHANGED first
  /\ UNCHANGED final

\* checkAPIKeyResponse, and the same case of handleLoginExResponse.
Accepted(r) == r = Verdict("SUCCESS")

GotPlain ==
  /\ Answered("plain")
  /\ IF Accepted(reply) THEN Returns("ok") ELSE Failing
  /\ UNCHANGED <<first, final>>

\* The keys that sign: derived from a raw key, or as the file has them.
Keys(challenge) ==
  IF keyData.raw
    THEN LET salted == Salted(keyData.secret, challenge["s"].salt, challenge["i"])
         IN [client |-> ClientKey(salted), stored |-> StoredKey(salted), server |-> ServerKey(salted)]
    ELSE [client |-> keyData.keys["client_key"], stored |-> keyData.keys["stored_key"],
          server |-> keyData.keys["server_key"]]

GotFirst ==
  /\ Answered("first")
  /\ IF /\ reply.kind = "scram" /\ reply.type = "SERVER_FIRST_RESPONSE"
        /\ AcceptableServerFirst(reply.rfc)
        /\ keyData.raw => CanHash(keyData.secret, reply.rfc["s"])
       THEN LET keys == Keys(reply.rfc)
                m == NewClientFinal(first, reply.rfc, keys.client, keys.stored, Binding)
            IN IF m.ok THEN /\ Calling("final", [c |-> m.message.c, r |-> m.message.r, proof |-> m.proof])
                            /\ final' = [ok |-> TRUE, message |-> m.message, serverKey |-> keys.server]
                       ELSE Failing /\ UNCHANGED final
       ELSE Failing /\ UNCHANGED final
  /\ UNCHANGED first

\* The server has signed what the client has signed, with the key it should have.
Trusted(r) == SignatureVerifies(r.rfc.signature, final.serverKey, final.message)

\* By now the server has logged the client in.
Distrust == Calling("logout", <<>>)

GotFinal ==
  /\ Answered("final")
  /\ IF reply.kind = "scram" /\ reply.type = "SERVER_FINAL_RESPONSE" /\ reply.rfc.readable
       THEN IF Trusted(reply) THEN Returns("ok") ELSE Distrust
       ELSE Failing
  /\ UNCHANGED <<first, final>>

\* Whatever comes of auth.logout, the login has failed.
GotLogout ==
  /\ Answered("logout")
  /\ Failing
  /\ UNCHANGED <<first, final>>

-----------------------------------------------------------------------------
(* LoginWithPassword *)

\* handleLoginExResponse
LoginEx(token) ==
  IF Accepted(reply) THEN Returns("ok")
  ELSE IF reply = Verdict("OTP_REQUIRED") /\ token # "" THEN Calling("otp", [token |-> token])
  ELSE Failing

\* A server before 25.04 has one method for everything.
GotPassword ==
  /\ Answered("password")
  /\ IF reply = Failure("missing")
       THEN Calling("legacy", [name |-> option.name, password |-> option.password, token |-> option.otp])
       ELSE LoginEx(option.otp)
  /\ UNCHANGED <<first, final>>

\* What the client has left when the server asks for a token again.
NextToken == ""

GotOtp ==
  /\ Answered("otp")
  /\ LoginEx(NextToken)
  /\ UNCHANGED <<first, final>>

GotLegacy ==
  /\ Answered("legacy")
  /\ IF reply = [kind |-> "bool", ok |-> TRUE] THEN Returns("ok") ELSE Failing
  /\ UNCHANGED <<first, final>>

-----------------------------------------------------------------------------
(* The server *)

\* The answer is lost on a client that does not wait for it any more.
Heard(r, answer) == IF r.n = number /\ pc \in Calls THEN answer ELSE reply

Serves(op, r, answer) ==
  /\ r.op = op
  /\ wire' = wire \ {r}
  /\ reply' = Heard(r, answer)
  /\ UNCHANGED <<server, link, clientVars>>

Excused(r, why) == blame' = [blame EXCEPT ![r.attempt] = @ \cup {why}]

ServeChoices(r) ==
  /\ Serves("choices", r, IF server.choices = "listed"
                            THEN [kind |-> "choices", mechanisms |-> server.mechanisms]
                            ELSE Failure(server.choices))
  /\ UNCHANGED <<serverVars, blame>>

\* Grants r a session if its credentials are right.
Grants(r, right) ==
  /\ session' = IF right THEN r.attempt ELSE session
  /\ UNCHANGED <<exchange, blame>>

ServePlain(r) ==
  LET right == r.body = [name |-> Account.name, id |-> Account.apiKeyID, secret |-> Account.secret] IN
  /\ server.loginEx
  /\ Serves("plain", r, Verdict(IF right THEN "SUCCESS" ELSE "AUTH_ERR"))
  /\ Grants(r, right)
  /\ UNCHANGED asked

ServePassword(r) ==
  LET right == r.body = [name |-> Account.name, password |-> Account.password] IN
  /\ server.loginEx
  /\ Serves("password", r, Verdict(IF ~right THEN "AUTH_ERR"
                                   ELSE IF server.twoFactor THEN "OTP_REQUIRED" ELSE "SUCCESS"))
  /\ Grants(r, right /\ ~server.twoFactor)
  /\ asked' = (right /\ server.twoFactor)

\* After a wrong token the server may ask again.
ServeOtp(r) ==
  LET right == asked /\ r.body.token = Account.token IN
  \E no \in {"OTP_REQUIRED", "AUTH_ERR"} :
    /\ Serves("otp", r, Verdict(IF right THEN "SUCCESS" ELSE no))
    /\ Grants(r, right)
    /\ asked' = (asked /\ ~right /\ no = "OTP_REQUIRED")

ServeLegacy(r) ==
  LET right == /\ r.body.name = Account.name /\ r.body.password = Account.password
               /\ server.twoFactor => r.body.token = Account.token
  IN /\ Serves("legacy", r, [kind |-> "bool", ok |-> right])
     /\ Grants(r, right)
     /\ UNCHANGED asked

Challenge(hello, n) ==
  [r |-> [nonce |-> <<hello.bare[3], n>>, size |-> server.nonceSize],
   s |-> [salt |-> Account.salt, size |-> server.saltSize], i |-> server.iterations]

ServeFirst(r) ==
  LET known == r.body.bare[1] = Account.name /\ r.body.bare[2] = Account.apiKeyID IN
  /\ Serves("first", r, IF known THEN [kind |-> "scram", type |-> "SERVER_FIRST_RESPONSE",
                                       rfc |-> Challenge(r.body, r.n)]
                        ELSE Verdict("AUTH_ERR"))
  /\ exchange' = IF known THEN [ok |-> TRUE, hello |-> r.body, challenge |-> Challenge(r.body, r.n)]
                          ELSE Refused
  /\ UNCHANGED <<session, asked, blame>>

\* RFC 5929 4.1.
OwnEndPoint(cert) ==
  <<IF cert.signature \in {"MD5", "SHA1"} THEN "SHA256" ELSE cert.signature, cert.key>>

Expected ==
  AuthMessage(exchange.hello, exchange.challenge,
              IF exchange.hello.gs2 = "p" THEN OwnEndPoint(link.serverCert) ELSE NoBinding)

AccountKeys == Salted(Account.secret, Account.salt, server.iterations)

\* The proof is checked against the exchange begun last.
Proven(r) ==
  /\ exchange.ok
  /\ r.body = [c |-> Expected.c, r |-> Expected.r,
               proof |-> Proof(ClientKey(AccountKeys), StoredKey(AccountKeys), Expected)]

\* The signature may be missing or the message not readable.
ServeFinal(r) ==
  \E readable, signed \in BOOLEAN :
    /\ Serves("final", r,
         IF Proven(r)
           THEN [kind |-> "scram", type |-> "SERVER_FINAL_RESPONSE",
                 rfc |-> [readable |-> readable,
                          signature |-> IF signed THEN Signature(ServerKey(AccountKeys), Expected)
                                                  ELSE <<>>]]
           ELSE Verdict("AUTH_ERR"))
    /\ session' = IF Proven(r) THEN r.attempt ELSE session
    /\ exchange' = Refused
    /\ IF ~readable THEN Excused(r, "garbled")
       ELSE IF ~signed THEN Excused(r, "declined") ELSE UNCHANGED blame
    /\ UNCHANGED asked

ServeLogout(r) ==
  /\ Serves("logout", r, [kind |-> "bool", ok |-> TRUE])
  /\ session' = 0
  /\ UNCHANGED <<exchange, asked, blame>>

\* A method the server does not have.
ServeMissing(r) ==
  /\ ~server.loginEx
  /\ \E op \in {"plain", "password"} : Serves(op, r, Failure("missing"))
  /\ UNCHANGED <<serverVars, blame>>

\* Reasons of the server's own: an expired key, another node is active, an
\* internal error.
ServerDeclines(r) ==
  /\ \E answer \in {Verdict(v) : v \in Declined} \cup {Failure("other")} : Serves(r.op, r, answer)
  /\ Excused(r, IF r.op = "logout" THEN "kept" ELSE "declined")
  /\ UNCHANGED serverVars

-----------------------------------------------------------------------------

Got ==
  \/ GotChoices \/ GotPlain \/ GotFirst \/ GotFinal \/ GotLogout
  \/ GotPassword \/ GotOtp \/ GotLegacy

Server ==
  \E r \in wire :
    \/ ServeChoices(r) \/ ServePlain(r) \/ ServePassword(r) \/ ServeOtp(r) \/ ServeLegacy(r)
    \/ ServeFirst(r) \/ ServeFinal(r) \/ ServeLogout(r) \/ ServeMissing(r) \/ ServerDeclines(r)

Next == (\E o \in Options : Begin(o)) \/ Got \/ CallFails \/ Server

Spec == Init /\ [][Next]_vars

\* The goroutine runs, and the deadline of a call passes.
FairSpec == Spec /\ WF_vars(Got) /\ WF_vars(CallFails)

-----------------------------------------------------------------------------
(* What users of a login rely on *)

\* The logins of which the client does not know what became of them: a call got
\* no answer or one that cannot be read, or the server refused to log out.
Loose ==
  {a \in Attempts : /\ a < attempt \/ pc = "returned"
                    /\ blame[a] \cap {"unanswered", "garbled", "kept"} # {}}

Contract == INSTANCE LoginContract WITH loose <- Loose

\* A login that returns nil has a session, one that returns an error has none,
\* except for loose ones; a second login on the same client included.
Implements == Contract!Spec

\* What it takes to be let in, stated without the protocol.
OfTheAccount(m) ==
  /\ m.ok /\ m.apiKeyID = Account.apiKeyID
  /\ IF m.raw THEN m.secret = Account.secret
     ELSE /\ m.keys["client_key"] = ClientKey(AccountKeys)
          /\ m.keys["stored_key"] = StoredKey(AccountKeys)
          /\ m.keys["server_key"] = ServerKey(AccountKeys)

SameCertificate ==
  /\ link.transport = "tls" /\ link.cert = link.serverCert
  /\ link.cert.signature \in {"MD5", "SHA1", "SHA256", "SHA384", "SHA512"}

Entitled(o) ==
  \/ /\ o.method = "password"
     /\ o.name = Account.name /\ o.password = Account.password
     /\ server.twoFactor => o.otp = Account.token
  \/ /\ o.method = "PLAIN"
     /\ OfTheAccount(KeyMaterial(o.key)) /\ KeyMaterial(o.key).raw
     /\ o.name = Account.name /\ server.loginEx
  \/ /\ o.method = "SCRAM"
     /\ OfTheAccount(KeyMaterial(o.key))
     /\ o.name \in Names \ Reserved /\ SASLprep[o.name] = Account.name
     /\ server.choices = "listed" /\ "SCRAM" \in server.mechanisms
     /\ server.iterations \in MinIters..MaxIters /\ server.saltSize \in 1..MaxSaltSize
     /\ server.nonceSize \in {NonceSize, 2 * NonceSize}
     /\ o.bind => link.transport = "unix" \/ SameCertificate

Disturbed == \E a \in 1..attempt : "unanswered" \in blame[a]

\* A login with the right credentials and a connection that can be bound fails
\* only by the server's own doing or for a call that got no answer; and nobody
\* else is let in.
DecidedByCredentials ==
  /\ result = "error" => ~Entitled(option) \/ blame[attempt] # {} \/ Disturbed
  /\ result = "ok" => Entitled(option)

\* "The client never auto-downgrades to PLAIN": whatever the server offers, the
\* key itself is sent only for a login that asked for PLAIN.
KeyStaysHome == [][\A r \in wire' \ wire : r.op = "plain" => option.method = "PLAIN"]_vars

\* A one-time password is sent once, and only when the server has asked for it.
TokenOnce == [][\A r \in wire' \ wire : r.op = "otp" => pc = "password" /\ reply = Verdict("OTP_REQUIRED")]_vars

\* A login returns even if the server never answers.
LoginReturns == pc # "idle" ~> pc = "returned"
=============================================================================
