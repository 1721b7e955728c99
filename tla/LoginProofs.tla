------------------------------ MODULE LoginProofs ------------------------------
(***************************************************************************)
(* What Login establishes for any options, servers, connections and any    *)
(* number of logins over one connection: that a login keeps its contract   *)
(* about the session, where the key and the one-time password go, that     *)
(* nobody is let in whose credentials are not right, and that a login with *)
(* the right ones fails only for what it could not help.                   *)
(***************************************************************************)
EXTENDS Login, TLAPS

-----------------------------------------------------------------------------
(* What the steps of the client have in common *)

\* One more call has been made.
NewCall ==
  /\ pc' \in Calls /\ result' = "running" /\ reply' = None /\ number' = number + 1
  /\ wire \subseteq wire'
  /\ \A r \in wire' : r \in wire \/ (r.n = number + 1 /\ r.attempt = attempt' /\ r.op = pc')
  /\ \A q, r \in wire' : q \in wire \/ r \in wire \/ q = r

LEMMA CallingMakesOne ==
  ASSUME NEW op \in Calls, NEW body, Calling(op, body)
  PROVE  NewCall /\ pc' = op
BY DEF Calling, NewCall

\* The server has let this login in.
Granted ==
  \/ pc \in {"plain", "password", "otp"} /\ reply = Verdict("SUCCESS")
  \/ pc = "legacy" /\ reply = [kind |-> "bool", ok |-> TRUE]
  \/ pc = "final" /\ reply.kind = "scram" /\ reply.type = "SERVER_FINAL_RESPONSE"

Readable == reply.kind = "scram" /\ reply.type = "SERVER_FINAL_RESPONSE" /\ reply.rfc.readable

\* What the client makes of an answer: it goes on, fails or succeeds.
GoesOn ==
  /\ NewCall /\ pc # "logout"
  /\ pc = "final" => Readable /\ pc' = "logout"
  /\ pc # "final" => ~Granted

Fails == Returns("error") /\ (Granted => pc = "final" /\ ~Readable)

Succeeds == Returns("ok") /\ Granted /\ (pc = "final" => Readable)

LEMMA AnswersDecide ==
  ASSUME Got
  PROVE  /\ pc \in Calls /\ reply # None
         /\ UNCHANGED <<server, link, attempt, option, keyData, serverVars, blame>>
         /\ GoesOn \/ Fails \/ Succeeds
<1>1. ASSUME NEW call \in Calls, Answered(call)
      PROVE  /\ pc \in Calls /\ reply # None
             /\ UNCHANGED <<server, link, attempt, option, keyData, serverVars, blame>>
  BY <1>1 DEF Answered
<1>2. CASE GotChoices
  <2>1. Answered("choices") /\ pc = "choices" /\ ~Granted
    BY <1>2 DEF GotChoices, Answered, Granted
  <2>2. ASSUME NEW body, Calling("plain", body) PROVE GoesOn
    BY <2>1, <2>2, CallingMakesOne DEF GoesOn, Calls
  <2>3. ASSUME NEW body, Calling("first", body) PROVE GoesOn
    BY <2>1, <2>3, CallingMakesOne DEF GoesOn, Calls
  <2>4. Failing => Fails
    BY <2>1 DEF Failing, Fails
  <2>5. GoesOn \/ Failing
    BY <1>2, <2>2, <2>3 DEF GotChoices, StartPlain, StartScram
  <2>6. QED
    BY <1>1, <2>1, <2>4, <2>5 DEF Calls
<1>3. CASE GotPlain
  <2>1. Answered("plain") /\ (Fails \/ Succeeds)
    BY <1>3 DEF GotPlain, Answered, Granted, Accepted, Failing, Fails, Succeeds
  <2>2. QED
    BY <1>1, <2>1 DEF Calls
<1>4. CASE GotFirst
  <2>1. Answered("first") /\ pc = "first" /\ ~Granted
    BY <1>4 DEF GotFirst, Answered, Granted
  <2>2. ASSUME NEW body, Calling("final", body) PROVE GoesOn
    BY <2>1, <2>2, CallingMakesOne DEF GoesOn, Calls
  <2>3. Failing => Fails
    BY <2>1 DEF Failing, Fails
  <2>4. GoesOn \/ Failing
    BY <1>4, <2>2 DEF GotFirst
  <2>5. QED
    BY <1>1, <2>1, <2>3, <2>4 DEF Calls
<1>5. CASE GotFinal
  <2>1. Answered("final") /\ pc = "final"
    BY <1>5 DEF GotFinal, Answered
  <2>2. Readable /\ Distrust => GoesOn
    BY <2>1, CallingMakesOne DEF Distrust, GoesOn, Calls
  <2>3. ~Readable /\ Failing => Fails
    BY <2>1 DEF Failing, Fails
  <2>4. Readable /\ Returns("ok") => Succeeds
    BY <2>1 DEF Succeeds, Granted, Readable
  <2>5. (Readable /\ (Returns("ok") \/ Distrust)) \/ (~Readable /\ Failing)
    BY <1>5 DEF GotFinal, Readable
  <2>6. QED
    BY <1>1, <2>1, <2>2, <2>3, <2>4, <2>5 DEF Calls
<1>6. CASE GotLogout
  <2>1. Answered("logout") /\ Fails
    BY <1>6 DEF GotLogout, Answered, Granted, Failing, Fails
  <2>2. QED
    BY <1>1, <2>1 DEF Calls
<1>7. ASSUME NEW call \in {"password", "otp"}, NEW token, Answered(call), LoginEx(token)
      PROVE  GoesOn \/ Fails \/ Succeeds
  <2>1. Granted <=> Accepted(reply)
    BY <1>7 DEF Answered, Granted, Accepted
  <2>2. CASE Calling("otp", [token |-> token]) /\ ~Accepted(reply)
    BY <1>7, <2>1, <2>2, CallingMakesOne DEF GoesOn, Calls, Answered
  <2>3. CASE Returns("ok") /\ Accepted(reply)
    BY <1>7, <2>1, <2>3 DEF Succeeds, Answered
  <2>4. CASE Failing /\ ~Accepted(reply)
    BY <2>1, <2>4 DEF Failing, Fails
  <2>5. QED
    BY <1>7, <2>2, <2>3, <2>4 DEF LoginEx
<1>8. CASE GotPassword
  <2>1. Answered("password") /\ pc = "password"
    BY <1>8 DEF GotPassword, Answered
  <2>2. ASSUME NEW body, reply = Failure("missing"), Calling("legacy", body) PROVE GoesOn
    <3>1. reply # Verdict("SUCCESS")
      BY <2>2 DEF Failure, Verdict
    <3>2. ~Granted
      BY <2>1, <3>1 DEF Granted
    <3>3. QED
      BY <2>1, <2>2, <3>2, CallingMakesOne DEF GoesOn, Calls
  <2>3. GoesOn \/ LoginEx(option.otp)
    BY <1>8, <2>2 DEF GotPassword
  <2>4. QED
    BY <1>1, <1>7, <2>1, <2>3 DEF Calls
<1>9. CASE GotOtp
  BY <1>1, <1>7, <1>9 DEF GotOtp, Calls
<1>10. CASE GotLegacy
  <2>1. Answered("legacy") /\ (Fails \/ Succeeds)
    BY <1>10 DEF GotLegacy, Answered, Granted, Failing, Fails, Succeeds
  <2>2. QED
    BY <1>1, <2>1 DEF Calls
<1>11. QED
  BY <1>2, <1>3, <1>4, <1>5, <1>6, <1>8, <1>9, <1>10 DEF Got

-----------------------------------------------------------------------------
(* What the steps of the server have in common *)

\* What may befall a login.
Reasons == {"unanswered", "declined", "garbled", "kept"}

\* The server serves r; a client that waits for r gets an answer.
Serving(r) ==
  /\ wire' = wire \ {r}
  /\ UNCHANGED <<server, link, clientVars>>
  /\ ~(r.n = number /\ pc \in Calls) => reply' = reply
  /\ r.n = number /\ pc \in Calls => reply'.kind \in {"error", "choices", "verdict", "scram", "bool"}
  /\ session' \in {session, r.attempt, 0}
  /\ asked \in BOOLEAN => asked' \in BOOLEAN
  /\ blame \in [Attempts -> SUBSET Reasons] /\ r.attempt \in Attempts =>
       /\ blame' \in [Attempts -> SUBSET Reasons]
       /\ \A a \in Attempts : blame[a] \subseteq blame'[a] /\ (a # r.attempt => blame'[a] = blame[a])
       /\ "unanswered" \in blame'[r.attempt] => "unanswered" \in blame[r.attempt]

\* The answer agrees with what happens to the session, and the history with
\* what is wrong about the answer.
Truthful(r) ==
  /\ session' \in {session, 0} \/ Granted'
  /\ Granted' => session' = r.attempt
  /\ Granted' /\ pc = "final" /\ ~Readable' => "garbled" \in blame'[r.attempt]
  /\ "garbled" \in blame'[r.attempt] => "garbled" \in blame[r.attempt] \/ (pc = "final" /\ ~Readable')
  /\ "kept" \in blame'[r.attempt] => "kept" \in blame[r.attempt] \/ pc = "logout"
  /\ pc = "logout" => session' = 0 \/ "kept" \in blame'[r.attempt]

ServerActs(r) ==
  \/ ServeChoices(r) \/ ServePlain(r) \/ ServePassword(r) \/ ServeOtp(r) \/ ServeLegacy(r)
  \/ ServeFirst(r) \/ ServeFinal(r) \/ ServeLogout(r) \/ ServeMissing(r) \/ ServerDeclines(r)

LEMMA ServesOne ==
  ASSUME NEW op, NEW r, NEW answer, Serves(op, r, answer),
         answer.kind \in {"error", "choices", "verdict", "scram", "bool"}
  PROVE  /\ r.op = op /\ wire' = wire \ {r}
         /\ UNCHANGED <<server, link, clientVars>>
         /\ ~(r.n = number /\ pc \in Calls) => reply' = reply
         /\ r.n = number /\ pc \in Calls =>
              reply' = answer /\ reply'.kind \in {"error", "choices", "verdict", "scram", "bool"}
BY DEF Serves, Heard

LEMMA ExcusesGrow ==
  ASSUME NEW r, r.attempt \in Attempts, blame \in [Attempts -> SUBSET Reasons],
         NEW why \in {"declined", "garbled", "kept"}, Excused(r, why)
  PROVE  /\ blame' \in [Attempts -> SUBSET Reasons]
         /\ \A a \in Attempts : blame[a] \subseteq blame'[a] /\ (a # r.attempt => blame'[a] = blame[a])
         /\ blame'[r.attempt] = blame[r.attempt] \cup {why}
<1>1. why \in Reasons
  BY DEF Reasons
<1>2. QED
  BY <1>1 DEF Excused

LEMMA ServerServes ==
  ASSUME NEW r, ServerActs(r)
  PROVE  Serving(r)
<1>1. CASE ServeChoices(r)
  BY <1>1, ServesOne DEF ServeChoices, Serving, Failure, serverVars
<1>2. CASE ServePlain(r)
  BY <1>2, ServesOne DEF ServePlain, Serving, Verdict, Grants
<1>3. CASE ServePassword(r)
  BY <1>3, ServesOne DEF ServePassword, Serving, Verdict, Grants
<1>4. CASE ServeOtp(r)
  BY <1>4, ServesOne DEF ServeOtp, Serving, Verdict, Grants
<1>5. CASE ServeLegacy(r)
  BY <1>5, ServesOne DEF ServeLegacy, Serving, Grants
<1>6. CASE ServeFirst(r)
  BY <1>6, ServesOne DEF ServeFirst, Serving, Verdict
<1>7. CASE ServeFinal(r)
  BY <1>7, ServesOne, ExcusesGrow DEF ServeFinal, Serving, Verdict
<1>8. CASE ServeLogout(r)
  BY <1>8, ServesOne DEF ServeLogout, Serving
<1>9. CASE ServeMissing(r)
  BY <1>9, ServesOne DEF ServeMissing, Serving, Failure, serverVars
<1>10. CASE ServerDeclines(r)
  BY <1>10, ServesOne, ExcusesGrow DEF ServerDeclines, Serving, Failure, Verdict, serverVars
<1>11. QED
  BY <1>1, <1>2, <1>3, <1>4, <1>5, <1>6, <1>7, <1>8, <1>9, <1>10 DEF ServerActs

LEMMA ServerIsTruthful ==
  ASSUME NEW r, ServerActs(r), r.n = number, pc \in Calls, r.op = pc, reply = None,
         r.attempt \in Attempts, blame \in [Attempts -> SUBSET Reasons]
  PROVE  Truthful(r)
<1>0. pc' = pc
  BY ServerServes DEF Serving, clientVars
<1>1. ASSUME UNCHANGED <<session, blame>>, pc # "logout", ~Granted' PROVE Truthful(r)
  BY <1>1 DEF Truthful
<1>2. ASSUME UNCHANGED blame, pc \in {"plain", "password", "otp", "legacy"},
             session' = IF Granted' THEN r.attempt ELSE session
      PROVE  Truthful(r)
  BY <1>2 DEF Truthful
<1>3. CASE ServeChoices(r)
  BY <1>0, <1>1, <1>3, ServesOne DEF ServeChoices, Failure, serverVars, Granted
<1>4. CASE ServePlain(r)
  <2>1. UNCHANGED blame /\ pc = "plain"
    BY <1>4, ServesOne DEF ServePlain, Grants, Verdict
  <2>2. session' = IF reply' = Verdict("SUCCESS") THEN r.attempt ELSE session
    BY <1>4, ServesOne DEF ServePlain, Grants, Verdict
  <2>3. QED
    BY <1>0, <1>2, <2>1, <2>2 DEF Granted
<1>5. CASE ServePassword(r)
  <2>1. UNCHANGED blame /\ pc = "password"
    BY <1>5, ServesOne DEF ServePassword, Grants, Verdict
  <2>2. session' = IF reply' = Verdict("SUCCESS") THEN r.attempt ELSE session
    BY <1>5, ServesOne DEF ServePassword, Grants, Verdict
  <2>3. QED
    BY <1>0, <1>2, <2>1, <2>2 DEF Granted
<1>6. CASE ServeOtp(r)
  <2>1. UNCHANGED blame /\ pc = "otp"
    BY <1>6, ServesOne DEF ServeOtp, Grants, Verdict
  <2>2. session' = IF reply' = Verdict("SUCCESS") THEN r.attempt ELSE session
    BY <1>6, ServesOne DEF ServeOtp, Grants, Verdict
  <2>3. QED
    BY <1>0, <1>2, <2>1, <2>2 DEF Granted
<1>7. CASE ServeLegacy(r)
  <2>1. UNCHANGED blame /\ pc = "legacy"
    BY <1>7, ServesOne DEF ServeLegacy, Grants
  <2>2. session' = IF reply' = [kind |-> "bool", ok |-> TRUE] THEN r.attempt ELSE session
    BY <1>7, ServesOne DEF ServeLegacy, Grants
  <2>3. QED
    BY <1>0, <1>2, <2>1, <2>2 DEF Granted
<1>8. CASE ServeFirst(r)
  BY <1>0, <1>1, <1>8, ServesOne DEF ServeFirst, Verdict, Granted
<1>9. CASE ServeFinal(r)
  <2>1. PICK readable \in BOOLEAN, signed \in BOOLEAN :
          /\ Serves("final", r,
               IF Proven(r)
                 THEN [kind |-> "scram", type |-> "SERVER_FINAL_RESPONSE",
                       rfc |-> [readable |-> readable,
                                signature |-> IF signed THEN Signature(ServerKey(AccountKeys), Expected)
                                                        ELSE <<>>]]
                 ELSE Verdict("AUTH_ERR"))
          /\ session' = IF Proven(r) THEN r.attempt ELSE session
          /\ IF ~readable THEN Excused(r, "garbled")
             ELSE IF ~signed THEN Excused(r, "declined") ELSE UNCHANGED blame
    BY <1>9 DEF ServeFinal
  <2>2. CASE Proven(r)
    <3>1. /\ pc = "final" /\ reply'.kind = "scram" /\ reply'.type = "SERVER_FINAL_RESPONSE"
          /\ reply'.rfc.readable = readable /\ session' = r.attempt
      <4> DEFINE rfc == [readable |-> readable,
                         signature |-> IF signed THEN Signature(ServerKey(AccountKeys), Expected) ELSE <<>>]
                 answer == [kind |-> "scram", type |-> "SERVER_FINAL_RESPONSE", rfc |-> rfc]
      <4>1. Serves("final", r, answer) /\ session' = r.attempt
        BY <2>1, <2>2
      <4>2. rfc.readable = readable /\ answer.kind = "scram" /\ answer.type = "SERVER_FINAL_RESPONSE"
            /\ answer.rfc = rfc
        OBVIOUS
      <4> HIDE DEF rfc, answer
      <4>3. pc = "final" /\ reply' = answer
        BY <4>1, <4>2, ServesOne
      <4>4. QED
        BY <4>1, <4>2, <4>3
    <3>2. Granted' /\ (Readable' <=> readable)
      BY <1>0, <3>1 DEF Granted, Readable
    <3>3. QED
      BY <1>0, <2>1, <3>1, <3>2, ExcusesGrow DEF Truthful
  <2>3. CASE ~Proven(r)
    <3>1. pc = "final" /\ reply' = Verdict("AUTH_ERR") /\ session' = session
      BY <2>1, <2>3, ServesOne DEF Verdict
    <3>2. ~Granted' /\ ~Readable'
      BY <1>0, <3>1 DEF Granted, Readable, Verdict
    <3>3. QED
      BY <1>0, <2>1, <3>1, <3>2, ExcusesGrow DEF Truthful
  <2>4. QED
    BY <2>2, <2>3
<1>10. CASE ServeLogout(r)
  BY <1>0, <1>10, ServesOne DEF ServeLogout, Truthful, Granted
<1>11. CASE ServeMissing(r)
  BY <1>0, <1>1, <1>11, ServesOne DEF ServeMissing, Failure, Verdict, serverVars, Granted
<1>12. CASE ServerDeclines(r)
  <2>1. ~Granted' /\ session' = session
    BY <1>0, <1>12, ServesOne DEF ServerDeclines, Declined, Failure, Verdict, serverVars, Granted
  <2>2. Excused(r, IF r.op = "logout" THEN "kept" ELSE "declined")
    BY <1>12 DEF ServerDeclines
  <2>3. QED
    BY <1>0, <2>1, <2>2, ExcusesGrow DEF Truthful
<1>13. QED
  BY <1>3, <1>4, <1>5, <1>6, <1>7, <1>8, <1>9, <1>10, <1>11, <1>12 DEF ServerActs

-----------------------------------------------------------------------------
(* The inductive invariant *)

\* Logins are numbered, and nothing has befallen one that has not begun.
PhaseInv ==
  /\ TypeOK
  /\ result = "idle" <=> pc = "idle"
  /\ attempt = 0 <=> pc = "idle"
  /\ \A a \in Attempts : a > attempt => blame[a] = {}

\* The client waits for the answer to r.
Awaited(r) == r.attempt = attempt /\ r.n = number /\ r.op = pc /\ reply = None

\* The client has given up on r.
Stray(r) ==
  /\ "unanswered" \in blame[r.attempt]
  /\ r.attempt < attempt \/ pc = "returned"
  /\ ~(r.n = number /\ pc \in Calls)

WireInv ==
  /\ \A q, r \in wire : q.n = r.n => q = r
  /\ \A r \in wire : Awaited(r) \/ Stray(r)

\* A login that runs is not loose, unless it is about to fail.
BlameInv ==
  pc \in Calls =>
    /\ "unanswered" \notin blame[attempt]
    /\ "garbled" \in blame[attempt] => pc = "final" /\ reply # None /\ ~Readable
    /\ "kept" \in blame[attempt] => pc = "logout" /\ reply # None

\* The session of a login that runs comes with the answer, or is being ended.
SessionInv ==
  pc \in Calls =>
    /\ session = attempt =>
         Granted \/ (pc = "logout" /\ (reply = None \/ "kept" \in blame[attempt]))
    /\ Granted /\ Loose = {} => session = attempt
    /\ Granted /\ pc = "final" /\ ~Readable => "garbled" \in blame[attempt]

LoginInv == PhaseInv /\ WireInv /\ BlameInv /\ SessionInv

-----------------------------------------------------------------------------
(* Types *)

\* The bound is a number.
LEMMA HowMany == MaxAttempts \in Nat
BY LoginAssumption DEF LoginAssumption

\* Whatever the text, it is or is not a key.
LEMMA MaterialIsOrIsNot ==
  ASSUME NEW o \in Options
  PROVE  Material(o).ok \in BOOLEAN
<1>1. \A raw : RawMaterial(raw).ok \in BOOLEAN
  BY DEF RawMaterial, Invalid
<1>2. \A data : Structured(data).ok \in BOOLEAN
  BY <1>1 DEF Structured, Invalid
<1>3. \A config : OfConfig(config).ok \in BOOLEAN
  BY <1>2 DEF OfConfig, Invalid
<1>4. \A text : IsContent(text) => Content(text).ok \in BOOLEAN
  BY <1>1, <1>2, <1>3 DEF IsContent, Content
<1>5. IsText(o.key) => KeyMaterial(o.key).ok \in BOOLEAN
  <2> SUFFICES ASSUME IsText(o.key) PROVE KeyMaterial(o.key).ok \in BOOLEAN
    OBVIOUS
  <2>1. CASE o.key.syntax # "path"
    <3>1. KeyMaterial(o.key) = Content(o.key)
      BY <2>1 DEF KeyMaterial
    <3>2. QED
      BY <1>4, <2>1, <3>1 DEF IsText
  <2>2. CASE o.key.syntax = "path" /\ "holds" \in DOMAIN o.key
    <3>1. KeyMaterial(o.key) = Content(o.key.holds) /\ IsContent(o.key.holds)
      BY <2>2 DEF KeyMaterial, IsText, IsContent
    <3>2. QED
      BY <1>4, <3>1
  <2>3. CASE o.key.syntax = "path" /\ "holds" \notin DOMAIN o.key
    BY <2>3 DEF KeyMaterial, Invalid
  <2>4. QED
    BY <2>1, <2>2, <2>3
<1>6. QED
  BY <1>5, LoginAssumption DEF LoginAssumption, Material, Invalid

LEMMA InitPhase == Init => PhaseInv
<1> SUFFICES ASSUME Init PROVE PhaseInv
  OBVIOUS
<1>1. <<server, link>> \in Sites
  BY LoginAssumption DEF Init, LoginAssumption
<1>2. blame \in [Attempts -> SUBSET {"unanswered", "declined", "garbled", "kept"}]
  BY DEF Init
<1>3. keyData.ok \in BOOLEAN /\ reply.kind = "none" /\ MaxAttempts \in Nat
  BY LoginAssumption DEF Init, Invalid, None, LoginAssumption
<1>4. pc \notin Calls
  BY DEF Init, Calls
<1>5. attempt \in 0..MaxAttempts /\ session \in 0..attempt /\ number \in Nat
  BY <1>3 DEF Init
<1>6. /\ option \in Options /\ pc = "idle" /\ result = "idle" /\ attempt = 0 /\ reply = None
      /\ wire = {} /\ asked = FALSE
  BY DEF Init
<1>7. \A a \in Attempts : blame[a] = {}
  BY DEF Init
<1>8. QED
  BY <1>1, <1>2, <1>3, <1>4, <1>5, <1>6, <1>7 DEF PhaseInv, TypeOK

\* A call leaves the types alone.
LEMMA NewCallType ==
  ASSUME PhaseInv, NewCall, attempt' \in 1..MaxAttempts, attempt <= attempt', option' \in Options,
         keyData'.ok \in BOOLEAN, UNCHANGED <<server, link, serverVars, blame>>
  PROVE  PhaseInv'
<1>1. /\ number \in Nat /\ attempt \in Nat /\ MaxAttempts \in Nat /\ "idle" \notin Calls
      /\ "returned" \notin Calls
  BY HowMany DEF PhaseInv, TypeOK, Calls
<1>2. \A r \in wire' : r.n \in 1..number' /\ r.attempt \in 1..attempt' /\ r.op \in Calls
  BY <1>1 DEF PhaseInv, TypeOK, NewCall
<1>3. session' \in 0..attempt' /\ asked' \in BOOLEAN
  BY <1>1 DEF PhaseInv, TypeOK, serverVars
<1>4. /\ pc' \in Calls /\ result' = "running" /\ reply' = None /\ reply'.kind = "none" /\ number' \in Nat
  BY <1>1 DEF NewCall, None
<1>5. \A a \in Attempts : a > attempt' => blame'[a] = {}
  BY <1>1 DEF PhaseInv, Attempts
<1>6. QED
  BY <1>1, <1>2, <1>3, <1>4, <1>5 DEF PhaseInv, TypeOK

\* So does the end of a login.
LEMMA ReturnType ==
  ASSUME PhaseInv, NEW what \in {"ok", "error"}, Returns(what), attempt' \in 1..MaxAttempts,
         attempt <= attempt', option' \in Options, keyData'.ok \in BOOLEAN,
         blame' \in [Attempts -> SUBSET Reasons], \A a \in Attempts : a > attempt' => blame'[a] = {},
         UNCHANGED <<server, link, serverVars>>
  PROVE  PhaseInv'
<1>1. /\ number \in Nat /\ attempt \in Nat /\ MaxAttempts \in Nat /\ "returned" \notin Calls
  BY HowMany DEF PhaseInv, TypeOK, Calls
<1>2. \A r \in wire' : r.n \in 1..number' /\ r.attempt \in 1..attempt' /\ r.op \in Calls
  BY <1>1 DEF PhaseInv, TypeOK, Returns
<1>3. session' \in 0..attempt' /\ asked' \in BOOLEAN
  BY <1>1 DEF PhaseInv, TypeOK, serverVars
<1>4. /\ pc' = "returned" /\ result' = what /\ reply' = None /\ reply'.kind = "none" /\ number' = number
  BY <1>1 DEF Returns, None
<1>5. blame' \in [Attempts -> SUBSET {"unanswered", "declined", "garbled", "kept"}]
  BY DEF Reasons
<1>6. QED
  BY <1>1, <1>2, <1>3, <1>4, <1>5 DEF PhaseInv, TypeOK

\* Numbers of logins.
LEMMA Running ==
  ASSUME PhaseInv, pc \in Calls
  PROVE  /\ attempt \in Attempts /\ result = "running" /\ attempt \in Nat /\ number \in Nat
         /\ MaxAttempts \in Nat /\ blame \in [Attempts -> SUBSET Reasons] /\ attempt \in 1..MaxAttempts
         /\ pc # "idle" /\ pc # "returned"
BY HowMany DEF PhaseInv, TypeOK, Attempts, Calls, Reasons

LEMMA GotPhase == PhaseInv /\ Got => PhaseInv'
<1> SUFFICES ASSUME PhaseInv, Got PROVE PhaseInv'
  OBVIOUS
<1>1. /\ pc \in Calls /\ UNCHANGED <<server, link, attempt, option, keyData, serverVars, blame>>
      /\ GoesOn \/ Fails \/ Succeeds
  BY AnswersDecide
<1>2. /\ attempt' \in 1..MaxAttempts /\ attempt <= attempt' /\ option' \in Options /\ keyData'.ok \in BOOLEAN
      /\ blame' \in [Attempts -> SUBSET Reasons] /\ \A a \in Attempts : a > attempt' => blame'[a] = {}
  BY <1>1, Running DEF PhaseInv, TypeOK
<1>3. CASE GoesOn
  BY <1>1, <1>2, <1>3, NewCallType DEF GoesOn
<1>4. CASE Fails
  BY <1>1, <1>2, <1>4, ReturnType DEF Fails
<1>5. CASE Succeeds
  BY <1>1, <1>2, <1>5, ReturnType DEF Succeeds
<1>6. QED
  BY <1>1, <1>3, <1>4, <1>5

LEMMA CallFailsPhase ==
  ASSUME PhaseInv, CallFails
  PROVE  /\ PhaseInv' /\ pc \in Calls /\ Returns("error")
         /\ UNCHANGED <<server, link, attempt, option, keyData, first, final, serverVars>>
         /\ blame'[attempt] = blame[attempt] \cup {"unanswered"}
         /\ \A a \in Attempts : a # attempt => blame'[a] = blame[a]
<1>1. /\ pc \in Calls /\ Returns("error") /\ blame' = [blame EXCEPT ![attempt] = @ \cup {"unanswered"}]
      /\ UNCHANGED <<server, link, attempt, option, keyData, first, final, serverVars>>
  BY DEF CallFails, Failing
<1>2. "unanswered" \in Reasons
  BY DEF Reasons
<1>3. /\ blame' \in [Attempts -> SUBSET Reasons]
      /\ blame'[attempt] = blame[attempt] \cup {"unanswered"}
      /\ \A a \in Attempts : a # attempt => blame'[a] = blame[a]
  BY <1>1, <1>2, Running
<1>4. /\ attempt' \in 1..MaxAttempts /\ attempt <= attempt' /\ option' \in Options /\ keyData'.ok \in BOOLEAN
      /\ \A a \in Attempts : a > attempt' => blame'[a] = {}
  BY <1>1, <1>3, Running DEF PhaseInv, TypeOK
<1>5. PhaseInv'
  BY <1>1, <1>3, <1>4, ReturnType
<1>6. QED
  BY <1>1, <1>3, <1>5

\* A login begins with a call, or fails at once.
LEMMA BeginPhase ==
  ASSUME PhaseInv, NEW o \in Options, Begin(o)
  PROVE  /\ PhaseInv' /\ pc \notin Calls /\ attempt' = attempt + 1 /\ attempt < MaxAttempts
         /\ NewCall \/ Returns("error")
         /\ UNCHANGED <<server, link, first, final, serverVars, blame>>
<1>1. /\ pc \in {"idle", "returned"} /\ attempt < MaxAttempts /\ attempt' = attempt + 1
      /\ option' = o /\ keyData' = Material(o)
      /\ UNCHANGED <<server, link, first, final, serverVars, blame>>
  BY DEF Begin
<1>2. attempt \in Nat /\ MaxAttempts \in Nat /\ blame \in [Attempts -> SUBSET Reasons] /\ pc \notin Calls
  BY <1>1, HowMany DEF PhaseInv, TypeOK, Reasons, Calls
<1>3. /\ attempt' \in 1..MaxAttempts /\ attempt <= attempt' /\ option' \in Options /\ keyData'.ok \in BOOLEAN
      /\ blame' \in [Attempts -> SUBSET Reasons]
  BY <1>1, <1>2, MaterialIsOrIsNot
<1>4. \A a \in Attempts : a > attempt' => blame'[a] = {}
  BY <1>1, <1>2 DEF PhaseInv, Attempts
<1>5. NewCall \/ Returns("error")
  <2>1. "password" \in Calls /\ "choices" \in Calls
    BY DEF Calls
  <2>2. QED
    BY <2>1, CallingMakesOne DEF Begin, Failing
<1>6. CASE NewCall
  BY <1>1, <1>2, <1>3, <1>6, NewCallType
<1>7. CASE Returns("error")
  BY <1>1, <1>2, <1>3, <1>4, <1>7, ReturnType
<1>8. QED
  BY <1>1, <1>2, <1>5, <1>6, <1>7

LEMMA ServerPhase ==
  ASSUME PhaseInv, NEW r \in wire, Serving(r)
  PROVE  /\ PhaseInv' /\ r.attempt \in Attempts /\ r.n \in Nat /\ r.op \in Calls /\ r.attempt <= attempt
         /\ blame \in [Attempts -> SUBSET Reasons] /\ blame' \in [Attempts -> SUBSET Reasons]
         /\ \A a \in Attempts : blame[a] \subseteq blame'[a] /\ (a # r.attempt => blame'[a] = blame[a])
         /\ "unanswered" \in blame'[r.attempt] => "unanswered" \in blame[r.attempt]
<1>1. /\ number \in Nat /\ attempt \in 0..MaxAttempts /\ MaxAttempts \in Nat
      /\ r.n \in 1..number /\ r.attempt \in 1..attempt /\ r.op \in Calls
      /\ blame \in [Attempts -> SUBSET Reasons]
  BY HowMany DEF PhaseInv, TypeOK, Reasons
<1>2. r.attempt \in Attempts /\ r.n \in Nat /\ r.attempt <= attempt
  BY <1>1 DEF Attempts
<1>3. /\ blame' \in [Attempts -> SUBSET Reasons]
      /\ \A a \in Attempts : blame[a] \subseteq blame'[a] /\ (a # r.attempt => blame'[a] = blame[a])
      /\ "unanswered" \in blame'[r.attempt] => "unanswered" \in blame[r.attempt]
  BY <1>1, <1>2 DEF Serving
<1>4. \A a \in Attempts : a > attempt => blame'[a] = {}
  BY <1>1, <1>2, <1>3 DEF PhaseInv, Attempts
<1>5. /\ UNCHANGED <<server, link, attempt, option, keyData, pc, result, number>>
      /\ wire' \subseteq wire
  BY DEF Serving, clientVars
<1>6. session' \in 0..attempt /\ asked' \in BOOLEAN
  BY <1>1 DEF Serving, PhaseInv, TypeOK
<1>7. /\ reply'.kind \in {"none", "error", "choices", "verdict", "scram", "bool"}
      /\ reply' # None => pc \in Calls
  BY DEF Serving, PhaseInv, TypeOK
<1>8. blame' \in [Attempts -> SUBSET {"unanswered", "declined", "garbled", "kept"}]
  BY <1>3 DEF Reasons
<1>9. \A q \in wire' : q.n \in 1..number' /\ q.attempt \in 1..attempt' /\ q.op \in Calls
  BY <1>5 DEF PhaseInv, TypeOK
<1>10. /\ <<server, link>>' \in Sites /\ attempt' \in 0..MaxAttempts /\ option' \in Options
       /\ keyData'.ok \in BOOLEAN /\ pc' \in Calls \cup {"idle", "returned"}
       /\ result' \in {"idle", "running", "ok", "error"} /\ (result' = "running" <=> pc' \in Calls)
       /\ number' \in Nat /\ (result' = "idle" <=> pc' = "idle") /\ (attempt' = 0 <=> pc' = "idle")
  BY <1>5 DEF PhaseInv, TypeOK
<1>11. PhaseInv'
  BY <1>4, <1>5, <1>6, <1>7, <1>8, <1>9, <1>10 DEF PhaseInv, TypeOK
<1>12. QED
  BY <1>1, <1>2, <1>3, <1>11

LEMMA StepPhase == PhaseInv /\ [Next]_vars => PhaseInv'
<1> SUFFICES ASSUME PhaseInv, [Next]_vars PROVE PhaseInv'
  OBVIOUS
<1>1. ASSUME NEW o \in Options, Begin(o) PROVE PhaseInv'
  BY <1>1, BeginPhase
<1>2. ASSUME NEW r \in wire, ServerActs(r) PROVE PhaseInv'
  BY <1>2, ServerServes, ServerPhase
<1>3. CASE UNCHANGED vars
  BY <1>3 DEF PhaseInv, TypeOK, vars, clientVars, serverVars
<1>4. QED
  BY <1>1, <1>2, <1>3, GotPhase, CallFailsPhase DEF Next, Server, ServerActs

\* Whatever the options and the sites, the variables have their types.
THEOREM TypeCorrect == Spec => []TypeOK
<1>1. PhaseInv => TypeOK
  BY DEF PhaseInv
<1>2. QED
  BY <1>1, InitPhase, StepPhase, PTL DEF Spec

-----------------------------------------------------------------------------
(* Requests are awaited or stray *)

LEMMA InitWire == Init => WireInv
BY DEF Init, WireInv

\* A login waits for one request at a time: the others it has given up.
LEMMA NewCallWire ==
  ASSUME PhaseInv, PhaseInv', WireInv, NewCall, UNCHANGED blame,
         \/ attempt' = attempt /\ reply # None /\ pc # "returned"
         \/ attempt' > attempt /\ pc \notin Calls
  PROVE  WireInv'
<1>1. number \in Nat /\ attempt \in Nat /\ "returned" \notin Calls
  BY DEF PhaseInv, TypeOK, Calls
<1>2. \A r \in wire : r.n \in 1..number /\ r.attempt \in 1..attempt /\ r.op \in Calls
  BY DEF PhaseInv, TypeOK
<1>3. \A r \in wire : Stray(r)
  BY <1>2 DEF WireInv, Awaited
<1>4. \A r \in wire : Stray(r)'
  BY <1>1, <1>2, <1>3 DEF Stray, NewCall, PhaseInv, TypeOK
<1>5. \A r \in wire' : r \in wire \/ Awaited(r)'
  BY DEF NewCall, Awaited
<1>6. \A q, r \in wire' : q.n = r.n => q = r
  BY <1>1, <1>2 DEF NewCall, WireInv
<1>7. QED
  BY <1>4, <1>5, <1>6 DEF WireInv

\* A login that ends with an answer leaves the strays of earlier ones.
LEMMA ReturnWire ==
  ASSUME PhaseInv, WireInv, Returns("ok") \/ Returns("error"),
         \/ attempt' = attempt /\ reply # None /\ pc \in Calls
         \/ attempt' > attempt /\ pc \notin Calls,
         UNCHANGED blame
  PROVE  WireInv'
<1>1. /\ number \in Nat /\ attempt \in Nat /\ "returned" \notin Calls
      /\ pc' = "returned" /\ wire' = wire /\ number' = number
  BY DEF PhaseInv, TypeOK, Calls, Returns
<1>2. \A r \in wire : r.op \in Calls /\ r.attempt \in 1..attempt
  BY DEF PhaseInv, TypeOK
<1>3. \A r \in wire : Stray(r)
  BY <1>2 DEF WireInv, Awaited
<1>4. \A r \in wire : Stray(r)'
  BY <1>1, <1>3 DEF Stray
<1>5. QED
  BY <1>1, <1>4 DEF WireInv

LEMMA StepWire == PhaseInv /\ WireInv /\ [Next]_vars => WireInv'
<1> SUFFICES ASSUME PhaseInv, WireInv, [Next]_vars PROVE WireInv'
  OBVIOUS
<1>0. PhaseInv'
  BY StepPhase
<1>1. ASSUME NEW o \in Options, Begin(o) PROVE WireInv'
  <2>1. /\ pc \notin Calls /\ attempt' > attempt /\ UNCHANGED blame
        /\ NewCall \/ Returns("error")
    BY <1>1, BeginPhase DEF PhaseInv, TypeOK
  <2>2. QED
    BY <1>0, <2>1, NewCallWire, ReturnWire
<1>2. CASE Got
  <2>1. /\ pc \in Calls /\ pc # "returned" /\ reply # None /\ UNCHANGED <<attempt, blame>>
        /\ NewCall \/ Returns("ok") \/ Returns("error")
    BY <1>2, AnswersDecide, Running DEF GoesOn, Fails, Succeeds
  <2>2. QED
    BY <1>0, <2>1, NewCallWire, ReturnWire
<1>3. CASE CallFails
  <2>1. /\ pc' = "returned" /\ wire' = wire /\ UNCHANGED <<attempt, number>>
        /\ blame'[attempt] = blame[attempt] \cup {"unanswered"}
        /\ \A a \in Attempts : a # attempt => blame'[a] = blame[a]
    BY <1>3, CallFailsPhase DEF Returns
  <2>2. "returned" \notin Calls
    BY DEF Calls
  <2>3. attempt \in Nat /\ MaxAttempts \in Nat /\ attempt <= MaxAttempts
    BY HowMany DEF PhaseInv, TypeOK
  <2>4. \A r \in wire : r.attempt \in 1..attempt /\ r.attempt \in Attempts
    BY <2>3 DEF PhaseInv, TypeOK, Attempts
  <2>5. \A r \in wire : Stray(r)'
    BY <2>1, <2>2, <2>3, <2>4 DEF WireInv, Awaited, Stray
  <2>6. QED
    BY <2>1, <2>5 DEF WireInv
<1>4. ASSUME NEW r \in wire, ServerActs(r) PROVE WireInv'
  <2>1. Serving(r)
    BY <1>4, ServerServes
  <2>2. /\ wire' = wire \ {r} /\ UNCHANGED <<attempt, number, pc>>
        /\ ~(r.n = number /\ pc \in Calls) => reply' = reply
    BY <2>1 DEF Serving, clientVars
  <2>3. /\ \A q \in wire : q.attempt \in Attempts /\ q.op \in Calls
        /\ \A a \in Attempts : blame[a] \subseteq blame'[a]
    <3>1. \A q \in wire : q.attempt \in 1..attempt /\ q.op \in Calls
      BY DEF PhaseInv, TypeOK
    <3>2. attempt \in 0..MaxAttempts /\ MaxAttempts \in Nat
      BY HowMany DEF PhaseInv, TypeOK
    <3>3. QED
      BY <2>1, <3>1, <3>2, ServerPhase DEF Attempts
  <2>4. \A q \in wire' : q \in wire /\ q # r /\ q.n # r.n
    BY <2>2 DEF WireInv
  <2>5. ASSUME NEW q \in wire', Awaited(q) PROVE Awaited(q)'
    BY <2>2, <2>4, <2>5 DEF Awaited
  <2>6. ASSUME NEW q \in wire', Stray(q) PROVE Stray(q)'
    BY <2>2, <2>3, <2>4, <2>6 DEF Stray
  <2>7. QED
    BY <2>2, <2>4, <2>5, <2>6 DEF WireInv
<1>5. CASE UNCHANGED vars
  BY <1>5 DEF WireInv, Awaited, Stray, vars, clientVars
<1>6. QED
  BY <1>1, <1>2, <1>3, <1>4, <1>5 DEF Next, Server, ServerActs

-----------------------------------------------------------------------------
(* What befalls a login while it runs *)

LEMMA InitBlame == Init => BlameInv
BY DEF Init, BlameInv, Calls

\* Nothing has befallen a login that goes on.
LEMMA NewCallBlame ==
  ASSUME BlameInv, NewCall, UNCHANGED blame,
         \/ attempt' = attempt /\ pc \in Calls /\ pc # "logout" /\ (pc = "final" => Readable)
         \/ blame[attempt'] = {}
  PROVE  BlameInv'
BY DEF BlameInv, NewCall

LEMMA StepBlame == PhaseInv /\ WireInv /\ BlameInv /\ [Next]_vars => BlameInv'
<1> SUFFICES ASSUME PhaseInv, WireInv, BlameInv, [Next]_vars PROVE BlameInv'
  OBVIOUS
<1>0. ASSUME pc' = "returned" PROVE BlameInv'
  BY <1>0 DEF BlameInv, Calls
<1>1. ASSUME NEW o \in Options, Begin(o) PROVE BlameInv'
  <2>1. /\ attempt' = attempt + 1 /\ attempt < MaxAttempts /\ UNCHANGED blame
        /\ NewCall \/ Returns("error")
    BY <1>1, BeginPhase
  <2>2. blame[attempt'] = {}
    BY <2>1, HowMany DEF PhaseInv, TypeOK, Attempts
  <2>3. QED
    BY <1>0, <2>1, <2>2, NewCallBlame DEF Returns
<1>2. CASE Got
  <2>1. pc \in Calls /\ UNCHANGED <<attempt, blame>> /\ (GoesOn \/ pc' = "returned")
    BY <1>2, AnswersDecide DEF Fails, Succeeds, Returns
  <2>2. QED
    BY <1>0, <2>1, NewCallBlame DEF GoesOn
<1>3. CASE CallFails
  BY <1>0, <1>3 DEF CallFails, Failing, Returns
<1>4. ASSUME NEW r \in wire, ServerActs(r), pc \in Calls PROVE BlameInv'
  <2>1. Serving(r)
    BY <1>4, ServerServes
  <2>2. /\ UNCHANGED <<attempt, number, pc>>
        /\ r.n = number => reply' # None
        /\ r.n # number => reply' = reply
    BY <1>4, <2>1 DEF Serving, clientVars, None
  <2>3. attempt \in Attempts /\ r.attempt \in Attempts /\ blame \in [Attempts -> SUBSET Reasons]
    BY <1>4, <2>1, Running, ServerPhase
  <2>4. CASE Stray(r)
    <3>1. r.n # number /\ r.attempt # attempt
      BY <1>4, <2>4, Running DEF Stray
    <3>2. blame'[attempt] = blame[attempt] /\ reply' = reply
      BY <2>1, <2>2, <2>3, <3>1, ServerPhase
    <3>3. QED
      BY <2>2, <3>2 DEF BlameInv, Readable
  <2>5. CASE Awaited(r)
    <3>1. Truthful(r) /\ r.attempt = attempt /\ reply' # None /\ reply = None
      BY <1>4, <2>2, <2>3, <2>5, ServerIsTruthful DEF Awaited
    <3>2. "unanswered" \notin blame'[attempt]
      BY <1>4, <2>1, <3>1, ServerPhase DEF BlameInv
    <3>3. "garbled" \notin blame[attempt] /\ "kept" \notin blame[attempt]
      BY <1>4, <3>1 DEF BlameInv
    <3>4. QED
      BY <2>2, <3>1, <3>2, <3>3 DEF BlameInv, Truthful
  <2>6. QED
    BY <2>4, <2>5 DEF WireInv
<1>5. ASSUME NEW r \in wire, ServerActs(r), pc \notin Calls PROVE BlameInv'
  <2>1. pc' = pc
    BY <1>5, ServerServes DEF Serving, clientVars
  <2>2. QED
    BY <1>5, <2>1 DEF BlameInv
<1>6. CASE UNCHANGED vars
  BY <1>6 DEF BlameInv, Readable, vars, clientVars
<1>7. QED
  BY <1>1, <1>2, <1>3, <1>4, <1>5, <1>6 DEF Next, Server, ServerActs

-----------------------------------------------------------------------------
(* Loose logins *)

Bad == {"unanswered", "garbled", "kept"}

LEMMA StraysAreLoose ==
  ASSUME PhaseInv, NEW r \in wire, Stray(r)
  PROVE  r.attempt \in Loose
<1>1. r.attempt \in Attempts
  BY HowMany DEF PhaseInv, TypeOK, Attempts
<1>2. QED
  BY <1>1 DEF Stray, Loose

\* A login that runs is not loose, and becomes so only by what befell it.
LEMMA LooseAtReturn ==
  ASSUME PhaseInv, pc \in Calls, pc' = "returned", UNCHANGED attempt,
         \A a \in Attempts : a # attempt => blame'[a] = blame[a]
  PROVE  Loose' = IF blame'[attempt] \cap Bad # {} THEN Loose \cup {attempt} ELSE Loose
<1>1. attempt \in Attempts /\ attempt \in Nat /\ pc # "returned"
  BY Running
<1>2. \A a \in Attempts : a > attempt => blame[a] = {} /\ blame'[a] = {}
  BY <1>1 DEF PhaseInv, Attempts
<1>3. \A a \in Attempts : a \in Loose <=> a < attempt /\ blame[a] \cap Bad # {}
  BY <1>1 DEF Loose, Bad
<1>4. \A a \in Attempts : a \in Loose' <=> blame'[a] \cap Bad # {}
  BY DEF Loose, Bad
<1>5. Loose \subseteq Attempts /\ Loose' \subseteq Attempts
  BY DEF Loose
<1>6. \A a \in Attempts : a < attempt \/ a = attempt \/ a > attempt
  BY <1>1 DEF Attempts
<1>7. \A a \in Attempts : a # attempt => (a \in Loose' <=> a \in Loose)
  BY <1>1, <1>2, <1>3, <1>4, <1>6 DEF Attempts
<1>8. attempt \notin Loose
  BY <1>1, <1>3
<1>9. QED
  BY <1>1, <1>4, <1>5, <1>7, <1>8

LEMMA LooseAtBegin ==
  ASSUME PhaseInv, NEW o \in Options, Begin(o)
  PROVE  Loose' = Loose
<1>1. /\ attempt' = attempt + 1 /\ UNCHANGED blame /\ pc \in {"idle", "returned"}
      /\ pc' # "idle" /\ attempt \in Nat
  BY BeginPhase DEF Begin, PhaseInv, TypeOK
<1>2. \A a \in Attempts : a > attempt => blame[a] = {}
  BY DEF PhaseInv
<1>3. \A a \in Attempts : a < attempt' <=> a <= attempt
  BY <1>1 DEF Attempts
<1>4. pc = "idle" => attempt = 0
  BY DEF PhaseInv
<1>5. \A a \in Attempts : a > attempt \/ a <= attempt
  BY <1>1 DEF Attempts
<1>6. \A a \in Attempts : ~(a <= 0)
  BY DEF Attempts
<1>7. \A a \in Attempts : a \in Loose <=> a <= attempt /\ blame[a] \cap Bad # {}
  <2>1. CASE pc = "returned"
    BY <1>2, <1>5, <2>1 DEF Loose, Bad
  <2>2. CASE pc = "idle"
    <3>1. Loose = {}
      BY <1>2, <1>4, <1>5, <1>6, <2>2 DEF Loose
    <3>2. QED
      BY <1>4, <1>6, <2>2, <3>1
  <2>3. QED
    BY <1>1, <2>1, <2>2
<1>8. \A a \in Attempts : a \in Loose' <=> a <= attempt /\ blame[a] \cap Bad # {}
  BY <1>1, <1>2, <1>3, <1>5 DEF Loose, Bad
<1>9. QED
  BY <1>7, <1>8 DEF Loose

\* Nothing is loose that was not, while logins run or none does.
LEMMA LooseWhileServed ==
  ASSUME PhaseInv, WireInv, NEW r \in wire, Serving(r)
  PROVE  Loose' = Loose
<1>1. /\ UNCHANGED <<pc, attempt>> /\ r.attempt \in Attempts
      /\ \A a \in Attempts : blame[a] \subseteq blame'[a] /\ (a # r.attempt => blame'[a] = blame[a])
  BY ServerPhase DEF Serving, clientVars
<1>2. \A a \in Attempts : a # r.attempt => (a \in Loose' <=> a \in Loose)
  BY <1>1 DEF Loose
<1>3. r.attempt \in Loose' <=> r.attempt \in Loose
  <2>1. CASE Stray(r)
    <3>1. r.attempt \in Loose
      BY <2>1, StraysAreLoose
    <3>2. QED
      BY <1>1, <3>1 DEF Loose
  <2>2. CASE Awaited(r)
    <3>1. pc \in Calls /\ r.attempt = attempt
      BY <2>2 DEF Awaited, PhaseInv, TypeOK
    <3>2. pc # "returned" /\ ~(attempt < attempt)
      BY <3>1, Running
    <3>3. QED
      BY <1>1, <3>1, <3>2 DEF Loose
  <2>3. QED
    BY <2>1, <2>2 DEF WireInv
<1>4. QED
  BY <1>2, <1>3 DEF Loose

-----------------------------------------------------------------------------
(* The session of a login that runs *)

LEMMA NoAnswerNoGrant == ASSUME reply = None PROVE ~Granted
BY DEF Granted, None, Verdict

LEMMA NoAnswerNoGrantNext == ASSUME reply' = None PROVE ~Granted'
BY DEF Granted, None, Verdict

LEMMA InitSession == Init => SessionInv
BY DEF Init, SessionInv, Calls

LEMMA StepSession == LoginInv /\ [Next]_vars => SessionInv'
<1> SUFFICES ASSUME PhaseInv, WireInv, BlameInv, SessionInv, [Next]_vars PROVE SessionInv'
  BY DEF LoginInv
<1>0. ASSUME pc' = "returned" PROVE SessionInv'
  BY <1>0 DEF SessionInv, Calls
<1>1. ASSUME NEW o \in Options, Begin(o) PROVE SessionInv'
  <2>1. /\ attempt' = attempt + 1 /\ UNCHANGED session
        /\ NewCall \/ Returns("error")
    BY <1>1, BeginPhase DEF serverVars
  <2>2. session' # attempt'
    <3>1. attempt \in Nat /\ session \in 0..attempt
      BY HowMany DEF PhaseInv, TypeOK
    <3>2. QED
      BY <2>1, <3>1
  <2>3. CASE NewCall
    BY <2>2, <2>3, NoAnswerNoGrantNext DEF NewCall, SessionInv
  <2>4. QED
    BY <1>0, <2>1, <2>3 DEF Returns
<1>2. CASE Got
  <2>1. pc \in Calls /\ UNCHANGED <<attempt, session>> /\ (GoesOn \/ pc' = "returned")
    BY <1>2, AnswersDecide DEF Fails, Succeeds, Returns, serverVars
  <2>2. CASE GoesOn
    <3>1. reply' = None /\ ~Granted'
      BY <2>2, NoAnswerNoGrantNext DEF GoesOn, NewCall
    <3>2. session = attempt => pc' = "logout"
      BY <2>1, <2>2 DEF GoesOn, SessionInv
    <3>3. QED
      BY <2>1, <3>1, <3>2 DEF SessionInv
  <2>3. QED
    BY <1>0, <2>1, <2>2
<1>3. CASE CallFails
  BY <1>0, <1>3 DEF CallFails, Failing, Returns
<1>4. ASSUME NEW r \in wire, ServerActs(r), pc \in Calls PROVE SessionInv'
  <2>1. Serving(r)
    BY <1>4, ServerServes
  <2>2. /\ UNCHANGED <<attempt, number, pc>> /\ session' \in {session, r.attempt, 0}
        /\ r.n # number => reply' = reply
    BY <1>4, <2>1 DEF Serving, clientVars
  <2>3. /\ attempt \in Attempts /\ r.attempt \in Attempts /\ attempt # 0
        /\ blame \in [Attempts -> SUBSET Reasons]
    BY <1>4, <2>1, Running, ServerPhase
  <2>4. Loose' = Loose
    BY <2>1, LooseWhileServed
  <2>5. CASE Stray(r)
    <3>1. r.n # number /\ r.attempt # attempt /\ Loose' # {}
      BY <1>4, <2>4, <2>5, Running, StraysAreLoose DEF Stray
    <3>2. blame'[attempt] = blame[attempt] /\ reply' = reply
      BY <2>1, <2>2, <2>3, <3>1, ServerPhase
    <3>3. (Granted' <=> Granted) /\ (Readable' <=> Readable)
      BY <2>2, <3>2 DEF Granted, Readable
    <3>4. session' = attempt => session = attempt
      BY <2>2, <2>3, <3>1
    <3>5. QED
      BY <2>2, <3>1, <3>2, <3>3, <3>4 DEF SessionInv
  <2>6. CASE Awaited(r)
    <3>1. Truthful(r) /\ r.attempt = attempt /\ reply = None /\ ~Granted
      BY <1>4, <2>3, <2>6, ServerIsTruthful, NoAnswerNoGrant DEF Awaited
    <3>2. session' = attempt => Granted' \/ (pc = "logout" /\ "kept" \in blame'[attempt])
      BY <1>4, <2>3, <3>1 DEF SessionInv, Truthful
    <3>3. QED
      BY <2>2, <3>1, <3>2 DEF SessionInv, Truthful
  <2>7. QED
    BY <2>5, <2>6 DEF WireInv
<1>5. ASSUME NEW r \in wire, ServerActs(r), pc \notin Calls PROVE SessionInv'
  <2>1. pc' = pc
    BY <1>5, ServerServes DEF Serving, clientVars
  <2>2. QED
    BY <1>5, <2>1 DEF SessionInv
<1>6. CASE UNCHANGED vars
  BY <1>6 DEF SessionInv, Readable, Granted, Loose, vars, clientVars, serverVars
<1>7. QED
  BY <1>1, <1>2, <1>3, <1>4, <1>5, <1>6 DEF Next, Server, ServerActs

LEMMA InitLogin == Init => LoginInv
BY InitPhase, InitWire, InitBlame, InitSession DEF LoginInv

LEMMA StepLogin == LoginInv /\ [Next]_vars => LoginInv'
BY StepPhase, StepWire, StepBlame, StepSession DEF LoginInv

-----------------------------------------------------------------------------
(* A login keeps its contract *)

LEMMA InitRefines == Init => Contract!Init
BY DEF Init, Contract!Init, Loose

LEMMA FailRefines ==
  ASSUME LoginInv, pc \in Calls, Returns("error"), UNCHANGED <<attempt, session>>,
         \A a \in Attempts : a # attempt => blame'[a] = blame[a],
         session # attempt \/ blame'[attempt] \cap Bad # {}
  PROVE  Contract!Fail
<1>1. result = "running" /\ result' = "error" /\ pc' = "returned"
  BY Running DEF LoginInv, Returns
<1>2. Loose' = IF blame'[attempt] \cap Bad # {} THEN Loose \cup {attempt} ELSE Loose
  BY <1>1, LooseAtReturn DEF LoginInv
<1>3. QED
  BY <1>1, <1>2 DEF Contract!Fail

LEMMA StepRefines == LoginInv /\ [Next]_vars => [Contract!Next]_(Contract!vars)
<1> SUFFICES ASSUME LoginInv, [Next]_vars PROVE Contract!Next \/ UNCHANGED Contract!vars
  OBVIOUS
<1>0. PhaseInv /\ WireInv /\ BlameInv /\ SessionInv
  BY DEF LoginInv
<1>1. ASSUME NEW o \in Options, Begin(o) PROVE Contract!Begin
  <2>1. /\ attempt < MaxAttempts /\ attempt' = attempt + 1 /\ UNCHANGED session /\ pc \notin Calls
        /\ NewCall \/ Returns("error")
    BY <1>0, <1>1, BeginPhase DEF serverVars
  <2>2. result # "running" /\ result' \in {"running", "error"}
    BY <1>0, <2>1 DEF PhaseInv, TypeOK, NewCall, Returns
  <2>3. Loose' = Loose
    BY <1>0, <1>1, LooseAtBegin
  <2>4. QED
    BY <2>1, <2>2, <2>3 DEF Contract!Begin
<1>2. CASE Got
  <2>1. /\ pc \in Calls /\ reply # None /\ UNCHANGED <<attempt, session, blame>>
        /\ GoesOn \/ Fails \/ Succeeds
    BY <1>2, AnswersDecide DEF serverVars
  <2>2. CASE GoesOn
    <3>1. result' = result /\ pc' # "returned" /\ pc # "returned"
      BY <1>0, <2>1, <2>2, Running DEF GoesOn, NewCall, Calls
    <3>2. Loose' = Loose
      BY <2>1, <3>1 DEF Loose
    <3>3. QED
      BY <2>1, <3>1, <3>2 DEF Contract!vars
  <2>3. CASE Fails
    <3>1. session # attempt \/ blame'[attempt] \cap Bad # {}
      <4>1. CASE Granted
        BY <1>0, <2>1, <2>3, <4>1 DEF Fails, SessionInv, Bad
      <4>2. CASE ~Granted
        BY <1>0, <2>1, <4>2 DEF SessionInv, Bad
      <4>3. QED
        BY <4>1, <4>2
    <3>2. Contract!Fail
      BY <2>1, <2>3, <3>1, FailRefines DEF Fails
    <3>3. QED
      BY <3>2 DEF Contract!Next
  <2>4. CASE Succeeds
    <3>1. Granted /\ pc # "logout" /\ result = "running" /\ result' = "ok" /\ pc' = "returned"
      BY <1>0, <2>1, <2>4, Running DEF Succeeds, Granted, Returns
    <3>2. blame'[attempt] \cap Bad = {}
      BY <1>0, <2>1, <2>4, <3>1 DEF Succeeds, BlameInv, Bad
    <3>3. Loose' = Loose
      BY <1>0, <2>1, <3>1, <3>2, LooseAtReturn
    <3>4. session = attempt \/ Loose # {}
      BY <1>0, <2>1, <3>1 DEF SessionInv
    <3>5. Contract!Succeed
      BY <2>1, <3>1, <3>3, <3>4 DEF Contract!Succeed
    <3>6. QED
      BY <3>5 DEF Contract!Next
  <2>5. QED
    BY <2>1, <2>2, <2>3, <2>4
<1>3. CASE CallFails
  <2>1. /\ pc \in Calls /\ Returns("error") /\ UNCHANGED <<attempt, session>>
        /\ blame'[attempt] = blame[attempt] \cup {"unanswered"}
        /\ \A a \in Attempts : a # attempt => blame'[a] = blame[a]
    BY <1>0, <1>3, CallFailsPhase DEF serverVars
  <2>2. blame'[attempt] \cap Bad # {}
    BY <2>1 DEF Bad
  <2>3. Contract!Fail
    BY <2>1, <2>2, FailRefines
  <2>4. QED
    BY <2>3 DEF Contract!Next
<1>4. ASSUME NEW r \in wire, ServerActs(r) PROVE Contract!Next \/ UNCHANGED Contract!vars
  <2>1. Serving(r)
    BY <1>4, ServerServes
  <2>2. UNCHANGED <<attempt, result>> /\ session' \in {session, r.attempt, 0} /\ Loose' = Loose
    BY <1>0, <2>1, LooseWhileServed DEF Serving, clientVars
  <2>3. r.attempt \in Contract!Attempts
    BY <1>0, <2>1, ServerPhase DEF Attempts, Contract!Attempts
  <2>4. Contract!Acting(r.attempt)
    <3>1. CASE Stray(r)
      BY <1>0, <3>1, StraysAreLoose DEF Contract!Acting
    <3>2. CASE Awaited(r)
      <4>1. pc \in Calls /\ r.attempt = attempt
        BY <1>0, <3>2 DEF Awaited, PhaseInv, TypeOK
      <4>2. QED
        BY <1>0, <4>1, Running DEF Contract!Acting
    <3>3. QED
      BY <1>0, <3>1, <3>2 DEF WireInv
  <2>5. CASE session' = r.attempt
    <3>1. Contract!Grant(r.attempt)
      BY <2>2, <2>4, <2>5 DEF Contract!Grant
    <3>2. QED
      BY <2>3, <3>1 DEF Contract!Next
  <2>6. CASE session' = 0
    <3>1. Contract!Revoke(r.attempt)
      BY <2>2, <2>4, <2>6 DEF Contract!Revoke
    <3>2. QED
      BY <2>3, <3>1 DEF Contract!Next
  <2>7. CASE session' = session
    BY <2>2, <2>7 DEF Contract!vars
  <2>8. QED
    BY <2>2, <2>5, <2>6, <2>7
<1>5. CASE UNCHANGED vars
  BY <1>5 DEF vars, clientVars, serverVars, Contract!vars, Loose
<1>6. QED
  BY <1>1, <1>2, <1>3, <1>4, <1>5 DEF Next, Server, ServerActs, Contract!Next

\* A login that returns nil has the session and one that returns an error has
\* left none, except for logins the client cannot know about: LoginWithPassword
\* and LoginWithAPIKey keep the contract, over any number of logins.
THEOREM LoginKeepsContract == Spec => Implements
<1>1. Spec => [][Contract!Next]_(Contract!vars)
  BY InitLogin, StepLogin, StepRefines, PTL DEF Spec
<1>2. Spec => Contract!Init
  BY InitRefines, PTL DEF Spec
<1>3. QED
  BY <1>1, <1>2, PTL DEF Implements, Contract!Spec

-----------------------------------------------------------------------------
(* Where the key and the token go *)

\* Only the client adds to what is under way, and only the call it goes on with.
LEMMA WhatIsSent ==
  ASSUME [Next]_vars, NEW r \in wire' \ wire
  PROVE  \/ r.op \in {"password", "choices"}
         \/ Got /\ r.op = pc'
<1>1. ASSUME NEW o \in Options, Begin(o) PROVE r.op \in {"password", "choices"}
  <2>1. (\E body : Calling("password", body) \/ Calling("choices", body)) \/ Failing
    BY <1>1 DEF Begin
  <2>2. QED
    BY <2>1 DEF Calling, Failing, Returns
<1>2. CASE Got
  BY <1>2, AnswersDecide DEF GoesOn, Fails, Succeeds, NewCall, Returns
<1>3. CASE CallFails
  BY <1>3 DEF CallFails, Failing, Returns
<1>4. ASSUME NEW q \in wire, ServerActs(q) PROVE FALSE
  BY <1>4, ServerServes DEF Serving
<1>5. CASE UNCHANGED vars
  BY <1>5 DEF vars
<1>6. QED
  BY <1>1, <1>2, <1>3, <1>4, <1>5 DEF Next, Server, ServerActs

\* The call with the key is made of a login by that mechanism only.
LEMMA PlainIsChosen == Got /\ pc' = "plain" => option.method = "PLAIN"
<1> SUFFICES ASSUME Got, pc' = "plain" PROVE option.method = "PLAIN"
  OBVIOUS
<1>1. \A op, body : Calling(op, body) => op = "plain"
  BY DEF Calling
<1>2. \A what : ~Returns(what)
  BY DEF Returns
<1>3. CASE GotChoices
  BY <1>1, <1>2, <1>3 DEF GotChoices, StartScram, Chosen, Failing
<1>4. CASE GotPlain \/ GotFirst \/ GotFinal \/ GotLogout
  BY <1>1, <1>2, <1>4 DEF GotPlain, GotFirst, GotFinal, GotLogout, Distrust, Failing
<1>5. CASE GotPassword \/ GotOtp \/ GotLegacy
  BY <1>1, <1>2, <1>5 DEF GotPassword, GotOtp, GotLegacy, LoginEx, Failing
<1>6. QED
  BY <1>3, <1>4, <1>5 DEF Got

\* The call with the token follows the server's demand.
LEMMA TokenIsDemanded == Got /\ pc' = "otp" => pc = "password" /\ reply = Verdict("OTP_REQUIRED")
<1> SUFFICES ASSUME Got, pc' = "otp" PROVE pc = "password" /\ reply = Verdict("OTP_REQUIRED")
  OBVIOUS
<1>1. \A op, body : Calling(op, body) => op = "otp"
  BY DEF Calling
<1>2. \A what : ~Returns(what)
  BY DEF Returns
<1>3. CASE GotChoices
  BY <1>1, <1>2, <1>3 DEF GotChoices, StartPlain, StartScram, Failing
<1>4. CASE GotPlain \/ GotFirst \/ GotFinal \/ GotLogout
  BY <1>1, <1>2, <1>4 DEF GotPlain, GotFirst, GotFinal, GotLogout, Distrust, Failing
<1>5. CASE GotPassword
  BY <1>1, <1>2, <1>5 DEF GotPassword, Answered, LoginEx, Failing
<1>6. CASE GotOtp \/ GotLegacy
  BY <1>1, <1>2, <1>6 DEF GotOtp, GotLegacy, LoginEx, NextToken, Failing
<1>7. QED
  BY <1>3, <1>4, <1>5, <1>6 DEF Got

\* The key itself leaves the client only in a login that asked for PLAIN, whatever
\* the server says about its mechanisms.
THEOREM TheKeyStaysHome == Spec => KeyStaysHome
<1>1. [Next]_vars => [\A r \in wire' \ wire : r.op = "plain" => option.method = "PLAIN"]_vars
  BY WhatIsSent, PlainIsChosen
<1>2. QED
  BY <1>1, PTL DEF Spec, KeyStaysHome

\* A one-time password is sent after the server has asked for it, and not again.
THEOREM TheTokenIsSentOnce == Spec => TokenOnce
<1>1. [Next]_vars =>
        [\A r \in wire' \ wire : r.op = "otp" => pc = "password" /\ reply = Verdict("OTP_REQUIRED")]_vars
  BY WhatIsSent, TokenIsDemanded
<1>2. QED
  BY <1>1, PTL DEF Spec, TokenOnce
-----------------------------------------------------------------------------
(* What each call of a login says about its credentials *)

PasswordRight == option.name = Account.name /\ option.password = Account.password

\* The name and the number of the key are those of the account.
Known ==
  /\ option.name \in Names \ Reserved /\ SASLprep[option.name] = Account.name
  /\ keyData.apiKeyID = Account.apiKeyID

\* The first message of this login, and the challenge to it, if it was call n.
Hello(n) == NewClientFirst(option.name, keyData.apiKeyID, Binding, n)
Challenged(n) == Challenge(Hello(n), n)

\* What the client signs when its first message was call n.
Signed(n) == AuthMessage(Hello(n), Challenged(n), Binding)
Signing(n) == Keys(Challenged(n))

\* The request the client waits for says body.
Asking(body) == \A r \in wire : Awaited(r) => r.body = body

AtPlain ==
  /\ option.method = "PLAIN" /\ keyData.raw
  /\ Asking([name |-> option.name, id |-> keyData.apiKeyID, secret |-> keyData.secret])

\* SCRAM is used because it was chosen and is offered, and bound if that was
\* asked for.
Fit ==
  /\ option.method = "SCRAM" /\ server.choices = "listed" /\ "SCRAM" \in server.mechanisms
  /\ BindingResolved

AtFirst == Fit /\ first = Hello(number) /\ first.ok /\ Asking(first)

AtFinal ==
  LET n == number - 1
      m == Signed(n)
      keys == Signing(n)
  IN /\ Fit /\ Hello(n).ok /\ Known /\ AcceptableServerFirst(Challenged(n))
     /\ final.message = m /\ final.serverKey = keys.server
     /\ Asking([c |-> m.c, r |-> m.r, proof |-> Proof(keys.client, keys.stored, m)])

AtPassword ==
  option.method = "password" /\ Asking([name |-> option.name, password |-> option.password])

AtOtp ==
  /\ option.method = "password" /\ PasswordRight /\ server.twoFactor
  /\ Asking([token |-> option.otp])

AtLegacy ==
  /\ option.method = "password"
  /\ Asking([name |-> option.name, password |-> option.password, token |-> option.otp])

StageInv ==
  /\ pc # "idle" => keyData = Material(option)
  /\ pc \in {"choices", "plain", "first", "final"} => option.method # "password" /\ keyData.ok
  /\ pc = "plain" => AtPlain
  /\ pc = "first" => AtFirst
  /\ pc = "final" => AtFinal
  /\ pc = "password" => AtPassword
  /\ pc = "otp" => AtOtp
  /\ pc = "legacy" => AtLegacy

\* The client's keys and the binding are those of the account and the server.
Proved(n) ==
  /\ Signing(n).client = ClientKey(AccountKeys) /\ Signing(n).stored = StoredKey(AccountKeys)
  /\ option.bind => link.transport = "unix" \/ SameCertificate

\* What an answer tells the client.
HeardInv ==
  /\ pc = "choices" /\ reply.kind = "choices" =>
       server.choices = "listed" /\ reply.mechanisms = server.mechanisms
  /\ pc = "first" /\ reply.kind = "scram" => Known /\ reply.rfc = Challenged(number)
  /\ pc = "final" /\ reply.kind = "scram" =>
       /\ Proved(number - 1)
       /\ reply.rfc.signature \in {<<>>, Signature(ServerKey(AccountKeys), Signed(number - 1))}
  /\ pc = "password" /\ reply = Verdict("OTP_REQUIRED") => PasswordRight /\ server.twoFactor
  /\ pc # "final" /\ Granted => Entitled(option)

CredInv == StageInv /\ HeardInv /\ (result = "ok" => Entitled(option))

-----------------------------------------------------------------------------
(* What the right credentials lead to *)

\* The server has done nothing of its own accord, and no call went without answer.
Sure == Entitled(option) /\ blame[attempt] = {} /\ ~Disturbed

\* The exchange the server has begun is that of this login, whose first call was call n.
Begun(n) == exchange = [ok |-> TRUE, hello |-> Hello(n), challenge |-> Challenged(n)]

\* The answer is the one a login with the right credentials waits for.
Welcome ==
  /\ pc = "choices" => reply.kind = "choices" \/ (Unknown(reply) /\ server.choices # "listed")
  /\ pc = "plain" => reply = Verdict("SUCCESS")
  /\ pc = "first" => reply.kind = "scram" /\ reply.type = "SERVER_FIRST_RESPONSE" /\ Begun(number)
  /\ pc = "final" => Readable /\ Trusted(reply)
  /\ pc = "password" =>
       IF server.loginEx
         THEN IF server.twoFactor THEN reply = Verdict("OTP_REQUIRED") /\ asked
                                  ELSE reply = Verdict("SUCCESS")
         ELSE reply = Failure("missing")
  /\ pc = "otp" => reply = Verdict("SUCCESS")
  /\ pc = "legacy" => reply = [kind |-> "bool", ok |-> TRUE]

OnTrack ==
  /\ pc # "logout"
  /\ reply = None /\ pc = "final" => Begun(number - 1)
  /\ reply = None /\ pc = "otp" => asked
  /\ reply # None => Welcome

TrackInv ==
  /\ pc \in Calls /\ Sure => OnTrack
  /\ result = "error" => ~Sure

-----------------------------------------------------------------------------
(* The client's stages *)

\* The request the client waits for after a call is that of the call.
LEMMA CallingAsks ==
  ASSUME PhaseInv, NEW op, NEW body, Calling(op, body)
  PROVE  \A r \in wire' : Awaited(r)' => r.body = body
<1>1. number \in Nat /\ \A r \in wire : r.n \in 1..number
  BY DEF PhaseInv, TypeOK
<1>2. number' = number + 1 /\ \A r \in wire : r.n # number'
  BY <1>1 DEF Calling
<1>3. QED
  BY <1>2 DEF Calling, Awaited

\* What the server does leaves the client's stage alone.
LEMMA ServedStage ==
  ASSUME StageInv, NEW r \in wire, Serving(r)
  PROVE  StageInv'
<1>1. UNCHANGED <<server, link, attempt, option, keyData, pc, result, number, first, final>>
  BY DEF Serving, clientVars
<1>2. \A q \in wire' : q \in wire /\ (Awaited(q)' => Awaited(q))
  BY <1>1 DEF Serving, Awaited, None
<1>3. \A body : Asking(body) => \A q \in wire' : Awaited(q)' => q.body = body
  BY <1>2 DEF Asking
<1>4. (AtPlain => AtPlain') /\ (AtPassword => AtPassword') /\ (AtOtp => AtOtp') /\ (AtLegacy => AtLegacy')
  BY <1>1, <1>2 DEF AtPlain, AtPassword, AtOtp, AtLegacy, Asking, PasswordRight
<1>5. /\ (Fit => Fit') /\ Binding' = Binding
      /\ \A n : /\ Hello(n)' = Hello(n) /\ Challenged(n)' = Challenged(n)
                /\ Signed(n)' = Signed(n) /\ Signing(n)' = Signing(n)
  BY <1>1 DEF Fit, BindingResolved, Binding, Exempt, Hello, Challenged, Signed, Signing, Challenge, Keys
<1>6. AtFirst => AtFirst'
  BY <1>1, <1>2, <1>5 DEF AtFirst, Asking
<1>7. AtFinal => AtFinal'
  BY <1>1, <1>2, <1>5 DEF AtFinal, Asking, Known
<1>8. QED
  BY <1>1, <1>4, <1>6, <1>7 DEF StageInv, Material

LEMMA InitStage == Init => StageInv
BY DEF Init, StageInv

\* Stages in which no call with credentials is waited for.
LEMMA OtherStage ==
  ASSUME pc' \notin {"choices", "plain", "first", "final", "password", "otp", "legacy"},
         pc' = "idle" \/ keyData' = Material(option)'
  PROVE  StageInv'
BY DEF StageInv

LEMMA BeginStage ==
  ASSUME PhaseInv, NEW o \in Options, Begin(o)
  PROVE  StageInv'
<1>1. keyData' = Material(option)' /\ option' = o
  BY DEF Begin, Material
<1>2. CASE o.method = "password"
  <2>1. Calling("password", [name |-> o.name, password |-> o.password])
    BY <1>2 DEF Begin
  <2>2. pc' = "password" /\ Asking([name |-> option.name, password |-> option.password])'
    BY <1>1, <2>1, CallingAsks DEF Calling, Asking
  <2>3. QED
    BY <1>1, <1>2, <2>2 DEF StageInv, AtPassword
<1>3. CASE o.method # "password" /\ keyData'.ok
  <2>1. Calling("choices", <<>>)
    BY <1>3 DEF Begin
  <2>2. pc' = "choices"
    BY <2>1 DEF Calling
  <2>3. QED
    BY <1>1, <1>3, <2>2 DEF StageInv
<1>4. CASE o.method # "password" /\ ~keyData'.ok
  <2>1. pc' = "returned"
    BY <1>4 DEF Begin, Failing, Returns
  <2>2. QED
    BY <1>1, <2>1, OtherStage
<1>5. QED
  BY <1>2, <1>3, <1>4

\* The values that the client computes with do not change while it runs.
LEMMA SameTerms ==
  ASSUME UNCHANGED <<server, link, option, keyData>>
  PROVE  /\ Material(option)' = Material(option) /\ Binding' = Binding
         /\ BindingResolved' = BindingResolved /\ (Fit' <=> Fit) /\ (Known' <=> Known)
         /\ (PasswordRight' <=> PasswordRight) /\ (Entitled(option)' <=> Entitled(option))
         /\ \A n : /\ Hello(n)' = Hello(n) /\ Challenged(n)' = Challenged(n)
                   /\ Signed(n)' = Signed(n) /\ Signing(n)' = Signing(n)
                   /\ (Proved(n)' <=> Proved(n))
<1>1. Material(option)' = Material(option) /\ Binding' = Binding /\ BindingResolved' = BindingResolved
  BY DEF Material, Binding, BindingResolved, Exempt
<1>2. (Fit' <=> Fit) /\ (Known' <=> Known) /\ (PasswordRight' <=> PasswordRight)
  BY <1>1 DEF Fit, Known, PasswordRight
<1>3. AccountKeys' = AccountKeys /\ (SameCertificate' <=> SameCertificate)
  BY DEF AccountKeys, SameCertificate
<1>4. Entitled(option)' <=> Entitled(option)
  <2>1. OfTheAccount(KeyMaterial(option.key))' <=> OfTheAccount(KeyMaterial(option.key))
    BY <1>3 DEF OfTheAccount
  <2>2. QED
    BY <1>3, <2>1 DEF Entitled
<1>5. \A n : /\ Hello(n)' = Hello(n) /\ Challenged(n)' = Challenged(n)
             /\ Signed(n)' = Signed(n) /\ Signing(n)' = Signing(n)
  BY <1>1 DEF Hello, Challenged, Signed, Signing, Challenge, Keys
<1>6. \A n : Proved(n)' <=> Proved(n)
  BY <1>3, <1>5 DEF Proved
<1>7. QED
  BY <1>1, <1>2, <1>4, <1>5, <1>6

LEMMA GotStage ==
  ASSUME PhaseInv, StageInv, HeardInv, Got
  PROVE  StageInv'
<1>1. /\ pc \in Calls /\ reply # None /\ UNCHANGED <<server, link, attempt, option, keyData>>
      /\ pc # "idle" /\ number \in Nat
  BY AnswersDecide, Running
<1>2. keyData' = Material(option)' /\ number + 1 - 1 = number
  BY <1>1, SameTerms DEF StageInv
<1>3. ASSUME pc' \in {"returned", "logout"} PROVE StageInv'
  BY <1>2, <1>3, OtherStage
<1>4. \A what : Returns(what) => StageInv'
  BY <1>3 DEF Returns
<1>5. CASE GotChoices
  <2>1. pc = "choices" /\ option.method # "password" /\ keyData.ok
    BY <1>5 DEF GotChoices, Answered, StageInv
  <2>2. CASE StartPlain /\ option.method = "PLAIN"
    <3>1. CASE Failing
      BY <1>4, <3>1 DEF Failing
    <3>2. CASE /\ keyData.raw
               /\ Calling("plain", [name |-> option.name, id |-> keyData.apiKeyID, secret |-> keyData.secret])
      <4>1. /\ pc' = "plain"
            /\ Asking([name |-> option.name, id |-> keyData.apiKeyID, secret |-> keyData.secret])'
        BY <1>1, <3>2, CallingAsks DEF Calling, Asking
      <4>2. QED
        BY <1>1, <1>2, <2>1, <2>2, <3>2, <4>1 DEF StageInv, AtPlain
    <3>3. QED
      BY <2>2, <3>1, <3>2 DEF StartPlain
  <2>3. CASE StartScram(Offered(reply)) /\ option.method = "SCRAM"
    <3>1. CASE Failing
      BY <1>4, <3>1 DEF Failing
    <3>2. CASE /\ "SCRAM" \in Offered(reply) /\ BindingResolved /\ Hello(number + 1).ok
               /\ Calling("first", Hello(number + 1)) /\ first' = Hello(number + 1)
      <4>1. pc' = "first" /\ number' = number + 1
        BY <3>2 DEF Calling
      <4>2. server.choices = "listed" /\ "SCRAM" \in server.mechanisms
        BY <2>1, <3>2 DEF HeardInv, Offered
      <4>3. first' = Hello(number)' /\ first'.ok
        BY <1>1, <3>2, <4>1, SameTerms
      <4>4. Asking(first)'
        BY <3>2, CallingAsks DEF Asking
      <4>5. Fit'
        BY <1>1, <2>3, <3>2, <4>2, SameTerms DEF Fit
      <4>6. QED
        BY <1>1, <1>2, <2>1, <4>1, <4>3, <4>4, <4>5 DEF StageInv, AtFirst
    <3>3. QED
      BY <2>3, <3>1, <3>2 DEF StartScram, Hello
  <2>4. CASE Failing
    BY <1>4, <2>4 DEF Failing
  <2>5. QED
    BY <1>5, <2>2, <2>3, <2>4 DEF GotChoices, Chosen
<1>6. CASE GotPlain \/ GotFinal \/ GotLogout \/ GotLegacy
  <2>1. Distrust => pc' = "logout"
    BY DEF Distrust, Calling
  <2>2. QED
    BY <1>3, <1>4, <1>6, <2>1 DEF GotPlain, GotFinal, GotLogout, GotLegacy, Failing
<1>7. CASE GotFirst
  <2> DEFINE keys == Keys(reply.rfc)
             m == NewClientFinal(first, reply.rfc, keys.client, keys.stored, Binding)
  <2>1. pc = "first" /\ option.method # "password" /\ keyData.ok /\ AtFirst
    BY <1>7 DEF GotFirst, Answered, StageInv
  <2>2. CASE Failing
    BY <1>4, <2>2 DEF Failing
  <2>3. CASE /\ reply.kind = "scram" /\ AcceptableServerFirst(reply.rfc) /\ m.ok
             /\ Calling("final", [c |-> m.message.c, r |-> m.message.r, proof |-> m.proof])
             /\ final' = [ok |-> TRUE, message |-> m.message, serverKey |-> keys.server]
    <3>1. Known /\ reply.rfc = Challenged(number) /\ keys = Signing(number)
      BY <2>1, <2>3 DEF HeardInv, Signing
    <3>2. m.message = Signed(number) /\ m.proof = Proof(keys.client, keys.stored, Signed(number))
      <4> HIDE DEF keys
      <4>1. first = Hello(number) /\ AuthMessage(first, reply.rfc, Binding) = Signed(number)
        BY <2>1, <3>1 DEF AtFirst, Signed
      <4>2. m # Refused
        BY <2>3 DEF Refused
      <4>3. m = [ok |-> TRUE, message |-> Signed(number),
                 proof |-> Proof(keys.client, keys.stored, Signed(number))]
        BY <4>1, <4>2 DEF NewClientFinal
      <4>4. QED
        BY <4>3
    <3>3. pc' = "final" /\ number' - 1 = number
      <4>1. pc' = "final" /\ number' = number + 1
        BY <2>3 DEF Calling
      <4>2. QED
        BY <1>1, <1>2, <4>1
    <3>4. final'.message = Signed(number) /\ final'.serverKey = Signing(number).server
      BY <2>3, <3>1, <3>2
    <3> HIDE DEF m, keys
    <3>5. \A r \in wire' : Awaited(r)' =>
            r.body = [c |-> Signed(number).c, r |-> Signed(number).r,
                      proof |-> Proof(Signing(number).client, Signing(number).stored, Signed(number))]
      BY <2>3, <3>1, <3>2, CallingAsks
    <3>6. /\ \A n : /\ Hello(n)' = Hello(n) /\ Challenged(n)' = Challenged(n)
                     /\ Signed(n)' = Signed(n) /\ Signing(n)' = Signing(n)
          /\ (Fit' <=> Fit) /\ (Known' <=> Known)
      BY <1>1, SameTerms
    <3>7. Fit /\ Hello(number).ok
      BY <2>1 DEF AtFirst
    <3>8. AtFinal'
      BY <2>3, <3>1, <3>3, <3>4, <3>5, <3>6, <3>7 DEF AtFinal, Asking
    <3>9. QED
      BY <1>1, <1>2, <2>1, <3>3, <3>8 DEF StageInv
  <2>4. QED
    BY <1>7, <2>2, <2>3 DEF GotFirst
<1>8. CASE GotPassword
  <2>1. pc = "password" /\ option.method = "password"
    BY <1>8 DEF GotPassword, Answered, StageInv, AtPassword
  <2>2. CASE Calling("legacy", [name |-> option.name, password |-> option.password, token |-> option.otp])
    <3>1. /\ pc' = "legacy"
          /\ Asking([name |-> option.name, password |-> option.password, token |-> option.otp])'
      BY <1>1, <2>2, CallingAsks DEF Calling, Asking
    <3>2. QED
      BY <1>1, <1>2, <2>1, <3>1 DEF StageInv, AtLegacy
  <2>3. CASE reply = Verdict("OTP_REQUIRED") /\ Calling("otp", [token |-> option.otp])
    <3>1. PasswordRight /\ server.twoFactor
      BY <2>1, <2>3 DEF HeardInv
    <3>2. pc' = "otp" /\ Asking([token |-> option.otp])'
      BY <1>1, <2>3, CallingAsks DEF Calling, Asking
    <3>3. PasswordRight'
      BY <1>1, <3>1, SameTerms
    <3>4. QED
      BY <1>1, <1>2, <2>1, <3>1, <3>2, <3>3 DEF StageInv, AtOtp
  <2>4. CASE \E what \in {"ok", "error"} : Returns(what)
    BY <1>4, <2>4
  <2>5. QED
    BY <1>8, <2>2, <2>3, <2>4 DEF GotPassword, LoginEx, Failing
<1>9. CASE GotOtp
  BY <1>4, <1>9 DEF GotOtp, LoginEx, NextToken, Failing
<1>10. QED
  BY <1>5, <1>6, <1>7, <1>8, <1>9 DEF Got

-----------------------------------------------------------------------------
(* What an answer means *)

\* The conditions under which a login by each method is entitled.
LEMMA EntitledByPassword ==
  ASSUME option.method = "password"
  PROVE  Entitled(option) <=> PasswordRight /\ (server.twoFactor => option.otp = Account.token)
BY DEF Entitled, PasswordRight

LEMMA EntitledByPlain ==
  ASSUME option.method = "PLAIN", keyData = Material(option)
  PROVE  Entitled(option) <=>
           /\ OfTheAccount(keyData) /\ keyData.raw /\ option.name = Account.name /\ server.loginEx
BY DEF Entitled, Material

LEMMA EntitledByScram ==
  ASSUME option.method = "SCRAM", keyData = Material(option)
  PROVE  Entitled(option) <=>
           /\ OfTheAccount(keyData) /\ Known
           /\ server.choices = "listed" /\ "SCRAM" \in server.mechanisms
           /\ server.iterations \in MinIters..MaxIters /\ server.saltSize \in 1..MaxSaltSize
           /\ server.nonceSize \in {NonceSize, 2 * NonceSize}
           /\ option.bind => link.transport = "unix" \/ SameCertificate
BY DEF Entitled, Material, Known, OfTheAccount

\* Answers that let nobody in.
Dull(answer) ==
  /\ answer.kind \notin {"choices", "scram"}
  /\ answer \notin {Verdict("SUCCESS"), Verdict("OTP_REQUIRED"), [kind |-> "bool", ok |-> TRUE]}

LEMMA DullHeard ==
  ASSUME Dull(reply)'
  PROVE  HeardInv'
BY DEF Dull, HeardInv, Granted

LEMMA DullAnswers ==
  /\ Dull(None)
  /\ \A v : v \notin {"SUCCESS", "OTP_REQUIRED"} => Dull(Verdict(v))
  /\ \A why : Dull(Failure(why))
BY DEF Dull, None, Verdict, Failure

\* An answer that lets a login in comes from a server to which its credentials
\* are right.
LEMMA PlainHeard ==
  ASSUME StageInv, pc = "plain", NEW r \in wire, Awaited(r), ServePlain(r)
  PROVE  HeardInv'
<1> DEFINE right == r.body = [name |-> Account.name, id |-> Account.apiKeyID, secret |-> Account.secret]
<1>1. /\ UNCHANGED <<server, link, option, keyData, pc>> /\ server.loginEx
      /\ reply' = Verdict(IF right THEN "SUCCESS" ELSE "AUTH_ERR")
  BY ServesOne DEF ServePlain, Verdict, Awaited, clientVars, Calls
<1>2. CASE right
  <2>1. /\ AtPlain /\ keyData.ok /\ keyData = Material(option)
    BY DEF StageInv
  <2>2. option.name = Account.name /\ keyData.apiKeyID = Account.apiKeyID /\ keyData.secret = Account.secret
    BY <1>2, <2>1 DEF AtPlain, Asking
  <2>3. Entitled(option)
    BY <1>1, <2>1, <2>2, EntitledByPlain DEF OfTheAccount, AtPlain
  <2>4. Entitled(option)'
    BY <1>1, <2>3, SameTerms
  <2>5. pc' = "plain" /\ reply' = Verdict("SUCCESS")
    BY <1>1, <1>2
  <2>6. QED
    BY <2>4, <2>5 DEF HeardInv, Verdict
<1>3. CASE ~right
  BY <1>1, <1>3, DullAnswers, DullHeard
<1>4. QED
  BY <1>2, <1>3

LEMMA PasswordHeard ==
  ASSUME StageInv, pc = "password", NEW r \in wire, Awaited(r), ServePassword(r)
  PROVE  HeardInv'
<1> DEFINE right == r.body = [name |-> Account.name, password |-> Account.password]
<1>1. /\ UNCHANGED <<server, link, option, keyData, pc>>
      /\ reply' = Verdict(IF ~right THEN "AUTH_ERR" ELSE IF server.twoFactor THEN "OTP_REQUIRED" ELSE "SUCCESS")
  BY ServesOne DEF ServePassword, Verdict, Awaited, clientVars, Calls
<1>2. CASE right
  <2>1. AtPassword
    BY DEF StageInv
  <2>2. PasswordRight
    BY <1>2, <2>1 DEF AtPassword, Asking, PasswordRight
  <2>3. PasswordRight' /\ (~server.twoFactor => Entitled(option)')
    BY <1>1, <2>1, <2>2, EntitledByPassword, SameTerms DEF AtPassword
  <2>4. pc' = "password" /\ reply' = Verdict(IF server.twoFactor THEN "OTP_REQUIRED" ELSE "SUCCESS")
    BY <1>1, <1>2
  <2>5. QED
    BY <1>1, <2>3, <2>4 DEF HeardInv, Verdict, Granted
<1>3. CASE ~right
  BY <1>1, <1>3, DullAnswers, DullHeard
<1>4. QED
  BY <1>2, <1>3

LEMMA OtpHeard ==
  ASSUME StageInv, pc = "otp", NEW r \in wire, Awaited(r), ServeOtp(r)
  PROVE  HeardInv'
<1>1. /\ UNCHANGED <<server, link, option, keyData, pc>>
      /\ \E no \in {"OTP_REQUIRED", "AUTH_ERR"} :
           reply' = Verdict(IF asked /\ r.body.token = Account.token THEN "SUCCESS" ELSE no)
  BY ServesOne DEF ServeOtp, Verdict, Awaited, clientVars, Calls
<1>2. AtOtp
  BY DEF StageInv
<1>3. reply' = Verdict("SUCCESS") => option.otp = Account.token
  BY <1>1, <1>2 DEF AtOtp, Asking, Verdict
<1>4. reply' = Verdict("SUCCESS") => Entitled(option)'
  BY <1>1, <1>2, <1>3, EntitledByPassword, SameTerms DEF AtOtp
<1>5. pc' = "otp"
  BY <1>1
<1>6. reply'.kind = "verdict"
  BY <1>1 DEF Verdict
<1>7. QED
  BY <1>4, <1>5, <1>6 DEF HeardInv, Granted

LEMMA LegacyHeard ==
  ASSUME StageInv, pc = "legacy", NEW r \in wire, Awaited(r), ServeLegacy(r)
  PROVE  HeardInv'
<1> DEFINE right == /\ r.body.name = Account.name /\ r.body.password = Account.password
                    /\ server.twoFactor => r.body.token = Account.token
<1>1. UNCHANGED <<server, link, option, keyData, pc>> /\ reply' = [kind |-> "bool", ok |-> right]
  BY ServesOne DEF ServeLegacy, Awaited, clientVars, Calls
<1>2. AtLegacy
  BY DEF StageInv
<1>3. right => Entitled(option)
  BY <1>2, EntitledByPassword DEF AtLegacy, Asking, PasswordRight
<1>4. right => Entitled(option)'
  BY <1>1, <1>3, SameTerms
<1> HIDE DEF right
<1>5. reply' = [kind |-> "bool", ok |-> TRUE] => Entitled(option)'
  BY <1>1, <1>4
<1>6. pc' = "legacy" /\ reply'.kind = "bool"
  BY <1>1
<1>7. QED
  BY <1>5, <1>6 DEF HeardInv, Granted

LEMMA FirstHeard ==
  ASSUME PhaseInv, StageInv, pc = "first", NEW r \in wire, Awaited(r), ServeFirst(r)
  PROVE  HeardInv'
<1> DEFINE known == r.body.bare[1] = Account.name /\ r.body.bare[2] = Account.apiKeyID
<1>1. /\ UNCHANGED <<server, link, option, keyData, pc, number>>
      /\ reply' = IF known THEN [kind |-> "scram", type |-> "SERVER_FIRST_RESPONSE",
                                 rfc |-> Challenge(r.body, r.n)]
                           ELSE Verdict("AUTH_ERR")
  BY ServesOne DEF ServeFirst, Verdict, Awaited, clientVars, Calls
<1>2. r.body = Hello(number) /\ Hello(number).ok /\ r.n = number
  BY DEF StageInv, AtFirst, Asking, Awaited
<1>3. CASE known
  <2>1. /\ option.name \notin Reserved
        /\ Hello(number).bare = <<SASLprep[option.name], keyData.apiKeyID, number>>
    BY <1>2 DEF Hello, NewClientFirst, Refused
  <2>2. option.name \in Names
    BY LoginAssumption DEF PhaseInv, TypeOK, LoginAssumption
  <2>3. Known
    BY <1>2, <1>3, <2>1, <2>2 DEF Known
  <2>4. reply'.kind = "scram" /\ reply'.rfc = Challenged(number)
    BY <1>1, <1>2, <1>3 DEF Challenged
  <2>5. Known' /\ Challenged(number)' = Challenged(number) /\ number' = number
    BY <1>1, <2>3, SameTerms
  <2>6. QED
    BY <1>1, <2>4, <2>5, SameTerms DEF HeardInv, Granted, Verdict
<1>4. CASE ~known
  BY <1>1, <1>4, DullAnswers, DullHeard
<1>5. QED
  BY <1>3, <1>4

\* A binding that server and client agree on binds to the server's certificate.
LEMMA BindingAgrees ==
  ASSUME PhaseInv, BindingResolved, option.bind, NEW hello,
         (Binding # NoBinding) => hello.gs2 = "p",
         Binding = IF hello.gs2 = "p" THEN OwnEndPoint(link.serverCert) ELSE NoBinding
  PROVE  link.transport = "unix" \/ SameCertificate
<1>1. CASE link.transport # "tls"
  BY <1>1 DEF BindingResolved, Exempt
<1>2. CASE link.transport = "tls"
  <2>1. Binding = EndPoint(link.cert) /\ EndPoint(link.cert) # NoBinding
    BY <1>2 DEF BindingResolved, Binding
  <2>2. EndPoint(link.cert) = OwnEndPoint(link.serverCert)
    BY <2>1
  <2>3. Digest(link.cert.signature) # "none"
    BY <2>1 DEF EndPoint
  <2>4. link.cert.key = link.serverCert.key
    BY <2>2, <2>3 DEF EndPoint, OwnEndPoint
  <2>5. link.cert = link.serverCert
    <3>1. <<server, link>> \in Sites /\ <<server, link>>[2] = link
      BY DEF PhaseInv, TypeOK
    <3>2. QED
      BY <2>4, <3>1, LoginAssumption DEF LoginAssumption
  <2>6. link.cert.signature \in {"MD5", "SHA1", "SHA256", "SHA384", "SHA512"}
    BY <2>3 DEF Digest
  <2>7. QED
    BY <1>2, <2>5, <2>6 DEF SameCertificate
<1>3. QED
  BY <1>1, <1>2

\* A proof that is right is made with the keys of the account, over the binding
\* of the server.
LEMMA ProofProves ==
  ASSUME PhaseInv, StageInv, pc = "final", NEW r \in wire, Awaited(r), Proven(r)
  PROVE  Proved(number - 1) /\ Expected = Signed(number - 1)
<1> DEFINE n == number - 1
           keys == Signing(n)
<1>1. AtFinal
  BY DEF StageInv
<1>2. r.body = [c |-> Signed(n).c, r |-> Signed(n).r, proof |-> Proof(keys.client, keys.stored, Signed(n))]
  BY <1>1 DEF AtFinal, Asking
<1>3. r.body.proof = Proof(ClientKey(AccountKeys), StoredKey(AccountKeys), Expected)
  BY DEF Proven
<1>4. Proof(keys.client, keys.stored, Signed(n)) = Proof(ClientKey(AccountKeys), StoredKey(AccountKeys), Expected)
  BY <1>2, <1>3
<1> HIDE DEF keys, n
<1>5. keys.client = ClientKey(AccountKeys) /\ keys.stored = StoredKey(AccountKeys) /\ Signed(n) = Expected
  BY <1>4 DEF Proof
<1>6. <<Hello(n).gs2, Binding>> =
        <<exchange.hello.gs2, IF exchange.hello.gs2 = "p" THEN OwnEndPoint(link.serverCert) ELSE NoBinding>>
  <2>1. Signed(n).c = <<Hello(n).gs2, Binding>>
    BY DEF Signed, AuthMessage
  <2>2. Expected.c = <<exchange.hello.gs2,
                       IF exchange.hello.gs2 = "p" THEN OwnEndPoint(link.serverCert) ELSE NoBinding>>
    BY DEF Expected, AuthMessage
  <2>3. QED
    BY <1>5, <2>1, <2>2
<1>7. Hello(n).ok /\ BindingResolved
  BY <1>1 DEF AtFinal, Fit, n
<1>8. Binding # NoBinding => Hello(n).gs2 = "p"
  BY <1>7 DEF Hello, NewClientFirst, Refused
<1>9. option.bind => link.transport = "unix" \/ SameCertificate
  BY <1>6, <1>7, <1>8, BindingAgrees
<1>10. QED
  BY <1>5, <1>9 DEF Proved, keys, n

LEMMA FinalHeard ==
  ASSUME PhaseInv, StageInv, pc = "final", NEW r \in wire, Awaited(r), ServeFinal(r)
  PROVE  HeardInv'
<1>1. UNCHANGED <<server, link, option, keyData, pc, number>>
  BY ServesOne DEF ServeFinal, Serves, clientVars
<1>2. PICK readable \in BOOLEAN, signed \in BOOLEAN :
        Serves("final", r,
          IF Proven(r)
            THEN [kind |-> "scram", type |-> "SERVER_FINAL_RESPONSE",
                  rfc |-> [readable |-> readable,
                           signature |-> IF signed THEN Signature(ServerKey(AccountKeys), Expected)
                                                   ELSE <<>>]]
            ELSE Verdict("AUTH_ERR"))
  BY DEF ServeFinal
<1>3. pc \in Calls /\ r.n = number
  BY DEF Calls, Awaited
<1>4. CASE Proven(r)
  <2> DEFINE signature == IF signed THEN Signature(ServerKey(AccountKeys), Expected) ELSE <<>>
             rfc == [readable |-> readable, signature |-> signature]
             answer == [kind |-> "scram", type |-> "SERVER_FINAL_RESPONSE", rfc |-> rfc]
  <2>1. Serves("final", r, answer)
    BY <1>2, <1>4
  <2>2. answer.kind = "scram" /\ answer.rfc = rfc /\ rfc.signature = signature
    OBVIOUS
  <2>3. Proved(number - 1) /\ Expected = Signed(number - 1)
    BY <1>4, ProofProves
  <2>4. signature \in {<<>>, Signature(ServerKey(AccountKeys), Signed(number - 1))}
    BY <2>3
  <2> HIDE DEF answer, rfc, signature
  <2>5. reply' = answer
    BY <1>3, <2>1, <2>2, ServesOne
  <2>6. reply'.kind = "scram" /\ reply'.rfc.signature = signature
    BY <2>2, <2>5
  <2>7. \A n : (Proved(n)' <=> Proved(n)) /\ Signed(n)' = Signed(n)
    BY <1>1, SameTerms
  <2>8. AccountKeys' = AccountKeys
    BY <1>1 DEF AccountKeys
  <2>9. Proved(number - 1)' /\ Signed(number - 1)' = Signed(number - 1)
    BY <1>1, <2>3, <2>7
  <2>10. pc' = "final"
    BY <1>1
  <2>11. QED
    BY <2>4, <2>6, <2>8, <2>9, <2>10 DEF HeardInv, Verdict
<1>5. CASE ~Proven(r)
  <2>1. reply' = Verdict("AUTH_ERR")
    BY <1>2, <1>3, <1>5, ServesOne DEF Verdict
  <2>2. QED
    BY <2>1, DullAnswers, DullHeard
<1>6. QED
  BY <1>4, <1>5

\* A client that gets no answer learns nothing.
LEMMA StrayHeard ==
  ASSUME HeardInv, UNCHANGED <<server, link, option, keyData, pc, number, reply>>
  PROVE  HeardInv'
<1>1. /\ (Known' <=> Known) /\ (PasswordRight' <=> PasswordRight) /\ (Entitled(option)' <=> Entitled(option))
      /\ \A n : Challenged(n)' = Challenged(n) /\ Signed(n)' = Signed(n) /\ (Proved(n)' <=> Proved(n))
  BY SameTerms
<1>2. Granted' <=> Granted
  BY DEF Granted
<1>3. AccountKeys' = AccountKeys
  BY DEF AccountKeys
<1>4. /\ Challenged(number)' = Challenged(number) /\ Signed(number - 1)' = Signed(number - 1)
      /\ (Proved(number - 1)' <=> Proved(number - 1))
  BY <1>1
<1>5. QED
  BY <1>1, <1>2, <1>3, <1>4 DEF HeardInv

LEMMA ServerHeard ==
  ASSUME PhaseInv, WireInv, StageInv, HeardInv, NEW r \in wire, ServerActs(r)
  PROVE  HeardInv'
<1>1. Serving(r)
  BY ServerServes
<1>2. CASE Stray(r)
  <2>1. UNCHANGED <<server, link, option, keyData, pc, number, reply>>
    BY <1>1, <1>2 DEF Serving, Stray, clientVars
  <2>2. QED
    BY <2>1, StrayHeard
<1>3. CASE Awaited(r)
  <2>1. r.op = pc /\ r.n = number /\ pc \in Calls
    BY <1>3 DEF Awaited, PhaseInv, TypeOK
  <2>2. CASE ServeChoices(r)
    <3>1. /\ UNCHANGED <<server, pc>> /\ pc = "choices"
          /\ reply' = IF server.choices = "listed" THEN [kind |-> "choices", mechanisms |-> server.mechanisms]
                                                   ELSE Failure(server.choices)
      BY <2>1, <2>2, ServesOne DEF ServeChoices, Failure, clientVars
    <3>2. CASE server.choices = "listed"
      BY <3>1, <3>2 DEF HeardInv, Granted
    <3>3. CASE server.choices # "listed"
      BY <3>1, <3>3, DullAnswers, DullHeard
    <3>4. QED
      BY <3>2, <3>3
  <2>3. CASE ServePlain(r)
    BY <1>3, <2>1, <2>3, PlainHeard DEF ServePlain, Serves
  <2>4. CASE ServePassword(r)
    BY <1>3, <2>1, <2>4, PasswordHeard DEF ServePassword, Serves
  <2>5. CASE ServeOtp(r)
    BY <1>3, <2>1, <2>5, OtpHeard DEF ServeOtp, Serves
  <2>6. CASE ServeLegacy(r)
    BY <1>3, <2>1, <2>6, LegacyHeard DEF ServeLegacy, Serves
  <2>7. CASE ServeFirst(r)
    BY <1>3, <2>1, <2>7, FirstHeard DEF ServeFirst, Serves
  <2>8. CASE ServeFinal(r)
    BY <1>3, <2>1, <2>8, FinalHeard DEF ServeFinal, Serves
  <2>9. CASE ServeLogout(r)
    <3>1. pc' = "logout" /\ reply'.kind = "bool"
      BY <2>1, <2>9, ServesOne DEF ServeLogout, clientVars
    <3>2. QED
      BY <3>1 DEF HeardInv, Granted
  <2>10. CASE ServeMissing(r)
    <3>1. reply' = Failure("missing")
      BY <2>1, <2>10, ServesOne DEF ServeMissing, Failure
    <3>2. QED
      BY <3>1, DullAnswers, DullHeard
  <2>11. CASE ServerDeclines(r)
    <3>1. PICK answer \in {Verdict(v) : v \in Declined} \cup {Failure("other")} : Serves(r.op, r, answer)
      BY <2>11 DEF ServerDeclines
    <3>2. Dull(answer) /\ answer.kind \in {"verdict", "error"}
      BY DullAnswers DEF Declined, Verdict, Failure
    <3>3. reply' = answer
      BY <2>1, <3>1, <3>2, ServesOne
    <3>4. Dull(reply)'
      BY <3>2, <3>3 DEF Dull
    <3>5. QED
      BY <3>4, DullHeard
  <2>12. QED
    BY <2>2, <2>3, <2>4, <2>5, <2>6, <2>7, <2>8, <2>9, <2>10, <2>11 DEF ServerActs
<1>4. QED
  BY <1>2, <1>3 DEF WireInv

-----------------------------------------------------------------------------
(* Nobody is let in whose credentials are not right *)

LEMMA InitCred == Init => CredInv
<1> SUFFICES ASSUME Init PROVE CredInv
  OBVIOUS
<1>1. reply = None /\ result # "ok"
  BY DEF Init
<1>2. HeardInv
  BY <1>1, DullAnswers DEF HeardInv, Granted, Dull
<1>3. QED
  BY <1>1, <1>2, InitStage DEF CredInv

\* The client returns nil for an answer that lets it in, and, over SCRAM, proves
\* that the server knows the account's keys.
LEMMA SuccessIsEarned ==
  ASSUME PhaseInv, StageInv, HeardInv, Got, result' = "ok"
  PROVE  Entitled(option)
<1>1. pc \in Calls /\ Granted /\ (GotFinal \/ pc # "final")
  BY AnswersDecide DEF GoesOn, NewCall, Fails, Succeeds, Returns, Got, GotChoices, GotPlain, GotFirst,
     GotLogout, GotPassword, GotOtp, GotLegacy, Answered
<1>2. CASE pc # "final"
  BY <1>1, <1>2 DEF HeardInv
<1>3. CASE GotFinal
  <2> DEFINE n == number - 1
  <2>1. pc = "final" /\ reply.kind = "scram" /\ Trusted(reply)
    BY <1>3 DEF GotFinal, Answered, Failing, Returns, Distrust, Calling
  <2>2. /\ AtFinal /\ keyData.ok /\ keyData = Material(option)
    BY <2>1 DEF StageInv
  <2>3. /\ Proved(n) /\ reply.rfc.signature \in {<<>>, Signature(ServerKey(AccountKeys), Signed(n))}
    BY <2>1 DEF HeardInv
  <2>4. final.message = Signed(n) /\ final.serverKey = Signing(n).server
    BY <2>2 DEF AtFinal
  <2>5. Signing(n).server = ServerKey(AccountKeys)
    <3>1. reply.rfc.signature # <<>> /\ reply.rfc.signature = Signature(final.serverKey, final.message)
      BY <2>1 DEF Trusted, SignatureVerifies
    <3>2. Signature(Signing(n).server, Signed(n)) = Signature(ServerKey(AccountKeys), Signed(n))
      BY <2>3, <2>4, <3>1
    <3>3. QED
      BY <3>2 DEF Signature
  <2>6. /\ Signing(n).client = ClientKey(AccountKeys) /\ Signing(n).stored = StoredKey(AccountKeys)
        /\ option.bind => link.transport = "unix" \/ SameCertificate
    BY <2>3 DEF Proved
  <2>7. /\ Known /\ Fit /\ AcceptableServerFirst(Challenged(n))
    BY <2>2 DEF AtFinal
  <2>8. OfTheAccount(keyData)
    <3>1. CASE keyData.raw
      <4>1. Signing(n).client = ClientKey(Salted(keyData.secret, Account.salt, server.iterations))
        BY <3>1 DEF Signing, Keys, Challenged, Challenge
      <4>2. keyData.secret = Account.secret
        BY <2>6, <4>1 DEF ClientKey, Salted, AccountKeys
      <4>3. QED
        BY <2>2, <2>7, <3>1, <4>2 DEF OfTheAccount, Known
    <3>2. CASE ~keyData.raw
      BY <2>2, <2>5, <2>6, <2>7, <3>2 DEF OfTheAccount, Known, Signing, Keys
    <3>3. QED
      BY <3>1, <3>2
  <2>9. /\ server.iterations \in MinIters..MaxIters /\ server.saltSize \in 1..MaxSaltSize
        /\ server.nonceSize \in {NonceSize, 2 * NonceSize}
    BY <2>7 DEF AcceptableServerFirst, Challenged, Challenge
  <2>10. QED
    BY <2>2, <2>6, <2>7, <2>8, <2>9, EntitledByScram DEF Fit
<1>4. QED
  BY <1>1, <1>2, <1>3

LEMMA StepCred == PhaseInv /\ WireInv /\ CredInv /\ [Next]_vars => CredInv'
<1> SUFFICES ASSUME PhaseInv, WireInv, CredInv, [Next]_vars PROVE CredInv'
  OBVIOUS
<1>1. StageInv /\ HeardInv /\ (result = "ok" => Entitled(option))
  BY DEF CredInv
<1>2. ASSUME reply' = None PROVE HeardInv'
  BY <1>2, DullAnswers, DullHeard DEF Dull
<1>3. ASSUME NEW o \in Options, Begin(o) PROVE CredInv'
  <2>1. reply' = None /\ result' # "ok"
    BY <1>3, BeginPhase DEF NewCall, Returns
  <2>2. QED
    BY <1>2, <1>3, <2>1, BeginStage DEF CredInv
<1>4. CASE Got
  <2>1. reply' = None /\ UNCHANGED <<server, link, option, keyData>>
    BY <1>4, AnswersDecide DEF GoesOn, Fails, Succeeds, NewCall, Returns
  <2>2. result' = "ok" => Entitled(option)'
    BY <1>1, <1>4, <2>1, SuccessIsEarned, SameTerms
  <2>3. QED
    BY <1>1, <1>2, <1>4, <2>1, <2>2, GotStage DEF CredInv
<1>5. CASE CallFails
  <2>1. /\ reply' = None /\ result' # "ok" /\ pc' = "returned" /\ pc # "idle"
        /\ UNCHANGED <<server, link, option, keyData>>
    BY <1>5, Running DEF CallFails, Failing, Returns
  <2>2. StageInv'
    BY <1>1, <2>1, SameTerms, OtherStage DEF StageInv
  <2>3. QED
    BY <1>2, <2>1, <2>2 DEF CredInv
<1>6. ASSUME NEW r \in wire, ServerActs(r) PROVE CredInv'
  <2>1. Serving(r)
    BY <1>6, ServerServes
  <2>2. (result' = "ok") = (result = "ok") /\ (Entitled(option)' <=> Entitled(option))
    BY <2>1, SameTerms DEF Serving, clientVars
  <2>3. QED
    BY <1>1, <1>6, <2>1, <2>2, ServedStage, ServerHeard DEF CredInv
<1>7. CASE UNCHANGED vars
  <2>1. UNCHANGED <<server, link, attempt, option, keyData, pc, result, number, first, final, wire, reply>>
    BY <1>7 DEF vars, clientVars
  <2>2. StageInv'
    <3>1. \A body : Asking(body) => Asking(body)'
      BY <2>1 DEF Asking, Awaited
    <3>2. /\ (Fit' <=> Fit) /\ (Known' <=> Known) /\ (PasswordRight' <=> PasswordRight)
          /\ Material(option)' = Material(option)
          /\ \A n : /\ Hello(n)' = Hello(n) /\ Challenged(n)' = Challenged(n)
                    /\ Signed(n)' = Signed(n) /\ Signing(n)' = Signing(n)
      BY <2>1, SameTerms
    <3>3. \A r \in wire : Awaited(r)' <=> Awaited(r)
      BY <2>1 DEF Awaited
    <3>4. (AtFirst => AtFirst') /\ (AtFinal => AtFinal')
      BY <2>1, <3>2, <3>3 DEF AtFirst, AtFinal, Asking
    <3>5. (AtPlain => AtPlain') /\ (AtPassword => AtPassword') /\ (AtOtp => AtOtp') /\ (AtLegacy => AtLegacy')
      BY <2>1, <3>2, <3>3 DEF AtPlain, AtPassword, AtOtp, AtLegacy, Asking
    <3>6. QED
      BY <1>1, <2>1, <3>2, <3>4, <3>5 DEF StageInv
  <2>3. QED
    BY <1>1, <2>1, <2>2, StrayHeard, SameTerms DEF CredInv
<1>8. QED
  BY <1>3, <1>4, <1>5, <1>6, <1>7 DEF Next, Server, ServerActs

-----------------------------------------------------------------------------
(* Those whose credentials are right are let in *)

\* A login that has had no bad luck so far had none before.
LEMMA SureBefore ==
  ASSUME PhaseInv, pc # "idle", UNCHANGED <<server, link, attempt, option, keyData>>,
         \A a \in Attempts : blame[a] \subseteq blame'[a]
  PROVE  Sure' => Sure
<1>1. attempt \in 1..MaxAttempts /\ 1..attempt \subseteq Attempts
  BY HowMany DEF PhaseInv, TypeOK, Attempts
<1>2. attempt \in Attempts /\ (blame'[attempt] = {} => blame[attempt] = {})
  BY <1>1 DEF Attempts
<1>3. ~Disturbed' => ~Disturbed
  BY <1>1 DEF Disturbed
<1>4. QED
  BY <1>2, <1>3, SameTerms DEF Sure

\* No request of an earlier login disturbs it.
LEMMA NothingAstray ==
  ASSUME PhaseInv, WireInv, Sure, NEW r \in wire
  PROVE  Awaited(r)
<1>1. r.attempt \in 1..attempt
  BY DEF PhaseInv, TypeOK
<1>2. "unanswered" \notin blame[r.attempt]
  BY <1>1 DEF Sure, Disturbed
<1>3. QED
  BY <1>2 DEF WireInv, Stray

\* An answer of the server that it owes to a login with the right credentials.
LEMMA PlainWelcome ==
  ASSUME StageInv, pc = "plain", Entitled(option), NEW r \in wire, Awaited(r), ServePlain(r)
  PROVE  Welcome'
<1>1. /\ AtPlain /\ keyData = Material(option)
  BY DEF StageInv
<1>2. /\ OfTheAccount(keyData) /\ keyData.raw /\ option.name = Account.name
  BY <1>1, EntitledByPlain DEF AtPlain
<1>3. r.body = [name |-> Account.name, id |-> Account.apiKeyID, secret |-> Account.secret]
  BY <1>1, <1>2 DEF AtPlain, Asking, OfTheAccount
<1>4. pc' = "plain" /\ reply' = Verdict("SUCCESS")
  BY <1>3, ServesOne DEF ServePlain, Verdict, Awaited, clientVars, Calls
<1>5. QED
  BY <1>4 DEF Welcome

LEMMA PasswordWelcome ==
  ASSUME StageInv, pc = "password", Entitled(option), NEW r \in wire, Awaited(r),
         ServePassword(r) \/ ServeMissing(r)
  PROVE  Welcome'
<1>1. AtPassword
  BY DEF StageInv
<1>2. PasswordRight
  BY <1>1, EntitledByPassword DEF AtPassword
<1>3. r.body = [name |-> Account.name, password |-> Account.password]
  BY <1>1, <1>2 DEF AtPassword, Asking, PasswordRight
<1>4. CASE ServePassword(r)
  <2>1. /\ pc' = "password" /\ server' = server /\ server.loginEx
        /\ reply' = Verdict(IF server.twoFactor THEN "OTP_REQUIRED" ELSE "SUCCESS")
    BY <1>3, <1>4, ServesOne DEF ServePassword, Verdict, Awaited, clientVars, Calls
  <2>2. server.twoFactor => asked'
    BY <1>3, <1>4 DEF ServePassword
  <2>3. QED
    BY <2>1, <2>2 DEF Welcome
<1>5. CASE ServeMissing(r)
  <2>1. pc' = "password" /\ server' = server /\ ~server.loginEx /\ reply' = Failure("missing")
    BY <1>5, ServesOne DEF ServeMissing, Failure, Awaited, clientVars, Calls
  <2>2. QED
    BY <2>1 DEF Welcome
<1>6. QED
  BY <1>4, <1>5

LEMMA OtpWelcome ==
  ASSUME StageInv, pc = "otp", asked, Entitled(option), NEW r \in wire, Awaited(r), ServeOtp(r)
  PROVE  Welcome'
<1>1. AtOtp
  BY DEF StageInv
<1>2. r.body.token = Account.token
  BY <1>1, EntitledByPassword DEF AtOtp, Asking
<1>3. pc' = "otp" /\ reply' = Verdict("SUCCESS")
  BY <1>2, ServesOne DEF ServeOtp, Verdict, Awaited, clientVars, Calls
<1>4. QED
  BY <1>3 DEF Welcome

LEMMA LegacyWelcome ==
  ASSUME StageInv, pc = "legacy", Entitled(option), NEW r \in wire, Awaited(r), ServeLegacy(r)
  PROVE  Welcome'
<1> DEFINE right == /\ r.body.name = Account.name /\ r.body.password = Account.password
                    /\ server.twoFactor => r.body.token = Account.token
<1>1. AtLegacy
  BY DEF StageInv
<1>2. right
  BY <1>1, EntitledByPassword DEF AtLegacy, Asking, PasswordRight
<1>3. pc' = "legacy" /\ reply' = [kind |-> "bool", ok |-> right]
  BY ServesOne DEF ServeLegacy, Awaited, clientVars, Calls
<1> HIDE DEF right
<1>4. reply' = [kind |-> "bool", ok |-> TRUE]
  BY <1>2, <1>3
<1>5. QED
  BY <1>3, <1>4 DEF Welcome

LEMMA FirstWelcome ==
  ASSUME StageInv, pc = "first", Entitled(option), NEW r \in wire, Awaited(r), ServeFirst(r)
  PROVE  Welcome'
<1>1. /\ keyData = Material(option) /\ Fit /\ first = Hello(number) /\ first.ok /\ Asking(first)
  BY DEF StageInv, AtFirst
<1>2. Known
  BY <1>1, EntitledByScram DEF Fit
<1>3. r.body = Hello(number) /\ r.n = number /\ Hello(number).ok
  BY <1>1 DEF Asking, Awaited
<1>4. Hello(number).bare[1] = Account.name /\ Hello(number).bare[2] = Account.apiKeyID
  BY <1>2, <1>3 DEF Known, Hello, NewClientFirst, Refused
<1>5. /\ UNCHANGED <<server, link, option, keyData, pc, number>>
      /\ reply' = [kind |-> "scram", type |-> "SERVER_FIRST_RESPONSE", rfc |-> Challenge(r.body, r.n)]
      /\ exchange' = [ok |-> TRUE, hello |-> r.body, challenge |-> Challenge(r.body, r.n)]
  BY <1>3, <1>4, ServesOne DEF ServeFirst, Verdict, Awaited, clientVars, Calls
<1>6. Hello(number)' = Hello(number) /\ Challenged(number)' = Challenged(number)
  BY <1>5, SameTerms
<1>7. Begun(number)'
  BY <1>3, <1>5, <1>6 DEF Begun, Challenged
<1>8. pc' = "first" /\ reply'.kind = "scram" /\ reply'.type = "SERVER_FIRST_RESPONSE"
  BY <1>5
<1>9. QED
  BY <1>7, <1>8 DEF Welcome

\* With the right key the client signs with the keys of the account, and it binds
\* to the certificate the server has.
LEMMA RightKeys ==
  ASSUME option.method = "SCRAM", keyData = Material(option), Entitled(option), NEW n
  PROVE  /\ Signing(n).client = ClientKey(AccountKeys) /\ Signing(n).stored = StoredKey(AccountKeys)
         /\ Signing(n).server = ServerKey(AccountKeys)
<1>1. OfTheAccount(keyData)
  BY EntitledByScram
<1>2. CASE keyData.raw
  <2>1. keyData.secret = Account.secret
    BY <1>1, <1>2 DEF OfTheAccount
  <2>2. Challenged(n)["s"].salt = Account.salt /\ Challenged(n)["i"] = server.iterations
    BY DEF Challenged, Challenge
  <2>3. QED
    BY <1>2, <2>1, <2>2 DEF Signing, Keys, AccountKeys
<1>3. CASE ~keyData.raw
  BY <1>1, <1>3 DEF OfTheAccount, Signing, Keys
<1>4. QED
  BY <1>2, <1>3

LEMMA RightBinding ==
  ASSUME option.method = "SCRAM", keyData = Material(option), Entitled(option)
  PROVE  /\ BindingResolved
         /\ Binding # NoBinding => Binding = OwnEndPoint(link.serverCert)
<1>1. option.bind => link.transport = "unix" \/ SameCertificate
  BY EntitledByScram
<1>2. CASE option.bind /\ link.transport = "tls"
  <2>1. SameCertificate /\ Binding = EndPoint(link.cert)
    BY <1>1, <1>2 DEF Binding
  <2>2. EndPoint(link.cert) = OwnEndPoint(link.serverCert)
    BY <2>1 DEF SameCertificate, EndPoint, OwnEndPoint, Digest
  <2>3. EndPoint(link.cert) # NoBinding
    BY <2>1 DEF SameCertificate, EndPoint, Digest, NoBinding
  <2>4. QED
    BY <1>2, <2>1, <2>2, <2>3 DEF BindingResolved
<1>3. CASE ~(option.bind /\ link.transport = "tls")
  BY <1>1, <1>3 DEF Binding, BindingResolved, Exempt, SameCertificate
<1>4. QED
  BY <1>2, <1>3

\* The proof of such a client is right.
LEMMA ProofIsRight ==
  ASSUME StageInv, pc = "final", Entitled(option), Begun(number - 1), NEW r \in wire, Awaited(r)
  PROVE  Proven(r) /\ Expected = Signed(number - 1)
<1> DEFINE n == number - 1
           bound == IF exchange.hello.gs2 = "p" THEN OwnEndPoint(link.serverCert) ELSE NoBinding
<1>1. keyData = Material(option) /\ AtFinal
  BY DEF StageInv
<1>2. Fit /\ Hello(n).ok /\ r.body = [c |-> Signed(n).c, r |-> Signed(n).r,
                             proof |-> Proof(Signing(n).client, Signing(n).stored, Signed(n))]
  BY <1>1 DEF AtFinal, Asking
<1>3. exchange.ok /\ exchange.hello = Hello(n) /\ exchange.challenge = Challenged(n)
  BY DEF Begun
<1>4. Signing(n).client = ClientKey(AccountKeys) /\ Signing(n).stored = StoredKey(AccountKeys)
  BY <1>1, <1>2, RightKeys DEF Fit
<1> HIDE DEF n
<1>5. Hello(n).gs2 = IF Binding = NoBinding THEN "n" ELSE "p"
  BY <1>2 DEF Hello, NewClientFirst, Refused
<1>6. bound = Binding
  BY <1>1, <1>2, <1>3, <1>5, RightBinding DEF Fit
<1>7. Expected = Signed(n)
  BY <1>3, <1>6 DEF Expected, Signed
<1>8. Proven(r)
  BY <1>2, <1>3, <1>4, <1>7 DEF Proven
<1>9. QED
  BY <1>7, <1>8 DEF n

LEMMA FinalWelcome ==
  ASSUME StageInv, pc = "final", Entitled(option), Begun(number - 1), NEW r \in wire, Awaited(r),
         ServeFinal(r), attempt \in Attempts, blame \in [Attempts -> SUBSET Reasons],
         blame'[attempt] = {}
  PROVE  Welcome'
<1>1. Proven(r) /\ Expected = Signed(number - 1)
  BY ProofIsRight
<1>2. PICK readable \in BOOLEAN, signed \in BOOLEAN :
        /\ Serves("final", r,
             [kind |-> "scram", type |-> "SERVER_FINAL_RESPONSE",
              rfc |-> [readable |-> readable,
                       signature |-> IF signed THEN Signature(ServerKey(AccountKeys), Expected)
                                               ELSE <<>>]])
        /\ IF ~readable THEN Excused(r, "garbled")
           ELSE IF ~signed THEN Excused(r, "declined") ELSE UNCHANGED blame
  BY <1>1 DEF ServeFinal
<1>3. pc \in Calls /\ r.n = number /\ r.attempt = attempt
  BY DEF Calls, Awaited
<1>4. readable /\ signed
  <2>1. \A why \in {"declined", "garbled", "kept"} : ~Excused(r, why)
    BY <1>3, ExcusesGrow
  <2>2. QED
    BY <1>2, <2>1
<1> DEFINE signature == Signature(ServerKey(AccountKeys), Expected)
           rfc == [readable |-> TRUE, signature |-> signature]
           answer == [kind |-> "scram", type |-> "SERVER_FINAL_RESPONSE", rfc |-> rfc]
<1>5. Serves("final", r, answer)
  BY <1>2, <1>4
<1>6. /\ answer.kind = "scram" /\ answer.type = "SERVER_FINAL_RESPONSE" /\ answer.rfc = rfc
      /\ rfc.readable = TRUE /\ rfc.signature = signature
  OBVIOUS
<1> HIDE DEF answer, rfc, signature
<1>7. reply' = answer /\ pc' = "final" /\ final' = final
  BY <1>3, <1>5, <1>6, ServesOne DEF clientVars
<1>8. final.message = Signed(number - 1) /\ final.serverKey = ServerKey(AccountKeys)
  BY RightKeys DEF StageInv, AtFinal, Fit
<1>9. signature # <<>> /\ signature = Signature(final.serverKey, final.message)
  BY <1>1, <1>8 DEF signature, Signature
<1>10. Trusted(reply)'
  BY <1>6, <1>7, <1>9 DEF Trusted, SignatureVerifies, Signature
<1>11. Readable'
  BY <1>6, <1>7 DEF Readable
<1>12. QED
  BY <1>7, <1>10, <1>11 DEF Welcome

LEMMA ServerTrack ==
  ASSUME PhaseInv, WireInv, StageInv, TrackInv, NEW r \in wire, ServerActs(r)
  PROVE  TrackInv'
<1>1. Serving(r) /\ UNCHANGED <<server, link, clientVars>>
  BY ServerServes DEF Serving
<1>2. UNCHANGED <<server, link, attempt, option, keyData, pc, result, number>>
  BY <1>1 DEF clientVars
<1>3. CASE ~(pc \in Calls /\ Sure')
  <2>1. attempt # 0 /\ pc # "idle"
    BY DEF PhaseInv, TypeOK
  <2>2. Sure' => Sure
    BY <1>1, <1>2, <2>1, ServerPhase, SureBefore
  <2>3. QED
    BY <1>2, <1>3, <2>2 DEF TrackInv
<1>4. CASE pc \in Calls /\ Sure'
  <2>1. /\ attempt \in Attempts /\ blame \in [Attempts -> SUBSET Reasons] /\ pc # "idle"
        /\ result = "running" /\ blame'[attempt] = {}
    BY <1>2, <1>4, Running DEF Sure
  <2>2. Sure /\ OnTrack /\ Entitled(option)
    BY <1>1, <1>2, <1>4, <2>1, ServerPhase, SureBefore DEF TrackInv, Sure
  <2>3. Awaited(r) /\ reply = None /\ r.op = pc /\ r.n = number /\ r.attempt = attempt
    BY <2>2, NothingAstray DEF Awaited
  <2>4. reply' # None /\ pc # "logout"
    BY <1>1, <1>4, <2>2, <2>3 DEF Serving, None, OnTrack
  <2>5. Welcome'
    <3>1. CASE ServeChoices(r)
      <4>1. pc' = "choices" /\ server' = server
            /\ reply' = IF server.choices = "listed"
                          THEN [kind |-> "choices", mechanisms |-> server.mechanisms]
                          ELSE Failure(server.choices)
        BY <1>2, <1>4, <2>3, <3>1, ServesOne DEF ServeChoices, Failure
      <4>2. server.choices \in {"listed", "missing", "broken"}
        <5>1. <<server, link>> \in Sites /\ <<server, link>>[1] = server
          BY DEF PhaseInv, TypeOK
        <5>2. QED
          BY <5>1, LoginAssumption DEF LoginAssumption
      <4>3. QED
        BY <4>1, <4>2 DEF Welcome, Unknown, Failure
    <3>2. CASE ServePlain(r)
      BY <2>2, <2>3, <3>2, PlainWelcome DEF ServePlain, Serves
    <3>3. CASE ServePassword(r)
      BY <2>2, <2>3, <3>3, PasswordWelcome DEF ServePassword, Serves
    <3>4. CASE ServeOtp(r)
      BY <2>2, <2>3, <3>4, OtpWelcome DEF ServeOtp, Serves, OnTrack
    <3>5. CASE ServeLegacy(r)
      BY <2>2, <2>3, <3>5, LegacyWelcome DEF ServeLegacy, Serves
    <3>6. CASE ServeFirst(r)
      BY <2>2, <2>3, <3>6, FirstWelcome DEF ServeFirst, Serves
    <3>7. CASE ServeFinal(r)
      <4>1. pc = "final"
        BY <2>3, <3>7 DEF ServeFinal, Serves
      <4>2. QED
        BY <2>1, <2>2, <2>3, <3>7, <4>1, FinalWelcome DEF OnTrack
    <3>8. CASE ServeLogout(r)
      BY <2>3, <2>4, <3>8 DEF ServeLogout, Serves
    <3>9. CASE ServeMissing(r)
      <4>1. CASE pc = "password"
        BY <2>2, <2>3, <3>9, <4>1, PasswordWelcome
      <4>2. CASE pc = "plain"
        BY <2>2, <3>9, <4>2, EntitledByPlain DEF ServeMissing, StageInv, AtPlain
      <4>3. QED
        BY <2>3, <3>9, <4>1, <4>2 DEF ServeMissing, Serves
    <3>10. CASE ServerDeclines(r)
      <4>1. Excused(r, "declined")
        BY <2>3, <2>4, <3>10 DEF ServerDeclines
      <4>2. QED
        BY <2>1, <2>3, <4>1, ExcusesGrow
    <3>11. QED
      BY <3>1, <3>2, <3>3, <3>4, <3>5, <3>6, <3>7, <3>8, <3>9, <3>10 DEF ServerActs
  <2>6. QED
    BY <1>2, <2>1, <2>4, <2>5 DEF TrackInv, OnTrack
<1>5. QED
  BY <1>3, <1>4

\* Such a client says hello.
LEMMA HelloIsRight ==
  ASSUME Known, NEW n
  PROVE  Hello(n).ok
<1>1. option.name \in Names /\ option.name \notin Reserved /\ SASLprep[option.name] = Account.name
  BY DEF Known
<1>2. Account.name # ""
  BY LoginAssumption DEF LoginAssumption
<1>3. option.name # ""
  BY <1>1, <1>2, ScramAssumption DEF ScramAssumption
<1>4. QED
  BY <1>1, <1>2, <1>3 DEF Hello, NewClientFirst

\* It accepts the challenge, and answers it.
LEMMA ChallengeIsMet ==
  ASSUME option.method = "SCRAM", keyData = Material(option), Entitled(option), NEW n, Hello(n).ok
  PROVE  LET keys == Signing(n)
             m == NewClientFinal(Hello(n), Challenged(n), keys.client, keys.stored, Binding)
         IN /\ AcceptableServerFirst(Challenged(n))
            /\ keyData.raw => CanHash(keyData.secret, Challenged(n)["s"])
            /\ m.ok
<1>1. /\ OfTheAccount(keyData)
      /\ server.iterations \in MinIters..MaxIters /\ server.saltSize \in 1..MaxSaltSize
      /\ server.nonceSize \in {NonceSize, 2 * NonceSize}
  BY EntitledByScram
<1>2. /\ DOMAIN Challenged(n) = {"r", "s", "i"}
      /\ Challenged(n)["i"] = server.iterations /\ Challenged(n)["r"].size = server.nonceSize
      /\ Challenged(n)["s"].size = server.saltSize
  BY DEF Challenged, Challenge
<1>3. AcceptableServerFirst(Challenged(n))
  BY <1>1, <1>2 DEF AcceptableServerFirst
<1>4. keyData.raw => CanHash(keyData.secret, Challenged(n)["s"])
  <2>1. Account.secret # ""
    BY LoginAssumption DEF LoginAssumption
  <2>2. server.saltSize > 0
    BY <1>1 DEF MaxSaltSize
  <2>3. QED
    BY <1>1, <1>2, <2>1, <2>2 DEF CanHash, OfTheAccount
<1>5. Signing(n).client # ShortKey
  BY RightKeys DEF ClientKey, ShortKey
<1>6. (Hello(n).gs2 = "p") <=> (Binding # NoBinding)
  BY DEF Hello, NewClientFirst, Refused
<1>7. NewClientFinal(Hello(n), Challenged(n), Signing(n).client, Signing(n).stored, Binding).ok
  BY <1>5, <1>6 DEF NewClientFinal
<1>8. QED
  BY <1>3, <1>4, <1>7

LEMMA FirstGoesOn ==
  ASSUME StageInv, HeardInv, pc = "first", Entitled(option), Welcome, GotFirst
  PROVE  /\ pc' = "final" /\ reply' = None /\ result' = "running" /\ number' = number + 1
         /\ Begun(number)
<1> DEFINE keys == Keys(reply.rfc)
           m == NewClientFinal(first, reply.rfc, keys.client, keys.stored, Binding)
<1>1. /\ keyData = Material(option) /\ Fit /\ first = Hello(number) /\ first.ok
  BY DEF StageInv, AtFirst
<1>2. /\ reply.kind = "scram" /\ reply.type = "SERVER_FIRST_RESPONSE" /\ Begun(number)
      /\ reply.rfc = Challenged(number)
  BY DEF Welcome, HeardInv
<1>3. keys = Signing(number)
  BY <1>2 DEF Signing
<1>4. /\ AcceptableServerFirst(reply.rfc)
      /\ keyData.raw => CanHash(keyData.secret, reply.rfc["s"])
      /\ m.ok
  <2> HIDE DEF keys
  <2>1. m = NewClientFinal(Hello(number), Challenged(number), Signing(number).client,
                           Signing(number).stored, Binding)
    BY <1>1, <1>2, <1>3
  <2>2. QED
    BY <1>1, <1>2, <2>1, ChallengeIsMet DEF Fit
<1>5. Calling("final", [c |-> m.message.c, r |-> m.message.r, proof |-> m.proof])
  BY <1>2, <1>4 DEF GotFirst
<1>6. QED
  BY <1>2, <1>5 DEF Calling

LEMMA ChoicesGoOn ==
  ASSUME StageInv, HeardInv, pc = "choices", Entitled(option), Welcome, GotChoices
  PROVE  pc' \in {"plain", "first"} /\ reply' = None /\ result' = "running"
<1>1. keyData = Material(option) /\ option.method # "password"
  BY DEF StageInv
<1>2. \/ reply.kind = "choices" /\ server.choices = "listed" /\ reply.mechanisms = server.mechanisms
      \/ Unknown(reply) /\ server.choices # "listed"
  BY DEF Welcome, HeardInv
<1>3. ~(reply.kind = "error" /\ ~Unknown(reply))
  BY <1>2
<1>4. CASE option.method = "PLAIN"
  <2>1. keyData.raw /\ option.name = Account.name
    BY <1>1, <1>4, EntitledByPlain
  <2>2. option.name # ""
    BY <2>1, LoginAssumption DEF LoginAssumption
  <2>3. StartPlain
    BY <1>3, <1>4 DEF GotChoices, Chosen
  <2>4. QED
    BY <2>1, <2>2, <2>3 DEF StartPlain, Calling
<1>5. CASE option.method = "SCRAM"
  <2>1. Known /\ server.choices = "listed" /\ "SCRAM" \in server.mechanisms
    BY <1>1, <1>5, EntitledByScram
  <2>2. "SCRAM" \in Offered(reply)
    BY <1>2, <2>1 DEF Offered, Unknown
  <2>3. StartScram(Offered(reply))
    BY <1>3, <1>5 DEF GotChoices, Chosen
  <2>4. BindingResolved /\ Hello(number + 1).ok
    BY <1>1, <1>5, <2>1, RightBinding, HelloIsRight
  <2>5. Calling("first", Hello(number + 1))
    BY <2>2, <2>3, <2>4 DEF StartScram, Hello
  <2>6. QED
    BY <2>5 DEF Calling
<1>6. QED
  BY <1>1, <1>4, <1>5 DEF Entitled

LEMMA PasswordGoesOn ==
  ASSUME StageInv, pc = "password", Entitled(option), Welcome, GotPassword, asked' = asked
  PROVE  \/ pc' = "returned" /\ result' = "ok"
         \/ pc' = "legacy" /\ reply' = None /\ result' = "running"
         \/ pc' = "otp" /\ reply' = None /\ result' = "running" /\ asked'
<1>1. CASE reply = Failure("missing")
  BY <1>1 DEF GotPassword, Calling
<1>2. CASE reply = Verdict("SUCCESS")
  <2>1. reply # Failure("missing")
    BY <1>2 DEF Failure, Verdict
  <2>2. QED
    BY <1>2, <2>1 DEF GotPassword, LoginEx, Accepted, Returns
<1>3. CASE reply = Verdict("OTP_REQUIRED") /\ server.twoFactor /\ asked
  <2>1. reply # Failure("missing") /\ ~Accepted(reply)
    BY <1>3 DEF Failure, Verdict, Accepted
  <2>2. option.otp = Account.token
    BY <1>3, EntitledByPassword DEF StageInv, AtPassword
  <2>3. option.otp # ""
    BY <2>2, LoginAssumption DEF LoginAssumption
  <2>4. QED
    BY <1>3, <2>1, <2>3 DEF GotPassword, LoginEx, Calling
<1>4. QED
  BY <1>1, <1>2, <1>3 DEF Welcome

LEMMA GotTrack ==
  ASSUME PhaseInv, StageInv, HeardInv, TrackInv, Got
  PROVE  TrackInv'
<1>1. /\ pc \in Calls /\ reply # None /\ reply' = None /\ pc # "idle" /\ number \in Nat
      /\ UNCHANGED <<server, link, attempt, option, keyData, exchange, asked, blame>>
  BY AnswersDecide, Running DEF GoesOn, Fails, Succeeds, NewCall, Returns, serverVars
<1>2. SUFFICES ASSUME Sure' PROVE TrackInv'
  BY DEF TrackInv
<1>3. Sure /\ Welcome /\ pc # "logout" /\ Entitled(option)
  BY <1>1, <1>2, SureBefore DEF TrackInv, OnTrack, Sure
<1>4. SUFFICES \/ pc' = "returned" /\ result' = "ok"
               \/ pc' \in {"plain", "first", "legacy"} /\ result' = "running"
               \/ pc' = "otp" /\ result' = "running" /\ asked'
               \/ pc' = "final" /\ result' = "running" /\ Begun(number - 1)'
  BY <1>1 DEF TrackInv, OnTrack, Calls
<1>5. CASE GotChoices
  BY <1>3, <1>5, ChoicesGoOn DEF GotChoices, Answered
<1>6. CASE GotPlain
  BY <1>3, <1>6 DEF GotPlain, Answered, Welcome, Accepted, Returns
<1>7. CASE GotFirst
  <2>1. pc' = "final" /\ result' = "running" /\ number' = number + 1 /\ Begun(number)
    BY <1>3, <1>7, FirstGoesOn DEF GotFirst, Answered
  <2>2. number' - 1 = number
    BY <1>1, <2>1
  <2>3. Begun(number - 1)'
    BY <1>1, <2>1, <2>2, SameTerms DEF Begun
  <2>4. QED
    BY <2>1, <2>3
<1>8. CASE GotFinal
  BY <1>3, <1>8 DEF GotFinal, Answered, Welcome, Readable, Returns
<1>9. CASE GotLogout
  BY <1>3, <1>9 DEF GotLogout, Answered
<1>10. CASE GotPassword
  BY <1>1, <1>3, <1>10, PasswordGoesOn DEF GotPassword, Answered
<1>11. CASE GotOtp
  BY <1>3, <1>11 DEF GotOtp, Answered, Welcome, LoginEx, Accepted, Returns
<1>12. CASE GotLegacy
  BY <1>3, <1>12 DEF GotLegacy, Answered, Welcome, Returns
<1>13. QED
  BY <1>5, <1>6, <1>7, <1>8, <1>9, <1>10, <1>11, <1>12 DEF Got

LEMMA BeginTrack ==
  ASSUME PhaseInv, NEW o \in Options, Begin(o)
  PROVE  TrackInv'
<1>1. option' = o /\ keyData' = Material(o) /\ reply' = None
  BY BeginPhase DEF Begin, NewCall, Returns
<1>2. CASE o.method = "password" \/ keyData'.ok
  <2>1. pc' \in {"password", "choices"} /\ result' = "running"
    BY <1>2 DEF Begin, Calling
  <2>2. QED
    BY <1>1, <2>1 DEF TrackInv, OnTrack
<1>3. CASE o.method # "password" /\ ~keyData'.ok
  <2>1. pc' = "returned"
    BY <1>3 DEF Begin, Failing, Returns
  <2>2. ~KeyMaterial(o.key).ok
    BY <1>1, <1>3 DEF Material
  <2>3. ~Entitled(option)'
    BY <1>1, <1>3, <2>2 DEF Entitled, OfTheAccount
  <2>4. QED
    BY <2>1, <2>3 DEF TrackInv, Sure, Calls
<1>4. QED
  BY <1>2, <1>3

LEMMA StepTrack == PhaseInv /\ WireInv /\ CredInv /\ TrackInv /\ [Next]_vars => TrackInv'
<1> SUFFICES ASSUME PhaseInv, WireInv, CredInv, TrackInv, [Next]_vars PROVE TrackInv'
  OBVIOUS
<1>1. StageInv /\ HeardInv
  BY DEF CredInv
<1>2. ASSUME NEW o \in Options, Begin(o) PROVE TrackInv'
  BY <1>2, BeginTrack
<1>3. CASE Got
  BY <1>1, <1>3, GotTrack
<1>4. CASE CallFails
  <2>1. pc' = "returned" /\ blame'[attempt'] # {}
    BY <1>4, CallFailsPhase DEF Returns
  <2>2. QED
    BY <2>1 DEF TrackInv, Sure, Calls
<1>5. ASSUME NEW r \in wire, ServerActs(r) PROVE TrackInv'
  BY <1>1, <1>5, ServerTrack
<1>6. CASE UNCHANGED vars
  <2>1. UNCHANGED <<server, link, attempt, option, keyData, pc, result, number, final, reply, exchange, asked, blame>>
    BY <1>6 DEF vars, clientVars, serverVars
  <2>2. (Sure' <=> Sure) /\ \A n : Begun(n)' <=> Begun(n)
    BY <2>1, SameTerms DEF Sure, Begun, Disturbed
  <2>3. OnTrack => OnTrack'
    BY <2>1, <2>2 DEF OnTrack, Welcome, Readable, Trusted, Unknown
  <2>4. QED
    BY <2>1, <2>2, <2>3 DEF TrackInv
<1>7. QED
  BY <1>2, <1>3, <1>4, <1>5, <1>6 DEF Next, Server, ServerActs

LEMMA InitTrack == Init => TrackInv
BY DEF Init, TrackInv, Calls

\* A login with the right credentials succeeds unless the server has refused it
\* for reasons of its own, a message cannot be read or a call got no answer; a
\* login with other credentials does not.
THEOREM CredentialsDecide == Spec => []DecidedByCredentials
<1>1. CredInv /\ TrackInv => DecidedByCredentials
  BY DEF CredInv, TrackInv, Sure, DecidedByCredentials
<1>2. Init => PhaseInv /\ WireInv /\ CredInv /\ TrackInv
  BY InitPhase, InitWire, InitCred, InitTrack
<1>3. PhaseInv /\ WireInv /\ CredInv /\ TrackInv /\ [Next]_vars => (PhaseInv /\ WireInv /\ CredInv /\ TrackInv)'
  BY StepPhase, StepWire, StepCred, StepTrack
<1>4. QED
  BY <1>1, <1>2, <1>3, PTL DEF Spec

-----------------------------------------------------------------------------
(* What follows from the contract *)

Kept == INSTANCE LoginContractProofs WITH loose <- Loose

\* As long as no earlier call is unaccounted for, the connection has the session
\* of the login that returned nil, and none of one that returned an error.
THEOREM TheSessionIsKnown == Spec => []Contract!SessionIsKnown
<1>1. Contract!Init => Kept!Init
  BY DEF Contract!Init, Kept!Init
<1>2. [Contract!Next]_(Contract!vars) => [Kept!Next]_(Kept!vars)
  BY DEF Contract!Next, Contract!vars, Contract!Begin, Contract!Succeed, Contract!Fail,
         Contract!Grant, Contract!Revoke, Contract!Acting, Contract!Attempts,
         Kept!Next, Kept!vars, Kept!Begin, Kept!Succeed, Kept!Fail,
         Kept!Grant, Kept!Revoke, Kept!Acting, Kept!Attempts
<1>3. Kept!SessionIsKnown => Contract!SessionIsKnown
  BY DEF Kept!SessionIsKnown, Contract!SessionIsKnown
<1>4. QED
  BY <1>1, <1>2, <1>3, LoginKeepsContract, Kept!SessionOfTheLogin, PTL
     DEF Implements, Contract!Spec, Kept!Spec

=============================================================================
