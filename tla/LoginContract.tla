---------------------------- MODULE LoginContract ----------------------------
(***************************************************************************)
(* What LoginWithPassword and LoginWithAPIKey (auth.go) promise about the  *)
(* session of the connection, whatever mechanism they use: success means   *)
(* that the server has granted this login a session, an error that it has  *)
(* none, unless the client cannot know.                                    *)
(***************************************************************************)
EXTENDS Naturals

CONSTANT MaxAttempts  \* bound on the logins tried over one connection

VARIABLES
  attempt,  \* the number of the login tried last
  result,   \* what it has returned
  session,  \* the login the server's session comes from, 0 for none
  loose     \* logins that ended without knowing what the server did or does

vars == <<attempt, result, session, loose>>

Attempts == 1..MaxAttempts

TypeOK ==
  /\ attempt \in 0..MaxAttempts
  /\ result \in {"idle", "running", "ok", "error"}
  /\ session \in 0..MaxAttempts
  /\ loose \subseteq Attempts

Init == attempt = 0 /\ result = "idle" /\ session = 0 /\ loose = {}

\* Arguments no server can accept are refused at once.
Begin ==
  /\ result # "running" /\ attempt < MaxAttempts
  /\ attempt' = attempt + 1
  /\ result' \in {"running", "error"}
  /\ UNCHANGED <<session, loose>>

\* Logins whose requests the server may be serving.
Acting(a) == (a = attempt /\ result = "running") \/ a \in loose

Grant(a) ==
  /\ Acting(a)
  /\ session' = a
  /\ UNCHANGED <<attempt, result, loose>>

Revoke(a) ==
  /\ Acting(a)
  /\ session' = 0
  /\ UNCHANGED <<attempt, result, loose>>

Succeed ==
  /\ result = "running"
  /\ session = attempt \/ loose # {}
  /\ result' = "ok"
  /\ UNCHANGED <<attempt, session, loose>>

\* A login that fails in the open leaves no session of its own.
Fail ==
  /\ result = "running"
  /\ result' = "error"
  /\ \/ session # attempt /\ UNCHANGED loose
     \/ loose' = loose \cup {attempt}
  /\ UNCHANGED <<attempt, session>>

Next == Begin \/ Succeed \/ Fail \/ \E a \in Attempts : Grant(a) \/ Revoke(a)

Spec == Init /\ [][Next]_vars

-----------------------------------------------------------------------------

\* As long as no earlier call is unaccounted for, a login that succeeded has
\* the session, and one that failed has left none.
SessionIsKnown ==
  loose = {} =>
    /\ result = "ok" => session = attempt
    /\ result = "error" => session # attempt
=============================================================================
