-------------------------- MODULE LoginContractProofs --------------------------
(***************************************************************************)
(* What the contract of a login says about the session, for any number of  *)
(* logins over one connection.  Login implements the contract (run login), *)
(* so it holds of LoginWithPassword and LoginWithAPIKey (auth.go).         *)
(***************************************************************************)
EXTENDS LoginContract, TLAPS

\* The session comes from a login that has begun, and so do the loose ones.
SessionInv ==
  /\ attempt \in Nat /\ (result = "running" => attempt # 0)
  /\ result \in {"idle", "running", "ok", "error"}
  /\ session \in Nat /\ session <= attempt
  /\ loose \subseteq 1..attempt
  /\ SessionIsKnown

\* No login has been tried, and there is no session.
LEMMA SessionInit == Init => SessionInv
  BY DEF Init, SessionInv, SessionIsKnown

\* The session changes hands only for a login that runs or is loose, and a
\* login returns with what the contract lets it say.
LEMMA SessionStep == SessionInv /\ [Next]_vars => SessionInv'
<1> SUFFICES ASSUME SessionInv, [Next]_vars PROVE SessionInv'
  OBVIOUS
<1> USE DEF SessionInv, SessionIsKnown
<1>1. CASE Begin
  <2>1. session # attempt'
    BY <1>1 DEF Begin
  <2> QED
    BY <1>1, <2>1 DEF Begin
<1>2. CASE Succeed
  BY <1>2 DEF Succeed
<1>3. CASE Fail
  <2>1. attempt \in 1..attempt
    BY <1>3 DEF Fail
  <2> QED
    BY <1>3, <2>1 DEF Fail
<1>4. ASSUME NEW a \in Attempts, Grant(a) PROVE SessionInv'
  <2>1. a \in Nat /\ a <= attempt
    BY <1>4 DEF Grant, Acting, Attempts
  <2>2. loose = {} => result = "running"
    BY <1>4 DEF Grant, Acting
  <2> QED
    BY <1>4, <2>1, <2>2 DEF Grant
<1>5. ASSUME NEW a \in Attempts, Revoke(a) PROVE SessionInv'
  <2>1. loose = {} => result = "running"
    BY <1>5 DEF Revoke, Acting
  <2> QED
    BY <1>5, <2>1 DEF Revoke
<1>6. CASE UNCHANGED vars
  BY <1>6 DEF vars
<1> QED
  BY <1>1, <1>2, <1>3, <1>4, <1>5, <1>6 DEF Next

\* A login that returned success has the session, one that returned an error has
\* left none, as long as no earlier call is unaccounted for: whatever the number
\* of logins, and whatever the loose ones do meanwhile.
THEOREM SessionOfTheLogin == Spec => []SessionIsKnown
<1>1. SessionInv => SessionIsKnown
  BY DEF SessionInv
<1> QED
  BY <1>1, SessionInit, SessionStep, PTL DEF Spec
=============================================================================
