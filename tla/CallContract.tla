---------------------------- MODULE CallContract ----------------------------
(***************************************************************************)
(* What callRaw promises its callers, with no goroutine, table or channel  *)
(* in sight: every call gets one verdict; a server answer among the        *)
(* verdicts is one the server gave to that very call; calls are aborted    *)
(* only once the client is dead, and a call begun after that is doomed: it *)
(* never reports a server answer.                                          *)
(***************************************************************************)
CONSTANT Calls

VARIABLES
  phase,   \* "idle", "open", "answered", "doomed" or "settled"
  verdict, \* the answer picked for a call, then what its caller was told
  dead,    \* the client has recorded a connection error
  answers  \* the answers the server has given so far

vars == <<phase, verdict, dead, answers>>

Answer == {"result", "error", "jobid"}
GaveUp == {"timeout", "canceled", "sendFailed"}

Init ==
  /\ phase = [c \in Calls |-> "idle"]
  /\ verdict = [c \in Calls |-> "none"]
  /\ dead = FALSE
  /\ answers = [c \in Calls |-> {}]

Begin(c) ==
  /\ phase[c] = "idle"
  /\ phase' = [phase EXCEPT ![c] = IF dead THEN "doomed" ELSE "open"]
  /\ UNCHANGED <<verdict, dead, answers>>

\* The server answers some of the calls that have begun, possibly again.
ServerSays ==
  /\ UNCHANGED <<phase, verdict, dead>>
  /\ answers' \in [Calls -> SUBSET Answer]
  /\ \A c \in Calls :
       /\ answers[c] \subseteq answers'[c]
       /\ phase[c] = "idle" => answers'[c] = answers[c]

\* One of the server's answers becomes the call's, for good.
Win(c) ==
  /\ phase[c] = "open"
  /\ phase' = [phase EXCEPT ![c] = "answered"]
  /\ \E a \in answers[c] : verdict' = [verdict EXCEPT ![c] = a]
  /\ UNCHANGED <<dead, answers>>

Die == ~dead /\ dead' = TRUE /\ UNCHANGED <<phase, verdict, answers>>

Doom(c) ==
  /\ dead /\ phase[c] = "open"
  /\ phase' = [phase EXCEPT ![c] = "doomed"]
  /\ UNCHANGED <<verdict, dead, answers>>

\* The caller is told: the answer that won, the connection error, or that the
\* call gave up by itself.
Tellable(c) ==
  GaveUp \cup (IF phase[c] = "answered" THEN {verdict[c]}
               ELSE IF phase[c] = "doomed" THEN {"aborted"} ELSE {})

Settle(c) ==
  /\ phase[c] \in {"open", "answered", "doomed"}
  /\ phase' = [phase EXCEPT ![c] = "settled"]
  /\ \E v \in Tellable(c) : verdict' = [verdict EXCEPT ![c] = v]
  /\ UNCHANGED <<dead, answers>>

Next ==
  \/ \E c \in Calls : Begin(c) \/ Win(c) \/ Doom(c) \/ Settle(c)
  \/ ServerSays
  \/ Die

Spec == Init /\ [][Next]_vars
=============================================================================
