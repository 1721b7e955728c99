-------------------------------- MODULE Midclt --------------------------------
(***************************************************************************)
(* One run of midclt (cmd/midclt): the main goroutine, the reader of its   *)
(* one client, on which the callback of subscribe runs, and the goroutines *)
(* of the callback that shows a job's progress.  API calls are reduced to  *)
(* what the library promises about them; logging in is LoginContract.      *)
(***************************************************************************)
EXTENDS Integers, Sequences, FiniteSets

CONSTANTS Commands,  \* command lines: [what, valid, credentials, number, timed, bar]
          MaxEvents, \* bound on the events and on the job updates of the server
          Blank      \* the updates with neither a percentage nor a description

ASSUME MidcltAssumption ==
  /\ MaxEvents \in Nat /\ Blank \subseteq 1..MaxEvents
  /\ \A c \in Commands :
       c.what \in {"usage", "ping", "call", "job", "subscribe"} /\ c.number \in Int

VARIABLES
  command,    \* the command line
  local,      \* the server is reached by its local socket, which needs no login
  up,         \* the connection is up
  pc,         \* program counter of the main goroutine
  code,       \* the exit code
  attempt,    \* the login: number, result, the server's session, and whether
  result,     \* what became of the session is unknown
  session,
  loose,
  request,    \* the call on its way to the server, or its answer to be sent
  inbox,      \* frames on their way to the reader
  sent,       \* events or job updates the server has sent
  ending,     \* how the call, the job or the subscription has ended on the server
  running,    \* running callbacks: [n, at]
  printed,    \* the lines printed for events or statuses
  received,   \* runSubscribe's count of events
  closings,   \* how often done has been closed
  terminated, \* the subscription's Done is closed: "clean" or "error"
  registered, \* OnUpdate has been called
  latest,     \* the job update applied last, 0 for none
  finished,   \* how the job has ended, once the reader knows
  lastDesc,   \* the status printed last in description mode
  bar,        \* the progress bar: [percentage, used]
  late        \* history: the bar was finished while a callback was running

loginVars == <<attempt, result, session, loose>>
serverVars == <<request, sent, ending>>
callbackVars == <<running, printed, received, closings, lastDesc, bar>>
readerVars == <<terminated, latest, finished>>
vars == <<command, local, up, pc, code, loginVars, serverVars, inbox, callbackVars, readerVars,
          registered, late>>

L == INSTANCE LoginContract WITH MaxAttempts <- 1

None == "none"
Full == MaxEvents + 1

TypeOK ==
  /\ command \in Commands /\ local \in BOOLEAN /\ up \in BOOLEAN
  /\ pc \in {"start", "connect", "login", "request", "waiting", "onUpdate", "result", "finish",
             "select", "exited"}
  /\ code \in {0, 1, 2} /\ (code # 2 <=> pc = "exited")
  /\ L!TypeOK
  /\ request \in {None, "ping", "call", "job", "subscribe", "yes", "no"}
  /\ sent \in 0..MaxEvents /\ ending \in {None, "open", "clean", "error"}
  /\ \A r \in running : r.n \in 1..sent /\ r.at \in {"begin", "check", "close", "store"}
  /\ Len(printed) <= sent /\ received <= sent
  /\ terminated \in {None, "clean", "error"} /\ finished \in {None, "clean", "error"}
  /\ latest \in 0..sent /\ lastDesc \in 0..sent
  /\ bar.percentage \in 0..Full /\ bar.used \in BOOLEAN
  /\ registered \in BOOLEAN /\ late \in BOOLEAN

Init ==
  /\ command \in Commands /\ local \in BOOLEAN /\ up = FALSE
  /\ pc = "start" /\ code = 2
  /\ L!Init
  /\ request = None /\ inbox = <<>> /\ sent = 0 /\ ending = None
  /\ running = {} /\ printed = <<>> /\ received = 0 /\ closings = 0
  /\ terminated = None /\ registered = FALSE /\ latest = 0 /\ finished = None
  /\ lastDesc = 0 /\ bar = [percentage |-> 0, used |-> FALSE] /\ late = FALSE

-----------------------------------------------------------------------------
(* Wrong forms of definitions below, which no specification uses. *)

\* The subscription asks for a goroutine per event.
SyncUnset == FALSE

\* The run ends with the event after the last one.
EnoughPast(count) == command.number > 0 /\ count > command.number

\* The call is made whether the login has worked or not.
LoggedInAnyway == TRUE

\* The bar is finished as it is.
FilledNot == bar.percentage

\* The update replayed is one that has not arrived yet.
ReplayNext == {[n |-> latest + 1, at |-> "begin"]}

-----------------------------------------------------------------------------
(* The main goroutine *)

Goes(where) == pc' = where /\ UNCHANGED code

Exits(status) == pc' = "exited" /\ code' = status

\* What steps of the main goroutine leave alone.
MainOnly == UNCHANGED <<command, local, sent, ending, printed, received, closings, lastDesc, readerVars>>

\* run: no subcommand prints the usage, arguments that cannot be used end it.
Start ==
  /\ pc = "start"
  /\ IF command.what = "usage" THEN Exits(0)
     ELSE IF ~command.valid THEN Exits(1)
     ELSE Goes("connect")
  /\ MainOnly /\ UNCHANGED <<up, loginVars, request, inbox, running, registered, bar, late>>

\* Only call logs in.
LogsIn == command.what \in {"call", "job"} /\ command.credentials

Connect ==
  /\ pc = "connect"
  /\ \/ up' = TRUE /\ Goes(IF LogsIn THEN "login" ELSE "request")
     \/ up' = FALSE /\ Exits(1)
  /\ MainOnly /\ UNCHANGED <<loginVars, request, inbox, running, registered, bar, late>>

Login ==
  /\ pc = "login" /\ result = "idle"
  /\ L!Begin
  /\ MainOnly /\ UNCHANGED <<up, pc, code, request, inbox, running, registered, bar, late>>

LoggedIn == result = "ok"

LoginReturns ==
  /\ pc = "login" /\ result \in {"ok", "error"}
  /\ IF LoggedIn THEN Goes("request") ELSE Exits(1)
  /\ MainOnly /\ UNCHANGED <<up, loginVars, request, inbox, running, registered, bar, late>>

\* Ping, Call, CallContext, StartJob or Subscribe.
Request ==
  /\ pc = "request"
  /\ Goes("waiting")
  /\ request' = IF up THEN command.what ELSE None
  /\ MainOnly /\ UNCHANGED <<up, loginVars, inbox, running, registered, bar, late>>

\* StartJob of a run without -t waits for the job id without bound.
HasDeadline == command.what # "job" \/ command.timed

\* The call gets no answer in time, or the connection is gone.
CallFails ==
  /\ pc = "waiting" /\ (HasDeadline \/ ~up)
  /\ Exits(1)
  /\ MainOnly /\ UNCHANGED <<up, loginVars, request, inbox, running, registered, bar, late>>

\* OnUpdate replays an update that has arrived before.
Replay == IF latest > 0 THEN {[n |-> latest, at |-> "begin"]} ELSE {}

OnUpdate ==
  /\ pc = "onUpdate"
  /\ registered' = TRUE
  /\ running' = running \cup Replay
  /\ Goes("result")
  /\ MainOnly /\ UNCHANGED <<up, loginVars, request, inbox, bar, late>>

\* Result without a deadline, whatever -t says.  The loss of the connection
\* fails the job.
ResultReturns ==
  /\ pc = "result" /\ finished # None
  /\ IF command.bar THEN Goes("finish")
     ELSE Exits(IF finished = "clean" THEN 0 ELSE 1)
  /\ MainOnly /\ UNCHANGED <<up, loginVars, request, inbox, running, registered, bar, late>>

\* progressBar.finish fills the bar.
Filled == Full

FinishBar ==
  /\ pc = "finish"
  /\ bar' = [bar EXCEPT !.percentage = Filled]
  /\ late' = (running # {})
  /\ Exits(IF finished = "clean" THEN 0 ELSE 1)
  /\ MainOnly /\ UNCHANGED <<up, loginVars, request, inbox, running, registered>>

\* The three cases of runSubscribe's select.
Select ==
  /\ pc = "select"
  /\ \/ closings > 0 /\ Exits(0)
     \/ terminated # None /\ Exits(IF terminated = "error" THEN 1 ELSE 0)
     \/ command.timed /\ Exits(1)
  /\ MainOnly /\ UNCHANGED <<up, loginVars, request, inbox, running, registered, bar, late>>

-----------------------------------------------------------------------------
(* Callbacks: of subscribe, and of a job in either mode *)

\* SubscribeOptions of runSubscribe.
Sync == TRUE

\* The callback of subscribe keeps the reader.
ReaderFree == ~(command.what = "subscribe" /\ Sync /\ running # {})

Enough(count) == command.number > 0 /\ count >= command.number

\* A callback at r goes on, or ends.
CallbackGoes(r, where) == running' = (running \ {r}) \cup {[r EXCEPT !.at = where]}
CallbackEnds(r) == running' = running \ {r}

CallbackOnly ==
  UNCHANGED <<command, local, up, pc, code, loginVars, serverVars, inbox, readerVars, registered, late>>

PrintEvent(r) ==
  /\ command.what = "subscribe" /\ r.at = "begin"
  /\ printed' = Append(printed, r.n)
  /\ received' = received + 1
  /\ IF Enough(received + 1) THEN CallbackGoes(r, "check") ELSE CallbackEnds(r)
  /\ CallbackOnly /\ UNCHANGED <<closings, lastDesc, bar>>

CheckDone(r) ==
  /\ r.at = "check"
  /\ IF closings = 0 THEN CallbackGoes(r, "close") ELSE CallbackEnds(r)
  /\ CallbackOnly /\ UNCHANGED <<printed, received, closings, lastDesc, bar>>

CloseDone(r) ==
  /\ r.at = "close"
  /\ closings' = closings + 1
  /\ CallbackEnds(r)
  /\ CallbackOnly /\ UNCHANGED <<printed, received, lastDesc, bar>>

\* What update n gives, or what there is without it.
Given(n, otherwise) == IF n \in Blank THEN otherwise ELSE n

\* progressBar.update, under its lock: no percentage keeps the one before.
UpdateBar(r) ==
  /\ command.what = "job" /\ command.bar
  /\ bar' = [percentage |-> Given(r.n, bar.percentage), used |-> TRUE]
  /\ CallbackEnds(r)
  /\ CallbackOnly /\ UNCHANGED <<printed, received, closings, lastDesc>>

\* Description mode, without a lock: another callback may come in between.  An
\* empty description, 0, is stored but not printed.
PrintStatus(r) ==
  /\ command.what = "job" /\ ~command.bar /\ r.at = "begin"
  /\ printed' = IF Given(r.n, 0) \notin {0, lastDesc} THEN Append(printed, r.n) ELSE printed
  /\ CallbackGoes(r, "store")
  /\ CallbackOnly /\ UNCHANGED <<received, closings, lastDesc, bar>>

StoreStatus(r) ==
  /\ r.at = "store"
  /\ lastDesc' = Given(r.n, 0)
  /\ CallbackEnds(r)
  /\ CallbackOnly /\ UNCHANGED <<printed, received, closings, bar>>

-----------------------------------------------------------------------------
(* The reader, and what the library does with a frame *)

Reads(kind) ==
  /\ up /\ inbox # <<>> /\ Head(inbox).kind = kind /\ ReaderFree
  /\ inbox' = Tail(inbox)
  /\ UNCHANGED <<command, local, up, loginVars, serverVars, printed, received, closings, lastDesc,
                 bar, registered, late>>

ReadAnswer ==
  /\ Reads("answer")
  /\ IF pc # "waiting" THEN UNCHANGED <<pc, code>>
     ELSE IF ~Head(inbox).ok THEN Exits(1)
     ELSE CASE command.what = "job" -> Goes("onUpdate")
            [] command.what = "subscribe" -> Goes("select")
            [] OTHER -> Exits(0)
  /\ UNCHANGED <<running, readerVars>>

ReadEvent ==
  /\ Reads("event")
  /\ running' = running \cup {[n |-> Head(inbox).n, at |-> "begin"]}
  /\ UNCHANGED <<pc, code, readerVars>>

\* An update of the job; the last one says how it has ended.
ReadUpdate ==
  /\ Reads("update")
  /\ latest' = Head(inbox).n
  /\ running' = running \cup {[n |-> Head(inbox).n, at |-> "begin"] : x \in {y \in {1} : registered}}
  /\ finished' = Head(inbox).ending
  /\ UNCHANGED <<pc, code, terminated>>

ReadEnd ==
  /\ Reads("end")
  /\ terminated' = Head(inbox).ending
  /\ UNCHANGED <<pc, code, running, latest, finished>>

\* A loss of the connection ends the job, and no subscription.
ConnectionLost ==
  /\ up /\ up' = FALSE
  /\ inbox' = <<>> /\ request' = None
  /\ finished' = IF command.what = "job" /\ finished = None THEN "error" ELSE finished
  /\ UNCHANGED <<command, local, pc, code, loginVars, sent, ending, callbackVars, terminated, latest,
                 registered, late>>

-----------------------------------------------------------------------------
(* The server *)

ServerOnly ==
  UNCHANGED <<command, local, up, pc, code, callbackVars, readerVars, registered, late>>

\* While midclt logs in, and until it has an answer.
LoginActs ==
  /\ pc = "login"
  /\ \E a \in L!Attempts : L!Grant(a) \/ L!Revoke(a)
  /\ ServerOnly /\ UNCHANGED <<serverVars, inbox>>

LoginEnds ==
  /\ pc = "login"
  /\ L!Succeed \/ L!Fail
  /\ ServerOnly /\ UNCHANGED <<serverVars, inbox>>

Allowed == local \/ request = "ping" \/ session # 0

\* What a job or a subscription sends may come before the answer to its call.
Serves ==
  /\ up /\ request \in {"ping", "call", "job", "subscribe"}
  /\ \/ /\ Allowed
        /\ request' = "yes"
        /\ ending' = IF request \in {"ping", "call"} THEN "clean" ELSE "open"
     \/ request' = "no" /\ ending' = "error"
  /\ ServerOnly /\ UNCHANGED <<loginVars, sent, inbox>>

Answers ==
  /\ up /\ request \in {"yes", "no"}
  /\ inbox' = Append(inbox, [kind |-> "answer", ok |-> request = "yes"])
  /\ request' = None
  /\ ServerOnly /\ UNCHANGED <<loginVars, sent, ending>>

SendsEvent ==
  /\ up /\ ending = "open" /\ command.what = "subscribe" /\ sent < MaxEvents
  /\ sent' = sent + 1
  /\ inbox' = Append(inbox, [kind |-> "event", n |-> sent'])
  /\ ServerOnly /\ UNCHANGED <<loginVars, request, ending>>

EndsSubscription ==
  /\ up /\ ending = "open" /\ command.what = "subscribe"
  /\ ending' \in {"clean", "error"}
  /\ inbox' = Append(inbox, [kind |-> "end", ending |-> ending'])
  /\ ServerOnly /\ UNCHANGED <<loginVars, request, sent>>

SendsUpdate ==
  /\ up /\ ending = "open" /\ command.what = "job" /\ sent < MaxEvents
  /\ sent' = sent + 1
  /\ ending' \in {"open", "clean", "error"}
  /\ inbox' = Append(inbox, [kind |-> "update", n |-> sent',
                             ending |-> IF ending' = "open" THEN None ELSE ending'])
  /\ ServerOnly /\ UNCHANGED <<loginVars, request>>

-----------------------------------------------------------------------------

Main ==
  \/ Start \/ Connect \/ Login \/ LoginReturns \/ Request \/ CallFails
  \/ OnUpdate \/ ResultReturns \/ FinishBar \/ Select

Callback(r) ==
  PrintEvent(r) \/ CheckDone(r) \/ CloseDone(r) \/ UpdateBar(r) \/ PrintStatus(r) \/ StoreStatus(r)

Reader == ReadAnswer \/ ReadEvent \/ ReadUpdate \/ ReadEnd

Server == Serves \/ Answers \/ SendsEvent \/ EndsSubscription \/ SendsUpdate

\* Callbacks go on while Close waits for the reader.
Next ==
  \/ Main \/ Reader \/ \E r \in running : Callback(r)
  \/ ConnectionLost \/ LoginActs \/ LoginEnds \/ Server

Spec == Init /\ [][Next]_vars

\* Every goroutine runs, timers fire, and a login returns (see Login).
FairSpec ==
  /\ Spec
  /\ WF_vars(Main) /\ WF_vars(Reader) /\ WF_vars(LoginEnds)
  /\ WF_vars(\E r \in running : Callback(r))

-----------------------------------------------------------------------------
(* What users of midclt, scripts above all, rely on *)

\* An exit code of 0 is earned: the server has done what was asked to the end,
\* or subscribe has had its number of events; and if there were credentials for
\* a call they were accepted, even where the server does not need any.
ExitIsEarned ==
  pc = "exited" /\ code = 0 /\ command.what # "usage" =>
    /\ ending = "clean" \/ (command.what = "subscribe" /\ command.number \in 1..received)
    /\ command.what \in {"call", "job"} /\ command.credentials => result = "ok"

\* However events come, done is closed once: closing it again would panic.
NoDoubleClose == closings <= 1

\* Events are printed in the order the server sent them, none twice.
EventsInOrder ==
  command.what = "subscribe" => \A i \in DOMAIN printed : printed[i] = i

\* The bar of a finished job ends full, unless a callback was still on its way
\* when it was filled.
BarEndsFull == pc = "exited" /\ bar.used /\ ~late => bar.percentage = Full

\* What must make the run end: a call or a timer, the last event that was asked
\* for, the end of the subscription or of the job.
Due ==
  \/ command.what \in {"ping", "call"} \/ (command.what = "subscribe" /\ command.timed)
  \/ command.what = "subscribe" /\ (command.number \in 1..received \/ terminated # None)
  \/ pc \in {"onUpdate", "result", "finish"} /\ finished # None

\* A run that is due exits.
DueRunExits == Due ~> pc = "exited"
=============================================================================
