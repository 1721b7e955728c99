----------------------------- MODULE MidcltProofs -----------------------------
(***************************************************************************)
(* Proofs about Midclt, for any command lines and any number of events.    *)
(***************************************************************************)
EXTENDS Midclt, FifoLemmas, FiniteSetTheorems

-----------------------------------------------------------------------------
(* The inductive invariant *)

Frame == [kind : {"answer"}, ok : BOOLEAN]
           \cup [kind : {"event"}, n : 1..MaxEvents]
           \cup [kind : {"update"}, n : 1..MaxEvents, ending : {None, "clean", "error"}]
           \cup [kind : {"end"}, ending : {"clean", "error"}]

CallbackAt == [n : 1..MaxEvents, at : {"begin", "check", "close", "store"}]

\* The types of the variables, as far as they do not depend on what was sent.
ShapeInv ==
  /\ command \in Commands /\ local \in BOOLEAN /\ up \in BOOLEAN
  /\ pc \in {"start", "connect", "login", "request", "waiting", "onUpdate", "result", "finish",
             "select", "exited"}
  /\ code \in {0, 1, 2} /\ (code # 2 <=> pc = "exited")
  /\ L!TypeOK /\ (result = "running" => attempt = 1)
  /\ request \in {None, "ping", "call", "job", "subscribe", "yes", "no"}
  /\ sent \in 0..MaxEvents /\ ending \in {None, "open", "clean", "error"}
  /\ inbox \in Seq(Frame) /\ running \subseteq CallbackAt
  /\ printed \in Seq(1..MaxEvents) /\ received \in Nat /\ closings \in Nat
  /\ terminated \in {None, "clean", "error"} /\ finished \in {None, "clean", "error"}
  /\ latest \in 0..MaxEvents /\ lastDesc \in 0..MaxEvents
  /\ bar \in [percentage : 0..Full, used : BOOLEAN]
  /\ registered \in BOOLEAN /\ late \in BOOLEAN

\* What belongs to which command, and what has not begun yet.
Serving == {"ping", "call", "job", "subscribe"}

CommandInv ==
  /\ pc \in {"start", "connect", "login", "request"} =>
       request = None /\ ending = None
  /\ pc \in {"start", "connect"} => ~up /\ finished = None
  /\ pc \in {"connect", "login", "request"} => command.what # "usage"
  /\ request \in Serving => request = command.what /\ ending = None
  /\ request \in {"yes", "no"} => ending # None
  /\ pc \in {"onUpdate", "result", "finish"} => command.what = "job"
  /\ pc = "select" => command.what = "subscribe"
  /\ ending = None => sent = 0 /\ inbox = <<>>
  /\ \A i \in DOMAIN inbox :
       /\ inbox[i].kind \in {"event", "end"} => command.what = "subscribe"
       /\ inbox[i].kind = "update" => command.what = "job"
  /\ registered => command.what = "job" /\ pc \in {"result", "finish", "exited"}
  /\ \A r \in running :
       /\ r.at = "begin" => command.what \in {"job", "subscribe"}
       /\ r.at \in {"check", "close"} => command.what = "subscribe"
       /\ r.at = "store" => command.what = "job"
  /\ running # {} /\ command.what = "job" => registered
  /\ command.what # "subscribe" => received = 0 /\ closings = 0
  /\ command.what \notin {"subscribe", "job"} => printed = <<>>
  /\ command.what # "job" => latest = 0 /\ lastDesc = 0

\* Every event is printed, with the reader, or on its way, in this order; the
\* reader is held up by one callback at a time.
Known(m) ==
  \/ m <= received
  \/ \E r \in running : r.at = "begin" /\ r.n = m
  \/ \E i \in DOMAIN inbox : inbox[i].kind = "event" /\ inbox[i].n = m

EventInv == command.what = "subscribe" =>
  /\ received = Len(printed) /\ received <= sent
  /\ \A i \in DOMAIN printed : printed[i] = i
  /\ \A q, r \in running : q = r
  /\ \A r \in running : r.n = (IF r.at = "begin" THEN received + 1 ELSE received) /\ r.n <= sent
  /\ \A i \in DOMAIN inbox : inbox[i].kind = "event" =>
       /\ received < inbox[i].n /\ inbox[i].n <= sent
       /\ \A r \in running : r.n < inbox[i].n
       /\ \A k \in DOMAIN inbox : i < k /\ inbox[k].kind = "event" => inbox[i].n < inbox[k].n
  /\ up => \A m \in 1..sent : Known(m)

\* done is closed by the callback of an event that was enough.
CloseInv == command.what = "subscribe" =>
  /\ closings \in {0, 1}
  /\ closings > 0 => Enough(received)
  /\ \A r \in running : /\ r.at \in {"check", "close"} => Enough(received)
                        /\ r.at = "close" => closings = 0

\* Updates of a job come in order, and each has one callback at most.
UpdateInv == command.what = "job" =>
  /\ latest <= sent /\ lastDesc <= latest
  /\ \A r \in running : r.n <= latest
  /\ \A i \in DOMAIN inbox : inbox[i].kind = "update" =>
       /\ latest < inbox[i].n /\ inbox[i].n <= sent
       /\ \A k \in DOMAIN inbox : i < k /\ inbox[k].kind = "update" =>
            inbox[i].n < inbox[k].n /\ inbox[i].ending = None
  /\ ~registered => printed = <<>>
  /\ \A i \in DOMAIN printed : printed[i] <= latest
  /\ \A i, k \in DOMAIN printed : printed[i] = printed[k] => i = k
  /\ \A r \in running : r.at = "begin" => \A i \in DOMAIN printed : printed[i] # r.n

\* What the client knows of the end is what the server has done.
EndInv ==
  /\ terminated # None => ending = terminated
  /\ finished = "clean" => ending = "clean"
  /\ \A i \in DOMAIN inbox :
       /\ inbox[i].kind = "end" => ending = inbox[i].ending
       /\ inbox[i].kind = "update" /\ inbox[i].ending # None => ending = inbox[i].ending
       /\ inbox[i].kind = "answer" /\ inbox[i].ok /\ command.what \in {"ping", "call"} => ending = "clean"
  /\ request = "yes" /\ command.what \in {"ping", "call"} => ending = "clean"
  /\ finished # None =>
       \/ ~up
       \/ /\ ending \in {"clean", "error"}
          /\ \A i \in DOMAIN inbox : inbox[i].kind # "update"

\* A run that goes on, or ends well, has logged in if it had to.
Accepted ==
  \/ pc \in {"request", "waiting", "onUpdate", "result", "finish", "select"}
  \/ pc = "exited" /\ code = 0 /\ command.what # "usage"
  => (LogsIn => LoggedIn)

\* An exit code of 0 means that the server is done, or that the number of
\* events has come.
Earned ==
  pc = "exited" /\ code = 0 /\ command.what # "usage" =>
    ending = "clean" \/ (command.what = "subscribe" /\ command.number \in 1..received)

\* The bar is finished last, unless a callback is late.
BarInv ==
  /\ bar.used => registered /\ command.bar
  /\ pc = "finish" => finished # None
  /\ pc = "exited" /\ registered /\ command.bar =>
       finished # None /\ (~late => running = {} /\ bar.percentage = Full)

-----------------------------------------------------------------------------
(* Shapes *)

\* Frames are told apart by their kind.
LEMMA FrameKinds ==
  ASSUME NEW f \in Frame
  PROVE  /\ f.kind \in {"answer", "event", "update", "end"}
         /\ f.kind = "answer" => f.ok \in BOOLEAN
         /\ f.kind = "event" => f.n \in 1..MaxEvents
         /\ f.kind = "update" => f.n \in 1..MaxEvents /\ f.ending \in {None, "clean", "error"}
         /\ f.kind = "end" => f.ending \in {"clean", "error"}
BY DEF Frame

\* The frame the reader takes is the first, and the others move up.
LEMMA ReadsFirst ==
  ASSUME ShapeInv, NEW kind, Reads(kind)
  PROVE  /\ Head(inbox) \in Frame /\ Head(inbox).kind = kind /\ Head(inbox) = inbox[1]
         /\ 1 \in DOMAIN inbox /\ inbox' \in Seq(Frame) /\ up /\ ReaderFree
         /\ \A i \in DOMAIN inbox' :
              i \in Nat /\ i + 1 > 1 /\ i + 1 \in DOMAIN inbox /\ inbox'[i] = inbox[i + 1]
         /\ \A i \in DOMAIN inbox : inbox[i] = Head(inbox) \/ \E k \in DOMAIN inbox' : inbox'[k] = inbox[i]
<1>1. inbox \in Seq(Frame) /\ inbox # <<>> /\ inbox' = Tail(inbox) /\ up /\ ReaderFree /\ Head(inbox).kind = kind
  BY DEF Reads, ShapeInv
<1>2. /\ Head(inbox) = inbox[1] /\ 1 \in 1..Len(inbox) /\ Head(inbox) \in Frame /\ Tail(inbox) \in Seq(Frame)
      /\ \A i \in 1..Len(Tail(inbox)) : i + 1 \in 1..Len(inbox) /\ Tail(inbox)[i] = inbox[i + 1]
  BY <1>1, ReadingInbox
<1>3. DOMAIN inbox = 1..Len(inbox) /\ DOMAIN Tail(inbox) = 1..Len(Tail(inbox))
  BY <1>1, <1>2
<1>4. \A i \in DOMAIN inbox : inbox[i] = Head(inbox) \/ \E k \in DOMAIN Tail(inbox) : Tail(inbox)[k] = inbox[i]
  BY <1>1, StillThere
<1>5. QED
  BY <1>1, <1>2, <1>3, <1>4

\* What the server sends comes last.
LEMMA SendsLast ==
  ASSUME ShapeInv, NEW f \in Frame, inbox' = Append(inbox, f)
  PROVE  /\ inbox' \in Seq(Frame) /\ DOMAIN inbox \subseteq DOMAIN inbox'
         /\ \A i \in DOMAIN inbox : i \in Nat /\ i <= Len(inbox) /\ inbox'[i] = inbox[i]
         /\ \A i \in DOMAIN inbox' :
              \/ i \in DOMAIN inbox /\ inbox'[i] = inbox[i]
              \/ i = Len(inbox) + 1 /\ inbox'[i] = f
         /\ Len(inbox) \in Nat /\ Len(inbox) + 1 \in DOMAIN inbox' /\ inbox'[Len(inbox) + 1] = f
<1>1. inbox \in Seq(Frame) /\ Len(inbox) \in Nat /\ DOMAIN inbox = 1..Len(inbox)
  BY DEF ShapeInv
<1>2. inbox' \in Seq(Frame) /\ DOMAIN inbox' = 1..Len(inbox')
  BY <1>1, SendingFrame
<1>3. QED
  BY <1>1, <1>2, SendingFrame

LEMMA InitShape == Init => ShapeInv
<1> SUFFICES ASSUME Init PROVE ShapeInv
  OBVIOUS
<1>1. inbox \in Seq(Frame) /\ printed \in Seq(1..MaxEvents)
  BY EmptySeq DEF Init
<1>2. L!TypeOK /\ result # "running"
  BY DEF Init, L!Init, L!TypeOK, L!Attempts
<1>3. /\ 0 \in 0..MaxEvents /\ 0 \in 0..Full /\ bar \in [percentage : 0..Full, used : BOOLEAN]
  BY MidcltAssumption DEF Init, Full, MidcltAssumption
<1>4. /\ command \in Commands /\ local \in BOOLEAN /\ up \in BOOLEAN /\ registered \in BOOLEAN /\ late \in BOOLEAN
      /\ pc = "start" /\ code = 2 /\ sent = 0 /\ received = 0 /\ closings = 0 /\ latest = 0 /\ lastDesc = 0
  BY DEF Init
<1>5. running = {} /\ request = None /\ ending = None /\ terminated = None /\ finished = None
  BY DEF Init
<1>6. QED
  BY <1>1, <1>2, <1>3, <1>4, <1>5 DEF ShapeInv

LEMMA StepShape == ShapeInv /\ CommandInv /\ [Next]_vars => ShapeInv'
<1> SUFFICES ASSUME ShapeInv, CommandInv, [Next]_vars PROVE ShapeInv'
  OBVIOUS
<1> USE DEF loginVars, serverVars, callbackVars, readerVars
<1>1. UNCHANGED loginVars => L!TypeOK' /\ (result' = "running" => attempt' = 1)
  BY DEF ShapeInv, L!TypeOK, L!Attempts
<1>2. CASE Start \/ Connect \/ LoginReturns \/ CallFails \/ ResultReturns \/ Select
  <2>1. \/ pc' \in {"connect", "login", "request", "finish"} /\ code' = code /\ pc # "exited"
        \/ pc' = "exited" /\ code' \in {0, 1}
    <3>1. CASE Start \/ CallFails \/ LoginReturns
      BY <3>1 DEF Start, CallFails, LoginReturns, LoggedIn, Goes, Exits
    <3>2. CASE Connect
      BY <3>2 DEF Connect, LogsIn, Goes, Exits
    <3>3. CASE ResultReturns
      BY <3>3 DEF ResultReturns, Goes, Exits
    <3>4. CASE Select
      BY <3>4 DEF Select, Exits
    <3>5. QED
      BY <1>2, <3>1, <3>2, <3>3, <3>4
  <2>2. up' \in BOOLEAN
    BY <1>2 DEF Start, Connect, LoginReturns, CallFails, ResultReturns, Select, ShapeInv
  <2>3. UNCHANGED <<command, local, loginVars, serverVars, inbox, callbackVars, readerVars, registered, late>>
    BY <1>2 DEF Start, Connect, LoginReturns, CallFails, ResultReturns, Select, MainOnly
  <2>4. QED
    BY <1>1, <2>1, <2>2, <2>3 DEF ShapeInv
<1>3. CASE Login
  <2>1. L!TypeOK' /\ (result' = "running" => attempt' = 1)
    BY <1>3 DEF Login, ShapeInv, L!TypeOK, L!Begin, L!Attempts
  <2>2. QED
    BY <1>3, <2>1 DEF ShapeInv, Login, MainOnly
<1>4. CASE Request
  <2>1. request' \in {None, "ping", "call", "job", "subscribe", "yes", "no"}
    <3>1. command \in Commands
      BY DEF ShapeInv
    <3>2. command.what \in {"usage", "ping", "call", "job", "subscribe"}
      BY <3>1, MidcltAssumption DEF MidcltAssumption
    <3>3. command.what # "usage"
      BY <1>4 DEF Request, CommandInv
    <3>4. QED
      BY <1>4, <3>2, <3>3 DEF Request
  <2>2. QED
    BY <1>1, <1>4, <2>1 DEF ShapeInv, Request, MainOnly, Goes
<1>5. CASE OnUpdate
  <2>1. Replay \subseteq CallbackAt
    BY DEF Replay, ShapeInv, CallbackAt
  <2>2. QED
    BY <1>1, <1>5, <2>1 DEF ShapeInv, OnUpdate, MainOnly, Goes
<1>6. CASE FinishBar
  <2>1. bar' \in [percentage : 0..Full, used : BOOLEAN]
    <3>1. Full \in 0..Full
      BY MidcltAssumption DEF MidcltAssumption, Full
    <3>2. bar' = bar \/ bar' = [bar EXCEPT !.percentage = Full]
      BY <1>6 DEF FinishBar, Filled
    <3>3. QED
      BY <3>1, <3>2 DEF ShapeInv
  <2>2. QED
    BY <1>1, <1>6, <2>1 DEF ShapeInv, FinishBar, MainOnly, Exits
<1>7. ASSUME NEW r \in running, Callback(r) PROVE ShapeInv'
  <2>1. r.n \in 1..MaxEvents /\ r \in CallbackAt
    BY DEF ShapeInv, CallbackAt
  <2>2. \A where \in {"check", "close", "store"} : [r EXCEPT !.at = where] \in CallbackAt
    BY <2>1 DEF CallbackAt
  <2>3. running' \subseteq CallbackAt
    BY <1>7, <2>2 DEF ShapeInv, Callback, PrintEvent, CheckDone, CloseDone, UpdateBar, PrintStatus, StoreStatus,
       CallbackGoes, CallbackEnds, Enough
  <2>4. printed' \in Seq(1..MaxEvents)
    <3>1. Append(printed, r.n) \in Seq(1..MaxEvents)
      BY <2>1, AppendProperties DEF ShapeInv
    <3>2. printed' = printed \/ printed' = Append(printed, r.n)
      BY <1>7 DEF Callback, PrintEvent, CheckDone, CloseDone, UpdateBar, PrintStatus, StoreStatus
    <3>3. QED
      BY <3>1, <3>2 DEF ShapeInv
  <2>5. bar' \in [percentage : 0..Full, used : BOOLEAN]
    <3> DEFINE given == Given(r.n, bar.percentage)
    <3>1. [percentage |-> given, used |-> TRUE] \in [percentage : 0..Full, used : BOOLEAN]
      <4>1. given \in 0..Full
        BY <2>1, MidcltAssumption DEF Full, MidcltAssumption, Given, ShapeInv
      <4>2. QED
        BY <4>1
    <3>2. bar' = bar \/ bar' = [percentage |-> given, used |-> TRUE]
      BY <1>7 DEF Callback, PrintEvent, CheckDone, CloseDone, UpdateBar, PrintStatus, StoreStatus
    <3>3. QED
      BY <3>1, <3>2 DEF ShapeInv
  <2>6. /\ received' \in Nat /\ closings' \in Nat /\ lastDesc' \in 0..MaxEvents
    <3>1. /\ received' \in {received, received + 1} /\ closings' \in {closings, closings + 1}
          /\ lastDesc' \in {lastDesc, Given(r.n, 0)}
      BY <1>7 DEF Callback, PrintEvent, CheckDone, CloseDone, UpdateBar, PrintStatus, StoreStatus
    <3>2. Given(r.n, 0) \in 0..MaxEvents
      BY <2>1, MidcltAssumption DEF MidcltAssumption, Given
    <3>3. QED
      BY <3>1, <3>2 DEF ShapeInv
  <2>7. UNCHANGED <<command, local, up, pc, code, loginVars, serverVars, inbox, readerVars, registered, late>>
    BY <1>7 DEF Callback, PrintEvent, CheckDone, CloseDone, UpdateBar, PrintStatus, StoreStatus, CallbackOnly
  <2>8. QED
    BY <1>1, <2>3, <2>4, <2>5, <2>6, <2>7 DEF ShapeInv
<1>8. ASSUME NEW kind, Reads(kind)
      PROVE  /\ Head(inbox) \in Frame /\ Head(inbox).kind = kind /\ inbox' \in Seq(Frame)
             /\ UNCHANGED <<command, local, up, loginVars, serverVars, printed, received, closings, lastDesc,
                            bar, registered, late>>
  BY <1>8, ReadsFirst DEF Reads
<1>9. CASE ReadAnswer
  <2>1. /\ pc' \in {"waiting", "onUpdate", "select", "exited", pc} /\ code' \in {0, 1, code}
        /\ (code' # 2 <=> pc' = "exited")
    BY <1>9 DEF ReadAnswer, Goes, Exits, ShapeInv
  <2>2. UNCHANGED <<running, readerVars>>
    BY <1>9 DEF ReadAnswer
  <2>3. Reads("answer")
    BY <1>9 DEF ReadAnswer
  <2>4. QED
    BY <1>1, <1>8, <2>1, <2>2, <2>3 DEF ShapeInv
<1>10. CASE ReadEvent
  <2>1. Reads("event") /\ UNCHANGED <<pc, code, readerVars>>
    BY <1>10 DEF ReadEvent
  <2>2. [n |-> Head(inbox).n, at |-> "begin"] \in CallbackAt
    BY <1>8, <2>1, FrameKinds DEF CallbackAt
  <2>3. running' \subseteq CallbackAt
    BY <1>10, <2>2 DEF ReadEvent, ShapeInv
  <2>4. QED
    BY <1>1, <1>8, <2>1, <2>3 DEF ShapeInv
<1>11. CASE ReadUpdate
  <2>1. Reads("update") /\ UNCHANGED <<pc, code, terminated>>
    BY <1>11 DEF ReadUpdate
  <2>2. Head(inbox).n \in 1..MaxEvents /\ Head(inbox).ending \in {None, "clean", "error"}
    BY <1>8, <2>1, FrameKinds
  <2>3. [n |-> Head(inbox).n, at |-> "begin"] \in CallbackAt
    BY <2>2 DEF CallbackAt
  <2>4. running' \subseteq CallbackAt
    BY <1>11, <2>3 DEF ReadUpdate, ShapeInv
  <2>5. latest' \in 0..MaxEvents /\ finished' \in {None, "clean", "error"}
    BY <1>11, <2>2, MidcltAssumption DEF ReadUpdate, MidcltAssumption
  <2>6. QED
    BY <1>1, <1>8, <2>1, <2>4, <2>5 DEF ShapeInv
<1>12. CASE ReadEnd
  <2>1. Reads("end") /\ UNCHANGED <<pc, code, running, latest, finished>>
    BY <1>12 DEF ReadEnd
  <2>2. terminated' \in {None, "clean", "error"}
    BY <1>8, <1>12, <2>1, FrameKinds DEF ReadEnd
  <2>3. QED
    BY <1>1, <1>8, <2>1, <2>2 DEF ShapeInv
<1>13. CASE ConnectionLost
  <2>1. inbox' \in Seq(Frame)
    BY <1>13, EmptySeq DEF ConnectionLost
  <2>2. /\ up' \in BOOLEAN /\ finished' \in {None, "clean", "error"}
        /\ request' \in {None, "ping", "call", "job", "subscribe", "yes", "no"}
    BY <1>13 DEF ConnectionLost, ShapeInv
  <2>3. UNCHANGED <<command, local, pc, code, loginVars, sent, ending, callbackVars, terminated, latest,
                    registered, late>>
    BY <1>13 DEF ConnectionLost
  <2>4. QED
    BY <1>1, <2>1, <2>2, <2>3 DEF ShapeInv
<1>14. CASE LoginActs \/ LoginEnds
  <2>1. L!TypeOK' /\ (result' = "running" => attempt' = 1)
    <3>1. L!TypeOK /\ (result = "running" => attempt = 1)
      BY DEF ShapeInv
    <3>2. ASSUME NEW a \in L!Attempts, L!Grant(a) PROVE L!TypeOK' /\ UNCHANGED <<attempt, result>>
      BY <3>1, <3>2 DEF L!TypeOK, L!Grant, L!Attempts
    <3>3. ASSUME NEW a \in L!Attempts, L!Revoke(a) PROVE L!TypeOK' /\ UNCHANGED <<attempt, result>>
      BY <3>1, <3>3 DEF L!TypeOK, L!Revoke, L!Attempts
    <3>4. ASSUME L!Succeed PROVE L!TypeOK' /\ result' = "ok"
      BY <3>1, <3>4 DEF L!TypeOK, L!Succeed, L!Attempts
    <3>5. ASSUME L!Fail PROVE L!TypeOK' /\ result' = "error"
      <4>1. result = "running" /\ result' = "error" /\ UNCHANGED <<attempt, session>>
        BY <3>5 DEF L!Fail
      <4>2. loose' = loose \/ loose' = loose \cup {attempt}
        BY <3>5 DEF L!Fail
      <4>3. attempt \in 1..1 /\ loose \subseteq 1..1
        BY <3>1, <4>1 DEF L!TypeOK, L!Attempts
      <4>4. QED
        BY <3>1, <4>1, <4>2, <4>3 DEF L!TypeOK, L!Attempts
    <3>6. QED
      BY <1>14, <3>1, <3>2, <3>3, <3>4, <3>5 DEF LoginActs, LoginEnds
  <2>2. QED
    BY <1>14, <2>1 DEF ShapeInv, LoginActs, LoginEnds, ServerOnly
<1>15. CASE Serves
  BY <1>1, <1>15 DEF ShapeInv, Serves, ServerOnly
<1>16. CASE Answers
  <2>1. [kind |-> "answer", ok |-> request = "yes"] \in Frame
    BY DEF Frame
  <2>2. QED
    BY <1>1, <1>16, <2>1, SendsLast DEF ShapeInv, Answers, ServerOnly
<1>17. CASE SendsEvent
  <2>1. sent' \in 1..MaxEvents
    BY <1>17, MidcltAssumption DEF SendsEvent, ShapeInv, MidcltAssumption
  <2>2. PICK n \in 1..MaxEvents : n = sent'
    BY <2>1
  <2>3. [kind |-> "event", n |-> n] \in Frame /\ inbox' = Append(inbox, [kind |-> "event", n |-> n])
    BY <1>17, <2>2 DEF Frame, SendsEvent
  <2>4. QED
    BY <1>1, <1>17, <2>1, <2>3, SendsLast DEF ShapeInv, SendsEvent, ServerOnly
<1>18. CASE EndsSubscription
  <2>1. PICK e \in {"clean", "error"} : e = ending' /\ inbox' = Append(inbox, [kind |-> "end", ending |-> e])
    BY <1>18 DEF EndsSubscription
  <2>2. [kind |-> "end", ending |-> e] \in Frame
    BY DEF Frame
  <2>3. QED
    BY <1>1, <1>18, <2>1, <2>2, SendsLast DEF ShapeInv, EndsSubscription, ServerOnly
<1>19. CASE SendsUpdate
  <2>1. sent' \in 1..MaxEvents
    BY <1>19, MidcltAssumption DEF SendsUpdate, ShapeInv, MidcltAssumption
  <2>2. PICK n \in 1..MaxEvents, e \in {None, "clean", "error"} :
          inbox' = Append(inbox, [kind |-> "update", n |-> n, ending |-> e])
    BY <1>19, <2>1 DEF SendsUpdate
  <2>3. [kind |-> "update", n |-> n, ending |-> e] \in Frame
    BY DEF Frame
  <2>4. QED
    BY <1>1, <1>19, <2>1, <2>2, <2>3, SendsLast DEF ShapeInv, SendsUpdate, ServerOnly
<1>20. CASE UNCHANGED vars
  BY <1>1, <1>20 DEF ShapeInv, vars
<1>21. QED
  BY <1>2, <1>3, <1>4, <1>5, <1>6, <1>7, <1>9, <1>10, <1>11, <1>12, <1>13, <1>14, <1>15, <1>16, <1>17, <1>18,
     <1>19, <1>20 DEF Next, Main, Reader, Server

-----------------------------------------------------------------------------
(* Commands *)

\* The command line stays what it is.
LEMMA CommandStays == [Next]_vars => UNCHANGED command
BY DEF Next, Main, Start, Connect, Login, LoginReturns, Request, CallFails, OnUpdate, ResultReturns, FinishBar,
   Select, MainOnly, Reader, ReadAnswer, ReadEvent, ReadUpdate, ReadEnd, Reads, Callback, PrintEvent, CheckDone,
   CloseDone, UpdateBar, PrintStatus, StoreStatus, CallbackOnly, ConnectionLost, LoginActs, LoginEnds, Server,
   Serves, Answers, SendsEvent, EndsSubscription, SendsUpdate, ServerOnly, vars

\* Frames that stay are the ones of before, of the same kinds.
LEMMA KindsStay ==
  ASSUME ShapeInv, CommandInv, \A i \in DOMAIN inbox' : \E k \in DOMAIN inbox : inbox'[i] = inbox[k],
         UNCHANGED command
  PROVE  \A i \in DOMAIN inbox' :
           /\ inbox'[i].kind \in {"event", "end"} => command'.what = "subscribe"
           /\ inbox'[i].kind = "update" => command'.what = "job"
BY DEF CommandInv

LEMMA StepCommand == ShapeInv /\ CommandInv /\ [Next]_vars => CommandInv'
<1> SUFFICES ASSUME ShapeInv, CommandInv, [Next]_vars PROVE CommandInv'
  OBVIOUS
<1> USE DEF loginVars, serverVars, callbackVars, readerVars
<1>1. CASE Start \/ LoginReturns \/ CallFails \/ ResultReturns \/ FinishBar \/ Select
  <2>1. \/ pc' = "exited"
        \/ pc = "start" /\ pc' = "connect" /\ command.what # "usage"
        \/ pc = "login" /\ pc' = "request"
        \/ pc = "result" /\ pc' = "finish"
    BY <1>1 DEF Start, LoginReturns, LoggedIn, CallFails, ResultReturns, FinishBar, Select, Goes, Exits
  <2>2. UNCHANGED <<command, up, request, ending, sent, inbox, registered, running, received, closings, printed,
                    finished, latest, lastDesc>>
    BY <1>1 DEF Start, LoginReturns, CallFails, ResultReturns, FinishBar, Select, MainOnly
  <2>3. QED
    BY <2>1, <2>2 DEF CommandInv
<1>2. CASE Connect
  <2>1. /\ pc = "connect" /\ pc' \in {"login", "request", "exited"}
        /\ UNCHANGED <<command, request, ending, sent, inbox, registered, running, received, closings, printed,
                       finished, latest, lastDesc>>
    BY <1>2 DEF Connect, LogsIn, Goes, Exits, MainOnly
  <2>2. QED
    BY <2>1 DEF CommandInv
<1>3. CASE Login
  BY <1>3 DEF Login, MainOnly, CommandInv
<1>4. CASE Request
  <2>1. /\ pc = "request" /\ pc' = "waiting" /\ request' \in {None, command.what}
        /\ UNCHANGED <<command, up, ending, sent, inbox, registered, running, received, closings, printed,
                       finished, latest, lastDesc>>
    BY <1>4 DEF Request, Goes, MainOnly
  <2>2. None \notin Serving /\ request' \notin {"yes", "no"}
    <3>1. command \in Commands
      BY DEF ShapeInv
    <3>2. command.what \in {"usage", "ping", "call", "job", "subscribe"}
      BY <3>1, MidcltAssumption DEF MidcltAssumption
    <3>3. QED
      BY <2>1, <3>2 DEF None, Serving
  <2>3. QED
    BY <2>1, <2>2 DEF CommandInv
<1>5. CASE OnUpdate
  <2>1. /\ pc = "onUpdate" /\ pc' = "result" /\ \A r \in running' : r \in running \/ r.at = "begin"
        /\ UNCHANGED <<command, up, request, ending, sent, inbox, received, closings, printed,
                       finished, latest, lastDesc>>
    BY <1>5 DEF OnUpdate, Replay, Goes, MainOnly
  <2>2. command.what = "job" /\ registered'
    BY <1>5 DEF CommandInv, OnUpdate
  <2>3. QED
    BY <2>1, <2>2 DEF CommandInv
<1>6. ASSUME NEW r \in running, Callback(r) PROVE CommandInv'
  <2>1. UNCHANGED <<command, up, pc, request, ending, sent, inbox, registered, finished, latest>>
    BY <1>6 DEF Callback, PrintEvent, CheckDone, CloseDone, UpdateBar, PrintStatus, StoreStatus, CallbackOnly
  <2>2. CASE PrintEvent(r) \/ CheckDone(r) \/ CloseDone(r)
    <3>1. command.what = "subscribe"
      BY <2>2 DEF PrintEvent, CheckDone, CloseDone, CommandInv
    <3>2. \A q \in running' : q \in running \/ q.at \in {"check", "close"}
      BY <2>2 DEF PrintEvent, CheckDone, CloseDone, CallbackGoes, CallbackEnds, Enough, ShapeInv, CallbackAt
    <3>3. UNCHANGED lastDesc
      BY <2>2 DEF PrintEvent, CheckDone, CloseDone
    <3>4. QED
      BY <2>1, <3>1, <3>2, <3>3 DEF CommandInv
  <2>3. CASE UpdateBar(r) \/ PrintStatus(r) \/ StoreStatus(r)
    <3>1. command.what = "job"
      BY <2>3 DEF UpdateBar, PrintStatus, StoreStatus, CommandInv
    <3>2. \A q \in running' : q \in running \/ q.at = "store"
      BY <2>3 DEF UpdateBar, PrintStatus, StoreStatus, CallbackGoes, CallbackEnds, ShapeInv, CallbackAt
    <3>3. UNCHANGED <<received, closings>> /\ registered
      BY <2>3, <3>1 DEF UpdateBar, PrintStatus, StoreStatus, CommandInv
    <3>4. QED
      BY <2>1, <3>1, <3>2, <3>3 DEF CommandInv
  <2>4. QED
    BY <1>6, <2>2, <2>3 DEF Callback
<1>7. ASSUME NEW kind, Reads(kind)
      PROVE  /\ \A i \in DOMAIN inbox' : \E k \in DOMAIN inbox : inbox'[i] = inbox[k]
             /\ \E k \in DOMAIN inbox : inbox[k] = Head(inbox) /\ inbox[k].kind = kind
             /\ up /\ ending # None
             /\ UNCHANGED <<command, up, request, ending, sent, registered, received, closings, printed, lastDesc>>
  <2>1. inbox # <<>> /\ UNCHANGED <<command, up, request, ending, sent, registered, received, closings, printed, lastDesc>>
    BY <1>7 DEF Reads
  <2>2. QED
    BY <1>7, <2>1, ReadsFirst DEF CommandInv
<1>8. CASE ReadAnswer
  <2>1. \/ pc' = pc \/ pc' = "exited"
        \/ pc = "waiting" /\ pc' = "onUpdate" /\ command.what = "job"
        \/ pc = "waiting" /\ pc' = "select" /\ command.what = "subscribe"
    BY <1>8 DEF ReadAnswer, Goes, Exits
  <2>2. UNCHANGED <<running, latest, finished>> /\ Reads("answer")
    BY <1>8 DEF ReadAnswer
  <2>3. QED
    BY <1>7, <2>1, <2>2, KindsStay DEF CommandInv
<1>9. CASE ReadEvent
  <2>1. Reads("event") /\ UNCHANGED <<pc, latest, finished>> /\ \A r \in running' : r \in running \/ r.at = "begin"
    BY <1>9 DEF ReadEvent
  <2>2. command.what = "subscribe"
    BY <1>7, <2>1 DEF CommandInv
  <2>3. QED
    BY <1>7, <2>1, <2>2, KindsStay DEF CommandInv
<1>10. CASE ReadUpdate
  <2>1. Reads("update") /\ UNCHANGED pc /\ \A r \in running' : r \in running \/ (r.at = "begin" /\ registered)
    BY <1>10 DEF ReadUpdate
  <2>2. command.what = "job"
    BY <1>7, <2>1 DEF CommandInv
  <2>3. QED
    BY <1>7, <2>1, <2>2, KindsStay DEF CommandInv
<1>11. CASE ReadEnd
  <2>1. Reads("end") /\ UNCHANGED <<pc, latest, finished, running>>
    BY <1>11 DEF ReadEnd
  <2>2. QED
    BY <1>7, <2>1, KindsStay DEF CommandInv
<1>12. CASE ConnectionLost
  <2>1. inbox' = <<>> /\ DOMAIN inbox' = {}
    BY <1>12, EmptySeq DEF ConnectionLost
  <2>2. up /\ ~up' /\ request' \notin Serving /\ request' \notin {"yes", "no"} /\ request' = None
    BY <1>12 DEF ConnectionLost, Serving, None
  <2>3. UNCHANGED <<command, pc, ending, sent, registered, running, received, closings, printed, latest, lastDesc>>
    BY <1>12 DEF ConnectionLost
  <2>4. QED
    BY <2>1, <2>2, <2>3 DEF CommandInv
<1>13. CASE LoginActs \/ LoginEnds
  BY <1>13 DEF LoginActs, LoginEnds, ServerOnly, CommandInv
<1>14. CASE Serves
  <2>1. request \in Serving /\ request' \notin Serving /\ ending' # None
    BY <1>14 DEF Serves, Serving, None
  <2>2. pc \notin {"start", "connect", "login", "request"}
    BY <2>1 DEF CommandInv, Serving, None
  <2>3. QED
    BY <1>14, <2>1, <2>2 DEF Serves, ServerOnly, CommandInv
<1>15. ASSUME NEW f \in Frame, inbox' = Append(inbox, f), f.kind \in {"event", "end"} => command.what = "subscribe",
              f.kind = "update" => command.what = "job", ending # None, ending' # None, request' \notin Serving,
              UNCHANGED <<command, up, pc, registered, running, received, closings, printed,
                          finished, latest, lastDesc>>
       PROVE  CommandInv'
  <2>1. pc \notin {"start", "connect", "login", "request"}
    BY <1>15 DEF CommandInv
  <2>2. QED
    BY <1>15, <2>1, SendsLast DEF CommandInv
<1>16. CASE Answers
  <2>1. /\ request' = None /\ request \in {"yes", "no"} /\ UNCHANGED ending
        /\ UNCHANGED <<command, up, pc, registered, running, received, closings, printed, finished, latest, lastDesc>>
    BY <1>16 DEF Answers, ServerOnly
  <2>2. PICK b \in BOOLEAN : inbox' = Append(inbox, [kind |-> "answer", ok |-> b])
    BY <1>16 DEF Answers
  <2>3. [kind |-> "answer", ok |-> b] \in Frame
    BY DEF Frame
  <2>4. request' \notin Serving
    BY <2>1 DEF None, Serving
  <2>5. ending # None
    BY <2>1 DEF CommandInv
  <2>6. QED
    BY <1>15, <2>1, <2>2, <2>3, <2>4, <2>5
<1>17. ASSUME ending = "open" PROVE request \notin Serving /\ ending # None
  BY <1>17 DEF CommandInv, Serving, None
<1>18. CASE SendsEvent
  <2>1. /\ ending = "open" /\ sent' \in 1..MaxEvents /\ command.what = "subscribe"
        /\ UNCHANGED <<request, ending, command, up, pc, registered, running, received, closings, printed, finished,
                       latest, lastDesc>>
    BY <1>18, MidcltAssumption DEF SendsEvent, ServerOnly, ShapeInv, MidcltAssumption
  <2>2. PICK n \in 1..MaxEvents : n = sent'
    BY <2>1
  <2>3. [kind |-> "event", n |-> n] \in Frame /\ inbox' = Append(inbox, [kind |-> "event", n |-> n])
    BY <1>18, <2>2 DEF Frame, SendsEvent
  <2>4. QED
    BY <1>15, <1>17, <2>1, <2>3
<1>19. CASE EndsSubscription
  <2>1. /\ ending = "open" /\ command.what = "subscribe"
        /\ UNCHANGED <<request, command, up, pc, registered, running, received, closings, printed, finished,
                       latest, lastDesc>>
    BY <1>19 DEF EndsSubscription, ServerOnly
  <2>2. PICK e \in {"clean", "error"} : e = ending' /\ inbox' = Append(inbox, [kind |-> "end", ending |-> e])
    BY <1>19 DEF EndsSubscription
  <2>3. [kind |-> "end", ending |-> e] \in Frame /\ ending' # None
    BY <2>2 DEF Frame, None
  <2>4. QED
    BY <1>15, <1>17, <2>1, <2>2, <2>3
<1>20. CASE SendsUpdate
  <2>1. /\ ending = "open" /\ sent' \in 1..MaxEvents /\ command.what = "job" /\ ending' # None
        /\ UNCHANGED <<request, command, up, pc, registered, running, received, closings, printed, finished,
                       latest, lastDesc>>
    BY <1>20, MidcltAssumption DEF SendsUpdate, ServerOnly, ShapeInv, MidcltAssumption, None
  <2>2. PICK n \in 1..MaxEvents, e \in {None, "clean", "error"} :
          inbox' = Append(inbox, [kind |-> "update", n |-> n, ending |-> e])
    BY <1>20, <2>1 DEF SendsUpdate
  <2>3. [kind |-> "update", n |-> n, ending |-> e] \in Frame
    BY DEF Frame
  <2>4. QED
    BY <1>15, <1>17, <2>1, <2>2, <2>3
<1>21. CASE UNCHANGED vars
  BY <1>21 DEF vars, CommandInv
<1>22. QED
  BY <1>1, <1>2, <1>3, <1>4, <1>5, <1>6, <1>8, <1>9, <1>10, <1>11, <1>12, <1>13, <1>14, <1>16, <1>18, <1>19,
     <1>20, <1>21 DEF Next, Main, Reader, Server

-----------------------------------------------------------------------------
(* Events *)

LEMMA StepEvent == ShapeInv /\ CommandInv /\ EventInv /\ [Next]_vars => EventInv'
<1> SUFFICES ASSUME ShapeInv, CommandInv, EventInv, [Next]_vars, command'.what = "subscribe"
             PROVE  EventInv'
  BY DEF EventInv
<1> USE DEF loginVars, serverVars, callbackVars, readerVars
<1>0. command.what = "subscribe" /\ UNCHANGED command
  BY CommandStays
<1>1. /\ received = Len(printed) /\ received <= sent /\ received \in Nat /\ sent \in Nat
      /\ \A i \in DOMAIN printed : printed[i] = i
      /\ \A q, r \in running : q = r
      /\ \A r \in running : r.n = (IF r.at = "begin" THEN received + 1 ELSE received) /\ r.n <= sent
      /\ up => \A m \in 1..sent : Known(m)
      /\ \A i \in DOMAIN inbox : i \in Nat
  BY <1>0, EveryElement DEF EventInv, ShapeInv
<1>2. \A i \in DOMAIN inbox : inbox[i].kind = "event" =>
        /\ received < inbox[i].n /\ inbox[i].n <= sent
        /\ \A r \in running : r.n < inbox[i].n
        /\ \A k \in DOMAIN inbox : i < k /\ inbox[k].kind = "event" => inbox[i].n < inbox[k].n
  BY <1>0 DEF EventInv
<1>3. ASSUME UNCHANGED <<printed, received, sent, inbox, running, up>> PROVE EventInv'
  BY <1>1, <1>2, <1>3 DEF EventInv, Known
<1>4. ASSUME NEW kind, Reads(kind), kind # "event", UNCHANGED running PROVE EventInv'
  <2>1. UNCHANGED <<printed, received, sent, up>>
    BY <1>4 DEF Reads
  <2>2. /\ \A i \in DOMAIN inbox' : i \in Nat /\ i + 1 \in DOMAIN inbox /\ inbox'[i] = inbox[i + 1]
        /\ \A i \in DOMAIN inbox : inbox[i].kind = "event" => \E k \in DOMAIN inbox' : inbox'[k] = inbox[i]
    BY <1>4, ReadsFirst
  <2>3. \A i \in DOMAIN inbox' : inbox'[i].kind = "event" =>
          /\ received < inbox'[i].n /\ inbox'[i].n <= sent
          /\ \A r \in running : r.n < inbox'[i].n
          /\ \A k \in DOMAIN inbox' : i < k /\ inbox'[k].kind = "event" => inbox'[i].n < inbox'[k].n
    BY <1>2, <2>2
  <2>4. \A m \in 1..sent : Known(m) => Known(m)'
    BY <1>4, <2>1, <2>2 DEF Known
  <2>5. QED
    BY <1>1, <1>4, <2>1, <2>3, <2>4 DEF EventInv
<1>5. ASSUME NEW f \in Frame, inbox' = Append(inbox, f), f.kind # "event",
             UNCHANGED <<printed, received, sent, running, up>>
      PROVE  EventInv'
  <2>1. /\ \A i \in DOMAIN inbox' : inbox'[i].kind = "event" => i \in DOMAIN inbox /\ inbox'[i] = inbox[i]
        /\ \A i \in DOMAIN inbox : i \in DOMAIN inbox' /\ inbox'[i] = inbox[i]
    BY <1>5, SendsLast
  <2>2. \A m \in 1..sent : Known(m) => Known(m)'
    BY <1>5, <2>1 DEF Known
  <2>3. QED
    BY <1>1, <1>2, <1>5, <2>1, <2>2 DEF EventInv
<1>6. CASE Start \/ Login \/ LoginReturns \/ Request \/ CallFails \/ ResultReturns \/ FinishBar \/ Select
  BY <1>3, <1>6 DEF Start, Login, LoginReturns, Request, CallFails, ResultReturns, FinishBar, Select, MainOnly
<1>7. CASE Connect
  <2>1. sent = 0 /\ UNCHANGED <<printed, received, sent, inbox, running>>
    BY <1>7 DEF Connect, CommandInv, MainOnly
  <2>2. 1..sent = {}
    BY <2>1
  <2>3. QED
    BY <1>1, <1>2, <2>1, <2>2 DEF EventInv
<1>8. ~OnUpdate
  BY <1>0 DEF OnUpdate, CommandInv
<1>9. ASSUME NEW r \in running, PrintEvent(r) PROVE EventInv'
  <2>1. /\ r.at = "begin" /\ r.n = received + 1 /\ running = {r} /\ r.n \in 1..MaxEvents /\ r \in CallbackAt
        /\ printed' = Append(printed, r.n) /\ received' = received + 1
        /\ UNCHANGED <<sent, inbox, up>> /\ received + 1 <= sent
    BY <1>1, <1>9 DEF PrintEvent, CallbackOnly, ShapeInv, CallbackAt
  <2>2. \A q \in running' : q = [r EXCEPT !.at = "check"]
    BY <1>9, <2>1 DEF PrintEvent, CallbackGoes, CallbackEnds, Enough
  <2>3. \A q \in running' : q.at # "begin" /\ q.n = received' /\ q.n = r.n
    BY <2>1, <2>2 DEF CallbackAt
  <2>4. /\ received' = Len(printed') /\ \A i \in DOMAIN printed' : printed'[i] = i
    <3>1. /\ printed \in Seq(1..MaxEvents) /\ Len(printed') = Len(printed) + 1
          /\ \A i \in 1..Len(printed) : printed'[i] = printed[i]
          /\ printed'[Len(printed) + 1] = r.n /\ printed' \in Seq(1..MaxEvents)
      BY <2>1, AppendProperties DEF ShapeInv
    <3>2. DOMAIN printed = 1..Len(printed) /\ DOMAIN printed' = 1..(Len(printed) + 1) /\ Len(printed) \in Nat
      BY <3>1, EveryElement
    <3>3. QED
      BY <1>1, <2>1, <3>1, <3>2
  <2>5. ASSUME NEW m \in 1..sent, Known(m) PROVE Known(m)'
    <3>1. CASE m <= received
      BY <1>1, <2>1, <3>1 DEF Known
    <3>2. CASE \E q \in running : q.at = "begin" /\ q.n = m
      <4>1. m <= received'
        BY <1>1, <2>1, <3>2
      <4>2. QED
        BY <4>1 DEF Known
    <3>3. CASE \E i \in DOMAIN inbox : inbox[i].kind = "event" /\ inbox[i].n = m
      BY <2>1, <3>3 DEF Known
    <3>4. QED
      BY <2>5, <3>1, <3>2, <3>3 DEF Known
  <2>6. \A i \in DOMAIN inbox : inbox[i].kind = "event" => received' < inbox[i].n
    BY <1>2, <2>1
  <2>7. \A q, s \in running' : q = s
    BY <2>2
  <2>8. QED
    BY <1>1, <1>2, <2>1, <2>3, <2>4, <2>5, <2>6, <2>7 DEF EventInv
<1>10. ASSUME NEW r \in running, CheckDone(r) \/ CloseDone(r) PROVE EventInv'
  <2>1. /\ r.at \in {"check", "close"} /\ running = {r} /\ r \in CallbackAt
        /\ UNCHANGED <<printed, received, sent, inbox, up>>
    BY <1>1, <1>10 DEF CheckDone, CloseDone, CallbackOnly, ShapeInv
  <2>2. \A q \in running' : q = [r EXCEPT !.at = "close"]
    BY <1>10, <2>1 DEF CheckDone, CloseDone, CallbackGoes, CallbackEnds
  <2>3. \A q \in running' : q.at # "begin" /\ q.n = r.n
    BY <2>1, <2>2 DEF CallbackAt
  <2>4. \A m \in 1..sent : Known(m) => Known(m)'
    BY <2>1 DEF Known
  <2>5. \A q, s \in running' : q = s
    BY <2>2
  <2>6. QED
    BY <1>1, <1>2, <2>1, <2>3, <2>4, <2>5 DEF EventInv
<1>11. ASSUME NEW r \in running PROVE ~(UpdateBar(r) \/ PrintStatus(r) \/ StoreStatus(r))
  BY <1>0 DEF UpdateBar, PrintStatus, StoreStatus, CommandInv
<1>12. CASE ReadAnswer \/ ReadEnd
  BY <1>4, <1>12 DEF ReadAnswer, ReadEnd
<1>13. CASE ReadEvent
  <2> DEFINE first == [n |-> received + 1, at |-> "begin"]
  <2>1. /\ Head(inbox) = inbox[1] /\ 1 \in DOMAIN inbox /\ inbox[1].kind = "event" /\ inbox[1].n \in Nat /\ up
        /\ \A i \in DOMAIN inbox' : i \in Nat /\ i + 1 > 1 /\ i + 1 \in DOMAIN inbox /\ inbox'[i] = inbox[i + 1]
        /\ \A i \in DOMAIN inbox : inbox[i] = inbox[1] \/ \E k \in DOMAIN inbox' : inbox'[k] = inbox[i]
    BY <1>13, ReadsFirst, FrameKinds DEF ReadEvent
  <2>2. running = {} /\ UNCHANGED <<printed, received, sent, up>>
    BY <1>0, <1>13 DEF ReadEvent, Reads, ReaderFree, Sync
  <2>3. inbox[1].n = received + 1
    <3>1. received + 1 \in 1..sent
      BY <1>1, <1>2, <2>1
    <3>2. Known(received + 1)
      BY <1>1, <2>1, <3>1
    <3>3. PICK i \in DOMAIN inbox : inbox[i].kind = "event" /\ inbox[i].n = received + 1
      BY <1>1, <2>2, <3>2 DEF Known
    <3>4. inbox[1].n <= inbox[i].n
      BY <1>1, <1>2, <2>1, <3>3, EveryElement DEF ShapeInv
    <3>5. QED
      BY <1>1, <1>2, <2>1, <3>3, <3>4
  <2>4. running' = {first}
    BY <1>13, <2>1, <2>2, <2>3 DEF ReadEvent
  <2>5. first.n = received + 1 /\ first.at = "begin" /\ received + 1 <= sent
    BY <1>2, <2>1, <2>3
  <2>6. \A i \in DOMAIN inbox' : inbox'[i].kind = "event" =>
          /\ received < inbox'[i].n /\ inbox'[i].n <= sent /\ received + 1 < inbox'[i].n
          /\ \A k \in DOMAIN inbox' : i < k /\ inbox'[k].kind = "event" => inbox'[i].n < inbox'[k].n
    BY <1>2, <2>1, <2>3
  <2>7. ASSUME NEW m \in 1..sent, Known(m) PROVE Known(m)'
    <3>1. CASE m <= received
      BY <2>2, <3>1 DEF Known
    <3>2. CASE \E i \in DOMAIN inbox : inbox[i].kind = "event" /\ inbox[i].n = m
      BY <2>1, <2>3, <2>4, <2>5, <3>2 DEF Known
    <3>3. QED
      BY <2>2, <2>7, <3>1, <3>2 DEF Known
  <2> HIDE DEF first
  <2>8. QED
    BY <1>1, <2>1, <2>2, <2>4, <2>5, <2>6, <2>7 DEF EventInv
<1>14. ~ReadUpdate
  <2>1. SUFFICES ASSUME Reads("update") PROVE FALSE
    BY DEF ReadUpdate
  <2>2. QED
    BY <1>0, <2>1, ReadsFirst DEF CommandInv
<1>15. CASE ConnectionLost
  <2>1. DOMAIN inbox' = {} /\ ~up' /\ UNCHANGED <<printed, received, sent, running>>
    BY <1>15, EmptySeq DEF ConnectionLost
  <2>2. QED
    BY <1>1, <2>1 DEF EventInv
<1>16. CASE LoginActs \/ LoginEnds \/ Serves
  BY <1>3, <1>16 DEF LoginActs, LoginEnds, Serves, ServerOnly
<1>17. CASE Answers
  <2>1. PICK b \in BOOLEAN : inbox' = Append(inbox, [kind |-> "answer", ok |-> b])
    BY <1>17 DEF Answers
  <2>2. [kind |-> "answer", ok |-> b] \in Frame
    BY DEF Frame
  <2>3. QED
    BY <1>5, <1>17, <2>1, <2>2 DEF Answers, ServerOnly
<1>18. CASE EndsSubscription
  <2>1. PICK e \in {"clean", "error"} : inbox' = Append(inbox, [kind |-> "end", ending |-> e])
    BY <1>18 DEF EndsSubscription
  <2>2. [kind |-> "end", ending |-> e] \in Frame
    BY DEF Frame
  <2>3. QED
    BY <1>5, <1>18, <2>1, <2>2 DEF EndsSubscription, ServerOnly
<1>19. CASE SendsEvent
  <2>1. sent' = sent + 1 /\ sent' \in 1..MaxEvents /\ UNCHANGED <<printed, received, running, up>>
    BY <1>19, MidcltAssumption DEF SendsEvent, ServerOnly, ShapeInv, MidcltAssumption
  <2>2. PICK n \in 1..MaxEvents : n = sent'
    BY <2>1
  <2> DEFINE f == [kind |-> "event", n |-> n]
  <2>3. f \in Frame /\ inbox' = Append(inbox, f) /\ f.kind = "event" /\ f.n = sent + 1
    BY <1>19, <2>1, <2>2 DEF Frame, SendsEvent
  <2> HIDE DEF f
  <2>4. /\ \A i \in DOMAIN inbox : i <= Len(inbox) /\ i \in DOMAIN inbox' /\ inbox'[i] = inbox[i]
        /\ \A i \in DOMAIN inbox' : \/ i \in DOMAIN inbox /\ inbox'[i] = inbox[i]
                                    \/ i = Len(inbox) + 1 /\ inbox'[i] = f
        /\ \E i \in DOMAIN inbox' : inbox'[i] = f
        /\ Len(inbox) \in Nat
    BY <2>3, SendsLast
  <2>5. \A i \in DOMAIN inbox' : inbox'[i].kind = "event" =>
          /\ received < inbox'[i].n /\ inbox'[i].n <= sent + 1
          /\ \A r \in running : r.n < inbox'[i].n
    <3>1. \A i \in DOMAIN inbox : inbox[i].kind = "event" => inbox[i].n \in Nat
      BY EveryElement, FrameKinds DEF ShapeInv
    <3>2. \A r \in running : r.n \in Nat
      BY DEF ShapeInv, CallbackAt
    <3>3. SUFFICES ASSUME NEW i \in DOMAIN inbox', inbox'[i].kind = "event"
                   PROVE  /\ received < inbox'[i].n /\ inbox'[i].n <= sent + 1
                          /\ \A r \in running : r.n < inbox'[i].n
      OBVIOUS
    <3>4. CASE i \in DOMAIN inbox /\ inbox'[i] = inbox[i]
      BY <1>1, <1>2, <3>1, <3>3, <3>4
    <3>5. CASE inbox'[i] = f
      BY <1>1, <2>3, <3>2, <3>5
    <3>6. QED
      BY <2>4, <3>4, <3>5
  <2>6. ASSUME NEW i \in DOMAIN inbox', NEW k \in DOMAIN inbox', i < k, inbox'[i].kind = "event",
               inbox'[k].kind = "event"
        PROVE  inbox'[i].n < inbox'[k].n
    <3>1. i \in DOMAIN inbox /\ inbox'[i] = inbox[i] /\ inbox[i].n <= sent
      BY <1>1, <1>2, <2>4, <2>6
    <3>2. CASE k \in DOMAIN inbox /\ inbox'[k] = inbox[k]
      BY <1>2, <2>6, <3>1, <3>2
    <3>3. CASE inbox'[k] = f
      <4>1. inbox[i].n \in Nat
        BY <2>6, <3>1, EveryElement, FrameKinds DEF ShapeInv
      <4>2. QED
        BY <1>1, <2>3, <3>1, <3>3, <4>1
    <3>4. QED
      BY <2>4, <3>2, <3>3
  <2>7. ASSUME NEW m \in 1..(sent + 1), up PROVE Known(m)'
    <3>1. CASE m \in 1..sent
      BY <1>1, <2>1, <2>4, <2>7, <3>1 DEF Known
    <3>2. CASE m = sent + 1
      BY <2>3, <2>4, <3>2 DEF Known
    <3>3. QED
      BY <1>1, <3>1, <3>2
  <2>8. \A r \in running : r.n <= sent + 1
    BY <1>1, <2>1 DEF ShapeInv, CallbackAt
  <2>9. QED
    BY <1>1, <2>1, <2>5, <2>6, <2>7, <2>8 DEF EventInv
<1>20. ~SendsUpdate
  BY <1>0 DEF SendsUpdate
<1>21. CASE UNCHANGED vars
  BY <1>3, <1>21 DEF vars
<1>22. QED
  BY <1>6, <1>7, <1>8, <1>9, <1>10, <1>11, <1>12, <1>13, <1>14, <1>15, <1>16, <1>17, <1>18, <1>19, <1>20, <1>21
     DEF Next, Main, Reader, Callback, Server

-----------------------------------------------------------------------------
(* Done *)

\* More events are enough if fewer are.
LEMMA EnoughStays ==
  ASSUME ShapeInv, Enough(received)
  PROVE  Enough(received + 1)
<1>1. command \in Commands /\ received \in Nat
  BY DEF ShapeInv
<1>2. command.number \in Int
  BY <1>1, MidcltAssumption DEF MidcltAssumption
<1>3. QED
  BY <1>1, <1>2 DEF Enough

LEMMA StepClose == ShapeInv /\ CommandInv /\ EventInv /\ CloseInv /\ [Next]_vars => CloseInv'
<1> SUFFICES ASSUME ShapeInv, CommandInv, EventInv, CloseInv, [Next]_vars, command'.what = "subscribe"
             PROVE  CloseInv'
  BY DEF CloseInv
<1> USE DEF loginVars, serverVars, callbackVars, readerVars
<1>0. command.what = "subscribe" /\ UNCHANGED command
  BY CommandStays
<1>1. /\ closings \in {0, 1} /\ (closings > 0 => Enough(received))
      /\ \A r \in running : /\ r.at \in {"check", "close"} => Enough(received)
                            /\ r.at = "close" => closings = 0
  BY <1>0 DEF CloseInv
<1>2. \A q, r \in running : q = r
  BY <1>0 DEF EventInv
<1>3. ASSUME UNCHANGED <<received, closings>>, \A r \in running' : r \in running \/ r.at = "begin"
      PROVE  CloseInv'
  BY <1>0, <1>1, <1>3 DEF CloseInv, Enough
<1>4. CASE Start \/ Connect \/ Login \/ LoginReturns \/ Request \/ CallFails \/ ResultReturns \/ FinishBar \/ Select
  BY <1>3, <1>4 DEF Start, Connect, Login, LoginReturns, Request, CallFails, ResultReturns, FinishBar, Select, MainOnly
<1>5. ~OnUpdate
  BY <1>0 DEF OnUpdate, CommandInv
<1>6. ASSUME NEW r \in running, PrintEvent(r) PROVE CloseInv'
  <2>1. /\ r.at = "begin" /\ running = {r} /\ r \in CallbackAt
        /\ received' = received + 1 /\ UNCHANGED closings
    BY <1>2, <1>6 DEF PrintEvent, ShapeInv
  <2>2. \A q \in running' : q = [r EXCEPT !.at = "check"] /\ Enough(received + 1)
    BY <1>6, <2>1 DEF PrintEvent, CallbackGoes, CallbackEnds, Enough
  <2>3. \A q \in running' : q.at = "check" /\ Enough(received + 1)
    BY <2>1, <2>2 DEF CallbackAt
  <2>4. closings > 0 => Enough(received + 1)
    BY <1>1, EnoughStays
  <2>5. Enough(received)' <=> Enough(received + 1)
    BY <1>0, <2>1 DEF Enough
  <2>6. QED
    BY <1>1, <2>1, <2>3, <2>4, <2>5 DEF CloseInv
<1>7. ASSUME NEW r \in running, CheckDone(r) PROVE CloseInv'
  <2>1. r.at = "check" /\ running = {r} /\ r \in CallbackAt /\ UNCHANGED <<received, closings>>
    BY <1>2, <1>7 DEF CheckDone, ShapeInv
  <2>2. \A q \in running' : q = [r EXCEPT !.at = "close"] /\ closings = 0
    BY <1>7, <2>1 DEF CheckDone, CallbackGoes, CallbackEnds
  <2>3. Enough(received)' /\ closings' \in {0, 1}
    BY <1>0, <1>1, <2>1 DEF Enough
  <2>4. QED
    BY <2>1, <2>2, <2>3 DEF CloseInv
<1>8. ASSUME NEW r \in running, CloseDone(r) PROVE CloseInv'
  <2>1. /\ r.at = "close" /\ running = {r} /\ running' = {} /\ closings' = closings + 1 /\ UNCHANGED received
    BY <1>2, <1>8 DEF CloseDone, CallbackEnds
  <2>2. closings' = 1 /\ Enough(received)'
    BY <1>0, <1>1, <2>1 DEF Enough
  <2>3. QED
    BY <2>1, <2>2 DEF CloseInv
<1>9. ASSUME NEW r \in running PROVE ~(UpdateBar(r) \/ PrintStatus(r) \/ StoreStatus(r))
  BY <1>0 DEF UpdateBar, PrintStatus, StoreStatus, CommandInv
<1>10. CASE ReadAnswer \/ ReadEvent \/ ReadUpdate \/ ReadEnd
  <2>1. UNCHANGED <<received, closings>>
    BY <1>10 DEF ReadAnswer, ReadEvent, ReadUpdate, ReadEnd, Reads
  <2>2. \A r \in running' : r \in running \/ r.at = "begin"
    BY <1>10 DEF ReadAnswer, ReadEvent, ReadUpdate, ReadEnd
  <2>3. QED
    BY <1>3, <2>1, <2>2
<1>11. CASE ConnectionLost
  BY <1>3, <1>11 DEF ConnectionLost
<1>12. CASE LoginActs \/ LoginEnds \/ Server
  BY <1>3, <1>12 DEF LoginActs, LoginEnds, Server, Serves, Answers, SendsEvent, EndsSubscription, SendsUpdate, ServerOnly
<1>13. CASE UNCHANGED vars
  BY <1>3, <1>13 DEF vars
<1>14. QED
  BY <1>4, <1>5, <1>6, <1>7, <1>8, <1>9, <1>10, <1>11, <1>12, <1>13 DEF Next, Main, Reader, Callback

-----------------------------------------------------------------------------
(* Ends *)

LEMMA StepEnd == ShapeInv /\ CommandInv /\ UpdateInv /\ EndInv /\ [Next]_vars => EndInv'
<1> SUFFICES ASSUME ShapeInv, CommandInv, UpdateInv, EndInv, [Next]_vars PROVE EndInv'
  OBVIOUS
<1> USE DEF loginVars, serverVars, callbackVars, readerVars
<1>1. /\ terminated # None => ending = terminated
      /\ finished = "clean" => ending = "clean"
      /\ request = "yes" /\ command.what \in {"ping", "call"} => ending = "clean"
      /\ finished # None /\ up => ending \in {"clean", "error"} /\ \A i \in DOMAIN inbox : inbox[i].kind # "update"
  BY DEF EndInv
<1>2. \A i \in DOMAIN inbox :
        /\ inbox[i] \in Frame
        /\ inbox[i].kind = "end" => ending = inbox[i].ending
        /\ inbox[i].kind = "update" /\ inbox[i].ending # None => ending = inbox[i].ending
        /\ inbox[i].kind = "answer" /\ inbox[i].ok /\ command.what \in {"ping", "call"} => ending = "clean"
  BY EveryElement DEF EndInv, ShapeInv
<1>3. ASSUME UNCHANGED <<command, up, request, inbox, ending, terminated, finished>> PROVE EndInv'
  BY <1>3 DEF EndInv
<1>4. CASE Start \/ Login \/ LoginReturns \/ CallFails \/ OnUpdate \/ ResultReturns \/ FinishBar \/ Select
  BY <1>3, <1>4 DEF Start, Login, LoginReturns, CallFails, OnUpdate, ResultReturns, FinishBar, Select, MainOnly
<1>5. CASE Connect
  <2>1. finished = None /\ UNCHANGED <<command, request, inbox, ending, terminated, finished>>
    BY <1>5 DEF Connect, MainOnly, CommandInv
  <2>2. QED
    BY <1>1, <1>2, <2>1 DEF EndInv
<1>6. CASE Request
  <2>1. request' # "yes"
    <3>1. command \in Commands
      BY DEF ShapeInv
    <3>2. command.what # "yes"
      BY <3>1, MidcltAssumption DEF MidcltAssumption
    <3>3. QED
      BY <1>6, <3>2 DEF Request, None
  <2>2. UNCHANGED <<command, up, inbox, ending, terminated, finished>>
    BY <1>6 DEF Request, MainOnly
  <2>3. QED
    BY <1>1, <1>2, <2>1, <2>2 DEF EndInv
<1>7. ASSUME NEW r \in running, Callback(r) PROVE EndInv'
  BY <1>3, <1>7 DEF Callback, PrintEvent, CheckDone, CloseDone, UpdateBar, PrintStatus, StoreStatus, CallbackOnly
<1>8. ASSUME NEW kind, Reads(kind)
      PROVE  /\ up /\ Head(inbox) = inbox[1] /\ 1 \in DOMAIN inbox /\ inbox[1].kind = kind
             /\ \A i \in DOMAIN inbox' : i \in Nat /\ 1 < i + 1 /\ i + 1 \in DOMAIN inbox /\ inbox'[i] = inbox[i + 1]
             /\ UNCHANGED <<command, up, request, ending>>
  <2>1. UNCHANGED <<command, up, request, ending>>
    BY <1>8 DEF Reads
  <2>2. QED
    BY <1>8, <2>1, ReadsFirst
<1>9. CASE ReadAnswer \/ ReadEvent
  <2>1. PICK kind \in {"answer", "event"} : Reads(kind) /\ UNCHANGED <<terminated, finished>>
    BY <1>9 DEF ReadAnswer, ReadEvent
  <2>2. QED
    BY <1>1, <1>2, <1>8, <2>1 DEF EndInv
<1>10. CASE ReadUpdate
  <2>1. Reads("update") /\ UNCHANGED terminated /\ finished' = inbox[1].ending
    BY <1>8, <1>10 DEF ReadUpdate
  <2>2. command.what = "job"
    BY <1>8, <2>1 DEF CommandInv
  <2>3. finished' # None => ending = finished'
    BY <1>2, <1>8, <2>1
  <2>4. finished' \in {None, "clean", "error"}
    BY <1>2, <1>8, <2>1, FrameKinds
  <2>5. ASSUME finished' # None, NEW i \in DOMAIN inbox' PROVE inbox'[i].kind # "update"
    BY <1>8, <2>1, <2>2, <2>5 DEF UpdateInv
  <2>6. QED
    BY <1>1, <1>2, <1>8, <2>1, <2>3, <2>4, <2>5 DEF EndInv
<1>11. CASE ReadEnd
  <2>1. Reads("end") /\ UNCHANGED finished /\ terminated' = inbox[1].ending
    BY <1>8, <1>11 DEF ReadEnd
  <2>2. ending = terminated'
    BY <1>2, <1>8, <2>1
  <2>3. QED
    BY <1>1, <1>2, <1>8, <2>1, <2>2 DEF EndInv
<1>12. CASE ConnectionLost
  <2>1. DOMAIN inbox' = {} /\ request' # "yes" /\ ~up'
    BY <1>12, EmptySeq DEF ConnectionLost, None
  <2>2. (finished' = "clean" => finished = "clean") /\ UNCHANGED <<command, ending, terminated>>
    BY <1>12 DEF ConnectionLost
  <2>3. QED
    BY <1>1, <2>1, <2>2 DEF EndInv
<1>13. CASE LoginActs \/ LoginEnds
  BY <1>3, <1>13 DEF LoginActs, LoginEnds, ServerOnly
<1>14. CASE Serves
  <2>1. up /\ request = command.what /\ ending = None /\ DOMAIN inbox = {}
    BY <1>14, EmptySeq DEF Serves, CommandInv, Serving
  <2>2. terminated = None /\ finished = None
    BY <1>1, <2>1 DEF None
  <2>3. request' = "yes" /\ command.what \in {"ping", "call"} => ending' = "clean"
    BY <1>14, <2>1 DEF Serves
  <2>4. UNCHANGED <<command, inbox, terminated, finished>>
    BY <1>14 DEF Serves, ServerOnly
  <2>5. QED
    BY <2>1, <2>2, <2>3, <2>4 DEF EndInv, None
<1>15. CASE Answers
  <2>1. /\ request' = None /\ up
        /\ UNCHANGED <<command, up, ending, terminated, finished>>
    BY <1>15 DEF Answers, ServerOnly
  <2>2. PICK b \in BOOLEAN : inbox' = Append(inbox, [kind |-> "answer", ok |-> b]) /\ (b => request = "yes")
    BY <1>15 DEF Answers
  <2> DEFINE f == [kind |-> "answer", ok |-> b]
  <2>3. f \in Frame /\ f.kind = "answer" /\ (f.ok => request = "yes") /\ inbox' = Append(inbox, f)
    BY <2>2 DEF Frame
  <2> HIDE DEF f
  <2>4. \A i \in DOMAIN inbox' : (i \in DOMAIN inbox /\ inbox'[i] = inbox[i]) \/ inbox'[i] = f
    BY <2>3, SendsLast
  <2>5. request' # "yes"
    BY <2>1 DEF None
  <2>6. QED
    BY <1>1, <1>2, <2>1, <2>3, <2>4, <2>5 DEF EndInv
<1>16. ASSUME ending = "open", up
       PROVE  /\ terminated = None /\ finished = None
              /\ command.what \in {"ping", "call"} => request # "yes"
              /\ \A i \in DOMAIN inbox :
                   /\ inbox[i].kind # "end"
                   /\ inbox[i].kind = "update" => inbox[i].ending = None
                   /\ ~(inbox[i].kind = "answer" /\ inbox[i].ok /\ command.what \in {"ping", "call"})
  BY <1>1, <1>2, <1>16, FrameKinds DEF ShapeInv
<1>17. CASE SendsEvent
  <2>1. ending = "open" /\ up /\ UNCHANGED <<command, up, request, ending, terminated, finished>>
    BY <1>17 DEF SendsEvent, ServerOnly
  <2>2. PICK n \in 1..MaxEvents : inbox' = Append(inbox, [kind |-> "event", n |-> n])
    BY <1>17, MidcltAssumption DEF SendsEvent, ShapeInv, MidcltAssumption
  <2> DEFINE f == [kind |-> "event", n |-> n]
  <2>3. f \in Frame /\ f.kind = "event" /\ inbox' = Append(inbox, f)
    BY <2>2 DEF Frame
  <2> HIDE DEF f
  <2>4. \A i \in DOMAIN inbox' : (i \in DOMAIN inbox /\ inbox'[i] = inbox[i]) \/ inbox'[i] = f
    BY <2>3, SendsLast
  <2>5. QED
    BY <1>1, <1>2, <1>16, <2>1, <2>3, <2>4 DEF EndInv
<1>18. CASE EndsSubscription
  <2>1. ending = "open" /\ up /\ UNCHANGED <<command, up, request, terminated, finished>>
    BY <1>18 DEF EndsSubscription, ServerOnly
  <2>2. PICK e \in {"clean", "error"} : e = ending' /\ inbox' = Append(inbox, [kind |-> "end", ending |-> e])
    BY <1>18 DEF EndsSubscription
  <2> DEFINE f == [kind |-> "end", ending |-> e]
  <2>3. f \in Frame /\ f.kind = "end" /\ f.ending = ending' /\ inbox' = Append(inbox, f)
    BY <2>2 DEF Frame
  <2> HIDE DEF f
  <2>4. \A i \in DOMAIN inbox' : (i \in DOMAIN inbox /\ inbox'[i] = inbox[i]) \/ inbox'[i] = f
    BY <2>3, SendsLast
  <2>5. finished' # "clean"
    BY <1>16, <2>1 DEF None
  <2>6. QED
    BY <1>16, <2>1, <2>3, <2>4, <2>5 DEF EndInv
<1>19. CASE SendsUpdate
  <2>1. /\ ending = "open" /\ up /\ sent + 1 \in 1..MaxEvents
        /\ UNCHANGED <<command, up, request, terminated, finished>>
    BY <1>19, MidcltAssumption DEF SendsUpdate, ServerOnly, ShapeInv, MidcltAssumption
  <2>2. PICK n \in 1..MaxEvents, e \in {None, "clean", "error"} :
          (e # None => e = ending') /\ inbox' = Append(inbox, [kind |-> "update", n |-> n, ending |-> e])
    BY <1>19, <2>1 DEF SendsUpdate
  <2> DEFINE f == [kind |-> "update", n |-> n, ending |-> e]
  <2>3. f \in Frame /\ f.kind = "update" /\ (f.ending # None => f.ending = ending') /\ inbox' = Append(inbox, f)
    BY <2>2 DEF Frame
  <2> HIDE DEF f
  <2>4. \A i \in DOMAIN inbox' : (i \in DOMAIN inbox /\ inbox'[i] = inbox[i]) \/ inbox'[i] = f
    BY <2>3, SendsLast
  <2>5. finished' # "clean"
    BY <1>16, <2>1 DEF None
  <2>6. QED
    BY <1>16, <2>1, <2>3, <2>4, <2>5 DEF EndInv
<1>20. CASE UNCHANGED vars
  BY <1>3, <1>20 DEF vars
<1>21. QED
  BY <1>4, <1>5, <1>6, <1>7, <1>9, <1>10, <1>11, <1>12, <1>13, <1>14, <1>15, <1>17, <1>18, <1>19, <1>20
     DEF Next, Main, Reader, Server

-----------------------------------------------------------------------------
(* Updates *)

LEMMA StepUpdate == ShapeInv /\ CommandInv /\ EndInv /\ UpdateInv /\ [Next]_vars => UpdateInv'
<1> SUFFICES ASSUME ShapeInv, CommandInv, EndInv, UpdateInv, [Next]_vars, command'.what = "job"
             PROVE  UpdateInv'
  BY DEF UpdateInv
<1> USE DEF loginVars, serverVars, callbackVars, readerVars
<1>0. command.what = "job" /\ UNCHANGED command
  BY CommandStays
<1>1. /\ latest <= sent /\ lastDesc <= latest /\ latest \in Nat /\ lastDesc \in Nat /\ sent \in Nat
      /\ \A r \in running : r.n <= latest /\ r.n \in Nat
      /\ ~registered => printed = <<>>
  BY <1>0 DEF UpdateInv, ShapeInv, CallbackAt
<1>2. \A i \in DOMAIN inbox : inbox[i].kind = "update" =>
        /\ latest < inbox[i].n /\ inbox[i].n <= sent
        /\ \A k \in DOMAIN inbox : i < k /\ inbox[k].kind = "update" =>
             inbox[i].n < inbox[k].n /\ inbox[i].ending = None
  BY <1>0 DEF UpdateInv
<1>3. \A i \in DOMAIN inbox : i \in Nat /\ inbox[i] \in Frame /\ (inbox[i].kind = "update" => inbox[i].n \in Nat)
  BY EveryElement, FrameKinds DEF ShapeInv
<1>4. /\ \A i \in DOMAIN printed : printed[i] <= latest /\ printed[i] \in Nat
      /\ \A i, k \in DOMAIN printed : printed[i] = printed[k] => i = k
      /\ \A r \in running : r.at = "begin" => \A i \in DOMAIN printed : printed[i] # r.n
  <2>1. \A i \in DOMAIN printed : printed[i] \in 1..MaxEvents
    BY EveryElement DEF ShapeInv
  <2>2. QED
    BY <1>0, <2>1 DEF UpdateInv
<1>5. ASSUME UNCHANGED <<latest, sent, lastDesc, running, inbox, registered, printed>> PROVE UpdateInv'
  BY <1>1, <1>2, <1>4, <1>5 DEF UpdateInv
<1>6. ASSUME NEW kind, Reads(kind)
      PROVE  /\ Head(inbox) = inbox[1] /\ 1 \in DOMAIN inbox /\ inbox[1].kind = kind
             /\ \A i \in DOMAIN inbox' : i \in Nat /\ 1 < i + 1 /\ i + 1 \in DOMAIN inbox /\ inbox'[i] = inbox[i + 1]
             /\ UNCHANGED <<sent, lastDesc, registered, printed>>
  <2>1. UNCHANGED <<sent, lastDesc, registered, printed>>
    BY <1>6 DEF Reads
  <2>2. QED
    BY <1>6, <2>1, ReadsFirst
<1>7. ASSUME NEW f \in Frame, f.kind # "update", inbox' = Append(inbox, f),
             UNCHANGED <<latest, sent, lastDesc, running, registered, printed>>
      PROVE  UpdateInv'
  <2>1. \A i \in DOMAIN inbox' : inbox'[i].kind = "update" => i \in DOMAIN inbox /\ inbox'[i] = inbox[i]
    BY <1>7, SendsLast
  <2>2. QED
    BY <1>1, <1>2, <1>4, <1>7, <2>1 DEF UpdateInv
<1>8. CASE Start \/ Connect \/ Login \/ LoginReturns \/ Request \/ CallFails \/ ResultReturns \/ FinishBar \/ Select
  BY <1>5, <1>8 DEF Start, Connect, Login, LoginReturns, Request, CallFails, ResultReturns, FinishBar, Select, MainOnly
<1>9. CASE OnUpdate
  <2>1. printed = <<>> /\ UNCHANGED <<latest, sent, lastDesc, inbox, printed>> /\ registered'
    BY <1>1, <1>9 DEF OnUpdate, MainOnly, CommandInv
  <2>2. \A r \in running' : r \in running \/ r.n = latest
    BY <1>9 DEF OnUpdate, Replay
  <2>3. DOMAIN printed = {}
    BY <2>1, EmptySeq
  <2>4. \A r \in running' : r.n <= latest
    BY <1>1, <2>2
  <2>5. QED
    BY <1>1, <1>2, <2>1, <2>3, <2>4 DEF UpdateInv
<1>10. ASSUME NEW r \in running PROVE ~(PrintEvent(r) \/ CheckDone(r) \/ CloseDone(r))
  BY <1>0 DEF PrintEvent, CheckDone, CloseDone, CommandInv
<1>11. ASSUME NEW r \in running, UpdateBar(r) PROVE UpdateInv'
  <2>1. running' \subseteq running /\ UNCHANGED <<latest, sent, lastDesc, inbox, registered, printed>>
    BY <1>11 DEF UpdateBar, CallbackEnds, CallbackOnly
  <2>2. QED
    BY <1>1, <1>2, <1>4, <2>1 DEF UpdateInv
<1>12. ASSUME NEW r \in running, PrintStatus(r) PROVE UpdateInv'
  <2>1. /\ r.at = "begin" /\ r \in CallbackAt /\ registered /\ r.n \in 1..MaxEvents
        /\ UNCHANGED <<latest, sent, lastDesc, inbox, registered>>
    BY <1>0, <1>12 DEF PrintStatus, CallbackOnly, CommandInv, ShapeInv, CallbackAt
  <2>2. running' = (running \ {r}) \cup {[r EXCEPT !.at = "store"]}
    BY <1>12 DEF PrintStatus, CallbackGoes
  <2>3. \A q \in running' : q.n <= latest /\ (q.at = "begin" => q \in running /\ q # r)
    BY <1>1, <2>1, <2>2 DEF CallbackAt
  <2>4. \A q \in running' : q.at = "begin" => q.n # r.n
    BY <2>1, <2>3 DEF ShapeInv, CallbackAt
  <2>5. \/ printed' = printed
        \/ /\ printed' = Append(printed, r.n)
           /\ DOMAIN printed' = 1..(Len(printed) + 1) /\ DOMAIN printed = 1..Len(printed) /\ Len(printed) \in Nat
           /\ \A i \in DOMAIN printed : printed'[i] = printed[i]
           /\ printed'[Len(printed) + 1] = r.n
    <3>1. /\ printed \in Seq(1..MaxEvents) /\ Append(printed, r.n) \in Seq(1..MaxEvents)
          /\ Len(Append(printed, r.n)) = Len(printed) + 1
          /\ \A i \in 1..Len(printed) : Append(printed, r.n)[i] = printed[i]
          /\ Append(printed, r.n)[Len(printed) + 1] = r.n
      BY <2>1, AppendProperties DEF ShapeInv
    <3>2. DOMAIN Append(printed, r.n) = 1..(Len(printed) + 1) /\ DOMAIN printed = 1..Len(printed) /\ Len(printed) \in Nat
      BY <3>1, EveryElement
    <3>3. QED
      BY <1>12, <3>1, <3>2 DEF PrintStatus
  <2>6. \A i \in DOMAIN printed' : (i \in DOMAIN printed /\ printed'[i] = printed[i]) \/ printed'[i] = r.n
    BY <2>5
  <2>7. \A i, k \in DOMAIN printed' : printed'[i] = printed'[k] => i = k
    <3>1. CASE printed' = printed
      BY <1>4, <3>1
    <3>2. CASE printed' # printed
      BY <1>4, <2>1, <2>5, <3>2
    <3>3. QED
      BY <3>1, <3>2
  <2>8. \A i \in DOMAIN printed' : printed'[i] <= latest
    BY <1>1, <1>4, <2>6
  <2>9. ASSUME NEW q \in running', q.at = "begin", NEW i \in DOMAIN printed' PROVE printed'[i] # q.n
    BY <1>4, <2>3, <2>4, <2>6, <2>9
  <2>10. QED
    BY <1>1, <1>2, <2>1, <2>3, <2>7, <2>8, <2>9 DEF UpdateInv
<1>13. ASSUME NEW r \in running, StoreStatus(r) PROVE UpdateInv'
  <2>1. /\ running' \subseteq running /\ lastDesc' \in {0, r.n}
        /\ UNCHANGED <<latest, sent, inbox, registered, printed>>
    BY <1>13 DEF StoreStatus, Given, CallbackEnds, CallbackOnly
  <2>2. QED
    BY <1>1, <1>2, <1>4, <2>1 DEF UpdateInv
<1>14. CASE ReadAnswer \/ ReadEnd
  <2>1. PICK kind \in {"answer", "end"} : Reads(kind) /\ UNCHANGED <<running, latest>>
    BY <1>14 DEF ReadAnswer, ReadEnd
  <2>2. QED
    BY <1>1, <1>2, <1>3, <1>4, <1>6, <2>1 DEF UpdateInv
<1>15. ~ReadEvent
  <2>1. SUFFICES ASSUME Reads("event") PROVE FALSE
    BY DEF ReadEvent
  <2>2. QED
    BY <1>0, <1>6, <2>1 DEF CommandInv
<1>16. CASE ReadUpdate
  <2>1. Reads("update") /\ latest' = inbox[1].n
    BY <1>6, <1>16 DEF ReadUpdate
  <2>2. latest < latest' /\ latest' <= sent /\ latest' \in Nat
    BY <1>2, <1>3, <1>6, <2>1
  <2>3. \A r \in running' : r \in running \/ (r.n = latest' /\ r.at = "begin")
    BY <1>16, <1>6, <2>1 DEF ReadUpdate
  <2>4. \A r \in running' : r.n <= latest'
    BY <1>1, <2>2, <2>3
  <2>5. \A i \in DOMAIN inbox' : inbox'[i].kind = "update" =>
          /\ latest' < inbox'[i].n /\ inbox'[i].n <= sent
          /\ \A k \in DOMAIN inbox' : i < k /\ inbox'[k].kind = "update" =>
               inbox'[i].n < inbox'[k].n /\ inbox'[i].ending = None
    BY <1>2, <1>3, <1>6, <2>1
  <2>6. \A i \in DOMAIN printed : printed[i] <= latest' /\ printed[i] # latest'
    BY <1>1, <1>4, <2>2
  <2>7. \A r \in running' : r.at = "begin" => \A i \in DOMAIN printed : printed[i] # r.n
    BY <1>4, <2>3, <2>6
  <2>8. lastDesc <= latest'
    BY <1>1, <2>2
  <2>9. QED
    BY <1>1, <1>4, <1>6, <2>1, <2>2, <2>4, <2>5, <2>6, <2>7, <2>8 DEF UpdateInv
<1>17. CASE ConnectionLost
  <2>1. DOMAIN inbox' = {} /\ UNCHANGED <<latest, sent, lastDesc, running, registered, printed>>
    BY <1>17, EmptySeq DEF ConnectionLost
  <2>2. QED
    BY <1>1, <1>4, <2>1 DEF UpdateInv
<1>18. CASE LoginActs \/ LoginEnds \/ Serves
  BY <1>5, <1>18 DEF LoginActs, LoginEnds, Serves, ServerOnly
<1>19. CASE Answers
  <2>1. PICK b \in BOOLEAN : inbox' = Append(inbox, [kind |-> "answer", ok |-> b])
    BY <1>19 DEF Answers
  <2>2. [kind |-> "answer", ok |-> b] \in Frame
    BY DEF Frame
  <2>3. QED
    BY <1>7, <1>19, <2>1, <2>2 DEF Answers, ServerOnly
<1>20. ~SendsEvent /\ ~EndsSubscription
  BY <1>0 DEF SendsEvent, EndsSubscription
<1>21. CASE SendsUpdate
  <2>1. /\ ending = "open" /\ sent' = sent + 1 /\ sent + 1 \in 1..MaxEvents
        /\ UNCHANGED <<latest, lastDesc, running, registered, printed>>
    BY <1>21, MidcltAssumption DEF SendsUpdate, ServerOnly, ShapeInv, MidcltAssumption
  <2>2. PICK n \in 1..MaxEvents, e \in {None, "clean", "error"} :
          n = sent + 1 /\ inbox' = Append(inbox, [kind |-> "update", n |-> n, ending |-> e])
    BY <1>21, <2>1 DEF SendsUpdate
  <2> DEFINE f == [kind |-> "update", n |-> n, ending |-> e]
  <2>3. f \in Frame /\ f.kind = "update" /\ f.n = sent + 1 /\ inbox' = Append(inbox, f)
    BY <2>2 DEF Frame
  <2> HIDE DEF f
  <2>4. /\ \A i \in DOMAIN inbox' : \/ i \in DOMAIN inbox /\ i <= Len(inbox) /\ inbox'[i] = inbox[i]
                                    \/ i = Len(inbox) + 1 /\ inbox'[i] = f
        /\ Len(inbox) \in Nat
    BY <2>3, SendsLast
  <2>5. \A i \in DOMAIN inbox : inbox[i].kind = "update" => inbox[i].ending = None
    BY <1>3, <2>1, FrameKinds DEF EndInv
  <2>6. \A i \in DOMAIN inbox' : inbox'[i].kind = "update" => latest < inbox'[i].n /\ inbox'[i].n <= sent + 1
    BY <1>1, <1>2, <1>3, <2>3, <2>4
  <2>7. ASSUME NEW i \in DOMAIN inbox', NEW k \in DOMAIN inbox', i < k, inbox'[i].kind = "update",
               inbox'[k].kind = "update"
        PROVE  inbox'[i].n < inbox'[k].n /\ inbox'[i].ending = None
    <3>1. i \in DOMAIN inbox /\ inbox'[i] = inbox[i] /\ inbox[i].n <= sent /\ inbox[i].n \in Nat
      BY <1>2, <1>3, <2>4, <2>7
    <3>2. CASE k \in DOMAIN inbox /\ inbox'[k] = inbox[k]
      BY <1>2, <2>7, <3>1, <3>2
    <3>3. CASE inbox'[k] = f
      BY <1>1, <2>3, <2>5, <2>7, <3>1, <3>3
    <3>4. QED
      BY <2>4, <3>2, <3>3
  <2>8. latest <= sent + 1
    BY <1>1
  <2>9. QED
    BY <1>1, <1>4, <2>1, <2>6, <2>7, <2>8 DEF UpdateInv
<1>22. CASE UNCHANGED vars
  BY <1>5, <1>22 DEF vars
<1>23. QED
  BY <1>8, <1>9, <1>10, <1>11, <1>12, <1>13, <1>14, <1>15, <1>16, <1>17, <1>18, <1>19, <1>20, <1>21, <1>22
     DEF Next, Main, Reader, Callback, Server

-----------------------------------------------------------------------------
(* Exit codes *)

\* Whoever gets past the login has had it accepted, or did not need it.
LEMMA StepAccepted == ShapeInv /\ CommandInv /\ Accepted /\ [Next]_vars => Accepted'
<1> SUFFICES ASSUME ShapeInv, CommandInv, Accepted, [Next]_vars PROVE Accepted'
  OBVIOUS
<1> USE DEF loginVars, serverVars, callbackVars, readerVars
<1>0. UNCHANGED command
  BY CommandStays
<1>1. ASSUME UNCHANGED <<pc, code>>, UNCHANGED result \/ pc = "login" PROVE Accepted'
  BY <1>0, <1>1 DEF Accepted, LogsIn, LoggedIn
<1>2. CASE Start
  BY <1>0, <1>2 DEF Start, Goes, Exits, Accepted
<1>3. CASE Connect
  <2>1. \/ pc' = "login"
        \/ pc' = "request" /\ ~LogsIn
        \/ pc' = "exited" /\ code' = 1
    BY <1>3 DEF Connect, Goes, Exits, LogsIn
  <2>2. LogsIn' <=> LogsIn
    BY <1>0 DEF LogsIn
  <2>3. QED
    BY <2>1, <2>2 DEF Accepted
<1>4. CASE Login
  BY <1>1, <1>4 DEF Login
<1>5. CASE LoginReturns
  <2>1. \/ pc' = "request" /\ LoggedIn /\ UNCHANGED result
        \/ pc' = "exited" /\ code' = 1
    BY <1>5 DEF LoginReturns, LoggedIn, Goes, Exits
  <2>2. QED
    BY <2>1 DEF Accepted, LoggedIn
<1>6. CASE Request \/ CallFails \/ OnUpdate \/ ResultReturns \/ FinishBar \/ Select \/ ReadAnswer
  <2>1. /\ UNCHANGED result
        /\ \/ UNCHANGED <<pc, code>>
           \/ pc \in {"request", "waiting", "onUpdate", "result", "finish", "select"}
    BY <1>6 DEF Request, CallFails, OnUpdate, ResultReturns, FinishBar, Select, ReadAnswer, Reads
  <2>2. QED
    BY <1>0, <1>1, <2>1 DEF Accepted, LogsIn, LoggedIn
<1>7. CASE ReadEvent \/ ReadUpdate \/ ReadEnd
  BY <1>1, <1>7 DEF ReadEvent, ReadUpdate, ReadEnd, Reads
<1>8. ASSUME NEW r \in running, Callback(r) PROVE Accepted'
  <2>1. UNCHANGED <<pc, code, result>>
    BY <1>8 DEF Callback, PrintEvent, CheckDone, CloseDone, UpdateBar, PrintStatus, StoreStatus, CallbackOnly
  <2>2. QED
    BY <1>1, <2>1
<1>9. CASE ConnectionLost
  BY <1>1, <1>9 DEF ConnectionLost
<1>10. CASE LoginActs \/ LoginEnds
  <2>1. pc = "login" /\ UNCHANGED <<pc, code>>
    BY <1>10 DEF LoginActs, LoginEnds, ServerOnly
  <2>2. QED
    BY <1>1, <2>1
<1>11. CASE Server
  BY <1>1, <1>11 DEF Server, Serves, Answers, SendsEvent, EndsSubscription, SendsUpdate, ServerOnly
<1>12. CASE UNCHANGED vars
  BY <1>1, <1>12 DEF vars
<1>13. QED
  BY <1>2, <1>3, <1>4, <1>5, <1>6, <1>7, <1>8, <1>9, <1>10, <1>11, <1>12 DEF Next, Main, Reader

LEMMA StepEarned ==
  ShapeInv /\ CommandInv /\ CloseInv /\ EndInv /\ Earned /\ [Next]_vars => Earned'
<1> SUFFICES ASSUME ShapeInv, CommandInv, CloseInv, EndInv, Earned, [Next]_vars PROVE Earned'
  OBVIOUS
<1> USE DEF loginVars, serverVars, callbackVars, readerVars
<1>0. UNCHANGED command /\ command.number \in Int /\ received \in Nat
  <2>1. command \in Commands /\ received \in Nat
    BY DEF ShapeInv
  <2>2. QED
    BY <2>1, CommandStays, MidcltAssumption DEF MidcltAssumption
<1>1. ASSUME UNCHANGED <<pc, code>>, ending = "clean" => ending' = "clean", received' \in Nat, received <= received'
      PROVE  Earned'
  BY <1>0, <1>1 DEF Earned
<1>2. CASE Start
  BY <1>0, <1>2 DEF Start, Goes, Exits, Earned
<1>3. CASE Connect \/ Login \/ LoginReturns \/ Request \/ CallFails \/ OnUpdate
  <2>1. pc' # "exited" \/ code' = 1
    <3>1. CASE Connect
      BY <3>1 DEF Connect, LogsIn, Goes, Exits
    <3>2. CASE Login \/ Request \/ CallFails \/ OnUpdate
      BY <3>2 DEF Login, Request, CallFails, OnUpdate, Goes, Exits
    <3>3. CASE LoginReturns
      BY <3>3 DEF LoginReturns, LoggedIn, Goes, Exits
    <3>4. QED
      BY <1>3, <3>1, <3>2, <3>3
  <2>2. QED
    BY <2>1 DEF Earned
<1>4. CASE ResultReturns \/ FinishBar
  <2>1. UNCHANGED <<ending, finished>> /\ (pc' = "exited" /\ code' = 0 => finished = "clean")
    BY <1>4 DEF ResultReturns, FinishBar, MainOnly, Goes, Exits
  <2>2. QED
    BY <2>1 DEF Earned, EndInv
<1>5. CASE Select
  <2>1. UNCHANGED <<ending, received>> /\ command.what = "subscribe"
    BY <1>5 DEF Select, MainOnly, CommandInv
  <2>2. CASE code' # 0
    BY <2>2 DEF Earned
  <2>3. CASE closings > 0
    <3>1. Enough(received)
      BY <2>1, <2>3 DEF CloseInv
    <3>2. command.number \in 1..received
      BY <1>0, <3>1 DEF Enough
    <3>3. QED
      BY <1>0, <2>1, <3>2 DEF Earned
  <2>4. CASE terminated # None /\ terminated # "error"
    <3>1. ending = "clean"
      BY <2>4 DEF EndInv, ShapeInv
    <3>2. QED
      BY <2>1, <3>1 DEF Earned
  <2>5. QED
    BY <1>5, <2>2, <2>3, <2>4 DEF Select, Exits
<1>6. CASE ReadAnswer
  <2>1. UNCHANGED <<ending, received>> /\ Reads("answer")
    BY <1>6 DEF ReadAnswer, Reads
  <2>2. CASE pc # "waiting"
    BY <1>0, <1>1, <1>6, <2>1, <2>2 DEF ReadAnswer
  <2>3. CASE pc = "waiting" /\ ~Head(inbox).ok
    BY <1>6, <2>3 DEF ReadAnswer, Exits, Earned
  <2>4. CASE pc = "waiting" /\ Head(inbox).ok /\ command.what \in {"job", "subscribe"}
    BY <1>6, <2>4 DEF ReadAnswer, Goes, Earned
  <2>5. CASE Head(inbox).ok /\ command.what \in {"ping", "call"}
    <3>1. Head(inbox) = inbox[1] /\ 1 \in DOMAIN inbox /\ Head(inbox).kind = "answer"
      BY <2>1, ReadsFirst
    <3>2. ending = "clean"
      BY <2>5, <3>1 DEF EndInv
    <3>3. QED
      BY <2>1, <3>2 DEF Earned
  <2>6. CASE command.what = "usage"
    BY <1>0, <2>6 DEF Earned
  <2>7. command.what \in {"usage", "ping", "call", "job", "subscribe"}
    <3>1. command \in Commands
      BY DEF ShapeInv
    <3>2. QED
      BY <3>1, MidcltAssumption DEF MidcltAssumption
  <2>8. QED
    BY <2>2, <2>3, <2>4, <2>5, <2>6, <2>7
<1>7. CASE ReadEvent \/ ReadUpdate \/ ReadEnd
  BY <1>0, <1>1, <1>7 DEF ReadEvent, ReadUpdate, ReadEnd, Reads
<1>8. ASSUME NEW r \in running, Callback(r) PROVE Earned'
  <2>1. UNCHANGED <<pc, code, ending>>
    BY <1>8 DEF Callback, PrintEvent, CheckDone, CloseDone, UpdateBar, PrintStatus, StoreStatus, CallbackOnly
  <2>2. received' = received \/ received' = received + 1
    BY <1>8 DEF Callback, PrintEvent, CheckDone, CloseDone, UpdateBar, PrintStatus, StoreStatus
  <2>3. QED
    BY <1>0, <1>1, <2>1, <2>2
<1>9. CASE ConnectionLost
  BY <1>0, <1>1, <1>9 DEF ConnectionLost
<1>10. CASE LoginActs \/ LoginEnds
  BY <1>0, <1>1, <1>10 DEF LoginActs, LoginEnds, ServerOnly
<1>11. CASE Server
  <2>1. UNCHANGED <<pc, code, received>>
    BY <1>11 DEF Server, Serves, Answers, SendsEvent, EndsSubscription, SendsUpdate, ServerOnly
  <2>2. Serves => ending = None
    BY DEF Serves, CommandInv, Serving
  <2>3. ending = "clean" => ending' = "clean"
    BY <1>11, <2>2 DEF Server, Answers, SendsEvent, EndsSubscription, SendsUpdate, None
  <2>4. QED
    BY <1>0, <1>1, <2>1, <2>3
<1>12. CASE UNCHANGED vars
  BY <1>0, <1>1, <1>12 DEF vars
<1>13. QED
  BY <1>2, <1>3, <1>4, <1>5, <1>6, <1>7, <1>8, <1>9, <1>10, <1>11, <1>12 DEF Next, Main, Reader

-----------------------------------------------------------------------------
(* The progress bar *)

LEMMA StepBar == ShapeInv /\ CommandInv /\ EndInv /\ BarInv /\ [Next]_vars => BarInv'
<1> SUFFICES ASSUME ShapeInv, CommandInv, EndInv, BarInv, [Next]_vars PROVE BarInv'
  OBVIOUS
<1> USE DEF loginVars, serverVars, callbackVars, readerVars
<1>0. UNCHANGED command
  BY CommandStays
<1>1. /\ bar.used => registered /\ command.bar
      /\ pc = "finish" => finished # None
      /\ pc = "exited" /\ registered /\ command.bar => finished # None
      /\ pc = "exited" /\ registered /\ command.bar /\ ~late => running = {} /\ bar.percentage = Full
  BY DEF BarInv
<1>2. ASSUME UNCHANGED <<pc, finished, bar, registered, late>>, running = {} => running' = {} PROVE BarInv'
  BY <1>0, <1>1, <1>2 DEF BarInv, Full
<1>3. CASE Start \/ Connect \/ LoginReturns \/ CallFails \/ Select
  <2>1. ~registered /\ UNCHANGED <<bar, registered>> /\ pc' # "finish"
    <3>1. ~registered
      BY <1>3 DEF Start, Connect, LoginReturns, CallFails, Select, CommandInv
    <3>2. UNCHANGED <<bar, registered>>
      BY <1>3 DEF Start, Connect, LoginReturns, CallFails, Select
    <3>3. pc' # "finish"
      BY <1>3 DEF Start, Connect, LogsIn, LoginReturns, LoggedIn, CallFails, Select, Goes, Exits
    <3>4. QED
      BY <3>1, <3>2, <3>3
  <2>2. QED
    BY <1>0, <1>1, <2>1 DEF BarInv
<1>4. CASE Login \/ Request
  <2>1. ~registered /\ UNCHANGED <<bar, registered>> /\ pc' \notin {"finish", "exited"}
    BY <1>4 DEF Login, Request, Goes, CommandInv
  <2>2. QED
    BY <1>0, <1>1, <2>1 DEF BarInv
<1>5. CASE OnUpdate
  <2>1. registered' /\ UNCHANGED bar /\ pc' = "result"
    BY <1>5 DEF OnUpdate, Goes
  <2>2. QED
    BY <1>0, <1>1, <2>1 DEF BarInv
<1>6. CASE ResultReturns
  <2>1. /\ finished # None /\ UNCHANGED <<bar, registered, finished>>
        /\ (command.bar => pc' = "finish")
    BY <1>6 DEF ResultReturns, Goes, MainOnly
  <2>2. QED
    BY <1>0, <1>1, <2>1 DEF BarInv
<1>7. CASE FinishBar
  <2>1. /\ finished # None /\ UNCHANGED <<registered, finished, running>>
        /\ bar' = [bar EXCEPT !.percentage = Full] /\ late' = (running # {}) /\ pc' = "exited"
    BY <1>1, <1>7 DEF FinishBar, Filled, Exits, MainOnly
  <2>2. bar'.used = bar.used /\ bar'.percentage = Full
    BY <2>1 DEF ShapeInv
  <2>3. QED
    BY <1>0, <1>1, <2>1, <2>2 DEF BarInv, Full
<1>8. ASSUME NEW r \in running, UpdateBar(r) PROVE BarInv'
  <2>1. registered /\ command.bar
    BY <1>8 DEF UpdateBar, CommandInv
  <2>2. UNCHANGED <<pc, finished, registered, late>>
    BY <1>8 DEF UpdateBar, CallbackOnly
  <2>3. running # {}
    BY <1>8
  <2>4. QED
    BY <1>0, <1>1, <2>1, <2>2, <2>3 DEF BarInv
<1>9. ASSUME NEW r \in running, Callback(r), ~UpdateBar(r) PROVE BarInv'
  <2>1. UNCHANGED <<pc, finished, registered, late, bar>>
    BY <1>9 DEF Callback, PrintEvent, CheckDone, CloseDone, PrintStatus, StoreStatus, CallbackOnly
  <2>2. QED
    BY <1>2, <2>1
<1>10. CASE ReadAnswer
  <2>1. UNCHANGED <<bar, registered, running, finished, late>>
    BY <1>10 DEF ReadAnswer, Reads
  <2>2. CASE pc # "waiting"
    BY <1>2, <1>10, <2>1, <2>2 DEF ReadAnswer
  <2>3. CASE pc = "waiting"
    <3>1. ~registered /\ pc' # "finish"
      BY <1>10, <2>3 DEF CommandInv, ReadAnswer, Goes, Exits
    <3>2. QED
      BY <1>0, <1>1, <2>1, <3>1 DEF BarInv
  <2>4. QED
    BY <2>2, <2>3
<1>11. ASSUME NEW kind, Reads(kind)
       PROVE  /\ UNCHANGED <<bar, registered, late>> /\ up
              /\ \E k \in DOMAIN inbox : inbox[k].kind = kind
  <2>1. UNCHANGED <<bar, registered, late>>
    BY <1>11 DEF Reads
  <2>2. QED
    BY <1>11, <2>1, ReadsFirst
<1>12. CASE ReadEvent
  <2>1. Reads("event") /\ UNCHANGED <<pc, finished>>
    BY <1>12 DEF ReadEvent
  <2>2. ~registered
    BY <1>11, <2>1 DEF CommandInv
  <2>3. QED
    BY <1>0, <1>1, <1>11, <2>1, <2>2 DEF BarInv
<1>13. CASE ReadUpdate
  <2>1. Reads("update") /\ UNCHANGED pc
    BY <1>13 DEF ReadUpdate
  <2>2. finished = None
    BY <1>11, <2>1 DEF EndInv
  <2>3. QED
    BY <1>0, <1>1, <1>11, <2>1, <2>2 DEF BarInv
<1>14. CASE ReadEnd
  BY <1>2, <1>14 DEF ReadEnd, Reads
<1>15. CASE ConnectionLost
  <2>1. UNCHANGED <<pc, bar, registered, late, running>> /\ (finished # None => finished' # None)
    BY <1>15 DEF ConnectionLost
  <2>2. QED
    BY <1>0, <1>1, <2>1 DEF BarInv, Full
<1>16. CASE LoginActs \/ LoginEnds \/ Server
  BY <1>2, <1>16 DEF LoginActs, LoginEnds, Server, Serves, Answers, SendsEvent, EndsSubscription, SendsUpdate, ServerOnly
<1>17. CASE UNCHANGED vars
  BY <1>2, <1>17 DEF vars
<1>18. QED
  BY <1>3, <1>4, <1>5, <1>6, <1>7, <1>8, <1>9, <1>10, <1>12, <1>13, <1>14, <1>15, <1>16, <1>17
     DEF Next, Main, Reader

-----------------------------------------------------------------------------
(* Theorems *)

\* All of it, which is inductive.
RunInv ==
  /\ ShapeInv /\ CommandInv /\ EventInv /\ CloseInv /\ UpdateInv /\ EndInv
  /\ Accepted /\ Earned /\ BarInv

LEMMA RunInvHolds == Spec => []RunInv
<1>1. Init => RunInv
  <2> SUFFICES ASSUME Init PROVE RunInv
    OBVIOUS
  <2>1. ShapeInv
    BY InitShape
  <2>2. DOMAIN inbox = {} /\ DOMAIN printed = {} /\ Len(printed) = 0 /\ running = {}
    BY EmptySeq DEF Init
  <2>3. /\ pc = "start" /\ ~up /\ request = None /\ ending = None /\ sent = 0 /\ inbox = <<>> /\ printed = <<>>
        /\ received = 0 /\ closings = 0 /\ latest = 0 /\ lastDesc = 0 /\ terminated = None /\ finished = None
        /\ ~registered /\ ~bar.used
    BY DEF Init
  <2>4. CommandInv
    BY <2>2, <2>3 DEF CommandInv, Serving, None
  <2>5. EventInv /\ CloseInv /\ UpdateInv
    BY <2>2, <2>3 DEF EventInv, CloseInv, UpdateInv
  <2>6. EndInv /\ Accepted /\ Earned /\ BarInv
    BY <2>2, <2>3 DEF EndInv, Accepted, Earned, BarInv, None
  <2>7. QED
    BY <2>1, <2>4, <2>5, <2>6 DEF RunInv
<1>2. RunInv /\ [Next]_vars => RunInv'
  BY StepShape, StepCommand, StepEvent, StepClose, StepUpdate, StepEnd, StepAccepted, StepEarned, StepBar DEF RunInv
<1>3. QED
  BY <1>1, <1>2, PTL DEF Spec

\* A sequence without repetitions into 1..n is no longer than n.
LEMMA NoLonger ==
  ASSUME NEW n \in Nat, NEW q \in Seq(Nat), \A i \in DOMAIN q : q[i] \in 1..n,
         \A i, k \in DOMAIN q : q[i] = q[k] => i = k
  PROVE  Len(q) <= n
<1>1. Len(q) \in Nat /\ DOMAIN q = 1..Len(q)
  BY EveryElement
<1>2. ASSUME NEW k \in Nat PROVE IsFiniteSet(1..k) /\ Cardinality(1..k) = k
  <2>1. IsFiniteSet(1..k) /\ Cardinality(1..k) = IF 1 > k THEN 0 ELSE k - 1 + 1
    BY FS_Interval
  <2>2. QED
    BY <2>1
<1>3. CASE Len(q) > n
  <2>1. /\ IsFiniteSet(1..Len(q)) /\ Cardinality(1..Len(q)) = Len(q)
        /\ IsFiniteSet(1..n) /\ Cardinality(1..n) = n
    BY <1>1, <1>2
  <2>2. PICK f \in [1..Len(q) -> 1..n] : \A i \in 1..Len(q) : f[i] = q[i]
    <3>1. [i \in 1..Len(q) |-> q[i]] \in [1..Len(q) -> 1..n]
      BY <1>1
    <3>2. QED
      BY <3>1
  <2>3. \E i, k \in 1..Len(q) : i # k /\ f[i] = f[k]
    <3>1. Cardinality(1..n) < Cardinality(1..Len(q))
      BY <1>3, <2>1
    <3>2. \A S, T : IsFiniteSet(S) /\ IsFiniteSet(T) /\ Cardinality(T) < Cardinality(S) =>
            \A g \in [S -> T] : \E x, y \in S : x # y /\ g[x] = g[y]
      BY FS_PigeonHole, Zenon
    <3> DEFINE S == 1..Len(q)
               T == 1..n
    <3>3. IsFiniteSet(S) /\ IsFiniteSet(T) /\ Cardinality(T) < Cardinality(S) /\ f \in [S -> T]
      BY <2>1, <2>2, <3>1
    <3> HIDE DEF S, T
    <3>4. \E x, y \in S : x # y /\ f[x] = f[y]
      BY <3>2, <3>3, Zenon
    <3>5. QED
      BY <3>4 DEF S
  <2>4. QED
    BY <1>1, <2>2, <2>3
<1>4. QED
  BY <1>1, <1>3

\* The types of all variables, among them that no callback, no line and no count
\* stands for an event that the server has not sent.
THEOREM TypeCorrect == Spec => []TypeOK
<1>1. RunInv => TypeOK
  <2> SUFFICES ASSUME RunInv PROVE TypeOK
    OBVIOUS
  <2>1. ShapeInv /\ CommandInv /\ EventInv /\ UpdateInv
    BY DEF RunInv
  <2>2. command \in Commands /\ received \in Nat /\ sent \in Nat /\ latest \in Nat /\ lastDesc \in Nat
    BY <2>1 DEF ShapeInv
  <2>3. ASSUME NEW r \in running PROVE r.n \in 1..sent /\ r.at \in {"begin", "check", "close", "store"}
    <3>1. r.n \in 1..MaxEvents /\ r.at \in {"begin", "check", "close", "store"}
      BY <2>1 DEF ShapeInv, CallbackAt
    <3>2. command.what \in {"job", "subscribe"}
      BY <2>1, <3>1 DEF CommandInv
    <3>3. r.n <= sent
      BY <2>1, <2>2, <3>1, <3>2 DEF EventInv, UpdateInv
    <3>4. QED
      BY <2>2, <3>1, <3>3
  <2>4. Len(printed) <= sent
    <3>1. CASE command.what = "subscribe"
      BY <2>1, <3>1 DEF EventInv
    <3>2. CASE command.what = "job"
      <4>1. printed \in Seq(Nat) /\ \A i \in DOMAIN printed : printed[i] \in 1..MaxEvents /\ printed[i] <= latest
        <5>1. printed \in Seq(1..MaxEvents)
          BY <2>1 DEF ShapeInv
        <5>2. \A i \in DOMAIN printed : printed[i] \in 1..MaxEvents
          BY <5>1, EveryElement
        <5>3. DOMAIN printed = 1..Len(printed) /\ Len(printed) \in Nat
          BY <5>1, EveryElement
        <5>4. printed \in Seq(Nat)
          BY <5>1, <5>2, <5>3
        <5>5. QED
          BY <2>1, <3>2, <5>2, <5>4 DEF UpdateInv
      <4>2. latest <= sent /\ \A i, k \in DOMAIN printed : printed[i] = printed[k] => i = k
        BY <2>1, <3>2 DEF UpdateInv
      <4>3. \A i \in DOMAIN printed : printed[i] \in 1..sent
        BY <2>2, <4>1, <4>2
      <4>4. QED
        BY <2>2, <4>1, <4>2, <4>3, NoLonger
    <3>3. CASE command.what \notin {"subscribe", "job"}
      <4>1. Len(printed) = 0
        BY <2>1, <3>3, EmptySeq DEF CommandInv
      <4>2. QED
        BY <2>2, <4>1
    <3>4. QED
      BY <3>1, <3>2, <3>3
  <2>5. received <= sent /\ latest \in 0..sent /\ lastDesc \in 0..sent
    BY <2>1, <2>2 DEF CommandInv, EventInv, UpdateInv
  <2>6. bar.percentage \in 0..Full /\ bar.used \in BOOLEAN
    BY <2>1 DEF ShapeInv
  <2>7. QED
    BY <2>1, <2>3, <2>4, <2>5, <2>6 DEF ShapeInv, TypeOK
<1>2. QED
  BY <1>1, RunInvHolds, PTL

\* runSubscribe closes done at most once, whatever the number of events and
\* however they come: closing it again would end the program with a panic.
THEOREM DoneIsClosedOnce == Spec => []NoDoubleClose
<1>1. RunInv => NoDoubleClose
  BY DEF RunInv, CloseInv, CommandInv, NoDoubleClose
<1>2. QED
  BY <1>1, RunInvHolds, PTL

\* Events are printed in the order the server has sent them, each once.
THEOREM EventsArePrintedInOrder == Spec => []EventsInOrder
<1>1. RunInv => EventsInOrder
  BY DEF RunInv, EventInv, EventsInOrder
<1>2. QED
  BY <1>1, RunInvHolds, PTL

\* A run that exits with 0 has had the server do what was asked, or its number
\* of events, after its login had worked.
THEOREM ZeroMeansDone == Spec => []ExitIsEarned
<1>1. RunInv => ExitIsEarned
  BY DEF RunInv, Accepted, Earned, LogsIn, LoggedIn, ExitIsEarned
<1>2. QED
  BY <1>1, RunInvHolds, PTL

\* The bar is left full unless a callback was still on its way.
THEOREM BarIsLeftFull == Spec => []BarEndsFull
<1>1. RunInv => BarEndsFull
  BY DEF RunInv, BarInv, BarEndsFull
<1>2. QED
  BY <1>1, RunInvHolds, PTL
=============================================================================
