------------------------------- MODULE Client -------------------------------
(***************************************************************************)
(* The call/response core of the JSON-RPC client (client.go): one reader   *)
(* goroutine dispatching the frames of one websocket connection, any       *)
(* number of goroutines inside callRaw, one ConnectContext and one Close.  *)
(*                                                                         *)
(* A member of Calls is one execution of callRaw and, at the same time,    *)
(* the fresh request id (uuid.NewString) it draws.  Payloads are reduced   *)
(* to what decides a verdict: a result, an error, or a job id.  Frames     *)
(* that dispatch only logs, or passes to subscriptions, are left out.      *)
(***************************************************************************)
EXTENDS Naturals, Sequences, FiniteSets

CONSTANTS Calls,      \* executions of callRaw, by their request ids
          Contexts,   \* the contexts calls are made with: "bounded" by a deadline,
              \* or "unbounded"
          MaxFrames   \* bound on the frames the server sends

ASSUME ClientAssumption ==
  /\ Contexts \subseteq {"bounded", "unbounded"}
  /\ MaxFrames \in Nat

VARIABLES
  sock,       \* the connection: "up", "lost" by the peer, "closed" locally
  inbox,      \* frames on their way to the reader, oldest first
  frames,     \* how many frames the server has sent
  received,   \* requests the server has received
  answers,    \* history: the answers the server sent to each request
  mode,       \* the server's answer to core.set_options, "unset" before it
  cpc,        \* program counter of ConnectContext
  connected,  \* Client.connected is closed
  setOptions, \* Client.setOptionsCall is not nil
  newStyle,   \* Client.newStyleJobs
  pc,         \* program counter of each callRaw
  ctx,        \* state of each call's context
  outcome,    \* what each callRaw returns
  calls,      \* Client.calls
  slot,       \* call.result or call.err, whichever has been set
  returned,   \* call.returned is closed
  closeErr,   \* Client.closeErr: "none", or what set it first
  rpc,        \* program counter of the reader goroutine
  ids,        \* message_ids of the job update in hand still to look up
  owed,       \* calls the reader took out of Client.calls and must close
  owedAs,     \* what it will put into them
  wake,       \* broadcastError found setOptionsCall pending
  xpc         \* program counter of Close

envVars    == <<sock, inbox, frames, received, answers, mode>>
connVars   == <<cpc, connected, setOptions, newStyle>>
callerVars == <<pc, ctx, outcome>>
tableVars  == <<calls, slot, returned, closeErr>>
readerVars == <<rpc, ids, owed, owedAs, wake>>
vars == <<envVars, connVars, callerVars, tableVars, readerVars, xpc>>

Answer  == {"result", "error", "jobid"}
Slot    == Answer \cup {"none", "aborted"}
GaveUp  == {"timeout", "canceled", "sendFailed"}
Outcome == Slot \cup GaveUp

Frame == [kind : {"response"}, id : Calls, body : {"result", "error"}]
           \cup [kind : {"job"}, ids : SUBSET Calls]
           \cup [kind : {"options"}, mode : {"legacy", "new", "failed"}]
           \cup [kind : {"global"}]

EnvTypes ==
  /\ sock \in {"up", "lost", "closed"}
  /\ inbox \in Seq(Frame)
  /\ frames \in 0..MaxFrames
  /\ received \subseteq Calls
  /\ answers \in [Calls -> SUBSET Answer]
  /\ mode \in {"unset", "legacy", "new", "failed"}

ConnTypes ==
  /\ cpc \in {"sending", "waiting", "checking", "ready", "failed"}
  /\ connected \in BOOLEAN
  /\ setOptions \in BOOLEAN
  /\ newStyle \in BOOLEAN
  /\ xpc \in {"idle", "control", "close", "wait", "done"}

CallerTypes ==
  /\ pc \in [Calls -> {"idle", "locking", "writing", "waiting", "leaving", "done"}]
  /\ ctx \in [Calls -> Contexts \cup {"timeout", "canceled"}]
  /\ outcome \in [Calls -> Outcome]

TableTypes ==
  /\ calls \subseteq Calls
  /\ slot \in [Calls -> Slot]
  /\ returned \in [Calls -> BOOLEAN]
  /\ closeErr \in {"none", "global", "closed"}

ReaderTypes ==
  /\ rpc \in {"off", "read", "ids", "answer", "abort", "closing", "exited"}
  /\ ids \subseteq Calls
  /\ owed \subseteq Calls
  /\ owedAs \in Slot
  /\ wake \in BOOLEAN

TypeOK == EnvTypes /\ ConnTypes /\ CallerTypes /\ TableTypes /\ ReaderTypes

\* ConnectContext has dialled and published setOptionsCall.
Init ==
  /\ sock = "up" /\ inbox = <<>> /\ frames = 0 /\ received = {}
  /\ answers = [c \in Calls |-> {}] /\ mode = "unset"
  /\ cpc = "sending" /\ connected = FALSE /\ setOptions = TRUE /\ newStyle = FALSE
  /\ pc = [c \in Calls |-> "idle"]
  /\ ctx \in [Calls -> Contexts]
  /\ outcome = [c \in Calls |-> "none"]
  /\ calls = {} /\ closeErr = "none"
  /\ slot = [c \in Calls |-> "none"]
  /\ returned = [c \in Calls |-> FALSE]
  /\ rpc = "off" /\ ids = {} /\ owed = {} /\ owedAs = "none" /\ wake = FALSE
  /\ xpc = "idle"

-----------------------------------------------------------------------------
(* Wrong forms of definitions below.  No specification uses them: each one  *)
(* stands for a plausible mistake, and shows which property would catch it. *)

\* The connection error is not consulted before the client is handed out.
ConnectCheckSkipped ==
  /\ cpc = "checking"
  /\ cpc' = "ready"
  /\ UNCHANGED <<envVars, connected, setOptions, newStyle, callerVars, tableVars,
                 readerVars, xpc>>

\* No timer and no context bound the handshake.
ConnectGivesUpNever == FALSE /\ UNCHANGED vars

\* registerCall does not look at closeErr.
RegisterUnchecked(c) ==
  /\ cpc = "ready" /\ pc[c] = "idle"
  /\ pc' = [pc EXCEPT ![c] = "locking"]
  /\ calls' = calls \cup {c}
  /\ UNCHANGED <<envVars, connVars, ctx, outcome, slot, returned, closeErr,
                 readerVars, xpc>>

\* wait ignores its context.
WaitEndedNever(c) == FALSE /\ UNCHANGED vars

\* callRaw returns without unregistering its call.
UnregisterForgotten(c) ==
  /\ pc[c] = "leaving"
  /\ pc' = [pc EXCEPT ![c] = "done"]
  /\ UNCHANGED <<envVars, connVars, ctx, outcome, tableVars, readerVars, xpc>>

\* The call is completed but stays in the table.
TakeAndKeep(id, body) ==
  /\ owed' = calls \cap {id} /\ owedAs' = body
  /\ UNCHANGED calls

\* Whatever is pending is completed, not the call with this id.
TakeAny(id, body) ==
  /\ owed' = calls /\ owedAs' = body
  /\ calls' = {}

\* The call is given the whole message instead of its result.
TakeMessage(id, body) ==
  /\ owed' = calls \cap {id} /\ owedAs' = "message"
  /\ calls' = calls \ {id}

\* An answer is stored, but returned is closed for connection errors only.
ResolveSilently(c) ==
  /\ rpc \in {"answer", "abort", "closing"} /\ c \in owed
  /\ slot' = [slot EXCEPT ![c] = owedAs]
  /\ returned' = [returned EXCEPT ![c] = (rpc # "answer")]
  /\ owed' = owed \ {c}
  /\ rpc' = IF rpc # "answer" THEN rpc ELSE IF ids = {} THEN "read" ELSE "ids"
  /\ UNCHANGED <<envVars, connVars, callerVars, calls, closeErr, ids, owedAs, wake, xpc>>

\* broadcastError clears the table before it collects the pending calls.
PendingLost == {}

\* broadcastError fails the pending calls without setting closeErr.
RecordForgotten(err) == UNCHANGED closeErr

-----------------------------------------------------------------------------
(* ConnectContext *)

\* The core.set_options request is written and the reader started.
ConnectSend ==
  /\ cpc = "sending" /\ sock # "closed"
  /\ cpc' = "waiting" /\ rpc' = "read"
  /\ UNCHANGED <<envVars, connected, setOptions, newStyle, callerVars, tableVars,
                 ids, owed, owedAs, wake, xpc>>

\* The write fails: ConnectContext closes the connection, no reader exists.
ConnectSendFails ==
  /\ cpc = "sending" /\ sock # "up"
  /\ cpc' = "failed" /\ sock' = "closed"
  /\ UNCHANGED <<inbox, frames, received, answers, mode, connected, setOptions,
                 newStyle, callerVars, tableVars, readerVars, xpc>>

\* <-c.connected
ConnectWakes ==
  /\ cpc = "waiting" /\ connected
  /\ cpc' = "checking"
  /\ UNCHANGED <<envVars, connected, setOptions, newStyle, callerVars, tableVars,
                 readerVars, xpc>>

\* The 30 s timer, or the context of ConnectContext.
ConnectGivesUp ==
  /\ cpc = "waiting"
  /\ cpc' = "failed" /\ sock' = "closed"
  /\ UNCHANGED <<inbox, frames, received, answers, mode, connected, setOptions,
                 newStyle, callerVars, tableVars, readerVars, xpc>>

\* The handshake may have been ended by a lost connection instead of an answer.
ConnectCheck ==
  /\ cpc = "checking"
  /\ \/ closeErr = "none" /\ cpc' = "ready" /\ UNCHANGED sock
     \/ closeErr # "none" /\ cpc' = "failed" /\ sock' = "closed"
  /\ UNCHANGED <<inbox, frames, received, answers, mode, connected, setOptions,
                 newStyle, callerVars, tableVars, readerVars, xpc>>

-----------------------------------------------------------------------------
(* callRaw: registerCall, send, wait, and the deferred unregisterCall *)

\* registerCall.  After closeErr is set the call is completed on the spot and
\* never enters the table, but callRaw goes on to send it all the same.
Register(c) ==
  /\ cpc = "ready" /\ pc[c] = "idle"
  /\ pc' = [pc EXCEPT ![c] = "locking"]
  /\ \/ /\ closeErr = "none"
        /\ calls' = calls \cup {c}
        /\ UNCHANGED <<slot, returned>>
     \/ /\ closeErr # "none"
        /\ slot' = [slot EXCEPT ![c] = "aborted"]
        /\ returned' = [returned EXCEPT ![c] = TRUE]
        /\ UNCHANGED calls
  /\ UNCHANGED <<envVars, connVars, ctx, outcome, closeErr, readerVars, xpc>>

\* writeMu, held by a writer or by Close around its close frame.
WriteFree == xpc # "control" /\ \A d \in Calls : pc[d] # "writing"

\* The close frame went out: gorilla/websocket refuses every later write.
CloseSent == xpc \in {"close", "wait", "done"}

Leave(c, why) ==
  /\ pc' = [pc EXCEPT ![c] = "leaving"]
  /\ outcome' = [outcome EXCEPT ![c] = why]

\* The parameters do not encode; send returns before it takes writeMu.
EncodeFails(c) ==
  /\ pc[c] = "locking"
  /\ Leave(c, "sendFailed")
  /\ UNCHANGED <<envVars, connVars, ctx, tableVars, readerVars, xpc>>

WriteLock(c) ==
  /\ pc[c] = "locking" /\ WriteFree
  /\ pc' = [pc EXCEPT ![c] = "writing"]
  /\ UNCHANGED <<envVars, connVars, ctx, outcome, tableVars, readerVars, xpc>>

\* WriteMessage returns: the server has the request, or the kernel took it
\* for a peer that is gone, or the write failed.
WriteDone(c) ==
  /\ pc[c] = "writing"
  /\ \/ /\ sock = "up" /\ ~CloseSent
        /\ received' = received \cup {c}
        /\ pc' = [pc EXCEPT ![c] = "waiting"]
        /\ UNCHANGED outcome
     \/ /\ sock = "lost" /\ ~CloseSent
        /\ pc' = [pc EXCEPT ![c] = "waiting"]
        /\ UNCHANGED <<received, outcome>>
     \/ /\ sock # "up" \/ CloseSent
        /\ Leave(c, "sendFailed")
        /\ UNCHANGED received
  /\ UNCHANGED <<sock, inbox, frames, answers, mode, connVars, ctx, tableVars,
                 readerVars, xpc>>

\* wait: the two ready cases of its select race.
WaitReturned(c) ==
  /\ pc[c] = "waiting" /\ returned[c]
  /\ Leave(c, slot[c])
  /\ UNCHANGED <<envVars, connVars, ctx, tableVars, readerVars, xpc>>

WaitEnded(c) ==
  /\ pc[c] = "waiting" /\ ctx[c] \in {"timeout", "canceled"}
  /\ Leave(c, ctx[c])
  /\ UNCHANGED <<envVars, connVars, ctx, tableVars, readerVars, xpc>>

Unregister(c) ==
  /\ pc[c] = "leaving"
  /\ pc' = [pc EXCEPT ![c] = "done"]
  /\ calls' = calls \ {c}
  /\ UNCHANGED <<envVars, connVars, ctx, outcome, slot, returned, closeErr,
                 readerVars, xpc>>

\* The context of a call in progress ends, by its deadline or its owner.
ContextEnds(c, how) ==
  /\ pc[c] \in {"locking", "writing", "waiting"} /\ ctx[c] \in Contexts
  /\ how = "timeout" => ctx[c] = "bounded"
  /\ ctx' = [ctx EXCEPT ![c] = how]
  /\ UNCHANGED <<envVars, connVars, pc, outcome, tableVars, readerVars, xpc>>

-----------------------------------------------------------------------------
(* readLoop and dispatch, on the reader goroutine *)

\* ReadMessage yields the oldest frame.
Reads(kind) ==
  /\ rpc = "read" /\ inbox # <<>> /\ Head(inbox).kind = kind
  /\ inbox' = Tail(inbox)
  /\ UNCHANGED <<sock, frames, received, answers, mode>>

\* Under mu, the call with this id leaves the table and becomes the reader's
\* to complete.  Nothing is taken when the table does not have it.
Take(id, body) ==
  /\ owed' = calls \cap {id} /\ owedAs' = body
  /\ calls' = calls \ {id}

\* dispatchResponse; a response nobody waits for is dropped.
ReadResponse ==
  /\ Reads("response")
  /\ Take(Head(inbox).id, Head(inbox).body)
  /\ rpc' = IF Head(inbox).id \in calls THEN "answer" ELSE "read"
  /\ UNCHANGED <<connVars, callerVars, slot, returned, closeErr, ids, wake, xpc>>

\* finishHandshake, when the handshake has not been ended by an error before.
ReadOptions ==
  /\ Reads("options")
  /\ IF setOptions
       THEN /\ newStyle' = (Head(inbox).mode = "new")
            /\ setOptions' = FALSE /\ connected' = TRUE
       ELSE UNCHANGED <<newStyle, setOptions, connected>>
  /\ UNCHANGED <<cpc, callerVars, tableVars, readerVars, xpc>>

\* handleCollectionUpdate for an added or changed core.get_jobs event.
ReadJobUpdate ==
  /\ Reads("job")
  /\ LET f == Head(inbox) IN
     \/ newStyle /\ f.ids # {} /\ ids' = f.ids /\ rpc' = "ids"
     \/ ~(newStyle /\ f.ids # {}) /\ UNCHANGED <<ids, rpc>>
  /\ UNCHANGED <<connVars, callerVars, tableVars, owed, owedAs, wake, xpc>>

\* One message id is looked up, under its own acquisition of mu.
TakeJobId(c) ==
  /\ rpc = "ids" /\ c \in ids
  /\ ids' = ids \ {c}
  /\ Take(c, "jobid")
  /\ rpc' = IF c \in calls THEN "answer" ELSE IF ids' = {} THEN "read" ELSE "ids"
  /\ UNCHANGED <<envVars, connVars, callerVars, slot, returned, closeErr, wake, xpc>>

\* broadcastError's critical section empties the table.
Pending == calls

Record(err) == closeErr' = IF closeErr = "none" THEN err ELSE closeErr

Broadcast(err, next) ==
  /\ Record(err)
  /\ owed' = Pending /\ owedAs' = "aborted"
  /\ calls' = {}
  /\ wake' = setOptions /\ setOptions' = FALSE
  /\ rpc' = next
  /\ UNCHANGED <<cpc, connected, newStyle, callerVars, slot, returned, ids, xpc>>

\* An error response with a null id: the connection itself stays open.
ReadGlobalError == Reads("global") /\ Broadcast("global", "abort")

\* ReadMessage fails and onClose broadcasts.  Frames still in flight are lost.
ReadFails ==
  /\ rpc = "read" /\ sock # "up"
  /\ Broadcast("closed", "closing")
  /\ UNCHANGED envVars

\* call.result or call.err is set and call.returned closed, outside mu.
Resolve(c) ==
  /\ rpc \in {"answer", "abort", "closing"} /\ c \in owed
  /\ slot' = [slot EXCEPT ![c] = owedAs]
  /\ returned' = [returned EXCEPT ![c] = TRUE]
  /\ owed' = owed \ {c}
  /\ rpc' = IF rpc # "answer" THEN rpc ELSE IF ids = {} THEN "read" ELSE "ids"
  /\ UNCHANGED <<envVars, connVars, callerVars, calls, closeErr, ids, owedAs, wake, xpc>>

\* The rest of broadcastError; onClose then closes Client.closed.
BroadcastDone ==
  /\ rpc \in {"abort", "closing"} /\ owed = {}
  /\ connected' = (connected \/ wake)
  /\ wake' = FALSE
  /\ rpc' = IF rpc = "closing" THEN "exited" ELSE "read"
  /\ UNCHANGED <<envVars, cpc, setOptions, newStyle, callerVars, tableVars,
                 ids, owed, owedAs, xpc>>

-----------------------------------------------------------------------------
(* Close *)

CloseLock ==
  /\ cpc = "ready" /\ xpc = "idle" /\ WriteFree
  /\ xpc' = "control"
  /\ UNCHANGED <<envVars, connVars, callerVars, tableVars, readerVars>>

\* WriteControl returns within a second, and writeMu is released.
CloseUnlock ==
  /\ xpc = "control"
  /\ xpc' = "close"
  /\ UNCHANGED <<envVars, connVars, callerVars, tableVars, readerVars>>

CloseConn ==
  /\ xpc = "close"
  /\ xpc' = "wait" /\ sock' = "closed"
  /\ UNCHANGED <<inbox, frames, received, answers, mode, connVars, callerVars,
                 tableVars, readerVars>>

\* The reader has exited, or one second has passed.
CloseReturns ==
  /\ xpc = "wait"
  /\ xpc' = "done"
  /\ UNCHANGED <<envVars, connVars, callerVars, tableVars, readerVars>>

-----------------------------------------------------------------------------
(* The server and the network *)

Send(f) ==
  /\ sock = "up" /\ frames < MaxFrames
  /\ frames' = frames + 1
  /\ inbox' = Append(inbox, f)
  /\ UNCHANGED <<sock, received, connVars, callerVars, tableVars, readerVars, xpc>>

\* A response to a request; the real result of a job may follow its job id.
ServerAnswers(c, body) ==
  /\ c \in received
  /\ Send([kind |-> "response", id |-> c, body |-> body])
  /\ answers' = [answers EXCEPT ![c] = @ \cup {body}]
  /\ UNCHANGED mode

\* A job update naming the requests that started or share the job.
ServerReportsJob(S) ==
  /\ Send([kind |-> "job", ids |-> S])
  /\ answers' = [c \in Calls |-> IF c \in S THEN answers[c] \cup {"jobid"} ELSE answers[c]]
  /\ UNCHANGED mode

ServerAnswersOptions(m) ==
  /\ cpc # "sending" /\ mode = "unset"
  /\ Send([kind |-> "options", mode |-> m])
  /\ mode' = m
  /\ UNCHANGED answers

\* An error that answers no request, such as a parse error.
ServerFails ==
  /\ Send([kind |-> "global"])
  /\ UNCHANGED <<answers, mode>>

\* The peer reboots, closes, or the network between breaks for good.
NetworkLoss ==
  /\ sock = "up"
  /\ sock' = "lost"
  /\ UNCHANGED <<inbox, frames, received, answers, mode, connVars, callerVars,
                 tableVars, readerVars, xpc>>

-----------------------------------------------------------------------------

Connector == ConnectSend \/ ConnectSendFails \/ ConnectWakes \/ ConnectGivesUp \/ ConnectCheck

CallerMoves(c) ==
  Register(c) \/ EncodeFails(c) \/ WriteLock(c) \/ WriteDone(c)
    \/ WaitReturned(c) \/ WaitEnded(c) \/ Unregister(c)

Reader ==
  \/ ReadResponse \/ ReadOptions \/ ReadJobUpdate \/ ReadGlobalError
  \/ ReadFails \/ BroadcastDone
  \/ \E c \in Calls : TakeJobId(c) \/ Resolve(c)

Closer == CloseLock \/ CloseUnlock \/ CloseConn \/ CloseReturns

Server ==
  \/ \E c \in Calls, body \in {"result", "error"} : ServerAnswers(c, body)
  \/ \E S \in SUBSET received : ServerReportsJob(S)
  \/ \E m \in {"legacy", "new", "failed"} : ServerAnswersOptions(m)
  \/ ServerFails

Next ==
  \/ Connector
  \/ \E c \in Calls : CallerMoves(c)
  \/ \E c \in Calls, how \in {"timeout", "canceled"} : ContextEnds(c, how)
  \/ Reader
  \/ Closer
  \/ Server
  \/ NetworkLoss

Spec == Init /\ [][Next]_vars

\* One callRaw after registerCall, and one Close after it has writeMu.
Finishes(c) == WaitReturned(c) \/ WaitEnded(c)
Closing == CloseUnlock \/ CloseConn \/ CloseReturns

\* Every goroutine that can run does; deadlines pass.
Scheduling ==
  /\ WF_vars(Connector) /\ WF_vars(Reader) /\ WF_vars(Closing)
  /\ \A c \in Calls :
       /\ WF_vars(WriteLock(c)) /\ WF_vars(Finishes(c)) /\ WF_vars(Unregister(c))
       /\ WF_vars(ContextEnds(c, "timeout"))

\* The peer keeps draining the socket, so that no write blocks for ever.
WritesReturn == \A c \in Calls : WF_vars(WriteDone(c))

\* Without that assumption only a connection that is gone ends a write.
LostWritesReturn == \A c \in Calls : WF_vars(sock # "up" /\ WriteDone(c))

FairSpec  == Spec /\ Scheduling /\ WritesReturn
StallSpec == Spec /\ Scheduling /\ LostWritesReturn

-----------------------------------------------------------------------------
(* Safety *)

Started(c) == pc[c] \in {"locking", "writing", "waiting"}

\* A call that has begun and has not been told anything is in the table or in
\* the reader's hands, whatever the order of registerCall, the responses and
\* broadcastError; and once the connection is recorded as dead nothing enters
\* the table again.  Without it a caller without deadline waits for ever.
NoStrandedCall ==
  /\ \A c \in Calls : Started(c) /\ ~returned[c] => c \in calls \cup owed
  /\ closeErr # "none" => calls = {}
  /\ rpc = "exited" => closeErr # "none" /\ owed = {}

\* call.returned has one closer: a call in the table or in the reader's hands
\* is never one that is closed already, nor in both places (a second close
\* panics the reader goroutine).
SingleCloser ==
  /\ calls \cap owed = {}
  /\ \A c \in calls \cup owed : ~returned[c]

\* A caller is handed an answer only if the server gave that answer to that
\* call, however responses, job updates and errors cross.
AnswerIsMine ==
  \A c \in Calls :
    /\ slot[c] \in Answer => slot[c] \in answers[c]
    /\ outcome[c] \in Answer => outcome[c] \in answers[c]

\* ConnectContext hands a client out only after the server's answer to
\* core.set_options has been applied, never on the wake-up a lost connection
\* causes, and the client then speaks the job protocol of that answer.
HandshakeAgreed ==
  cpc = "ready" => mode # "unset" /\ (newStyle <=> mode = "new")

\* The table holds calls in progress only: a call that ended by timeout,
\* cancellation or a failed write leaves nothing behind.
TableIsInFlight == \A c \in calls : pc[c] \notin {"idle", "done"}

\* callRaw keeps the promise of CallContract.  An answer the reader has taken
\* but not delivered is not yet the call's; a caller that gave up is settled
\* even if an answer still reaches its slot.
Phase(c) ==
  IF pc[c] = "idle" THEN "idle"
  ELSE IF ~Started(c) THEN "settled"
  ELSE IF ~returned[c] THEN "open"
  ELSE IF slot[c] = "aborted" THEN "doomed" ELSE "answered"

Verdict(c) ==
  IF ~Started(c) THEN outcome[c]
  ELSE IF returned[c] /\ slot[c] # "aborted" THEN slot[c] ELSE "none"

Contract == INSTANCE CallContract WITH
  phase   <- [c \in Calls |-> Phase(c)],
  verdict <- [c \in Calls |-> Verdict(c)],
  dead    <- (closeErr # "none")

Implements == Contract!Spec

-----------------------------------------------------------------------------
(* Liveness *)

\* CallTimeout: a call whose context has a deadline returns.
DeadlineBoundsCall == \A c \in Calls : (Started(c) /\ ctx[c] = "bounded") ~> pc[c] = "done"

\* A call the reader took an answer for returns, with or without a deadline.
TakenCallReturns == \A c \in Calls : (Started(c) /\ c \in owed) ~> pc[c] = "done"

\* Losing or closing the connection ends every call, deadline or not.
LossEndsCalls == \A c \in Calls : (Started(c) /\ sock # "up") ~> pc[c] = "done"

\* ConnectContext returns even when the server never answers.
ConnectReturns == <>(cpc \in {"ready", "failed"})

=============================================================================
