---------------------------- MODULE Subscriptions ---------------------------
(***************************************************************************)
(* Event subscriptions (subscription.go): goroutines in Subscribe and      *)
(* Unsubscribe, the reader goroutine that dispatches events and            *)
(* terminations, and the goroutines that run asynchronous callbacks.       *)
(*                                                                         *)
(* The two API calls go through callRaw.  Of its verdicts, which the       *)
(* module Client is about, only success and failure matter here, and a     *)
(* call may fail at any moment: timeout, send error, lost connection.      *)
(* Events are numbered in the order the server sends them.                 *)
(***************************************************************************)
EXTENDS Naturals, Sequences, FiniteSets

CONSTANTS Subs,        \* executions of Subscribe, by the subscription they make
          Names,       \* the collections, and the name "*" for all of them
          Wildcard,    \* that name
          SyncSubs,    \* the subscriptions with SubscribeOptions.Sync
          EndErrors,   \* whether the server ends subscriptions with an error
          MaxEvents    \* bound on the events the server sends

ASSUME SubscriptionsAssumption ==
  /\ Wildcard \in Names
  /\ SyncSubs \subseteq Subs
  /\ EndErrors \subseteq BOOLEAN
  /\ MaxEvents \in Nat

VARIABLES
  up,            \* the connection is up
  inbox,         \* frames on their way to the reader
  requests,      \* API calls on their way to the server
  serverSubs,    \* subscriptions the server serves
  ended,         \* history: subscriptions the server terminated
  audience,      \* history: for each event sent, the subscriptions it was for
  pc,            \* program counter of each Subscribe, then Unsubscribe
  subscriptions, \* Client.subscriptions, all the lists together
  name,          \* Subscription.name
  done,          \* Subscription.done is closed
  err,           \* Subscription.err is set
  rpc,           \* program counter of the reader goroutine
  targets,       \* the reader's snapshot of subscriptions still to serve
  frame,         \* the event or termination it serves them
  spawned,       \* callback goroutines that have not begun, with their event
  ran            \* history: the events each callback has begun with, in order

serverVars == <<requests, serverSubs, ended, audience>>
subVars    == <<name, done, err>>
readerVars == <<rpc, targets, frame>>
cbVars     == <<spawned, ran>>
vars == <<up, inbox, serverVars, pc, subscriptions, subVars, readerVars, cbVars>>

Frame == [kind : {"reply"}, op : {"subscribe", "unsubscribe"}, sub : Subs, ok : BOOLEAN]
           \cup [kind : {"event"}, name : Names, n : 1..MaxEvents]
           \cup [kind : {"end"}, name : Names, bad : BOOLEAN]
NoFrame == [kind |-> "none"]

TypeOK ==
  /\ up \in BOOLEAN
  /\ inbox \in Seq(Frame)
  /\ requests \subseteq {"subscribe", "unsubscribe"} \X Subs
  /\ serverSubs \subseteq Subs /\ ended \subseteq Subs
  /\ audience \in Seq(SUBSET Subs)
  /\ pc \in [Subs -> {"idle", "registered", "subscribe", "failed", "active",
                      "unsubscribe", "removing", "kept", "gone"}]
  /\ subscriptions \subseteq Subs
  /\ name \in [Subs -> Names]
  /\ done \in [Subs -> BOOLEAN] /\ err \in [Subs -> BOOLEAN]
  /\ rpc \in {"read", "deliver", "finish", "exited"}
  /\ targets \subseteq Subs
  /\ rpc \in {"deliver", "finish"} <=> targets # {}
  /\ frame \in Frame \cup {NoFrame}
  /\ spawned \subseteq Subs \X (1..MaxEvents)
  /\ ran \in [Subs -> Seq(1..MaxEvents)]

Init ==
  /\ up = TRUE /\ inbox = <<>>
  /\ requests = {} /\ serverSubs = {} /\ ended = {} /\ audience = <<>>
  /\ pc = [s \in Subs |-> "idle"]
  /\ subscriptions = {} /\ name = [s \in Subs |-> Wildcard]
  /\ done = [s \in Subs |-> FALSE] /\ err = [s \in Subs |-> FALSE]
  /\ rpc = "read" /\ targets = {} /\ frame = NoFrame
  /\ spawned = {} /\ ran = [s \in Subs |-> <<>>]

-----------------------------------------------------------------------------
(* Wrong forms of definitions below, which no specification uses. *)

\* removeSubscription takes the first subscription of the name off the list.
WithoutFirst(s) == subscriptions \ {CHOOSE t \in subscriptions : name[t] = name[s]}

\* Subscribe makes its call first and registers when the call has returned.
RegistersAfter(moment) == moment = "after call"

\* The reader starts on an event nobody has subscribed, and never ends with it.
ServeNobody(what, f, todo) == targets' = todo /\ rpc' = what /\ frame' = f

\* Events are delivered by goroutines even to synchronous subscriptions.
OnReaderNever(s) == FALSE

\* A termination is served to the subscriptions for everything only.
EndsWildcard(s, collection) == name[s] = Wildcard

-----------------------------------------------------------------------------
(* Subscribe *)

\* At which moment of Subscribe the subscription enters the map.
Registers(moment) == moment = "before call"

Enter(s, moment) ==
  subscriptions' = IF Registers(moment) THEN subscriptions \cup {s} ELSE subscriptions

Register(s, event) ==
  /\ pc[s] = "idle"
  /\ pc' = [pc EXCEPT ![s] = "registered"]
  /\ name' = [name EXCEPT ![s] = event]
  /\ Enter(s, "before call")
  /\ UNCHANGED <<up, inbox, serverVars, done, err, readerVars, cbVars>>

\* callRaw sends a request; a connection that is gone swallows it.
Call(s, op) ==
  /\ pc' = [pc EXCEPT ![s] = op]
  /\ requests' = IF up THEN requests \cup {<<op, s>>} ELSE requests
  /\ UNCHANGED <<up, inbox, serverSubs, ended, audience, subscriptions, subVars,
                 readerVars, cbVars>>

CallSubscribe(s) == pc[s] = "registered" /\ Call(s, "subscribe")

\* The subscriptions that remain without s.
Without(s) == subscriptions \ {s}

\* removeSubscription after a failed core.subscribe.
GiveUp(s) ==
  /\ pc[s] = "failed"
  /\ pc' = [pc EXCEPT ![s] = "gone"]
  /\ subscriptions' = Without(s)
  /\ UNCHANGED <<up, inbox, serverVars, subVars, readerVars, cbVars>>

\* callRaw returns an error before any reply: its deadline (10 s), a failed
\* send, or the end of the connection.
Fails(s) ==
  /\ pc[s] \in {"subscribe", "unsubscribe"}
  /\ pc' = [pc EXCEPT ![s] = IF pc[s] = "subscribe" THEN "failed" ELSE "kept"]
  /\ UNCHANGED <<up, inbox, serverVars, subscriptions, subVars, readerVars, cbVars>>

-----------------------------------------------------------------------------
(* Unsubscribe: the subscription stays registered if its call fails. *)

CallUnsubscribe(s) == pc[s] = "active" /\ Call(s, "unsubscribe")

Remove(s) ==
  /\ pc[s] = "removing"
  /\ pc' = [pc EXCEPT ![s] = "gone"]
  /\ subscriptions' = Without(s)
  /\ UNCHANGED <<up, inbox, serverVars, subVars, readerVars, cbVars>>

-----------------------------------------------------------------------------
(* The reader goroutine *)

Reads(kind) ==
  /\ rpc = "read" /\ inbox # <<>> /\ Head(inbox).kind = kind
  /\ inbox' = Tail(inbox)
  /\ UNCHANGED <<up, serverVars, cbVars, subVars>>

\* Completes the call if it still waits.  A refused core.unsubscribe leaves
\* the subscription as it was.
ReadReply ==
  /\ Reads("reply")
  /\ LET f == Head(inbox)
         s == f.sub
     IN IF pc[s] = f.op
          THEN /\ pc' = [pc EXCEPT ![s] =
                           IF f.op = "subscribe" THEN IF f.ok THEN "active" ELSE "failed"
                                                 ELSE IF f.ok THEN "removing" ELSE "kept"]
               /\ IF f.op = "subscribe" /\ f.ok THEN Enter(s, "after call")
                                                ELSE UNCHANGED subscriptions
          ELSE UNCHANGED <<pc, subscriptions>>
  /\ UNCHANGED readerVars

\* The reader is to serve frame f to the subscriptions in todo.
Serve(what, f, todo) ==
  /\ targets' = todo
  /\ rpc' = IF todo = {} THEN "read" ELSE what
  /\ frame' = IF todo = {} THEN NoFrame ELSE f

\* dispatchEvent takes its snapshot under mu.
Matches(s, collection) == name[s] \in {collection, Wildcard}

ReadEvent ==
  /\ Reads("event")
  /\ Serve("deliver", Head(inbox), {s \in subscriptions : Matches(s, Head(inbox).name)})
  /\ UNCHANGED <<pc, subscriptions>>

\* A callback runs on the reader, or gets a goroutine of its own.
OnReader(s) == s \in SyncSubs

Deliver(s) ==
  /\ rpc = "deliver" /\ s \in targets
  /\ Serve(rpc, frame, targets \ {s})
  /\ IF OnReader(s)
       THEN ran' = [ran EXCEPT ![s] = Append(@, frame.n)] /\ UNCHANGED spawned
       ELSE spawned' = spawned \cup {<<s, frame.n>>} /\ UNCHANGED ran
  /\ UNCHANGED <<up, inbox, serverVars, pc, subscriptions, subVars>>

\* handleUnsubscribed takes its snapshot: the subscriptions of exactly this
\* name, whoever of them the server had in mind.
Ends(s, collection) == name[s] = collection

ReadEnd ==
  /\ Reads("end")
  /\ Serve("finish", Head(inbox), {s \in subscriptions : Ends(s, Head(inbox).name)})
  /\ UNCHANGED <<pc, subscriptions>>

\* Subscription.finish: an error replaces a missing one even when done.
Finish(s) ==
  /\ rpc = "finish" /\ s \in targets
  /\ Serve(rpc, frame, targets \ {s})
  /\ done' = [done EXCEPT ![s] = TRUE]
  /\ err' = [err EXCEPT ![s] = @ \/ frame.bad]
  /\ UNCHANGED <<up, inbox, serverVars, pc, subscriptions, name, cbVars>>

\* readLoop ends.  onClose fails calls and jobs, which Fails stands for here,
\* and does nothing about subscriptions.
ReaderExits ==
  /\ rpc = "read" /\ ~up
  /\ rpc' = "exited"
  /\ UNCHANGED <<up, inbox, serverVars, pc, subscriptions, subVars, targets, frame, cbVars>>

\* A callback goroutine is scheduled, in no particular order.
RunCallback(s, n) ==
  /\ <<s, n>> \in spawned
  /\ spawned' = spawned \ {<<s, n>>}
  /\ ran' = [ran EXCEPT ![s] = Append(@, n)]
  /\ UNCHANGED <<up, inbox, serverVars, pc, subscriptions, subVars, readerVars>>

-----------------------------------------------------------------------------
(* The server and the network *)

Post(f) ==
  /\ up
  /\ inbox' = Append(inbox, f)
  /\ UNCHANGED <<up, pc, subscriptions, subVars, readerVars, cbVars>>

\* The subscription is served from here on, before its reply is written.
ServerAccepts(s) ==
  /\ <<"subscribe", s>> \in requests /\ s \notin serverSubs \cup ended
  /\ serverSubs' = serverSubs \cup {s}
  /\ UNCHANGED <<up, inbox, requests, ended, audience, pc, subscriptions, subVars,
                 readerVars, cbVars>>

\* The reply to core.subscribe says whether it was accepted, the one to
\* core.unsubscribe whether the subscription was still served.
ServerAnswers(op, s) ==
  /\ <<op, s>> \in requests
  /\ requests' = requests \ {<<op, s>>}
  /\ serverSubs' = IF op = "unsubscribe" THEN serverSubs \ {s} ELSE serverSubs
  /\ Post([kind |-> "reply", op |-> op, sub |-> s,
           ok |-> s \in serverSubs \/ (op = "subscribe" /\ s \in ended)])
  /\ UNCHANGED <<ended, audience>>

\* An event some subscription is served with; it is sent once per connection.
ServerSendsEvent(collection) ==
  LET for == {s \in serverSubs : name[s] \in {collection, Wildcard}} IN
  /\ Len(audience) < MaxEvents /\ for # {}
  /\ audience' = Append(audience, for)
  /\ Post([kind |-> "event", name |-> collection, n |-> Len(audience) + 1])
  /\ UNCHANGED <<requests, serverSubs, ended>>

\* notify_unsubscribed: the event source of a name has ended, in error or not.
ServerEnds(collection, bad) ==
  LET of == {s \in serverSubs : name[s] = collection} IN
  /\ of # {}
  /\ serverSubs' = serverSubs \ of
  /\ ended' = ended \cup of
  /\ Post([kind |-> "end", name |-> collection, bad |-> bad])
  /\ UNCHANGED <<requests, audience>>

ConnectionLost ==
  /\ up
  /\ up' = FALSE
  /\ UNCHANGED <<inbox, serverVars, pc, subscriptions, subVars, readerVars, cbVars>>

-----------------------------------------------------------------------------

SubscriberMoves(s) ==
  \/ \E event \in Names : Register(s, event)
  \/ CallSubscribe(s) \/ GiveUp(s) \/ Fails(s) \/ CallUnsubscribe(s) \/ Remove(s)

Reader ==
  \/ ReadReply \/ ReadEvent \/ ReadEnd \/ ReaderExits
  \/ \E s \in Subs : Deliver(s) \/ Finish(s)

Server ==
  \/ \E s \in Subs : ServerAccepts(s)
  \/ \E op \in {"subscribe", "unsubscribe"}, s \in Subs : ServerAnswers(op, s)
  \/ \E collection \in Names \ {Wildcard} :
       ServerSendsEvent(collection) \/ \E bad \in EndErrors : ServerEnds(collection, bad)

Next ==
  \/ \E s \in Subs : SubscriberMoves(s)
  \/ Reader
  \/ \E s \in Subs, n \in 1..MaxEvents : RunCallback(s, n)
  \/ Server
  \/ ConnectionLost

Spec == Init /\ [][Next]_vars

\* The reader and the callback goroutines run; calls end by their deadline.
FairSpec ==
  /\ Spec /\ WF_vars(Reader)
  /\ \A s \in Subs :
       /\ WF_vars(CallSubscribe(s)) /\ WF_vars(GiveUp(s))
       /\ WF_vars(Fails(s)) /\ WF_vars(Remove(s))
       /\ \A n \in 1..MaxEvents : WF_vars(RunCallback(s, n))

-----------------------------------------------------------------------------
(* What subscribers rely on *)

Seen(s) == {ran[s][i] : i \in DOMAIN ran[s]}

\* The event has not reached the reader, or the reader is at it.
OnItsWay(n) ==
  \/ \E i \in DOMAIN inbox : inbox[i].kind = "event" /\ inbox[i].n = n
  \/ frame.kind = "event" /\ frame.n = n

\* An event the server sends for a subscription reaches its callback as long as
\* the subscription is registered, even when it overtakes the response to
\* core.subscribe and Subscribe has not returned yet.
NoEventLost ==
  \A n \in DOMAIN audience : \A s \in audience[n] \cap subscriptions :
    OnItsWay(n) \/ n \in Seen(s) \/ <<s, n>> \in spawned

\* No callback gets an event twice, and a synchronous one gets its events in
\* the order the server sent them.
DeliveredOnceInOrder ==
  \A s \in Subs :
    /\ \A i, j \in DOMAIN ran[s] : i # j => ran[s][i] # ran[s][j]
    /\ \A n \in Seen(s) : <<s, n>> \notin spawned
    /\ s \in SyncSubs => \A i, j \in DOMAIN ran[s] : i < j => ran[s][i] < ran[s][j]

\* When Unsubscribe has returned, or a Subscribe has failed, only events the
\* reader had already read still reach the callback.
GoneStaysQuiet ==
  [][\A s \in Subs :
       (pc[s] = "gone" /\ s \notin targets /\ \A n \in 1..MaxEvents : <<s, n>> \notin spawned)
       => s \notin targets' /\ ran'[s] = ran[s]]_vars

\* A termination the server announced is never lost on a registered subscription:
\* its Done is closed, or the reader has it still to read or to carry out.
TerminationReported ==
  \A s \in ended \cap subscriptions :
    \/ done[s]
    \/ \E i \in DOMAIN inbox : inbox[i].kind = "end" /\ inbox[i].name = name[s]
    \/ rpc = "finish" /\ s \in targets

-----------------------------------------------------------------------------
(* What a comment of subscription.go says and the code does not do *)

\* "Done is closed when ... the connection is lost."
DoneOnLoss == \A s \in Subs : (pc[s] = "active" /\ ~up) ~> done[s]
=============================================================================
