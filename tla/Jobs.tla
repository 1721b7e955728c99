-------------------------------- MODULE Jobs --------------------------------
(***************************************************************************)
(* Long-running jobs (jobs.go): StartJob with the subscription to job      *)
(* updates it shares with every other StartJob (watchJobs), the table of   *)
(* jobState objects fed by the reader goroutine (jobsEvent, update, fail), *)
(* and the Job handle: OnUpdate and Result.  Plain calls are here for what *)
(* they do to the subscription (maybeWatchJobs).                           *)
(*                                                                         *)
(* API calls go through callRaw, whose promise is CallContract: once the   *)
(* client is dead a call gets no answer, and any call may fail earlier.    *)
(*                                                                         *)
(* StartJob takes every integer its method returns, and null as 0, for the *)
(* id of a job, and the server may run one job for several calls: both are *)
(* here, and what they do to a handle is part of the properties.           *)
(***************************************************************************)
EXTENDS Naturals, Sequences, FiniteSets

CONSTANTS Handles,   \* executions of StartJob, by the handle they return
          Plain,     \* those of them that may instead be executions of
                     \* CallRawContext of a method that is no job
          JobIds,    \* the job ids the server may assign
          Endings,   \* the final states running jobs reach
          MaxErrors  \* bound on the global errors the server sends, and on the
                     \* times it ends the subscription

Finals == {"SUCCESS", "FAILED", "ABORTED"}

None == "none"

ASSUME JobsAssumption ==
  /\ Endings \subseteq Finals
  /\ Plain \subseteq Handles
  /\ MaxErrors \in Nat
  /\ IsFiniteSet(Handles) /\ IsFiniteSet(JobIds) /\ None \notin JobIds \cup Handles

VARIABLES
  plain,        \* the handles that are such executions
  up,           \* the connection is up
  inbox,        \* frames on their way to the reader
  errors,       \* global errors and ends of the subscription so far
  requests,     \* calls on their way to the server
  subscribed,   \* the server sends core.get_jobs updates to this client
  assigned,     \* the job the server runs for each call, if any
  told,         \* history: the calls an update sent to this client has named
  progress,     \* the state of each job on the server
  newStyle,     \* Client.newStyleJobs, settled before any StartJob
  jobsWatching, \* Client.jobsWatching
  watchers,     \* registered core.get_jobs subscriptions, by who made them
  jobs,         \* Client.jobs: the number of the jobState object, 0 for none
  made,         \* how many jobState objects have been made
  fields,       \* jobState.fields.State, "none" when haveInfo is false
  callback,     \* jobState.callback, by the handle it was set through
  failure,      \* jobState.failure is set
  ready,        \* jobState.ready is closed
  pc,           \* program counter of each StartJob and then Result
  id,           \* the job id StartJob was answered with
  obj,          \* Job.state
  outcome,      \* what Result returns
  notified,     \* history: the state each handle's callback was last started with
  dead,         \* Client.closeErr is set
  rpc,          \* program counter of the reader goroutine
  frame,        \* the job update the reader is at
  robj,         \* the object it has looked up for it
  toFail,       \* broadcastError's snapshot of objects still to fail
  applied       \* history: the states update has applied for each job

settled    == <<plain, newStyle>>
serverVars == <<errors, requests, subscribed, assigned, told, progress>>
watchVars  == <<jobsWatching, watchers>>
objVars    == <<made, fields, callback, failure, ready, notified>>
callerVars == <<pc, id, obj, outcome>>
readerVars == <<dead, rpc, frame, robj, toFail, applied>>
vars == <<up, inbox, serverVars, settled, watchVars, jobs, objVars, callerVars, readerVars>>

Objects == 1..(Cardinality(JobIds) + Cardinality(Handles))
State == {"WAITING", "RUNNING"} \cup Finals

\* "id" is a response StartJob takes for a job id, a number or null; "result" is
\* an error or a result of another kind.
Frame == [kind : {"subscribed"}, to : Handles, verdict : {"ok", "notauth", "error"}]
           \cup [kind : {"id"}, to : Handles, job : JobIds]
           \cup [kind : {"result"}, to : Handles]
           \cup [kind : {"job"}, job : JobIds, changed : BOOLEAN, state : State, ids : SUBSET Handles]
           \cup [kind : {"global"}]
NoFrame == [kind |-> None]

TypeOK ==
  /\ plain \subseteq Plain
  /\ up \in BOOLEAN /\ inbox \in Seq(Frame) /\ errors \in 0..MaxErrors
  /\ requests \subseteq {"subscribe", "job", "reply"} \X Handles
  /\ subscribed \in BOOLEAN
  /\ assigned \in [Handles -> JobIds \cup {None}] /\ told \subseteq Handles
  /\ progress \in [JobIds -> State \cup {None, "queued"}]
  /\ newStyle \in BOOLEAN /\ jobsWatching \in BOOLEAN /\ watchers \subseteq Handles
  /\ jobs \in [JobIds -> Objects \cup {0}] /\ made \in Objects \cup {0}
  /\ fields \in [Objects -> State \cup {None}]
  /\ callback \in [Objects -> Handles \cup {None}]
  /\ failure \in [Objects -> BOOLEAN] /\ ready \in [Objects -> BOOLEAN]
  /\ pc \in [Handles -> {"idle", "subscribing", "unwatch", "unwatchQuietly", "call", "calling",
                         "answered", "waiting", "forget", "collect", "done"}]
  /\ id \in [Handles -> JobIds \cup {None}]
  /\ obj \in [Handles -> Objects \cup {0}]
  /\ outcome \in [Handles -> {None, "notStarted", "result", "jobError", "connError", "canceled"}]
  /\ notified \in [Handles -> State \cup {None}]
  /\ dead \in BOOLEAN
  /\ rpc \in {"read", "lookup", "update", "fail", "closing", "exited"}
  /\ frame \in Frame \cup {NoFrame}
  /\ robj \in Objects \cup {0}
  /\ toFail \subseteq Objects
  /\ applied \in [JobIds -> SUBSET State]

Init ==
  /\ plain \in SUBSET Plain
  /\ up = TRUE /\ inbox = <<>> /\ errors = 0 /\ requests = {}
  /\ subscribed = FALSE
  /\ assigned = [h \in Handles |-> None] /\ told = {} /\ progress = [j \in JobIds |-> None]
  /\ newStyle \in BOOLEAN /\ jobsWatching = FALSE /\ watchers = {}
  /\ jobs = [j \in JobIds |-> 0] /\ made = 0
  /\ fields = [o \in Objects |-> None] /\ callback = [o \in Objects |-> None]
  /\ failure = [o \in Objects |-> FALSE] /\ ready = [o \in Objects |-> FALSE]
  /\ pc = [h \in Handles |-> "idle"] /\ id = [h \in Handles |-> None]
  /\ obj = [h \in Handles |-> 0] /\ outcome = [h \in Handles |-> None]
  /\ notified = [h \in Handles |-> None]
  /\ dead = FALSE /\ rpc = "read" /\ frame = NoFrame /\ robj = 0 /\ toFail = {}
  /\ applied = [j \in JobIds |-> {}]

-----------------------------------------------------------------------------

Goes(h, where) == pc' = [pc EXCEPT ![h] = where]

-----------------------------------------------------------------------------
(* Wrong forms of definitions below, which no specification uses. *)

\* watchJobs drops its claim but leaves the subscription registered.
SubscribeFailsKept(h, verdict) == pc' = [pc EXCEPT ![h] = "unwatch"] /\ UNCHANGED watchers

\* A failed watch ends a plain call as it ends StartJob.
IgnoredNever(h, verdict) == verdict = "notauth" /\ newStyle

\* Every use of a job id makes an object of its own.
JobStateFresh(j) == made' = made + 1 /\ jobs' = [jobs EXCEPT ![j] = made + 1]

\* OnUpdate does not look at what has arrived before.
ReplayNever(h) == FALSE

\* Any change releases Result.
CompletesEarly(f) == f.changed

\* Only success releases Result.
CompletesOnSuccess(f) == f.changed /\ f.state = "SUCCESS"

\* broadcastError forgets the jobs.
TrackedNone == {}

\* Result reads the job's state before it looks at whether there is any.
VerdictOfNothing(o) == fields[o]

-----------------------------------------------------------------------------
(* StartJob: watchJobs, the job call, jobState *)

\* What a plain call returns is the subject of Client.
Returned(h, what) == outcome' = IF h \in plain THEN outcome ELSE [outcome EXCEPT ![h] = what]

\* StartJob returns an error instead of a handle.
GivesUp(h) == Goes(h, "done") /\ Returned(h, "notStarted")

\* A request is written; a connection that is gone swallows it.
Request(op, h) == requests' = IF up THEN requests \cup {<<op, h>>} ELSE requests

\* maybeWatchJobs: any method can be a job of the new style.
NeedsWatch(h) == ~jobsWatching /\ (h \in plain => newStyle)

\* The critical section of watchJobs: the first caller claims the watch before
\* the server knows, the others go on.
Watch(h) ==
  /\ pc[h] = "idle"
  /\ \/ /\ ~NeedsWatch(h)
        /\ Goes(h, "call")
        /\ UNCHANGED <<requests, jobsWatching, watchers>>
     \/ /\ NeedsWatch(h)
        /\ jobsWatching' = TRUE
        /\ watchers' = watchers \cup {h}
        /\ Request("subscribe", h)
        /\ Goes(h, "subscribing")
  /\ UNCHANGED <<up, inbox, errors, subscribed, assigned, told, progress, settled, jobs, objVars,
                 id, obj, outcome, readerVars>>

\* Which failures watchJobs, or its caller, ignores: ENOTAUTHENTICATED with
\* new-style jobs, and all of them before a plain call.
Ignored(h, verdict) == h \in plain \/ (verdict = "notauth" /\ newStyle)

AfterFailure(h, verdict) == IF Ignored(h, verdict) THEN "unwatchQuietly" ELSE "unwatch"

\* core.subscribe fails; subscribe has removed the subscription again.
SubscribeFails(h, verdict) ==
  /\ Goes(h, AfterFailure(h, verdict))
  /\ watchers' = watchers \ {h}

\* The claim is dropped.
Unwatch(h) ==
  /\ \/ pc[h] = "unwatch" /\ GivesUp(h)
     \/ pc[h] = "unwatchQuietly" /\ Goes(h, "call") /\ UNCHANGED outcome
  /\ jobsWatching' = FALSE
  /\ UNCHANGED <<up, inbox, serverVars, settled, watchers, jobs, objVars, id, obj, readerVars>>

SendCall(h) ==
  /\ pc[h] = "call"
  /\ Goes(h, "calling")
  /\ Request("job", h)
  /\ UNCHANGED <<up, inbox, errors, subscribed, assigned, told, progress, settled, watchVars, jobs,
                 objVars, id, obj, outcome, readerVars>>

\* callRaw fails without an answer: deadline, send error, dead client.
CallFails(h) ==
  /\ \/ pc[h] = "subscribing" /\ SubscribeFails(h, "error") /\ UNCHANGED outcome
     \/ pc[h] = "calling" /\ GivesUp(h) /\ UNCHANGED watchers
  /\ UNCHANGED <<up, inbox, serverVars, settled, jobsWatching, jobs, objVars, id, obj, readerVars>>

\* jobState: the tracked object, or a stub when no event has made one yet.
JobState(j) ==
  IF jobs[j] # 0 THEN UNCHANGED <<jobs, made>>
  ELSE made' = made + 1 /\ jobs' = [jobs EXCEPT ![j] = made + 1]

TakeState(h) ==
  /\ pc[h] = "answered"
  /\ JobState(id[h])
  /\ obj' = [obj EXCEPT ![h] = jobs'[id[h]]]
  /\ Goes(h, "waiting")
  /\ UNCHANGED <<up, inbox, serverVars, settled, watchVars, fields, callback, failure, ready,
                 notified, id, outcome, readerVars>>

-----------------------------------------------------------------------------
(* The handle: Result, entered at once, and OnUpdate from another goroutine *)

\* An update has arrived before the callback: it is started once with it.
Replay(h) == fields[obj[h]] # None

OnUpdate(h) ==
  /\ pc[h] = "waiting" /\ callback[obj[h]] # h
  /\ callback' = [callback EXCEPT ![obj[h]] = h]
  /\ notified' = IF Replay(h) THEN [notified EXCEPT ![h] = fields[obj[h]]] ELSE notified
  /\ UNCHANGED <<up, inbox, serverVars, settled, watchVars, jobs, made, fields, failure, ready,
                 callerVars, readerVars>>

ResultReady(h) ==
  /\ pc[h] = "waiting" /\ ready[obj[h]]
  /\ Goes(h, "forget")
  /\ UNCHANGED <<up, inbox, serverVars, settled, watchVars, jobs, objVars, id, obj, outcome,
                 readerVars>>

ResultCanceled(h) ==
  /\ pc[h] = "waiting"
  /\ Goes(h, "done")
  /\ outcome' = [outcome EXCEPT ![h] = "canceled"]
  /\ UNCHANGED <<up, inbox, serverVars, settled, watchVars, jobs, objVars, id, obj, readerVars>>

\* delete(c.jobs, id), whatever object is there by now.
Forget(h) ==
  /\ pc[h] = "forget"
  /\ jobs' = [jobs EXCEPT ![id[h]] = 0]
  /\ Goes(h, "collect")
  /\ UNCHANGED <<up, inbox, serverVars, settled, watchVars, objVars, id, obj, outcome, readerVars>>

\* An aborted job has no exc_info: a connection failure hides its error.
Verdict(o) ==
  IF fields[o] = "SUCCESS" THEN "result"
  ELSE IF fields[o] = "FAILED" THEN "jobError"
  ELSE IF failure[o] \/ fields[o] = None THEN "connError" ELSE "jobError"

Collect(h) ==
  /\ pc[h] = "collect"
  /\ outcome' = [outcome EXCEPT ![h] = Verdict(obj[h])]
  /\ Goes(h, "done")
  /\ UNCHANGED <<up, inbox, serverVars, settled, watchVars, jobs, objVars, id, obj, readerVars>>

-----------------------------------------------------------------------------
(* The reader goroutine *)

Reads(kind) ==
  /\ rpc = "read" /\ inbox # <<>> /\ Head(inbox).kind = kind
  /\ inbox' = Tail(inbox)
  /\ UNCHANGED <<up, serverVars, settled>>

\* Once the client is dead its call table is empty: no answer finds its call.
Waits(h, where) == pc[h] = where /\ ~dead

ReadSubscribed ==
  /\ Reads("subscribed")
  /\ LET f == Head(inbox)
         h == f.to
     IN IF ~Waits(h, "subscribing") THEN UNCHANGED <<pc, watchers>>
        ELSE IF f.verdict = "ok" THEN Goes(h, "call") /\ UNCHANGED watchers
        ELSE SubscribeFails(h, f.verdict)
  /\ UNCHANGED <<jobsWatching, jobs, objVars, id, obj, outcome, readerVars>>

\* The calls are answered with a job id.
Answer(H, j) ==
  /\ pc' = [h \in Handles |-> IF h \in H THEN "answered" ELSE pc[h]]
  /\ id' = [h \in Handles |-> IF h \in H THEN j ELSE id[h]]

\* unmarshalTo takes any number, and null, for the job id.
ReadId ==
  /\ Reads("id")
  /\ LET f == Head(inbox) IN Answer({h \in {f.to} : Waits(h, "calling")}, f.job)
  /\ UNCHANGED <<watchVars, jobs, objVars, obj, outcome, readerVars>>

\* An error, or the method's own result where it does not decode into a number.
ReadResult ==
  /\ Reads("result")
  /\ LET h == Head(inbox).to IN
     IF Waits(h, "calling") THEN GivesUp(h) ELSE UNCHANGED <<pc, outcome>>
  /\ UNCHANGED <<watchVars, jobs, objVars, id, obj, readerVars>>

\* handleCollectionUpdate answers the calls the update names, and dispatchEvent
\* passes it to jobsEvent if anybody has subscribed that.
ReadJob ==
  /\ Reads("job")
  /\ LET f == Head(inbox) IN
     /\ Answer({h \in f.ids : newStyle /\ Waits(h, "calling")}, f.job)
     /\ \/ watchers # {} /\ rpc' = "lookup" /\ frame' = f
        \/ watchers = {} /\ UNCHANGED <<rpc, frame>>
  /\ UNCHANGED <<watchVars, jobs, objVars, obj, outcome, dead, robj, toFail, applied>>

\* jobsEvent looks the object up under mu and updates it under its own lock.
Lookup ==
  /\ rpc = "lookup"
  /\ JobState(frame.job)
  /\ robj' = jobs'[frame.job]
  /\ rpc' = "update"
  /\ UNCHANGED <<up, inbox, serverVars, settled, watchVars, fields, callback, failure, ready,
                 notified, callerVars, dead, frame, toFail, applied>>

\* Which update releases Result.
Completes(f) == f.changed /\ f.state \in Finals

Update ==
  /\ rpc = "update"
  /\ fields' = [fields EXCEPT ![robj] = frame.state]
  /\ notified' = [h \in Handles |->
                    IF callback[robj] = h THEN frame.state ELSE notified[h]]
  /\ ready' = [ready EXCEPT ![robj] = @ \/ Completes(frame)]
  /\ applied' = [applied EXCEPT ![frame.job] = @ \cup {frame.state}]
  /\ rpc' = "read" /\ frame' = NoFrame /\ robj' = 0
  /\ UNCHANGED <<up, inbox, serverVars, settled, watchVars, jobs, made, callback, failure,
                 callerVars, dead, toFail>>

\* broadcastError's critical section takes the tracked objects.
Tracked == {jobs[j] : j \in JobIds} \ {0}

Broadcast(next) ==
  /\ dead' = TRUE
  /\ toFail' = Tracked
  /\ rpc' = next
  /\ UNCHANGED <<watchVars, jobs, objVars, callerVars, frame, robj, applied>>

ReadGlobalError == Reads("global") /\ Broadcast("fail")

\* Frames not read yet are lost.
ReaderCloses ==
  /\ rpc = "read" /\ ~up
  /\ Broadcast("closing")
  /\ inbox' = <<>>
  /\ UNCHANGED <<up, serverVars, settled>>

\* jobState.fail
Fail(o) ==
  /\ rpc \in {"fail", "closing"} /\ o \in toFail
  /\ failure' = [failure EXCEPT ![o] = TRUE]
  /\ ready' = [ready EXCEPT ![o] = TRUE]
  /\ toFail' = toFail \ {o}
  /\ UNCHANGED <<up, inbox, serverVars, settled, watchVars, jobs, made, fields, callback,
                 notified, callerVars, dead, rpc, frame, robj, applied>>

BroadcastDone ==
  /\ rpc \in {"fail", "closing"} /\ toFail = {}
  /\ rpc' = IF rpc = "fail" THEN "read" ELSE "exited"
  /\ UNCHANGED <<up, inbox, serverVars, settled, watchVars, jobs, objVars, callerVars, dead,
                 frame, robj, toFail, applied>>

-----------------------------------------------------------------------------
(* The server and the network *)

Post(f) ==
  /\ up
  /\ inbox' = Append(inbox, f)
  /\ UNCHANGED <<up, settled, watchVars, jobs, objVars, callerVars, readerVars>>

\* Requests are served concurrently, in any order.  core.subscribe fails with
\* ENOTAUTHENTICATED before login, or for another reason.
ServerAnswersSubscribe(h, verdict) ==
  /\ <<"subscribe", h>> \in requests
  /\ requests' = requests \ {<<"subscribe", h>>}
  /\ subscribed' = (subscribed \/ verdict = "ok")
  /\ Post([kind |-> "subscribed", to |-> h, verdict |-> verdict])
  /\ UNCHANGED <<errors, assigned, told, progress>>

\* The calls an update of j names (message_ids).
Callers(j) == {h \in Handles : assigned[h] = j}

\* What a job update says.
Report(j, changed) ==
  [kind |-> "job", job |-> j, changed |-> changed, state |-> progress'[j],
   ids |-> Callers(j)]

\* A client that has subscribed gets the update.
PostUpdate(j, changed) ==
  IF subscribed THEN Post(Report(j, changed))
  ELSE up /\ UNCHANGED <<up, inbox, settled, watchVars, jobs, objVars, callerVars, readerVars>>

\* The method queues a new job, or the call joins one that has not ended.  Its
\* response and the next update are still to be written, in either order.
ServerStarts(h, j) ==
  /\ h \notin plain /\ <<"job", h>> \in requests
  /\ progress[j] \notin Finals
  /\ requests' = (requests \ {<<"job", h>>}) \cup {<<"reply", h>>}
  /\ assigned' = [assigned EXCEPT ![h] = j]
  /\ progress' = [progress EXCEPT ![j] = IF @ = None THEN "queued" ELSE @]
  /\ up /\ UNCHANGED <<up, inbox, errors, subscribed, told, settled, watchVars, jobs, objVars,
                        callerVars, readerVars>>

\* A job is reported as added, then whenever its state changes.
ServerRuns(j, state) ==
  /\ \/ progress[j] = "queued" /\ state = "WAITING"
     \/ progress[j] = "WAITING" /\ state \in {"RUNNING", "ABORTED"}
     \/ progress[j] = "RUNNING" /\ state \in Endings
  /\ progress' = [progress EXCEPT ![j] = state]
  /\ UNCHANGED assigned
  /\ told' = IF subscribed /\ newStyle THEN told \cup Callers(j) ELSE told
  /\ PostUpdate(j, progress[j] # "queued")
  /\ UNCHANGED <<errors, requests, subscribed>>

\* The method's own result, which may be a number.  One that happens to be the id
\* of the call's own job would make no difference to StartJob.
PostResult(h) ==
  \/ Post([kind |-> "result", to |-> h])
  \/ \E n \in JobIds \ {assigned[h]} : Post([kind |-> "id", to |-> h, job |-> n])

\* A legacy response carries the job id, a new-style one follows the end of the
\* job: its result if there is one.
ServerReplies(h) ==
  /\ <<"reply", h>> \in requests
  /\ requests' = requests \ {<<"reply", h>>}
  /\ \/ ~newStyle /\ Post([kind |-> "id", to |-> h, job |-> assigned[h]])
     \/ newStyle /\ progress[assigned[h]] = "SUCCESS" /\ PostResult(h)
     \/ /\ newStyle /\ progress[assigned[h]] \in Finals
        /\ Post([kind |-> "result", to |-> h])
  /\ UNCHANGED <<errors, subscribed, assigned, told, progress>>

\* The method fails, or it is no job and returns; what a plain call gets back is
\* not looked at.
ServerReturns(h) ==
  /\ <<"job", h>> \in requests
  /\ requests' = requests \ {<<"job", h>>}
  /\ IF h \in plain THEN Post([kind |-> "result", to |-> h]) ELSE PostResult(h)
  /\ UNCHANGED <<errors, subscribed, assigned, told, progress>>

\* An error that answers no request.
ServerFails ==
  /\ errors < MaxErrors
  /\ errors' = errors + 1
  /\ Post([kind |-> "global"])
  /\ UNCHANGED <<requests, subscribed, assigned, told, progress>>

\* notify_unsubscribed for core.get_jobs: nothing here reads Done of the
\* subscription, which stays registered.
ServerEndsWatch ==
  /\ up /\ subscribed /\ errors < MaxErrors
  /\ subscribed' = FALSE
  /\ errors' = errors + 1
  /\ UNCHANGED <<up, inbox, requests, assigned, told, progress, settled, watchVars, jobs, objVars,
                 callerVars, readerVars>>

\* Nobody serves the requests any more.
ConnectionLost ==
  /\ up
  /\ up' = FALSE /\ requests' = {}
  /\ UNCHANGED <<inbox, errors, subscribed, assigned, told, progress, settled, watchVars, jobs, objVars, callerVars, readerVars>>

-----------------------------------------------------------------------------

StartJob(h) == Watch(h) \/ Unwatch(h) \/ SendCall(h) \/ CallFails(h) \/ TakeState(h)

Result(h) ==
  ResultReady(h) \/ ResultCanceled(h) \/ Forget(h) \/ Collect(h)

Reader ==
  \/ ReadSubscribed \/ ReadId \/ ReadResult \/ ReadJob \/ Lookup \/ Update
  \/ ReadGlobalError \/ ReaderCloses \/ BroadcastDone
  \/ \E o \in Objects : Fail(o)

Server ==
  \/ \E h \in Handles, verdict \in {"ok", "notauth", "error"} :
       ServerAnswersSubscribe(h, verdict)
  \/ \E h \in Handles, j \in JobIds : ServerStarts(h, j)
  \/ \E j \in JobIds, state \in State : ServerRuns(j, state)
  \/ \E h \in Handles : ServerReplies(h) \/ ServerReturns(h)
  \/ ServerFails \/ ServerEndsWatch

Next ==
  \/ \E h \in Handles : StartJob(h) \/ OnUpdate(h) \/ Result(h)
  \/ Reader
  \/ Server
  \/ ConnectionLost

Spec == Init /\ [][Next]_vars

\* The reader runs, and so does a goroutine inside StartJob or Result that is
\* not blocked; its API calls end by their deadline.
FairSpec ==
  /\ Spec /\ WF_vars(Reader)
  /\ \A h \in Handles : WF_vars(Unwatch(h) \/ SendCall(h) \/ CallFails(h) \/ TakeState(h))
  /\ \A h \in Handles : WF_vars(ResultReady(h) \/ Forget(h) \/ Collect(h))

-----------------------------------------------------------------------------
(* What users of jobs rely on *)

\* However StartJobs overlap and subscriptions fail, jobsEvent is registered at
\* most once, so that no update is applied or reported to a callback twice; and
\* the claim to the watch stands for a registered subscription, or its owner is
\* about to drop it: no failure leaves it behind, and StartJobs unwatched.
OneWatcher ==
  /\ Cardinality(watchers) <= 1
  /\ jobsWatching <=> watchers # {} \/ \E h \in Handles : pc[h] \in {"unwatch", "unwatchQuietly"}

\* A Result has deleted the entry of job j: it is between its delete and its
\* return, or has reported.
HasCleared(h, j) ==
  id[h] = j /\ (pc[h] = "collect" \/ outcome[h] \in {"result", "jobError", "connError"})
Cleared(j) == \E h \in Handles : HasCleared(h, j)

\* The Result of another handle on the job of h has deleted its entry, and h has
\* an object of its own.
Superseded(h) == \E g \in Handles : HasCleared(g, id[h]) /\ obj[g] # obj[h]

\* The answer StartJob gets is the id of the job the server runs for this call,
\* wherever the two can be told apart: a legacy job responds with its id, and an
\* update that names the call overtakes the result of a new-style one.
Identified(h) == assigned[h] # None /\ (newStyle => h \in told)

\* Result speaks truly of the job whose id StartJob was answered with: it reports
\* a result only if that job succeeded, a job error only if it did not, and a
\* connection error only when the connection was declared dead.  And that job is
\* the one the server runs for this very call, unless the answer was a number the
\* method returned in place of a job id.
ResultIsTheJobs ==
  \A h \in Handles :
    /\ outcome[h] = "result" => progress[id[h]] = "SUCCESS"
    /\ outcome[h] = "jobError" => progress[id[h]] \in {"FAILED", "ABORTED"}
    /\ outcome[h] = "connError" => dead
    /\ id[h] # None /\ Identified(h) => id[h] = assigned[h]

\* The update that ends a job releases the Result of every handle on it, however
\* many share the job and whether it arrives before, while or after StartJob takes
\* the object.  The one exception is a handle that comes to the table after
\* another's Result has deleted the entry: it has an object nobody releases.
FinalWakes ==
  \A h \in Handles :
    obj[h] # 0 /\ applied[id[h]] \cap Finals # {} => ready[obj[h]] \/ Superseded(h)

\* "creating a stub if no event has been received yet": a StartJob that has to
\* make the object of its job has missed no update of it, unless the Result of
\* another handle on the job has deleted the object that had them.
StubsPrecedeEvents ==
  [][\A h \in Handles :
       obj'[h] # obj[h] /\ made' # made => applied[id[h]] = {} \/ Cleared(id[h])]_vars

\* The last state a callback was started with is the latest that is known, whether
\* it was registered before or after the update.
CallbackUpToDate ==
  \A o \in Objects : \A h \in Handles :
    callback[o] = h /\ fields[o] # None => notified[h] = fields[o]

\* The Results of other handles on the job of h have deleted every entry with the
\* object of h: the reader does not find it any more.
Untracked(h) == Superseded(h) /\ jobs[id[h]] # obj[h]

\* A Result that already waits when the connection breaks, or when an error for
\* the whole connection is on its way, returns, unless those of other handles on
\* the job make the reader lose its object.
LossEndsWaiting ==
  \A h \in Handles :
    (/\ pc[h] = "waiting" /\ ~dead
     /\ ~up \/ \E i \in DOMAIN inbox : inbox[i].kind = "global") ~> (pc[h] = "done" \/ Untracked(h))

\* A Result returns once the end of its job is on its way to a client whose
\* subscription has been confirmed, unless the connection breaks before or the
\* Results of other handles on the job make the reader lose its object.
EndOnItsWay(h) ==
  /\ \E w \in watchers : pc[w] # "subscribing"
  /\ \E i \in DOMAIN inbox :
       inbox[i].kind = "job" /\ inbox[i].job = id[h] /\ inbox[i].state \in Finals

WatchedJobEnds ==
  \A h \in Handles : (pc[h] = "waiting" /\ EndOnItsWay(h)) ~> (pc[h] = "done" \/ ~up \/ Untracked(h))

\* "A failed silent subscribe is not an error": a plain call that first has to
\* watch the jobs is made, whatever becomes of the watch, and is made in time.
WatchLetsCallsPass ==
  \A h \in Plain : (h \in plain /\ pc[h] = "subscribing") ~> pc[h] = "calling"

-----------------------------------------------------------------------------
(* What comments of the source say and the code does not do *)

\* "onClose ends all unanswered calls and unreturned jobs with an error".
LossEndsJobs == \A h \in Handles : (pc[h] = "waiting" /\ rpc = "exited") ~> pc[h] = "done"

\* "watchJobs ensures the client is subscribed to job updates": the method is not
\* called before the server has subscribed the client.  Stated for responses in
\* the legacy style, where an update is all that ends a Result.
WatchedFirst ==
  [][\A h \in Handles : ~newStyle /\ <<"job", h>> \in requests' \ requests => subscribed]_vars
=============================================================================
