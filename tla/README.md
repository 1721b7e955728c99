# Verification of the TrueNAS API client for Go

TLA+ models of the client library (package `truenas`) and of the command line
tool `midclt`, checked with TLC on small instances and, for everything but
liveness, proved with TLAPS for every instance.
Line numbers refer to the sources this directory is kept beside.

## 1. The system

A `Client` owns one websocket connection. One **reader goroutine** (`readLoop`)
receives every frame and dispatches it; any number of **caller goroutines** are
inside `callRaw`, `StartJob`, `Result`, `Subscribe` or `Unsubscribe`; `Close` and
`ConnectContext` run once each. They share maps under `Client.mu` (calls, jobs,
subscriptions, and the flags `jobsWatching`, `newStyleJobs`, `closeErr`), a
write lock `writeMu`, and channels that are closed once: `call.returned`,
`connected`, `closed`, `jobState.ready`, `Subscription.done`.

| component | state | operations | interacts with |
|---|---|---|---|
| call core (`client.go`) | table of calls, `setOptionsCall`, `closeErr`, `returned`, `connected`, `closed`, `writeMu` | `ConnectContext`, `callRaw` (register, send, wait, unregister), `readLoop`/`dispatch*`, `finishHandshake`, `broadcastError`, `onClose`, `Close` | everything below calls `callRaw`; the reader calls the dispatchers of events and jobs |
| subscriptions (`subscription.go`) | lists of subscriptions by name, `done`, `err` | `Subscribe`, `Unsubscribe`, `dispatchEvent`, `handleUnsubscribed`, `finish` | two API calls; callbacks on the reader or in goroutines |
| jobs (`jobs.go`) | `jobsWatching`, table of `jobState` objects (fields, callback, failure, ready) | `StartJob`, `watchJobs`, `jobState`, `jobsEvent`, `update`, `fail`, `OnUpdate`, `Result`, `maybeWatchJobs` | one shared subscription to `core.get_jobs`; the job call; `broadcastError` |
| login (`auth.go`) | none beyond the calls it makes; the session is the server's | `LoginWithPassword`, `LoginWithAPIKey`, SCRAM exchange, logout after a failed verification | a sequence of API calls |
| key material (`authkey.go`), SCRAM (`scram/`), extended JSON (`ejson/`) | none | pure parsing, formatting, computation | used by login and by the call core |
| transport (`transport.go`) | none | dialling, reserved ports, keepalive | makes the connection |
| wire types, errors (`jsonrpc.go`, `errors.go`) | none | declarations | all |
| `midclt` (`cmd/midclt`) | count of events, `done`, `lastDesc`, progress bar | `ping`, `call`, `call -j`, `subscribe` | logs in, calls, waits for jobs and events; its callbacks run on the reader or in goroutines |

The hard behaviour is concurrency. A call, a job or a subscription is taken from
a shared table under a lock and completed after the unlock; the server's frames
reach the reader in an order the callers do not control (an event before the
response it belongs to, a job id before the result, an error that belongs to no
request); deadlines race answers; and the connection may be lost between any
two steps. The correctness of each component is:

* call core: every call gets exactly one verdict, an answer only if the server
  gave it to this call; nobody waits for ever on a dead connection; no channel
  is closed twice; the handshake is never confused with a lost connection;
* subscriptions: no event is lost while registering, none is delivered twice or
  after the subscription has gone, synchronous ones come in order, terminations
  are reported;
* jobs: updates and handles meet on one object, `Result` speaks of its own job
  and returns when the job or the connection ends, updates are applied once, and
  watching the jobs never stops a plain call;
* login: what a login returns agrees with the session the server keeps for the
  connection, credentials alone decide, the key is sent only when asked to, a
  token is sent once, and every login returns;
* formats: what is written is read as it was meant, and two decoders of the same
  documents agree; a key file is read as documented;
* `midclt`: an exit code of 0 is earned, output is in order, and a run that has a
  reason to end ends.

`PROJECT.json` lists the hazards line by line with the property that covers each.

## 2. Modules

| module | what it is |
|---|---|
| `Client` | the call core: connection, callers, reader, `Close`, a server and a network |
| `CallContract` | what `callRaw` promises, without goroutines: the abstract specification `Client` implements |
| `FifoLemmas` | what a connection that keeps the order does to a queue of frames: lemmas, proved |
| `ClientProofs` | theorems about `Client`, proved by TLAPS |
| `Subscriptions` | `Subscribe`, `Unsubscribe`, dispatching and terminations |
| `SubscriptionsProofs` | theorems about `Subscriptions` |
| `Jobs` | `StartJob`, the shared watch, plain calls that join it, the job objects, `Result` |
| `JobsProofs` | theorems about `Jobs` |
| `KeyFile` | the key argument of a login: operators on keys, JSON and INI files |
| `Scram` | the client's side of SCRAM-SHA-512 and the channel binding: operators |
| `Login` | both ways to log in and the server's side of them; extends `KeyFile` and `Scram` |
| `LoginContract` | what a login promises about the session: the abstract specification `Login` implements, and the login of `Midclt` |
| `LoginContractProofs` | a theorem about `LoginContract` |
| `LoginProofs` | theorems about `Login`, among them that it implements `LoginContract` |
| `Ejson` | extended JSON: encoding, decoding, the typed decoders: operators |
| `Formats` | writers and readers of documents and key files; extends `Ejson` and `KeyFile` |
| `FormatsProofs` | theorems about `Formats`, with the inductions over nested values and over the lines of a file |
| `Midclt` | one run of the command line tool; its login is an instance of `LoginContract` |
| `MidcltProofs` | theorems about `Midclt` |
| `MC...` | model values, definitions and symmetry for TLC |

The modules that model code have a section "wrong forms": variants of
definitions that no specification uses. `PROJECT.json` pairs every property with
one of them, a plausible mistake that makes TLC report the property violated.

### Client

One action is one critical section or one blocking operation. A member of `Calls`
is one execution of `callRaw` and its request id, since ids are fresh UUIDs.
`pc[c]` runs through `idle`, `locking` (registered, before `writeMu`), `writing`,
`waiting`, `leaving` (before the deferred `unregisterCall`), `done`. The reader's
`rpc` separates taking calls out of the table (under `mu`) from completing them
one by one (`Resolve`, after the unlock): `owed` are the calls in its hands.
`slot` is `call.result` or `call.err`. `wait`'s `select` is two actions that may
both be enabled. `cpc` and `xpc` are the program counters of `ConnectContext` and
`Close`. Payloads are reduced to `result`, `error` and `jobid`; encoding of
parameters either works or fails (`EncodeFails`). Steps of `finishHandshake`
are one action, since no other goroutine acts on its intermediate states before
`connected` is closed. Frames that are only logged are left out.

The environment: the server answers requests it has received, possibly twice
(the job id, then the result), reports jobs naming any such requests, answers
`core.set_options`, and may send an error without id. The network may be lost at
any moment, with frames in flight lost or still read.

### Subscriptions

A member of `Subs` is one execution of `subscribe` and the object it makes. The
map of lists is the set `subscriptions` of registered objects with their `name`:
the order within a list only decides the order of callbacks for one event, which
is left open. The reader takes a snapshot (`targets`) and serves it one by one,
without the lock, as the code does; asynchronous callbacks are goroutines
(`spawned`) that begin in any order. An API call here succeeds, fails at the
server, or fails at any moment (`Fails`): what `callRaw` guarantees is the
subject of `Client`. Events are numbered in the order of sending, and `audience`
remembers whom the server had subscribed at that time.

### Jobs

A member of `Handles` is one execution of `StartJob` followed by `Result`; `OnUpdate`
comes at any time in between, from another goroutine. A member of `Plain` may be
an execution of `CallRawContext` instead, for a method that is no job: with
new-style jobs it first watches the jobs like `StartJob` and ignores whatever comes
of it (`NeedsWatch`, `Ignored`). `jobState` objects are numbered, `jobs` maps ids to
them, so that two objects for one job can be told apart. `watchJobs` claims the
watch and calls `core.subscribe` outside the lock; in `watchers` are the registered
`core.get_jobs` subscriptions. `newStyle` selects between responses that carry the
job id, and job updates that do. A response and the first update of a job may
come in either order. The server may end the shared subscription
(`ServerEndsWatch`), after which the client goes on believing that it watches.

`ServerStarts` queues a new job or lets the call join one that has not ended, so that
an update may name several calls (`message_ids` is a list, `client.go:379`) and several
handles may have one id. A method may also return a number that is no job id
(`PostResult`), which `StartJob` takes for one, as it takes a null for job 0
(`jobs.go:162-166`): a frame `id` is any answer that decodes into an int64, and only
`result` (an error, or a result of another kind) makes `StartJob` give up. The
properties say what is left of the promises of a handle then:

* `ResultIsTheJobs`: `Result` speaks of the job whose id `StartJob` got, always. That this
  is the job of the call holds where the two can be told apart (`Identified`): a job
  answered in the legacy style, and a new-style call that an update sent to this
  client has named (`told`) before its own result is sent;
* `FinalWakes`, `StubsPrecedeEvents`: `Result` deletes the table entry by id
  (`jobs.go:95`). A handle that comes to the table after another's `Result` has done
  so (`Superseded`, `Cleared`) has an object nobody releases. No other handle misses
  the end of its job;
* `LossEndsWaiting`, `WatchedJobEnds`: the same deletion takes the object of a waiting
  handle out of reach of the reader only if the two handles have different objects
  (`Untracked`). `jobs_live` has one handle, so nothing is excepted there.

### Login, Scram and KeyFile

One action of `Login` is what the client does from the return of one API call to
the start of the next: `Begin` is a login up to its first call, `GotChoices` what
follows the answer to `auth.mechanism_choices`, and so on to `GotLogout`. `pc` is the
call it waits for, `keyData` what `getKeyMaterial` made of the key. Requests carry their number; a call may end without an answer
at any time (`CallFails`) and its request stays in `wire`, where the server may
serve it later, during the next login over the same connection. `session` is the
login the server's session comes from. The server is the model's own, written
from what the client expects of it: it checks passwords, tokens and proofs, may
decline for reasons of its own, sign wrongly, or send what cannot be read.
`blame` records which of that befell a login.

In `Scram` keys, proofs and signatures are terms. Two of them are equal when they
were computed in the same way from equal things; so a mistake in what goes into
a proof or a binding shows as a login that fails. Limits of iterations, nonce and
salt are those of the code. In `KeyFile` a text is told apart by its syntax (raw
key, JSON, INI, path) and an INI file is a sequence of section headers and
pairs, read line by line as the code does.

`LoginContract` forgets calls and mechanisms: logins begin, the server grants or
revokes a session for those that run or are *loose* (ended without the client
knowing what the server did), success means to have the session, failure in the
open to have none.

### Ejson and Formats

Go values and JSON documents are tagged records; a document is what
`encoding/json` makes of the bytes. `Marshal` is `transform` followed by the
`MarshalJSON` methods, `Unmarshal` is `revive`, `UnmarshalTyped` the `UnmarshalJSON`
methods of `DateTime`, `Time`, `Date` and `Set`. Times have seconds and milliseconds,
times of day nanoseconds, offsets seconds: what each encoding drops is dropped.

The functions of the code that call themselves are recursive functions here, on
the values nested at most `MaxNesting` deep: `GoValues` for the encoders, `Documents`
for `revive`. The bound is the one of `encoding/json`, which refuses a document nested
deeper (`Unmarshal` has it so, and encoding may well yield such a document). The
step of each function is an operator that gets the recursive call as its first
argument (`NativeOf`, `MarshalOf`, `ReviveOf`). `Shapes` are the tuples of keys an object
may have. `GoValues` leaves out maps whose keys make them an extended value, such as
a `map[string]any` with `$date` alone, since the format cannot tell the two apart;
offsets are less than 100 hours, as `parseOffset` reads two digits of them; and
integers have no width, so that times are those whose milliseconds fit in an int64.

A `list` is an `[]any`, a `map` a `map[string]any`; a `slice` or `table` is a slice or map
of any other type, into which `transform` does not go. `whole` is a float64 whose
value an int64 has: `encoding/json` writes it without a fraction, so that it is read
back as an int64 (`ejson.go:81`, `ejson.go:106`), while a number like `5.0` from elsewhere
stays a float.

In `Formats` the client writes a document, the server does, or somebody sends one
that is odd; a reader reads it, and the client may send on what it has read.
`meant` is what the reader ought to get (`Kept`): as the comment of `Marshal` has it
(`ejson.go:42-45`), the extended types come back as themselves "including when nested
inside maps and slices", typed ones too, and other values are what `encoding/json`
makes of them. `reached` remembers whether `transform` gets at every time and prefix
of the value (`Reaches`), and `ReadAsMeant` says that the document is read as meant if
and only if it does: for a value with a time in a typed slice or map the comment is
wrong in every case.
The same is done with key files that grow line by line, against the sentence of
`src/authkey.go:154-157` on which section counts.

### Midclt

One run of a command line. `pc` is the main goroutine; callbacks are members of
`running` with a program counter of their own, so that test and close of `done`,
or printing and storing a status, are two steps. What the library promises (an
answer, a failure at the deadline, events in order for a synchronous
subscription, the failure of jobs on a loss) stands for the library. The server
may refuse, end a subscription, fall silent; the connection may be lost. Updates
in `Blank` carry neither a percentage nor a description: the bar stays where it was,
and an empty description is stored as the last one but not printed.

## 3. Runs

| run | instance | shows |
|---|---|---|
| `client` | 2 calls (symmetric) without deadline but cancellable, 3 server frames | type correctness, the five safety invariants, and that `Client` implements `CallContract` |
| `client_live` | 1 call, bounded or unbounded context, 3 frames | the four liveness properties |
| `subscriptions` | 2 subscriptions, one of them synchronous; one collection and `*`; 2 events; terminations with an error | the type invariant, three safety properties and an action property |
| `jobs` | 2 StartJobs, 2 jobs (symmetric) of their own or shared, results that are numbers, legacy and new style, jobs that succeed or are aborted | type correctness, four invariants, one action property |
| `jobs_live` | 1 StartJob or plain call, 1 job that succeeds or fails, 2 global errors or ends of the watch | the three liveness properties |
| `login` | 2 logins out of some 30 kinds of credentials, 10 servers over TLS and 6 connections to one of them | type correctness, who is let in, that `Login` implements `LoginContract`, two action properties and that logins return |
| `formats` | values of every type, alone and in lists, maps, sets, typed slices and maps, and structs; odd documents; documents nested at most 5 deep; key files of up to 4 lines | three properties of what is read |
| `midclt` | every subcommand, timeouts, credentials, 0 to 3 events asked for and up to 3 sent | type correctness, exit codes, output, and that runs end |

Bounds. Two calls are enough for every pairwise race in the table; what a call
does never depends on a third one. Three frames allow a handshake answer, an
answer or a job update and a second answer or a global error. In `client` all
contexts are unbounded, since a deadline differs from a cancellation only in the
error it gives; `client_live` has both. Two subscriptions give every combination
of old and new with equal and different names, two events the order. Two jobs
and two StartJobs give overlapping watches, failed watches, a job of two calls, a
number that is the id of somebody else's job, and distinct objects; global errors are
in `jobs_live` only. One handle there suffices: handles meet at the watch and at the
entry of a shared job, whose safety `jobs` checks, and one whose object another has
put out of reach is excepted. Two logins let a straggling request of the first meet the
second; the servers differ from a usual one in one thing each, and lie on both
sides of the limits of the code. Four lines of a key file give two sections with
a pair each, or a section that comes again. Three events give one after the last
that was asked for. Documents nested five deep hold a set in a set, and a third set
makes a document that is refused for its depth. The proofs of section 5 remove
these bounds for every safety property of every run; what rests on the bounds
alone is liveness.

No run checks deadlock: a client whose calls have returned and whose server is
silent may stop, and so may a run of `midclt` that has exited.

### What the code does and its comments do not say

These runs end in a counterexample; each is a finding in `PROJECT.json`.

| run | property | counterexample |
|---|---|---|
| `client_stall` | `DeadlineBoundsCall` | the peer stops draining the socket: `WriteMessage` blocks without deadline and the call outlives its `CallTimeout` |
| `subscriptions_done_on_loss` | `DoneOnLoss` | `onClose` does not finish subscriptions |
| `jobs_loss` | `LossEndsJobs` | job id read, connection lost and broadcast, then `jobState` makes a stub nobody fails |
| `jobs_unwatched` | `WatchedFirst` | the second of two StartJobs goes ahead before the first has subscribed |

Further behaviour the models show and no run is about:

* an error without id sets `closeErr` on a live connection (`client.go:402`); later
  calls fail at once and their requests are still sent (`client.go:245`);
* `notify_unsubscribed` for an old subscription also finishes one of the same name
  that is being made; a second one can turn a nil `Err` into an error;
* after the server has ended the `core.get_jobs` subscription nobody subscribes again;
* `message_ids` is a list: of two calls answered with one job, the `Result` of one
  deletes the table entry the other still has to look up (`jobs.go:95`). The other's
  stub never learns of the end that was there, and its `Result` waits until its
  context ends (`Superseded` in `Jobs`);
* a second `OnUpdate` on a shared job replaces the callback of the first, which hears
  nothing from then on (`jobs.go:78`);
* with new-style jobs and no login the subscription fails silently, and the answer
  `StartJob` gets is the method's result itself. The comment says "results still
  arrive through the normal JSON-RPC protocol" (`jobs.go:153-154`); in fact a number
  or null is taken for the id of a job, a handle on somebody else's job or on none,
  and any other result is reported as an error;
* `ejson.Unmarshal` accepts a trailing `]` or `}` (`dec.More`, `ejson.go:96`);
* a `time.Time` or `netip.Prefix` inside a typed slice or map is not reached by
  `transform` and comes back as a text, against `ejson.go:42-45` ("including when nested
  inside maps and slices"); `ReadAsMeant` states it. In a struct it is a text as well;
* a float64 with a whole value is sent on as an integer and read as an int64; seconds
  of a UTC offset are dropped, two digits of hours are read whatever they are;
* a login that cannot trust the server ignores whether `auth.logout` worked; if it
  did not, the session stays (a loose login of the contract);
* `midclt subscribe` and `ping` never log in, `-t` of `call -j` does not bound the wait
  for the job's end, `subscribe -n` may print more events than were asked for
  before the process ends, and the callbacks of `call -j` race on `lastDesc`.

## 4. Fairness

`Spec` has none: safety needs none. `FairSpec` assumes, per module:

* the Go scheduler runs every goroutine that can run: weak fairness on the reader,
  on `ConnectContext`, on `Close`, and on each caller's next step. A caller is
  never obliged to begin a call, and the server is never obliged to answer;
* deadlines pass (`ContextEnds(c, "timeout")`), while nobody is obliged to cancel;
* the reader's `ReadMessage` fails after the connection is lost. TCP keepalive
  (`transport.go`, probes every second) is what makes the kernel notice;
* in `Client` only, `WritesReturn`: a blocked `WriteMessage` returns since the peer
  drains the socket. `StallSpec` replaces it by the weaker fact that a write ends
  once the connection is gone, and `client_stall` shows what is lost;
* weak fairness on acquiring `writeMu` suffices here: the instance of `client_live`
  has one call, so it can only be held by `Close`, which releases it within a
  second;
* in `Subscriptions`, `Jobs`, `Login` and `Midclt` API calls end by their deadline
  (`Fails`, `CallFails`); this is what `DeadlineBoundsCall` establishes for `Client`.
  In `Login` the client handles an answer it has (`Got`), and no fairness is asked
  of the server;
* in `Midclt` timers fire and the main goroutine, the reader and the callbacks run;
  that a login returns (`LoginEnds`) is what `LoginReturns` establishes. Nothing
  obliges the server to answer or to send events.

## 5. Proofs

Every theorem holds for all values of the constants that satisfy the module's
named assumption. Each proof has the same shape: an inductive invariant in named
parts, an `Init` and a `Step` lemma for each part with one case per action, lemmas
for what groups of actions have in common, and a last step in temporal logic. TLC
checks the invariants' consequences on instances in the runs. No theorem assumes
fairness.

| module | theorem | property it proves for every instance |
|---|---|---|
| `ClientProofs` | `TypeCorrect`, `CallsAreNeverStranded`, `EveryCallHasOneCloser`, `TableHoldsCallsInFlight`, `AnswersReachTheirCall`, `HandshakeIsAgreed` | the invariants of run `client` |
| | `ClientImplementsContract` | `Client` implements `CallContract` |
| `SubscriptionsProofs` | `TypeCorrect`, `EventsReachCallbacks`, `TerminationsAreReported`, `EventsComeOnceInOrder`, `GoneSubscriptionsStayQuiet` | everything run `subscriptions` checks |
| `JobsProofs` | `TypeCorrect`, `AtMostOneWatcher`, `ResultReportsItsJob`, `TheEndWakesResult`, `CallbacksKeepUp`, `StubsAreMadeInTime` | everything run `jobs` checks |
| `LoginProofs` | `TypeCorrect`, `CredentialsDecide`, `TheKeyStaysHome`, `TheTokenIsSentOnce` | the safety properties of run `login` |
| | `LoginKeepsContract`, `TheSessionIsKnown` | `Login` implements `LoginContract`, and what follows |
| `LoginContractProofs` | `SessionOfTheLogin` | what the contract of a login says about the session |
| `MidcltProofs` | `TypeCorrect`, `DoneIsClosedOnce`, `EventsArePrintedInOrder`, `ZeroMeansDone`, `BarIsLeftFull` | the invariants of run `midclt` |
| `FormatsProofs` | `DocumentsReadAsMeant`, `TypedDecodersAgree`, `KeyFilesAsDocumented` | the invariants of run `formats` |
| | `RoundTrip`, `ShallowRead`, `RevivedIsSendable`, `FileRead` | what the encoders, the decoder and the parser compute |

### FifoLemmas

Frames wait in a sequence of which the reader takes the head and to which the
server appends. The lemmas say what `Head`, `Tail` and `Append` do to the elements,
their order and their places; all proofs about an inbox rest on them.

### ClientProofs

For every set `Calls`, every `Contexts` and every `MaxFrames` (`ClientAssumption`):

* `CallsAreNeverStranded`, `EveryCallHasOneCloser`, `TableHoldsCallsInFlight`: from the
  inductive invariant `TableInv`. The safety properties are not inductive alone:
  that a call taken by `broadcastError` is not closed yet needs that `owed` and the
  table are disjoint and both open; that the table stays empty once `closeErr` is
  set needs `Register`'s test and that `Broadcast` sets both in one critical
  section; that an exited reader owes nothing needs to know when the reader's
  program counter allows `owed` to be non-empty;
* `AnswersReachTheirCall`: from `AnswerInv`, which extends the property to answers
  still in the inbox and in the reader's hands, since an answer in a call's slot
  was in each of these places before;
* `HandshakeIsAgreed`: from `HandshakeInv`, which follows the answer to
  `core.set_options` from the inbox over `newStyleJobs` to the waking of
  `ConnectContext`, and relates the other waking, by `broadcastError`, to `closeErr`;
* `ClientImplementsContract`: `Spec => Contract!Spec`. Under the mapping `Phase`,
  `Verdict`, `closeErr # "none"`, every step is a step of the contract for one call,
  the death of the client, an answer of the server, or a stutter (`StepRefines`).
  It uses `TableInv` and `ContractInv`, which says what `slot` and `outcome` hold at
  each program counter.

### SubscriptionsProofs

For any subscriptions, collections and number of events (`SubscriptionsAssumption`):

* `EventsReachCallbacks`, `TerminationsAreReported`: from `LossInv`. That no event is
  lost is stated of subscriptions that are registered; the invariant says it of
  everyone the server serves, which needs that the server knows only subscriptions
  that have begun and registered (`ServerKnowsBegun`: this is where the order of
  `subscribe`, first the list and then the call, is used), and that one that has gone
  is in no list;
* `EventsComeOnceInOrder`: from `OrderInv`. Events in the inbox are in order, later
  than the one the reader serves, and that one is later than all events any of its
  targets has had or will have from a goroutine;
* `GoneSubscriptionsStayQuiet`: an action property; the reader's snapshot is of
  registered subscriptions, and none of these has gone at that time.

### JobsProofs

For any number of StartJobs, plain calls, jobs, endings and global errors, any number
of calls on one job and any numbers returned. `JobsAssumption` asks that handles and
job ids are finitely many in one run and that the mark for none is neither.

* `TypeCorrect` contains a counting argument: `Objects` has one number for each job
  and each handle, and `jobState` never runs out of them, since an object made is
  either in the table or has been deleted by a `Result`, of which each handle has one
  (`ObjectsSuffice`);
* `AtMostOneWatcher`: from `WatchInv`, which says who holds the claim `jobsWatching`
  while it calls `core.subscribe` without the lock, or is about to drop it;
* `TheEndWakesResult`, `StubsAreMadeInTime`: from `JobInv`. That `Result` wakes says that the
  reader and every `StartJob` on the job have met on one object, whichever came
  first, or that another `Result` came in between. It needs that the update that ends
  a job is its last (`UpdateInv`), that an object is never shared by two jobs and shows
  only updates that were applied (`ObjectInv`), and that as long as no `Result` has
  cleared the job the object with its updates is in the table (`MeetInv`). That an
  entry is deleted only by a `Result` that has been released is the heart of it;
* `ResultReportsItsJob`: from `ResultInv`, for the job whose id `StartJob` got, and from
  `AssignedInv` and `ToldInv`, which follow the naming of a call from the update over
  the inbox to the answer: the update is ahead of any result of the method;
* `CallbacksKeepUp`: a callback registered late has been started with the state its
  job already had, one registered early with every update; the last one registered
  is the one that counts.

### LoginProofs

For any options, servers, connections and number of logins. `LoginAssumption` and
`ScramAssumption` say of the constants what the code relies on: an option has a name
and a password or a text for a key; a server lists its mechanisms, lacks the method
or refuses it before login; certificates with one key are one certificate; the
account's name, token and secret are not empty; and an empty name stays empty.

* `LoginKeepsContract`: `Spec => Implements`. The refinement maps the calls a login
  makes to nothing and their effects to `Grant`, `Revoke`, `Succeed` and `Fail`. A login
  that fails must have no session or be loose. `LoginInv` is what this takes: a
  request that waits is the one the client waits for, or a *stray* of a login that
  got no answer (`WireInv`); a login that runs has not been blamed for anything that
  makes it loose, unless it is about to fail for it (`BlameInv`); and it has the
  session exactly when the answer that grants it is there or it is logging out
  (`SessionInv`). The step lemmas treat the answers of the server alike
  (`AnswersDecide`, `ServerServes`, `ServerIsTruthful`): what is said to the client
  agrees with what happens to the session. `TheSessionIsKnown` then instantiates
  `SessionOfTheLogin` below with `Login`;
* `CredentialsDecide`, soundness: a login that returns nil is `Entitled`, a predicate that
  mentions no message. `StageInv` says what is known at each call about its
  arguments, `HeardInv` what an answer proves. For SCRAM: a proof that the server
  accepts was made with the account's keys over the server's own certificate
  (`ProofProves`, `BindingAgrees`), and a signature the client accepts is made with the
  account's server key over the same exchange (`SuccessIsEarned`);
* `CredentialsDecide`, completeness: an entitled login of which nothing can be blamed on
  the server or the connection does not fail. `TrackInv` follows it from call to call:
  nothing of an earlier login is in the connection, the server's exchange is the
  one this login began, every answer is the one to expect (`Welcome`), so the
  challenge is within the client's limits, the proof is right (`ProofIsRight`) and the
  signature verifies;
* `TheKeyStaysHome`, `TheTokenIsSentOnce`: action properties about the calls the client
  makes; they follow from what each step of the client can send (`WhatIsSent`).

### LoginContractProofs

`SessionOfTheLogin`: `Spec => []SessionIsKnown` for any `MaxAttempts`, with no
assumption. As long as no earlier login is loose, a login that succeeded has the
session and one that failed has left none. The property needs to know that the
session and the loose logins come from logins that have begun (`SessionInv`), so that
a new login starts with a number nobody has.

### MidcltProofs

For any command lines and any number of events (`MidcltAssumption`: each is one of
the five kinds, its number an integer, as the flag package parses it). The invariant
`RunInv` has parts for each command:

* `EventsArePrintedInOrder` (`EventInv`): an event that was sent is printed, in the
  one callback that runs, or behind it in the inbox, in this order;
* `DoneIsClosedOnce` (`CloseInv`): the test of `done` and its close are two steps of one
  callback; that no second callback runs between them, since the subscription is
  synchronous, is the point;
* `ZeroMeansDone` (`EndInv`, `Accepted`, `Earned`): an exit code of 0 means that the
  server has done what was asked, or enough events have come, and that a login that
  was asked for has a session; it follows the end of a job or of a subscription
  from the server over the inbox to the main goroutine;
* `BarIsLeftFull` (`BarInv`): the bar is finished after the last update unless a
  callback of `OnUpdate` is late.

### FormatsProofs

For any values, documents, key files and `MaxNesting`. Four assumptions: `MaxNesting` is
a number (`EjsonAssumption`); the keys of extended values are among the `Shapes`
(`ShapesAssumption`); what the constants hold are values, documents and lines
(`FormatsAssumption`); and `"date" \in STRING`, a fact of TLA+ for which no prover has a
rule (`StringAssumption`).

The proofs are inductions over data. The theorem of the library for them takes a
predicate, which the provers cannot instantiate; `SetInduction` says the same of a
set and follows from `WFMin`, that a well-founded order has minimal elements. With
it:

* the recursive functions exist and satisfy their equations: `UpToDefined` for the
  levels of nesting, then `NativeDefined`, `MarshalDefined`, `ReviveDefined` and the
  like for functions on the values of all levels;
* `RoundTrip`: what the server writes is read as meant, and what this client writes if
  and only if `Reaches` holds of it. By induction on the level of a value `ReadBack` says
  what each encoding is decoded to; `ReachedTold` that this is what was meant exactly
  for the values `transform` gets through, since a time or prefix it misses comes
  back as a text and no other part can make up for it. One lemma for each form of
  value says what its encoding is decoded to. The leaves are arithmetic: a time before
  1970 is floored to its second and millisecond (`Instant`), the six digits of a
  fraction are read as nanoseconds, an offset is divided into hours and minutes and
  put together again, a date that is valid is parsed as the same date. The other
  forms are that `revive` undoes what `transform` did to the parts, that no part
  becomes an error, and that no map is taken for an extended value;
* `ShallowRead`: `RoundTrip` speaks of values whose encoding is a document, that is, not
  nested too deep. Each level of values takes two levels of a document at most (a
  set is an object and a list), so that values up to half the depth are always
  read, to values no deeper, and `RoundTrip` says to which;
* `RevivedIsSendable`: what `Unmarshal` returns is a value `Marshal` takes, also when the
  document was somebody else's. This is why a program may send on what it has
  read, and it is the step `SendOn` of the invariant;
* `FileRead`: parser and documentation agree on a file. `Loop` is the invariant of the
  loop in `parseINIKeyConfig`: after `n` lines `sections`, `order` and `current` are what the
  first `n` lines say, where the documentation speaks of the last header before a
  line and of the last pair with a key.

`FormatsInv` has one part for documents and one for key files: a document that was
sent stands for what was meant (`SentAs`), the outcome of reading it is that of
`Unmarshal` and can be sent on; the lines of a file and what they mean go together.
`DocumentsReadAsMeant` and `KeyFilesAsDocumented` follow with `RoundTrip` and `FileRead`,
`TypedDecodersAgree` from what both decoders make of the three extended types.

### Only model-checked

* Liveness: `DeadlineBoundsCall`, `TakenCallReturns`, `LossEndsCalls`, `ConnectReturns`,
  `LossEndsWaiting`, `WatchedJobEnds`, `WatchLetsCallsPass`, `LoginReturns`, `DueRunExits`. They
  rest on fairness and ENABLED, which are outside the prover's reach.
* The four violations, which are counterexamples of instances.

## 6. Not modelled

* Transport (`transport.go`): dialling, reserved ports with a bounded number of
  retries, keepalive. Options of libraries and of the kernel; the modules start
  from a dialled connection.
* Wire types and error texts (`jsonrpc.go`, `errors.go`): declarations. Where their
  distinctions matter (an errno, a method that does not exist) they are kinds of
  frames and answers.
* The characters of JSON, INI files, SCRAM messages, flags and parameters: what
  splitting and quoting do is abstracted to the parts they yield.
* Callbacks that call the client themselves. A synchronous one blocks the reader
  that would have to read its answer, until the call's deadline.
* The payloads of calls and events.

## 7. Plan

Every safety property of the runs is proved; what is left is smaller. Lemmas about
the operators of `Scram` as such (which bindings two certificates share) could be
stated for their own sake. The abstract login that `Midclt` uses and the one that
`Login` implements are one contract; a module that composes `Midclt` with `Login` itself
would only repeat it. Hazards without a property in `PROJECT.json` say why they have
none.
