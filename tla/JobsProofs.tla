------------------------------ MODULE JobsProofs ------------------------------
(***************************************************************************)
(* Proofs about Jobs, for any number of StartJobs and jobs, with every     *)
(* ending of a job, any number of global errors and plain calls in         *)
(* between.                                                                *)
(***************************************************************************)
EXTENDS Jobs, FifoLemmas, FiniteSetTheorems

-----------------------------------------------------------------------------
(* The inductive invariant *)

\* Program counters and what they imply about the variables beside them.
CallerInv ==
  \A h \in Handles :
    /\ pc[h] \in {"answered", "waiting", "forget", "collect"} => id[h] \in JobIds
    /\ pc[h] \in {"waiting", "forget", "collect"} => obj[h] # 0
    /\ obj[h] # 0 => id[h] \in JobIds /\ pc[h] \in {"waiting", "forget", "collect", "done"}
    /\ <<"reply", h>> \in requests => assigned[h] \in JobIds

ReaderInv ==
  /\ rpc \in {"lookup", "update"} => frame \in Frame /\ frame.kind = "job"
  /\ rpc = "update" => robj \in Objects
  /\ rpc \in {"fail", "closing", "exited"} => dead
  /\ \A o \in Objects : failure[o] => dead

\* The objects made are as many as jobs tracked and handles that may have
\* forgotten theirs: this is why Objects has enough of them.
Remembered == {j \in JobIds : jobs[j] # 0}
Over == {h \in Handles : pc[h] \in {"collect", "done"}}
ObjectsSuffice == made <= Cardinality(Remembered) + Cardinality(Over)

TypeInv == TypeOK /\ CallerInv /\ ReaderInv /\ ObjectsSuffice

\* One StartJob at a time holds the claim to the watch.
Claiming == {"subscribing", "unwatch", "unwatchQuietly"}

WatchInv ==
  /\ ~jobsWatching => watchers = {}
  /\ \A g, h \in watchers : g = h
  /\ jobsWatching => watchers # {} \/ \E h \in Handles : pc[h] \in {"unwatch", "unwatchQuietly"}
  /\ \A h \in Handles : pc[h] \in Claiming =>
       jobsWatching /\ watchers = IF pc[h] = "subscribing" THEN {h} ELSE {}
  /\ \A g, h \in Handles : pc[g] \in Claiming /\ pc[h] \in Claiming => g = h

\* The program counters before StartJob has its answer.
Early == {"idle", "subscribing", "unwatch", "unwatchQuietly", "call"}
Unanswered == Early \cup {"calling"}

\* What a frame on its way does for a call: respond to it, or name it in an update.
Responds(i, h) == inbox[i].kind \in {"id", "result"} /\ inbox[i].to = h
Names(i, h) == inbox[i].kind = "job" /\ h \in inbox[i].ids

\* The server has not come to the call yet.
Unserved(h) == assigned[h] = None /\ id[h] = None /\ \A i \in DOMAIN inbox : ~Responds(i, h)

\* StartJob was answered with a number that is not the id of its job: the job had
\* ended by then, and no update had named the call.
Misled(h) == newStyle /\ progress[assigned[h]] \in Finals /\ h \notin told

AssignedInv ==
  /\ \A h \in Handles :
       /\ pc[h] \in Early => <<"job", h>> \notin requests
       /\ <<"job", h>> \in requests \/ pc[h] \in Early => Unserved(h)
       /\ h \in told => assigned[h] # None
       /\ id[h] # None /\ assigned[h] # None => id[h] = assigned[h] \/ Misled(h)
  /\ \A i \in DOMAIN inbox : \A h \in Handles :
       /\ Names(i, h) => assigned[h] = inbox[i].job
       /\ Responds(i, h) /\ assigned[h] # None =>
            /\ newStyle => progress[assigned[h]] \in Finals
            /\ ~newStyle /\ inbox[i].kind = "id" => inbox[i].job = assigned[h]

\* The update that named a call that still waits is on its way, before whatever
\* responds to it.
NamedFirst(h) ==
  \E i \in DOMAIN inbox : Names(i, h) /\ \A k \in DOMAIN inbox : Responds(k, h) => i < k

ToldInv == \A h \in told : newStyle /\ ~dead /\ pc[h] = "calling" => NamedFirst(h)

\* The update that ends a job is the last one of it, on its way, in the reader's
\* hands and applied.
InHand(j) == rpc \in {"lookup", "update"} /\ frame.job = j
OnItsWay(j) == \E i \in DOMAIN inbox : inbox[i].kind = "job" /\ inbox[i].job = j

UpdateInv ==
  /\ \A i \in DOMAIN inbox : inbox[i].kind = "job" /\ inbox[i].state \in Finals =>
       /\ inbox[i].changed /\ progress[inbox[i].job] = inbox[i].state
       /\ \A k \in DOMAIN inbox : i < k /\ inbox[k].kind = "job" => inbox[k].job # inbox[i].job
  /\ rpc \in {"lookup", "update"} /\ frame.state \in Finals =>
       frame.changed /\ progress[frame.job] = frame.state /\ ~OnItsWay(frame.job)
  /\ \A j \in JobIds : \A state \in applied[j] \cap Finals :
       progress[j] = state /\ ~OnItsWay(j) /\ ~InHand(j)

\* Who refers to an object refers to it for the same job, and sees its updates.
Of(o, j) ==
  \/ jobs[j] = o
  \/ \E h \in Handles : obj[h] = o /\ id[h] = j
  \/ rpc = "update" /\ frame.job = j /\ robj = o

ObjectInv ==
  /\ \A o \in Objects :
       /\ o > made => fields[o] = None /\ ~ready[o] /\ o \notin toFail
       /\ ready[o] => failure[o] \/ fields[o] \in Finals
       /\ \A j \in JobIds : Of(o, j) =>
            o <= made /\ (fields[o] # None => fields[o] \in applied[j])
       /\ \A j, k \in JobIds : Of(o, j) /\ Of(o, k) => j = k

\* Whose Result has come past the wait.
Reported == {"result", "jobError", "connError"}
Released(h) == pc[h] \in {"forget", "collect"} \/ outcome[h] \in Reported

\* An entry of the table is gone only if a Result has deleted it.
MeetInv ==
  /\ \A h \in Handles :
       /\ Released(h) => obj[h] # 0 /\ ready[obj[h]]
       /\ outcome[h] \in Reported => pc[h] = "done"
       /\ obj[h] # 0 => jobs[id[h]] = obj[h] \/ Cleared(id[h])
  /\ rpc = "update" => jobs[frame.job] = robj \/ Cleared(frame.job)
  /\ \A j \in JobIds :
       /\ applied[j] # {} => jobs[j] # 0 \/ Cleared(j)
       /\ applied[j] \cap Finals # {} => Cleared(j) \/ (jobs[j] # 0 /\ ready[jobs[j]])
  /\ FinalWakes

\* What Result returns stays true of the job.
ResultInv ==
  \A h \in Handles :
    /\ outcome[h] = "result" => progress[id[h]] = "SUCCESS"
    /\ outcome[h] = "jobError" => progress[id[h]] \in {"FAILED", "ABORTED"}
    /\ outcome[h] = "connError" => dead

-----------------------------------------------------------------------------
(* Counting objects *)

LEMMA Counting ==
  /\ IsFiniteSet(Handles) /\ Cardinality(Handles) \in Nat
  /\ IsFiniteSet(JobIds) /\ Cardinality(JobIds) \in Nat
  /\ Objects \subseteq Nat /\ 0 \notin Objects
BY JobsAssumption, FS_CardinalityType DEF JobsAssumption, Objects

\* What is counted is finite.
LEMMA Counted ==
  /\ IsFiniteSet(Remembered) /\ Cardinality(Remembered) \in Nat
  /\ IsFiniteSet(Over) /\ Cardinality(Over) \in Nat
  /\ Cardinality(Remembered) <= Cardinality(JobIds)
  /\ Cardinality(Over) <= Cardinality(Handles)
<1>1. Remembered \in SUBSET JobIds /\ Over \in SUBSET Handles
  BY DEF Remembered, Over
<1>2. QED
  BY <1>1, Counting, FS_Subset, FS_CardinalityType

\* As long as a job is not tracked there is an object left for it.
LEMMA Room ==
  ASSUME TypeOK, ObjectsSuffice, NEW j \in JobIds, jobs[j] = 0
  PROVE  made + 1 \in Objects
<1>1. Remembered \in SUBSET (JobIds \ {j})
  BY DEF Remembered
<1>2. IsFiniteSet(JobIds \ {j}) /\ Cardinality(JobIds \ {j}) = Cardinality(JobIds) - 1
  BY Counting, FS_RemoveElement
<1>3. Cardinality(Remembered) <= Cardinality(JobIds) - 1
  BY <1>1, <1>2, FS_Subset
<1>4. made \in Nat
  BY Counting DEF TypeOK
<1>5. QED
  BY <1>3, <1>4, Counting, Counted DEF ObjectsSuffice, Objects

\* The object of a job is one that is tracked from then on.
LEMMA JobStateType ==
  ASSUME TypeOK, ObjectsSuffice, NEW j \in JobIds, JobState(j)
  PROVE  /\ jobs' \in [JobIds -> Objects \cup {0}] /\ made' \in Objects \cup {0}
         /\ jobs'[j] \in Objects
         /\ \A k \in JobIds : k # j => jobs'[k] = jobs[k]
         /\ jobs[j] # 0 => jobs' = jobs /\ made' = made
         /\ jobs[j] = 0 => jobs'[j] = made + 1 /\ made' = made + 1
<1>1. CASE jobs[j] # 0
  BY <1>1 DEF JobState, TypeOK
<1>2. CASE jobs[j] = 0
  BY <1>2, Room DEF JobState, TypeOK
<1>3. QED
  BY <1>1, <1>2

LEMMA SufficeUnlessForgotten ==
  ASSUME ObjectsSuffice, UNCHANGED made, Remembered \subseteq Remembered', Over \subseteq Over',
         made \in Nat
  PROVE  ObjectsSuffice'
<1>1. IsFiniteSet(Remembered') /\ IsFiniteSet(Over')
  <2>1. Remembered' \in SUBSET JobIds /\ Over' \in SUBSET Handles
    BY DEF Remembered, Over
  <2>2. QED
    BY <2>1, Counting, FS_Subset
<1>2. /\ Cardinality(Remembered) <= Cardinality(Remembered') /\ Cardinality(Remembered') \in Nat
      /\ Cardinality(Over) <= Cardinality(Over') /\ Cardinality(Over') \in Nat
  BY <1>1, FS_Subset, FS_CardinalityType
<1>3. QED
  BY <1>2, Counted DEF ObjectsSuffice

-----------------------------------------------------------------------------
(* Type correctness *)

\* Frames are told apart by their kind.
LEMMA FrameKinds ==
  ASSUME NEW f \in Frame
  PROVE  /\ f.kind = "subscribed" => f.to \in Handles /\ f.verdict \in {"ok", "notauth", "error"}
         /\ f.kind = "id" => f.to \in Handles /\ f.job \in JobIds
         /\ f.kind = "result" => f.to \in Handles
         /\ f.kind = "job" => f.job \in JobIds /\ f.changed \in BOOLEAN /\ f.state \in State
                              /\ f.ids \subseteq Handles
BY DEF Frame

\* The frame the reader takes is a frame of its kind, and frames remain.
LEMMA ReadsType ==
  ASSUME TypeOK, NEW kind, Reads(kind)
  PROVE  /\ Head(inbox) \in Frame /\ Head(inbox).kind = kind /\ inbox' \in Seq(Frame)
         /\ rpc = "read" /\ UNCHANGED <<up, serverVars, settled>>
BY ReadingInbox DEF Reads, TypeOK

\* The server's frames are frames.
LEMMA PostType ==
  ASSUME TypeOK, NEW f \in Frame, Post(f)
  PROVE  /\ inbox' \in Seq(Frame)
         /\ UNCHANGED <<up, settled, watchVars, jobs, objVars, callerVars, readerVars>>
         /\ \A i \in DOMAIN inbox' :
              \/ i \in DOMAIN inbox /\ inbox'[i] = inbox[i]
              \/ i = Len(inbox) + 1 /\ inbox'[i] = f
         /\ DOMAIN inbox = 1..Len(inbox) /\ Len(inbox) \in Nat
<1>1. inbox \in Seq(Frame) /\ inbox' = Append(inbox, f)
  BY DEF Post, TypeOK
<1>2. inbox' \in Seq(Frame) /\ DOMAIN inbox' = 1..Len(inbox') /\ DOMAIN inbox = 1..Len(inbox) /\ Len(inbox) \in Nat
  BY <1>1, SendingFrame
<1>3. QED
  BY <1>1, <1>2, SendingFrame DEF Post

\* A response takes its request away and says what it says of the call only.
LEMMA ResponseType ==
  ASSUME TypeOK, CallerInv, NEW h \in Handles, ServerReplies(h) \/ ServerReturns(h)
  PROVE  /\ requests' \subseteq requests
         /\ UNCHANGED <<errors, subscribed, assigned, told, progress>>
         /\ \E f \in Frame :
              /\ Post(f) /\ f.kind \in {"id", "result"} /\ f.to = h
              /\ \/ <<"job", h>> \in requests /\ <<"job", h>> \notin requests'
                 \/ /\ assigned[h] \in JobIds
                    /\ newStyle => progress[assigned[h]] \in Finals
                    /\ ~newStyle => f.kind = "id" /\ f.job = assigned[h]
<1>1. requests' \subseteq requests /\ UNCHANGED <<errors, subscribed, assigned, told, progress>>
  BY DEF ServerReplies, ServerReturns
<1>2. [kind |-> "result", to |-> h] \in Frame
  BY DEF Frame
<1>3. \A n \in JobIds : [kind |-> "id", to |-> h, job |-> n] \in Frame
  BY DEF Frame
<1>4. PostResult(h) => \E f \in Frame : Post(f) /\ f.kind \in {"id", "result"} /\ f.to = h
  BY <1>2, <1>3 DEF PostResult
<1>5. CASE ServerReplies(h)
  <2>1. assigned[h] \in JobIds
    BY <1>5 DEF ServerReplies, CallerInv
  <2>2. CASE newStyle
    <3>1. progress[assigned[h]] \in Finals
      BY <1>5, <2>2 DEF ServerReplies, Finals
    <3>2. \E f \in Frame : Post(f) /\ f.kind \in {"id", "result"} /\ f.to = h
      BY <1>2, <1>4, <1>5, <2>2 DEF ServerReplies
    <3>3. QED
      BY <1>1, <2>1, <2>2, <3>1, <3>2
  <2>3. CASE ~newStyle
    <3>1. Post([kind |-> "id", to |-> h, job |-> assigned[h]])
      BY <1>5, <2>3 DEF ServerReplies
    <3>2. QED
      BY <1>1, <1>3, <2>1, <2>3, <3>1
  <2>4. QED
    BY <2>2, <2>3
<1>6. CASE ServerReturns(h)
  <2>1. \E f \in Frame : Post(f) /\ f.kind \in {"id", "result"} /\ f.to = h
    BY <1>2, <1>4, <1>6 DEF ServerReturns
  <2>2. <<"job", h>> \in requests /\ <<"job", h>> \notin requests'
    BY <1>6 DEF ServerReturns
  <2>3. QED
    BY <1>1, <2>1, <2>2
<1>7. QED
  BY <1>5, <1>6

\* What the server and the network leave alone.
LEMMA ServerKeeps ==
  ASSUME Server \/ ConnectionLost \/ UNCHANGED vars
  PROVE  UNCHANGED <<settled, watchVars, jobs, objVars, callerVars, readerVars>>
BY DEF Server, ServerAnswersSubscribe, ServerStarts, ServerRuns, PostUpdate, ServerReplies, ServerReturns,
       PostResult, ServerFails, ServerEndsWatch, Post, ConnectionLost, vars

LEMMA ReportType ==
  ASSUME NEW j \in JobIds, NEW changed \in BOOLEAN, progress'[j] \in State
  PROVE  Report(j, changed) \in Frame
BY DEF Report, Callers, Frame

LEMMA InitType == Init => TypeInv
<1> SUFFICES ASSUME Init PROVE TypeInv
  OBVIOUS
<1>1. TypeOK
  <2>1. inbox \in Seq(Frame)
    BY EmptySeq DEF Init
  <2>2. errors \in 0..MaxErrors /\ requests \subseteq {"subscribe", "job", "reply"} \X Handles
    BY JobsAssumption DEF Init, JobsAssumption
  <2>3. QED
    BY <2>1, <2>2 DEF Init, TypeOK
<1>2. CallerInv /\ ReaderInv
  BY DEF Init, CallerInv, ReaderInv
<1>3. ObjectsSuffice
  BY Counted DEF Init, ObjectsSuffice
<1>4. QED
  BY <1>1, <1>2, <1>3 DEF TypeInv

LEMMA StepTypeOK == TypeInv /\ [Next]_vars => TypeOK'
<1> SUFFICES ASSUME TypeInv, [Next]_vars PROVE TypeOK'
  OBVIOUS
<1> USE DEF TypeInv, serverVars, settled, watchVars, objVars, callerVars, readerVars
<1>1. ASSUME NEW op \in {"subscribe", "job"}, NEW h \in Handles, Request(op, h)
      PROVE  requests' \subseteq {"subscribe", "job", "reply"} \X Handles
  <2>1. <<op, h>> \in {"subscribe", "job", "reply"} \X Handles
    OBVIOUS
  <2>2. QED
    BY <1>1, <2>1 DEF Request, TypeOK
<1>2. ASSUME NEW h \in Handles, Watch(h) PROVE TypeOK'
  <2>1. requests' = requests \/ Request("subscribe", h)
    BY <1>2 DEF Watch
  <2>2. requests' \subseteq {"subscribe", "job", "reply"} \X Handles
    BY <1>1, <2>1 DEF TypeOK
  <2>3. /\ pc' = [pc EXCEPT ![h] = "call"] \/ pc' = [pc EXCEPT ![h] = "subscribing"]
        /\ jobsWatching' \in BOOLEAN /\ watchers' \subseteq Handles
    BY <1>2 DEF Watch, Goes, TypeOK
  <2>4. QED
    BY <1>2, <2>2, <2>3 DEF TypeOK, Watch
<1>3. ASSUME NEW h \in Handles, Unwatch(h) PROVE TypeOK'
  <2>1. pc' = [pc EXCEPT ![h] = "done"] \/ pc' = [pc EXCEPT ![h] = "call"]
    BY <1>3 DEF Unwatch, GivesUp, Goes
  <2>2. outcome' = outcome \/ outcome' = [outcome EXCEPT ![h] = "notStarted"]
    BY <1>3 DEF Unwatch, GivesUp, Returned
  <2>3. jobsWatching' \in BOOLEAN /\ UNCHANGED <<up, inbox, serverVars, settled, watchers, jobs, objVars, id, obj, readerVars>>
    BY <1>3 DEF Unwatch
  <2>4. /\ pc' \in [Handles -> {"idle", "subscribing", "unwatch", "unwatchQuietly", "call",
                                "calling", "answered", "waiting", "forget", "collect", "done"}]
        /\ outcome' \in [Handles -> {None, "notStarted", "result", "jobError", "connError", "canceled"}]
    BY <2>1, <2>2 DEF TypeOK
  <2>5. QED
    BY <2>3, <2>4 DEF TypeOK
<1>4. ASSUME NEW h \in Handles, SendCall(h) PROVE TypeOK'
  <2>1. requests' \subseteq {"subscribe", "job", "reply"} \X Handles
    BY <1>1, <1>4 DEF SendCall
  <2>2. QED
    BY <1>4, <2>1 DEF TypeOK, SendCall, Goes
<1>5. ASSUME NEW h \in Handles, CallFails(h) PROVE TypeOK'
  <2>1. \E x \in {"done", "unwatch", "unwatchQuietly"} : pc' = [pc EXCEPT ![h] = x]
    BY <1>5 DEF CallFails, SubscribeFails, AfterFailure, GivesUp, Goes
  <2>2. outcome' = outcome \/ outcome' = [outcome EXCEPT ![h] = "notStarted"]
    BY <1>5 DEF CallFails, GivesUp, Returned
  <2>3. watchers' \subseteq Handles
    BY <1>5 DEF CallFails, SubscribeFails, TypeOK
  <2>4. QED
    BY <1>5, <2>1, <2>2, <2>3 DEF TypeOK, CallFails
<1>6. ASSUME NEW h \in Handles, TakeState(h) PROVE TypeOK'
  <2>1. id[h] \in JobIds
    BY <1>6 DEF TakeState, CallerInv
  <2>2. jobs' \in [JobIds -> Objects \cup {0}] /\ made' \in Objects \cup {0} /\ jobs'[id[h]] \in Objects
    BY <1>6, <2>1, JobStateType DEF TakeState
  <2>3. QED
    BY <1>6, <2>2 DEF TypeOK, TakeState, Goes
<1>7. ASSUME NEW h \in Handles, OnUpdate(h) PROVE TypeOK'
  <2>1. obj[h] \in Objects
    BY <1>7 DEF OnUpdate, CallerInv, TypeOK
  <2>2. notified' \in [Handles -> State \cup {None}]
    <3>1. Replay(h) => fields[obj[h]] \in State
      BY <2>1 DEF Replay, TypeOK
    <3>2. QED
      BY <1>7, <3>1 DEF OnUpdate, Replay, TypeOK
  <2>3. QED
    BY <1>7, <2>1, <2>2 DEF TypeOK, OnUpdate
<1>8. ASSUME NEW h \in Handles, Result(h) PROVE TypeOK'
  <2>1. CASE ResultReady(h)
    BY <2>1 DEF TypeOK, ResultReady, Goes
  <2>2. CASE ResultCanceled(h)
    BY <2>2 DEF TypeOK, ResultCanceled, Goes
  <2>3. CASE Forget(h)
    <3>1. jobs' \in [JobIds -> Objects \cup {0}] /\ pc' = [pc EXCEPT ![h] = "collect"]
      BY <2>3 DEF TypeOK, Forget, Goes
    <3>2. QED
      BY <2>3, <3>1 DEF TypeOK, Forget
  <2>4. CASE Collect(h)
    BY <2>4 DEF TypeOK, Collect, Goes, Verdict
  <2>5. QED
    BY <1>8, <2>1, <2>2, <2>3, <2>4 DEF Result
<1>9. CASE ReadSubscribed
  <2>1. Head(inbox).to \in Handles /\ Head(inbox).verdict \in {"ok", "notauth", "error"} /\ inbox' \in Seq(Frame)
    BY <1>9, ReadsType, FrameKinds DEF ReadSubscribed
  <2>2. QED
    BY <1>9, <2>1 DEF TypeOK, ReadSubscribed, Reads, SubscribeFails, AfterFailure, Goes
<1>10. ASSUME NEW H, NEW j \in JobIds, Answer(H, j)
       PROVE  id' \in [Handles -> JobIds \cup {None}]
              /\ pc' \in [Handles -> {"idle", "subscribing", "unwatch", "unwatchQuietly", "call",
                                      "calling", "answered", "waiting", "forget", "collect", "done"}]
  BY <1>10 DEF TypeOK, Answer
<1>11. CASE ReadId
  <2>1. Head(inbox).job \in JobIds /\ inbox' \in Seq(Frame)
    BY <1>11, ReadsType, FrameKinds DEF ReadId
  <2> HIDE DEF serverVars, settled
  <2>2. UNCHANGED <<up, serverVars, settled>>
    BY <1>11 DEF ReadId, Reads
  <2>3. \E H : Answer(H, Head(inbox).job)
    BY <1>11 DEF ReadId
  <2>4. QED
    BY <1>10, <1>11, <2>1, <2>2, <2>3 DEF TypeOK, ReadId, serverVars, settled
<1>12. CASE ReadResult
  <2>1. Head(inbox).to \in Handles /\ inbox' \in Seq(Frame)
    BY <1>12, ReadsType, FrameKinds DEF ReadResult
  <2>2. UNCHANGED <<up, serverVars, settled, watchVars, jobs, objVars, id, obj, readerVars>>
    BY <1>12 DEF ReadResult, Reads
  <2>3. PICK h \in Handles : \/ GivesUp(h)
                            \/ UNCHANGED <<pc, outcome>>
    BY <1>12, <2>1 DEF ReadResult
  <2>4. pc' = [pc EXCEPT ![h] = "done"] \/ pc' = pc
    BY <2>3 DEF GivesUp, Goes
  <2>5. outcome' = [outcome EXCEPT ![h] = "notStarted"] \/ outcome' = outcome
    BY <2>3 DEF GivesUp, Returned
  <2>6. /\ pc' \in [Handles -> {"idle", "subscribing", "unwatch", "unwatchQuietly", "call",
                                "calling", "answered", "waiting", "forget", "collect", "done"}]
        /\ outcome' \in [Handles -> {None, "notStarted", "result", "jobError", "connError", "canceled"}]
    BY <2>4, <2>5 DEF TypeOK
  <2>7. QED
    BY <2>1, <2>2, <2>6 DEF TypeOK
<1>13. CASE ReadJob
  <2>1. Head(inbox) \in Frame /\ Head(inbox).job \in JobIds /\ inbox' \in Seq(Frame)
    BY <1>13, ReadsType, FrameKinds DEF ReadJob
  <2>2. UNCHANGED <<up, serverVars, settled>>
    BY <1>13 DEF ReadJob, Reads
  <2>3. \E H : Answer(H, Head(inbox).job)
    BY <1>13 DEF ReadJob
  <2>4. QED
    BY <1>10, <1>13, <2>1, <2>2, <2>3 DEF TypeOK, ReadJob
<1>14. CASE Lookup
  <2>1. frame.job \in JobIds
    BY <1>14, FrameKinds DEF Lookup, ReaderInv
  <2>2. jobs' \in [JobIds -> Objects \cup {0}] /\ made' \in Objects \cup {0} /\ jobs'[frame.job] \in Objects
    BY <1>14, <2>1, JobStateType DEF Lookup
  <2>3. QED
    BY <1>14, <2>2 DEF TypeOK, Lookup
<1>15. CASE Update
  <2>1. robj \in Objects /\ frame.job \in JobIds /\ frame.state \in State
    BY <1>15, FrameKinds DEF Update, ReaderInv
  <2>2. fields' \in [Objects -> State \cup {None}] /\ notified' \in [Handles -> State \cup {None}]
    BY <1>15, <2>1 DEF TypeOK, Update
  <2>3. ready' \in [Objects -> BOOLEAN]
    BY <1>15, <2>1 DEF TypeOK, Update, Completes
  <2>4. applied' \in [JobIds -> SUBSET State]
    BY <1>15, <2>1 DEF TypeOK, Update
  <2>5. QED
    BY <1>15, <2>2, <2>3, <2>4 DEF TypeOK, Update
<1>16. ASSUME NEW next \in {"fail", "closing"}, Broadcast(next), inbox' \in Seq(Frame),
             UNCHANGED <<up, serverVars, settled>>
       PROVE  TypeOK'
  BY <1>16 DEF TypeOK, Broadcast, Tracked
<1>17. CASE ReadGlobalError
  BY <1>16, <1>17, ReadsType DEF ReadGlobalError
<1>18. CASE ReaderCloses
  BY <1>16, <1>18, EmptySeq DEF ReaderCloses
<1>19. CASE BroadcastDone
  BY <1>19 DEF TypeOK, BroadcastDone
<1>20. ASSUME NEW o \in Objects, Fail(o) PROVE TypeOK'
  BY <1>20 DEF TypeOK, Fail
<1>21. CASE Server
  <2>1. ASSUME NEW f \in Frame, Post(f), requests' \subseteq {"subscribe", "job", "reply"} \X Handles,
               errors' \in 0..MaxErrors, subscribed' \in BOOLEAN, UNCHANGED assigned,
               told' \subseteq Handles, progress' \in [JobIds -> State \cup {None, "queued"}]
        PROVE  TypeOK'
    BY <2>1, PostType DEF TypeOK
  <2>2. ASSUME NEW h \in Handles, NEW verdict \in {"ok", "notauth", "error"},
               ServerAnswersSubscribe(h, verdict)
        PROVE  TypeOK'
    <3>1. [kind |-> "subscribed", to |-> h, verdict |-> verdict] \in Frame
      BY DEF Frame
    <3>2. QED
      BY <2>1, <2>2, <3>1 DEF ServerAnswersSubscribe, TypeOK
  <2>3. ASSUME NEW h \in Handles, NEW j \in JobIds, ServerStarts(h, j) PROVE TypeOK'
    <3>1. requests' \subseteq {"subscribe", "job", "reply"} \X Handles
      BY <2>3 DEF ServerStarts, TypeOK
    <3>2. QED
      BY <2>3, <3>1 DEF ServerStarts, TypeOK
  <2>4. ASSUME NEW j \in JobIds, NEW state \in State, ServerRuns(j, state) PROVE TypeOK'
    <3>1. progress' \in [JobIds -> State \cup {None, "queued"}] /\ progress'[j] \in State
      BY <2>4 DEF ServerRuns, TypeOK
    <3>0. told' \subseteq Handles
      BY <2>4 DEF ServerRuns, Callers, TypeOK
    <3>2. CASE subscribed
      <4>1. Report(j, progress[j] # "queued") \in Frame
        BY <3>1, ReportType
      <4>2. QED
        BY <2>1, <2>4, <3>0, <3>1, <3>2, <4>1 DEF ServerRuns, PostUpdate, TypeOK
    <3>3. CASE ~subscribed
      BY <2>4, <3>0, <3>1, <3>3 DEF ServerRuns, PostUpdate, TypeOK
    <3>4. QED
      BY <3>2, <3>3
  <2>5. ASSUME NEW h \in Handles, ServerReplies(h) \/ ServerReturns(h) PROVE TypeOK'
    <3>1. PICK f \in Frame : Post(f)
      BY <2>5, ResponseType
    <3>2. requests' \subseteq requests /\ UNCHANGED <<errors, subscribed, assigned, told, progress>>
      BY <2>5, ResponseType
    <3>3. QED
      BY <2>1, <3>1, <3>2 DEF TypeOK
  <2>7. CASE ServerFails
    <3>1. [kind |-> "global"] \in Frame
      BY DEF Frame
    <3>2. errors' \in 0..MaxErrors
      BY <2>7, JobsAssumption DEF ServerFails, TypeOK, JobsAssumption
    <3>3. QED
      BY <2>1, <2>7, <3>1, <3>2 DEF ServerFails, TypeOK
  <2>8. CASE ServerEndsWatch
    <3>1. errors' \in 0..MaxErrors
      BY <2>8, JobsAssumption DEF ServerEndsWatch, TypeOK, JobsAssumption
    <3>2. subscribed' \in BOOLEAN
      BY <2>8 DEF ServerEndsWatch
    <3>3. UNCHANGED <<up, inbox, requests, assigned, told, progress, settled, watchVars, jobs,
                      objVars, callerVars, readerVars>>
      BY <2>8 DEF ServerEndsWatch
    <3>4. QED
      BY <3>1, <3>2, <3>3 DEF TypeOK
  <2>9. QED
    BY <1>21, <2>2, <2>3, <2>4, <2>5, <2>7, <2>8 DEF Server
<1>22. CASE ConnectionLost
  <2>1. up' \in BOOLEAN /\ requests' \subseteq {"subscribe", "job", "reply"} \X Handles
    BY <1>22 DEF ConnectionLost
  <2>2. UNCHANGED <<inbox, errors, subscribed, assigned, told, progress, settled, watchVars, jobs,
                    objVars, callerVars, readerVars>>
    BY <1>22 DEF ConnectionLost
  <2>3. QED
    BY <2>1, <2>2 DEF TypeOK
<1>23. CASE UNCHANGED vars
  BY <1>23 DEF vars, TypeOK
<1>24. QED
  BY <1>2, <1>3, <1>4, <1>5, <1>6, <1>7, <1>8, <1>9, <1>11, <1>12, <1>13, <1>14, <1>15,
     <1>17, <1>18, <1>19, <1>20, <1>21, <1>22, <1>23 DEF Next, StartJob, Reader

\* What the steps of a StartJob do before the answer, and the reader's for it.
Hurries(h) ==
  /\ pc[h] \in Unanswered /\ pc'[h] \in Unanswered \cup {"done"}
  /\ pc' = [pc EXCEPT ![h] = pc'[h]]
  /\ pc[h] = "calling" => pc'[h] = "done"
  /\ \/ requests' \subseteq requests \cup {<<"subscribe", h>>}
     \/ /\ pc[h] = "call" /\ pc'[h] = "calling"
        /\ requests' \subseteq requests \cup {<<"job", h>>}
  /\ UNCHANGED <<errors, subscribed, assigned, told, progress, settled, jobs, objVars, id, obj,
                 readerVars>>

LEMMA CallerHurries ==
  ASSUME TypeOK, NEW h \in Handles, Watch(h) \/ Unwatch(h) \/ SendCall(h) \/ CallFails(h)
  PROVE  Hurries(h) /\ UNCHANGED <<up, inbox>>
<1> USE DEF TypeOK, Hurries, Unanswered, Early
<1>1. CASE Watch(h)
  BY <1>1 DEF Watch, Goes, Request
<1>2. CASE Unwatch(h)
  <2>1. pc' = [pc EXCEPT ![h] = "done"] \/ pc' = [pc EXCEPT ![h] = "call"]
    BY <1>2 DEF Unwatch, GivesUp, Goes
  <2>2. QED
    BY <1>2, <2>1 DEF Unwatch, serverVars
<1>3. CASE SendCall(h)
  BY <1>3 DEF SendCall, Goes, Request
<1>4. CASE CallFails(h)
  <2>1. \/ pc[h] = "subscribing" /\ \E x \in {"unwatch", "unwatchQuietly"} : pc' = [pc EXCEPT ![h] = x]
        \/ pc[h] = "calling" /\ pc' = [pc EXCEPT ![h] = "done"]
    BY <1>4 DEF CallFails, SubscribeFails, AfterFailure, GivesUp, Goes
  <2>2. QED
    BY <1>4, <2>1 DEF CallFails, serverVars
<1>5. QED
  BY <1>1, <1>2, <1>3, <1>4

LEMMA ReplyHurries ==
  ASSUME TypeOK, ReadSubscribed \/ ReadResult
  PROVE  /\ UNCHANGED pc \/ \E h \in Handles : Hurries(h)
         /\ UNCHANGED <<up, serverVars, settled, jobs, objVars, id, obj, readerVars>>
<1>1. UNCHANGED <<up, serverVars, settled, jobs, objVars, id, obj, readerVars>>
  BY DEF ReadSubscribed, ReadResult, Reads
<1>2. Head(inbox).to \in Handles
  BY ReadsType, FrameKinds DEF ReadSubscribed, ReadResult
<1>3. \/ UNCHANGED pc
      \/ /\ pc[Head(inbox).to] = "subscribing"
         /\ \E x \in {"call", "unwatch", "unwatchQuietly"} : pc' = [pc EXCEPT ![Head(inbox).to] = x]
      \/ pc[Head(inbox).to] = "calling" /\ pc' = [pc EXCEPT ![Head(inbox).to] = "done"]
  <2>1. CASE ReadSubscribed
    BY <2>1 DEF ReadSubscribed, Waits, Goes, SubscribeFails, AfterFailure
  <2>2. CASE ReadResult
    BY <2>2 DEF ReadResult, Waits, GivesUp, Goes
  <2>3. QED
    BY <2>1, <2>2
<1>4. QED
  BY <1>1, <1>2, <1>3 DEF Hurries, Unanswered, Early, TypeOK, serverVars

\* What reading an id, or the ids of a job update, does to the calls.
LEMMA ReaderAnswers ==
  ASSUME TypeOK, ReadId \/ ReadJob
  PROVE  \E H \in SUBSET Handles :
           /\ Answer(H, Head(inbox).job) /\ Head(inbox).job \in JobIds
           /\ \A h \in H : pc[h] = "calling" /\ ~dead
           /\ UNCHANGED <<up, serverVars, settled, watchVars, jobs, objVars, obj, outcome, dead, robj,
                          toFail, applied>>
           /\ \/ Head(inbox).kind = "id" /\ H \subseteq {Head(inbox).to}
              \/ Head(inbox).kind = "job" /\ H \subseteq Head(inbox).ids
<1>1. CASE ReadId
  <2>1. Head(inbox).job \in JobIds /\ Head(inbox).kind = "id" /\ Head(inbox).to \in Handles
    BY <1>1, ReadsType, FrameKinds DEF ReadId
  <2>2. /\ Answer({h \in {Head(inbox).to} : Waits(h, "calling")}, Head(inbox).job)
        /\ UNCHANGED <<up, serverVars, settled, watchVars, jobs, objVars, obj, outcome, readerVars>>
    BY <1>1 DEF ReadId, Reads
  <2>3. QED
    BY <2>1, <2>2 DEF Waits, readerVars
<1>2. CASE ReadJob
  <2>1. Head(inbox).job \in JobIds /\ Head(inbox).kind = "job" /\ Head(inbox).ids \subseteq Handles
    BY <1>2, ReadsType, FrameKinds DEF ReadJob
  <2>2. /\ Answer({h \in Head(inbox).ids : newStyle /\ Waits(h, "calling")}, Head(inbox).job)
        /\ UNCHANGED <<up, serverVars, settled, watchVars, jobs, objVars, obj, outcome, dead, robj,
                       toFail, applied>>
    BY <1>2 DEF ReadJob, Reads
  <2>3. QED
    BY <2>1, <2>2 DEF Waits
<1>3. QED
  BY <1>1, <1>2

LEMMA StepCaller == TypeInv /\ [Next]_vars => CallerInv'
<1> SUFFICES ASSUME TypeInv, [Next]_vars PROVE CallerInv'
  OBVIOUS
<1>0. TypeOK /\ CallerInv
  BY DEF TypeInv
<1> USE DEF serverVars, settled, watchVars, objVars, callerVars, readerVars
<1>1. ASSUME UNCHANGED <<pc, id, obj, assigned>>,
             \A h \in Handles : <<"reply", h>> \in requests' => <<"reply", h>> \in requests
      PROVE  CallerInv'
  BY <1>0, <1>1 DEF CallerInv
<1>2. ASSUME NEW h \in Handles, Hurries(h) PROVE CallerInv'
  BY <1>0, <1>2 DEF CallerInv, Hurries, Unanswered, Early, TypeOK
<1>3. ASSUME NEW h \in Handles, StartJob(h) PROVE CallerInv'
  <2>1. CASE TakeState(h)
    <3>1. id[h] \in JobIds /\ pc[h] = "answered"
      BY <1>0, <2>1 DEF TakeState, CallerInv
    <3>2. jobs'[id[h]] # 0
      BY <2>1, <3>1, JobStateType, Counting DEF TypeInv, TakeState
    <3>3. pc' = [pc EXCEPT ![h] = "waiting"] /\ obj' = [obj EXCEPT ![h] = jobs'[id[h]]]
          /\ UNCHANGED <<id, requests, assigned>>
      BY <2>1 DEF TakeState, Goes
    <3>4. QED
      BY <1>0, <3>1, <3>2, <3>3 DEF CallerInv, TypeOK
  <2>2. QED
    BY <1>0, <1>2, <1>3, <2>1, CallerHurries DEF StartJob
<1>4. ASSUME NEW h \in Handles, OnUpdate(h) PROVE CallerInv'
  BY <1>1, <1>4 DEF OnUpdate
<1>5. ASSUME NEW h \in Handles, Result(h) PROVE CallerInv'
  <2>1. /\ pc[h] \in {"waiting", "forget", "collect"}
        /\ \E x \in {"forget", "done", "collect"} : pc' = [pc EXCEPT ![h] = x]
        /\ UNCHANGED <<id, obj, requests, assigned>>
    BY <1>5 DEF Result, ResultReady, ResultCanceled, Forget, Collect, Goes
  <2>2. QED
    BY <1>0, <2>1 DEF CallerInv, TypeOK
<1>6. CASE ReadSubscribed \/ ReadResult
  BY <1>0, <1>1, <1>2, <1>6, ReplyHurries
<1>7. CASE ReadId \/ ReadJob
  <2>1. PICK H \in SUBSET Handles :
           /\ Answer(H, Head(inbox).job) /\ Head(inbox).job \in JobIds
           /\ \A h \in H : pc[h] = "calling"
           /\ UNCHANGED <<requests, assigned, obj>>
    BY <1>0, <1>7, ReaderAnswers
  <2>2. QED
    BY <1>0, <2>1 DEF CallerInv, Answer, TypeOK
<1>8. CASE Lookup \/ Update \/ ReadGlobalError \/ ReaderCloses \/ BroadcastDone \/ \E o \in Objects : Fail(o)
  BY <1>1, <1>8 DEF Lookup, Update, ReadGlobalError, ReaderCloses, BroadcastDone, Fail, Broadcast, Reads
<1>9. CASE Server
  <2>1. ASSUME NEW f, Post(f), UNCHANGED assigned,
               \A h \in Handles : <<"reply", h>> \in requests' => <<"reply", h>> \in requests
        PROVE  CallerInv'
    BY <1>1, <2>1 DEF Post
  <2>2. ASSUME NEW h \in Handles, NEW j \in JobIds, ServerStarts(h, j) PROVE CallerInv'
    <3>1. /\ UNCHANGED <<pc, id, obj>> /\ assigned' = [assigned EXCEPT ![h] = j]
          /\ \A g \in Handles : <<"reply", g>> \in requests' => g = h \/ <<"reply", g>> \in requests
      BY <2>2 DEF ServerStarts
    <3>2. QED
      BY <1>0, <3>1 DEF CallerInv, TypeOK
  <2>3. ASSUME NEW j \in JobIds, NEW state \in State, ServerRuns(j, state) PROVE CallerInv'
    BY <1>1, <2>1, <2>3 DEF ServerRuns, PostUpdate
  <2>4. CASE ServerEndsWatch
    BY <1>1, <2>4 DEF ServerEndsWatch
  <2>5. ASSUME NEW h \in Handles, ServerReplies(h) \/ ServerReturns(h) PROVE CallerInv'
    BY <1>0, <2>1, <2>5, ResponseType
  <2>6. QED
    BY <1>9, <2>1, <2>2, <2>3, <2>4, <2>5
    DEF Server, ServerAnswersSubscribe, ServerFails
<1>10. CASE ConnectionLost \/ UNCHANGED vars
  BY <1>1, <1>10 DEF ConnectionLost, vars
<1>11. QED
  BY <1>3, <1>4, <1>5, <1>6, <1>7, <1>8, <1>9, <1>10 DEF Next, Reader

LEMMA StepReader == TypeInv /\ [Next]_vars => ReaderInv'
<1> SUFFICES ASSUME TypeInv, [Next]_vars PROVE ReaderInv'
  OBVIOUS
<1>0. TypeOK /\ CallerInv /\ ReaderInv
  BY DEF TypeInv
<1> USE DEF serverVars, settled, watchVars, objVars, callerVars, readerVars
<1>1. ASSUME UNCHANGED <<rpc, frame, robj, failure, dead>> PROVE ReaderInv'
  BY <1>0, <1>1 DEF ReaderInv
<1>2. ASSUME NEW h \in Handles, StartJob(h) \/ OnUpdate(h) \/ Result(h) PROVE ReaderInv'
  BY <1>0, <1>1, <1>2, CallerHurries
  DEF Hurries, StartJob, TakeState, OnUpdate, Result, ResultReady, ResultCanceled, Forget, Collect
<1>3. CASE ReadSubscribed \/ ReadResult \/ ReadId
  BY <1>0, <1>1, <1>3, ReplyHurries DEF ReadId
<1>4. CASE ReadJob
  <2>1. Head(inbox) \in Frame /\ Head(inbox).kind = "job" /\ rpc = "read"
    BY <1>0, <1>4, ReadsType DEF ReadJob
  <2>2. /\ (rpc' = "lookup" /\ frame' = Head(inbox)) \/ UNCHANGED <<rpc, frame>>
        /\ UNCHANGED <<failure, dead>>
    BY <1>4 DEF ReadJob
  <2>3. QED
    BY <1>0, <2>1, <2>2 DEF ReaderInv
<1>5. CASE Lookup
  <2>1. frame.job \in JobIds
    BY <1>0, <1>5, FrameKinds DEF ReaderInv, Lookup
  <2>2. jobs'[frame.job] \in Objects
    BY <1>5, <2>1, JobStateType DEF TypeInv, Lookup
  <2>3. QED
    BY <1>0, <1>5, <2>2 DEF ReaderInv, Lookup
<1>6. CASE Update
  BY <1>0, <1>6 DEF ReaderInv, Update
<1>7. CASE ReadGlobalError \/ ReaderCloses
  BY <1>0, <1>7 DEF ReaderInv, ReadGlobalError, ReaderCloses, Broadcast
<1>8. CASE BroadcastDone
  BY <1>0, <1>8 DEF ReaderInv, BroadcastDone
<1>9. ASSUME NEW o \in Objects, Fail(o) PROVE ReaderInv'
  BY <1>0, <1>9 DEF ReaderInv, Fail, TypeOK
<1>10. CASE Server
  BY <1>1, <1>10, ServerKeeps
<1>11. CASE ConnectionLost \/ UNCHANGED vars
  BY <1>1, <1>11 DEF ConnectionLost, vars
<1>12. QED
  BY <1>2, <1>3, <1>4, <1>5, <1>6, <1>7, <1>8, <1>9, <1>10, <1>11 DEF Next, Reader

LEMMA StepSuffice == TypeInv /\ [Next]_vars => ObjectsSuffice'
<1> SUFFICES ASSUME TypeInv, [Next]_vars PROVE ObjectsSuffice'
  OBVIOUS
<1>0. TypeOK /\ CallerInv /\ ReaderInv /\ ObjectsSuffice /\ made \in Nat
  BY Counting DEF TypeInv, TypeOK
<1> USE DEF serverVars, settled, watchVars, objVars, callerVars, readerVars
<1>1. ASSUME UNCHANGED <<made, jobs>>,
             \A h \in Handles : pc[h] \in {"collect", "done"} => pc'[h] \in {"collect", "done"}
      PROVE  ObjectsSuffice'
  BY <1>0, <1>1, SufficeUnlessForgotten DEF Remembered, Over
<1>2. ASSUME NEW j \in JobIds, JobState(j), Over' = Over PROVE ObjectsSuffice'
  <2>1. CASE jobs[j] # 0
    BY <1>0, <1>2, <2>1, SufficeUnlessForgotten DEF JobState, Remembered
  <2>2. CASE jobs[j] = 0
    <3>1. /\ jobs'[j] # 0 /\ \A k \in JobIds : k # j => jobs'[k] = jobs[k]
          /\ made' = made + 1
      BY <1>0, <1>2, <2>2, JobStateType, Counting
    <3>2. Remembered' = Remembered \cup {j} /\ j \notin Remembered
      BY <2>2, <3>1 DEF Remembered
    <3>3. Cardinality(Remembered') = Cardinality(Remembered) + 1
      BY <3>2, Counted, FS_AddElement
    <3>4. QED
      BY <1>0, <1>2, <3>1, <3>3, Counted DEF ObjectsSuffice
  <2>3. QED
    BY <2>1, <2>2
<1>3. ASSUME NEW h \in Handles, StartJob(h) PROVE ObjectsSuffice'
  <2>1. CASE TakeState(h)
    <3>1. id[h] \in JobIds /\ JobState(id[h])
      BY <1>0, <2>1 DEF TakeState, CallerInv
    <3>2. Over' = Over
      BY <1>0, <2>1 DEF TakeState, Goes, Over, TypeOK
    <3>3. QED
      BY <1>2, <3>1, <3>2
  <2>2. CASE Hurries(h)
    BY <1>0, <1>1, <2>2 DEF Hurries, Unanswered, Early, TypeOK
  <2>3. QED
    BY <1>0, <1>3, <2>1, <2>2, CallerHurries DEF StartJob
<1>4. ASSUME NEW h \in Handles, OnUpdate(h) PROVE ObjectsSuffice'
  BY <1>1, <1>4 DEF OnUpdate
<1>5. ASSUME NEW h \in Handles, Result(h) PROVE ObjectsSuffice'
  <2>1. CASE ResultReady(h) \/ ResultCanceled(h) \/ Collect(h)
    BY <1>0, <1>1, <2>1 DEF ResultReady, ResultCanceled, Collect, Goes, TypeOK
  <2>2. CASE Forget(h)
    <3>1. id[h] \in JobIds /\ pc[h] = "forget"
      BY <1>0, <2>2 DEF Forget, CallerInv
    <3>2. jobs' = [jobs EXCEPT ![id[h]] = 0] /\ pc' = [pc EXCEPT ![h] = "collect"] /\ made' = made
      BY <2>2 DEF Forget, Goes
    <3>3. Over' = Over \cup {h} /\ h \notin Over
      BY <1>0, <3>1, <3>2 DEF Over, TypeOK
    <3>4. Remembered' = Remembered \ {id[h]}
      BY <1>0, <3>1, <3>2 DEF Remembered, TypeOK
    <3>5. Cardinality(Over') = Cardinality(Over) + 1
      BY <3>3, Counted, FS_AddElement
    <3>6. Cardinality(Remembered') >= Cardinality(Remembered) - 1
      BY <3>4, Counted, FS_RemoveElement
    <3>7. Cardinality(Remembered') \in Nat
      BY <3>4, Counted, FS_RemoveElement, FS_CardinalityType
    <3>8. QED
      BY <1>0, <3>2, <3>5, <3>6, <3>7, Counted DEF ObjectsSuffice
  <2>3. QED
    BY <1>5, <2>1, <2>2 DEF Result
<1>6. CASE ReadSubscribed \/ ReadResult
  BY <1>0, <1>1, <1>6, ReplyHurries DEF Hurries, Unanswered, Early, TypeOK
<1>7. CASE ReadId \/ ReadJob
  <2>1. PICK H \in SUBSET Handles :
           /\ Answer(H, Head(inbox).job)
           /\ \A h \in H : pc[h] = "calling"
           /\ UNCHANGED <<jobs, objVars>>
    BY <1>0, <1>7, ReaderAnswers
  <2>2. QED
    BY <1>1, <2>1 DEF Answer
<1>8. CASE Lookup
  <2>1. frame.job \in JobIds /\ JobState(frame.job) /\ Over' = Over
    BY <1>0, <1>8, FrameKinds DEF ReaderInv, Lookup, Over
  <2>2. QED
    BY <1>2, <2>1
<1>9. CASE Update \/ ReadGlobalError \/ ReaderCloses \/ BroadcastDone \/ \E o \in Objects : Fail(o)
  BY <1>1, <1>9 DEF Update, ReadGlobalError, ReaderCloses, BroadcastDone, Fail, Broadcast, Reads
<1>10. CASE Server
  BY <1>1, <1>10, ServerKeeps
<1>11. CASE ConnectionLost \/ UNCHANGED vars
  BY <1>1, <1>11 DEF ConnectionLost, vars
<1>12. QED
  BY <1>3, <1>4, <1>5, <1>6, <1>7, <1>8, <1>9, <1>10, <1>11 DEF Next, Reader

LEMMA TypeInvariant == Spec => []TypeInv
<1>1. TypeInv /\ [Next]_vars => TypeInv'
  BY StepTypeOK, StepCaller, StepReader, StepSuffice DEF TypeInv
<1>2. QED
  BY <1>1, InitType, PTL DEF Spec

\* Every variable keeps its type, the bound on the jobState objects included:
\* each job and each StartJob needs one of its own at most.
THEOREM TypeCorrect == Spec => []TypeOK
<1>1. TypeInv => TypeOK
  BY DEF TypeInv
<1>2. QED
  BY <1>1, TypeInvariant, PTL

-----------------------------------------------------------------------------
(* One watcher *)

LEMMA StepWatch == TypeInv /\ WatchInv /\ [Next]_vars => WatchInv'
<1> SUFFICES ASSUME TypeInv, WatchInv, [Next]_vars PROVE WatchInv'
  OBVIOUS
<1>0. TypeOK /\ CallerInv
  BY DEF TypeInv
<1> USE DEF serverVars, settled, watchVars, objVars, callerVars, readerVars
<1>1. ASSUME UNCHANGED watchVars,
             \A h \in Handles : pc'[h] = pc[h] \/ {pc[h], pc'[h]} \cap Claiming = {}
      PROVE  WatchInv'
  <2>1. \A h \in Handles : pc'[h] \in Claiming <=> pc[h] \in Claiming
    BY <1>1
  <2>2. \A h \in Handles : pc'[h] \in Claiming => pc[h] = pc'[h]
    BY <1>1
  <2>3. \A h \in Handles : pc[h] \in {"unwatch", "unwatchQuietly"} => pc'[h] = pc[h]
    BY <1>1 DEF Claiming
  <2>4. QED
    BY <1>1, <2>1, <2>2, <2>3 DEF WatchInv
<1>2. ASSUME NEW h \in Handles, NEW verdict, SubscribeFails(h, verdict), pc[h] = "subscribing",
             UNCHANGED jobsWatching
      PROVE  WatchInv'
  <2>1. \E x \in {"unwatch", "unwatchQuietly"} : pc' = [pc EXCEPT ![h] = x]
    BY <1>2 DEF SubscribeFails, AfterFailure, Goes
  <2>2. watchers' = {} /\ jobsWatching
    BY <1>2 DEF SubscribeFails, WatchInv, Claiming
  <2>3. \A g \in Handles : pc[g] \in Claiming => g = h
    BY <1>2 DEF WatchInv, Claiming
  <2>4. QED
    BY <1>0, <1>2, <2>1, <2>2, <2>3 DEF WatchInv, Claiming, TypeOK
<1>3. ASSUME NEW h \in Handles, StartJob(h) PROVE WatchInv'
  <2>1. CASE Watch(h)
    <3>1. CASE NeedsWatch(h)
      <4>1. /\ pc' = [pc EXCEPT ![h] = "subscribing"] /\ jobsWatching' = TRUE
            /\ watchers' = watchers \cup {h}
        BY <2>1, <3>1 DEF Watch, Goes
      <4>2. watchers = {} /\ \A g \in Handles : pc[g] \notin Claiming
        BY <3>1 DEF NeedsWatch, WatchInv
      <4>3. QED
        BY <1>0, <4>1, <4>2 DEF WatchInv, Claiming, TypeOK
    <3>2. CASE ~NeedsWatch(h)
      <4>1. pc[h] = "idle" /\ pc' = [pc EXCEPT ![h] = "call"] /\ UNCHANGED watchVars
        BY <2>1, <3>2 DEF Watch, Goes
      <4>2. QED
        BY <1>0, <1>1, <4>1 DEF Claiming, TypeOK
    <3>3. QED
      BY <3>1, <3>2
  <2>2. CASE Unwatch(h)
    <3>1. pc' = [pc EXCEPT ![h] = "done"] \/ pc' = [pc EXCEPT ![h] = "call"]
      BY <2>2 DEF Unwatch, GivesUp, Goes
    <3>2. pc[h] \in {"unwatch", "unwatchQuietly"} /\ jobsWatching' = FALSE /\ watchers' = watchers
      BY <2>2 DEF Unwatch
    <3>3. watchers = {} /\ \A g \in Handles : pc[g] \in Claiming => g = h
      BY <3>2 DEF WatchInv, Claiming
    <3>4. QED
      BY <1>0, <3>1, <3>2, <3>3 DEF WatchInv, Claiming, TypeOK
  <2>3. CASE SendCall(h)
    BY <1>0, <1>1, <2>3 DEF SendCall, Goes, Claiming, TypeOK
  <2>4. CASE CallFails(h)
    <3>1. CASE pc[h] = "subscribing"
      BY <1>2, <2>4, <3>1 DEF CallFails
    <3>2. CASE pc[h] # "subscribing"
      <4>1. pc[h] = "calling" /\ pc' = [pc EXCEPT ![h] = "done"] /\ UNCHANGED watchVars
        BY <2>4, <3>2 DEF CallFails, GivesUp, Goes
      <4>2. QED
        BY <1>0, <1>1, <4>1 DEF Claiming, TypeOK
    <3>3. QED
      BY <3>1, <3>2
  <2>5. CASE TakeState(h)
    BY <1>0, <1>1, <2>5 DEF TakeState, Goes, Claiming, TypeOK
  <2>6. QED
    BY <1>3, <2>1, <2>2, <2>3, <2>4, <2>5 DEF StartJob
<1>4. ASSUME NEW h \in Handles, OnUpdate(h) \/ Result(h) PROVE WatchInv'
  <2>1. /\ UNCHANGED watchVars
        /\ \/ UNCHANGED pc
           \/ /\ pc[h] \in {"waiting", "forget", "collect"}
              /\ \E x \in {"forget", "done", "collect"} : pc' = [pc EXCEPT ![h] = x]
    BY <1>4 DEF OnUpdate, Result, ResultReady, ResultCanceled, Forget, Collect, Goes
  <2>2. QED
    BY <1>0, <1>1, <2>1 DEF Claiming, TypeOK
<1>5. CASE ReadSubscribed
  <2> DEFINE f == Head(inbox)
  <2>1. f.to \in Handles
    BY <1>0, <1>5, ReadsType, FrameKinds DEF ReadSubscribed
  <2>2. CASE ~Waits(f.to, "subscribing")
    BY <1>1, <1>5, <2>2 DEF ReadSubscribed
  <2>3. CASE Waits(f.to, "subscribing") /\ f.verdict = "ok"
    <3>1. pc[f.to] = "subscribing" /\ pc' = [pc EXCEPT ![f.to] = "call"] /\ UNCHANGED watchVars
      BY <1>5, <2>3 DEF ReadSubscribed, Goes, Waits
    <3>2. \A g \in Handles : pc[g] \in Claiming => g = f.to
      BY <2>1, <3>1 DEF WatchInv, Claiming
    <3> HIDE DEF f
    <3>3. \A g \in Handles : pc'[g] \in Claiming => FALSE
      BY <1>0, <2>1, <3>1, <3>2 DEF Claiming, TypeOK
    <3>4. jobsWatching /\ watchers = {f.to}
      BY <2>1, <3>1 DEF WatchInv, Claiming
    <3>5. QED
      BY <3>1, <3>3, <3>4 DEF WatchInv
  <2>4. CASE Waits(f.to, "subscribing") /\ f.verdict # "ok"
    <3>1. pc[f.to] = "subscribing" /\ SubscribeFails(f.to, f.verdict) /\ UNCHANGED jobsWatching
      BY <1>5, <2>4 DEF ReadSubscribed, Waits
    <3>2. QED
      BY <1>2, <2>1, <3>1
  <2>5. QED
    BY <2>2, <2>3, <2>4
<1>6. CASE ReadResult
  <2>1. Head(inbox).to \in Handles
    BY <1>0, <1>6, ReadsType, FrameKinds DEF ReadResult
  <2>2. /\ UNCHANGED watchVars
        /\ \/ UNCHANGED pc
           \/ pc[Head(inbox).to] = "calling" /\ pc' = [pc EXCEPT ![Head(inbox).to] = "done"]
    BY <1>6 DEF ReadResult, Waits, GivesUp, Goes
  <2>3. QED
    BY <1>0, <1>1, <2>1, <2>2 DEF Claiming, TypeOK
<1>7. CASE ReadId \/ ReadJob
  <2>1. PICK H \in SUBSET Handles :
           /\ Answer(H, Head(inbox).job)
           /\ \A h \in H : pc[h] = "calling"
           /\ UNCHANGED watchVars
    BY <1>0, <1>7, ReaderAnswers
  <2>2. QED
    BY <1>1, <2>1 DEF Answer, Claiming
<1>8. CASE Lookup \/ Update \/ ReadGlobalError \/ ReaderCloses \/ BroadcastDone \/ \E o \in Objects : Fail(o)
  BY <1>1, <1>8 DEF Lookup, Update, ReadGlobalError, ReaderCloses, BroadcastDone, Fail, Broadcast, Reads
<1>9. CASE Server
  BY <1>1, <1>9, ServerKeeps
<1>10. CASE ConnectionLost \/ UNCHANGED vars
  BY <1>1, <1>10 DEF ConnectionLost, vars
<1>11. QED
  BY <1>3, <1>4, <1>5, <1>6, <1>7, <1>8, <1>9, <1>10 DEF Next, Reader

\* However many StartJobs run side by side and however their subscriptions end,
\* core.get_jobs is registered once at most, and the claim to it is not left
\* behind: who is between his claim and its end is alone there (watchJobs,
\* maybeWatchJobs).
THEOREM AtMostOneWatcher == Spec => []OneWatcher
<1>1. Init => WatchInv
  BY DEF Init, WatchInv, Claiming
<1>2. WatchInv => OneWatcher
  <2> SUFFICES ASSUME WatchInv PROVE OneWatcher
    OBVIOUS
  <2>1. Cardinality(watchers) <= 1
    <3>1. CASE watchers = {}
      BY <3>1, FS_EmptySet
    <3>2. CASE watchers # {}
      <4>1. PICK h : watchers = {h}
        BY <3>2 DEF WatchInv
      <4>2. QED
        BY <4>1, FS_Singleton
    <3>3. QED
      BY <3>1, <3>2
  <2>2. jobsWatching <=> watchers # {} \/ \E h \in Handles : pc[h] \in {"unwatch", "unwatchQuietly"}
    BY DEF WatchInv, Claiming
  <2>3. QED
    BY <2>1, <2>2 DEF OneWatcher
<1>3. QED
  BY <1>1, <1>2, TypeInvariant, StepWatch, PTL DEF Spec

-----------------------------------------------------------------------------
(* Which calls a job is the job of *)

\* The frames on their way are a final part of those that were.
Shrinks ==
  \E d \in {0, 1} : \A i \in DOMAIN inbox' :
    i \in Nat /\ i + d \in DOMAIN inbox /\ inbox'[i] = inbox[i + d]

LEMMA ReadingShrinks ==
  ASSUME TypeOK, NEW kind, Reads(kind)
  PROVE  /\ 1 \in DOMAIN inbox /\ Head(inbox) = inbox[1]
         /\ \A i \in DOMAIN inbox' : i \in Nat /\ i + 1 > 1 /\ i + 1 \in DOMAIN inbox /\ inbox'[i] = inbox[i + 1]
         /\ Shrinks
<1>1. inbox \in Seq(Frame) /\ inbox # <<>> /\ inbox' = Tail(inbox)
  BY DEF Reads, TypeOK
<1>2. /\ Head(inbox) = inbox[1] /\ 1 \in 1..Len(inbox) /\ Tail(inbox) \in Seq(Frame)
      /\ \A i \in 1..Len(Tail(inbox)) : i + 1 \in 1..Len(inbox) /\ Tail(inbox)[i] = inbox[i + 1]
  BY <1>1, ReadingInbox
<1>3. DOMAIN inbox = 1..Len(inbox) /\ DOMAIN Tail(inbox) = 1..Len(Tail(inbox))
  BY <1>1, <1>2
<1>4. QED
  BY <1>1, <1>2, <1>3 DEF Shrinks

LEMMA OtherwiseShrinks ==
  ASSUME TypeOK, UNCHANGED inbox \/ inbox' = <<>>
  PROVE  Shrinks
<1>1. DOMAIN inbox \subseteq Nat
  BY DEF TypeOK
<1>2. CASE UNCHANGED inbox
  BY <1>1, <1>2 DEF Shrinks
<1>3. CASE inbox' = <<>>
  BY <1>3, EmptySeq DEF Shrinks
<1>4. QED
  BY <1>2, <1>3

\* A call that joins a job changes nothing about it.
LEMMA StartingKeeps ==
  ASSUME TypeOK, NEW h \in Handles, NEW j \in JobIds, ServerStarts(h, j)
  PROVE  /\ progress[j] \notin Finals
         /\ \/ UNCHANGED progress
            \/ progress[j] = None /\ progress' = [progress EXCEPT ![j] = "queued"]
<1>1. progress[j] \notin Finals /\ progress' = [progress EXCEPT ![j] = IF @ = None THEN "queued" ELSE @]
  BY DEF ServerStarts
<1>2. CASE progress[j] = None
  BY <1>1, <1>2
<1>3. CASE progress[j] # None
  <2>1. progress' = [progress EXCEPT ![j] = progress[j]]
    BY <1>1, <1>3
  <2>2. QED
    BY <1>1, <2>1 DEF TypeOK
<1>4. QED
  BY <1>2, <1>3

\* Jobs stay ended, connections stay dead.
LEMMA EndsStay ==
  ASSUME TypeOK, [Next]_vars
  PROVE  /\ \A j \in JobIds : progress[j] \in Finals => progress'[j] = progress[j]
         /\ dead => dead'
<1> USE DEF serverVars, settled, watchVars, objVars, callerVars, readerVars
<1>1. CASE \E h \in Handles : StartJob(h) \/ OnUpdate(h) \/ Result(h)
  BY <1>1, CallerHurries DEF Hurries, StartJob, TakeState, OnUpdate, Result, ResultReady, ResultCanceled,
     Forget, Collect
<1>2. CASE Reader
  BY <1>2, ReplyHurries, ReaderAnswers
  DEF Reader, Lookup, Update, ReadGlobalError, ReaderCloses, BroadcastDone, Fail, Broadcast, Reads
<1>3. CASE Server \/ ConnectionLost \/ UNCHANGED vars
  <2>1. dead' = dead
    BY <1>3, ServerKeeps
  <2>2. \/ UNCHANGED progress
        \/ \E j \in JobIds : \E x : /\ progress[j] \in {None, "queued", "WAITING", "RUNNING"}
                                    /\ progress' = [progress EXCEPT ![j] = x]
    <3>1. ASSUME NEW h \in Handles, NEW j \in JobIds, ServerStarts(h, j)
          PROVE  \/ UNCHANGED progress
                 \/ progress[j] = None /\ progress' = [progress EXCEPT ![j] = "queued"]
      BY <3>1, StartingKeeps
    <3>2. ASSUME NEW j \in JobIds, NEW state \in State, ServerRuns(j, state)
          PROVE  progress[j] \in {"queued", "WAITING", "RUNNING"} /\ progress' = [progress EXCEPT ![j] = state]
      BY <3>2 DEF ServerRuns
    <3>3. \/ UNCHANGED progress
          \/ \E h \in Handles, j \in JobIds : ServerStarts(h, j)
          \/ \E j \in JobIds, state \in State : ServerRuns(j, state)
      BY <1>3 DEF Server, ServerAnswersSubscribe, ServerReplies,
         ServerReturns, ServerFails, ServerEndsWatch, ConnectionLost, vars
    <3>4. QED
      BY <3>1, <3>2, <3>3
  <2>3. QED
    BY <2>1, <2>2 DEF TypeOK, Finals, None
<1>4. QED
  BY <1>1, <1>2, <1>3 DEF Next

LEMMA StepAssigned == TypeInv /\ AssignedInv /\ ToldInv /\ [Next]_vars => AssignedInv'
<1> SUFFICES ASSUME TypeInv, AssignedInv, ToldInv, [Next]_vars PROVE AssignedInv'
  OBVIOUS
<1>0. /\ TypeOK /\ CallerInv /\ ReaderInv /\ None \notin JobIds
      /\ \A j \in JobIds : progress[j] \in Finals => progress'[j] = progress[j]
      /\ \A h \in Handles : assigned[h] # None => assigned[h] \in JobIds
  BY EndsStay, JobsAssumption DEF TypeInv, TypeOK, JobsAssumption
<1> USE DEF serverVars, settled, watchVars, objVars, callerVars, readerVars
<1>1. ASSUME UNCHANGED <<id, assigned, told, newStyle>>, Shrinks,
             \A h \in Handles : <<"job", h>> \in requests' => <<"job", h>> \in requests \/ pc[h] \in Early,
             \A h \in Handles : pc'[h] \in Early => pc[h] \in Early /\ <<"job", h>> \notin requests'
      PROVE  AssignedInv'
  <2>1. \A i \in DOMAIN inbox' : \E k \in DOMAIN inbox : inbox'[i] = inbox[k]
    BY <1>1 DEF Shrinks
  <2>2. \A h \in Handles : Unserved(h) => Unserved(h)'
    BY <1>1, <2>1 DEF Unserved, Responds
  <2>3. \A h \in Handles : assigned[h] # None /\ Misled(h) => Misled(h)'
    BY <1>0, <1>1 DEF Misled
  <2>4. \A h \in Handles :
          /\ pc'[h] \in Early => <<"job", h>> \notin requests'
          /\ <<"job", h>> \in requests' \/ pc'[h] \in Early => Unserved(h)'
          /\ h \in told' => assigned'[h] # None
          /\ id'[h] # None /\ assigned'[h] # None => id'[h] = assigned'[h] \/ Misled(h)'
    BY <1>1, <2>2, <2>3 DEF AssignedInv
  <2>5. \A i \in DOMAIN inbox' : \A h \in Handles :
          /\ Names(i, h)' => assigned'[h] = inbox'[i].job
          /\ Responds(i, h)' /\ assigned'[h] # None =>
               /\ newStyle' => progress'[assigned'[h]] \in Finals
               /\ ~newStyle' /\ inbox'[i].kind = "id" => inbox'[i].job = assigned'[h]
    BY <1>0, <1>1, <2>1 DEF AssignedInv, Names, Responds
  <2>6. QED
    BY <2>4, <2>5 DEF AssignedInv
<1>2. ASSUME NEW h \in Handles, Hurries(h), Shrinks PROVE AssignedInv'
  <2>1. /\ pc[h] \in Unanswered /\ (pc[h] = "calling" => pc'[h] = "done")
        /\ \A g \in Handles : g # h => pc'[g] = pc[g]
        /\ UNCHANGED <<id, assigned, told, newStyle>>
    BY <1>0, <1>2 DEF Hurries, TypeOK
  <2>2. \A g \in Handles : pc'[g] \in Early => pc[g] \in Early
    BY <2>1 DEF Unanswered, Early
  <2>3. \A g \in Handles : pc[g] \in Early => <<"job", g>> \notin requests
    BY DEF AssignedInv
  <2>4. CASE requests' \subseteq requests \cup {<<"subscribe", h>>}
    <3>1. \A g \in Handles : <<"job", g>> \in requests' => <<"job", g>> \in requests
      BY <2>4
    <3>2. QED
      BY <1>1, <1>2, <2>1, <2>2, <2>3, <3>1
  <2>5. CASE pc[h] = "call" /\ pc'[h] = "calling" /\ requests' \subseteq requests \cup {<<"job", h>>}
    <3>1. \A g \in Handles : <<"job", g>> \in requests' => <<"job", g>> \in requests \/ g = h
      BY <2>5
    <3>2. pc[h] \in Early /\ pc'[h] \notin Early
      BY <2>5 DEF Early
    <3>3. QED
      BY <1>1, <1>2, <2>1, <2>2, <2>3, <3>1, <3>2
  <2>6. QED
    BY <1>2, <2>4, <2>5 DEF Hurries
<1>3. ASSUME UNCHANGED <<id, assigned, told, newStyle, requests>>, Shrinks,
             \A h \in Handles : pc'[h] \in Early => pc[h] \in Early
      PROVE  AssignedInv'
  BY <1>1, <1>3 DEF AssignedInv
<1>4. ASSUME NEW h \in Handles, StartJob(h) PROVE AssignedInv'
  <2>1. CASE TakeState(h)
    BY <1>0, <1>3, <2>1, OtherwiseShrinks DEF TakeState, Goes, Early, TypeOK
  <2>2. QED
    BY <1>0, <1>2, <1>4, <2>1, CallerHurries, OtherwiseShrinks DEF StartJob
<1>5. ASSUME NEW h \in Handles, OnUpdate(h) \/ Result(h) PROVE AssignedInv'
  <2>1. /\ UNCHANGED <<id, assigned, told, newStyle, requests, inbox>>
        /\ \/ UNCHANGED pc
           \/ \E x \in {"forget", "done", "collect"} : pc' = [pc EXCEPT ![h] = x]
    BY <1>5 DEF OnUpdate, Result, ResultReady, ResultCanceled, Forget, Collect, Goes
  <2>2. QED
    BY <1>0, <1>3, <2>1, OtherwiseShrinks DEF Early, TypeOK
<1>6. CASE ReadSubscribed \/ ReadResult
  <2>1. Shrinks
    BY <1>0, <1>6, ReadingShrinks DEF ReadSubscribed, ReadResult
  <2>2. QED
    BY <1>0, <1>2, <1>3, <1>6, <2>1, ReplyHurries
<1>7. CASE ReadId \/ ReadJob
  <2>0. PICK f : f = Head(inbox)
    OBVIOUS
  <2>1. PICK H \in SUBSET Handles :
           /\ Answer(H, f.job) /\ f.job \in JobIds
           /\ \A h \in H : pc[h] = "calling" /\ ~dead
           /\ UNCHANGED <<requests, assigned, told, newStyle>>
           /\ \/ f.kind = "id" /\ H \subseteq {f.to}
              \/ f.kind = "job" /\ H \subseteq f.ids
    <3>1. PICK H \in SUBSET Handles :
             /\ Answer(H, Head(inbox).job) /\ Head(inbox).job \in JobIds
             /\ \A h \in H : pc[h] = "calling" /\ ~dead
             /\ UNCHANGED <<requests, assigned, told, newStyle>>
             /\ \/ Head(inbox).kind = "id" /\ H \subseteq {Head(inbox).to}
                \/ Head(inbox).kind = "job" /\ H \subseteq Head(inbox).ids
      BY <1>0, <1>7, ReaderAnswers
    <3>2. QED
      BY <2>0, <3>1
  <2>2. Shrinks /\ 1 \in DOMAIN inbox /\ f = inbox[1]
    BY <1>0, <1>7, <2>0, ReadingShrinks DEF ReadId, ReadJob
  <2>3. \A h \in H : assigned[h] # None => f.job = assigned[h] \/ Misled(h)
    <3>1. SUFFICES ASSUME NEW h \in H, assigned[h] # None PROVE f.job = assigned[h] \/ Misled(h)
      OBVIOUS
    <3>2. CASE f.kind = "job"
      <4>1. Names(1, h)
        BY <2>1, <2>2, <3>2 DEF Names
      <4>2. QED
        BY <2>1, <2>2, <4>1 DEF AssignedInv
    <3>3. CASE f.kind = "id"
      <4>1. Responds(1, h)
        BY <2>1, <2>2, <3>3 DEF Responds
      <4>2. ~NamedFirst(h)
        <5>1. DOMAIN inbox = 1..Len(inbox) /\ Len(inbox) \in Nat
          BY <1>0, EveryElement DEF TypeOK
        <5>2. \A i \in DOMAIN inbox : ~(i < 1)
          BY <5>1
        <5>3. QED
          BY <2>2, <4>1, <5>2 DEF NamedFirst
      <4>3. newStyle => h \notin told
        BY <2>1, <4>2 DEF ToldInv
      <4>4. /\ newStyle => progress[assigned[h]] \in Finals
            /\ ~newStyle => f.job = assigned[h]
        BY <2>1, <2>2, <3>1, <3>3, <4>1 DEF AssignedInv
      <4>5. QED
        BY <4>3, <4>4 DEF Misled
    <3>4. QED
      BY <2>1, <3>2, <3>3
  <2>4. \A i \in DOMAIN inbox' : \E k \in DOMAIN inbox : inbox'[i] = inbox[k]
    BY <2>2 DEF Shrinks
  <2>5. \A h \in Handles : /\ pc'[h] = IF h \in H THEN "answered" ELSE pc[h]
                           /\ id'[h] = IF h \in H THEN f.job ELSE id[h]
    BY <2>1 DEF Answer
  <2>6. \A h \in H : ~Unserved(h)
    BY <1>0, <2>1, <2>2 DEF AssignedInv, Unserved, Names, Responds
  <2>7. \A h \in Handles : assigned[h] # None /\ Misled(h) => Misled(h)'
    BY <1>0, <2>1 DEF Misled
  <2>8. \A h \in Handles : id'[h] # None /\ assigned[h] # None => id'[h] = assigned[h] \/ Misled(h)'
    BY <2>1, <2>3, <2>5, <2>7 DEF AssignedInv
  <2>9. \A h \in Handles :
          /\ pc'[h] \in Early => <<"job", h>> \notin requests'
          /\ <<"job", h>> \in requests' \/ pc'[h] \in Early => Unserved(h)'
    <3>1. TAKE h \in Handles
    <3>2. CASE h \in H
      BY <2>1, <2>5, <2>6, <3>2 DEF AssignedInv, Early
    <3>3. CASE h \notin H
      BY <2>1, <2>4, <2>5, <3>3 DEF AssignedInv, Unserved, Responds
    <3>4. QED
      BY <3>2, <3>3
  <2>10. \A i \in DOMAIN inbox' : \A h \in Handles :
           /\ Names(i, h)' => assigned'[h] = inbox'[i].job
           /\ Responds(i, h)' /\ assigned'[h] # None =>
                /\ newStyle' => progress'[assigned'[h]] \in Finals
                /\ ~newStyle' /\ inbox'[i].kind = "id" => inbox'[i].job = assigned'[h]
    BY <1>0, <2>1, <2>4 DEF AssignedInv, Names, Responds
  <2>11. \A h \in Handles : h \in told' => assigned'[h] # None
    BY <2>1 DEF AssignedInv
  <2>12. QED
    BY <2>1, <2>8, <2>9, <2>10, <2>11 DEF AssignedInv
<1>8. CASE Lookup \/ Update \/ ReadGlobalError \/ ReaderCloses \/ BroadcastDone \/ \E o \in Objects : Fail(o)
  <2>1. UNCHANGED <<id, assigned, told, newStyle, requests, pc>>
    BY <1>8 DEF Lookup, Update, ReadGlobalError, ReaderCloses, BroadcastDone, Fail, Broadcast, Reads
  <2>2. Shrinks
    BY <1>0, <1>8, ReadingShrinks, OtherwiseShrinks
    DEF Lookup, Update, ReadGlobalError, ReaderCloses, BroadcastDone, Fail
  <2>3. QED
    BY <1>3, <2>1, <2>2
<1>9. ASSUME NEW f \in Frame, Post(f), UNCHANGED assigned, requests' \subseteq requests,
             \A h \in Handles : h \in told' =>
               assigned[h] # None /\ (h \in told \/ progress[assigned[h]] \notin Finals),
             f.kind = "job" => \A h \in f.ids : assigned[h] = f.job,
             f.kind \in {"id", "result"} =>
               \/ <<"job", f.to>> \in requests /\ <<"job", f.to>> \notin requests'
               \/ /\ assigned[f.to] \in JobIds
                  /\ newStyle => progress[assigned[f.to]] \in Finals
                  /\ ~newStyle => f.kind = "id" /\ f.job = assigned[f.to]
      PROVE  AssignedInv'
  <2>1. /\ UNCHANGED <<pc, id, newStyle>>
        /\ \A i \in DOMAIN inbox' : inbox'[i] = f \/ \E k \in DOMAIN inbox : inbox'[i] = inbox[k]
    BY <1>0, <1>9, PostType
  <2>2. \A h \in Handles : <<"job", h>> \in requests' \/ pc[h] \in Early => Unserved(h)'
    <3>1. SUFFICES ASSUME NEW h \in Handles, <<"job", h>> \in requests' \/ pc[h] \in Early
                   PROVE  Unserved(h)'
      OBVIOUS
    <3>2. Unserved(h) /\ (pc[h] \in Early => <<"job", h>> \notin requests)
      BY <1>9, <3>1 DEF AssignedInv
    <3>3. ~(f.kind \in {"id", "result"} /\ f.to = h)
      BY <1>0, <1>9, <3>1, <3>2 DEF Unserved
    <3>4. QED
      BY <1>9, <2>1, <3>2, <3>3 DEF Unserved, Responds
  <2>3. \A h \in Handles : assigned[h] # None /\ Misled(h) => Misled(h)'
    BY <1>0, <1>9, <2>1 DEF Misled
  <2>4. \A h \in Handles :
          /\ pc[h] \in Early => <<"job", h>> \notin requests'
          /\ h \in told' => assigned[h] # None
          /\ id[h] # None /\ assigned[h] # None => id[h] = assigned[h] \/ Misled(h)'
    BY <1>9, <2>3 DEF AssignedInv
  <2>5. ASSUME NEW h \in Handles, f.kind \in {"id", "result"}, f.to = h, assigned[h] # None
        PROVE  /\ newStyle => progress[assigned[h]] \in Finals
               /\ ~newStyle => f.kind = "id" /\ f.job = assigned[h]
    BY <1>9, <2>5 DEF AssignedInv, Unserved
  <2>6. \A i \in DOMAIN inbox' : \A h \in Handles :
          /\ Names(i, h)' => assigned[h] = inbox'[i].job
          /\ Responds(i, h)' /\ assigned[h] # None =>
               /\ newStyle => progress'[assigned[h]] \in Finals
               /\ ~newStyle /\ inbox'[i].kind = "id" => inbox'[i].job = assigned[h]
    <3>1. SUFFICES ASSUME NEW i \in DOMAIN inbox', NEW h \in Handles
                   PROVE  /\ Names(i, h)' => assigned[h] = inbox'[i].job
                          /\ Responds(i, h)' /\ assigned[h] # None =>
                               /\ newStyle => progress'[assigned[h]] \in Finals
                               /\ ~newStyle /\ inbox'[i].kind = "id" => inbox'[i].job = assigned[h]
      OBVIOUS
    <3>2. CASE inbox'[i] = f
      BY <1>0, <1>9, <2>5, <3>2 DEF Names, Responds
    <3>3. CASE \E k \in DOMAIN inbox : inbox'[i] = inbox[k]
      BY <1>0, <3>3 DEF AssignedInv, Names, Responds
    <3>4. QED
      BY <2>1, <3>2, <3>3
  <2>7. QED
    BY <1>9, <2>1, <2>2, <2>4, <2>6 DEF AssignedInv
<1>10. ASSUME NEW h \in Handles, NEW j \in JobIds, ServerStarts(h, j) PROVE AssignedInv'
  <2>1. /\ UNCHANGED <<pc, id, told, newStyle, inbox>> /\ assigned' = [assigned EXCEPT ![h] = j]
        /\ <<"job", h>> \in requests /\ <<"job", h>> \notin requests'
        /\ \A g \in Handles : <<"job", g>> \in requests' => <<"job", g>> \in requests
    BY <1>10 DEF ServerStarts
  <2>2. Unserved(h) /\ pc[h] \notin Early /\ assigned[h] = None
    BY <2>1 DEF AssignedInv, Unserved
  <2>3. assigned'[h] = j /\ \A g \in Handles : g # h => assigned'[g] = assigned[g]
    BY <1>0, <2>1 DEF TypeOK
  <2>4. \A i \in DOMAIN inbox : inbox[i].kind = "job" => inbox[i].job \in JobIds
    BY <1>0, EveryElement, FrameKinds DEF TypeOK
  <2>5. \A i \in DOMAIN inbox : ~Names(i, h) /\ ~Responds(i, h)
    BY <1>0, <2>2, <2>4 DEF AssignedInv, Names, Unserved
  <2>6. \A g \in Handles : g # h /\ Misled(g) /\ assigned[g] # None => Misled(g)'
    BY <1>0, <2>1, <2>3 DEF Misled
  <2>7. \A g \in Handles : g # h /\ Unserved(g) => Unserved(g)'
    BY <2>1, <2>3 DEF Unserved, Responds
  <2>8. \A g \in Handles :
          /\ pc[g] \in Early => <<"job", g>> \notin requests'
          /\ <<"job", g>> \in requests' \/ pc[g] \in Early => Unserved(g)'
          /\ g \in told => assigned'[g] # None
          /\ id[g] # None /\ assigned'[g] # None => id[g] = assigned'[g] \/ Misled(g)'
    <3>1. TAKE g \in Handles
    <3>2. CASE g = h
      BY <1>0, <2>1, <2>2, <2>3, <3>2 DEF AssignedInv, Unserved
    <3>3. CASE g # h
      BY <2>1, <2>3, <2>6, <2>7, <3>3 DEF AssignedInv
    <3>4. QED
      BY <3>2, <3>3
  <2>9. \A i \in DOMAIN inbox : \A g \in Handles :
          /\ Names(i, g) => assigned'[g] = inbox[i].job
          /\ Responds(i, g) /\ assigned'[g] # None =>
               /\ newStyle => progress'[assigned'[g]] \in Finals
               /\ ~newStyle /\ inbox[i].kind = "id" => inbox[i].job = assigned'[g]
    BY <1>0, <2>3, <2>5 DEF AssignedInv
  <2>10. QED
    BY <2>1, <2>8, <2>9 DEF AssignedInv, Names, Responds
<1>11. ASSUME NEW j \in JobIds, NEW state \in State, ServerRuns(j, state) PROVE AssignedInv'
  <2>1. /\ UNCHANGED <<assigned, requests, newStyle>> /\ progress' = [progress EXCEPT ![j] = state]
        /\ progress[j] \notin Finals
        /\ told' = IF subscribed /\ newStyle THEN told \cup Callers(j) ELSE told
    BY <1>11 DEF ServerRuns, PostUpdate, Post, Finals
  <2>2. CASE subscribed
    <3> DEFINE f == Report(j, progress[j] # "queued")
    <3>1. f \in Frame /\ f.kind = "job" /\ f.job = j /\ f.ids = Callers(j)' /\ Post(f)
      <4>1. progress'[j] \in State
        BY <1>0, <2>1 DEF TypeOK
      <4>2. QED
        BY <1>11, <2>1, <2>2, <4>1, ReportType DEF ServerRuns, PostUpdate, Report, Callers
    <3> HIDE DEF f
    <3>2. \A h \in f.ids : assigned[h] = f.job
      BY <2>1, <3>1 DEF Callers
    <3>3. \A h \in Handles : h \in told' =>
            assigned[h] # None /\ (h \in told \/ progress[assigned[h]] \notin Finals)
      BY <1>0, <2>1 DEF AssignedInv, Callers
    <3>4. QED
      BY <1>9, <2>1, <3>1, <3>2, <3>3
  <2>3. CASE ~subscribed
    <3>1. UNCHANGED <<inbox, pc, id, told>>
      BY <1>11, <2>3 DEF ServerRuns, PostUpdate
    <3>2. QED
      BY <1>0, <1>3, <2>1, <3>1, OtherwiseShrinks
  <2>4. QED
    BY <2>2, <2>3
<1>12. CASE Server
  <2>1. ASSUME NEW h \in Handles, NEW verdict \in {"ok", "notauth", "error"},
               ServerAnswersSubscribe(h, verdict)
        PROVE  AssignedInv'
    <3> DEFINE f == [kind |-> "subscribed", to |-> h, verdict |-> verdict]
    <3>1. f \in Frame /\ f.kind = "subscribed" /\ Post(f)
      BY <2>1 DEF Frame, ServerAnswersSubscribe
    <3>2. UNCHANGED <<assigned, told>> /\ requests' \subseteq requests
      BY <2>1 DEF ServerAnswersSubscribe
    <3> HIDE DEF f
    <3>3. QED
      BY <1>9, <3>1, <3>2 DEF AssignedInv
  <2>2. ASSUME NEW h \in Handles, ServerReplies(h) \/ ServerReturns(h) PROVE AssignedInv'
    <3>1. requests' \subseteq requests /\ UNCHANGED <<assigned, told>>
      BY <1>0, <2>2, ResponseType
    <3>2. PICK f \in Frame :
             /\ Post(f) /\ f.kind \in {"id", "result"} /\ f.to = h
             /\ \/ <<"job", h>> \in requests /\ <<"job", h>> \notin requests'
                \/ /\ assigned[h] \in JobIds
                   /\ newStyle => progress[assigned[h]] \in Finals
                   /\ ~newStyle => f.kind = "id" /\ f.job = assigned[h]
      BY <1>0, <2>2, ResponseType
    <3>3. QED
      BY <1>9, <3>1, <3>2 DEF AssignedInv
  <2>3. CASE ServerFails
    <3> DEFINE f == [kind |-> "global"]
    <3>1. f \in Frame /\ f.kind = "global" /\ Post(f)
      BY <2>3 DEF Frame, ServerFails
    <3>2. UNCHANGED <<assigned, told, requests>>
      BY <2>3 DEF ServerFails
    <3> HIDE DEF f
    <3>3. QED
      BY <1>9, <3>1, <3>2 DEF AssignedInv
  <2>4. CASE ServerEndsWatch
    BY <1>0, <1>3, <2>4, OtherwiseShrinks DEF ServerEndsWatch
  <2>5. QED
    BY <1>10, <1>11, <1>12, <2>1, <2>2, <2>3, <2>4 DEF Server
<1>13. CASE ConnectionLost \/ UNCHANGED vars
  <2>1. /\ UNCHANGED <<id, assigned, told, newStyle, inbox, pc>> /\ requests' \subseteq requests
    BY <1>13 DEF ConnectionLost, vars
  <2>2. QED
    BY <1>0, <1>1, <2>1, OtherwiseShrinks DEF AssignedInv
<1>14. QED
  BY <1>4, <1>5, <1>6, <1>7, <1>8, <1>12, <1>13 DEF Next, Reader

LEMMA InitAssigned == Init => AssignedInv /\ ToldInv
BY JobsAssumption DEF Init, AssignedInv, ToldInv, Unserved, JobsAssumption

-----------------------------------------------------------------------------
(* The update that names a call overtakes what responds to it *)

LEMMA StepTold == TypeInv /\ AssignedInv /\ ToldInv /\ [Next]_vars => ToldInv'
<1> SUFFICES ASSUME TypeInv, AssignedInv, ToldInv, [Next]_vars PROVE ToldInv'
  OBVIOUS
<1>0. /\ TypeOK /\ CallerInv /\ ReaderInv
      /\ DOMAIN inbox = 1..Len(inbox) /\ Len(inbox) \in Nat
  BY EveryElement DEF TypeInv, TypeOK
<1> USE DEF serverVars, settled, watchVars, objVars, callerVars, readerVars
<1>1. ASSUME UNCHANGED <<told, newStyle, inbox>>, dead => dead',
             \A h \in told : pc'[h] = "calling" => pc[h] = "calling"
      PROVE  ToldInv'
  BY <1>0, <1>1 DEF ToldInv, NamedFirst, Names, Responds, TypeOK
<1>2. ASSUME NEW h \in Handles, StartJob(h) \/ OnUpdate(h) \/ Result(h) PROVE ToldInv'
  <2>1. UNCHANGED <<told, newStyle, inbox, dead>>
    BY <1>0, <1>2, CallerHurries DEF Hurries, StartJob, TakeState, OnUpdate, Result, ResultReady,
       ResultCanceled, Forget, Collect
  <2>2. ASSUME NEW g \in told, pc'[g] = "calling" PROVE pc[g] = "calling"
    <3>1. pc[g] \notin Early
      BY <1>0, <2>2 DEF AssignedInv, Unserved, TypeOK
    <3>2. g \in Handles
      BY <1>0 DEF TypeOK
    <3>3. CASE Hurries(h)
      BY <1>0, <2>2, <3>1, <3>2, <3>3 DEF Hurries, Unanswered, TypeOK
    <3>4. CASE ~Hurries(h)
      <4>1. \/ UNCHANGED pc
            \/ \E x \in {"waiting", "forget", "done", "collect"} : pc' = [pc EXCEPT ![h] = x]
        BY <1>0, <1>2, <3>4, CallerHurries DEF StartJob, TakeState, OnUpdate, Result, ResultReady,
           ResultCanceled, Forget, Collect, Goes
      <4>2. QED
        BY <1>0, <2>2, <3>2, <4>1 DEF TypeOK
    <3>5. QED
      BY <3>3, <3>4
  <2>3. QED
    BY <1>1, <2>1, <2>2
<1>3. ASSUME NEW kind, Reads(kind), UNCHANGED dead,
             \A h \in told : pc'[h] = "calling" => pc[h] = "calling",
             \A h \in told : newStyle /\ ~dead /\ pc'[h] = "calling" => ~Names(1, h)
      PROVE  ToldInv'
  <2>1. UNCHANGED <<told, newStyle>>
    BY <1>3 DEF Reads
  <2>2. SUFFICES ASSUME NEW h \in told, newStyle, ~dead, pc'[h] = "calling" PROVE NamedFirst(h)'
    BY <1>3, <2>1 DEF ToldInv
  <2>3. PICK i \in DOMAIN inbox : Names(i, h) /\ \A k \in DOMAIN inbox : Responds(k, h) => i < k
    BY <1>3, <2>2 DEF ToldInv, NamedFirst
  <2>4. i # 1 /\ i \in Nat /\ i >= 1
    BY <1>0, <1>3, <2>2, <2>3
  <2>5. inbox \in Seq(Frame) /\ inbox # <<>> /\ inbox' = Tail(inbox)
    BY <1>0, <1>3 DEF Reads, TypeOK
  <2>6. /\ DOMAIN inbox' = 1..Len(inbox')
        /\ Len(inbox') = Len(inbox) - 1
        /\ \A k \in DOMAIN inbox' : inbox'[k] = inbox[k + 1]
    <3>1. Len(inbox) > 0
      BY <2>5, EmptySeq
    <3>2. QED
      BY <1>0, <2>5, <3>1, HeadTailProperties
  <2>7. i - 1 \in DOMAIN inbox' /\ inbox'[i - 1] = inbox[i]
    BY <1>0, <2>4, <2>6
  <2>8. \A k \in DOMAIN inbox' : k + 1 \in DOMAIN inbox /\ inbox'[k] = inbox[k + 1] /\ (i < k + 1 => i - 1 < k)
    BY <1>0, <2>4, <2>6
  <2>9. Names(i - 1, h)'
    BY <2>3, <2>7 DEF Names
  <2>10. \A k \in DOMAIN inbox' : Responds(k, h)' => i - 1 < k
    BY <2>3, <2>8 DEF Responds
  <2>11. QED
    BY <2>7, <2>9, <2>10 DEF NamedFirst
<1>4. CASE ReadSubscribed \/ ReadResult \/ ReadId
  <2>1. PICK kind \in {"subscribed", "result", "id"} : Reads(kind)
    BY <1>4 DEF ReadSubscribed, ReadResult, ReadId
  <2>2. UNCHANGED dead
    BY <1>4 DEF ReadSubscribed, ReadResult, ReadId
  <2>3. Head(inbox).kind = kind /\ Head(inbox) = inbox[1]
    BY <1>0, <2>1, ReadsType, ReadingShrinks
  <2>4. \A h \in told : ~Names(1, h)
    BY <2>1, <2>3 DEF Names
  <2>5. \A h \in Handles : pc'[h] = "calling" => pc[h] = "calling" \/ pc[h] \in Early
    <3>1. CASE ReadId
      BY <1>0, <3>1, ReaderAnswers DEF Answer
    <3>2. CASE ReadSubscribed \/ ReadResult
      <4>1. UNCHANGED pc \/ \E h \in Handles : Hurries(h)
        BY <1>0, <3>2, ReplyHurries
      <4>2. QED
        BY <1>0, <4>1 DEF Hurries, Unanswered, TypeOK
    <3>3. QED
      BY <1>4, <3>1, <3>2
  <2>6. \A h \in told : h \in Handles /\ pc[h] \notin Early
    BY <1>0 DEF AssignedInv, Unserved, TypeOK
  <2>7. QED
    BY <1>3, <2>1, <2>2, <2>4, <2>5, <2>6
<1>5. CASE ReadJob
  <2>1. /\ Reads("job") /\ UNCHANGED <<newStyle, dead>>
        /\ Answer({h \in Head(inbox).ids : newStyle /\ Waits(h, "calling")}, Head(inbox).job)
    BY <1>5 DEF ReadJob, Reads
  <2>2. Head(inbox) = inbox[1] /\ Head(inbox).ids \subseteq Handles
    BY <1>0, <2>1, ReadsType, ReadingShrinks, FrameKinds
  <2>3. \A h \in Handles : pc'[h] = IF h \in {g \in Head(inbox).ids : newStyle /\ Waits(g, "calling")}
                                   THEN "answered" ELSE pc[h]
    BY <2>1 DEF Answer
  <2>4. \A h \in Handles : pc'[h] = "calling" =>
          pc[h] = "calling" /\ (newStyle /\ ~dead => h \notin Head(inbox).ids)
    BY <2>3 DEF Waits
  <2>5. \A h \in told : h \in Handles
    BY <1>0 DEF TypeOK
  <2>6. QED
    BY <1>3, <2>1, <2>2, <2>4, <2>5 DEF Names
<1>6. CASE ReadGlobalError \/ ReaderCloses
  <2>1. dead'
    BY <1>6 DEF ReadGlobalError, ReaderCloses, Broadcast
  <2>2. QED
    BY <2>1 DEF ToldInv
<1>7. CASE Lookup \/ Update \/ BroadcastDone \/ \E o \in Objects : Fail(o)
  BY <1>1, <1>7 DEF Lookup, Update, BroadcastDone, Fail
<1>8. ASSUME NEW f \in Frame, Post(f), UNCHANGED assigned,
             \A h \in Handles : h \in told' => h \in told \/
               (f.kind = "job" /\ h \in f.ids /\ \A i \in DOMAIN inbox : ~Responds(i, h))
      PROVE  ToldInv'
  <2>1. /\ UNCHANGED <<pc, newStyle, dead>> /\ inbox \in Seq(Frame) /\ inbox' = Append(inbox, f)
    BY <1>0, <1>8 DEF Post, TypeOK
  <2>2. /\ \A i \in DOMAIN inbox' : (i \in DOMAIN inbox /\ inbox'[i] = inbox[i]) \/ i = Len(inbox) + 1
        /\ \A i \in DOMAIN inbox : i \in DOMAIN inbox' /\ inbox'[i] = inbox[i] /\ i < Len(inbox) + 1
        /\ Len(inbox) + 1 \in DOMAIN inbox' /\ inbox'[Len(inbox) + 1] = f
    <3>1. /\ \A i \in DOMAIN inbox' : (i \in DOMAIN inbox /\ inbox'[i] = inbox[i]) \/ i = Len(inbox) + 1
      BY <1>0, <1>8, PostType
    <3>2. QED
      BY <1>0, <2>1, <3>1, SendingFrame
  <2>3. SUFFICES ASSUME NEW h \in told', newStyle, ~dead, pc[h] = "calling" PROVE NamedFirst(h)'
    BY <2>1 DEF ToldInv
  <2>4. CASE h \in told
    <3>1. PICK i \in DOMAIN inbox : Names(i, h) /\ \A k \in DOMAIN inbox : Responds(k, h) => i < k
      BY <2>3, <2>4 DEF ToldInv, NamedFirst
    <3>2. Names(i, h)' /\ i \in DOMAIN inbox'
      BY <2>2, <3>1 DEF Names
    <3>3. \A k \in DOMAIN inbox' : Responds(k, h)' => i < k
      BY <2>2, <3>1 DEF Responds
    <3>4. QED
      BY <3>2, <3>3 DEF NamedFirst
  <2>5. CASE h \notin told
    <3>1. /\ f.kind = "job" /\ h \in f.ids
          /\ \A i \in DOMAIN inbox : ~Responds(i, h)
      <4>1. h \in Handles
        <5>1. TypeOK'
          BY StepTypeOK
        <5>2. QED
          BY <5>1 DEF TypeOK
      <4>2. QED
        BY <1>8, <2>5, <4>1
    <3>2. PICK n \in DOMAIN inbox' : n = Len(inbox) + 1 /\ inbox'[n] = f
      BY <2>2
    <3>3. Names(n, h)'
      BY <3>1, <3>2 DEF Names
    <3>4. \A k \in DOMAIN inbox' : ~Responds(k, h)'
      BY <2>2, <3>1 DEF Responds
    <3>5. QED
      BY <3>3, <3>4 DEF NamedFirst
  <2>6. QED
    BY <2>4, <2>5
<1>9. ASSUME NEW j \in JobIds, NEW state \in State, ServerRuns(j, state) PROVE ToldInv'
  <2>1. /\ UNCHANGED <<assigned, newStyle, dead, pc>> /\ progress[j] \notin Finals
        /\ progress' = [progress EXCEPT ![j] = state]
        /\ told' = IF subscribed /\ newStyle THEN told \cup Callers(j) ELSE told
    BY <1>9 DEF ServerRuns, PostUpdate, Post, Finals
  <2>2. CASE subscribed /\ newStyle
    <3> DEFINE f == Report(j, progress[j] # "queued")
    <3>1. f \in Frame /\ f.kind = "job" /\ f.ids = Callers(j) /\ Post(f)
      <4>1. progress'[j] \in State
        BY <1>0, <2>1 DEF TypeOK
      <4>2. QED
        BY <1>9, <2>1, <2>2, <4>1, ReportType DEF ServerRuns, PostUpdate, Report, Callers
    <3> HIDE DEF f
    <3>2. \A h \in Callers(j) : \A i \in DOMAIN inbox : ~Responds(i, h)
      BY <2>1, <2>2, JobsAssumption DEF Callers, AssignedInv, JobsAssumption
    <3>3. QED
      BY <1>8, <2>1, <3>1, <3>2
  <2>3. CASE ~subscribed
    <3>1. UNCHANGED <<inbox, told>>
      BY <1>9, <2>1, <2>3 DEF ServerRuns, PostUpdate
    <3>2. QED
      BY <1>1, <2>1, <3>1
  <2>4. CASE ~newStyle
    BY <2>1, <2>4 DEF ToldInv
  <2>5. QED
    BY <2>2, <2>3, <2>4
<1>10. CASE Server
  <2>1. ASSUME NEW h \in Handles, NEW verdict \in {"ok", "notauth", "error"},
               ServerAnswersSubscribe(h, verdict)
        PROVE  ToldInv'
    <3>1. [kind |-> "subscribed", to |-> h, verdict |-> verdict] \in Frame
      BY DEF Frame
    <3>2. QED
      BY <1>8, <2>1, <3>1 DEF ServerAnswersSubscribe
  <2>2. ASSUME NEW h \in Handles, ServerReplies(h) \/ ServerReturns(h) PROVE ToldInv'
    BY <1>0, <1>8, <2>2, ResponseType
  <2>3. CASE ServerFails
    <3>1. [kind |-> "global"] \in Frame
      BY DEF Frame
    <3>2. QED
      BY <1>8, <2>3, <3>1 DEF ServerFails
  <2>4. ASSUME NEW h \in Handles, NEW j \in JobIds, ServerStarts(h, j) PROVE ToldInv'
    BY <1>1, <2>4 DEF ServerStarts
  <2>5. CASE ServerEndsWatch
    BY <1>1, <2>5 DEF ServerEndsWatch
  <2>6. QED
    BY <1>9, <1>10, <2>1, <2>2, <2>3, <2>4, <2>5 DEF Server
<1>11. CASE ConnectionLost \/ UNCHANGED vars
  BY <1>1, <1>11 DEF ConnectionLost, vars
<1>12. QED
  BY <1>2, <1>4, <1>5, <1>6, <1>7, <1>10, <1>11 DEF Next, Reader

-----------------------------------------------------------------------------
(* The update that ends a job is the last one of it *)

\* An order that frames have they keep.
LEMMA ShrinkingQueue ==
  ASSUME Shrinks
  PROVE  /\ \A j \in JobIds : OnItsWay(j)' => OnItsWay(j)
         /\ (\A i \in DOMAIN inbox : inbox[i].kind = "job" /\ inbox[i].state \in Finals =>
               /\ inbox[i].changed /\ progress[inbox[i].job] = inbox[i].state
               /\ \A k \in DOMAIN inbox : i < k /\ inbox[k].kind = "job" => inbox[k].job # inbox[i].job)
            => (\A i \in DOMAIN inbox' : inbox'[i].kind = "job" /\ inbox'[i].state \in Finals =>
                  /\ inbox'[i].changed /\ progress[inbox'[i].job] = inbox'[i].state
                  /\ \A k \in DOMAIN inbox' : i < k /\ inbox'[k].kind = "job" => inbox'[k].job # inbox'[i].job)
<1>1. PICK d \in {0, 1} : \A i \in DOMAIN inbox' :
        i \in Nat /\ i + d \in DOMAIN inbox /\ inbox'[i] = inbox[i + d]
  BY DEF Shrinks
<1>2. \A i, k \in DOMAIN inbox' : i < k => i + d < k + d
  BY <1>1
<1>3. \A j \in JobIds : OnItsWay(j)' => OnItsWay(j)
  BY <1>1 DEF OnItsWay
<1>4. QED
  BY <1>1, <1>2, <1>3

LEMMA StepUpdate == TypeInv /\ UpdateInv /\ [Next]_vars => UpdateInv'
<1> SUFFICES ASSUME TypeInv, UpdateInv, [Next]_vars PROVE UpdateInv'
  OBVIOUS
<1>0. TypeOK /\ CallerInv /\ ReaderInv
  BY DEF TypeInv
<1> USE DEF serverVars, settled, watchVars, objVars, callerVars, readerVars
<1>1. ASSUME UNCHANGED <<progress, applied>>, Shrinks,
             rpc' \in {"lookup", "update"} => rpc \in {"lookup", "update"} /\ frame' = frame
      PROVE  UpdateInv'
  <2>1. rpc \in {"lookup", "update"} => frame.job \in JobIds
    BY <1>0, FrameKinds DEF ReaderInv
  <2>2. \A j \in JobIds : (OnItsWay(j)' => OnItsWay(j)) /\ (InHand(j)' => InHand(j))
    BY <1>1, ShrinkingQueue DEF InHand
  <2>3. rpc' \in {"lookup", "update"} /\ frame'.state \in Finals =>
          frame'.changed /\ progress'[frame'.job] = frame'.state /\ ~OnItsWay(frame.job)'
    BY <1>1, <2>1, <2>2 DEF UpdateInv
  <2>4. rpc' \in {"lookup", "update"} => frame' = frame
    BY <1>1
  <2>5. rpc' \in {"lookup", "update"} /\ frame'.state \in Finals =>
          frame'.changed /\ progress'[frame'.job] = frame'.state /\ ~OnItsWay(frame.job)' /\ frame' = frame
    BY <2>3, <2>4
  <2>6. \A j \in JobIds : \A state \in applied'[j] \cap Finals :
          progress'[j] = state /\ ~OnItsWay(j)' /\ ~InHand(j)'
    BY <1>1, <2>2 DEF UpdateInv
  <2>7. \A i \in DOMAIN inbox' : inbox'[i].kind = "job" /\ inbox'[i].state \in Finals =>
          /\ inbox'[i].changed /\ progress'[inbox'[i].job] = inbox'[i].state
          /\ \A k \in DOMAIN inbox' : i < k /\ inbox'[k].kind = "job" => inbox'[k].job # inbox'[i].job
    <3>1. \A i \in DOMAIN inbox : inbox[i].kind = "job" /\ inbox[i].state \in Finals =>
            /\ inbox[i].changed /\ progress[inbox[i].job] = inbox[i].state
            /\ \A k \in DOMAIN inbox : i < k /\ inbox[k].kind = "job" => inbox[k].job # inbox[i].job
      BY DEF UpdateInv
    <3>2. QED
      BY <1>1, <3>1, ShrinkingQueue
  <2>8. QED
    BY <2>5, <2>6, <2>7 DEF UpdateInv, OnItsWay, InHand
<1>2. ASSUME NEW h \in Handles, StartJob(h) \/ OnUpdate(h) \/ Result(h) PROVE UpdateInv'
  <2>1. UNCHANGED <<inbox, progress, readerVars>>
    BY <1>0, <1>2, CallerHurries DEF Hurries, StartJob, TakeState, OnUpdate, Result, ResultReady,
       ResultCanceled, Forget, Collect
  <2>2. QED
    BY <1>0, <1>1, <2>1, OtherwiseShrinks
<1>3. CASE ReadSubscribed \/ ReadResult \/ ReadId
  <2>1. UNCHANGED <<progress, readerVars>> /\ Shrinks
    BY <1>3, <1>0, ReadingShrinks DEF ReadSubscribed, ReadResult, ReadId, Reads
  <2>2. QED
    BY <1>1, <2>1
<1>4. CASE ReadJob
  <2>1. UNCHANGED <<progress, applied>> /\ Shrinks
    BY <1>0, <1>4, ReadingShrinks DEF ReadJob, Reads
  <2>2. CASE UNCHANGED <<rpc, frame>>
    BY <1>1, <2>1, <2>2
  <2>3. CASE rpc' = "lookup" /\ frame' = Head(inbox)
    <3>0. PICK f : f = Head(inbox)
      OBVIOUS
    <3>1. /\ f = inbox[1] /\ 1 \in DOMAIN inbox
          /\ \A i \in DOMAIN inbox' : i + 1 > 1 /\ i + 1 \in DOMAIN inbox /\ inbox'[i] = inbox[i + 1]
      BY <1>0, <1>4, <3>0, ReadingShrinks DEF ReadJob
    <3>2. f.kind = "job" /\ f.job \in JobIds
      BY <1>0, <1>4, <3>0, ReadsType, FrameKinds DEF ReadJob
    <3>3. f.state \in Finals => f.changed /\ progress[f.job] = f.state /\ ~OnItsWay(f.job)'
      BY <3>1, <3>2 DEF UpdateInv, OnItsWay
    <3>4. \A j \in JobIds : applied[j] \cap Finals # {} => j # f.job
      BY <3>1, <3>2 DEF UpdateInv, OnItsWay
    <3>5. \A j \in JobIds : (OnItsWay(j)' => OnItsWay(j)) /\ (InHand(j)' => j = f.job)
      BY <2>1, <2>3, <3>0, ShrinkingQueue DEF InHand
    <3>6. \A j \in JobIds : \A state \in applied'[j] \cap Finals :
            progress'[j] = state /\ ~OnItsWay(j)' /\ ~InHand(j)'
      BY <2>1, <3>4, <3>5 DEF UpdateInv
    <3>7. \A i \in DOMAIN inbox' : inbox'[i].kind = "job" /\ inbox'[i].state \in Finals =>
            /\ inbox'[i].changed /\ progress'[inbox'[i].job] = inbox'[i].state
            /\ \A k \in DOMAIN inbox' : i < k /\ inbox'[k].kind = "job" => inbox'[k].job # inbox'[i].job
      <4>1. \A i \in DOMAIN inbox : inbox[i].kind = "job" /\ inbox[i].state \in Finals =>
              /\ inbox[i].changed /\ progress[inbox[i].job] = inbox[i].state
              /\ \A k \in DOMAIN inbox : i < k /\ inbox[k].kind = "job" => inbox[k].job # inbox[i].job
        BY DEF UpdateInv
      <4>2. QED
        BY <2>1, <4>1, ShrinkingQueue
    <3>8. frame' = f
      BY <2>3, <3>0
    <3>9. QED
      BY <3>3, <3>6, <3>7, <3>8, <2>1 DEF UpdateInv, OnItsWay, InHand
  <2>4. QED
    BY <1>4, <2>2, <2>3 DEF ReadJob
<1>5. CASE Lookup
  BY <1>0, <1>1, <1>5, OtherwiseShrinks DEF Lookup
<1>6. CASE Update
  <2>1. frame.job \in JobIds /\ rpc = "update" /\ rpc' = "read" /\ UNCHANGED <<inbox, progress>>
    BY <1>0, <1>6, FrameKinds DEF ReaderInv, Update
  <2>2. applied' = [applied EXCEPT ![frame.job] = @ \cup {frame.state}]
    BY <1>6 DEF Update
  <2>3. \A j \in JobIds : \A state \in applied'[j] :
          state \in applied[j] \/ (j = frame.job /\ state = frame.state)
    BY <1>0, <2>1, <2>2 DEF TypeOK
  <2>4. \A j \in JobIds : ~InHand(j)' /\ OnItsWay(j)' = OnItsWay(j)
    BY <2>1 DEF InHand, OnItsWay
  <2>5. \A j \in JobIds : \A state \in applied'[j] \cap Finals :
          progress'[j] = state /\ ~OnItsWay(j)' /\ ~InHand(j)'
    BY <2>1, <2>3, <2>4 DEF UpdateInv
  <2>6. QED
    BY <2>1, <2>5 DEF UpdateInv, OnItsWay
<1>7. CASE ReadGlobalError \/ ReaderCloses \/ BroadcastDone \/ \E o \in Objects : Fail(o)
  <2>1. /\ UNCHANGED <<progress, applied>>
        /\ rpc' \in {"lookup", "update"} => rpc \in {"lookup", "update"} /\ frame' = frame
    BY <1>7 DEF ReadGlobalError, ReaderCloses, BroadcastDone, Fail, Broadcast, Reads
  <2>2. Shrinks
    BY <1>0, <1>7, ReadingShrinks, OtherwiseShrinks DEF ReadGlobalError, ReaderCloses, BroadcastDone, Fail
  <2>3. QED
    BY <1>1, <2>1, <2>2
<1>8. CASE ConnectionLost \/ UNCHANGED vars
  BY <1>0, <1>1, <1>8, OtherwiseShrinks DEF ConnectionLost, vars
<1>9. ASSUME NEW f \in Frame, Post(f), UNCHANGED progress, f.kind # "job" PROVE UpdateInv'
  <2>1. /\ UNCHANGED readerVars
        /\ \A i \in DOMAIN inbox' : (i \in DOMAIN inbox /\ inbox'[i] = inbox[i]) \/ inbox'[i] = f
    BY <1>0, <1>9, PostType
  <2>2. \A j \in JobIds : (OnItsWay(j)' => OnItsWay(j)) /\ (InHand(j)' => InHand(j))
    BY <1>9, <2>1 DEF OnItsWay, InHand
  <2>3. rpc \in {"lookup", "update"} => frame.job \in JobIds
    BY <1>0, FrameKinds DEF ReaderInv
  <2>4. /\ rpc \in {"lookup", "update"} /\ frame.state \in Finals =>
            frame.changed /\ progress[frame.job] = frame.state /\ ~OnItsWay(frame.job)'
        /\ \A j \in JobIds : \A state \in applied[j] \cap Finals :
             progress[j] = state /\ ~OnItsWay(j)' /\ ~InHand(j)'
    BY <2>1, <2>2, <2>3 DEF UpdateInv
  <2>5. \A i \in DOMAIN inbox' : inbox'[i].kind = "job" /\ inbox'[i].state \in Finals =>
          /\ inbox'[i].changed /\ progress[inbox'[i].job] = inbox'[i].state
          /\ \A k \in DOMAIN inbox' : i < k /\ inbox'[k].kind = "job" => inbox'[k].job # inbox'[i].job
    <3>1. \A i \in DOMAIN inbox' : inbox'[i].kind = "job" => i \in DOMAIN inbox /\ inbox'[i] = inbox[i]
      BY <1>9, <2>1
    <3>2. \A i \in DOMAIN inbox : inbox[i].kind = "job" /\ inbox[i].state \in Finals =>
            /\ inbox[i].changed /\ progress[inbox[i].job] = inbox[i].state
            /\ \A k \in DOMAIN inbox : i < k /\ inbox[k].kind = "job" => inbox[k].job # inbox[i].job
      BY DEF UpdateInv
    <3>3. QED
      BY <1>9, <3>1, <3>2
  <2>6. QED
    BY <1>9, <2>1, <2>4, <2>5 DEF UpdateInv, OnItsWay, InHand
<1>10. ASSUME NEW j \in JobIds, progress[j] \notin Finals, UNCHANGED readerVars,
              NEW next, progress' = [progress EXCEPT ![j] = next],
              \/ UNCHANGED inbox
              \/ \E f \in Frame : /\ Post(f) /\ f.kind = "job" /\ f.job = j
                                  /\ f.state \in Finals => f.changed /\ next = f.state
       PROVE  UpdateInv'
  <2>1. \A k \in JobIds : k # j => progress'[k] = progress[k]
    BY <1>0, <1>10 DEF TypeOK
  <2>2. progress'[j] = next
    BY <1>0, <1>10 DEF TypeOK
  <2>3. rpc \in {"lookup", "update"} => frame.job \in JobIds
    BY <1>0, FrameKinds DEF ReaderInv
  <2>4. \A i \in DOMAIN inbox : inbox[i].kind = "job" => inbox[i].job \in JobIds
    BY <1>0, EveryElement, FrameKinds DEF TypeOK
  <2>5. PICK last \in Nat : \A i \in DOMAIN inbox' :
           \/ i \in DOMAIN inbox /\ inbox'[i] = inbox[i] /\ i <= last
           \/ /\ i = last + 1 /\ inbox'[i].kind = "job" /\ inbox'[i].job = j
              /\ inbox'[i].state \in Finals => inbox'[i].changed /\ next = inbox'[i].state
    <3>1. DOMAIN inbox = 1..Len(inbox) /\ Len(inbox) \in Nat
      BY <1>0, EveryElement DEF TypeOK
    <3>2. CASE UNCHANGED inbox
      BY <3>1, <3>2
    <3>3. CASE ~UNCHANGED inbox
      <4>1. PICK f \in Frame : /\ Post(f) /\ f.kind = "job" /\ f.job = j
                               /\ f.state \in Finals => f.changed /\ next = f.state
        BY <1>10, <3>3
      <4>2. \A i \in DOMAIN inbox' :
              \/ i \in DOMAIN inbox /\ inbox'[i] = inbox[i]
              \/ i = Len(inbox) + 1 /\ inbox'[i] = f
        BY <1>0, <4>1, PostType
      <4>3. QED
        BY <3>1, <4>1, <4>2
    <3>4. QED
      BY <3>2, <3>3
  <2>6. \A i \in DOMAIN inbox : inbox[i].kind = "job" /\ inbox[i].state \in Finals => inbox[i].job # j
    BY <1>10 DEF UpdateInv
  <2>7. \A k \in JobIds : k # j => (OnItsWay(k)' => OnItsWay(k))
    BY <2>5 DEF OnItsWay
  <2>8. \A k \in JobIds : InHand(k)' = InHand(k)
    BY <1>10 DEF InHand
  <2>9. rpc \in {"lookup", "update"} /\ frame.state \in Finals =>
          frame.changed /\ progress'[frame.job] = frame.state /\ ~OnItsWay(frame.job)'
    BY <1>10, <2>1, <2>3, <2>7 DEF UpdateInv
  <2>10. \A k \in JobIds : \A state \in applied[k] \cap Finals :
           progress'[k] = state /\ ~OnItsWay(k)' /\ ~InHand(k)'
    BY <1>10, <2>1, <2>7, <2>8 DEF UpdateInv
  <2>11. \A i \in DOMAIN inbox' : inbox'[i].kind = "job" /\ inbox'[i].state \in Finals =>
           /\ inbox'[i].changed /\ progress'[inbox'[i].job] = inbox'[i].state
           /\ \A k \in DOMAIN inbox' : i < k /\ inbox'[k].kind = "job" => inbox'[k].job # inbox'[i].job
    <3>1. SUFFICES ASSUME NEW i \in DOMAIN inbox', inbox'[i].kind = "job", inbox'[i].state \in Finals
                   PROVE  /\ inbox'[i].changed /\ progress'[inbox'[i].job] = inbox'[i].state
                          /\ \A k \in DOMAIN inbox' : i < k /\ inbox'[k].kind = "job" =>
                               inbox'[k].job # inbox'[i].job
      OBVIOUS
    <3>2. CASE i \in DOMAIN inbox /\ inbox'[i] = inbox[i] /\ i <= last
      <4>1. inbox[i].job # j /\ inbox[i].job \in JobIds
        BY <2>4, <2>6, <3>1, <3>2
      <4>2. inbox[i].changed /\ progress'[inbox[i].job] = inbox[i].state
        BY <2>1, <3>1, <3>2, <4>1 DEF UpdateInv
      <4>3. ASSUME NEW k \in DOMAIN inbox', i < k, inbox'[k].kind = "job"
            PROVE  inbox'[k].job # inbox[i].job
        <5>1. CASE k \in DOMAIN inbox /\ inbox'[k] = inbox[k]
          BY <3>1, <3>2, <4>3, <5>1 DEF UpdateInv
        <5>2. CASE inbox'[k].job = j
          BY <4>1, <5>2
        <5>3. QED
          BY <2>5, <5>1, <5>2
      <4>4. QED
        BY <3>2, <4>2, <4>3
    <3>3. CASE i = last + 1 /\ inbox'[i].job = j /\ inbox'[i].changed /\ next = inbox'[i].state
      <4>1. \A k \in DOMAIN inbox' : ~(i < k)
        <5>1. DOMAIN inbox \subseteq Nat
          BY <1>0 DEF TypeOK
        <5>2. QED
          BY <2>5, <3>3, <5>1
      <4>2. QED
        BY <2>2, <3>3, <4>1
    <3>4. QED
      BY <2>5, <3>1, <3>2, <3>3
  <2>12. QED
    BY <1>10, <2>9, <2>10, <2>11 DEF UpdateInv, OnItsWay, InHand
<1>11. ASSUME NEW h \in Handles, NEW j \in JobIds, ServerStarts(h, j) PROVE UpdateInv'
  <2>1. UNCHANGED <<inbox, readerVars>>
    BY <1>11 DEF ServerStarts
  <2>2. /\ progress[j] \notin Finals
        /\ UNCHANGED progress \/ progress' = [progress EXCEPT ![j] = "queued"]
    BY <1>0, <1>11, StartingKeeps
  <2>3. CASE UNCHANGED progress
    BY <1>0, <1>1, <2>1, <2>3, OtherwiseShrinks
  <2>4. CASE progress' = [progress EXCEPT ![j] = "queued"]
    BY <1>10, <2>1, <2>2, <2>4
  <2>5. QED
    BY <2>2, <2>3, <2>4
<1>12. ASSUME NEW j \in JobIds, NEW state \in State, ServerRuns(j, state) PROVE UpdateInv'
  <2>1. /\ progress' = [progress EXCEPT ![j] = state] /\ progress[j] \in {"queued", "WAITING", "RUNNING"}
        /\ progress[j] = "queued" => state = "WAITING"
    BY <1>12 DEF ServerRuns
  <2>2. progress[j] \notin Finals /\ (state \in Finals => progress[j] # "queued") /\ progress'[j] = state
    BY <1>0, <2>1 DEF Finals, TypeOK
  <2>3. CASE subscribed
    <3> DEFINE f == Report(j, progress[j] # "queued")
    <3>1. f \in Frame /\ f.kind = "job" /\ f.job = j /\ f.state = state /\ f.changed = (progress[j] # "queued")
      BY <2>2, ReportType DEF Report
    <3>2. Post(f) /\ UNCHANGED readerVars
      BY <1>12, <2>3 DEF ServerRuns, PostUpdate, Post
    <3> HIDE DEF f
    <3>3. \E g \in Frame : /\ Post(g) /\ g.kind = "job" /\ g.job = j
                           /\ g.state \in Finals => g.changed /\ state = g.state
      BY <2>2, <3>1, <3>2
    <3>4. QED
      BY <1>10, <2>1, <2>2, <3>2, <3>3
  <2>4. CASE ~subscribed
    <3>1. UNCHANGED <<inbox, readerVars>>
      BY <1>12, <2>4 DEF ServerRuns, PostUpdate
    <3>2. QED
      BY <1>10, <2>1, <2>2, <3>1
  <2>5. QED
    BY <2>3, <2>4
<1>13. CASE Server
  <2>1. ASSUME NEW f, Post(f), UNCHANGED progress,
               f \in [kind : {"subscribed"}, to : Handles, verdict : {"ok", "notauth", "error"}]
                     \cup [kind : {"global"}]
        PROVE  UpdateInv'
    <3>1. f \in Frame /\ f.kind # "job"
      BY <2>1 DEF Frame
    <3>2. QED
      BY <1>9, <2>1, <3>1
  <2>2. ASSUME NEW h \in Handles, NEW verdict \in {"ok", "notauth", "error"},
               ServerAnswersSubscribe(h, verdict)
        PROVE  UpdateInv'
    BY <2>1, <2>2 DEF ServerAnswersSubscribe
  <2>3. ASSUME NEW h \in Handles, ServerReplies(h) \/ ServerReturns(h) PROVE UpdateInv'
    <3>1. UNCHANGED progress /\ \E f \in Frame : Post(f) /\ f.kind \in {"id", "result"}
      BY <1>0, <2>3, ResponseType
    <3>2. PICK f \in Frame : Post(f) /\ f.kind \in {"id", "result"}
      BY <3>1
    <3>3. f.kind # "job"
      BY <3>2
    <3>4. QED
      BY <1>9, <3>1, <3>2, <3>3
  <2>4. CASE ServerFails
    BY <2>1, <2>4 DEF ServerFails
  <2>5. CASE ServerEndsWatch
    BY <1>0, <1>1, <2>5, OtherwiseShrinks DEF ServerEndsWatch
  <2>6. QED
    BY <1>11, <1>12, <1>13, <2>2, <2>3, <2>4, <2>5 DEF Server
<1>14. QED
  BY <1>2, <1>3, <1>4, <1>5, <1>6, <1>7, <1>8, <1>13 DEF Next, Reader

LEMMA InitUpdate == Init => UpdateInv
BY DEF Init, UpdateInv

-----------------------------------------------------------------------------
(* An object is the object of one job *)

\* What is counted can be compared.
LEMMA ObjectNumbers == TypeOK => made \in Nat /\ Objects \subseteq Nat /\ 0 \notin Objects
BY Counting DEF TypeOK

LEMMA StepObject == TypeInv /\ UpdateInv /\ ObjectInv /\ [Next]_vars => ObjectInv'
<1> SUFFICES ASSUME TypeInv, UpdateInv, ObjectInv, [Next]_vars PROVE ObjectInv'
  OBVIOUS
<1>0. /\ TypeOK /\ CallerInv /\ ReaderInv /\ ObjectsSuffice
      /\ made \in Nat /\ Objects \subseteq Nat /\ 0 \notin Objects
  BY ObjectNumbers DEF TypeInv
<1> USE DEF serverVars, settled, watchVars, objVars, callerVars, readerVars
<1>1. ASSUME UNCHANGED <<made, fields, failure, ready, applied>>,
             \A o \in Objects : o \in toFail' => o <= made,
             \A o \in Objects : \A j \in JobIds : Of(o, j)' => Of(o, j)
      PROVE  ObjectInv'
  <2>1. \A o \in Objects :
          /\ o > made => fields[o] = None /\ ~ready[o]
          /\ ready[o] => failure[o] \/ fields[o] \in Finals
    BY DEF ObjectInv
  <2>2. \A o \in Objects : o > made => o \notin toFail'
    BY <1>0, <1>1
  <2>3. \A o \in Objects : \A j \in JobIds : Of(o, j)' =>
          o <= made /\ (fields[o] # None => fields[o] \in applied[j])
    BY <1>1 DEF ObjectInv
  <2>4. \A o \in Objects : \A j, k \in JobIds : Of(o, j)' /\ Of(o, k)' => j = k
    BY <1>1 DEF ObjectInv
  <2>5. QED
    BY <1>1, <2>1, <2>2, <2>3, <2>4 DEF ObjectInv
<1>2. \A o \in Objects : o \in toFail => o <= made
  <2>1. \A o \in Objects : o > made => o \notin toFail
    BY DEF ObjectInv
  <2>2. QED
    BY <1>0, <2>1
<1>3. ASSUME NEW i \in JobIds, JobState(i), UNCHANGED <<fields, failure, ready, applied, toFail>>,
             \A o \in Objects : \A j \in JobIds : Of(o, j)' => Of(o, j) \/ jobs'[j] = o \/ (j = i /\ o = jobs'[i])
      PROVE  ObjectInv'
  <2>1. /\ \A k \in JobIds : k # i => jobs'[k] = jobs[k]
        /\ jobs[i] # 0 => jobs' = jobs /\ made' = made
        /\ jobs[i] = 0 => jobs'[i] = made + 1 /\ made' = made + 1
    BY <1>0, <1>3, JobStateType
  <2>2. CASE jobs[i] # 0
    <3>1. \A o \in Objects : \A j \in JobIds : Of(o, j)' => Of(o, j)
      BY <1>3, <2>1, <2>2 DEF Of
    <3>2. QED
      BY <1>1, <1>2, <1>3, <2>1, <2>2, <3>1
  <2>3. CASE jobs[i] = 0
    <3>1. \A o \in Objects : \A j \in JobIds : Of(o, j)' => Of(o, j) \/ (j = i /\ o = made + 1)
      BY <1>3, <2>1, <2>3 DEF Of
    <3>2. \A o \in Objects : \A j \in JobIds : Of(o, j) => o # made + 1
      BY <1>0 DEF ObjectInv
    <3>3. \A o \in Objects : o = made + 1 => fields[o] = None
      BY <1>0 DEF ObjectInv
    <3>4. \A o \in Objects : \A j, k \in JobIds : Of(o, j)' /\ Of(o, k)' => j = k
      BY <3>1, <3>2 DEF ObjectInv
    <3>5. \A o \in Objects : \A j \in JobIds : Of(o, j)' =>
            o <= made + 1 /\ (fields[o] # None => fields[o] \in applied[j])
      BY <1>0, <3>1, <3>3 DEF ObjectInv
    <3>6. \A o \in Objects :
            /\ o > made + 1 => fields[o] = None /\ ~ready[o] /\ o \notin toFail
            /\ ready[o] => failure[o] \/ fields[o] \in Finals
      BY <1>0 DEF ObjectInv
    <3>7. QED
      BY <1>3, <2>1, <2>3, <3>4, <3>5, <3>6 DEF ObjectInv
  <2>4. QED
    BY <2>2, <2>3
<1>4. ASSUME NEW h \in Handles, StartJob(h) PROVE ObjectInv'
  <2>1. CASE Hurries(h)
    BY <1>1, <1>2, <2>1 DEF Hurries, Of
  <2>2. CASE TakeState(h)
    <3>1. /\ id[h] \in JobIds /\ JobState(id[h]) /\ obj' = [obj EXCEPT ![h] = jobs'[id[h]]]
          /\ UNCHANGED <<fields, failure, ready, id, readerVars>>
      BY <1>0, <2>2 DEF TakeState, CallerInv
    <3>2. \A g \in Handles : obj'[g] = obj[g] \/ (g = h /\ obj'[g] = jobs'[id[h]])
      BY <1>0, <3>1 DEF TypeOK
    <3>3. \A o \in Objects : \A j \in JobIds :
            Of(o, j)' => Of(o, j) \/ jobs'[j] = o \/ (j = id[h] /\ o = jobs'[id[h]])
      BY <3>1, <3>2 DEF Of
    <3>4. QED
      BY <1>3, <3>1, <3>3
  <2>3. QED
    BY <1>0, <1>4, <2>1, <2>2, CallerHurries DEF StartJob
<1>5. ASSUME NEW h \in Handles, OnUpdate(h) \/ ResultReady(h) \/ ResultCanceled(h) \/ Collect(h)
      PROVE  ObjectInv'
  BY <1>1, <1>2, <1>5 DEF OnUpdate, ResultReady, ResultCanceled, Collect, Of
<1>6. ASSUME NEW h \in Handles, Forget(h) PROVE ObjectInv'
  <2>1. /\ id[h] \in JobIds /\ jobs' = [jobs EXCEPT ![id[h]] = 0]
        /\ UNCHANGED <<objVars, id, obj, readerVars>>
    BY <1>0, <1>6 DEF Forget, CallerInv
  <2>2. \A j \in JobIds : jobs'[j] = jobs[j] \/ jobs'[j] = 0
    BY <1>0, <2>1 DEF TypeOK
  <2>3. \A o \in Objects : \A j \in JobIds : Of(o, j)' => Of(o, j)
    BY <1>0, <2>1, <2>2 DEF Of
  <2>4. QED
    BY <1>1, <1>2, <2>1, <2>3
<1>7. CASE ReadSubscribed \/ ReadResult
  BY <1>0, <1>1, <1>2, <1>7, ReplyHurries DEF Of
<1>8. CASE ReadId \/ ReadJob
  <2>1. PICK H \in SUBSET Handles :
           /\ Answer(H, Head(inbox).job)
           /\ \A h \in H : pc[h] = "calling"
           /\ UNCHANGED <<jobs, objVars, obj, robj, toFail, applied>>
    BY <1>0, <1>8, ReaderAnswers
  <2>2. rpc = "read" /\ rpc' # "update"
    BY <1>8 DEF ReadId, ReadJob, Reads
  <2>3. \A h \in Handles : id'[h] = id[h] \/ obj[h] = 0
    BY <1>0, <2>1 DEF Answer, CallerInv
  <2>4. \A o \in Objects : \A j \in JobIds : Of(o, j)' => Of(o, j)
    BY <1>0, <2>1, <2>2, <2>3 DEF Of
  <2>5. QED
    BY <1>1, <1>2, <2>1, <2>4
<1>9. CASE Lookup
  <2>1. /\ frame.job \in JobIds /\ JobState(frame.job) /\ robj' = jobs'[frame.job]
        /\ UNCHANGED <<fields, failure, ready, callerVars, frame, applied, toFail>>
    BY <1>0, <1>9, FrameKinds DEF Lookup, ReaderInv
  <2>2. \A o \in Objects : \A j \in JobIds :
          Of(o, j)' => Of(o, j) \/ jobs'[j] = o \/ (j = frame.job /\ o = jobs'[frame.job])
    BY <2>1 DEF Of
  <2>3. PICK i \in JobIds : i = frame.job
    BY <2>1
  <2>4. QED
    BY <1>3, <2>1, <2>2, <2>3
<1>10. CASE Update
  <2>1. /\ frame.job \in JobIds /\ frame.state \in State /\ robj \in Objects
        /\ rpc = "update" /\ rpc' = "read"
        /\ UNCHANGED <<made, jobs, failure, callerVars, toFail>>
    BY <1>0, <1>10, FrameKinds DEF ReaderInv, Update
  <2>2. PICK o \in Objects, j \in JobIds, x \in State : o = robj /\ j = frame.job /\ x = frame.state
    BY <2>1
  <2>3. /\ fields' = [fields EXCEPT ![o] = x]
        /\ ready' = [ready EXCEPT ![o] = @ \/ Completes(frame)]
        /\ applied' = [applied EXCEPT ![j] = @ \cup {x}]
    BY <1>10, <2>2 DEF Update
  <2>4. Of(o, j) /\ InHand(j)
    BY <2>1, <2>2 DEF Of, InHand
  <2>5. ready[o] => failure[o]
    BY <1>0, <2>4 DEF ObjectInv, UpdateInv, None, Finals
  <2>6. Completes(frame) => x \in Finals
    BY <2>2 DEF Completes
  <2>7. \A p \in Objects : /\ fields'[p] = IF p = o THEN x ELSE fields[p]
                           /\ p # o => ready'[p] = ready[p]
    BY <1>0, <2>3 DEF TypeOK
  <2>8. ready'[o] => ready[o] \/ Completes(frame)
    BY <1>0, <2>3 DEF TypeOK
  <2>9. \A k \in JobIds : applied[k] \subseteq applied'[k] /\ x \in applied'[j]
    BY <1>0, <2>3 DEF TypeOK
  <2>10. \A p \in Objects : \A k \in JobIds : Of(p, k)' => Of(p, k)
    BY <2>1 DEF Of
  <2>11. o <= made
    BY <2>4 DEF ObjectInv
  <2>12. \A p \in Objects : p > made => fields'[p] = None /\ ~ready'[p] /\ p \notin toFail
    BY <1>0, <2>7, <2>11 DEF ObjectInv
  <2>13. \A p \in Objects : ready'[p] => failure[p] \/ fields'[p] \in Finals
    BY <2>5, <2>6, <2>7, <2>8 DEF ObjectInv
  <2>14. \A p \in Objects : \A k \in JobIds :
           Of(p, k)' => p <= made /\ (fields'[p] # None => fields'[p] \in applied'[k])
    <3>1. SUFFICES ASSUME NEW p \in Objects, NEW k \in JobIds
                   PROVE  Of(p, k)' => p <= made /\ (fields'[p] # None => fields'[p] \in applied'[k])
      OBVIOUS
    <3>2. CASE p = o
      BY <2>4, <2>7, <2>9, <2>10, <3>2 DEF ObjectInv
    <3>3. CASE p # o
      BY <2>7, <2>9, <2>10, <3>3 DEF ObjectInv
    <3>4. QED
      BY <3>2, <3>3
  <2>15. \A p \in Objects : \A k, l \in JobIds : Of(p, k)' /\ Of(p, l)' => k = l
    BY <2>10 DEF ObjectInv
  <2>16. QED
    BY <2>1, <2>12, <2>13, <2>14, <2>15 DEF ObjectInv
<1>11. CASE ReadGlobalError \/ ReaderCloses
  <2>1. /\ toFail' = Tracked /\ rpc' # "update"
        /\ UNCHANGED <<jobs, objVars, callerVars, frame, robj, applied>>
    BY <1>11 DEF ReadGlobalError, ReaderCloses, Broadcast
  <2>2. \A o \in Objects : o \in Tracked => o <= made
    BY DEF ObjectInv, Tracked, Of
  <2>3. QED
    BY <1>1, <2>1, <2>2 DEF Of
<1>12. CASE BroadcastDone
  BY <1>1, <1>2, <1>12 DEF BroadcastDone, Of
<1>13. ASSUME NEW o \in Objects, Fail(o) PROVE ObjectInv'
  <2>1. /\ o \in toFail /\ failure' = [failure EXCEPT ![o] = TRUE] /\ ready' = [ready EXCEPT ![o] = TRUE]
        /\ toFail' = toFail \ {o}
        /\ UNCHANGED <<jobs, made, fields, callerVars, rpc, frame, robj, applied>>
    BY <1>13 DEF Fail
  <2>2. \A p \in Objects : \A k \in JobIds : Of(p, k)' = Of(p, k)
    BY <2>1 DEF Of
  <2>3. \A p \in Objects : /\ p # o => ready'[p] = ready[p] /\ failure'[p] = failure[p]
                           /\ failure'[o]
    BY <1>0, <2>1 DEF TypeOK
  <2>4. QED
    BY <1>0, <1>2, <2>1, <2>2, <2>3 DEF ObjectInv
<1>14. CASE Server \/ ConnectionLost \/ UNCHANGED vars
  BY <1>1, <1>2, <1>14, ServerKeeps DEF Of
<1>15. QED
  BY <1>4, <1>5, <1>6, <1>7, <1>8, <1>9, <1>10, <1>11, <1>12, <1>13, <1>14 DEF Next, Reader, Result

LEMMA InitObject == Init => ObjectInv
BY Counting DEF Init, ObjectInv, Of

-----------------------------------------------------------------------------
(* StartJob and the reader meet on one object *)

\* What no step takes back from a handle: its object and id, its return, and what
\* Result has reported.
LEMMA HandlesStay ==
  ASSUME TypeInv, [Next]_vars, NEW h \in Handles
  PROVE  /\ obj[h] # 0 => obj'[h] = obj[h] /\ id'[h] = id[h]
         /\ pc[h] = "done" => pc'[h] = "done" /\ outcome'[h] = outcome[h]
         /\ outcome'[h] \in Reported =>
              outcome'[h] = outcome[h] \/ (pc[h] = "collect" /\ pc'[h] = "done")
         /\ pc[h] = "collect" => pc'[h] = "collect" \/ outcome'[h] \in Reported
         /\ pc'[h] \in {"forget", "collect"} =>
              pc[h] \in {"forget", "collect"} \/ (pc[h] = "waiting" /\ ready[obj[h]])
<1>0. TypeOK /\ CallerInv
  BY DEF TypeInv
<1> USE DEF serverVars, settled, watchVars, objVars, callerVars, readerVars
<1>1. CASE UNCHANGED callerVars
  BY <1>1
<1>2. ASSUME UNCHANGED <<id, obj>>, NEW g \in Handles, Hurries(g) \/ UNCHANGED pc,
             UNCHANGED outcome \/ (pc[g] \in Unanswered /\ outcome' = [outcome EXCEPT ![g] = "notStarted"])
      PROVE  /\ pc[h] = "done" => pc'[h] = "done" /\ outcome'[h] = outcome[h]
             /\ outcome'[h] \in Reported => outcome'[h] = outcome[h]
             /\ pc[h] = "collect" => pc'[h] = "collect"
             /\ pc'[h] \in {"forget", "collect"} => pc[h] \in {"forget", "collect"}
  BY <1>0, <1>2 DEF Hurries, Unanswered, Early, TypeOK, Reported
<1>3. ASSUME NEW g \in Handles, StartJob(g)
      PROVE  /\ obj[h] # 0 => obj'[h] = obj[h] /\ id'[h] = id[h]
             /\ pc[h] = "done" => pc'[h] = "done" /\ outcome'[h] = outcome[h]
             /\ outcome'[h] \in Reported => outcome'[h] = outcome[h]
             /\ pc[h] = "collect" => pc'[h] = "collect"
             /\ pc'[h] \in {"forget", "collect"} => pc[h] \in {"forget", "collect"}
  <2>1. CASE TakeState(g)
    <3>1. /\ obj[g] = 0 /\ pc[g] = "answered" /\ UNCHANGED <<id, outcome>>
          /\ pc' = [pc EXCEPT ![g] = "waiting"] /\ obj' = [obj EXCEPT ![g] = jobs'[id[g]]]
      BY <1>0, <2>1 DEF TakeState, Goes, CallerInv
    <3>2. QED
      BY <1>0, <3>1 DEF TypeOK
  <2>2. CASE Watch(g) \/ Unwatch(g) \/ SendCall(g) \/ CallFails(g)
    <3>1. Hurries(g)
      BY <1>0, <2>2, CallerHurries
    <3>2. UNCHANGED outcome \/ outcome' = [outcome EXCEPT ![g] = "notStarted"]
      BY <2>2 DEF Watch, Unwatch, SendCall, CallFails, GivesUp, Returned
    <3>3. UNCHANGED <<id, obj>> /\ pc[g] \in Unanswered
      BY <3>1 DEF Hurries
    <3>4. QED
      BY <1>2, <3>1, <3>2, <3>3
  <2>3. QED
    BY <1>3, <2>1, <2>2 DEF StartJob
<1>4. ASSUME NEW g \in Handles, Result(g)
      PROVE  /\ obj[h] # 0 => obj'[h] = obj[h] /\ id'[h] = id[h]
             /\ pc[h] = "done" => pc'[h] = "done" /\ outcome'[h] = outcome[h]
             /\ outcome'[h] \in Reported =>
                  outcome'[h] = outcome[h] \/ (pc[h] = "collect" /\ pc'[h] = "done")
             /\ pc[h] = "collect" => pc'[h] = "collect" \/ outcome'[h] \in Reported
             /\ pc'[h] \in {"forget", "collect"} =>
                  pc[h] \in {"forget", "collect"} \/ (pc[h] = "waiting" /\ ready[obj[h]])
  <2>1. CASE ResultReady(g)
    BY <1>0, <2>1 DEF ResultReady, Goes, TypeOK
  <2>2. CASE ResultCanceled(g)
    BY <1>0, <2>2 DEF ResultCanceled, Goes, TypeOK, Reported
  <2>3. CASE Forget(g)
    BY <1>0, <2>3 DEF Forget, Goes, TypeOK
  <2>4. CASE Collect(g)
    BY <1>0, <2>4 DEF Collect, Goes, TypeOK, Verdict, Reported
  <2>5. QED
    BY <1>4, <2>1, <2>2, <2>3, <2>4 DEF Result
<1>5. CASE ReadSubscribed \/ ReadResult
  <2>1. PICK g \in Handles : Hurries(g) \/ UNCHANGED pc
    BY <1>0, <1>5, ReplyHurries
  <2>2. UNCHANGED <<id, obj>>
    BY <1>5 DEF ReadSubscribed, ReadResult
  <2>3. \/ UNCHANGED outcome
        \/ \E k \in Handles : pc[k] \in Unanswered /\ outcome' = [outcome EXCEPT ![k] = "notStarted"]
    <3>1. Head(inbox).to \in Handles
      BY <1>0, <1>5, ReadsType, FrameKinds DEF ReadSubscribed, ReadResult
    <3>2. QED
      BY <1>5, <3>1 DEF ReadSubscribed, ReadResult, Waits, GivesUp, Returned, Unanswered
  <2>4. \/ outcome'[h] = outcome[h]
        \/ pc[h] \in Unanswered /\ outcome'[h] = "notStarted"
    BY <1>0, <2>3 DEF TypeOK
  <2>5. \/ pc'[h] = pc[h]
        \/ pc[h] \in Unanswered /\ pc'[h] \in Unanswered \cup {"done"}
    BY <1>0, <2>1 DEF Hurries, TypeOK
  <2>6. QED
    BY <2>2, <2>4, <2>5 DEF Unanswered, Early, Reported
<1>6. CASE ReadId \/ ReadJob
  <2>1. PICK H \in SUBSET Handles :
           /\ Answer(H, Head(inbox).job)
           /\ \A g \in H : pc[g] = "calling" /\ ~dead
           /\ UNCHANGED <<obj, outcome>>
    BY <1>0, <1>6, ReaderAnswers
  <2>2. /\ pc'[h] = IF h \in H THEN "answered" ELSE pc[h]
        /\ id'[h] = IF h \in H THEN Head(inbox).job ELSE id[h]
    BY <2>1 DEF Answer
  <2>3. h \in H => obj[h] = 0 /\ pc[h] = "calling"
    BY <1>0, <2>1 DEF CallerInv
  <2>4. QED
    BY <2>1, <2>2, <2>3
<1>7. CASE \/ \E g \in Handles : OnUpdate(g)
           \/ Lookup \/ Update \/ ReadGlobalError \/ ReaderCloses \/ BroadcastDone \/ \E o \in Objects : Fail(o)
           \/ Server \/ ConnectionLost \/ UNCHANGED vars
  <2>1. UNCHANGED callerVars
    BY <1>7, ServerKeeps
    DEF OnUpdate, Lookup, Update, ReadGlobalError, ReaderCloses, BroadcastDone, Fail, Broadcast
  <2>2. QED
    BY <1>1, <2>1
<1>8. QED
  BY <1>3, <1>4, <1>5, <1>6, <1>7 DEF Next, Reader

\* An object that has been released stays so.
LEMMA ReadyStays ==
  ASSUME TypeInv, [Next]_vars
  PROVE  \A o \in Objects : ready[o] => ready'[o]
<1>0. TypeOK
  BY DEF TypeInv
<1> USE DEF serverVars, settled, watchVars, objVars, callerVars, readerVars
<1>1. CASE \E h \in Handles : StartJob(h) \/ OnUpdate(h) \/ Result(h)
  BY <1>0, <1>1, CallerHurries DEF Hurries, StartJob, TakeState, OnUpdate, Result, ResultReady,
     ResultCanceled, Forget, Collect
<1>2. CASE Update \/ \E o \in Objects : Fail(o)
  BY <1>0, <1>2 DEF Update, Fail, TypeOK
<1>3. CASE Reader /\ ~Update /\ ~\E o \in Objects : Fail(o)
  BY <1>0, <1>3, ReplyHurries, ReaderAnswers
  DEF Reader, Lookup, ReadGlobalError, ReaderCloses, BroadcastDone, Broadcast
<1>4. CASE Server \/ ConnectionLost \/ UNCHANGED vars
  BY <1>4, ServerKeeps
<1>5. QED
  BY <1>1, <1>2, <1>3, <1>4 DEF Next

\* What a Result has deleted it has deleted, and who lost the race for an object
\* has lost it.
LEMMA ClearedStays ==
  ASSUME TypeInv, MeetInv, [Next]_vars
  PROVE  /\ \A j : Cleared(j) => Cleared(j)'
         /\ \A h \in Handles : obj[h] # 0 /\ Superseded(h) => Superseded(h)'
         /\ \A h \in Handles :
              /\ Released(h)' => obj'[h] # 0 /\ ready'[obj'[h]]
              /\ outcome'[h] \in Reported => pc'[h] = "done"
<1>1. \A g \in Handles :
        /\ obj[g] # 0 => obj'[g] = obj[g] /\ id'[g] = id[g] /\ obj[g] \in Objects
        /\ pc[g] = "done" => pc'[g] = "done" /\ outcome'[g] = outcome[g]
        /\ outcome'[g] \in Reported =>
             outcome'[g] = outcome[g] \/ (pc[g] = "collect" /\ pc'[g] = "done")
        /\ pc[g] = "collect" => pc'[g] = "collect" \/ outcome'[g] \in Reported
        /\ pc'[g] \in {"forget", "collect"} =>
             pc[g] \in {"forget", "collect"} \/ (pc[g] = "waiting" /\ ready[obj[g]])
  <2>1. \A g \in Handles : obj[g] # 0 => obj[g] \in Objects
    BY DEF TypeInv, TypeOK
  <2>2. QED
    BY <2>1, HandlesStay
<1>2. \A g \in Handles :
        /\ Released(g) => obj[g] # 0 /\ ready[obj[g]]
        /\ outcome[g] \in Reported => pc[g] = "done"
        /\ pc[g] = "waiting" => obj[g] # 0
  BY DEF MeetInv, TypeInv, CallerInv
<1>3. \A g \in Handles : \A j : HasCleared(g, j) => HasCleared(g, j)' /\ obj'[g] = obj[g]
  <2>1. SUFFICES ASSUME NEW g \in Handles, NEW j, HasCleared(g, j)
                 PROVE  HasCleared(g, j)' /\ obj'[g] = obj[g]
    OBVIOUS
  <2>2. id[g] = j /\ (pc[g] = "collect" \/ outcome[g] \in Reported)
    BY <2>1 DEF HasCleared, Reported
  <2>3. obj[g] # 0
    BY <1>2, <2>2 DEF Released
  <2>4. obj'[g] = obj[g] /\ id'[g] = id[g]
    BY <1>1, <2>3
  <2>5. pc'[g] = "collect" \/ outcome'[g] \in Reported
    BY <1>1, <1>2, <2>2
  <2>6. QED
    BY <2>2, <2>4, <2>5 DEF HasCleared, Reported
<1>4. \A j : Cleared(j) => Cleared(j)'
  BY <1>3 DEF Cleared
<1>5. ASSUME NEW h \in Handles, obj[h] # 0, Superseded(h) PROVE Superseded(h)'
  <2>1. PICK g \in Handles : HasCleared(g, id[h]) /\ obj[g] # obj[h]
    BY <1>5 DEF Superseded
  <2>2. id'[h] = id[h] /\ obj'[h] = obj[h]
    BY <1>1, <1>5
  <2>3. PICK j : j = id[h]
    OBVIOUS
  <2>4. HasCleared(g, j)' /\ obj'[g] = obj[g]
    BY <1>3, <2>1, <2>3
  <2>5. QED
    BY <2>1, <2>2, <2>3, <2>4 DEF Superseded, HasCleared
<1>6. ASSUME NEW h \in Handles
      PROVE  /\ Released(h)' => obj'[h] # 0 /\ ready'[obj'[h]]
             /\ outcome'[h] \in Reported => pc'[h] = "done"
  <2>1. Released(h)' => Released(h) \/ (pc[h] = "waiting" /\ ready[obj[h]])
    BY <1>1 DEF Released
  <2>2. Released(h)' => obj[h] # 0 /\ ready[obj[h]]
    BY <1>2, <2>1
  <2>3. Released(h)' => obj'[h] # 0 /\ ready'[obj'[h]]
    BY <1>1, <2>2, ReadyStays
  <2>4. outcome'[h] \in Reported => pc'[h] = "done"
    BY <1>1, <1>2
  <2>5. QED
    BY <2>3, <2>4
<1>7. QED
  BY <1>4, <1>5, <1>6

LEMMA StepMeet == TypeInv /\ UpdateInv /\ MeetInv /\ [Next]_vars => MeetInv'
<1> SUFFICES ASSUME TypeInv, UpdateInv, MeetInv, [Next]_vars PROVE MeetInv'
  OBVIOUS
<1>0. /\ TypeOK /\ CallerInv /\ ReaderInv /\ ObjectsSuffice /\ 0 \notin Objects
      /\ \A o \in Objects : ready[o] => ready'[o]
      /\ \A h \in Handles : obj[h] # 0 => obj[h] \in Objects /\ id[h] \in JobIds
      /\ \A j \in JobIds : jobs[j] # 0 => jobs[j] \in Objects
      /\ rpc = "update" => frame.job \in JobIds /\ robj \in Objects
  <2>1. TypeOK /\ CallerInv /\ ReaderInv /\ ObjectsSuffice
    BY DEF TypeInv
  <2>2. rpc = "update" => frame.job \in JobIds /\ robj \in Objects
    BY <2>1, FrameKinds DEF ReaderInv
  <2>3. QED
    BY <2>1, <2>2, ObjectNumbers, ReadyStays DEF CallerInv, TypeOK
<1>1. /\ \A j : Cleared(j) => Cleared(j)'
      /\ \A h \in Handles : obj[h] # 0 /\ Superseded(h) => Superseded(h)'
      /\ \A h \in Handles : /\ Released(h)' => obj'[h] # 0 /\ ready'[obj'[h]]
                            /\ outcome'[h] \in Reported => pc'[h] = "done"
  BY ClearedStays
<1>2. \A h \in Handles : obj[h] # 0 => obj'[h] = obj[h] /\ id'[h] = id[h]
  BY HandlesStay
<1> USE DEF serverVars, settled, watchVars, objVars, callerVars, readerVars
<1>3. /\ \A h \in Handles : obj[h] # 0 => jobs[id[h]] = obj[h] \/ Cleared(id[h])
      /\ rpc = "update" => jobs[frame.job] = robj \/ Cleared(frame.job)
      /\ \A j \in JobIds :
           /\ applied[j] # {} => jobs[j] # 0 \/ Cleared(j)
           /\ applied[j] \cap Finals # {} => Cleared(j) \/ (jobs[j] # 0 /\ ready[jobs[j]])
      /\ \A h \in Handles : obj[h] # 0 /\ applied[id[h]] \cap Finals # {} => ready[obj[h]] \/ Superseded(h)
  BY DEF MeetInv, FinalWakes
\* What is deleted from the table is Cleared; objects are found or made for it.
<1>4. ASSUME UNCHANGED applied,
             \A j \in JobIds : jobs[j] # 0 => jobs'[j] = jobs[j] \/ Cleared(j)',
             \A h \in Handles : obj'[h] # 0 => obj[h] # 0 \/
               /\ id'[h] \in JobIds /\ jobs'[id'[h]] = obj'[h]
               /\ applied[id'[h]] \cap Finals # {} => ready[obj'[h]] \/ Superseded(h)',
             rpc' = "update" => frame'.job \in JobIds /\
               (jobs'[frame'.job] = robj' \/ (rpc = "update" /\ UNCHANGED <<frame, robj>>)),
             \A h \in Handles : obj'[h] # 0 => obj'[h] \in Objects
      PROVE  MeetInv'
  <2>1. ASSUME NEW h \in Handles, obj'[h] # 0
        PROVE  jobs'[id'[h]] = obj'[h] \/ Cleared(id[h])'
    <3>1. CASE obj[h] # 0
      <4>1. PICK j \in JobIds : j = id[h] /\ j = id'[h] /\ obj'[h] = obj[h]
        BY <1>0, <1>2, <3>1
      <4>2. jobs[j] = obj[h] \/ Cleared(j)
        BY <1>3, <3>1, <4>1
      <4>3. jobs'[j] = obj'[h] \/ Cleared(j)'
        BY <1>1, <1>4, <3>1, <4>1, <4>2
      <4>4. QED
        BY <4>1, <4>3
    <3>2. CASE obj[h] = 0
      BY <1>4, <2>1, <3>2
    <3>3. QED
      BY <3>1, <3>2
  <2>2. ASSUME rpc' = "update" PROVE jobs'[frame'.job] = robj' \/ Cleared(frame.job)'
    <3>1. CASE rpc = "update" /\ UNCHANGED <<frame, robj>>
      <4>1. PICK j \in JobIds : j = frame.job /\ j = frame'.job
        BY <1>0, <3>1
      <4>2. jobs[j] = robj \/ Cleared(j)
        BY <1>3, <3>1, <4>1
      <4>3. jobs'[j] = robj' \/ Cleared(j)'
        BY <1>0, <1>1, <1>4, <3>1, <4>1, <4>2
      <4>4. QED
        BY <4>1, <4>3
    <3>2. CASE jobs'[frame'.job] = robj'
      BY <3>2
    <3>3. QED
      BY <1>4, <2>2, <3>1, <3>2
  <2>3. ASSUME NEW j \in JobIds
        PROVE  /\ applied[j] # {} => jobs'[j] # 0 \/ Cleared(j)'
               /\ applied[j] \cap Finals # {} => Cleared(j)' \/ (jobs'[j] # 0 /\ ready'[jobs'[j]])
    <3>1. jobs[j] # 0 => (jobs'[j] = jobs[j] /\ jobs[j] \in Objects) \/ Cleared(j)'
      BY <1>0, <1>4
    <3>2. QED
      BY <1>0, <1>1, <1>3, <3>1
  <2>4. ASSUME NEW h \in Handles, obj'[h] # 0, applied[id'[h]] \cap Finals # {}
        PROVE  ready'[obj'[h]] \/ Superseded(h)'
    <3>1. CASE obj[h] # 0
      BY <1>0, <1>1, <1>2, <1>3, <2>4, <3>1
    <3>2. CASE obj[h] = 0
      BY <1>0, <1>4, <2>4, <3>2
    <3>3. QED
      BY <3>1, <3>2
  <2>5. QED
    BY <1>1, <1>4, <2>1, <2>2, <2>3, <2>4 DEF MeetInv, FinalWakes
<1>5. ASSUME UNCHANGED <<obj, jobs, applied>>, rpc' = "update" => rpc = "update" /\ UNCHANGED <<frame, robj>>
      PROVE  MeetInv'
  BY <1>0, <1>4, <1>5
<1>6. ASSUME NEW i \in JobIds, JobState(i)
      PROVE  /\ jobs'[i] # 0 /\ jobs'[i] \in Objects
             /\ \A j \in JobIds : jobs[j] # 0 => jobs'[j] = jobs[j]
  BY <1>0, <1>6, JobStateType
<1>7. ASSUME NEW h \in Handles, TakeState(h) PROVE MeetInv'
  <2>1. /\ pc[h] = "answered" /\ id[h] \in JobIds /\ JobState(id[h])
        /\ obj' = [obj EXCEPT ![h] = jobs'[id[h]]]
        /\ UNCHANGED <<ready, id, readerVars>>
    BY <1>0, <1>7 DEF TakeState, CallerInv
  <2>2. PICK j \in JobIds : j = id[h]
    BY <2>1
  <2>3. /\ jobs'[j] # 0 /\ jobs'[j] \in Objects
        /\ \A k \in JobIds : jobs[k] # 0 => jobs'[k] = jobs[k]
    BY <1>6, <2>1, <2>2
  <2>4. obj'[h] = jobs'[j] /\ id'[h] = j /\ \A g \in Handles : g # h => obj'[g] = obj[g]
    BY <1>0, <2>1, <2>2 DEF TypeOK
  <2>5. ASSUME applied[j] \cap Finals # {} PROVE ready[obj'[h]] \/ Superseded(h)'
    <3>1. CASE jobs[j] # 0 /\ ready[jobs[j]]
      BY <2>3, <2>4, <3>1
    <3>2. CASE Cleared(j)
      <4>1. PICK g \in Handles : HasCleared(g, j)'
        BY <1>1, <3>2 DEF Cleared
      <4>2. Released(g)'
        BY <4>1 DEF HasCleared, Released, Reported
      <4>3. ready[obj'[g]]
        BY <1>1, <2>1, <4>2
      <4>4. CASE obj'[g] = obj'[h]
        BY <4>3, <4>4
      <4>5. CASE obj'[g] # obj'[h]
        BY <2>4, <4>1, <4>5 DEF Superseded, HasCleared
      <4>6. QED
        BY <4>4, <4>5
    <3>3. QED
      BY <1>3, <2>5, <3>1, <3>2
  <2>6. \A g \in Handles : obj'[g] # 0 => obj[g] # 0 \/ g = h
    BY <2>4
  <2>7. \A g \in Handles : obj'[g] # 0 => obj'[g] \in Objects
    BY <1>0, <2>3, <2>4
  <2>8. QED
    BY <1>0, <1>4, <2>1, <2>3, <2>4, <2>5, <2>6, <2>7
<1>8. ASSUME NEW h \in Handles, StartJob(h) PROVE MeetInv'
  BY <1>0, <1>5, <1>7, <1>8, CallerHurries DEF Hurries, StartJob
<1>9. ASSUME NEW h \in Handles, OnUpdate(h) \/ ResultReady(h) \/ ResultCanceled(h) \/ Collect(h)
      PROVE  MeetInv'
  BY <1>5, <1>9 DEF OnUpdate, ResultReady, ResultCanceled, Collect
<1>10. ASSUME NEW h \in Handles, Forget(h) PROVE MeetInv'
  <2>1. /\ id[h] \in JobIds /\ jobs' = [jobs EXCEPT ![id[h]] = 0] /\ pc' = [pc EXCEPT ![h] = "collect"]
        /\ UNCHANGED <<objVars, id, obj, readerVars>>
    BY <1>0, <1>10 DEF Forget, CallerInv, Goes
  <2>2. PICK i \in JobIds : i = id[h]
    BY <2>1
  <2>3. Cleared(i)'
    BY <1>0, <2>1, <2>2 DEF Cleared, HasCleared, TypeOK
  <2>4. \A j \in JobIds : jobs'[j] = jobs[j] \/ j = i
    BY <1>0, <2>1, <2>2 DEF TypeOK
  <2>5. \A j \in JobIds : jobs[j] # 0 => jobs'[j] = jobs[j] \/ Cleared(j)'
    BY <2>3, <2>4
  <2>6. QED
    BY <1>0, <1>4, <2>1, <2>5
<1>11. CASE ReadSubscribed \/ ReadResult
  BY <1>0, <1>5, <1>11, ReplyHurries
<1>12. CASE ReadId \/ ReadJob
  <2>1. UNCHANGED <<obj, jobs, applied>>
    BY <1>0, <1>12, ReaderAnswers
  <2>2. rpc' # "update"
    BY <1>12 DEF ReadId, ReadJob, Reads
  <2>3. QED
    BY <1>5, <2>1, <2>2
<1>13. CASE Lookup
  <2>1. /\ frame.job \in JobIds /\ JobState(frame.job) /\ robj' = jobs'[frame.job]
        /\ UNCHANGED <<obj, applied, frame>>
    BY <1>0, <1>13, FrameKinds DEF Lookup, ReaderInv
  <2>2. PICK i \in JobIds : i = frame.job
    BY <2>1
  <2>3. \A j \in JobIds : jobs[j] # 0 => jobs'[j] = jobs[j]
    BY <1>6, <2>1, <2>2
  <2>4. QED
    BY <1>0, <1>4, <2>1, <2>3
<1>14. CASE Update
  <2>1. /\ rpc = "update" /\ rpc' = "read" /\ frame.state \in State
        /\ UNCHANGED <<jobs, callerVars>>
    BY <1>0, <1>14, FrameKinds DEF Update, ReaderInv
  <2>2. PICK o \in Objects, j \in JobIds, x \in State : o = robj /\ j = frame.job /\ x = frame.state
    BY <1>0, <2>1
  <2>3. applied' = [applied EXCEPT ![j] = @ \cup {x}]
    BY <1>14, <2>2 DEF Update
  <2>4. /\ applied'[j] = applied[j] \cup {x}
        /\ \A k \in JobIds : k # j => applied'[k] = applied[k]
    BY <1>0, <2>3 DEF TypeOK
  <2>5. x \in Finals => ready'[o]
    <3>1. x \in Finals => Completes(frame)
      BY <2>1, <2>2 DEF UpdateInv, Completes
    <3>2. QED
      BY <1>0, <1>14, <2>2, <3>1 DEF Update, TypeOK
  <2>6. jobs[j] = o \/ Cleared(j)
    BY <1>3, <2>1, <2>2
  <2>7. ASSUME NEW h \in Handles, obj[h] # 0
        PROVE  jobs[id[h]] = obj[h] \/ Cleared(id[h])'
    <3>1. PICK k \in JobIds : k = id[h] /\ k = id'[h]
      BY <1>0, <1>2, <2>7
    <3>2. jobs[k] = obj[h] \/ Cleared(k)'
      BY <1>1, <1>3, <2>7, <3>1
    <3>3. QED
      BY <3>1, <3>2
  <2>8. ASSUME NEW k \in JobIds
        PROVE  /\ applied'[k] # {} => jobs[k] # 0 \/ Cleared(k)'
               /\ applied'[k] \cap Finals # {} => Cleared(k)' \/ (jobs[k] # 0 /\ ready'[jobs[k]])
    <3>1. CASE k # j
      BY <1>0, <1>1, <1>3, <2>4, <3>1
    <3>2. CASE k = j
      <4>1. applied'[k] \cap Finals # {} => applied[k] \cap Finals # {} \/ x \in Finals
        BY <2>4, <3>2
      <4>2. QED
        BY <1>0, <1>1, <1>3, <2>5, <2>6, <3>2, <4>1
    <3>3. QED
      BY <3>1, <3>2
  <2>9. ASSUME NEW h \in Handles, obj[h] # 0, applied'[id[h]] \cap Finals # {}
        PROVE  ready'[obj[h]] \/ Superseded(h)'
    <3>1. CASE applied[id[h]] \cap Finals # {}
      BY <1>0, <1>1, <1>3, <2>9, <3>1
    <3>2. CASE applied[id[h]] \cap Finals = {}
      <4>1. id[h] = j /\ x \in Finals
        BY <1>0, <2>4, <2>9, <3>2
      <4>2. CASE obj[h] = o
        BY <2>5, <4>1, <4>2
      <4>3. CASE obj[h] # o
        <5>1. Cleared(j)
          BY <1>3, <2>6, <2>9, <4>1, <4>3
        <5>2. PICK g \in Handles : HasCleared(g, j)
          BY <5>1 DEF Cleared
        <5>3. obj[g] # 0 /\ ready[obj[g]]
          BY <5>2 DEF MeetInv, HasCleared, Released, Reported
        <5>4. CASE obj[g] = obj[h]
          BY <1>0, <2>9, <5>3, <5>4
        <5>5. CASE obj[g] # obj[h]
          BY <1>1, <2>9, <4>1, <5>2, <5>5 DEF Superseded
        <5>6. QED
          BY <5>4, <5>5
      <4>4. QED
        BY <4>2, <4>3
    <3>3. QED
      BY <3>1, <3>2
  <2>10. QED
    BY <1>1, <2>1, <2>7, <2>8, <2>9 DEF MeetInv, FinalWakes
<1>15. CASE ReadGlobalError \/ ReaderCloses \/ BroadcastDone
  <2>1. UNCHANGED <<obj, jobs, applied>> /\ rpc' # "update"
    BY <1>15 DEF ReadGlobalError, ReaderCloses, BroadcastDone, Broadcast
  <2>2. QED
    BY <1>5, <2>1
<1>16. CASE \E o \in Objects : Fail(o)
  BY <1>5, <1>16 DEF Fail
<1>17. CASE Server \/ ConnectionLost \/ UNCHANGED vars
  BY <1>5, <1>17, ServerKeeps
<1>18. QED
  BY <1>8, <1>9, <1>10, <1>11, <1>12, <1>13, <1>14, <1>15, <1>16, <1>17 DEF Next, Reader, Result

LEMMA InitMeet == Init => MeetInv
BY DEF Init, MeetInv, FinalWakes, Released, Reported, None

JobInv == TypeInv /\ AssignedInv /\ ToldInv /\ UpdateInv /\ ObjectInv /\ MeetInv

LEMMA JobInvariant == Spec => []JobInv
<1>1. Init => JobInv
  BY InitType, InitAssigned, InitUpdate, InitObject, InitMeet DEF JobInv
<1>2. JobInv /\ [Next]_vars => JobInv'
  <2>1. TypeInv /\ [Next]_vars => TypeInv'
    BY StepTypeOK, StepCaller, StepReader, StepSuffice DEF TypeInv
  <2>2. QED
    BY <2>1, StepAssigned, StepTold, StepUpdate, StepObject, StepMeet DEF JobInv
<1>3. QED
  BY <1>1, <1>2, PTL DEF Spec

\* The update that ends a job has released the Result of every handle on it,
\* whichever of jobsEvent and StartJob came first to jobState, and however many
\* calls share the job; only who takes an object of his own, after another's
\* Result has deleted the entry, is left out (jobState.update, Result).
THEOREM TheEndWakesResult == Spec => []FinalWakes
<1>1. JobInv => FinalWakes
  BY DEF JobInv, MeetInv
<1>2. QED
  BY <1>1, JobInvariant, PTL

\* When StartJob makes the stub of its job, no update of that job has been
\* applied to an object it will not see, unless another call shares the job and
\* its Result has deleted the object that had them (Client.jobState).
THEOREM StubsAreMadeInTime == Spec => StubsPrecedeEvents
<1>1. JobInv /\ [Next]_vars =>
        [\A h \in Handles :
           obj'[h] # obj[h] /\ made' # made => applied[id[h]] = {} \/ Cleared(id[h])]_vars
  <2> SUFFICES ASSUME JobInv, [Next]_vars, NEW h \in Handles, obj'[h] # obj[h], made' # made
               PROVE  applied[id[h]] = {} \/ Cleared(id[h])
    OBVIOUS
  <2>1. TypeOK /\ CallerInv /\ MeetInv /\ ObjectsSuffice
    BY DEF JobInv, TypeInv
  <2> USE DEF serverVars, settled, watchVars, objVars, callerVars, readerVars
  <2>2. \E g \in Handles : TakeState(g)
    <3>1. CASE \E g \in Handles : StartJob(g) \/ OnUpdate(g) \/ Result(g)
      BY <2>1, <3>1, CallerHurries
      DEF Hurries, StartJob, OnUpdate, Result, ResultReady, ResultCanceled, Forget, Collect
    <3>2. CASE Reader
      BY <2>1, <3>2, ReplyHurries, ReaderAnswers
      DEF Reader, Lookup, Update, ReadGlobalError, ReaderCloses, BroadcastDone, Fail, Broadcast
    <3>3. CASE Server \/ ConnectionLost \/ UNCHANGED vars
      BY <3>3, ServerKeeps
    <3>4. QED
      BY <3>1, <3>2, <3>3 DEF Next
  <2>3. PICK g \in Handles : TakeState(g)
    BY <2>2
  <2>4. g = h
    BY <2>1, <2>3 DEF TakeState, TypeOK
  <2>5. id[h] \in JobIds /\ JobState(id[h])
    BY <2>1, <2>3, <2>4 DEF TakeState, CallerInv
  <2>6. jobs[id[h]] = 0
    BY <2>5 DEF JobState
  <2>7. QED
    BY <2>1, <2>5, <2>6 DEF MeetInv
<1>2. QED
  BY <1>1, JobInvariant, PTL DEF Spec, StubsPrecedeEvents

-----------------------------------------------------------------------------
(* What Result reports *)

\* What Collect finds in an object that has been released.
LEMMA VerdictIsTheJobs ==
  ASSUME JobInv, NEW h \in Handles, pc[h] = "collect"
  PROVE  LET verdict == Verdict(obj[h]) IN
         /\ id[h] \in JobIds
         /\ verdict = "result" => progress[id[h]] = "SUCCESS"
         /\ verdict = "jobError" => progress[id[h]] \in {"FAILED", "ABORTED"}
         /\ verdict = "connError" => dead
<1>1. TypeOK /\ CallerInv /\ ReaderInv /\ UpdateInv /\ ObjectInv /\ MeetInv
  BY DEF JobInv, TypeInv
<1>2. id[h] \in JobIds /\ obj[h] # 0 /\ obj[h] \in Objects /\ ready[obj[h]]
  BY <1>1 DEF CallerInv, TypeOK, MeetInv, Released
<1>3. PICK o \in Objects, j \in JobIds : o = obj[h] /\ j = id[h]
  BY <1>2
<1>4. Of(o, j)
  BY <1>3 DEF Of
<1>5. fields[o] # None => fields[o] \in applied[j]
  BY <1>1, <1>4 DEF ObjectInv
<1>6. fields[o] \in Finals => progress[j] = fields[o]
  BY <1>1, <1>5 DEF UpdateInv, Finals, None
<1>7. failure[o] \/ fields[o] \in Finals
  BY <1>1, <1>2, <1>3 DEF ObjectInv
<1>8. failure[o] => dead
  BY <1>1 DEF ReaderInv
<1>9. QED
  BY <1>2, <1>3, <1>6, <1>7, <1>8 DEF Verdict, Finals, None

LEMMA StepResult == JobInv /\ ResultInv /\ [Next]_vars => ResultInv'
<1> SUFFICES ASSUME JobInv, ResultInv, [Next]_vars, NEW h \in Handles
             PROVE  /\ outcome'[h] = "result" => progress'[id'[h]] = "SUCCESS"
                    /\ outcome'[h] = "jobError" => progress'[id'[h]] \in {"FAILED", "ABORTED"}
                    /\ outcome'[h] = "connError" => dead'
  BY DEF ResultInv
<1>1. /\ TypeInv /\ TypeOK /\ CallerInv /\ MeetInv
      /\ \A j \in JobIds : progress[j] \in Finals => progress'[j] = progress[j]
      /\ dead => dead'
  BY EndsStay DEF JobInv, TypeInv
<1>2. /\ obj[h] # 0 => obj'[h] = obj[h] /\ id'[h] = id[h]
      /\ outcome'[h] \in Reported =>
           outcome'[h] = outcome[h] \/ (pc[h] = "collect" /\ pc'[h] = "done")
  BY <1>1, HandlesStay
<1>3. CASE outcome'[h] \in Reported /\ outcome'[h] = outcome[h]
  <2>1. id'[h] = id[h] /\ id[h] \in JobIds
    BY <1>1, <1>2, <1>3 DEF MeetInv, Released, CallerInv
  <2>2. QED
    BY <1>1, <1>3, <2>1 DEF ResultInv, Finals
<1>4. CASE outcome'[h] # outcome[h] /\ pc[h] = "collect" /\ pc'[h] = "done"
  <2>1. Collect(h)
    <3> USE DEF serverVars, settled, watchVars, objVars, callerVars, readerVars
    <3>1. ASSUME NEW g \in Handles, StartJob(g) \/ OnUpdate(g) \/ Result(g) PROVE Collect(h)
      <4>1. CASE StartJob(g)
        BY <1>1, <1>4, <4>1, CallerHurries
        DEF StartJob, TakeState, Goes, Hurries, Unanswered, Early, TypeOK
      <4>2. CASE OnUpdate(g) \/ Result(g)
        BY <1>1, <1>4, <4>2
        DEF OnUpdate, Result, ResultReady, ResultCanceled, Forget, Collect, Goes, TypeOK
      <4>3. QED
        BY <3>1, <4>1, <4>2
    <3>2. CASE Reader
      <4>1. CASE ReadSubscribed \/ ReadResult
        BY <1>1, <1>4, <4>1, ReplyHurries DEF Hurries, Unanswered, Early, TypeOK
      <4>2. CASE ReadId \/ ReadJob
        BY <1>1, <1>4, <4>2, ReaderAnswers
      <4>3. CASE ~(ReadSubscribed \/ ReadResult \/ ReadId \/ ReadJob)
        BY <1>4, <3>2, <4>3
        DEF Reader, Lookup, Update, ReadGlobalError, ReaderCloses, BroadcastDone, Fail, Broadcast
      <4>4. QED
        BY <4>1, <4>2, <4>3
    <3>3. CASE Server \/ ConnectionLost \/ UNCHANGED vars
      BY <1>4, <3>3, ServerKeeps
    <3>4. QED
      BY <3>1, <3>2, <3>3 DEF Next
  <2>2. outcome'[h] = Verdict(obj[h]) /\ UNCHANGED <<id, progress, dead>>
    BY <1>1, <2>1 DEF Collect, TypeOK, serverVars, readerVars
  <2>3. PICK verdict : verdict = Verdict(obj[h])
    OBVIOUS
  <2>4. /\ verdict = "result" => progress[id[h]] = "SUCCESS"
        /\ verdict = "jobError" => progress[id[h]] \in {"FAILED", "ABORTED"}
        /\ verdict = "connError" => dead
    BY <1>4, <2>3, VerdictIsTheJobs
  <2>5. QED
    BY <2>2, <2>3, <2>4
<1>5. QED
  BY <1>2, <1>3, <1>4 DEF Reported

\* Result reports the outcome of the job it was given the id of: the object it
\* reads is of that job alone, its last update is the end the server reported,
\* and without one only a dead connection can have released it.  The id is that
\* of the very job the server runs for the call, if an update has named the call
\* or responses are in the legacy style: no number the method returns takes its
\* place then (Result, handleCollectionUpdate, unmarshalTo).
THEOREM ResultReportsItsJob == Spec => []ResultIsTheJobs
<1>1. Init => ResultInv
  BY DEF Init, ResultInv, None
<1>2. JobInv /\ ResultInv => ResultIsTheJobs
  <2>1. ASSUME AssignedInv, NEW h \in Handles, id[h] # None, Identified(h) PROVE id[h] = assigned[h]
    BY <2>1 DEF AssignedInv, Identified, Misled
  <2>2. QED
    BY <2>1 DEF JobInv, ResultInv, ResultIsTheJobs
<1>3. QED
  BY <1>1, <1>2, JobInvariant, StepResult, PTL DEF Spec

-----------------------------------------------------------------------------
(* Callbacks *)

\* A callback is set on the object of the handle it was set through.
CallbackInv ==
  /\ \A o \in Objects : \A h \in Handles : callback[o] = h => obj[h] = o
  /\ CallbackUpToDate

LEMMA StepCallback == TypeInv /\ CallbackInv /\ [Next]_vars => CallbackInv'
<1> SUFFICES ASSUME TypeInv, CallbackInv, [Next]_vars PROVE CallbackInv'
  OBVIOUS
<1>0. TypeOK /\ CallerInv /\ ReaderInv
  BY DEF TypeInv
<1> USE DEF serverVars, settled, watchVars, objVars, callerVars, readerVars
<1>1. \A o \in Objects : \A h \in Handles :
        /\ callback[o] = h => obj[h] = o /\ obj'[h] = o
        /\ callback[o] = h /\ fields[o] # None => notified[h] = fields[o]
  <2>1. \A h \in Handles : obj[h] # 0 => obj'[h] = obj[h]
    BY HandlesStay
  <2>2. QED
    BY <2>1, Counting DEF CallbackInv, CallbackUpToDate
<1>2. ASSUME UNCHANGED <<fields, callback, notified>> PROVE CallbackInv'
  BY <1>1, <1>2 DEF CallbackInv, CallbackUpToDate
<1>3. ASSUME NEW h \in Handles, StartJob(h) \/ Result(h) PROVE CallbackInv'
  BY <1>0, <1>2, <1>3, CallerHurries DEF Hurries, StartJob, TakeState, Result, ResultReady, ResultCanceled,
     Forget, Collect
<1>4. ASSUME NEW h \in Handles, OnUpdate(h) PROVE CallbackInv'
  <2>1. PICK o \in Objects : o = obj[h]
    BY <1>0, <1>4 DEF OnUpdate, CallerInv, TypeOK
  <2>2. /\ callback' = [callback EXCEPT ![o] = h] /\ UNCHANGED <<fields, obj>>
        /\ fields[o] # None => notified' = [notified EXCEPT ![h] = fields[o]]
        /\ fields[o] = None => notified' = notified
    BY <1>4, <2>1 DEF OnUpdate, Replay
  <2>3. /\ fields[o] # None => notified'[h] = fields[o]
        /\ \A g \in Handles : g # h => notified'[g] = notified[g]
    BY <1>0, <2>2 DEF TypeOK
  <2>4. \A p \in Objects : callback'[p] = IF p = o THEN h ELSE callback[p]
    BY <1>0, <2>2 DEF TypeOK
  <2>5. \A p \in Objects : \A g \in Handles : callback'[p] = g => obj[g] = p
    BY <1>1, <2>1, <2>4
  <2>6. \A p \in Objects : \A g \in Handles :
          callback'[p] = g /\ fields[p] # None => notified'[g] = fields[p]
    <3>1. SUFFICES ASSUME NEW p \in Objects, NEW g \in Handles, callback'[p] = g, fields[p] # None
                   PROVE  notified'[g] = fields[p]
      OBVIOUS
    <3>2. CASE p = o
      BY <2>3, <2>4, <3>1, <3>2
    <3>3. CASE p # o
      <4>1. callback[p] = g /\ obj[g] = p
        BY <1>1, <2>4, <3>1, <3>3
      <4>2. g # h
        BY <2>1, <3>3, <4>1
      <4>3. QED
        BY <1>1, <2>3, <3>1, <4>1, <4>2
    <3>4. QED
      BY <3>2, <3>3
  <2>7. QED
    BY <2>2, <2>5, <2>6 DEF CallbackInv, CallbackUpToDate
<1>5. CASE Update
  <2>1. robj \in Objects
    BY <1>0, <1>5 DEF Update, ReaderInv
  <2>2. /\ \A o \in Objects : fields'[o] = IF o = robj THEN frame.state ELSE fields[o]
        /\ \A h \in Handles : notified'[h] = IF callback[robj] = h THEN frame.state ELSE notified[h]
        /\ UNCHANGED <<callback, obj>>
    BY <1>0, <1>5, <2>1 DEF Update, TypeOK
  <2>3. ASSUME NEW o \in Objects, NEW h \in Handles, callback[o] = h, fields'[o] # None
        PROVE  notified'[h] = fields'[o]
    <3>1. CASE o = robj
      BY <2>2, <2>3, <3>1
    <3>2. CASE o # robj
      <4>1. callback[robj] # h
        BY <1>1, <2>1, <2>3, <3>2
      <4>2. QED
        BY <1>1, <2>2, <2>3, <3>2, <4>1
    <3>3. QED
      BY <3>1, <3>2
  <2>4. QED
    BY <1>1, <2>2, <2>3 DEF CallbackInv, CallbackUpToDate
<1>6. CASE Reader /\ ~Update
  BY <1>0, <1>2, <1>6, ReplyHurries, ReaderAnswers
  DEF Reader, Lookup, ReadGlobalError, ReaderCloses, BroadcastDone, Fail, Broadcast
<1>7. CASE Server \/ ConnectionLost \/ UNCHANGED vars
  BY <1>2, <1>7, ServerKeeps
<1>8. QED
  BY <1>3, <1>4, <1>5, <1>6, <1>7 DEF Next

\* The last state a callback has been started with is the latest of its object,
\* whether OnUpdate found it there or the reader came after (OnUpdate,
\* jobState.update).
THEOREM CallbacksKeepUp == Spec => []CallbackUpToDate
<1>1. Init => CallbackInv
  BY JobsAssumption DEF Init, CallbackInv, CallbackUpToDate, JobsAssumption
<1>2. CallbackInv => CallbackUpToDate
  BY DEF CallbackInv
<1>3. QED
  BY <1>1, <1>2, TypeInvariant, StepCallback, PTL DEF Spec
=============================================================================
