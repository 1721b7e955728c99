-------------------------- MODULE SubscriptionsProofs --------------------------
(***************************************************************************)
(* Proofs about Subscriptions, for any number of subscriptions, names and  *)
(* events.                                                                 *)
(***************************************************************************)
EXTENDS Subscriptions, FifoLemmas

-----------------------------------------------------------------------------
(* Type correctness *)

\* The reader holds a frame of the kind it is serving.
ServesItsKind ==
  /\ rpc = "deliver" => frame.kind = "event"
  /\ rpc = "finish" => frame.kind = "end"

TypeInv == TypeOK /\ ServesItsKind

\* Frames are told apart by their kind.
LEMMA FrameKinds ==
  ASSUME NEW f \in Frame
  PROVE  /\ f.kind = "reply" => f.op \in {"subscribe", "unsubscribe"} /\ f.sub \in Subs /\ f.ok \in BOOLEAN
         /\ f.kind = "event" => f.name \in Names /\ f.n \in 1..MaxEvents
         /\ f.kind = "end" => f.name \in Names /\ f.bad \in BOOLEAN
         /\ f.kind # "none"
BY DEF Frame

\* The frame the reader takes is a frame of its kind, and frames remain.
LEMMA ReadsType ==
  ASSUME TypeOK, NEW kind, Reads(kind)
  PROVE  /\ Head(inbox) \in Frame /\ Head(inbox).kind = kind /\ inbox' \in Seq(Frame)
         /\ rpc = "read" /\ targets = {}
<1>1. rpc = "read" /\ inbox # <<>> /\ Head(inbox).kind = kind /\ inbox' = Tail(inbox)
  BY DEF Reads
<1>2. targets = {}
  BY <1>1 DEF TypeOK
<1>3. QED
  BY <1>1, <1>2, ReadingInbox DEF TypeOK

LEMMA InitType == Init => TypeInv
<1> SUFFICES ASSUME Init PROVE TypeInv
  OBVIOUS
<1>1. ran \in [Subs -> Seq(1..MaxEvents)] /\ inbox \in Seq(Frame) /\ audience \in Seq(SUBSET Subs)
  BY EmptySeq DEF Init
<1>2. TypeOK
  BY <1>1, SubscriptionsAssumption DEF Init, TypeOK
<1>3. QED
  BY <1>2 DEF Init, TypeInv, ServesItsKind

LEMMA StepType == TypeInv /\ [Next]_vars => TypeInv'
<1> SUFFICES ASSUME TypeInv, [Next]_vars PROVE TypeInv'
  OBVIOUS
<1> USE DEF TypeInv, serverVars, subVars, readerVars, cbVars
<1>1. ASSUME NEW s \in Subs, SubscriberMoves(s) PROVE TypeInv'
  <2> USE DEF TypeOK, ServesItsKind
  <2>1. ASSUME NEW event \in Names, Register(s, event) PROVE TypeInv'
    BY <2>1 DEF Register, Enter
  <2>2. ASSUME NEW op \in {"subscribe", "unsubscribe"}, Call(s, op) PROVE TypeInv'
    BY <2>2 DEF Call
  <2>3. CASE GiveUp(s) \/ Fails(s) \/ Remove(s)
    BY <2>3 DEF GiveUp, Fails, Remove, Without
  <2>4. QED
    BY <1>1, <2>1, <2>2, <2>3 DEF SubscriberMoves, CallSubscribe, CallUnsubscribe
<1>2. CASE ReadReply
  <2>1. Head(inbox) \in Frame /\ Head(inbox).kind = "reply" /\ inbox' \in Seq(Frame)
    BY <1>2, ReadsType DEF ReadReply
  <2>2. Head(inbox).sub \in Subs
    BY <2>1, FrameKinds
  <2>3. pc' \in [Subs -> {"idle", "registered", "subscribe", "failed", "active",
                          "unsubscribe", "removing", "kept", "gone"}]
    <3>1. pc' = pc \/ \E x \in {"active", "failed", "removing", "kept"} :
                         pc' = [pc EXCEPT ![Head(inbox).sub] = x]
      BY <1>2 DEF ReadReply
    <3>2. QED
      BY <2>2, <3>1 DEF TypeOK
  <2>4. subscriptions' \subseteq Subs
    BY <1>2, <2>2 DEF TypeOK, ReadReply, Enter, Registers
  <2>5. QED
    BY <1>2, <2>1, <2>3, <2>4 DEF TypeOK, ServesItsKind, ReadReply, Reads
<1>3. ASSUME NEW what \in {"deliver", "finish"}, NEW f \in Frame, NEW todo \in SUBSET Subs,
             Serve(what, f, todo),
             what = "deliver" => f.kind = "event", what = "finish" => f.kind = "end"
      PROVE  /\ rpc' \in {"read", "deliver", "finish", "exited"} /\ targets' \subseteq Subs
             /\ rpc' \in {"deliver", "finish"} <=> targets' # {}
             /\ frame' \in Frame \cup {NoFrame} /\ ServesItsKind'
  BY <1>3 DEF Serve, ServesItsKind
<1>4. CASE ReadEvent
  <2>1. Head(inbox) \in Frame /\ Head(inbox).kind = "event" /\ inbox' \in Seq(Frame)
    BY <1>4, ReadsType DEF ReadEvent
  <2>2. QED
    BY <1>3, <1>4, <2>1 DEF TypeOK, ReadEvent, Reads
<1>5. CASE ReadEnd
  <2>1. Head(inbox) \in Frame /\ Head(inbox).kind = "end" /\ inbox' \in Seq(Frame)
    BY <1>5, ReadsType DEF ReadEnd
  <2>2. QED
    BY <1>3, <1>5, <2>1 DEF TypeOK, ReadEnd, Reads
<1>6. ASSUME NEW s \in Subs, Deliver(s) PROVE TypeInv'
  <2>1. frame \in Frame /\ frame.kind = "event"
    BY <1>6 DEF Deliver, TypeOK, ServesItsKind, NoFrame
  <2>2. frame.n \in 1..MaxEvents
    BY <2>1, FrameKinds
  <2>3. ran' \in [Subs -> Seq(1..MaxEvents)] /\ spawned' \subseteq Subs \X (1..MaxEvents)
    <3>1. Append(ran[s], frame.n) \in Seq(1..MaxEvents)
      BY <2>2, AppendProperties DEF TypeOK
    <3>2. ran' = [ran EXCEPT ![s] = Append(@, frame.n)] \/ ran' = ran
      BY <1>6 DEF Deliver, OnReader
    <3>3. spawned' = spawned \cup {<<s, frame.n>>} \/ spawned' = spawned
      BY <1>6 DEF Deliver, OnReader
    <3>4. ran' \in [Subs -> Seq(1..MaxEvents)]
      BY <3>1, <3>2 DEF TypeOK
    <3>5. spawned' \subseteq Subs \X (1..MaxEvents)
      BY <2>2, <3>3 DEF TypeOK
    <3>6. QED
      BY <3>4, <3>5
  <2>4. QED
    BY <1>3, <1>6, <2>1, <2>3 DEF TypeOK, Deliver
<1>7. ASSUME NEW s \in Subs, Finish(s) PROVE TypeInv'
  <2>1. frame \in Frame /\ frame.kind = "end"
    BY <1>7 DEF Finish, TypeOK, ServesItsKind, NoFrame
  <2>2. frame.bad \in BOOLEAN
    BY <2>1, FrameKinds
  <2>3. done' \in [Subs -> BOOLEAN] /\ err' \in [Subs -> BOOLEAN]
    BY <1>7, <2>2 DEF TypeOK, Finish
  <2>4. QED
    BY <1>3, <1>7, <2>1, <2>3 DEF TypeOK, Finish
<1>8. CASE ReaderExits
  BY <1>8 DEF TypeOK, ServesItsKind, ReaderExits
<1>9. ASSUME NEW s \in Subs, NEW n \in 1..MaxEvents, RunCallback(s, n) PROVE TypeInv'
  <2>1. ran' \in [Subs -> Seq(1..MaxEvents)] /\ spawned' \subseteq Subs \X (1..MaxEvents)
    <3>1. Append(ran[s], n) \in Seq(1..MaxEvents)
      BY AppendProperties DEF TypeOK
    <3>2. QED
      BY <1>9, <3>1 DEF TypeOK, RunCallback
  <2>2. QED
    BY <1>9, <2>1 DEF TypeOK, ServesItsKind, RunCallback
<1>10. CASE Server
  <2>1. ASSUME NEW f \in Frame, Post(f), requests' \subseteq {"subscribe", "unsubscribe"} \X Subs,
               serverSubs' \subseteq Subs, ended' \subseteq Subs, audience' \in Seq(SUBSET Subs)
        PROVE  TypeInv'
    <3>1. inbox' \in Seq(Frame)
      BY <2>1, SendingFrame DEF Post, TypeOK
    <3>2. QED
      BY <2>1, <3>1 DEF TypeOK, ServesItsKind, Post
  <2>2. ASSUME NEW s \in Subs, ServerAccepts(s) PROVE TypeInv'
    BY <2>2 DEF ServerAccepts, TypeOK, ServesItsKind
  <2>3. ASSUME NEW op \in {"subscribe", "unsubscribe"}, NEW s \in Subs, ServerAnswers(op, s)
        PROVE  TypeInv'
    <3>1. [kind |-> "reply", op |-> op, sub |-> s,
           ok |-> s \in serverSubs \/ (op = "subscribe" /\ s \in ended)] \in Frame
      BY DEF Frame
    <3>2. QED
      BY <2>1, <2>3, <3>1 DEF ServerAnswers, TypeOK
  <2>4. ASSUME NEW collection \in Names, ServerSendsEvent(collection) PROVE TypeInv'
    <3> DEFINE for == {s \in serverSubs : name[s] \in {collection, Wildcard}}
    <3>1. Len(audience) + 1 \in 1..MaxEvents
      BY <2>4, SubscriptionsAssumption DEF ServerSendsEvent, TypeOK
    <3>2. [kind |-> "event", name |-> collection, n |-> Len(audience) + 1] \in Frame
      BY <3>1 DEF Frame
    <3>3. for \in SUBSET Subs /\ audience' = Append(audience, for)
      BY <2>4 DEF ServerSendsEvent, TypeOK
    <3>4. audience' \in Seq(SUBSET Subs)
      BY <3>3, AppendProperties DEF TypeOK
    <3>5. QED
      BY <2>1, <2>4, <3>2, <3>4 DEF ServerSendsEvent, TypeOK
  <2>5. ASSUME NEW collection \in Names, NEW bad \in EndErrors, ServerEnds(collection, bad)
        PROVE  TypeInv'
    <3>1. [kind |-> "end", name |-> collection, bad |-> bad] \in Frame
      BY SubscriptionsAssumption DEF Frame
    <3>2. QED
      BY <2>1, <2>5, <3>1 DEF ServerEnds, TypeOK
  <2>6. QED
    BY <1>10, <2>2, <2>3, <2>4, <2>5 DEF Server
<1>11. CASE ConnectionLost
  BY <1>11 DEF ConnectionLost, TypeOK, ServesItsKind
<1>12. CASE UNCHANGED vars
  BY <1>12 DEF vars, TypeOK, ServesItsKind
<1>13. QED
  BY <1>1, <1>2, <1>4, <1>5, <1>6, <1>7, <1>8, <1>9, <1>10, <1>11, <1>12 DEF Next, Reader

LEMMA TypeInvariant == Spec => []TypeInv
<1>1. QED
  BY InitType, StepType, PTL DEF Spec

\* Every variable keeps its type, and the reader serves nobody exactly when it
\* has no frame.
THEOREM TypeCorrect == Spec => []TypeOK
<1>1. TypeInv => TypeOK
  BY DEF TypeInv
<1>2. QED
  BY <1>1, TypeInvariant, PTL
-----------------------------------------------------------------------------
(* Nothing is lost *)

\* The server knows nothing of a subscription before its Subscribe has begun,
\* and serves nobody with an event that is not for him.
ServerKnowsBegun ==
  /\ \A s \in Subs : pc[s] = "idle" =>
       /\ s \notin serverSubs \cup ended /\ <<"subscribe", s>> \notin requests
       /\ \A n \in DOMAIN audience : s \notin audience[n]
  /\ \A i \in DOMAIN inbox : inbox[i].kind = "event" =>
       /\ inbox[i].n \in DOMAIN audience
       /\ \A s \in audience[inbox[i].n] : Matches(s, inbox[i].name)

GoneIsUnregistered == \A s \in Subs : pc[s] = "gone" => s \notin subscriptions

\* An event that has been read is still to be served, or has been.
Reaches(s, n) ==
  \/ \E i \in DOMAIN inbox : inbox[i].kind = "event" /\ inbox[i].n = n
  \/ rpc = "deliver" /\ s \in targets /\ frame.n = n
  \/ n \in Seen(s) \/ <<s, n>> \in spawned

AllReach == \A n \in DOMAIN audience : \A s \in audience[n] \cap subscriptions : Reaches(s, n)

LossInv == ServerKnowsBegun /\ GoneIsUnregistered /\ AllReach /\ TerminationReported

\* A callback that begins with event n has seen one event more.
LEMMA SeenGrows ==
  ASSUME TypeOK, NEW s \in Subs, NEW n \in 1..MaxEvents,
         ran' = [ran EXCEPT ![s] = Append(@, n)]
  PROVE  \A t \in Subs : Seen(t)' = IF t = s THEN Seen(s) \cup {n} ELSE Seen(t)
<1>1. TAKE t \in Subs
<1>2. CASE t = s
  <2> DEFINE q == ran[s]
  <2>1. q \in Seq(1..MaxEvents) /\ ran'[s] = Append(q, n)
    BY DEF TypeOK
  <2>2. /\ Len(q) \in Nat /\ DOMAIN q = 1..Len(q) /\ DOMAIN Append(q, n) = 1..(Len(q) + 1)
        /\ \A i \in 1..Len(q) : Append(q, n)[i] = q[i]
        /\ Append(q, n)[Len(q) + 1] = n
    BY <2>1, AppendProperties
  <2> HIDE DEF q
  <2>3. {Append(q, n)[i] : i \in DOMAIN Append(q, n)} = {q[i] : i \in DOMAIN q} \cup {n}
    BY <2>2
  <2>4. QED
    BY <1>2, <2>1, <2>3 DEF Seen, q
<1>3. CASE t # s
  BY <1>3 DEF Seen, TypeOK
<1>4. QED
  BY <1>2, <1>3

\* Events are sent for subscriptions.
LEMMA AudienceType == TypeOK => \A n \in DOMAIN audience : audience[n] \subseteq Subs
BY ElementOfSeq DEF TypeOK

LEMMA InitLoss == Init => LossInv
BY DEF Init, LossInv, ServerKnowsBegun, GoneIsUnregistered, AllReach, TerminationReported

\* What a frame the reader has not read yet promises it still promises when the
\* reader has read another one.
LEMMA ReadsOn ==
  ASSUME TypeOK, NEW kind, Reads(kind)
  PROVE  /\ \A i \in DOMAIN inbox : inbox[i] = Head(inbox) \/ \E j \in DOMAIN inbox' : inbox'[j] = inbox[i]
         /\ \A j \in DOMAIN inbox' : j + 1 \in DOMAIN inbox /\ inbox'[j] = inbox[j + 1]
         /\ 1 \in DOMAIN inbox /\ Head(inbox) = inbox[1]
<1>1. inbox \in Seq(Frame) /\ inbox # <<>> /\ inbox' = Tail(inbox)
  BY DEF Reads, TypeOK
<1>2. inbox' \in Seq(Frame) /\ DOMAIN inbox = 1..Len(inbox) /\ DOMAIN inbox' = 1..Len(inbox')
  BY <1>1, ReadingInbox
<1>3. QED
  BY <1>1, <1>2, ReadingInbox, StillThere

LEMMA StepLoss == TypeInv /\ LossInv /\ [Next]_vars => LossInv'
<1> SUFFICES ASSUME TypeInv, LossInv, [Next]_vars PROVE LossInv'
  OBVIOUS
<1> USE DEF TypeInv, serverVars, subVars, readerVars, cbVars
<1>1. ASSUME NEW s \in Subs, NEW event \in Names, Register(s, event) PROVE LossInv'
  <2>1. subscriptions' = subscriptions \cup {s} /\ pc[s] = "idle"
    BY <1>1 DEF Register, Enter, Registers
  <2>2. /\ pc' = [pc EXCEPT ![s] = "registered"] /\ name' = [name EXCEPT ![s] = event]
        /\ UNCHANGED <<inbox, serverVars, done, readerVars, cbVars>>
    BY <1>1 DEF Register
  <2>3. ServerKnowsBegun'
    <3>1. \A n \in DOMAIN audience : s \notin audience[n] /\ audience[n] \subseteq Subs
      BY <2>1, AudienceType DEF LossInv, ServerKnowsBegun
    <3>2. \A t \in Subs \ {s} : name'[t] = name[t] /\ pc'[t] = pc[t]
      BY <2>2 DEF TypeOK
    <3>3. pc'[s] # "idle"
      BY <2>2 DEF TypeOK
    <3>4. ASSUME NEW n \in DOMAIN audience, NEW t \in audience[n], NEW collection,
                 Matches(t, collection)
          PROVE  name'[t] \in {collection, Wildcard}
      BY <3>1, <3>2, <3>4 DEF Matches
    <3>5. \A t \in Subs : pc'[t] = "idle" =>
            t \notin serverSubs \cup ended /\ <<"subscribe", t>> \notin requests
            /\ \A n \in DOMAIN audience : t \notin audience[n]
      BY <3>2, <3>3 DEF LossInv, ServerKnowsBegun
    <3>6. \A i \in DOMAIN inbox : inbox[i].kind = "event" =>
            /\ inbox[i].n \in DOMAIN audience
            /\ \A t \in audience[inbox[i].n] : name'[t] \in {inbox[i].name, Wildcard}
      BY <3>4 DEF LossInv, ServerKnowsBegun
    <3>7. QED
      BY <2>2, <3>5, <3>6 DEF ServerKnowsBegun, Matches
  <2>4. GoneIsUnregistered'
    BY <2>1, <2>2 DEF LossInv, GoneIsUnregistered, TypeOK
  <2>5. AllReach'
    <3>1. \A n \in DOMAIN audience : s \notin audience[n]
      BY <2>1 DEF LossInv, ServerKnowsBegun
    <3>2. ASSUME NEW t, NEW n, Reaches(t, n) PROVE Reaches(t, n)'
      BY <2>2, <3>2 DEF Reaches, Seen
    <3>3. QED
      BY <2>1, <2>2, <3>1, <3>2 DEF LossInv, AllReach
  <2>6. TerminationReported'
    <3>1. s \notin ended
      BY <2>1 DEF LossInv, ServerKnowsBegun
    <3>2. QED
      BY <2>1, <2>2, <3>1 DEF LossInv, TerminationReported, TypeOK
  <2>7. QED
    BY <2>3, <2>4, <2>5, <2>6 DEF LossInv
<1>2. ASSUME NEW s \in Subs, pc[s] # "idle", pc' = [pc EXCEPT ![s] = pc'[s]], pc'[s] # "idle",
             pc'[s] = "gone" => s \notin subscriptions',
             subscriptions' \subseteq subscriptions,
             requests' \subseteq requests \cup ({"subscribe", "unsubscribe"} \X {s}),
             UNCHANGED <<inbox, serverSubs, ended, audience, subVars, readerVars, cbVars>>
      PROVE  LossInv'
  <2>1. ServerKnowsBegun'
    BY <1>2 DEF LossInv, ServerKnowsBegun, TypeOK, Matches
  <2>2. GoneIsUnregistered'
    BY <1>2 DEF LossInv, GoneIsUnregistered, TypeOK
  <2>3. AllReach'
    <3>1. ASSUME NEW t, NEW n, Reaches(t, n) PROVE Reaches(t, n)'
      BY <1>2, <3>1 DEF Reaches, Seen
    <3>2. QED
      BY <1>2, <3>1 DEF LossInv, AllReach
  <2>4. TerminationReported'
    BY <1>2 DEF LossInv, TerminationReported
  <2>5. QED
    BY <2>1, <2>2, <2>3, <2>4 DEF LossInv
<1>3. ASSUME NEW s \in Subs,
             CallSubscribe(s) \/ CallUnsubscribe(s) \/ GiveUp(s) \/ Fails(s) \/ Remove(s)
      PROVE  LossInv'
  <2>1. CASE CallSubscribe(s) \/ CallUnsubscribe(s)
    <3>1. PICK op \in {"subscribe", "unsubscribe"} : Call(s, op)
      BY <2>1 DEF CallSubscribe, CallUnsubscribe
    <3>2. pc[s] \in {"registered", "active"} /\ pc' = [pc EXCEPT ![s] = op] /\ pc'[s] = op
      BY <2>1, <3>1 DEF CallSubscribe, CallUnsubscribe, Call, TypeOK
    <3>3. requests' \subseteq requests \cup ({"subscribe", "unsubscribe"} \X {s})
      BY <3>1 DEF Call
    <3>4. QED
      BY <1>2, <3>1, <3>2, <3>3 DEF Call
  <2>2. CASE GiveUp(s) \/ Fails(s) \/ Remove(s)
    BY <1>2, <2>2 DEF GiveUp, Fails, Remove, Without, TypeOK
  <2>3. QED
    BY <1>3, <2>1, <2>2
<1>4. CASE ReadReply
  <2> DEFINE f == Head(inbox)
  <2>1. f \in Frame /\ f.kind = "reply" /\ rpc = "read"
    BY <1>4, ReadsType DEF ReadReply
  <2>2. /\ \A i \in DOMAIN inbox : inbox[i] = f \/ \E j \in DOMAIN inbox' : inbox'[j] = inbox[i]
        /\ \A j \in DOMAIN inbox' : j + 1 \in DOMAIN inbox /\ inbox'[j] = inbox[j + 1]
    BY <1>4, ReadsOn DEF ReadReply
  <2>3. subscriptions' = subscriptions /\ UNCHANGED <<serverVars, cbVars, subVars, readerVars>>
    BY <1>4 DEF ReadReply, Reads, Enter, Registers
  <2>4. \A s \in Subs : pc'[s] = pc[s] \/ (pc[s] # "idle" /\ pc'[s] \notin {"idle", "gone"})
    <3>1. f.sub \in Subs /\ f.op \in {"subscribe", "unsubscribe"}
      BY <2>1, FrameKinds
    <3>2. QED
      BY <1>4, <3>1 DEF ReadReply, TypeOK
  <2> HIDE DEF f
  <2>5. ServerKnowsBegun'
    BY <2>2, <2>3, <2>4 DEF LossInv, ServerKnowsBegun, Matches
  <2>6. GoneIsUnregistered'
    BY <2>3, <2>4 DEF LossInv, GoneIsUnregistered
  <2>7. ASSUME NEW t, NEW n, Reaches(t, n) PROVE Reaches(t, n)'
    BY <2>1, <2>2, <2>3, <2>7 DEF Reaches, Seen
  <2>8. AllReach'
    BY <2>3, <2>7 DEF LossInv, AllReach
  <2>9. TerminationReported'
    BY <2>1, <2>2, <2>3 DEF LossInv, TerminationReported
  <2>10. QED
    BY <2>5, <2>6, <2>8, <2>9 DEF LossInv
<1>5. ASSUME NEW what \in {"deliver", "finish"}, NEW todo \in SUBSET Subs, NEW kind,
             Reads(kind), Serve(what, Head(inbox), todo), UNCHANGED <<pc, subscriptions>>
      PROVE  /\ \A i \in DOMAIN inbox : inbox[i] = Head(inbox) \/ \E j \in DOMAIN inbox' : inbox'[j] = inbox[i]
             /\ \A s \in todo : s \in targets' /\ rpc' = what /\ frame' = Head(inbox)
             /\ rpc = "read" /\ ServerKnowsBegun' /\ GoneIsUnregistered'
             /\ UNCHANGED <<serverVars, cbVars, subVars>>
  <2>1. \A j \in DOMAIN inbox' : j + 1 \in DOMAIN inbox /\ inbox'[j] = inbox[j + 1]
    BY <1>5, ReadsOn
  <2>2. ServerKnowsBegun'
    BY <1>5, <2>1 DEF LossInv, ServerKnowsBegun, Reads, Matches
  <2>3. GoneIsUnregistered'
    BY <1>5 DEF LossInv, GoneIsUnregistered
  <2>4. QED
    BY <1>5, <2>2, <2>3, ReadsOn DEF Reads, Serve
<1>6. CASE ReadEvent
  <2> DEFINE f == Head(inbox)
             todo == {s \in subscriptions : Matches(s, f.name)}
  <2>1. f.kind = "event" /\ Reads("event") /\ todo \in SUBSET Subs
    BY <1>6 DEF ReadEvent, Reads, TypeOK
  <2>2. /\ \A i \in DOMAIN inbox : inbox[i] = f \/ \E j \in DOMAIN inbox' : inbox'[j] = inbox[i]
        /\ \A s \in todo : s \in targets' /\ rpc' = "deliver" /\ frame' = f
        /\ rpc = "read" /\ ServerKnowsBegun' /\ GoneIsUnregistered'
        /\ UNCHANGED <<serverVars, cbVars, subVars, subscriptions>>
    BY <1>5, <1>6, <2>1 DEF ReadEvent
  <2>3. \A s \in audience[f.n] : Matches(s, f.name)
    <3>1. 1 \in DOMAIN inbox /\ f = inbox[1]
      BY <2>1, ReadsOn
    <3>2. QED
      BY <2>1, <3>1 DEF LossInv, ServerKnowsBegun
  <2>4. ASSUME NEW n, NEW s \in audience[n] \cap subscriptions, Reaches(s, n) PROVE Reaches(s, n)'
    BY <2>2, <2>3, <2>4 DEF Reaches, Seen
  <2>5. AllReach'
    BY <2>2, <2>4 DEF LossInv, AllReach
  <2>6. TerminationReported'
    BY <2>1, <2>2 DEF LossInv, TerminationReported
  <2>7. QED
    BY <2>2, <2>5, <2>6 DEF LossInv
<1>7. CASE ReadEnd
  <2> DEFINE f == Head(inbox)
             todo == {s \in subscriptions : Ends(s, f.name)}
  <2>1. f.kind = "end" /\ Reads("end") /\ todo \in SUBSET Subs
    BY <1>7 DEF ReadEnd, Reads, TypeOK
  <2>2. /\ \A i \in DOMAIN inbox : inbox[i] = f \/ \E j \in DOMAIN inbox' : inbox'[j] = inbox[i]
        /\ \A s \in todo : s \in targets' /\ rpc' = "finish" /\ frame' = f
        /\ rpc = "read" /\ ServerKnowsBegun' /\ GoneIsUnregistered'
        /\ UNCHANGED <<serverVars, cbVars, subVars, subscriptions>>
    BY <1>5, <1>7, <2>1 DEF ReadEnd
  <2>3. ASSUME NEW n, NEW s, Reaches(s, n) PROVE Reaches(s, n)'
    BY <2>1, <2>2, <2>3 DEF Reaches, Seen
  <2>4. AllReach'
    BY <2>2, <2>3 DEF LossInv, AllReach
  <2>5. TerminationReported'
    BY <2>1, <2>2 DEF LossInv, TerminationReported, Ends
  <2>6. QED
    BY <2>2, <2>4, <2>5 DEF LossInv
<1>8. ASSUME NEW s \in Subs, Deliver(s) PROVE LossInv'
  <2>1. frame.n \in 1..MaxEvents
    <3>1. frame \in Frame /\ frame.kind = "event"
      BY <1>8 DEF Deliver, TypeOK, ServesItsKind, NoFrame
    <3>2. QED
      BY <3>1, FrameKinds
  <2>2. /\ \A t \in Subs : Seen(t) \subseteq Seen(t)'
        /\ spawned \subseteq spawned'
        /\ frame.n \in Seen(s)' \/ <<s, frame.n>> \in spawned'
    <3>1. CASE OnReader(s)
      BY <1>8, <2>1, <3>1, SeenGrows DEF Deliver
    <3>2. CASE ~OnReader(s)
      BY <1>8, <3>2 DEF Deliver, Seen
    <3>3. QED
      BY <3>1, <3>2
  <2>3. /\ \A t \in targets \ {s} : t \in targets' /\ rpc' = rpc /\ frame' = frame
        /\ rpc = "deliver" /\ UNCHANGED <<inbox, serverVars, pc, subscriptions, subVars>>
    BY <1>8 DEF Deliver, Serve
  <2>4. ServerKnowsBegun' /\ GoneIsUnregistered' /\ TerminationReported'
    BY <2>3 DEF LossInv, ServerKnowsBegun, GoneIsUnregistered, TerminationReported, Matches
  <2>5. ASSUME NEW n, NEW t \in Subs, Reaches(t, n) PROVE Reaches(t, n)'
    BY <2>2, <2>3, <2>5 DEF Reaches
  <2>6. AllReach'
    BY <2>3, <2>5 DEF LossInv, AllReach, TypeOK
  <2>7. QED
    BY <2>4, <2>6 DEF LossInv
<1>9. ASSUME NEW s \in Subs, Finish(s) PROVE LossInv'
  <2>1. /\ \A t \in targets \ {s} : t \in targets' /\ rpc' = rpc
        /\ rpc = "finish" /\ UNCHANGED <<inbox, serverVars, pc, subscriptions, name, cbVars>>
        /\ done' = [done EXCEPT ![s] = TRUE]
    BY <1>9 DEF Finish, Serve
  <2>2. ServerKnowsBegun' /\ GoneIsUnregistered'
    BY <2>1 DEF LossInv, ServerKnowsBegun, GoneIsUnregistered, Matches
  <2>3. ASSUME NEW n, NEW t, Reaches(t, n) PROVE Reaches(t, n)'
    BY <2>1, <2>3 DEF Reaches, Seen
  <2>4. AllReach'
    BY <2>1, <2>3 DEF LossInv, AllReach
  <2>5. TerminationReported'
    BY <2>1 DEF LossInv, TerminationReported, TypeOK
  <2>6. QED
    BY <2>2, <2>4, <2>5 DEF LossInv
<1>10. ASSUME NEW s \in Subs, NEW n \in 1..MaxEvents, RunCallback(s, n) PROVE LossInv'
  <2>1. UNCHANGED <<inbox, serverVars, pc, subscriptions, subVars, readerVars>>
    BY <1>10 DEF RunCallback
  <2>2. /\ \A t \in Subs : Seen(t) \subseteq Seen(t)'
        /\ spawned' = spawned \ {<<s, n>>} /\ n \in Seen(s)'
    <3>1. \A t \in Subs : Seen(t)' = IF t = s THEN Seen(s) \cup {n} ELSE Seen(t)
      BY <1>10, SeenGrows DEF RunCallback
    <3>2. QED
      BY <1>10, <3>1 DEF RunCallback
  <2>3. ServerKnowsBegun' /\ GoneIsUnregistered' /\ TerminationReported'
    BY <2>1 DEF LossInv, ServerKnowsBegun, GoneIsUnregistered, TerminationReported, Matches
  <2>4. ASSUME NEW m, NEW t \in Subs, Reaches(t, m) PROVE Reaches(t, m)'
    BY <2>1, <2>2, <2>4 DEF Reaches
  <2>5. AllReach'
    BY <2>1, <2>4 DEF LossInv, AllReach, TypeOK
  <2>6. QED
    BY <2>3, <2>5 DEF LossInv
<1>11. ASSUME UNCHANGED <<inbox, ended, audience, pc, subscriptions, name, done, targets, frame, spawned, ran>>,
              requests' \subseteq requests, rpc' = rpc \/ (rpc = "read" /\ rpc' = "exited"),
              \A s \in serverSubs' \ serverSubs : pc[s] # "idle"
       PROVE  LossInv'
  <2>1. ServerKnowsBegun' /\ GoneIsUnregistered' /\ TerminationReported'
    BY <1>11 DEF LossInv, ServerKnowsBegun, GoneIsUnregistered, TerminationReported, Matches
  <2>2. ASSUME NEW n, NEW s, Reaches(s, n) PROVE Reaches(s, n)'
    BY <1>11, <2>2 DEF Reaches, Seen
  <2>3. AllReach'
    BY <1>11, <2>2 DEF LossInv, AllReach
  <2>4. QED
    BY <2>1, <2>3 DEF LossInv
<1>12. CASE ReaderExits \/ ConnectionLost \/ UNCHANGED vars
  <2>1. UNCHANGED <<inbox, requests, serverSubs, ended, audience, pc, subscriptions, name, done,
                    targets, frame, spawned, ran>>
    BY <1>12 DEF ReaderExits, ConnectionLost, vars
  <2>2. rpc' = rpc \/ (rpc = "read" /\ rpc' = "exited")
    BY <1>12 DEF ReaderExits, ConnectionLost, vars
  <2>3. QED
    BY <1>11, <2>1, <2>2
<1>13. ASSUME NEW s \in Subs, ServerAccepts(s) PROVE LossInv'
  <2>1. pc[s] # "idle"
    BY <1>13 DEF ServerAccepts, LossInv, ServerKnowsBegun
  <2>2. /\ serverSubs' = serverSubs \cup {s}
        /\ UNCHANGED <<inbox, requests, ended, audience, pc, subscriptions, name, done, rpc,
                       targets, frame, spawned, ran>>
    BY <1>13 DEF ServerAccepts
  <2>3. QED
    BY <1>11, <2>1, <2>2
<1>14. ASSUME NEW f \in Frame, Post(f), requests' \subseteq requests, serverSubs' \subseteq serverSubs,
              ended' \subseteq ended \cup serverSubs,
              audience' \in Seq(SUBSET Subs), DOMAIN audience \subseteq DOMAIN audience',
              \A n \in DOMAIN audience : audience'[n] = audience[n],
              \A n \in DOMAIN audience' \ DOMAIN audience :
                n \in DOMAIN audience' /\ audience'[n] \subseteq serverSubs /\ f.kind = "event" /\ f.n = n,
              f.kind = "event" => f.n \in DOMAIN audience' /\ \A s \in audience'[f.n] : Matches(s, f.name),
              \A s \in ended' \ ended : f.kind = "end" /\ f.name = name[s]
       PROVE  LossInv'
  <2>1. /\ \A i \in DOMAIN inbox : i \in DOMAIN inbox' /\ inbox'[i] = inbox[i]
        /\ \A j \in DOMAIN inbox' : (j \in DOMAIN inbox /\ inbox'[j] = inbox[j]) \/ inbox'[j] = f
        /\ \E j \in DOMAIN inbox' : inbox'[j] = f
    BY <1>14, SendingFrame DEF Post, TypeOK
  <2>2. UNCHANGED <<pc, subscriptions, subVars, readerVars, cbVars>>
    BY <1>14 DEF Post
  <2>3. ServerKnowsBegun'
    BY <1>14, <2>1, <2>2 DEF LossInv, ServerKnowsBegun, Matches
  <2>4. GoneIsUnregistered'
    BY <2>2 DEF LossInv, GoneIsUnregistered
  <2>5. ASSUME NEW n, NEW s, Reaches(s, n) PROVE Reaches(s, n)'
    BY <2>1, <2>2, <2>5 DEF Reaches, Seen
  <2>6. AllReach'
    <3>1. ASSUME NEW n \in DOMAIN audience', NEW s \in audience'[n] \cap subscriptions'
          PROVE  Reaches(s, n)'
      <4>1. CASE n \in DOMAIN audience
        BY <1>14, <2>2, <2>5, <3>1, <4>1 DEF LossInv, AllReach
      <4>2. CASE n \notin DOMAIN audience
        BY <1>14, <2>1, <4>2 DEF Reaches
      <4>3. QED
        BY <4>1, <4>2
    <3>2. QED
      BY <3>1 DEF AllReach
  <2>7. TerminationReported'
    BY <1>14, <2>1, <2>2 DEF LossInv, TerminationReported
  <2>8. QED
    BY <2>3, <2>4, <2>6, <2>7 DEF LossInv
<1>15. ASSUME NEW op \in {"subscribe", "unsubscribe"}, NEW s \in Subs, ServerAnswers(op, s)
       PROVE  LossInv'
  <2>1. [kind |-> "reply", op |-> op, sub |-> s,
         ok |-> s \in serverSubs \/ (op = "subscribe" /\ s \in ended)] \in Frame
    BY DEF Frame
  <2>2. QED
    BY <1>14, <1>15, <2>1 DEF ServerAnswers, TypeOK
<1>16. ASSUME NEW collection \in Names, ServerSendsEvent(collection) PROVE LossInv'
  <2> DEFINE for == {s \in serverSubs : name[s] \in {collection, Wildcard}}
             f == [kind |-> "event", name |-> collection, n |-> Len(audience) + 1]
  <2>1. Len(audience) + 1 \in 1..MaxEvents
    BY <1>16, SubscriptionsAssumption DEF ServerSendsEvent, TypeOK
  <2>2. f \in Frame
    BY <2>1 DEF Frame
  <2>3. for \in SUBSET Subs /\ audience' = Append(audience, for) /\ audience \in Seq(SUBSET Subs)
    BY <1>16 DEF ServerSendsEvent, TypeOK
  <2> HIDE DEF for
  <2>4. /\ audience' \in Seq(SUBSET Subs)
        /\ DOMAIN audience = 1..Len(audience) /\ DOMAIN audience' = 1..(Len(audience) + 1)
        /\ \A n \in DOMAIN audience : audience'[n] = audience[n]
        /\ audience'[Len(audience) + 1] = for /\ Len(audience) \in Nat
    BY <2>3, AppendProperties
  <2>5. Post(f) /\ UNCHANGED <<requests, serverSubs, ended>>
    BY <1>16 DEF ServerSendsEvent
  <2>6. \A s \in for : s \in serverSubs /\ Matches(s, collection)
    BY DEF for, Matches
  <2>7. \A n \in DOMAIN audience' \ DOMAIN audience : n = Len(audience) + 1
    BY <2>4
  <2>8. QED
    BY <1>14, <2>2, <2>4, <2>5, <2>6, <2>7
<1>17. ASSUME NEW collection \in Names, NEW bad \in EndErrors, ServerEnds(collection, bad)
       PROVE  LossInv'
  <2>1. [kind |-> "end", name |-> collection, bad |-> bad] \in Frame
    BY SubscriptionsAssumption DEF Frame
  <2>2. QED
    BY <1>14, <1>17, <2>1 DEF ServerEnds, TypeOK
<1>18. QED
  BY <1>1, <1>3, <1>4, <1>6, <1>7, <1>8, <1>9, <1>10, <1>12, <1>13, <1>15, <1>16, <1>17
     DEF Next, SubscriberMoves, Reader, Server

LEMMA LossInvariant == Spec => [](TypeInv /\ LossInv)
<1>1. QED
  BY InitType, StepType, InitLoss, StepLoss, PTL DEF Spec

\* An event for a registered subscription is in the connection, in the reader's
\* hands or with the callback, however Subscribe, Unsubscribe and the reader
\* interleave: dispatchEvent's snapshot misses nobody it is for.
THEOREM EventsReachCallbacks == Spec => []NoEventLost
<1>1. TypeInv /\ LossInv => NoEventLost
  BY DEF TypeInv, LossInv, AllReach, Reaches, NoEventLost, OnItsWay, ServesItsKind
<1>2. QED
  BY <1>1, LossInvariant, PTL

\* A termination the server has announced is never lost on a subscription that
\* is still registered.
THEOREM TerminationsAreReported == Spec => []TerminationReported
<1>1. LossInv => TerminationReported
  BY DEF LossInv
<1>2. QED
  BY <1>1, LossInvariant, PTL

\* A subscription whose Unsubscribe has returned, or whose Subscribe has failed,
\* gets no event the reader reads later.
THEOREM GoneSubscriptionsStayQuiet == Spec => GoneStaysQuiet
<1> DEFINE Quiet(s) ==
      pc[s] = "gone" /\ s \notin targets /\ \A n \in 1..MaxEvents : <<s, n>> \notin spawned
<1>1. ASSUME TypeInv, LossInv, [Next]_vars, NEW s \in Subs, Quiet(s)
      PROVE  s \notin targets' /\ ran'[s] = ran[s]
  <2>1. s \notin subscriptions
    BY <1>1 DEF LossInv, GoneIsUnregistered
  <2> USE <1>1, <2>1 DEF TypeInv, TypeOK, serverVars, subVars, readerVars, cbVars
  <2>2. CASE ReadEvent \/ ReadEnd
    BY <2>2 DEF ReadEvent, ReadEnd, Reads, Serve
  <2>3. ASSUME NEW t \in Subs, Deliver(t) \/ Finish(t) PROVE s \notin targets' /\ ran'[s] = ran[s]
    <3>1. s # t /\ targets' = targets \ {t}
      BY <2>3 DEF Deliver, Finish, Serve
    <3>2. ran' = ran \/ ran' = [ran EXCEPT ![t] = Append(@, frame.n)]
      BY <2>3 DEF Deliver, Finish
    <3>3. QED
      BY <3>1, <3>2
  <2>4. ASSUME NEW t \in Subs, NEW n \in 1..MaxEvents, RunCallback(t, n)
        PROVE  s \notin targets' /\ ran'[s] = ran[s]
    BY <2>4 DEF RunCallback
  <2>5. CASE ReadReply \/ ReaderExits \/ ConnectionLost \/ UNCHANGED vars
    BY <2>5 DEF ReadReply, Reads, ReaderExits, ConnectionLost, vars
  <2>6. ASSUME NEW t \in Subs, SubscriberMoves(t) PROVE s \notin targets' /\ ran'[s] = ran[s]
    BY <2>6 DEF SubscriberMoves, Register, CallSubscribe, CallUnsubscribe, Call, GiveUp, Fails, Remove
  <2>7. CASE Server
    BY <2>7 DEF Server, ServerAccepts, ServerAnswers, ServerSendsEvent, ServerEnds, Post
  <2>8. QED
    BY <2>2, <2>3, <2>4, <2>5, <2>6, <2>7 DEF Next, Reader
<1>2. TypeInv /\ LossInv /\ [Next]_vars => [\A s \in Subs : Quiet(s) => s \notin targets' /\ ran'[s] = ran[s]]_vars
  BY <1>1
<1>3. QED
  BY <1>2, LossInvariant, PTL DEF Spec, GoneStaysQuiet

-----------------------------------------------------------------------------
(* Order *)

\* The events the callback has had, or will have from a goroutine.
Taken(s) == {n \in 1..MaxEvents : n \in Seen(s) \/ <<s, n>> \in spawned}

OrderInv ==
  /\ \A i, j \in DOMAIN inbox :
       i < j /\ inbox[i].kind = "event" /\ inbox[j].kind = "event" => inbox[i].n < inbox[j].n
  /\ \A i \in DOMAIN inbox : inbox[i].kind = "event" =>
       inbox[i].n <= Len(audience) /\ \A s \in Subs : \A m \in Taken(s) : m < inbox[i].n
  /\ \A s \in Subs : \A m \in Taken(s) : m <= Len(audience)
  /\ rpc = "deliver" =>
       /\ frame.n <= Len(audience) /\ \A s \in targets : \A m \in Taken(s) : m < frame.n
       /\ \A i \in DOMAIN inbox : inbox[i].kind = "event" => frame.n < inbox[i].n
  /\ \A s \in SyncSubs : \A n \in 1..MaxEvents : <<s, n>> \notin spawned
  /\ DeliveredOnceInOrder

\* Callbacks have only had events the server can number.
LEMMA SeenType == TypeOK => \A s \in Subs : ran[s] \in Seq(1..MaxEvents) /\ Seen(s) \subseteq 1..MaxEvents
<1> SUFFICES ASSUME TypeOK, NEW s \in Subs
             PROVE  ran[s] \in Seq(1..MaxEvents) /\ Seen(s) \subseteq 1..MaxEvents
  OBVIOUS
<1>1. ran[s] \in Seq(1..MaxEvents)
  BY DEF TypeOK
<1>2. \A i \in DOMAIN ran[s] : ran[s][i] \in 1..MaxEvents
  BY <1>1, EveryElement
<1>3. QED
  BY <1>1, <1>2 DEF Seen

\* An event on its way has a number.
LEMMA EventNumbers ==
  ASSUME TypeOK
  PROVE  \A i \in DOMAIN inbox : inbox[i].kind = "event" => inbox[i].n \in 1..MaxEvents
<1>1. \A i \in DOMAIN inbox : inbox[i] \in Frame
  BY ElementOfSeq DEF TypeOK
<1>2. QED
  BY <1>1, FrameKinds

\* Once it has begun with an event it did not have, a callback has still had each
\* event once; in order, if the event is later than all it had.
LEMMA OnceMore ==
  ASSUME NEW q \in Seq(1..MaxEvents), NEW n \in 1..MaxEvents, MaxEvents \in Nat,
         \A i \in DOMAIN q : q[i] # n,
         \A i, j \in DOMAIN q : i # j => q[i] # q[j]
  PROVE  /\ \A i, j \in DOMAIN Append(q, n) : i # j => Append(q, n)[i] # Append(q, n)[j]
         /\ (/\ \A i \in DOMAIN q : q[i] < n
             /\ \A i, j \in DOMAIN q : i < j => q[i] < q[j])
            => \A i, j \in DOMAIN Append(q, n) : i < j => Append(q, n)[i] < Append(q, n)[j]
<1> DEFINE r == Append(q, n)
<1>1. /\ Len(q) \in Nat /\ DOMAIN q = 1..Len(q) /\ DOMAIN r = 1..(Len(q) + 1)
      /\ \A i \in 1..Len(q) : r[i] = q[i] /\ q[i] \in 1..MaxEvents
      /\ r[Len(q) + 1] = n
  BY AppendProperties, ElementOfSeq
<1> HIDE DEF r
<1>2. \A i \in DOMAIN r : (i \in DOMAIN q /\ r[i] = q[i]) \/ (i = Len(q) + 1 /\ r[i] = n)
  BY <1>1
<1>3. \A i, j \in DOMAIN r : i # j => r[i] # r[j]
  BY <1>1, <1>2
<1>4. ASSUME \A i \in DOMAIN q : q[i] < n, \A i, j \in DOMAIN q : i < j => q[i] < q[j]
      PROVE  \A i, j \in DOMAIN r : i < j => r[i] < r[j]
  BY <1>1, <1>2, <1>4
<1>5. QED
  BY <1>3, <1>4 DEF r

\* A callback that begins with an event it has not had, later than all it had if
\* it runs on the reader, has had each once and those in order.
LEMMA BeginsOnceMore ==
  ASSUME TypeOK, DeliveredOnceInOrder, NEW s \in Subs, NEW n \in 1..MaxEvents,
         ran' = [ran EXCEPT ![s] = Append(@, n)],
         n \notin Seen(s), s \in SyncSubs => \A m \in Seen(s) : m < n,
         spawned' \subseteq spawned, <<s, n>> \notin spawned'
  PROVE  DeliveredOnceInOrder'
<1> DEFINE Once(q) == \A i, j \in DOMAIN q : i # j => q[i] # q[j]
           InOrder(q) == \A i, j \in DOMAIN q : i < j => q[i] < q[j]
<1>1. \A t \in Subs : Once(ran[t]) /\ (t \in SyncSubs => InOrder(ran[t]))
  BY DEF DeliveredOnceInOrder
<1>2. Once(ran'[s]) /\ (s \in SyncSubs => InOrder(ran'[s]))
  <2> DEFINE q == ran[s]
  <2>1. q \in Seq(1..MaxEvents) /\ \A i \in DOMAIN q : q[i] \in Seen(s)
    BY SeenType DEF Seen
  <2>2. ran'[s] = Append(q, n)
    BY DEF TypeOK
  <2>3. /\ \A i \in DOMAIN q : q[i] # n
        /\ s \in SyncSubs => \A i \in DOMAIN q : q[i] < n
    BY <2>1
  <2>4. Once(q) /\ (s \in SyncSubs => InOrder(q))
    BY <1>1
  <2> HIDE DEF q
  <2>5. Once(Append(q, n)) /\ (s \in SyncSubs => InOrder(Append(q, n)))
    BY <2>1, <2>3, <2>4, OnceMore, SubscriptionsAssumption
  <2> HIDE DEF Once, InOrder
  <2>6. QED
    BY <2>2, <2>5 DEF q
<1>3. \A t \in Subs : t = s \/ ran'[t] = ran[t]
  BY DEF TypeOK
<1> HIDE DEF Once, InOrder
<1>4. \A t \in Subs : Once(ran'[t]) /\ (t \in SyncSubs => InOrder(ran'[t]))
  <2>1. TAKE t \in Subs
  <2>2. CASE t = s
    BY <1>2, <2>2, Zenon
  <2>3. CASE t # s
    <3>1. ran'[t] = ran[t]
      BY <1>3, <2>3
    <3>2. QED
      BY <1>1, <3>1, Zenon
  <2>4. QED
    BY <2>2, <2>3
<1>5. ASSUME NEW t \in Subs, NEW m \in Seen(t)' PROVE <<t, m>> \notin spawned'
  <2>1. m \in Seen(t) \/ (t = s /\ m = n)
    <3>1. Seen(t)' = IF t = s THEN Seen(s) \cup {n} ELSE Seen(t)
      BY SeenGrows
    <3>2. QED
      BY <1>5, <3>1
  <2>2. QED
    BY <2>1 DEF DeliveredOnceInOrder
<1>6. QED
  BY <1>4, <1>5 DEF DeliveredOnceInOrder, Once, InOrder

LEMMA InitOrder == Init => OrderInv
<1> SUFFICES ASSUME Init PROVE OrderInv
  OBVIOUS
<1>1. \A s \in Subs : ran[s] = <<>> /\ Seen(s) = {} /\ Taken(s) = {}
  BY DEF Init, Seen, Taken
<1>2. DeliveredOnceInOrder
  BY <1>1, SubscriptionsAssumption DEF Init, DeliveredOnceInOrder
<1>3. QED
  BY <1>1, <1>2, SubscriptionsAssumption DEF Init, OrderInv

LEMMA StepOrder == TypeInv /\ OrderInv /\ [Next]_vars => OrderInv'
<1> SUFFICES ASSUME TypeInv, OrderInv, [Next]_vars PROVE OrderInv'
  OBVIOUS
<1> USE DEF TypeInv, serverVars, subVars, readerVars, cbVars
<1>1. ASSUME UNCHANGED <<inbox, audience, spawned, ran>>,
             rpc' = "deliver" => rpc = "deliver" /\ targets' \subseteq targets /\ frame' = frame
      PROVE  OrderInv'
  BY <1>1 DEF OrderInv, Taken, Seen, DeliveredOnceInOrder
<1>2. ASSUME NEW s \in Subs, SubscriberMoves(s) PROVE OrderInv'
  BY <1>1, <1>2 DEF SubscriberMoves, Register, CallSubscribe, CallUnsubscribe, Call, GiveUp, Fails, Remove
<1>3. CASE ReaderExits \/ ConnectionLost \/ UNCHANGED vars
  BY <1>1, <1>3 DEF ReaderExits, ConnectionLost, vars
<1>4. ASSUME NEW s \in Subs, ServerAccepts(s) \/ Finish(s) PROVE OrderInv'
  BY <1>1, <1>4 DEF ServerAccepts, Finish, Serve
<1>5. ASSUME NEW kind, Reads(kind), UNCHANGED <<audience, spawned, ran>>,
             rpc' = "deliver" => kind = "event" /\ frame' = Head(inbox) /\ targets' \subseteq Subs
      PROVE  OrderInv'
  <2>1. \A j \in DOMAIN inbox' : j \in Nat /\ j > 0
    BY <1>5, ReadsType
  <2>2. /\ \A j \in DOMAIN inbox' : j + 1 \in DOMAIN inbox /\ inbox'[j] = inbox[j + 1] /\ 1 < j + 1
        /\ 1 \in DOMAIN inbox /\ Head(inbox) = inbox[1] /\ Head(inbox).kind = kind
    BY <1>5, <2>1, ReadsOn DEF Reads
  <2>3. \A i, j \in DOMAIN inbox' :
          i < j /\ inbox'[i].kind = "event" /\ inbox'[j].kind = "event" => inbox'[i].n < inbox'[j].n
    <3>1. \A i, j \in DOMAIN inbox' : i < j => i + 1 < j + 1
      BY <2>1
    <3>2. QED
      BY <2>2, <3>1 DEF OrderInv
  <2>4. \A s \in Subs : Taken(s)' = Taken(s)
    BY <1>5 DEF Taken, Seen
  <2>5. \A i \in DOMAIN inbox' : inbox'[i].kind = "event" =>
          inbox'[i].n <= Len(audience) /\ \A s \in Subs : \A m \in Taken(s) : m < inbox'[i].n
    BY <2>2 DEF OrderInv
  <2>6. rpc' = "deliver" =>
          /\ frame'.n <= Len(audience) /\ \A s \in targets' : \A m \in Taken(s) : m < frame'.n
          /\ \A i \in DOMAIN inbox' : inbox'[i].kind = "event" => frame'.n < inbox'[i].n
    BY <1>5, <2>2 DEF OrderInv
  <2>7. (\A s \in SyncSubs : \A n \in 1..MaxEvents : <<s, n>> \notin spawned') /\ DeliveredOnceInOrder'
    BY <1>5 DEF OrderInv, DeliveredOnceInOrder, Seen
  <2>8. rpc' = "deliver" => targets' \subseteq Subs
    BY <1>5
  <2>9. QED
    BY <1>5, <2>3, <2>4, <2>5, <2>6, <2>7, <2>8 DEF OrderInv
<1>6. CASE ReadReply \/ ReadEvent \/ ReadEnd
  <2>1. CASE ReadReply
    BY <1>5, <2>1, ReadsType DEF ReadReply, Reads
  <2>2. CASE ReadEvent
    BY <1>5, <2>2 DEF ReadEvent, Reads, Serve, TypeOK
  <2>3. CASE ReadEnd
    BY <1>5, <2>3 DEF ReadEnd, Reads, Serve
  <2>4. QED
    BY <1>6, <2>1, <2>2, <2>3
<1>7. ASSUME NEW s \in Subs, Deliver(s) PROVE OrderInv'
  <2>1. PICK n \in 1..MaxEvents : frame.n = n
    <3>1. frame \in Frame /\ frame.kind = "event"
      BY <1>7 DEF Deliver, TypeOK, ServesItsKind, NoFrame
    <3>2. QED
      BY <3>1, FrameKinds
  <2>2. /\ n <= Len(audience) /\ \A t \in targets : \A m \in Taken(t) : m < n
        /\ \A i \in DOMAIN inbox : inbox[i].kind = "event" => n < inbox[i].n
    BY <1>7, <2>1 DEF OrderInv, Deliver
  <2>3. /\ UNCHANGED <<inbox, audience>> /\ s \in targets
        /\ targets' = targets \ {s}
        /\ rpc' = "deliver" => frame' = frame
        /\ rpc = "deliver"
    BY <1>7 DEF Deliver, Serve
  <2>4. /\ n \notin Seen(s) /\ <<s, n>> \notin spawned /\ \A m \in Seen(s) : m < n
    <3>1. n \notin Taken(s) /\ \A m \in Taken(s) : m < n
      BY <2>1, <2>2, <2>3
    <3>2. QED
      BY <2>1, <3>1, SeenType DEF Taken
  <2>5. \/ /\ s \in SyncSubs /\ spawned' = spawned /\ ran' = [ran EXCEPT ![s] = Append(@, n)]
           /\ \A t \in Subs : Seen(t)' = IF t = s THEN Seen(s) \cup {n} ELSE Seen(t)
        \/ /\ s \notin SyncSubs /\ spawned' = spawned \cup {<<s, n>>} /\ ran' = ran
           /\ \A t \in Subs : Seen(t)' = Seen(t)
    <3>1. CASE OnReader(s)
      BY <1>7, <2>1, <3>1, SeenGrows DEF Deliver, OnReader
    <3>2. CASE ~OnReader(s)
      BY <1>7, <2>1, <3>2 DEF Deliver, OnReader, Seen
    <3>3. QED
      BY <3>1, <3>2
  <2>6. \A t \in Subs : Taken(t)' = IF t = s THEN Taken(s) \cup {n} ELSE Taken(t)
    <3>1. \A t \in Subs : \A m \in 1..MaxEvents :
            (m \in Seen(t)' \/ <<t, m>> \in spawned')
              <=> (m \in Seen(t) \/ <<t, m>> \in spawned \/ (t = s /\ m = n))
      <4>1. CASE s \in SyncSubs
        BY <2>1, <2>5, <4>1
      <4>2. CASE s \notin SyncSubs
        <5>1. spawned' = spawned \cup {<<s, n>>} /\ \A t \in Subs : Seen(t)' = Seen(t)
          BY <2>5, <4>2
        <5>2. \A t, m : <<t, m>> \in spawned' <=> (<<t, m>> \in spawned \/ (t = s /\ m = n))
          BY <5>1
        <5>3. QED
          BY <5>1, <5>2
      <4>3. QED
        BY <4>1, <4>2
    <3>2. QED
      BY <2>1, <3>1 DEF Taken
  <2>7. \A t \in SyncSubs : \A m \in 1..MaxEvents : <<t, m>> \notin spawned'
    <3>1. \A t \in SyncSubs : \A m \in 1..MaxEvents : <<t, m>> \notin spawned
      BY DEF OrderInv
    <3>2. spawned' = spawned \/ (s \notin SyncSubs /\ spawned' = spawned \cup {<<s, n>>})
      BY <2>5
    <3>3. SUFFICES ASSUME NEW t \in SyncSubs, NEW m \in 1..MaxEvents, <<t, m>> \in spawned'
                   PROVE  FALSE
      OBVIOUS
    <3>4. <<t, m>> \in spawned \/ (t = s /\ s \notin SyncSubs)
      BY <3>2, <3>3
    <3>5. QED
      BY <3>1, <3>3, <3>4
  <2>8. DeliveredOnceInOrder'
    <3>1. DeliveredOnceInOrder /\ (s \in SyncSubs => <<s, n>> \notin spawned)
      BY <2>4 DEF OrderInv
    <3>2. CASE s \in SyncSubs
      BY <2>4, <2>5, <3>1, <3>2, BeginsOnceMore
    <3>3. CASE s \notin SyncSubs
      BY <2>4, <2>5, <3>1, <3>3 DEF DeliveredOnceInOrder
    <3>4. QED
      BY <3>2, <3>3
  <2>9. Len(audience) \in Nat /\ targets \subseteq Subs
    BY DEF TypeOK
  <2>10. QED
    BY <2>1, <2>2, <2>3, <2>6, <2>7, <2>8, <2>9 DEF OrderInv
<1>8. ASSUME NEW s \in Subs, NEW n \in 1..MaxEvents, RunCallback(s, n) PROVE OrderInv'
  <2>1. UNCHANGED <<inbox, audience, rpc, targets, frame>> /\ <<s, n>> \in spawned
    BY <1>8 DEF RunCallback
  <2>2. /\ spawned' = spawned \ {<<s, n>>} /\ ran' = [ran EXCEPT ![s] = Append(@, n)]
        /\ \A t \in Subs : Seen(t)' = IF t = s THEN Seen(s) \cup {n} ELSE Seen(t)
    BY <1>8, SeenGrows DEF RunCallback
  <2>3. s \notin SyncSubs /\ n \notin Seen(s)
    BY <2>1 DEF OrderInv, DeliveredOnceInOrder
  <2>4. \A t \in Subs : Taken(t)' = Taken(t)
    BY <2>1, <2>2 DEF Taken
  <2>5. DeliveredOnceInOrder'
    BY <2>2, <2>3, BeginsOnceMore DEF OrderInv
  <2>6. \A t \in SyncSubs : \A m \in 1..MaxEvents : <<t, m>> \notin spawned'
    BY <2>2 DEF OrderInv
  <2>7. targets \subseteq Subs
    BY DEF TypeOK
  <2>8. QED
    BY <2>1, <2>4, <2>5, <2>6, <2>7 DEF OrderInv
<1>9. ASSUME NEW f \in Frame, Post(f),
             \/ f.kind # "event" /\ audience' = audience
             \/ f.kind = "event" /\ f.n = Len(audience) + 1 /\ Len(audience') = Len(audience) + 1
      PROVE  OrderInv'
  <2>1. /\ inbox \in Seq(Frame) /\ inbox' = Append(inbox, f) /\ Len(audience) \in Nat
        /\ UNCHANGED <<readerVars, cbVars>>
    BY <1>9 DEF Post, TypeOK
  <2>2. /\ Len(inbox) \in Nat /\ DOMAIN inbox = 1..Len(inbox)
        /\ \A i \in DOMAIN inbox' : \/ (i \in DOMAIN inbox /\ inbox'[i] = inbox[i])
                                   \/ (i = Len(inbox) + 1 /\ inbox'[i] = f)
    <3>1. DOMAIN inbox' = 1..Len(inbox') /\ DOMAIN inbox = 1..Len(inbox) /\ Len(inbox) \in Nat
      BY <2>1, SendingFrame
    <3>2. QED
      BY <2>1, <3>1, SendingFrame
  <2>3. \A s \in Subs : Taken(s)' = Taken(s) /\ Taken(s) \subseteq Nat
    BY <2>1, SubscriptionsAssumption DEF Taken, Seen
  <2>4. \A i \in DOMAIN inbox : inbox[i].kind = "event" => inbox[i].n \in Nat
    BY EventNumbers, SubscriptionsAssumption
  <2>5. \A i, j \in DOMAIN inbox' :
          i < j /\ inbox'[i].kind = "event" /\ inbox'[j].kind = "event" => inbox'[i].n < inbox'[j].n
    BY <1>9, <2>1, <2>2, <2>4 DEF OrderInv
  <2>6. \A i \in DOMAIN inbox' : inbox'[i].kind = "event" =>
          inbox'[i].n <= Len(audience') /\ \A s \in Subs : \A m \in Taken(s) : m < inbox'[i].n
    BY <1>9, <2>1, <2>2, <2>3, <2>4 DEF OrderInv
  <2>7. \A s \in Subs : \A m \in Taken(s) : m <= Len(audience')
    BY <1>9, <2>1, <2>3 DEF OrderInv
  <2>8. rpc = "deliver" =>
          /\ frame.n <= Len(audience') /\ \A s \in targets : \A m \in Taken(s) : m < frame.n
          /\ \A i \in DOMAIN inbox' : inbox'[i].kind = "event" => frame.n < inbox'[i].n
    <3>1. ASSUME rpc = "deliver" PROVE frame.n \in Nat
      <4>1. frame \in Frame /\ frame.kind = "event"
        BY <3>1 DEF TypeOK, ServesItsKind, NoFrame
      <4>2. QED
        BY <4>1, FrameKinds, SubscriptionsAssumption
    <3>2. QED
      BY <1>9, <2>1, <2>2, <3>1 DEF OrderInv
  <2>9. (\A s \in SyncSubs : \A n \in 1..MaxEvents : <<s, n>> \notin spawned') /\ DeliveredOnceInOrder'
    BY <2>1 DEF OrderInv, DeliveredOnceInOrder, Seen
  <2>10. targets \subseteq Subs
    BY DEF TypeOK
  <2>11. QED
    BY <2>1, <2>3, <2>5, <2>6, <2>7, <2>8, <2>9, <2>10 DEF OrderInv
<1>10. ASSUME NEW op \in {"subscribe", "unsubscribe"}, NEW s \in Subs, ServerAnswers(op, s)
       PROVE  OrderInv'
  <2>1. [kind |-> "reply", op |-> op, sub |-> s,
         ok |-> s \in serverSubs \/ (op = "subscribe" /\ s \in ended)] \in Frame
    BY DEF Frame
  <2>2. QED
    BY <1>9, <1>10, <2>1 DEF ServerAnswers
<1>11. ASSUME NEW collection \in Names, ServerSendsEvent(collection) PROVE OrderInv'
  <2> DEFINE for == {s \in serverSubs : name[s] \in {collection, Wildcard}}
             f == [kind |-> "event", name |-> collection, n |-> Len(audience) + 1]
  <2>1. Len(audience) + 1 \in 1..MaxEvents
    BY <1>11, SubscriptionsAssumption DEF ServerSendsEvent, TypeOK
  <2>2. f \in Frame
    BY <2>1 DEF Frame
  <2>3. for \in SUBSET Subs /\ audience' = Append(audience, for) /\ Post(f)
    BY <1>11 DEF ServerSendsEvent, TypeOK
  <2>4. Len(audience') = Len(audience) + 1
    BY <2>3, AppendProperties DEF TypeOK
  <2>5. QED
    BY <1>9, <2>2, <2>3, <2>4
<1>12. ASSUME NEW collection \in Names, NEW bad \in EndErrors, ServerEnds(collection, bad)
       PROVE  OrderInv'
  <2>1. [kind |-> "end", name |-> collection, bad |-> bad] \in Frame
    BY SubscriptionsAssumption DEF Frame
  <2>2. QED
    BY <1>9, <1>12, <2>1 DEF ServerEnds
<1>13. QED
  BY <1>2, <1>3, <1>4, <1>6, <1>7, <1>8, <1>10, <1>11, <1>12 DEF Next, Reader, Server

\* No callback gets an event twice, and one that runs on the reader gets its
\* events in the order the server sent them, whatever the asynchronous ones do.
THEOREM EventsComeOnceInOrder == Spec => []DeliveredOnceInOrder
<1>1. OrderInv => DeliveredOnceInOrder
  BY DEF OrderInv
<1>2. QED
  BY <1>1, InitType, StepType, InitOrder, StepOrder, PTL DEF Spec
=============================================================================
