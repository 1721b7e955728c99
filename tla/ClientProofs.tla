---------------------------- MODULE ClientProofs ----------------------------
(***************************************************************************)
(* Proofs about Client, for every set of calls and every bound on frames.  *)
(***************************************************************************)
EXTENDS Client, FifoLemmas

-----------------------------------------------------------------------------
(* Type correctness *)

LEMMA InitType == Init => TypeOK
<1> SUFFICES ASSUME Init PROVE TypeOK
  OBVIOUS
<1>1. EnvTypes
  BY ClientAssumption, EmptySeq DEF Init, EnvTypes
<1>2. ConnTypes
  BY DEF Init, ConnTypes
<1>3. CallerTypes
  BY DEF Init, CallerTypes, Outcome, Slot
<1>4. TableTypes
  BY DEF Init, TableTypes, Slot
<1>5. ReaderTypes
  BY DEF Init, ReaderTypes, Slot
<1>6. QED
  BY <1>1, <1>2, <1>3, <1>4, <1>5 DEF TypeOK

\* The frame the reader takes is a frame of its kind, and frames remain.
LEMMA ReadsType ==
  ASSUME TypeOK, NEW kind, Reads(kind)
  PROVE  /\ Head(inbox) \in Frame /\ Head(inbox).kind = kind
         /\ EnvTypes'
BY ReadingInbox DEF TypeOK, EnvTypes, Reads

\* Whatever the server sends fits the channel and its bound.
LEMMA SendType ==
  ASSUME TypeOK, NEW f \in Frame, Send(f)
  PROVE  /\ sock' \in {"up", "lost", "closed"} /\ inbox' \in Seq(Frame)
         /\ frames' \in 0..MaxFrames /\ received' \subseteq Calls
         /\ ConnTypes' /\ CallerTypes' /\ TableTypes' /\ ReaderTypes'
<1>1. inbox' \in Seq(Frame)
  BY SendingFrame DEF TypeOK, EnvTypes, Send
<1>2. frames' \in 0..MaxFrames
  BY ClientAssumption DEF TypeOK, EnvTypes, Send
<1>3. QED
  BY <1>1, <1>2 DEF TypeOK, EnvTypes, ConnTypes, CallerTypes, TableTypes, ReaderTypes, Send,
     connVars, callerVars, tableVars, readerVars

LEMMA StepType == TypeOK /\ [Next]_vars => TypeOK'
<1> SUFFICES ASSUME TypeOK, [Next]_vars PROVE TypeOK'
  OBVIOUS
<1> USE DEF TypeOK
<1>1. CASE Connector
  <2> USE <1>1 DEF Connector, ConnectSend, ConnectSendFails, ConnectWakes,
     ConnectGivesUp, ConnectCheck, envVars, connVars, callerVars, tableVars, readerVars
  <2>1. EnvTypes'
    BY DEF EnvTypes
  <2>2. ConnTypes'
    BY DEF ConnTypes
  <2>3. CallerTypes' /\ TableTypes'
    BY DEF CallerTypes, TableTypes
  <2>4. ReaderTypes'
    BY DEF ReaderTypes
  <2>5. QED
    BY <2>1, <2>2, <2>3, <2>4
<1>2. ASSUME NEW c \in Calls, CallerMoves(c) PROVE TypeOK'
  <2> USE <1>2 DEF CallerMoves, Register, EncodeFails, WriteLock, WriteDone,
     WaitReturned, WaitEnded, Unregister, Leave, envVars, connVars, tableVars, readerVars
  <2>1. EnvTypes'
    BY DEF EnvTypes
  <2>2. ConnTypes'
    BY DEF ConnTypes
  <2>3. CallerTypes'
    BY DEF CallerTypes, TableTypes, Outcome, GaveUp
  <2>4. TableTypes'
    BY DEF TableTypes, Slot
  <2>5. ReaderTypes'
    BY DEF ReaderTypes
  <2>6. QED
    BY <2>1, <2>2, <2>3, <2>4, <2>5
<1>3. ASSUME NEW c \in Calls, NEW how \in {"timeout", "canceled"}, ContextEnds(c, how)
      PROVE  TypeOK'
  BY <1>3 DEF EnvTypes, ConnTypes, CallerTypes, TableTypes, ReaderTypes, ContextEnds,
     envVars, connVars, tableVars, readerVars
<1>4. CASE Reader
  <2> USE DEF envVars, connVars, callerVars, tableVars
  <2>1. CASE ReadResponse
    <3>1. Head(inbox).id \in Calls /\ Head(inbox).body \in Slot /\ EnvTypes'
      BY <2>1, ReadsType DEF ReadResponse, Frame, Slot, Answer
    <3>2. CallerTypes' /\ ConnTypes'
      BY <2>1 DEF ReadResponse, CallerTypes, ConnTypes
    <3>3. TableTypes' /\ ReaderTypes'
      BY <2>1, <3>1 DEF ReadResponse, Take, TableTypes, ReaderTypes
    <3>4. QED
      BY <3>1, <3>2, <3>3
  <2>2. CASE ReadOptions
    <3>1. EnvTypes'
      BY <2>2, ReadsType DEF ReadOptions
    <3>2. ConnTypes'
      BY <2>2 DEF ReadOptions, ConnTypes
    <3>3. CallerTypes' /\ TableTypes' /\ ReaderTypes'
      BY <2>2 DEF ReadOptions, CallerTypes, TableTypes, ReaderTypes, readerVars
    <3>4. QED
      BY <3>1, <3>2, <3>3
  <2>3. CASE ReadJobUpdate
    <3>1. Head(inbox).ids \subseteq Calls /\ EnvTypes'
      BY <2>3, ReadsType DEF ReadJobUpdate, Frame
    <3>2. ConnTypes' /\ CallerTypes' /\ TableTypes'
      BY <2>3 DEF ReadJobUpdate, ConnTypes, CallerTypes, TableTypes
    <3>3. ReaderTypes'
      BY <2>3, <3>1 DEF ReadJobUpdate, ReaderTypes
    <3>4. QED
      BY <3>1, <3>2, <3>3
  <2>4. ASSUME NEW err \in {"global", "closed"}, NEW next \in {"abort", "closing"},
               Broadcast(err, next), EnvTypes'
        PROVE  TypeOK'
    <3> USE <2>4 DEF Broadcast, Record, Pending
    <3>1. ConnTypes'
      BY DEF ConnTypes
    <3>2. CallerTypes' /\ TableTypes'
      BY DEF CallerTypes, TableTypes
    <3>3. ReaderTypes'
      BY DEF ConnTypes, TableTypes, ReaderTypes, Slot
    <3>4. QED
      BY <3>1, <3>2, <3>3
  <2>5. CASE ReadGlobalError
    BY <2>4, <2>5, ReadsType DEF ReadGlobalError
  <2>6. CASE ReadFails
    BY <2>4, <2>6 DEF ReadFails, EnvTypes
  <2>7. CASE BroadcastDone
    <3> USE <2>7 DEF BroadcastDone
    <3>1. ConnTypes'
      BY DEF ConnTypes, ReaderTypes
    <3>2. EnvTypes' /\ CallerTypes' /\ TableTypes'
      BY DEF EnvTypes, CallerTypes, TableTypes
    <3>3. ReaderTypes'
      BY DEF ReaderTypes
    <3>4. QED
      BY <3>1, <3>2, <3>3
  <2>8. ASSUME NEW c \in Calls, TakeJobId(c) \/ Resolve(c) PROVE TypeOK'
    <3> USE <2>8 DEF TakeJobId, Resolve, Take
    <3>1. EnvTypes' /\ ConnTypes' /\ CallerTypes'
      BY DEF EnvTypes, ConnTypes, CallerTypes
    <3>2. TableTypes'
      BY DEF TableTypes, ReaderTypes
    <3>3. ReaderTypes'
      BY DEF TableTypes, ReaderTypes, Slot, Answer
    <3>4. QED
      BY <3>1, <3>2, <3>3
  <2>9. QED
    BY <1>4, <2>1, <2>2, <2>3, <2>5, <2>6, <2>7, <2>8 DEF Reader
<1>5. CASE Closer
  BY <1>5 DEF EnvTypes, ConnTypes, CallerTypes, TableTypes, ReaderTypes, Closer,
     CloseLock, CloseUnlock, CloseConn, CloseReturns, envVars, connVars, callerVars,
     tableVars, readerVars
<1>6. CASE Server
  <2>1. ASSUME NEW c \in Calls, NEW body \in {"result", "error"}, ServerAnswers(c, body)
        PROVE  TypeOK'
    <3>1. [kind |-> "response", id |-> c, body |-> body] \in Frame
      BY DEF Frame
    <3>2. answers' \in [Calls -> SUBSET Answer] /\ mode' = mode
      BY <2>1 DEF EnvTypes, ServerAnswers, Answer
    <3>3. QED
      BY <2>1, <3>1, <3>2, SendType DEF ServerAnswers, EnvTypes
  <2>2. ASSUME NEW S \in SUBSET received, ServerReportsJob(S) PROVE TypeOK'
    <3>1. [kind |-> "job", ids |-> S] \in Frame
      BY DEF Frame, EnvTypes
    <3>2. answers' \in [Calls -> SUBSET Answer] /\ mode' = mode
      BY <2>2 DEF EnvTypes, ServerReportsJob, Answer
    <3>3. QED
      BY <2>2, <3>1, <3>2, SendType DEF ServerReportsJob, EnvTypes
  <2>3. ASSUME NEW m \in {"legacy", "new", "failed"}, ServerAnswersOptions(m)
        PROVE  TypeOK'
    <3>1. [kind |-> "options", mode |-> m] \in Frame
      BY DEF Frame
    <3>2. QED
      BY <2>3, <3>1, SendType DEF ServerAnswersOptions, EnvTypes
  <2>4. CASE ServerFails
    <3>1. [kind |-> "global"] \in Frame
      BY DEF Frame
    <3>2. QED
      BY <2>4, <3>1, SendType DEF ServerFails, EnvTypes
  <2>5. QED
    BY <1>6, <2>1, <2>2, <2>3, <2>4 DEF Server
<1>7. CASE NetworkLoss
  BY <1>7 DEF EnvTypes, ConnTypes, CallerTypes, TableTypes, ReaderTypes, NetworkLoss,
     connVars, callerVars, tableVars, readerVars
<1>8. CASE UNCHANGED vars
  BY <1>8 DEF EnvTypes, ConnTypes, CallerTypes, TableTypes, ReaderTypes, vars,
     envVars, connVars, callerVars, tableVars, readerVars
<1>9. QED
  BY <1>1, <1>2, <1>3, <1>4, <1>5, <1>6, <1>7, <1>8 DEF Next

\* Every variable keeps its type, however many calls run at once.
THEOREM TypeCorrect == Spec => []TypeOK
<1>1. QED
  BY InitType, StepType, PTL DEF Spec

-----------------------------------------------------------------------------
(* Who completes a call *)

\* What makes NoStrandedCall, SingleCloser and TableIsInFlight inductive: a
\* call enters the table fresh, the reader is started once, and it holds calls
\* only while it is about to complete them, one unless it broadcasts.
Fresh == \A c \in Calls : pc[c] = "idle" => c \notin calls \cup owed /\ ~returned[c]

ReaderHolds ==
  /\ cpc = "sending" => rpc = "off"
  /\ rpc \notin {"answer", "abort", "closing"} => owed = {}
  /\ rpc = "answer" => \A c, d \in owed : c = d
  /\ rpc \in {"abort", "closing"} => closeErr # "none"

TableInv == NoStrandedCall /\ SingleCloser /\ TableIsInFlight /\ Fresh /\ ReaderHolds

\* TableInv speaks of these variables only.
tableInvVars == <<cpc, pc, calls, returned, closeErr, rpc, owed>>

LEMMA InitTable == Init => TableInv
BY DEF Init, TableInv, NoStrandedCall, SingleCloser, TableIsInFlight, Fresh, ReaderHolds,
   Started

LEMMA StepTable == TypeOK /\ TableInv /\ [Next]_vars => TableInv'
<1> SUFFICES ASSUME TypeOK, TableInv, [Next]_vars PROVE TableInv'
  OBVIOUS
<1> USE DEF TableInv, NoStrandedCall, SingleCloser, TableIsInFlight, Fresh, ReaderHolds,
     Started, TypeOK, CallerTypes, TableTypes, ReaderTypes
<1>1. ASSUME UNCHANGED tableInvVars PROVE TableInv'
  BY <1>1 DEF tableInvVars
<1>2. CASE ConnectSend
  BY <1>2 DEF ConnectSend, callerVars, tableVars
<1>3. CASE ConnectSendFails \/ ConnectWakes \/ ConnectGivesUp \/ ConnectCheck
  BY <1>3 DEF ConnectSendFails, ConnectWakes, ConnectGivesUp, ConnectCheck,
     callerVars, tableVars, readerVars
<1>4. ASSUME NEW c \in Calls, Register(c) PROVE TableInv'
  BY <1>4 DEF Register, connVars, readerVars
<1>5. ASSUME NEW c \in Calls,
             EncodeFails(c) \/ WriteLock(c) \/ WriteDone(c) \/ WaitReturned(c) \/ WaitEnded(c)
      PROVE  TableInv'
  BY <1>5 DEF EncodeFails, WriteLock, WriteDone, WaitReturned, WaitEnded, Leave,
     connVars, tableVars, readerVars
<1>6. ASSUME NEW c \in Calls, Unregister(c) PROVE TableInv'
  BY <1>6 DEF Unregister, connVars, readerVars
<1>7. ASSUME NEW c \in Calls, NEW how, ContextEnds(c, how) PROVE TableInv'
  BY <1>1, <1>7 DEF ContextEnds, connVars, tableVars, readerVars, tableInvVars
<1>8. ASSUME NEW c, NEW body, Take(c, body), rpc \in {"read", "ids"},
             rpc' = "answer" \/ (owed' = {} /\ rpc' \in {"read", "ids"}),
             UNCHANGED <<cpc, pc, returned, closeErr>>
      PROVE  TableInv'
  BY <1>8 DEF Take
<1>9. CASE ReadResponse
  BY <1>8, <1>9 DEF ReadResponse, Reads, Take, connVars, callerVars
<1>10. ASSUME NEW c \in Calls, TakeJobId(c) PROVE TableInv'
  BY <1>8, <1>10 DEF TakeJobId, Take, connVars, callerVars
<1>11. CASE ReadOptions
  BY <1>1, <1>11 DEF ReadOptions, callerVars, tableVars, readerVars, tableInvVars
<1>12. CASE ReadJobUpdate
  BY <1>12 DEF ReadJobUpdate, Reads, connVars, callerVars, tableVars
<1>13. ASSUME NEW err \in {"global", "closed"}, NEW next \in {"abort", "closing"},
              rpc = "read", Broadcast(err, next)
       PROVE  TableInv'
  BY <1>13 DEF Broadcast, Record, Pending, callerVars
<1>14. CASE ReadGlobalError \/ ReadFails
  BY <1>13, <1>14 DEF ReadGlobalError, ReadFails, Reads
<1>15. ASSUME NEW c \in Calls, Resolve(c) PROVE TableInv'
  BY <1>15 DEF Resolve, connVars, callerVars
<1>16. CASE BroadcastDone
  BY <1>16 DEF BroadcastDone, callerVars, tableVars
<1>17. CASE Closer
  BY <1>1, <1>17 DEF Closer, CloseLock, CloseUnlock, CloseConn, CloseReturns,
     connVars, callerVars, tableVars, readerVars, tableInvVars
<1>18. CASE Server
  BY <1>1, <1>18 DEF Server, ServerAnswers, ServerReportsJob, ServerAnswersOptions,
     ServerFails, Send, connVars, callerVars, tableVars, readerVars, tableInvVars
<1>19. CASE NetworkLoss
  BY <1>1, <1>19 DEF NetworkLoss, connVars, callerVars, tableVars, readerVars, tableInvVars
<1>20. CASE UNCHANGED vars
  BY <1>1, <1>20 DEF vars, connVars, callerVars, tableVars, readerVars, tableInvVars
<1>21. QED
  BY <1>2, <1>3, <1>4, <1>5, <1>6, <1>7, <1>9, <1>10, <1>11, <1>12, <1>14, <1>15, <1>16,
     <1>17, <1>18, <1>19, <1>20 DEF Next, Connector, CallerMoves, Reader

LEMMA TableInvariant == Spec => []TableInv
<1>1. QED
  BY InitType, StepType, InitTable, StepTable, PTL DEF Spec

\* No interleaving of registerCall, the reader and broadcastError leaves a call
\* in progress that nobody will complete.
THEOREM CallsAreNeverStranded == Spec => []NoStrandedCall
<1>1. TableInv => NoStrandedCall
  BY DEF TableInv
<1>2. QED
  BY <1>1, TableInvariant, PTL

\* The reader never closes a call's channel twice.
THEOREM EveryCallHasOneCloser == Spec => []SingleCloser
<1>1. TableInv => SingleCloser
  BY DEF TableInv
<1>2. QED
  BY <1>1, TableInvariant, PTL

\* A call that is over is not in the table.
THEOREM TableHoldsCallsInFlight == Spec => []TableIsInFlight
<1>1. TableInv => TableIsInFlight
  BY DEF TableInv
<1>2. QED
  BY <1>1, TableInvariant, PTL

-----------------------------------------------------------------------------
(* Whose answer a call gets *)

\* A frame in flight repeats something the server has answered.
Honest(f) ==
  /\ f.kind = "response" => f.body \in answers[f.id]
  /\ f.kind = "job" => \A c \in f.ids : "jobid" \in answers[c]

AnswerInv ==
  /\ AnswerIsMine
  /\ \A i \in 1..Len(inbox) : Honest(inbox[i])
  /\ \A c \in ids : "jobid" \in answers[c]
  /\ \A c \in owed : owedAs \in Answer => owedAs \in answers[c]

\* AnswerInv speaks of these variables only.
answerInvVars == <<inbox, answers, outcome, slot, ids, owed, owedAs>>

LEMMA InitAnswer == Init => AnswerInv
BY EmptySeq DEF Init, AnswerInv, AnswerIsMine, Answer

\* Taking a frame leaves honest frames behind.
LEMMA ReadsHonest ==
  ASSUME TypeOK, AnswerInv, NEW kind, Reads(kind)
  PROVE  /\ Honest(Head(inbox))
         /\ \A i \in 1..Len(inbox') : Honest(inbox'[i])
  BY ReadingInbox DEF TypeOK, EnvTypes, AnswerInv, Reads

\* Answers are never taken back, so honest frames stay honest.
LEMMA SendHonest ==
  ASSUME TypeOK, AnswerInv, NEW f \in Frame, Send(f), answers' \in [Calls -> SUBSET Answer],
         \A c \in Calls : answers[c] \subseteq answers'[c],
         Honest(f)'
  PROVE  AnswerInv'
<1>1. \A g \in Frame : Honest(g) => Honest(g)'
  BY DEF Honest, Frame
<1>2. \A i \in 1..Len(inbox') :
        (i \in 1..Len(inbox) /\ inbox'[i] = inbox[i]) \/ inbox'[i] = f
  BY SendingFrame DEF TypeOK, EnvTypes, Send
<1>3. \A i \in 1..Len(inbox) : inbox[i] \in Frame
  BY ElementOfSeq DEF TypeOK, EnvTypes
<1>4. (\A i \in 1..Len(inbox) : Honest(inbox[i]))'
  <2> SUFFICES ASSUME NEW i \in 1..Len(inbox') PROVE Honest(inbox[i])'
    OBVIOUS
  <2>1. CASE i \in 1..Len(inbox) /\ inbox'[i] = inbox[i]
    BY <1>1, <1>3, <2>1 DEF AnswerInv, Honest
  <2>2. CASE inbox'[i] = f
    BY <2>2 DEF Honest
  <2>3. QED
    BY <1>2, <2>1, <2>2
<1>5. QED
  BY <1>4 DEF AnswerInv, AnswerIsMine, Send, TypeOK, CallerTypes, TableTypes, ReaderTypes,
     callerVars, tableVars, readerVars

LEMMA StepAnswer == TypeOK /\ AnswerInv /\ [Next]_vars => AnswerInv'
<1> SUFFICES ASSUME TypeOK, AnswerInv, [Next]_vars PROVE AnswerInv'
  OBVIOUS
<1> USE DEF TypeOK, CallerTypes, TableTypes, ReaderTypes, envVars, callerVars, tableVars,
     readerVars, answerInvVars
<1>1. ASSUME UNCHANGED answerInvVars PROVE AnswerInv'
  BY <1>1 DEF AnswerInv, AnswerIsMine, Honest
<1>2. CASE Connector
  BY <1>1, <1>2 DEF Connector, ConnectSend, ConnectSendFails, ConnectWakes, ConnectGivesUp,
     ConnectCheck
<1>3. ASSUME NEW c \in Calls, Register(c) PROVE AnswerInv'
  BY <1>3 DEF AnswerInv, AnswerIsMine, Honest, Register, Answer
<1>4. ASSUME NEW c \in Calls, EncodeFails(c) \/ WriteDone(c) \/ WaitEnded(c) PROVE AnswerInv'
  BY <1>4 DEF AnswerInv, AnswerIsMine, Honest, EncodeFails, WriteDone, WaitEnded, Leave, Answer
<1>5. ASSUME NEW c \in Calls, WaitReturned(c) PROVE AnswerInv'
  BY <1>5 DEF AnswerInv, AnswerIsMine, Honest, WaitReturned, Leave
<1>6. ASSUME NEW c \in Calls, WriteLock(c) \/ Unregister(c) PROVE AnswerInv'
  BY <1>1, <1>6 DEF WriteLock, Unregister
<1>7. ASSUME NEW c \in Calls, NEW how, ContextEnds(c, how) PROVE AnswerInv'
  BY <1>1, <1>7 DEF ContextEnds
<1>8. CASE ReadResponse
  <2>1. Head(inbox) \in Frame /\ Head(inbox).kind = "response"
    BY <1>8, ReadsType DEF ReadResponse
  <2>2. /\ Head(inbox).body \in answers[Head(inbox).id]
        /\ \A i \in 1..Len(inbox') : Honest(inbox'[i])
    BY <1>8, <2>1, ReadsHonest DEF ReadResponse, Honest
  <2>3. QED
    BY <1>8, <2>2 DEF AnswerInv, AnswerIsMine, Honest, ReadResponse, Reads, Take
<1>9. CASE ReadJobUpdate
  <2>1. Head(inbox) \in Frame /\ Head(inbox).kind = "job"
    BY <1>9, ReadsType DEF ReadJobUpdate
  <2>2. /\ \A c \in Head(inbox).ids : "jobid" \in answers[c]
        /\ \A i \in 1..Len(inbox') : Honest(inbox'[i])
    BY <1>9, <2>1, ReadsHonest DEF ReadJobUpdate, Honest
  <2>3. QED
    BY <1>9, <2>2 DEF AnswerInv, AnswerIsMine, Honest, ReadJobUpdate, Reads
<1>10. CASE ReadOptions
  BY <1>10, ReadsHonest DEF AnswerInv, AnswerIsMine, Honest, ReadOptions, Reads
<1>11. ASSUME NEW c \in Calls, TakeJobId(c) PROVE AnswerInv'
  BY <1>11 DEF AnswerInv, AnswerIsMine, Honest, TakeJobId, Take
<1>12. CASE ReadGlobalError
  BY <1>12, ReadsHonest DEF AnswerInv, AnswerIsMine, Honest, ReadGlobalError, Reads, Broadcast,
     Answer
<1>13. CASE ReadFails
  BY <1>13 DEF AnswerInv, AnswerIsMine, Honest, ReadFails, Broadcast, Answer
<1>14. ASSUME NEW c \in Calls, Resolve(c) PROVE AnswerInv'
  BY <1>14 DEF AnswerInv, AnswerIsMine, Honest, Resolve
<1>15. CASE BroadcastDone \/ Closer \/ NetworkLoss
  BY <1>1, <1>15 DEF BroadcastDone, Closer, CloseLock, CloseUnlock, CloseConn, CloseReturns,
     NetworkLoss
<1>16. CASE Server
  <2> USE DEF EnvTypes
  <2>1. ASSUME NEW c \in Calls, NEW body \in {"result", "error"}, ServerAnswers(c, body)
        PROVE  AnswerInv'
    <3> DEFINE f == [kind |-> "response", id |-> c, body |-> body]
    <3>1. f \in Frame /\ Send(f) /\ answers' \in [Calls -> SUBSET Answer]
      BY <2>1 DEF Frame, ServerAnswers, Answer
    <3>2. Honest(f)' /\ \A d \in Calls : answers[d] \subseteq answers'[d]
      BY <2>1 DEF ServerAnswers, Honest
    <3>3. QED
      BY <3>1, <3>2, SendHonest
  <2>2. ASSUME NEW S \in SUBSET received, ServerReportsJob(S) PROVE AnswerInv'
    <3> DEFINE f == [kind |-> "job", ids |-> S]
    <3>1. f \in Frame /\ Send(f) /\ answers' \in [Calls -> SUBSET Answer]
      BY <2>2 DEF Frame, ServerReportsJob, Answer
    <3>2. Honest(f)' /\ \A d \in Calls : answers[d] \subseteq answers'[d]
      BY <2>2 DEF ServerReportsJob, Honest
    <3>3. QED
      BY <3>1, <3>2, SendHonest
  <2>3. ASSUME NEW m \in {"legacy", "new", "failed"}, ServerAnswersOptions(m)
        PROVE  AnswerInv'
    <3> DEFINE f == [kind |-> "options", mode |-> m]
    <3>1. f \in Frame /\ Send(f) /\ answers' = answers
      BY <2>3 DEF Frame, ServerAnswersOptions
    <3>2. QED
      BY <3>1, SendHonest DEF Honest
  <2>4. CASE ServerFails
    <3> DEFINE f == [kind |-> "global"]
    <3>1. f \in Frame /\ Send(f) /\ answers' = answers
      BY <2>4 DEF Frame, ServerFails
    <3>2. QED
      BY <3>1, SendHonest DEF Honest
  <2>5. QED
    BY <1>16, <2>1, <2>2, <2>3, <2>4 DEF Server
<1>17. CASE UNCHANGED vars
  BY <1>1, <1>17 DEF vars
<1>18. QED
  BY <1>2, <1>3, <1>4, <1>5, <1>6, <1>7, <1>8, <1>9, <1>10, <1>11, <1>12, <1>13, <1>14,
     <1>15, <1>16, <1>17 DEF Next, CallerMoves, Reader

LEMMA AnswerInvariant == Spec => []AnswerInv
<1>1. QED
  BY InitType, StepType, InitAnswer, StepAnswer, PTL DEF Spec

\* A caller only ever receives an answer the server gave to its own request.
THEOREM AnswersReachTheirCall == Spec => []AnswerIsMine
<1>1. AnswerInv => AnswerIsMine
  BY DEF AnswerInv
<1>2. QED
  BY <1>1, AnswerInvariant, PTL

-----------------------------------------------------------------------------
(* What ConnectContext hands out *)

\* Besides HandshakeAgreed: the server's answer to core.set_options is the one
\* in flight, and Client.connected is closed by that answer or by an error.
Settled == mode # "unset" /\ (newStyle <=> mode = "new")

HandshakeInv ==
  /\ HandshakeAgreed
  /\ \A i \in 1..Len(inbox) : inbox[i].kind = "options" => mode # "unset" /\ inbox[i].mode = mode
  /\ connected => closeErr # "none" \/ Settled
  /\ cpc = "checking" => connected

\* HandshakeInv speaks of these variables only.
handshakeVars == <<inbox, mode, cpc, connected, newStyle, closeErr>>

LEMMA InitHandshake == Init => HandshakeInv
BY EmptySeq DEF Init, HandshakeInv, HandshakeAgreed

\* A frame sent is either no answer to core.set_options or the first one.
LEMMA SendHandshake ==
  ASSUME TypeOK, HandshakeInv, NEW f \in Frame, Send(f),
         f.kind = "options" => mode = "unset" /\ mode' # "unset" /\ f.mode = mode',
         f.kind # "options" => mode' = mode
  PROVE  HandshakeInv'
<1>1. ASSUME NEW i \in 1..Len(inbox'), inbox'[i].kind = "options"
      PROVE  mode' # "unset" /\ inbox'[i].mode = mode'
  <2>1. (i \in 1..Len(inbox) /\ inbox'[i] = inbox[i]) \/ inbox'[i] = f
    BY SendingFrame DEF TypeOK, EnvTypes, Send
  <2>2. QED
    BY <1>1, <2>1 DEF HandshakeInv
<1>2. mode # "unset" => mode' = mode
  OBVIOUS
<1>3. QED
  BY <1>1, <1>2 DEF HandshakeInv, HandshakeAgreed, Settled, Send, connVars, tableVars

LEMMA StepHandshake == TypeOK /\ TableInv /\ HandshakeInv /\ [Next]_vars => HandshakeInv'
<1> SUFFICES ASSUME TypeOK, TableInv, HandshakeInv, [Next]_vars PROVE HandshakeInv'
  OBVIOUS
<1> USE DEF envVars, connVars, tableVars, handshakeVars
<1>1. ASSUME UNCHANGED handshakeVars PROVE HandshakeInv'
  BY <1>1 DEF HandshakeInv, HandshakeAgreed, Settled
<1>2. CASE Connector
  BY <1>2 DEF HandshakeInv, HandshakeAgreed, Settled, Connector, ConnectSend,
     ConnectSendFails, ConnectWakes, ConnectGivesUp, ConnectCheck
<1>3. ASSUME NEW c \in Calls, CallerMoves(c) PROVE HandshakeInv'
  BY <1>1, <1>3 DEF CallerMoves, Register, EncodeFails, WriteLock, WriteDone, WaitReturned,
     WaitEnded, Unregister
<1>4. ASSUME NEW c \in Calls, NEW how, ContextEnds(c, how) PROVE HandshakeInv'
  BY <1>1, <1>4 DEF ContextEnds
<1>5. ASSUME NEW kind, Reads(kind)
      PROVE  /\ Head(inbox).kind = kind
             /\ kind = "options" => mode # "unset" /\ Head(inbox).mode = mode
             /\ \A i \in 1..Len(inbox') :
                  inbox'[i].kind = "options" => mode # "unset" /\ inbox'[i].mode = mode
             /\ mode' = mode
  BY <1>5, ReadingInbox DEF TypeOK, EnvTypes, HandshakeInv, Reads
<1>6. CASE ReadResponse \/ ReadJobUpdate
  <2>1. /\ \A i \in 1..Len(inbox') :
             inbox'[i].kind = "options" => mode # "unset" /\ inbox'[i].mode = mode
        /\ mode' = mode
    BY <1>5, <1>6 DEF ReadResponse, ReadJobUpdate
  <2>2. QED
    BY <1>6, <2>1 DEF HandshakeInv, HandshakeAgreed, Settled, ReadResponse, ReadJobUpdate
<1>7. CASE ReadOptions
  <2>1. /\ \A i \in 1..Len(inbox') :
             inbox'[i].kind = "options" => mode # "unset" /\ inbox'[i].mode = mode
        /\ mode' = mode /\ mode # "unset" /\ Head(inbox).mode = mode
    BY <1>5, <1>7 DEF ReadOptions
  <2>2. Settled' \/ UNCHANGED <<newStyle, connected>>
    BY <1>7, <2>1 DEF ReadOptions, Settled
  <2>3. UNCHANGED <<cpc, closeErr>> /\ (connected => connected')
    BY <1>7 DEF ReadOptions
  <2>4. QED
    BY <2>1, <2>2, <2>3 DEF HandshakeInv, HandshakeAgreed, Settled
<1>8. CASE ReadGlobalError
  <2>1. /\ \A i \in 1..Len(inbox') :
             inbox'[i].kind = "options" => mode # "unset" /\ inbox'[i].mode = mode
        /\ mode' = mode
    BY <1>5, <1>8 DEF ReadGlobalError
  <2>2. QED
    BY <1>8, <2>1 DEF HandshakeInv, HandshakeAgreed, Settled, ReadGlobalError, Broadcast, Record
<1>9. CASE ReadFails
  BY <1>9 DEF HandshakeInv, HandshakeAgreed, Settled, ReadFails, Broadcast, Record
<1>10. CASE BroadcastDone
  BY <1>10 DEF HandshakeInv, HandshakeAgreed, Settled, BroadcastDone, TableInv, ReaderHolds
<1>11. ASSUME NEW c \in Calls, TakeJobId(c) \/ Resolve(c) PROVE HandshakeInv'
  BY <1>1, <1>11 DEF TakeJobId, Resolve
<1>12. CASE Closer \/ NetworkLoss
  BY <1>1, <1>12 DEF Closer, CloseLock, CloseUnlock, CloseConn, CloseReturns, NetworkLoss
<1>13. CASE Server
  <2>1. ASSUME NEW c \in Calls, NEW body \in {"result", "error"}, ServerAnswers(c, body)
        PROVE  HandshakeInv'
    <3>1. [kind |-> "response", id |-> c, body |-> body] \in Frame
      BY DEF Frame
    <3>2. QED
      BY <2>1, <3>1, SendHandshake DEF ServerAnswers
  <2>2. ASSUME NEW S \in SUBSET received, ServerReportsJob(S) PROVE HandshakeInv'
    <3>1. [kind |-> "job", ids |-> S] \in Frame
      BY DEF Frame, TypeOK, EnvTypes
    <3>2. QED
      BY <2>2, <3>1, SendHandshake DEF ServerReportsJob
  <2>3. ASSUME NEW m \in {"legacy", "new", "failed"}, ServerAnswersOptions(m)
        PROVE  HandshakeInv'
    <3>1. [kind |-> "options", mode |-> m] \in Frame
      BY DEF Frame
    <3>2. QED
      BY <2>3, <3>1, SendHandshake DEF ServerAnswersOptions
  <2>4. CASE ServerFails
    <3>1. [kind |-> "global"] \in Frame
      BY DEF Frame
    <3>2. QED
      BY <2>4, <3>1, SendHandshake DEF ServerFails
  <2>5. QED
    BY <1>13, <2>1, <2>2, <2>3, <2>4 DEF Server
<1>14. CASE UNCHANGED vars
  BY <1>1, <1>14 DEF vars
<1>15. QED
  BY <1>2, <1>3, <1>4, <1>6, <1>7, <1>8, <1>9, <1>10, <1>11, <1>12, <1>13, <1>14
     DEF Next, Reader

\* A client is handed out only with the server's answer to core.set_options
\* applied; a connection lost during the handshake never passes for one.
THEOREM HandshakeIsAgreed == Spec => []HandshakeAgreed
<1>1. HandshakeInv => HandshakeAgreed
  BY DEF HandshakeInv
<1>2. QED
  BY <1>1, InitType, StepType, InitTable, StepTable, InitHandshake, StepHandshake, PTL DEF Spec

-----------------------------------------------------------------------------
(* Client implements CallContract *)

\* What the refinement needs besides the invariants above: a call that has not
\* begun was told nothing and asked nothing, a completed call has a verdict,
\* and the reader hands out answers one at a time and errors in broadcasts.
ContractInv ==
  /\ \A c \in Calls : pc[c] = "idle" => outcome[c] = "none" /\ c \notin received
  /\ \A c \in Calls : returned[c] => slot[c] # "none"
  /\ rpc = "answer" => owedAs \in Answer
  /\ rpc \in {"abort", "closing"} => owedAs = "aborted"

LEMMA InitContract == Init => ContractInv
BY DEF Init, ContractInv

LEMMA StepContract == TypeOK /\ TableInv /\ ContractInv /\ [Next]_vars => ContractInv'
<1> SUFFICES ASSUME TypeOK, TableInv, ContractInv, [Next]_vars PROVE ContractInv'
  OBVIOUS
<1> USE DEF TypeOK, EnvTypes, CallerTypes, TableTypes, ReaderTypes, ContractInv, envVars,
     callerVars, tableVars, readerVars
<1>1. CASE Connector
  BY <1>1 DEF TableInv, ReaderHolds, Connector, ConnectSend, ConnectSendFails, ConnectWakes,
     ConnectGivesUp, ConnectCheck
<1>2. ASSUME NEW c \in Calls, CallerMoves(c) PROVE ContractInv'
  BY <1>2 DEF CallerMoves, Register, EncodeFails, WriteLock, WriteDone, WaitReturned,
     WaitEnded, Unregister, Leave
<1>3. ASSUME NEW c \in Calls, NEW how, ContextEnds(c, how) PROVE ContractInv'
  BY <1>3 DEF ContextEnds
<1>4. CASE ReadResponse
  <2>1. Head(inbox).body \in Answer
    BY <1>4, ReadsType DEF ReadResponse, Frame, Answer
  <2>2. QED
    BY <1>4, <2>1 DEF ReadResponse, Reads, Take
<1>5. CASE ReadOptions \/ ReadJobUpdate \/ ReadGlobalError \/ ReadFails \/ BroadcastDone
  BY <1>5 DEF ReadOptions, ReadJobUpdate, ReadGlobalError, ReadFails, BroadcastDone, Reads,
     Broadcast
<1>6. ASSUME NEW c \in Calls, TakeJobId(c) PROVE ContractInv'
  BY <1>6 DEF TakeJobId, Take, Answer
<1>7. ASSUME NEW c \in Calls, Resolve(c) PROVE ContractInv'
  BY <1>7 DEF Resolve, Answer
<1>8. CASE Closer \/ Server \/ NetworkLoss \/ UNCHANGED vars
  BY <1>8 DEF Closer, CloseLock, CloseUnlock, CloseConn, CloseReturns, Server, ServerAnswers,
     ServerReportsJob, ServerAnswersOptions, ServerFails, Send, NetworkLoss, vars
<1>9. QED
  BY <1>1, <1>2, <1>3, <1>4, <1>5, <1>6, <1>7, <1>8 DEF Next, CallerMoves, Reader

\* The abstract state moves at c when only c's phase and verdict do.
LEMMA OnlyCallMoves ==
  ASSUME NEW c \in Calls,
         \A d \in Calls \ {c} : Phase(d)' = Phase(d) /\ Verdict(d)' = Verdict(d)
  PROVE  /\ [d \in Calls |-> Phase(d)]' = [[d \in Calls |-> Phase(d)] EXCEPT ![c] = Phase(c)']
         /\ [d \in Calls |-> Verdict(d)]'
              = [[d \in Calls |-> Verdict(d)] EXCEPT ![c] = Verdict(c)']
OBVIOUS

\* A caller that leaves callRaw is told something the contract allows.
LEMMA LeaveSettles ==
  ASSUME TypeOK, NEW c \in Calls, Started(c), NEW v \in Answer \cup {"aborted"} \cup GaveUp,
         Leave(c, v), v \in GaveUp \/ (returned[c] /\ v = slot[c]),
         UNCHANGED <<slot, returned, closeErr, answers>>
  PROVE  Contract!Settle(c)
<1> USE DEF TypeOK, CallerTypes, TableTypes, Leave
<1>1. \A d \in Calls \ {c} : Phase(d)' = Phase(d) /\ Verdict(d)' = Verdict(d)
  BY DEF Phase, Verdict, Started
<1>2. Phase(c)' = "settled" /\ Verdict(c)' = v
  BY DEF Phase, Verdict, Started
<1>3. Phase(c) \in {"open", "answered", "doomed"}
  BY DEF Phase, Started
<1>4. v \in Contract!Tellable(c)
  BY DEF Contract!Tellable, Contract!GaveUp, GaveUp, Phase, Verdict, Started
<1>5. QED
  BY <1>1, <1>2, <1>3, <1>4, OnlyCallMoves DEF Contract!Settle

LEMMA StepRefines ==
  TypeOK /\ TableInv /\ AnswerInv /\ ContractInv /\ [Next]_vars => [Contract!Next]_(Contract!vars)
<1> SUFFICES ASSUME TypeOK, TableInv, AnswerInv, ContractInv, [Next]_vars
             PROVE  Contract!Next \/ UNCHANGED Contract!vars
  OBVIOUS
<1> USE DEF TypeOK, CallerTypes, TableTypes, ReaderTypes, envVars, callerVars, tableVars,
     readerVars
<1>1. ASSUME UNCHANGED <<callerVars, tableVars, answers>> PROVE UNCHANGED Contract!vars
  BY <1>1 DEF Contract!vars, Phase, Verdict, Started
<1>2. CASE Connector
  BY <1>1, <1>2 DEF Connector, ConnectSend, ConnectSendFails, ConnectWakes, ConnectGivesUp,
     ConnectCheck
<1>3. ASSUME NEW c \in Calls, Register(c) PROVE Contract!Begin(c)
  <2>1. \A d \in Calls \ {c} : Phase(d)' = Phase(d) /\ Verdict(d)' = Verdict(d)
    BY <1>3 DEF Register, Phase, Verdict, Started
  <2>2. Phase(c) = "idle" /\ Verdict(c) = "none" /\ Verdict(c)' = "none"
    BY <1>3 DEF Register, Phase, Verdict, Started, TableInv, Fresh, ContractInv
  <2>3. Phase(c)' = IF closeErr # "none" THEN "doomed" ELSE "open"
    BY <1>3 DEF Register, Phase, Started, TableInv, Fresh
  <2>4. UNCHANGED <<[d \in Calls |-> Verdict(d)], closeErr, answers>>
    BY <1>3, <2>1, <2>2 DEF Register
  <2>5. [d \in Calls |-> Phase(d)]'
          = [[d \in Calls |-> Phase(d)] EXCEPT ![c] = IF closeErr # "none" THEN "doomed" ELSE "open"]
    BY <2>1, <2>3, OnlyCallMoves
  <2>6. QED
    BY <2>2, <2>4, <2>5 DEF Contract!Begin
<1>4. ASSUME NEW c \in Calls, EncodeFails(c) \/ WaitEnded(c) PROVE Contract!Settle(c)
  BY <1>4, LeaveSettles DEF EncodeFails, WaitEnded, Started, GaveUp
<1>5. ASSUME NEW c \in Calls, WaitReturned(c) PROVE Contract!Settle(c)
  BY <1>5, LeaveSettles DEF WaitReturned, Started, ContractInv, Slot
<1>6. ASSUME NEW c \in Calls, WriteDone(c)
      PROVE  Contract!Settle(c) \/ UNCHANGED Contract!vars
  <2>1. CASE Leave(c, "sendFailed")
    BY <1>6, <2>1, LeaveSettles DEF WriteDone, Started, GaveUp
  <2>2. CASE pc' = [pc EXCEPT ![c] = "waiting"] /\ UNCHANGED outcome
    BY <1>6, <2>2 DEF WriteDone, Contract!vars, Phase, Verdict, Started
  <2>3. QED
    BY <1>6, <2>1, <2>2 DEF WriteDone
<1>7. ASSUME NEW c \in Calls, WriteLock(c) \/ Unregister(c) PROVE UNCHANGED Contract!vars
  BY <1>7 DEF WriteLock, Unregister, Contract!vars, Phase, Verdict, Started
<1>8. ASSUME NEW c \in Calls, NEW how, ContextEnds(c, how) PROVE UNCHANGED Contract!vars
  BY <1>8 DEF ContextEnds, Contract!vars, Phase, Verdict, Started
<1>9. ASSUME UNCHANGED <<callerVars, slot, returned, answers>>
      PROVE  /\ UNCHANGED <<[c \in Calls |-> Phase(c)], [c \in Calls |-> Verdict(c)]>>
             /\ closeErr' = closeErr => UNCHANGED Contract!vars
  BY <1>9 DEF Contract!vars, Phase, Verdict, Started
<1>10. CASE ReadResponse \/ ReadOptions \/ ReadJobUpdate \/ BroadcastDone
  BY <1>9, <1>10 DEF ReadResponse, ReadOptions, ReadJobUpdate, BroadcastDone, Reads
<1>11. ASSUME NEW c \in Calls, TakeJobId(c) PROVE UNCHANGED Contract!vars
  BY <1>9, <1>11 DEF TakeJobId
<1>12. CASE ReadGlobalError \/ ReadFails
  <2>1. /\ UNCHANGED <<callerVars, slot, returned, answers>>
        /\ closeErr' = closeErr \/ (closeErr = "none" /\ closeErr' # "none")
    BY <1>12 DEF ReadGlobalError, ReadFails, Reads, Broadcast, Record
  <2>2. QED
    BY <1>9, <2>1 DEF Contract!Die, Contract!Next
<1>13. ASSUME NEW c \in Calls, Resolve(c)
       PROVE  Contract!Win(c) \/ Contract!Doom(c) \/ UNCHANGED Contract!vars
  <2>1. ~returned[c] /\ pc[c] # "idle"
    BY <1>13 DEF Resolve, TableInv, SingleCloser, Fresh
  <2>2. \A d \in Calls \ {c} : Phase(d)' = Phase(d) /\ Verdict(d)' = Verdict(d)
    BY <1>13 DEF Resolve, Phase, Verdict, Started
  <2>3. CASE ~Started(c)
    <3>1. Phase(c)' = Phase(c) /\ Verdict(c)' = Verdict(c)
      BY <1>13, <2>3 DEF Resolve, Phase, Verdict, Started
    <3>2. QED
      BY <1>13, <2>2, <3>1 DEF Resolve, Contract!vars
  <2>4. CASE Started(c) /\ rpc = "answer"
    <3>1. owedAs \in Answer /\ owedAs \in answers[c]
      BY <1>13, <2>4 DEF Resolve, ContractInv, AnswerInv
    <3>2. /\ Phase(c) = "open" /\ Phase(c)' = "answered" /\ Verdict(c)' = owedAs
      BY <1>13, <2>1, <2>4, <3>1 DEF Resolve, Phase, Verdict, Started, Answer
    <3>3. QED
      BY <1>13, <2>2, <3>1, <3>2, OnlyCallMoves DEF Resolve, Contract!Win
  <2>5. CASE Started(c) /\ rpc # "answer"
    <3>1. owedAs = "aborted" /\ closeErr # "none"
      BY <1>13, <2>5 DEF Resolve, ContractInv, TableInv, ReaderHolds
    <3>2. /\ Phase(c) = "open" /\ Phase(c)' = "doomed"
          /\ Verdict(c)' = Verdict(c)
      BY <1>13, <2>1, <2>5, <3>1 DEF Resolve, Phase, Verdict, Started
    <3>3. [d \in Calls |-> Verdict(d)]' = [d \in Calls |-> Verdict(d)]
      BY <2>2, <3>2
    <3>4. QED
      BY <1>13, <2>2, <3>1, <3>2, <3>3, OnlyCallMoves DEF Resolve, Contract!Doom
  <2>6. QED
    BY <2>3, <2>4, <2>5
<1>14. CASE Closer \/ NetworkLoss
  BY <1>1, <1>14 DEF Closer, CloseLock, CloseUnlock, CloseConn, CloseReturns, NetworkLoss
<1>15. ASSUME UNCHANGED <<callerVars, tableVars>>, answers' \in [Calls -> SUBSET Answer],
              \A c \in Calls : answers[c] \subseteq answers'[c]
                               /\ (c \notin received => answers'[c] = answers[c])
       PROVE  Contract!ServerSays
  <2>1. UNCHANGED <<[c \in Calls |-> Phase(c)], [c \in Calls |-> Verdict(c)], closeErr>>
    BY <1>15 DEF Phase, Verdict, Started
  <2>2. \A c \in Calls : Phase(c) = "idle" => c \notin received
    BY DEF Phase, ContractInv
  <2>3. QED
    BY <1>15, <2>1, <2>2 DEF Contract!ServerSays, Contract!Answer, Answer
<1>16. CASE Server
  <2> USE DEF EnvTypes, Send
  <2>1. ASSUME NEW c \in Calls, NEW body \in {"result", "error"}, ServerAnswers(c, body)
        PROVE  Contract!ServerSays
    BY <1>15, <2>1 DEF ServerAnswers, Answer
  <2>2. ASSUME NEW S \in SUBSET received, ServerReportsJob(S) PROVE Contract!ServerSays
    BY <1>15, <2>2 DEF ServerReportsJob, Answer
  <2>3. ASSUME NEW m, ServerAnswersOptions(m) \/ ServerFails PROVE UNCHANGED Contract!vars
    BY <1>1, <2>3 DEF ServerAnswersOptions, ServerFails
  <2>4. QED
    BY <1>16, <2>1, <2>2, <2>3 DEF Server, Contract!Next
<1>17. CASE UNCHANGED vars
  BY <1>1, <1>17 DEF vars
<1>18. QED
  BY <1>2, <1>3, <1>4, <1>5, <1>6, <1>7, <1>8, <1>10, <1>11, <1>12, <1>13, <1>14, <1>16, <1>17
     DEF Next, CallerMoves, Reader, Contract!Next

\* Whatever the interleaving, callRaw keeps the promise of CallContract: one
\* verdict per call, a server answer only if it is the call's own, and never
\* one for a call begun after the connection error was recorded.
THEOREM ClientImplementsContract == Spec => Implements
<1>1. Init => Contract!Init
  BY DEF Init, Contract!Init, Phase, Verdict, Started
<1>2. QED
  BY <1>1, InitType, StepType, InitTable, StepTable, InitAnswer, StepAnswer, InitContract,
     StepContract, StepRefines, PTL DEF Spec, Implements, Contract!Spec
=============================================================================
