------------------------------ MODULE FifoLemmas ------------------------------
(***************************************************************************)
(* A connection delivers frames in order: the reader of a WebSocket takes  *)
(* the first of a sequence, the server adds at its end (transport.go).     *)
(* These facts about Head, Tail and Append are what the proofs about the   *)
(* components need of it.                                                  *)
(***************************************************************************)
EXTENDS TLAPS, SequenceTheorems

\* Whatever is in a sequence is an element of its kind.
LEMMA EveryElement ==
  ASSUME NEW S, NEW q \in Seq(S)
  PROVE  DOMAIN q = 1..Len(q) /\ Len(q) \in Nat /\ \A i \in DOMAIN q : q[i] \in S
BY ElementOfSeq

\* Reading a frame leaves frames; every one left was there, one place later.
LEMMA ReadingInbox ==
  ASSUME NEW S, NEW q \in Seq(S), q # <<>>
  PROVE  /\ Head(q) = q[1] /\ 1 \in 1..Len(q) /\ Head(q) \in S
         /\ Tail(q) \in Seq(S)
         /\ \A i \in 1..Len(Tail(q)) : i + 1 \in 1..Len(q) /\ Tail(q)[i] = q[i + 1]
<1>1. Len(q) \in Nat /\ Len(q) > 0
  BY EmptySeq
<1>2. QED
  BY <1>1, HeadTailProperties

\* Every frame but the first is still there after it has been read.
LEMMA StillThere ==
  ASSUME NEW S, NEW q \in Seq(S), q # <<>>, NEW i \in DOMAIN q
  PROVE  q[i] = Head(q) \/ \E j \in DOMAIN Tail(q) : Tail(q)[j] = q[i]
<1>1. Len(q) \in Nat /\ Len(q) > 0 /\ DOMAIN q = 1..Len(q)
  BY EmptySeq
<1>2. Len(Tail(q)) = Len(q) - 1 /\ \A j \in 1..Len(Tail(q)) : Tail(q)[j] = q[j + 1]
  BY <1>1, HeadTailProperties
<1>3. Tail(q) \in Seq(S) /\ DOMAIN Tail(q) = 1..Len(Tail(q))
  BY ReadingInbox
<1>4. CASE i = 1
  BY <1>4
<1>5. CASE i # 1
  <2>1. i - 1 \in 1..Len(Tail(q)) /\ Tail(q)[i - 1] = q[i]
    BY <1>1, <1>2, <1>5
  <2>2. QED
    BY <1>3, <2>1
<1>6. QED
  BY <1>4, <1>5

\* Sending a frame adds it at the end, and nothing is lost.
LEMMA SendingFrame ==
  ASSUME NEW S, NEW q \in Seq(S), NEW f \in S
  PROVE  /\ Append(q, f) \in Seq(S)
         /\ \A i \in 1..Len(Append(q, f)) :
              \/ i \in 1..Len(q) /\ Append(q, f)[i] = q[i]
              \/ i = Len(q) + 1 /\ Append(q, f)[i] = f
         /\ \A i \in DOMAIN q : i \in DOMAIN Append(q, f) /\ Append(q, f)[i] = q[i]
         /\ Len(q) + 1 \in DOMAIN Append(q, f) /\ Append(q, f)[Len(q) + 1] = f
BY AppendProperties
=============================================================================
