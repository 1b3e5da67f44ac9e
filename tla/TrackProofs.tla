----------------------------- MODULE TrackProofs -----------------------------
(* Proofs about Track, for any subscriptions, queue capacity and feed.       *)
EXTENDS Track, SequenceTheorems, WellFoundedInduction, TLAPS

(* What a subscriber's pc says about its other variables; type correctness   *)
(* rests on it.                                                              *)
PcInv == \A s \in Sub :
    /\ pc[s] = "acked" => cached[s] \in Stream
    /\ pc[s] \in {"open", "write"} => cur[s] \in Stream
    /\ pc[s] = "write" => sent[s] # <<>>

TypeInv == TypeOK /\ PcInv

\* A nil group is none of the streams.
LEMMA NoGroupIsNoStream == NoGroup \notin Stream
BY DEF NoGroup, Stream

\* What has been appended to is not empty.
LEMMA AppendNonEmpty ==
  ASSUME NEW S, NEW q \in Seq(S), NEW e \in S
  PROVE  Append(q, e) \in Seq(S) /\ Append(q, e) # <<>>
BY AppendProperties, LenProperties

\* The bounds are numbers.
LEMMA Bounds == MaxStream \in Nat /\ MaxSeq \in Nat /\ MaxEpoch \in Nat /\ MaxObj \in Nat
BY TrackAssumption

\* Sequence numbers and epochs are numbers.
LEMMA SeqType == ASSUME IngestTypeOK, NEW n \in Stream PROVE SeqOf(n) \in 0..MaxSeq /\ SeqOf(n) \in Nat
BY TrackAssumption DEF IngestTypeOK, SeqOf

\* The initial state is well typed.
LEMMA InitType == Init => TypeInv
<1> SUFFICES ASSUME Init PROVE TypeInv
    OBVIOUS
<1>1. IngestTypeOK
  BY TrackAssumption DEF Init, IngestTypeOK, IsFeed
<1>2. TrackTypeOK /\ SubTypeOK
  BY TrackAssumption DEF Init, TrackTypeOK, SubTypeOK
<1>3. QueueTypeOK
  BY TrackAssumption DEF Init, QueueTypeOK
<1>4. HistoryTypeOK
  BY DEF Init, HistoryTypeOK
<1>5. PcInv
  BY DEF Init, PcInv
<1> QED
  BY <1>1, <1>2, <1>3, <1>4, <1>5 DEF TypeInv, TypeOK

(* The three operations on a queue keep its type.                            *)
LEMMA EnqueueType ==
  ASSUME QueueTypeOK, NEW c \in Stream \cup Sub, NEW s \in Sub, NEW g \in Stream,
         Enqueue(c, s, g) \/ FindFull(c, s) \/ DropOldest(c, s)
  PROVE  QueueTypeOK'
<1> USE TrackAssumption DEF QueueTypeOK
<1>1. CASE Enqueue(c, s, g)
  BY <1>1 DEF Enqueue
<1>2. CASE FindFull(c, s)
  BY <1>2 DEF FindFull
<1>3. CASE DropOldest(c, s)
  <2>1. CASE queue[s] = <<>>
    BY <1>3, <2>1 DEF DropOldest
  <2>2. CASE queue[s] # <<>>
    <3>1. Head(queue[s]) \in Stream /\ Tail(queue[s]) \in Seq(Stream)
      BY <2>2
    <3>2. Len(Tail(queue[s])) <= QueueCap
      BY <2>2
    <3>3. queue' = [queue EXCEPT ![s] = Tail(queue[s])]
      BY <1>3, <2>2 DEF DropOldest
    <3>4. dropped' = [dropped EXCEPT ![s] = @ \cup {Head(queue[s])}]
      BY <1>3, <2>2 DEF DropOldest
    <3>5. full' = [full EXCEPT ![c] = FALSE] /\ arrived' = arrived
      BY <1>3 DEF DropOldest
    <3>6. queue' \in [Sub -> Seq(Stream)] /\ \A r \in Sub : Len(queue'[r]) <= QueueCap
      BY <3>1, <3>2, <3>3
    <3>7. dropped' \in [Sub -> SUBSET Stream]
      BY <3>1, <3>4
    <3> QED
      BY <3>5, <3>6, <3>7
  <2> QED
    BY <2>1, <2>2
<1> QED
  BY <1>1, <1>2, <1>3

Entry == [grp : Stream, n : 0..MaxObj, fin : BOOLEAN]

(* Rewriting the last stream towards s changes that entry and no other.      *)
LEMMA UpdateEffect ==
  ASSUME sent \in [Sub -> Seq(Entry)], NEW s \in Sub, sent[s] # <<>>,
         NEW r \in Entry, Update(s, r)
  PROVE  /\ sent' \in [Sub -> Seq(Entry)]
         /\ \A q \in Sub : Len(sent'[q]) = Len(sent[q])
         /\ \A q \in Sub : q # s => sent'[q] = sent[q]
         /\ \A i \in 1..Len(sent[s]) :
                sent'[s][i] = IF i = Len(sent[s]) THEN r ELSE sent[s][i]
<1> DEFINE k == Len(sent[s])
<1> DEFINE new == [sent[s] EXCEPT ![k] = r]
<1>1. k \in 1..Len(sent[s])
  OBVIOUS
<1>2. new \in Seq(Entry) /\ Len(new) = k
  BY <1>1
<1>3. \A i \in 1..k : new[i] = IF i = k THEN r ELSE sent[s][i]
  BY <1>1
<1>4. sent' = [sent EXCEPT ![s] = new]
  BY DEF Update
<1> QED
  BY <1>2, <1>3, <1>4

\* The stream being written is an entry.
LEMMA WritingType ==
  ASSUME sent \in [Sub -> Seq(Entry)], NEW s \in Sub, sent[s] # <<>>
  PROVE  Writing(s) \in Entry
BY DEF Writing

\* Every step keeps the types: the ingest side.
LEMMA IngestType == ASSUME TypeInv, NEW n \in Stream, Ingest(n) PROVE TypeInv'
<1> USE TrackAssumption DEF TypeInv, TypeOK, IngestTypeOK, TrackTypeOK, SubTypeOK, HistoryTypeOK
<1>1. CASE PublishGroup(n)
  <2>1. NewGen(n) \in Nat
    BY DEF NewGen
  <2>2. (IngestTypeOK /\ TrackTypeOK)'
    BY <1>1, <2>1 DEF PublishGroup
  <2>3. (SubTypeOK /\ HistoryTypeOK)'
    <3>1. pub' \in Seq(Stream)
      BY <1>1 DEF PublishGroup
    <3>2. SubTypeOK'
      BY <1>1 DEF PublishGroup, subVars, filterVars
    <3> QED
      BY <1>1, <3>1, <3>2 DEF PublishGroup
  <2>4. QueueTypeOK'
    BY <1>1 DEF PublishGroup, queueVars, QueueTypeOK
  <2>5. PcInv'
    BY <1>1 DEF PublishGroup, subVars, PcInv
  <2> QED
    BY <2>2, <2>3, <2>4, <2>5
<1>2. ASSUME NEW s \in Sub, FanoutSend(n, s) PROVE TypeInv'
  <2>1. QueueTypeOK'
    BY <1>2, EnqueueType DEF FanoutSend
  <2>2. (IngestTypeOK /\ TrackTypeOK)'
    BY <1>2 DEF FanoutSend, Target, trackVars
  <2>3. (SubTypeOK /\ HistoryTypeOK /\ PcInv)'
    BY <1>2 DEF FanoutSend, subVars, filterVars, PcInv
  <2> QED
    BY <2>1, <2>2, <2>3
<1>3. ASSUME NEW s \in Sub, FanoutFull(n, s) PROVE TypeInv'
  <2>1. QueueTypeOK'
    BY <1>3, EnqueueType DEF FanoutFull
  <2>2. (IngestTypeOK /\ TrackTypeOK)'
    BY <1>3 DEF FanoutFull, Target, trackVars
  <2>3. (SubTypeOK /\ HistoryTypeOK /\ PcInv)'
    BY <1>3 DEF FanoutFull, subVars, filterVars, PcInv
  <2> QED
    BY <2>1, <2>2, <2>3
<1>4. ASSUME NEW s \in Sub, FanoutDrop(n, s) PROVE TypeInv'
  <2>1. QueueTypeOK'
    BY <1>4, EnqueueType DEF FanoutDrop
  <2>2. (IngestTypeOK /\ TrackTypeOK)'
    BY <1>4 DEF FanoutDrop, Target, trackVars, ingestVars
  <2>3. (SubTypeOK /\ HistoryTypeOK /\ PcInv)'
    BY <1>4 DEF FanoutDrop, subVars, filterVars, PcInv
  <2> QED
    BY <2>1, <2>2, <2>3
<1>5. CASE AppendObj(n)
  <2>1. (IngestTypeOK /\ TrackTypeOK)'
    <3>1. objs[n] + 1 \in 0..MaxObj
      BY <1>5, Bounds DEF AppendObj
    <3> QED
      BY <1>5, <3>1 DEF AppendObj, trackVars
  <2>2. (SubTypeOK /\ HistoryTypeOK /\ PcInv)'
    BY <1>5 DEF AppendObj, subVars, filterVars, PcInv
  <2>3. QueueTypeOK'
    BY <1>5 DEF AppendObj, queueVars, QueueTypeOK
  <2> QED
    BY <2>1, <2>2, <2>3
<1>6. CASE CloseGroup(n)
  <2>1. (IngestTypeOK /\ TrackTypeOK)'
    BY <1>6 DEF CloseGroup, Filling, trackVars
  <2>2. (SubTypeOK /\ HistoryTypeOK /\ PcInv)'
    BY <1>6 DEF CloseGroup, subVars, filterVars, PcInv
  <2>3. QueueTypeOK'
    BY <1>6 DEF CloseGroup, queueVars, QueueTypeOK
  <2> QED
    BY <2>1, <2>2, <2>3
<1> QED
  BY <1>1, <1>2, <1>3, <1>4, <1>5, <1>6 DEF Ingest, Fanout

\* Every step keeps the types: the subscriber side.
LEMMA SubscriberType == ASSUME TypeInv, NEW s \in Sub, Subscriber(s) PROVE TypeInv'
<1> USE TrackAssumption DEF TypeInv, TypeOK, IngestTypeOK, TrackTypeOK, SubTypeOK, HistoryTypeOK
<1>1. CASE AddSub(s)
  <2>1. (IngestTypeOK /\ TrackTypeOK)'
    BY <1>1 DEF AddSub, ingestVars, trackVars
  <2>2. SubTypeOK'
    BY <1>1 DEF AddSub, subVars, filterVars
  <2>3. QueueTypeOK'
    BY <1>1 DEF AddSub, queueVars, QueueTypeOK
  <2>4. (HistoryTypeOK /\ PcInv)'
    BY <1>1 DEF AddSub, subVars, PcInv, Writing, Update
  <2> QED
    BY <2>1, <2>2, <2>3, <2>4
<1>2. CASE ReadLive(s)
  <2>1. (IngestTypeOK /\ TrackTypeOK)'
    BY <1>2 DEF ReadLive, ingestVars, trackVars
  <2>2. SubTypeOK'
    BY <1>2 DEF ReadLive, subVars, filterVars
  <2>3. QueueTypeOK'
    BY <1>2 DEF ReadLive, queueVars, QueueTypeOK
  <2>4. (HistoryTypeOK /\ PcInv)'
    BY <1>2 DEF ReadLive, subVars, PcInv, Writing, Update
  <2> QED
    BY <2>1, <2>2, <2>3, <2>4
<1>3. CASE SubscribeOK(s)
  <2>1. (IngestTypeOK /\ TrackTypeOK)'
    BY <1>3 DEF SubscribeOK, ingestVars, trackVars
  <2>2. SubTypeOK'
    BY <1>3 DEF SubscribeOK, subVars, filterVars
  <2>3. QueueTypeOK'
    BY <1>3 DEF SubscribeOK, queueVars, QueueTypeOK
  <2>4. (HistoryTypeOK /\ PcInv)'
    BY <1>3 DEF SubscribeOK, subVars, PcInv, Writing, Update
  <2> QED
    BY <2>1, <2>2, <2>3, <2>4
<1>4. CASE SubscribeFails(s)
  <2>1. (IngestTypeOK /\ TrackTypeOK)'
    BY <1>4 DEF SubscribeFails, ingestVars, trackVars
  <2>2. SubTypeOK'
    BY <1>4 DEF SubscribeFails, subVars, filterVars
  <2>3. QueueTypeOK'
    BY <1>4 DEF SubscribeFails, queueVars, QueueTypeOK
  <2>4. (HistoryTypeOK /\ PcInv)'
    BY <1>4 DEF SubscribeFails, subVars, PcInv, Writing, Update
  <2> QED
    BY <2>1, <2>2, <2>3, <2>4
<1>5. CASE FinishGroup(s)
  <2>1. (IngestTypeOK /\ TrackTypeOK)'
    BY <1>5 DEF FinishGroup, ingestVars, trackVars
  <2>2. SubTypeOK'
    BY <1>5 DEF FinishGroup, subVars, filterVars
  <2>3. QueueTypeOK'
    BY <1>5 DEF FinishGroup, queueVars, QueueTypeOK
  <2>4. (HistoryTypeOK /\ PcInv)'
    <3>1. sent \in [Sub -> Seq(Entry)] /\ sent[s] # <<>>
      BY <1>5 DEF FinishGroup, PcInv, Entry
    <3>2. [Writing(s) EXCEPT !.fin = TRUE] \in Entry
      BY <3>1, WritingType DEF Entry
    <3>3. /\ sent' \in [Sub -> Seq(Entry)]
          /\ \A q \in Sub : Len(sent'[q]) = Len(sent[q])
      BY <1>5, <3>1, <3>2, UpdateEffect DEF FinishGroup
    <3>4. HistoryTypeOK'
      BY <1>5, <3>3 DEF FinishGroup, Entry
    <3>5. \A q \in Sub : sent[q] # <<>> => sent'[q] # <<>>
      BY <3>1, <3>3
    <3>6. PcInv'
      BY <1>5, <3>5 DEF FinishGroup, PcInv
    <3> QED
      BY <3>4, <3>6
  <2> QED
    BY <2>1, <2>2, <2>3, <2>4
<1>6. CASE Leave(s)
  <2>1. (IngestTypeOK /\ TrackTypeOK)'
    BY <1>6 DEF Leave, ingestVars, trackVars
  <2>2. SubTypeOK'
    BY <1>6 DEF Leave, subVars, filterVars
  <2>3. QueueTypeOK'
    BY <1>6 DEF Leave, queueVars, QueueTypeOK
  <2>4. (HistoryTypeOK /\ PcInv)'
    BY <1>6 DEF Leave, subVars, PcInv, Writing, Update
  <2> QED
    BY <2>1, <2>2, <2>3, <2>4
<1>7. CASE LoseConn(s)
  <2>1. (IngestTypeOK /\ TrackTypeOK)'
    BY <1>7 DEF LoseConn, ingestVars, trackVars
  <2>2. SubTypeOK'
    BY <1>7 DEF LoseConn, subVars, filterVars
  <2>3. QueueTypeOK'
    BY <1>7 DEF LoseConn, queueVars, QueueTypeOK
  <2>4. (HistoryTypeOK /\ PcInv)'
    BY <1>7 DEF LoseConn, subVars, PcInv, Writing, Update
  <2> QED
    BY <2>1, <2>2, <2>3, <2>4
<1>8. CASE OpenStream(s)
  <2>1. (IngestTypeOK /\ TrackTypeOK)'
    BY <1>8 DEF OpenStream, ingestVars, trackVars
  <2>2. SubTypeOK'
    BY <1>8 DEF OpenStream, subVars, filterVars
  <2>3. QueueTypeOK'
    BY <1>8 DEF OpenStream, queueVars, QueueTypeOK
  <2>4. (HistoryTypeOK /\ PcInv)'
    <3> DEFINE e == [grp |-> cur[s], n |-> 0, fin |-> FALSE]
    <3>0. cur[s] \in Stream /\ 0 \in 0..MaxObj
      BY <1>8, Bounds DEF OpenStream, PcInv
    <3>1. e \in Entry /\ sent \in [Sub -> Seq(Entry)]
      BY <3>0 DEF Entry
    <3>2. sent' = [sent EXCEPT ![s] = Append(@, e)]
      BY <1>8 DEF OpenStream
    <3>3. sent' \in [Sub -> Seq(Entry)] /\ sent'[s] # <<>>
          /\ \A q \in Sub : q # s => sent'[q] = sent[q]
      <4>1. Append(sent[s], e) \in Seq(Entry) /\ Append(sent[s], e) # <<>>
        BY <3>1, AppendNonEmpty
      <4> QED
        BY <3>1, <3>2, <4>1
    <3>4. HistoryTypeOK'
      BY <1>8, <3>3 DEF OpenStream, Entry
    <3>5. PcInv'
      BY <1>8, <3>3 DEF OpenStream, PcInv
    <3> QED
      BY <3>4, <3>5
  <2> QED
    BY <2>1, <2>2, <2>3, <2>4
<1>9. CASE WriteObject(s)
  <2>1. (IngestTypeOK /\ TrackTypeOK)'
    BY <1>9 DEF WriteObject, ingestVars, trackVars
  <2>2. SubTypeOK'
    BY <1>9 DEF WriteObject, subVars, filterVars
  <2>3. QueueTypeOK'
    BY <1>9 DEF WriteObject, queueVars, QueueTypeOK
  <2>4. (HistoryTypeOK /\ PcInv)'
    <3>1. sent \in [Sub -> Seq(Entry)] /\ sent[s] # <<>> /\ cur[s] \in Stream
      BY <1>9 DEF WriteObject, PcInv, Entry
    <3>2. Writing(s) \in Entry /\ Writing(s).n + 1 \in 0..MaxObj
      <4>1. Writing(s) \in Entry
        BY <3>1, WritingType
      <4>2. Writing(s).n \in 0..MaxObj
        BY <4>1 DEF Entry
      <4>3. Writing(s).n < objs[cur[s]] /\ objs[cur[s]] \in 0..MaxObj
        BY <1>9, <3>1 DEF WriteObject
      <4>4. \A x, y \in 0..MaxObj : x < y => x + 1 \in 0..MaxObj
        BY Bounds
      <4> QED
        BY <4>1, <4>2, <4>3, <4>4
    <3>3. [Writing(s) EXCEPT !.n = @ + 1] \in Entry
      BY <3>2 DEF Entry
    <3>4. /\ sent' \in [Sub -> Seq(Entry)]
          /\ \A q \in Sub : Len(sent'[q]) = Len(sent[q])
      BY <1>9, <3>1, <3>3, UpdateEffect DEF WriteObject
    <3>5. HistoryTypeOK'
      BY <1>9, <3>4 DEF WriteObject, Entry
    <3>6. PcInv'
      BY <1>9, <3>1, <3>4 DEF WriteObject, PcInv, subVars
    <3> QED
      BY <3>5, <3>6
  <2> QED
    BY <2>1, <2>2, <2>3, <2>4
<1>10. CASE JoinSend(s)
  <2>1. (IngestTypeOK /\ TrackTypeOK)'
    BY <1>10 DEF JoinSend, ingestVars, trackVars
  <2>2. (SubTypeOK /\ HistoryTypeOK /\ PcInv)'
    BY <1>10 DEF JoinSend, subVars, filterVars, PcInv
  <2>3. cached[s] \in Stream
    BY <1>10 DEF JoinSend, PcInv
  <2>4. QueueTypeOK'
    BY <1>10, <2>3, EnqueueType DEF JoinSend
  <2> QED
    BY <2>1, <2>2, <2>4
<1>11. CASE JoinFull(s)
  <2>1. (IngestTypeOK /\ TrackTypeOK)'
    BY <1>11 DEF JoinFull, ingestVars, trackVars
  <2>2. (SubTypeOK /\ HistoryTypeOK /\ PcInv)'
    BY <1>11 DEF JoinFull, subVars, filterVars, PcInv
  <2>3. cached[s] \in Stream
    BY <1>11 DEF JoinFull, PcInv
  <2>4. QueueTypeOK'
    BY <1>11, <2>3, EnqueueType DEF JoinFull
  <2> QED
    BY <2>1, <2>2, <2>4
<1>12. CASE JoinDrop(s)
  <2>1. (IngestTypeOK /\ TrackTypeOK)'
    BY <1>12 DEF JoinDrop, ingestVars, trackVars
  <2>2. (SubTypeOK /\ HistoryTypeOK /\ PcInv)'
    BY <1>12 DEF JoinDrop, subVars, filterVars, PcInv
  <2>3. cached[s] \in Stream
    BY <1>12 DEF JoinDrop, PcInv
  <2>4. QueueTypeOK'
    BY <1>12, <2>3, EnqueueType DEF JoinDrop
  <2> QED
    BY <2>1, <2>2, <2>4
<1>13. CASE Take(s)
  <2> DEFINE g == Head(queue[s])
  <2>1. queue[s] # <<>> /\ queue[s] \in Seq(Stream)
    BY <1>13 DEF Take, QueueTypeOK
  <2>2. g \in Stream /\ Tail(queue[s]) \in Seq(Stream) /\ Len(Tail(queue[s])) <= Len(queue[s])
    <3>1. g \in Stream /\ Tail(queue[s]) \in Seq(Stream) /\ Len(Tail(queue[s])) = Len(queue[s]) - 1
      BY <2>1, HeadTailProperties
    <3> QED
      BY <2>1, <3>1, LenProperties
  <2>3. SeqOf(g) \in 0..MaxSeq /\ genOf[g] \in Nat
    BY <2>2, SeqType
  <2>4. (IngestTypeOK /\ TrackTypeOK)'
    BY <1>13 DEF Take, ingestVars, trackVars
  <2>5. QueueTypeOK'
    <3>1. queue' \in [Sub -> Seq(Stream)]
      BY <1>13, <2>2 DEF Take, QueueTypeOK
    <3>2. \A r \in Sub : Len(queue'[r]) <= QueueCap
      BY <1>13, <2>1, <2>2 DEF Take, QueueTypeOK
    <3> QED
      BY <1>13, <3>1, <3>2 DEF Take, QueueTypeOK
  <2>6. CASE Passed(s, g)
    <3>1. UNCHANGED <<pc, started, last, lastGen, cur>>
      BY <1>13, <2>6 DEF Take, filterVars
    <3>2. SubTypeOK'
      BY <1>13, <3>1 DEF Take
    <3>3. HistoryTypeOK'
      BY <1>13, <2>2, <3>1 DEF Take
    <3>4. PcInv'
      BY <1>13, <3>1 DEF Take, PcInv
    <3> QED
      BY <2>4, <2>5, <3>2, <3>3, <3>4
  <2>7. CASE ~Passed(s, g)
    <3>1. /\ started' = [started EXCEPT ![s] = TRUE]
          /\ last' = [last EXCEPT ![s] = SeqOf(g)]
          /\ lastGen' = [lastGen EXCEPT ![s] = genOf[g]]
          /\ cur' = [cur EXCEPT ![s] = g]
          /\ pc' = [pc EXCEPT ![s] = "open"]
      BY <1>13, <2>7 DEF Take
    <3>2. SubTypeOK'
      BY <1>13, <2>2, <2>3, <3>1 DEF Take
    <3>3. HistoryTypeOK'
      BY <1>13, <3>1 DEF Take
    <3>4. PcInv'
      BY <1>13, <2>2, <3>1 DEF Take, PcInv
    <3> QED
      BY <2>4, <2>5, <3>2, <3>3, <3>4
  <2> QED
    BY <2>6, <2>7
<1> QED
  BY <1>1, <1>2, <1>3, <1>4, <1>5, <1>6, <1>7, <1>8, <1>9, <1>10, <1>11, <1>12, <1>13 DEF Subscriber, Join, Write

\* Every step keeps the types.
LEMMA NextType == TypeInv /\ [Next]_vars => TypeInv'
<1> SUFFICES ASSUME TypeInv, [Next]_vars PROVE TypeInv'
    OBVIOUS
<1>1. CASE UNCHANGED vars
  BY <1>1 DEF vars, ingestVars, trackVars, subVars, filterVars, queueVars, TypeInv, TypeOK,
     IngestTypeOK, TrackTypeOK, SubTypeOK, QueueTypeOK, HistoryTypeOK, PcInv
<1> QED
  BY <1>1, IngestType, SubscriberType DEF Next

\* Every variable keeps its type, and no queue exceeds its capacity (relay.go:176).
THEOREM TypeCorrect == Safety => []TypeOK
<1>1. TypeInv => TypeOK
  BY DEF TypeInv
<1> QED
  BY <1>1, InitType, NextType, PTL DEF Safety

-----------------------------------------------------------------------------
(* The filter is never ahead.  Everything a subscriber can get hold of has   *)
(* been published, and nothing published is ahead of the live group.         *)
LiveInv ==
    /\ live # NoGroup => Published(live)
    /\ \A n \in Stream : Published(n) =>
          /\ live # NoGroup
          /\ genOf[n] <= gen
          /\ genOf[n] = gen => SeqOf(n) <= SeqOf(live)
FanInv == \A n \in Stream : fan[n] # {} \/ at[n] # Nobody => Published(n)
HeldInv == \A s \in Sub :
    /\ cached[s] # NoGroup => Published(cached[s])
    /\ \A i \in 1..Len(queue[s]) : Published(queue[s][i])

FilterInv == LiveInv /\ FanInv /\ HeldInv /\ FilterNeverAhead

\* Nothing is published and no filter has started.
LEMMA InitFilter == Init => FilterInv
<1> SUFFICES ASSUME Init PROVE FilterInv
    OBVIOUS
<1>1. LiveInv /\ FanInv /\ FilterNeverAhead
  BY DEF Init, LiveInv, FanInv, FilterNeverAhead, Published
<1>2. HeldInv
  BY DEF Init, HeldInv
<1> QED
  BY <1>1, <1>2 DEF FilterInv

(* A step that publishes nothing and moves no group towards a subscriber.    *)
LEMMA FilterFrame ==
  ASSUME FilterInv,
         UNCHANGED <<opened, stage, genOf, gen, live, cached, queue, started, last, lastGen>>,
         \A n \in Stream : fan'[n] # {} \/ at'[n] # Nobody => Published(n)
  PROVE  FilterInv'
BY DEF FilterInv, LiveInv, FanInv, HeldInv, FilterNeverAhead, Published, SeqOf

(* The queue operations bring in nothing but the group enqueued.             *)
LEMMA QueueMembers ==
  ASSUME QueueTypeOK, NEW c \in Stream \cup Sub, NEW s \in Sub, NEW g \in Stream,
         Enqueue(c, s, g) \/ FindFull(c, s) \/ DropOldest(c, s),
         NEW r \in Sub, NEW i \in 1..Len(queue'[r])
  PROVE  queue'[r][i] = g \/ \E j \in 1..Len(queue[r]) : queue'[r][i] = queue[r][j]
<1> USE DEF QueueTypeOK
<1>1. CASE queue'[r] = queue[r]
  BY <1>1
<1>2. CASE Enqueue(c, s, g) /\ r = s
  <2>1. queue'[s] = Append(queue[s], g)
    BY <1>2 DEF Enqueue
  <2> QED
    BY <1>2, <2>1, AppendProperties
<1>3. CASE DropOldest(c, s) /\ r = s /\ queue[s] # <<>>
  <2>1. queue'[s] = Tail(queue[s])
    BY <1>3 DEF DropOldest
  <2>2. queue'[s][i] = queue[s][i + 1] /\ i + 1 \in 1..Len(queue[s])
    BY <1>3, <2>1, HeadTailProperties
  <2> QED
    BY <1>3, <2>2
<1> QED
  BY <1>1, <1>2, <1>3 DEF Enqueue, FindFull, DropOldest

(* So they keep the invariant when that group is published.                  *)
LEMMA FilterEnqueue ==
  ASSUME FilterInv, QueueTypeOK,
         NEW c \in Stream \cup Sub, NEW s \in Sub, NEW g \in Stream, Published(g),
         Enqueue(c, s, g) \/ FindFull(c, s) \/ DropOldest(c, s),
         UNCHANGED <<opened, stage, genOf, gen, live, cached, started, last, lastGen>>,
         \A n \in Stream : fan'[n] # {} \/ at'[n] # Nobody => Published(n)
  PROVE  FilterInv'
<1>1. \A r \in Sub : \A i \in 1..Len(queue'[r]) : Published(queue'[r][i])
  BY QueueMembers DEF FilterInv, HeldInv
<1>2. HeldInv'
  BY <1>1 DEF FilterInv, HeldInv, Published
<1> QED
  BY <1>2 DEF FilterInv, LiveInv, FanInv, FilterNeverAhead, Published, SeqOf

(* The step the invariant is about: the new live group is at or ahead of     *)
(* everything published before, because a smaller number moves the           *)
(* generation.                                                               *)
LEMMA FilterPublish ==
  ASSUME TypeInv, FilterInv, NEW n \in Stream, PublishGroup(n)
  PROVE  FilterInv'
<1> USE DEF TypeInv, TypeOK, IngestTypeOK, TrackTypeOK, SubTypeOK
<1>1. \A m \in Stream : SeqOf(m) \in Nat /\ SeqOf(m)' = SeqOf(m)
  BY SeqType DEF PublishGroup, SeqOf
<1>2. /\ gen' = NewGen(n) /\ genOf' = [genOf EXCEPT ![n] = NewGen(n)] /\ live' = n
      /\ stage' = [stage EXCEPT ![n] = "live"]
  BY DEF PublishGroup
<1>3. \/ NewGen(n) = gen + 1
      \/ NewGen(n) = gen /\ (live = NoGroup \/ SeqOf(live) <= SeqOf(n))
  BY <1>1 DEF NewGen
<1>4. \A m \in Stream : Published(m)' <=> Published(m) \/ m = n
  BY <1>2 DEF Published
<1>5. LiveInv'
  <2>1. ASSUME NEW m \in Stream, Published(m)', m # n
        PROVE  genOf'[m] <= gen' /\ (genOf'[m] = gen' => SeqOf(m) <= SeqOf(n))
    <3>1. /\ live # NoGroup /\ genOf[m] <= gen /\ genOf'[m] = genOf[m]
          /\ genOf[m] = gen => SeqOf(m) <= SeqOf(live)
      BY <1>2, <1>4, <2>1 DEF FilterInv, LiveInv
    <3> QED
      BY <1>1, <1>2, <1>3, <3>1
  <2>2. genOf'[n] = gen' /\ Published(n)' /\ live' = n /\ n # NoGroup
    BY <1>2, <1>4 DEF Stream, NoGroup
  <2> QED
    <3>1. SeqOf(live)' = SeqOf(n)
      BY <1>1, <2>2
    <3>2. ASSUME NEW m \in Stream, Published(m)'
          PROVE  /\ live' # NoGroup /\ genOf'[m] <= gen'
                 /\ genOf'[m] = gen' => SeqOf(m)' <= SeqOf(live)'
      <4>1. CASE m = n
        BY <1>1, <1>2, <1>3, <2>2, <3>1, <4>1
      <4>2. CASE m # n
        BY <1>1, <2>1, <2>2, <3>1, <3>2, <4>2
      <4> QED
        BY <4>1, <4>2
    <3> QED
      BY <2>2, <3>2 DEF LiveInv
<1>6. FanInv'
  BY <1>4 DEF PublishGroup, FilterInv, FanInv
<1>7. HeldInv'
  <2>1. \A m : Published(m) => Published(m)'
    BY <1>2 DEF Published
  <2> QED
    BY <2>1 DEF PublishGroup, subVars, queueVars, FilterInv, HeldInv
<1>8. FilterNeverAhead'
  <2> SUFFICES ASSUME NEW s \in Sub, started[s]
               PROVE  /\ lastGen[s] <= gen'
                      /\ lastGen[s] = gen' => live' # NoGroup /\ last[s] <= SeqOf(n)
    BY <1>1, <1>2 DEF PublishGroup, subVars, filterVars, FilterNeverAhead, SeqOf
  <2>1. /\ lastGen[s] <= gen
        /\ lastGen[s] = gen => live # NoGroup /\ last[s] <= SeqOf(live)
    BY DEF FilterInv, FilterNeverAhead
  <2>2. n # NoGroup /\ last[s] \in Nat /\ lastGen[s] \in Nat /\ gen \in Nat
    BY Bounds DEF Stream, NoGroup
  <2> QED
    BY <1>1, <1>2, <1>3, <2>1, <2>2
<1> QED
  BY <1>5, <1>6, <1>7, <1>8 DEF FilterInv

(* The filter moves to a group of the queue, which is published.             *)
LEMMA FilterTake ==
  ASSUME TypeInv, FilterInv, NEW s \in Sub, Take(s)
  PROVE  FilterInv'
<1> USE DEF TypeInv, TypeOK, IngestTypeOK, TrackTypeOK, SubTypeOK, QueueTypeOK
<1> DEFINE g == Head(queue[s])
<1>1. queue[s] \in Seq(Stream) /\ queue[s] # <<>> /\ queue' = [queue EXCEPT ![s] = Tail(@)]
  BY DEF Take
<1>2. g = queue[s][1] /\ 1 \in 1..Len(queue[s]) /\ g \in Stream
  BY <1>1, HeadTailProperties
<1>3. Published(g)
  BY <1>2 DEF FilterInv, HeldInv
<1>4. \A i \in 1..Len(queue'[s]) : queue'[s][i] = queue[s][i + 1] /\ i + 1 \in 1..Len(queue[s])
  BY <1>1, HeadTailProperties
<1>5. UNCHANGED <<opened, stage, genOf, gen, live, fan, at, cached>>
  BY DEF Take, ingestVars, trackVars
<1>6. ASSUME NEW r \in Sub, NEW i \in 1..Len(queue'[r]) PROVE Published(queue'[r][i])
  <2>1. CASE r = s
    BY <1>4, <2>1 DEF FilterInv, HeldInv
  <2>2. CASE r # s
    <3>1. queue'[r] = queue[r]
      BY <1>1, <2>2
    <3> QED
      BY <3>1 DEF FilterInv, HeldInv
  <2> QED
    BY <2>1, <2>2
<1>7. (LiveInv /\ FanInv /\ HeldInv)'
  BY <1>5, <1>6 DEF FilterInv, LiveInv, FanInv, HeldInv, Published, SeqOf
<1>8. FilterNeverAhead'
  <2>1. CASE Passed(s, g)
    BY <1>5, <2>1 DEF Take, filterVars, FilterInv, FilterNeverAhead, SeqOf
  <2>2. CASE ~Passed(s, g)
    <3>1. /\ started' = [started EXCEPT ![s] = TRUE]
          /\ last' = [last EXCEPT ![s] = SeqOf(g)]
          /\ lastGen' = [lastGen EXCEPT ![s] = genOf[g]]
      BY <2>2 DEF Take
    <3>2. /\ live # NoGroup /\ genOf[g] <= gen
          /\ genOf[g] = gen => SeqOf(g) <= SeqOf(live)
      BY <1>2, <1>3 DEF FilterInv, LiveInv
    <3> QED
      BY <1>5, <3>1, <3>2 DEF FilterInv, FilterNeverAhead, SeqOf
  <2> QED
    BY <2>1, <2>2
<1> QED
  BY <1>7, <1>8 DEF FilterInv

\* Every step keeps the invariant.
LEMMA NextFilter == TypeInv /\ FilterInv /\ [Next]_vars => FilterInv'
<1> SUFFICES ASSUME TypeInv, FilterInv, [Next]_vars PROVE FilterInv'
    OBVIOUS
<1> USE DEF TypeInv, TypeOK, IngestTypeOK
<1>0. \A n \in Stream : fan[n] # {} \/ at[n] # Nobody => Published(n)
  BY DEF FilterInv, FanInv
<1>1. ASSUME NEW n \in Stream, PublishGroup(n) PROVE FilterInv'
  BY <1>1, FilterPublish
<1>2. ASSUME NEW n \in Stream, NEW s \in Sub,
             FanoutSend(n, s) \/ FanoutFull(n, s) \/ FanoutDrop(n, s)
      PROVE  FilterInv'
  <2>1. Published(n) /\ (Enqueue(n, s, n) \/ FindFull(n, s) \/ DropOldest(n, s))
    BY <1>0, <1>2, TrackAssumption DEF FanoutSend, FanoutFull, FanoutDrop, Target
  <2>2. \A m \in Stream : fan'[m] # {} \/ at'[m] # Nobody => Published(m)
    BY <1>0, <1>2, <2>1 DEF FanoutSend, FanoutFull, FanoutDrop, ingestVars
  <2>3. UNCHANGED <<opened, stage, genOf, gen, live, cached, started, last, lastGen>>
    BY <1>2 DEF FanoutSend, FanoutFull, FanoutDrop, ingestVars, trackVars, subVars, filterVars
  <2> QED
    BY <2>1, <2>2, <2>3, FilterEnqueue
<1>3. ASSUME NEW n \in Stream, AppendObj(n) PROVE FilterInv'
  BY <1>0, <1>3, FilterFrame DEF AppendObj, trackVars, subVars, filterVars, queueVars
<1>4. ASSUME NEW n \in Stream, CloseGroup(n) PROVE FilterInv'
  <2>1. \A m \in Stream \cup {NoGroup} : Published(m) => Published(m)'
    BY <1>4, NoGroupIsNoStream DEF CloseGroup, Filling, Published
  <2>2. \A m \in Stream : Published(m)' => Published(m)
    BY <1>4 DEF CloseGroup, Filling, Published
  <2>3. UNCHANGED <<opened, genOf, gen, live, fan, at, cached, queue, started, last, lastGen>>
    BY <1>4 DEF CloseGroup, trackVars, subVars, filterVars, queueVars
  <2>4. (LiveInv /\ FanInv)'
    BY <2>1, <2>2, <2>3 DEF FilterInv, LiveInv, FanInv, TrackTypeOK, SeqOf
  <2>5. HeldInv'
    <3>1. \A s \in Sub : \A i \in 1..Len(queue[s]) : queue[s][i] \in Stream
      BY ElementOfSeq DEF QueueTypeOK
    <3> QED
      BY <2>1, <2>3, <3>1 DEF FilterInv, HeldInv, SubTypeOK
  <2>6. FilterNeverAhead'
    BY <2>3 DEF FilterInv, FilterNeverAhead, SeqOf
  <2> QED
    BY <2>4, <2>5, <2>6 DEF FilterInv
<1>5. ASSUME NEW s \in Sub,
             \/ AddSub(s) \/ SubscribeOK(s) \/ SubscribeFails(s) \/ OpenStream(s)
             \/ WriteObject(s) \/ FinishGroup(s) \/ Leave(s) \/ LoseConn(s)
      PROVE  FilterInv'
  <2>1. UNCHANGED <<opened, stage, genOf, gen, live, fan, at, cached, queue, started, last, lastGen>>
    BY <1>5 DEF AddSub, SubscribeOK, SubscribeFails, OpenStream, WriteObject, FinishGroup,
       Leave, LoseConn, ingestVars, trackVars, subVars, filterVars, queueVars
  <2> QED
    BY <1>0, <2>1, FilterFrame
<1>6. ASSUME NEW s \in Sub, ReadLive(s) PROVE FilterInv'
  <2>1. /\ cached' = [cached EXCEPT ![s] = live]
        /\ UNCHANGED <<opened, stage, genOf, gen, live, fan, at, queue, started, last, lastGen>>
    BY <1>6 DEF ReadLive, ingestVars, trackVars, filterVars, queueVars
  <2>2. HeldInv'
    BY <2>1 DEF FilterInv, HeldInv, LiveInv, SubTypeOK, Published
  <2> QED
    BY <2>1, <2>2 DEF FilterInv, LiveInv, FanInv, FilterNeverAhead, Published, SeqOf
<1>7. ASSUME NEW s \in Sub, JoinSend(s) \/ JoinFull(s) \/ JoinDrop(s) PROVE FilterInv'
  <2>1. cached[s] \in Stream /\ Published(cached[s])
    BY <1>7, NoGroupIsNoStream DEF JoinSend, JoinFull, JoinDrop, PcInv, FilterInv, HeldInv
  <2>2. Enqueue(s, s, cached[s]) \/ FindFull(s, s) \/ DropOldest(s, s)
    BY <1>7 DEF JoinSend, JoinFull, JoinDrop
  <2>3. UNCHANGED <<opened, stage, genOf, gen, live, fan, at, cached, started, last, lastGen>>
    BY <1>7 DEF JoinSend, JoinFull, JoinDrop, ingestVars, trackVars, subVars, filterVars
  <2> QED
    BY <1>0, <2>1, <2>2, <2>3, FilterEnqueue
<1>8. ASSUME NEW s \in Sub, Take(s) PROVE FilterInv'
  BY <1>8, FilterTake
<1>9. CASE UNCHANGED vars
  BY <1>0, <1>9, FilterFrame DEF vars, ingestVars, trackVars, subVars, filterVars, queueVars
<1> QED
  BY <1>1, <1>2, <1>3, <1>4, <1>5, <1>6, <1>7, <1>8, <1>9
     DEF Next, Ingest, Fanout, Subscriber, Join, Write

\* No subscriber's filter is ever ahead of the live group, so that a publisher
\* restart blackholes nobody (relay.go:146-157, 207-213): for any number of
\* subscriptions, any queue capacity and any feed.
THEOREM FilterSound == Safety => []FilterNeverAhead
<1>1. Init => TypeInv /\ FilterInv
  BY InitType, InitFilter
<1>2. TypeInv /\ FilterInv /\ [Next]_vars => (TypeInv /\ FilterInv)'
  BY NextType, NextFilter
<1>3. FilterInv => FilterNeverAhead
  BY DEF FilterInv
<1> QED
  BY <1>1, <1>2, <1>3, PTL DEF Safety

-----------------------------------------------------------------------------
(* A stream that ends cleanly is whole.  The stream a writer is in carries   *)
(* the group it took, is not ended, and is not ahead of the group's objects. *)
WriterInv == \A s \in Sub : pc[s] = "write" =>
    Writing(s).grp = cur[s] /\ ~Writing(s).fin /\ Writing(s).n <= objs[cur[s]]

FinInv == WriterInv /\ FinIsWhole

\* The type of the streams, by name.
LEMMA SentType ==
  ASSUME TypeInv
  PROVE  /\ sent \in [Sub -> Seq(Entry)] /\ objs \in [Stream -> 0..MaxObj]
         /\ \A s \in Sub : Len(sent[s]) \in Nat
         /\ \A s \in Sub : \A i \in 1..Len(sent[s]) : sent[s][i] \in Entry
         /\ \A s \in Sub : pc[s] = "write" => sent[s] # <<>> /\ cur[s] \in Stream
                                              /\ Len(sent[s]) \in 1..Len(sent[s])
<1>1. sent \in [Sub -> Seq(Entry)] /\ objs \in [Stream -> 0..MaxObj]
  BY DEF TypeInv, TypeOK, HistoryTypeOK, IngestTypeOK, Entry
<1>2. \A s \in Sub : Len(sent[s]) \in Nat
  BY <1>1, LenProperties
<1>3. \A s \in Sub : \A i \in 1..Len(sent[s]) : sent[s][i] \in Entry
  BY <1>1, ElementOfSeq
<1>4. \A s \in Sub : pc[s] = "write" => sent[s] # <<>> /\ cur[s] \in Stream
  BY DEF TypeInv, PcInv
<1>5. \A s \in Sub : sent[s] # <<>> => Len(sent[s]) \in 1..Len(sent[s])
  BY <1>1, EmptySeq
<1> QED
  BY <1>1, <1>2, <1>3, <1>4, <1>5

(* Steps that neither write nor append to a group.                           *)
LEMMA FinFrame ==
  ASSUME TypeInv, FinInv, UNCHANGED <<sent, objs>>,
         \A s \in Sub : pc'[s] = "write" => pc[s] = "write" /\ cur'[s] = cur[s],
         \A s \in Sub : pc[s] \in {"write", "gone"} => pc'[s] \in {"write", "gone"},
         \A n \in Stream : stage[n] = "closed" => stage'[n] = "closed"
  PROVE  FinInv'
<1>1. WriterInv'
  BY DEF FinInv, WriterInv, Writing
<1>2. FinIsWhole'
  <2> SUFFICES ASSUME NEW s \in Sub, NEW i \in 1..Len(sent[s])
               PROVE  IF sent[s][i].fin
                      THEN stage'[sent[s][i].grp] = "closed" /\ sent[s][i].n = objs[sent[s][i].grp]
                      ELSE i = Len(sent[s]) /\ pc'[s] \in {"write", "gone"}
    BY DEF FinIsWhole
  <2>1. sent[s][i].grp \in Stream
    BY SentType DEF Entry
  <2> QED
    BY <2>1 DEF FinInv, FinIsWhole
<1> QED
  BY <1>1, <1>2 DEF FinInv

\* An object is appended: only to a group that is not closed yet.
LEMMA FinAppend == ASSUME TypeInv, FinInv, NEW n \in Stream, AppendObj(n) PROVE FinInv'
<1>1. /\ UNCHANGED <<sent, stage, pc, cur>> /\ stage[n] = "live"
      /\ objs' = [objs EXCEPT ![n] = objs[n] + 1] /\ objs \in [Stream -> 0..MaxObj]
  BY SentType DEF AppendObj, Filling, subVars
<1>2. \A m \in Stream : objs'[m] >= objs[m] /\ (stage[m] = "closed" => objs'[m] = objs[m])
  BY <1>1, Bounds
<1>3. WriterInv'
  <2> SUFFICES ASSUME NEW s \in Sub, pc[s] = "write"
               PROVE  Writing(s).grp = cur[s] /\ ~Writing(s).fin /\ Writing(s).n <= objs'[cur[s]]
    BY <1>1 DEF WriterInv, Writing
  <2>1. cur[s] \in Stream /\ Writing(s) \in Entry
    BY SentType DEF Writing
  <2>2. Writing(s).grp = cur[s] /\ ~Writing(s).fin /\ Writing(s).n <= objs[cur[s]]
    BY DEF FinInv, WriterInv
  <2>3. Writing(s).n \in Nat /\ objs[cur[s]] \in Nat /\ objs'[cur[s]] \in Nat /\ objs'[cur[s]] >= objs[cur[s]]
    BY <1>1, <1>2, <2>1, Bounds DEF Entry
  <2> QED
    BY <2>2, <2>3
<1>4. FinIsWhole'
  <2> SUFFICES ASSUME NEW s \in Sub, NEW i \in 1..Len(sent[s])
               PROVE  IF sent[s][i].fin
                      THEN stage[sent[s][i].grp] = "closed" /\ sent[s][i].n = objs'[sent[s][i].grp]
                      ELSE i = Len(sent[s]) /\ pc[s] \in {"write", "gone"}
    BY <1>1 DEF FinIsWhole
  <2>1. sent[s][i].grp \in Stream
    BY SentType DEF Entry
  <2> QED
    BY <1>2, <2>1 DEF FinInv, FinIsWhole
<1> QED
  BY <1>3, <1>4 DEF FinInv

\* A stream is opened: all the streams before it have ended.
LEMMA FinOpen == ASSUME TypeInv, FinInv, NEW s \in Sub, OpenStream(s) PROVE FinInv'
<1> DEFINE e == [grp |-> cur[s], n |-> 0, fin |-> FALSE]
           k == Len(sent[s])
<1>1. /\ pc[s] = "open" /\ pc' = [pc EXCEPT ![s] = "write"] /\ UNCHANGED <<cur, objs, stage>>
      /\ sent' = [sent EXCEPT ![s] = Append(sent[s], e)]
  BY DEF OpenStream, ingestVars
<1>2. pc \in [Sub -> {"idle", "added", "joining", "acked", "run", "open", "write", "gone"}]
  BY DEF TypeInv, TypeOK, SubTypeOK
<1>3. cur[s] \in Stream /\ 0 \in 0..MaxObj /\ e \in Entry
  BY <1>1, Bounds DEF TypeInv, PcInv, Entry
<1>4. /\ sent'[s] = Append(sent[s], e) /\ sent[s] \in Seq(Entry) /\ k \in Nat
      /\ \A r \in Sub : r # s => sent'[r] = sent[r] /\ pc'[r] = pc[r]
      /\ pc'[s] = "write"
  BY <1>1, <1>2, SentType
<1>5. /\ Len(sent'[s]) = k + 1 /\ sent'[s][k + 1] = e
      /\ \A i \in 1..k : sent'[s][i] = sent[s][i]
  BY <1>3, <1>4, AppendProperties
<1>6. WriterInv'
  <2>1. Writing(s)' = e
    BY <1>4, <1>5 DEF Writing
  <2>2. e.n <= objs[cur[s]]
    BY <1>3, SentType, Bounds
  <2>3. \A r \in Sub : r # s => Writing(r)' = Writing(r)
    BY <1>4 DEF Writing
  <2>4. ASSUME NEW r \in Sub, pc'[r] = "write"
        PROVE  Writing(r)'.grp = cur[r] /\ ~Writing(r)'.fin /\ Writing(r)'.n <= objs[cur[r]]
    <3>1. CASE r = s
      BY <2>1, <2>2, <3>1
    <3>2. CASE r # s
      BY <1>4, <2>3, <2>4, <3>2 DEF FinInv, WriterInv
    <3> QED
      BY <3>1, <3>2
  <2> QED
    BY <1>1, <2>4 DEF WriterInv
<1>7. FinIsWhole'
  <2>1. \A i \in 1..k : /\ sent[s][i].fin
                        /\ stage[sent[s][i].grp] = "closed" /\ sent[s][i].n = objs[sent[s][i].grp]
    BY <1>1 DEF FinInv, FinIsWhole
  <2> SUFFICES ASSUME NEW r \in Sub, NEW i \in 1..Len(sent'[r])
               PROVE  IF sent'[r][i].fin
                      THEN stage[sent'[r][i].grp] = "closed" /\ sent'[r][i].n = objs[sent'[r][i].grp]
                      ELSE i = Len(sent'[r]) /\ pc'[r] \in {"write", "gone"}
    BY <1>1 DEF FinIsWhole
  <2>2. CASE r # s
    BY <1>4, <2>2 DEF FinInv, FinIsWhole
  <2>3. CASE r = s /\ i = k + 1
    BY <1>4, <1>5, <2>3
  <2>4. CASE r = s /\ i \in 1..k
    BY <1>5, <2>1, <2>4
  <2> QED
    BY <1>4, <1>5, <2>2, <2>3, <2>4
<1> QED
  BY <1>6, <1>7 DEF FinInv

(* The last stream towards s is rewritten, as a writer does.                 *)
LEMMA FinUpdate ==
  ASSUME TypeInv, FinInv, NEW s \in Sub, pc[s] = "write", NEW e \in Entry, Update(s, e),
         UNCHANGED <<stage, objs>>, e.grp = cur[s],
         \A r \in Sub : r # s => pc'[r] = pc[r] /\ cur'[r] = cur[r],
         \/ e.fin /\ stage[cur[s]] = "closed" /\ e.n = objs[cur[s]] /\ pc'[s] = "run"
         \/ ~e.fin /\ e.n <= objs[cur[s]] /\ pc'[s] = "write" /\ cur'[s] = cur[s]
  PROVE  FinInv'
<1> DEFINE k == Len(sent[s])
<1>1. /\ \A r \in Sub : Len(sent'[r]) = Len(sent[r])
      /\ \A r \in Sub : r # s => sent'[r] = sent[r]
      /\ \A i \in 1..k : sent'[s][i] = IF i = k THEN e ELSE sent[s][i]
      /\ k \in 1..k
  BY SentType, UpdateEffect
<1>2. WriterInv'
  <2>1. Writing(s)' = e /\ \A r \in Sub : r # s => Writing(r)' = Writing(r)
    BY <1>1 DEF Writing
  <2>2. ASSUME NEW r \in Sub, pc'[r] = "write"
        PROVE  Writing(r)'.grp = cur'[r] /\ ~Writing(r)'.fin /\ Writing(r)'.n <= objs[cur'[r]]
    <3>1. CASE r = s
      BY <2>1, <2>2, <3>1
    <3>2. CASE r # s
      BY <2>1, <2>2, <3>2 DEF FinInv, WriterInv
    <3> QED
      BY <3>1, <3>2
  <2> QED
    BY <2>2 DEF WriterInv
<1>3. FinIsWhole'
  <2>1. \A i \in 1..k : i # k => sent[s][i].fin
    BY DEF FinInv, FinIsWhole
  <2> SUFFICES ASSUME NEW r \in Sub, NEW i \in 1..Len(sent'[r])
               PROVE  IF sent'[r][i].fin
                      THEN stage[sent'[r][i].grp] = "closed" /\ sent'[r][i].n = objs[sent'[r][i].grp]
                      ELSE i = Len(sent'[r]) /\ pc'[r] \in {"write", "gone"}
    BY DEF FinIsWhole
  <2>2. CASE r # s
    BY <1>1, <2>2 DEF FinInv, FinIsWhole
  <2>3. CASE r = s /\ i = k
    BY <1>1, <2>3
  <2>4. CASE r = s /\ i # k
    <3>1. i \in 1..k /\ sent'[s][i] = sent[s][i] /\ sent[s][i].fin
      BY <1>1, <2>1, <2>4
    <3> QED
      BY <2>4, <3>1 DEF FinInv, FinIsWhole
  <2> QED
    BY <2>2, <2>3, <2>4
<1> QED
  BY <1>2, <1>3 DEF FinInv

\* An object more of the group is written.
LEMMA FinWrite == ASSUME TypeInv, FinInv, NEW s \in Sub, WriteObject(s) PROVE FinInv'
<1> DEFINE w == Writing(s)
           e == [w EXCEPT !.n = w.n + 1]
<1>1. /\ pc[s] = "write" /\ w.n < objs[cur[s]] /\ Update(s, e)
      /\ UNCHANGED <<stage, objs, pc, cur>>
  BY DEF WriteObject, ingestVars, subVars
<1>2. /\ sent \in [Sub -> Seq(Entry)] /\ sent[s] # <<>> /\ cur[s] \in Stream
      /\ objs[cur[s]] \in 0..MaxObj
  BY <1>1, SentType
<1>3. w \in Entry
  BY <1>2, WritingType
<1>4. w.n + 1 \in 0..MaxObj /\ w.n + 1 <= objs[cur[s]]
  <2>1. w.n \in 0..MaxObj
    BY <1>3 DEF Entry
  <2> QED
    BY <1>1, <1>2, <2>1, Bounds
<1>5. w.grp = cur[s] /\ ~w.fin
  BY <1>1 DEF FinInv, WriterInv
<1>6. e \in Entry /\ e.grp = cur[s] /\ ~e.fin /\ e.n <= objs[cur[s]]
  BY <1>3, <1>4, <1>5 DEF Entry
<1> HIDE DEF e, w
<1> QED
  BY <1>1, <1>6, FinUpdate

\* The stream ends when all of a closed group is written.
LEMMA FinFinish == ASSUME TypeInv, FinInv, NEW s \in Sub, FinishGroup(s) PROVE FinInv'
<1> DEFINE w == Writing(s)
           e == [w EXCEPT !.fin = TRUE]
<1>1. /\ pc[s] = "write" /\ w.n >= objs[cur[s]] /\ stage[cur[s]] = "closed" /\ Update(s, e)
      /\ UNCHANGED <<stage, objs>>
      /\ pc' = [pc EXCEPT ![s] = "run"] /\ cur' = [cur EXCEPT ![s] = NoGroup]
  BY DEF FinishGroup, ingestVars
<1>2. sent \in [Sub -> Seq(Entry)] /\ sent[s] # <<>> /\ cur[s] \in Stream /\ objs[cur[s]] \in 0..MaxObj
  BY <1>1, SentType
<1>3. w \in Entry
  BY <1>2, WritingType
<1>4. w.grp = cur[s] /\ w.n <= objs[cur[s]]
  BY <1>1 DEF FinInv, WriterInv
<1>5. e \in Entry /\ e.grp = cur[s] /\ e.fin /\ e.n = w.n
  BY <1>3, <1>4 DEF Entry
<1>6. w.n = objs[cur[s]]
  <2>1. w.n \in 0..MaxObj
    BY <1>3 DEF Entry
  <2> QED
    BY <1>1, <1>2, <1>4, <2>1, Bounds
<1>7. pc'[s] = "run" /\ \A r \in Sub : r # s => pc'[r] = pc[r] /\ cur'[r] = cur[r]
  BY <1>1 DEF TypeInv, TypeOK, SubTypeOK
<1> HIDE DEF e, w
<1> QED
  BY <1>1, <1>5, <1>6, <1>7, FinUpdate

\* Every step keeps the invariant.
LEMMA NextFin == TypeInv /\ FinInv /\ [Next]_vars => FinInv'
<1> SUFFICES ASSUME TypeInv, FinInv, [Next]_vars PROVE FinInv'
    OBVIOUS
<1> USE DEF TypeInv, TypeOK, SubTypeOK, IngestTypeOK
<1>1. ASSUME NEW n \in Stream,
             \/ PublishGroup(n) \/ CloseGroup(n)
             \/ \E s \in Sub : FanoutSend(n, s) \/ FanoutFull(n, s) \/ FanoutDrop(n, s)
      PROVE  FinInv'
  <2>1. UNCHANGED <<sent, objs, pc, cur>>
    BY <1>1 DEF PublishGroup, CloseGroup, FanoutSend, FanoutFull, FanoutDrop, ingestVars, subVars
  <2>2. \A m \in Stream : stage[m] = "closed" => stage'[m] = "closed"
    BY <1>1 DEF PublishGroup, CloseGroup, FanoutSend, FanoutFull, FanoutDrop, ingestVars
  <2> QED
    BY <2>1, <2>2, FinFrame
<1>2. ASSUME NEW s \in Sub,
             \/ AddSub(s) \/ ReadLive(s) \/ SubscribeOK(s) \/ SubscribeFails(s)
             \/ JoinSend(s) \/ JoinFull(s) \/ JoinDrop(s) \/ Take(s) \/ Leave(s) \/ LoseConn(s)
      PROVE  FinInv'
  <2>1. UNCHANGED <<sent, objs, stage>>
    BY <1>2 DEF AddSub, ReadLive, SubscribeOK, SubscribeFails, JoinSend, JoinFull, JoinDrop,
       Take, Leave, LoseConn, ingestVars
  <2>2. \A r \in Sub : pc'[r] = "write" => pc[r] = "write" /\ cur'[r] = cur[r]
    BY <1>2 DEF AddSub, ReadLive, SubscribeOK, SubscribeFails, JoinSend, JoinFull, JoinDrop,
       Take, Leave, LoseConn, subVars
  <2>3. \A r \in Sub : pc[r] \in {"write", "gone"} => pc'[r] \in {"write", "gone"}
    BY <1>2 DEF AddSub, ReadLive, SubscribeOK, SubscribeFails, JoinSend, JoinFull, JoinDrop,
       Take, Leave, LoseConn, subVars
  <2> QED
    BY <2>1, <2>2, <2>3, FinFrame
<1>3. CASE UNCHANGED vars
  BY <1>3, FinFrame DEF vars, ingestVars, subVars
<1> QED
  BY <1>1, <1>2, <1>3, FinAppend, FinOpen, FinWrite, FinFinish
     DEF Next, Ingest, Fanout, Subscriber, Join, Write

\* A stream closed cleanly carries the whole group, and any other is the last
\* one its subscriber gets (relay.go:229-240): for any subscriptions and feed.
THEOREM FinSound == Safety => []FinIsWhole
<1>1. Init => TypeInv /\ FinInv
  <2>1. Init => FinInv
    BY DEF Init, FinInv, WriterInv, FinIsWhole
  <2> QED
    BY <2>1, InitType
<1>2. TypeInv /\ FinInv /\ [Next]_vars => (TypeInv /\ FinInv)'
  BY NextType, NextFin
<1>3. FinInv => FinIsWhole
  BY DEF FinInv
<1> QED
  BY <1>1, <1>2, <1>3, PTL DEF Safety

-----------------------------------------------------------------------------
(* The history of publications.  Its groups are those published, each once,  *)
(* the live group is the latest, and along it generations and, within one,   *)
(* sequence numbers grow.                                                    *)
Last(q) == q[Len(q)]

PubMembers ==
    /\ \A n \in Stream : Published(n) <=> \E i \in 1..Len(pub) : pub[i] = n
    /\ \A i, j \in 1..Len(pub) : pub[i] = pub[j] => i = j
    /\ live = IF pub = <<>> THEN NoGroup ELSE Last(pub)

PubGrows ==
    /\ pub # <<>> => genOf[Last(pub)] = gen
    /\ \A i, j \in 1..Len(pub) : i <= j =>
          /\ genOf[pub[i]] <= genOf[pub[j]]
          /\ genOf[pub[i]] = genOf[pub[j]] => SeqOf(pub[i]) <= SeqOf(pub[j])

PubInv == IsFeed(opened) /\ PubMembers /\ PubGrows

\* A set of numbers has a smallest one.
LEMMA Smallest ==
  ASSUME NEW T \in SUBSET Nat, T # {}
  PROVE  \E x \in T : \A y \in T : x <= y
<1>1. \E x \in T : \A y \in T : <<y, x>> \notin OpToRel(<, Nat)
  BY NatLessThanWellFounded, WFMin
<1>2. PICK x \in T : \A y \in T : <<y, x>> \notin OpToRel(<, Nat)
  BY <1>1
<1>3. \A y \in T : ~(y < x)
  BY <1>2 DEF OpToRel
<1>4. \A y \in T : x <= y
  <2>1. T \subseteq Nat
    OBVIOUS
  <2> QED
    BY <1>3, <2>1
<1> QED
  BY <1>4

\* The feed is ordered throughout, not only from one stream to the next.
LEMMA FeedOrdered ==
  ASSUME NEW f, IsFeed(f), NEW m \in Stream, NEW n \in Stream, m < n
  PROVE  f[m].epoch < f[n].epoch \/ (f[m].epoch = f[n].epoch /\ f[m].seq < f[n].seq)
<1> DEFINE Before(k) == f[m].epoch < f[k].epoch \/ (f[m].epoch = f[k].epoch /\ f[m].seq < f[k].seq)
           Wrong == {k \in Stream : m < k /\ ~Before(k)}
<1>1. \A k \in Stream : f[k].seq \in Nat /\ f[k].epoch \in Nat
  BY Bounds DEF IsFeed
<1>2. SUFFICES ASSUME Wrong # {} PROVE FALSE
  OBVIOUS
<1>3. Wrong \in SUBSET Nat
  BY DEF Stream
<1>4. PICK k \in Wrong : \A y \in Wrong : k <= y
  BY <1>2, <1>3, Smallest
<1>5. /\ k \in Stream /\ m < k /\ ~Before(k)
      /\ k - 1 \in Stream /\ k - 1 \in 1..MaxStream - 1 /\ (k - 1) + 1 = k /\ m <= k - 1
  BY <1>4, Bounds DEF Stream
<1>6. Before(k - 1) \/ m = k - 1
  BY <1>4, <1>5 DEF Stream
<1>7. \/ f[k].epoch = f[k - 1].epoch /\ f[k].seq > f[k - 1].seq
      \/ f[k].epoch > f[k - 1].epoch
  BY <1>5 DEF IsFeed
<1> QED
  BY <1>1, <1>5, <1>6, <1>7

\* The types these proofs need.
LEMMA PubType ==
  ASSUME TypeInv
  PROVE  /\ pub \in Seq(Stream) /\ Len(pub) \in Nat /\ gen \in Nat
         /\ \A i \in 1..Len(pub) : pub[i] \in Stream
         /\ pub # <<>> => Len(pub) \in 1..Len(pub) /\ Last(pub) \in Stream
         /\ pub = <<>> => Len(pub) = 0
         /\ \A n \in Stream : SeqOf(n) \in Nat /\ EpochOf(n) \in Nat /\ genOf[n] \in Nat
<1>1. pub \in Seq(Stream) /\ gen \in Nat
  BY DEF TypeInv, TypeOK, HistoryTypeOK, TrackTypeOK
<1>2. Len(pub) \in Nat /\ \A i \in 1..Len(pub) : pub[i] \in Stream
  BY <1>1, LenProperties, ElementOfSeq
<1>3. pub # <<>> => Len(pub) \in 1..Len(pub)
  BY <1>1, EmptySeq
<1>4. \A n \in Stream : SeqOf(n) \in Nat /\ EpochOf(n) \in Nat /\ genOf[n] \in Nat
  BY Bounds DEF TypeInv, TypeOK, IngestTypeOK, SeqOf, EpochOf
<1> QED
  BY <1>1, <1>2, <1>3, <1>4 DEF Last

(* What publishing n does to the history.                                    *)
LEMMA PublishEffect ==
  ASSUME TypeInv, PubMembers, NEW n \in Stream, PublishGroup(n)
  PROVE  /\ Len(pub') = Len(pub) + 1 /\ pub'[Len(pub) + 1] = n /\ pub' # <<>>
         /\ \A i \in 1..Len(pub) : pub'[i] = pub[i] /\ pub[i] # n
         /\ \A m \in Stream : Published(m)' <=> Published(m) \/ m = n
         /\ ~Published(n)
         /\ opened' = opened /\ gen' = NewGen(n) /\ live' = n
         /\ genOf'[n] = NewGen(n) /\ \A m \in Stream : m # n => genOf'[m] = genOf[m]
<1>1. /\ stage[n] = "wire" /\ stage' = [stage EXCEPT ![n] = "live"] /\ pub' = Append(pub, n)
      /\ opened' = opened /\ gen' = NewGen(n) /\ live' = n /\ genOf' = [genOf EXCEPT ![n] = NewGen(n)]
  BY DEF PublishGroup
<1>2. /\ Len(pub') = Len(pub) + 1 /\ pub'[Len(pub) + 1] = n /\ pub' # <<>>
      /\ \A i \in 1..Len(pub) : pub'[i] = pub[i]
  BY <1>1, PubType, AppendProperties
<1>3. ~Published(n) /\ \A m \in Stream : Published(m)' <=> Published(m) \/ m = n
  BY <1>1 DEF Published, TypeInv, TypeOK, IngestTypeOK
<1>4. \A i \in 1..Len(pub) : pub[i] # n
  BY <1>3 DEF PubMembers
<1>5. genOf'[n] = NewGen(n) /\ \A m \in Stream : m # n => genOf'[m] = genOf[m]
  BY <1>1 DEF TypeInv, TypeOK, IngestTypeOK
<1> QED
  BY <1>1, <1>2, <1>3, <1>4, <1>5

\* Publishing keeps the history in order: a number that falls starts a generation.
LEMMA PubPublish == ASSUME TypeInv, PubInv, NEW n \in Stream, PublishGroup(n) PROVE PubInv'
<1> DEFINE k == Len(pub)
<1>0. PubMembers /\ PubGrows /\ IsFeed(opened)
  BY DEF PubInv
<1>1. /\ Len(pub') = k + 1 /\ pub'[k + 1] = n /\ pub' # <<>>
      /\ \A i \in 1..k : pub'[i] = pub[i] /\ pub[i] # n
      /\ \A m \in Stream : Published(m)' <=> Published(m) \/ m = n
      /\ opened' = opened /\ gen' = NewGen(n) /\ live' = n
      /\ genOf'[n] = NewGen(n) /\ \A m \in Stream : m # n => genOf'[m] = genOf[m]
  BY <1>0, PublishEffect
<1>2. k \in Nat /\ \A i \in 1..k : pub[i] \in Stream
  BY PubType
<1>3. PubMembers'
  <2>1. \A m \in Stream : Published(m)' <=> \E i \in 1..k + 1 : pub'[i] = m
    <3> SUFFICES ASSUME NEW m \in Stream
                 PROVE  Published(m)' <=> \E i \in 1..k + 1 : pub'[i] = m
      OBVIOUS
    <3>1. Published(m) <=> \E i \in 1..k : pub[i] = m
      BY <1>0 DEF PubMembers
    <3>2. k + 1 \in 1..k + 1 /\ 1..k \subseteq 1..k + 1 /\ \A i \in 1..k + 1 : i \in 1..k \/ i = k + 1
      BY <1>2
    <3> QED
      BY <1>1, <3>1, <3>2
  <2>2. \A i, j \in 1..k + 1 : pub'[i] = pub'[j] => i = j
    <3>1. \A i \in 1..k + 1 : i \in 1..k \/ i = k + 1
      BY <1>2
    <3> QED
      BY <1>0, <1>1, <3>1 DEF PubMembers
  <2> QED
    BY <1>1, <2>1, <2>2 DEF PubMembers, Last
<1>4. \A i \in 1..k : /\ genOf[pub[i]] <= gen
                      /\ genOf[pub[i]] = gen => live # NoGroup /\ SeqOf(pub[i]) <= SeqOf(live)
  <2> SUFFICES ASSUME NEW i \in 1..k
               PROVE  /\ genOf[pub[i]] <= gen
                      /\ genOf[pub[i]] = gen => live # NoGroup /\ SeqOf(pub[i]) <= SeqOf(live)
    OBVIOUS
  <2>1. pub # <<>>
    BY <1>2, PubType
  <2>2. k \in 1..k /\ i <= k /\ Last(pub) = pub[k] /\ live = pub[k] /\ genOf[pub[k]] = gen
    BY <1>0, <2>1, PubType DEF PubMembers, PubGrows, Last
  <2>3. live # NoGroup
    BY <1>2, <2>2, NoGroupIsNoStream
  <2> QED
    BY <1>0, <2>2, <2>3 DEF PubGrows
<1>5. \A i \in 1..k : /\ genOf[pub[i]] <= NewGen(n)
                      /\ genOf[pub[i]] = NewGen(n) => SeqOf(pub[i]) <= SeqOf(n)
  <2> SUFFICES ASSUME NEW i \in 1..k
               PROVE  /\ genOf[pub[i]] <= NewGen(n)
                      /\ genOf[pub[i]] = NewGen(n) => SeqOf(pub[i]) <= SeqOf(n)
    OBVIOUS
  <2>1. pub[i] \in Stream /\ genOf[pub[i]] \in Nat /\ gen \in Nat
        /\ SeqOf(pub[i]) \in Nat /\ SeqOf(n) \in Nat
    BY <1>2, PubType
  <2>2. live # NoGroup => SeqOf(live) \in Nat
    BY PubType DEF TypeInv, TypeOK, TrackTypeOK
  <2> QED
    BY <1>4, <2>1, <2>2 DEF NewGen
<1>6. PubGrows'
  <2>1. \A i \in 1..k : genOf'[pub'[i]] = genOf[pub[i]] /\ SeqOf(pub'[i]) = SeqOf(pub[i])
    BY <1>1, <1>2 DEF SeqOf
  <2>2. genOf'[pub'[k + 1]] = NewGen(n) /\ SeqOf(pub'[k + 1]) = SeqOf(n)
    BY <1>1 DEF SeqOf
  <2>3. NewGen(n) \in Nat /\ SeqOf(n) \in Nat
    BY PubType DEF NewGen
  <2>4. ASSUME NEW i \in 1..k + 1, NEW j \in 1..k + 1, i <= j
        PROVE  /\ genOf'[pub'[i]] <= genOf'[pub'[j]]
               /\ genOf'[pub'[i]] = genOf'[pub'[j]] => SeqOf(pub'[i]) <= SeqOf(pub'[j])
    <3>1. CASE j \in 1..k
      <4>1. i \in 1..k
        BY <1>2, <2>4, <3>1
      <4> QED
        BY <1>0, <2>1, <2>4, <3>1, <4>1 DEF PubGrows
    <3>2. CASE j = k + 1 /\ i \in 1..k
      BY <1>5, <2>1, <2>2, <3>2
    <3>3. CASE j = k + 1 /\ i = k + 1
      BY <2>2, <2>3, <3>3
    <3> QED
      BY <1>2, <3>1, <3>2, <3>3
  <2>5. genOf'[Last(pub')] = gen'
    BY <1>1, <2>2 DEF Last
  <2>6. \A i, j \in 1..Len(pub') : i <= j =>
          /\ genOf'[pub'[i]] <= genOf'[pub'[j]]
          /\ genOf'[pub'[i]] = genOf'[pub'[j]] => SeqOf(pub'[i]) <= SeqOf(pub'[j])
    BY <1>1, <2>4
  <2> QED
    BY <1>1, <2>5, <2>6 DEF PubGrows, SeqOf, Last
<1> QED
  BY <1>0, <1>1, <1>3, <1>6 DEF PubInv, IsFeed

(* No other step touches the history.                                        *)
LEMMA OtherSteps ==
  ASSUME TypeInv, [Next]_vars
  PROVE  \/ \E n \in Stream : PublishGroup(n)
         \/ /\ UNCHANGED <<opened, genOf, gen, live, pub>>
            /\ \A n \in Stream : Published(n)' <=> Published(n)
<1> USE DEF Published
<1>1. ASSUME NEW n \in Stream, CloseGroup(n) PROVE \A m \in Stream : Published(m)' <=> Published(m)
  BY <1>1 DEF CloseGroup, Filling, TypeInv, TypeOK, IngestTypeOK
<1>2. ASSUME NEW n \in Stream, Fanout(n) \/ AppendObj(n) \/ CloseGroup(n)
      PROVE  /\ UNCHANGED <<opened, genOf, gen, live, pub>>
             /\ \A m \in Stream : Published(m)' <=> Published(m)
  BY <1>1, <1>2 DEF Fanout, FanoutSend, FanoutFull, FanoutDrop, AppendObj, CloseGroup,
     ingestVars, trackVars
<1>3. ASSUME NEW s \in Sub, Subscriber(s)
      PROVE  UNCHANGED <<opened, genOf, gen, live, pub, stage>>
  BY <1>3 DEF Subscriber, Join, Write, AddSub, ReadLive, SubscribeOK, SubscribeFails, JoinSend,
     JoinFull, JoinDrop, Take, OpenStream, WriteObject, FinishGroup, Leave, LoseConn,
     ingestVars, trackVars
<1>4. CASE UNCHANGED vars
  BY <1>4 DEF vars, ingestVars, trackVars
<1> QED
  BY <1>2, <1>3, <1>4 DEF Next, Ingest

\* Every step keeps the history in order.
LEMMA NextPub == TypeInv /\ PubInv /\ [Next]_vars => PubInv'
<1> SUFFICES ASSUME TypeInv, PubInv, [Next]_vars PROVE PubInv'
    OBVIOUS
<1>1. CASE /\ UNCHANGED <<opened, genOf, gen, live, pub>>
           /\ \A n \in Stream : Published(n)' <=> Published(n)
  BY <1>1 DEF PubInv, PubMembers, PubGrows, IsFeed, SeqOf, Last
<1> QED
  BY <1>1, OtherSteps, PubPublish

\* Nothing is published at first.
LEMMA InitPub == Init => PubInv
<1> SUFFICES ASSUME Init PROVE PubInv
    OBVIOUS
<1>1. pub = <<>> /\ Len(pub) = 0 /\ live = NoGroup /\ IsFeed(opened)
      /\ \A n \in Stream : ~Published(n)
  BY DEF Init, Published
<1>2. 1..Len(pub) = {}
  BY <1>1
<1> QED
  BY <1>1, <1>2 DEF PubInv, PubMembers, PubGrows

-----------------------------------------------------------------------------
(* Generations are incarnations of the publisher, along the history.         *)
EpochInv == RestartsVisible =>
    \A i, j \in 1..Len(pub) : i <= j =>
        /\ EpochOf(pub[i]) <= EpochOf(pub[j])
        /\ genOf[pub[i]] = genOf[pub[j]] <=> EpochOf(pub[i]) = EpochOf(pub[j])

\* Streams published in order, a restart as a smaller number: the generation
\* moves when, and only when, the publisher is another one.
LEMMA EpochPublish ==
  ASSUME TypeInv, PubInv, EpochInv, NEW n \in Stream, PublishGroup(n)
  PROVE  EpochInv'
<1> DEFINE k == Len(pub)
<1>0. PubMembers /\ PubGrows /\ IsFeed(opened)
  BY DEF PubInv
<1>1. /\ Len(pub') = k + 1 /\ pub'[k + 1] = n /\ opened' = opened
      /\ \A i \in 1..k : pub'[i] = pub[i] /\ pub[i] # n
      /\ genOf'[n] = NewGen(n) /\ \A m \in Stream : m # n => genOf'[m] = genOf[m]
  BY <1>0, PublishEffect
<1>2. /\ k \in Nat /\ n \in Nat /\ gen \in Nat /\ EpochOf(n) \in Nat /\ SeqOf(n) \in Nat
      /\ \A i \in 1..k : /\ pub[i] \in Stream /\ pub[i] \in Nat /\ EpochOf(pub[i]) \in Nat
                         /\ SeqOf(pub[i]) \in Nat /\ genOf[pub[i]] \in Nat
  BY PubType DEF Stream
<1> SUFFICES ASSUME RestartsVisible' PROVE EpochInv'
  BY DEF EpochInv
<1>3. \A i \in 1..k : /\ pub'[i] < pub'[i + 1]
                      /\ EpochOf(pub'[i]) # EpochOf(pub'[i + 1]) => SeqOf(pub'[i + 1]) < SeqOf(pub'[i])
  <2>1. Len(pub') - 1 = k
    BY <1>1, <1>2
  <2> QED
    BY <1>1, <2>1 DEF RestartsVisible, SeqOf, EpochOf
<1>4. RestartsVisible
  <2> SUFFICES ASSUME NEW i \in 1..k - 1
               PROVE  /\ pub[i] < pub[i + 1]
                      /\ EpochOf(pub[i]) # EpochOf(pub[i + 1]) => SeqOf(pub[i + 1]) < SeqOf(pub[i])
    BY DEF RestartsVisible
  <2>1. i \in 1..k /\ i + 1 \in 1..k
    BY <1>2
  <2>2. pub'[i] = pub[i] /\ pub'[i + 1] = pub[i + 1]
    BY <1>1, <2>1
  <2> QED
    BY <1>3, <2>1, <2>2
<1>5. \A i, j \in 1..k : i <= j =>
          /\ EpochOf(pub[i]) <= EpochOf(pub[j])
          /\ genOf[pub[i]] = genOf[pub[j]] <=> EpochOf(pub[i]) = EpochOf(pub[j])
  BY <1>4 DEF EpochInv
<1>6. ASSUME NEW i \in 1..k
      PROVE  /\ EpochOf(pub[i]) <= EpochOf(n)
             /\ genOf[pub[i]] = NewGen(n) <=> EpochOf(pub[i]) = EpochOf(n)
  <2> DEFINE l == pub[k]
  <2>1. pub # <<>> /\ k \in 1..k /\ i <= k
    BY <1>2, <1>6, PubType
  <2>2. live = l /\ live # NoGroup /\ genOf[l] = gen /\ l \in Stream /\ genOf[pub[i]] <= gen
    <3>1. live = l /\ l \in Stream
      BY <1>0, <1>2, <2>1 DEF PubMembers, Last
    <3>2. genOf[l] = gen /\ genOf[pub[i]] <= genOf[l]
      BY <1>0, <2>1 DEF PubGrows, Last
    <3> QED
      BY <3>1, <3>2, NoGroupIsNoStream
  <2>3. l < n /\ (EpochOf(l) # EpochOf(n) => SeqOf(n) < SeqOf(l))
    BY <1>1, <1>3, <2>1
  <2>4. EpochOf(l) < EpochOf(n) \/ (EpochOf(l) = EpochOf(n) /\ SeqOf(l) < SeqOf(n))
    BY <1>0, <2>2, <2>3, FeedOrdered DEF EpochOf, SeqOf
  <2>5. /\ EpochOf(pub[i]) <= EpochOf(l)
        /\ genOf[pub[i]] = gen <=> EpochOf(pub[i]) = EpochOf(l)
    BY <1>5, <2>1, <2>2
  <2>6. /\ EpochOf(l) \in Nat /\ SeqOf(l) \in Nat /\ EpochOf(pub[i]) \in Nat
        /\ genOf[pub[i]] \in Nat
    BY <1>2, <2>1
  <2>7. CASE EpochOf(l) = EpochOf(n)
    <3>1. NewGen(n) = gen
      BY <1>2, <2>2, <2>4, <2>6, <2>7 DEF NewGen
    <3> QED
      BY <2>5, <2>7, <3>1
  <2>8. CASE EpochOf(l) < EpochOf(n)
    <3>1. NewGen(n) = gen + 1
      BY <1>2, <2>2, <2>3, <2>6, <2>8 DEF NewGen
    <3>2. EpochOf(pub[i]) < EpochOf(n)
      BY <1>2, <2>5, <2>6, <2>8
    <3>3. genOf[pub[i]] # gen + 1
      BY <1>2, <2>2, <2>6
    <3> QED
      BY <1>2, <2>6, <3>1, <3>2, <3>3
  <2> QED
    BY <2>4, <2>7, <2>8
<1>7. ASSUME NEW i \in 1..k + 1, NEW j \in 1..k + 1, i <= j
      PROVE  /\ EpochOf(pub'[i]) <= EpochOf(pub'[j])
             /\ genOf'[pub'[i]] = genOf'[pub'[j]] <=> EpochOf(pub'[i]) = EpochOf(pub'[j])
  <2>1. CASE j \in 1..k
    <3>1. i \in 1..k
      BY <1>2, <1>7, <2>1
    <3>2. pub'[i] = pub[i] /\ pub'[j] = pub[j] /\ pub[i] # n /\ pub[j] # n
      BY <1>1, <2>1, <3>1
    <3>3. genOf'[pub[i]] = genOf[pub[i]] /\ genOf'[pub[j]] = genOf[pub[j]]
      BY <1>1, <1>2, <2>1, <3>1, <3>2
    <3> QED
      BY <1>5, <1>7, <2>1, <3>1, <3>2, <3>3
  <2>2. CASE j = k + 1 /\ i \in 1..k
    BY <1>1, <1>2, <1>6, <2>2
  <2>3. CASE j = k + 1 /\ i = k + 1
    BY <1>1, <1>2, <2>3
  <2> QED
    BY <1>2, <2>1, <2>2, <2>3
<1> QED
  BY <1>1, <1>7 DEF EpochInv, EpochOf

\* Every step keeps generations and epochs together.
LEMMA NextEpoch == TypeInv /\ PubInv /\ EpochInv /\ [Next]_vars => EpochInv'
<1> SUFFICES ASSUME TypeInv, PubInv, EpochInv, [Next]_vars PROVE EpochInv'
    OBVIOUS
<1>1. CASE UNCHANGED <<opened, genOf, gen, live, pub>>
  BY <1>1 DEF EpochInv, RestartsVisible, EpochOf, SeqOf
<1> QED
  BY <1>1, OtherSteps, EpochPublish

\* Where a restart shows as a smaller number, and streams are published in the
\* order they were opened, two groups have one generation exactly when one
\* incarnation of the publisher made them (relay.go:74-77): for any feed.
THEOREM GenerationsSound == Safety => []GenerationsAreIncarnations
<1>1. Init => TypeInv /\ PubInv /\ EpochInv
  <2>1. Init => EpochInv
    <3> SUFFICES ASSUME Init PROVE EpochInv
      OBVIOUS
    <3>1. 1..Len(pub) = {}
      BY DEF Init
    <3> QED
      BY <3>1 DEF EpochInv
  <2> QED
    BY <2>1, InitType, InitPub
<1>2. TypeInv /\ PubInv /\ EpochInv /\ [Next]_vars => (TypeInv /\ PubInv /\ EpochInv)'
  BY NextType, NextPub, NextEpoch
<1>3. TypeInv /\ PubInv /\ EpochInv => GenerationsAreIncarnations
  <2> SUFFICES ASSUME TypeInv, PubMembers, EpochInv, RestartsVisible,
                      NEW m \in Stream, NEW n \in Stream, Published(m), Published(n)
               PROVE  genOf[m] = genOf[n] <=> EpochOf(m) = EpochOf(n)
    BY DEF GenerationsAreIncarnations, PubInv
  <2>1. PICK i \in 1..Len(pub), j \in 1..Len(pub) : pub[i] = m /\ pub[j] = n
    BY DEF PubMembers
  <2>2. i <= j \/ j <= i
    BY PubType
  <2> QED
    BY <2>1, <2>2 DEF EpochInv
<1> QED
  BY <1>1, <1>2, <1>3, PTL DEF Safety

-----------------------------------------------------------------------------
(* The order of publication.                                                 *)

\* A step adds to the order only what comes after everything published before.
LEMMA OrderGrows ==
  ASSUME TypeInv, PubInv, [Next]_vars, NEW m, NEW n
  PROVE  /\ PubBefore(m, n) => PubBefore(m, n)'
         /\ n \in Stream /\ Published(n) /\ PubBefore(m, n)' => PubBefore(m, n)
<1>1. CASE pub' = pub
  BY <1>1 DEF PubBefore
<1>2. CASE \E x \in Stream : PublishGroup(x)
  <2>1. PICK x \in Stream : PublishGroup(x)
    BY <1>2
  <2>2. /\ Len(pub') = Len(pub) + 1 /\ pub'[Len(pub) + 1] = x /\ ~Published(x)
        /\ \A i \in 1..Len(pub) : pub'[i] = pub[i]
    BY <2>1, PublishEffect DEF PubInv
  <2>3. Len(pub) \in Nat /\ 1..Len(pub) \subseteq 1..Len(pub')
        /\ \A i \in 1..Len(pub') : i \in 1..Len(pub) \/ i = Len(pub) + 1
    BY <2>2, PubType
  <2>4. ASSUME PubBefore(m, n) PROVE PubBefore(m, n)'
    <3>1. PICK i \in 1..Len(pub), j \in 1..Len(pub) : i < j /\ pub[i] = m /\ pub[j] = n
      BY <2>4 DEF PubBefore
    <3> QED
      BY <2>2, <2>3, <3>1 DEF PubBefore
  <2>5. ASSUME n \in Stream, Published(n), PubBefore(m, n)' PROVE PubBefore(m, n)
    <3>1. PICK i \in 1..Len(pub'), j \in 1..Len(pub') : i < j /\ pub'[i] = m /\ pub'[j] = n
      BY <2>5 DEF PubBefore
    <3>2. j \in 1..Len(pub)
      BY <2>2, <2>3, <2>5, <3>1
    <3>3. i \in 1..Len(pub)
      BY <2>3, <3>1, <3>2
    <3> QED
      BY <2>2, <3>1, <3>2, <3>3 DEF PubBefore
  <2> QED
    BY <2>4, <2>5
<1> QED
  BY <1>1, <1>2, OtherSteps

\* The live group is the latest.
LEMMA LiveIsLast ==
  ASSUME TypeInv, PubInv
  PROVE  /\ \A n \in Stream : Published(n) => live \in Stream /\ (n = live \/ PubBefore(n, live))
         /\ \A n : ~PubBefore(live, n)
         /\ live # NoGroup => live \in Stream /\ Published(live)
<1>0. PubMembers
  BY DEF PubInv
<1>1. ASSUME NEW n \in Stream, Published(n)
      PROVE  live \in Stream /\ (n = live \/ PubBefore(n, live))
  <2>1. PICK i \in 1..Len(pub) : pub[i] = n
    BY <1>0, <1>1 DEF PubMembers
  <2>2. pub # <<>> /\ Len(pub) \in Nat
    BY <2>1, PubType
  <2>3. Len(pub) \in 1..Len(pub) /\ live = pub[Len(pub)] /\ live \in Stream
    BY <1>0, <2>2, PubType DEF PubMembers, Last
  <2>4. i = Len(pub) \/ i < Len(pub)
    BY <2>1, <2>2
  <2> QED
    BY <2>1, <2>3, <2>4 DEF PubBefore
<1>2. ASSUME NEW n, PubBefore(live, n) PROVE FALSE
  <2>1. PICK i \in 1..Len(pub), j \in 1..Len(pub) : i < j /\ pub[i] = live /\ pub[j] = n
    BY <1>2 DEF PubBefore
  <2>2. pub # <<>> /\ Len(pub) \in Nat
    BY <2>1, PubType
  <2>3. Len(pub) \in 1..Len(pub) /\ live = pub[Len(pub)]
    BY <1>0, <2>2, PubType DEF PubMembers, Last
  <2>4. i = Len(pub)
    BY <1>0, <2>1, <2>3 DEF PubMembers
  <2> QED
    BY <2>1, <2>2, <2>4
<1>3. ASSUME live # NoGroup PROVE live \in Stream /\ Published(live)
  <2>1. pub # <<>>
    BY <1>0, <1>3 DEF PubMembers
  <2>2. Len(pub) \in 1..Len(pub) /\ live = pub[Len(pub)] /\ live \in Stream
    BY <1>0, <2>1, PubType DEF PubMembers, Last
  <2> QED
    BY <1>0, <2>2 DEF PubMembers
<1> QED
  BY <1>1, <1>2, <1>3

-----------------------------------------------------------------------------
(* The late join has no gap.  From addSub on a subscriber is in every        *)
(* snapshot; once it has read the live group, what it will not be fanned out *)
(* was published before that group, or is that group.                        *)
Arrived(s, n) == \E i \in 1..Len(arrived[s]) : arrived[s][i] = n

Added == {"added", "joining", "acked", "run", "open", "write"}
Joined == Added \ {"added"}

AddedInv == \A s \in Sub : pc[s] \in Added => s \in subs

NoGapInv == \A s \in Sub, n \in Stream :
    /\ pc[s] \in Joined
    /\ Published(n)
    /\ cached[s] = NoGroup \/ ~PubBefore(n, cached[s])
    => \/ s \in fan[n]
       \/ Arrived(s, n)
       \/ pc[s] \in {"joining", "acked"} /\ n = cached[s]

JoinInv == AddedInv /\ NoGapInv

(* What a queue operation does to the queues and to what has arrived.        *)
LEMMA QueueEffect ==
  ASSUME QueueTypeOK, NEW c \in Stream \cup Sub, NEW s \in Sub, NEW g \in Stream,
         Enqueue(c, s, g) \/ FindFull(c, s) \/ DropOldest(c, s)
  PROVE  /\ \A r \in Sub : r # s => queue'[r] = queue[r] /\ arrived'[r] = arrived[r]
         /\ \/ /\ Enqueue(c, s, g)
               /\ queue'[s] = Append(queue[s], g) /\ arrived'[s] = Append(arrived[s], g)
            \/ /\ ~Enqueue(c, s, g)
               /\ queue'[s] = queue[s] /\ arrived'[s] = arrived[s]
            \/ /\ DropOldest(c, s) /\ ~Enqueue(c, s, g)
               /\ queue[s] # <<>> /\ queue'[s] = Tail(queue[s]) /\ arrived'[s] = arrived[s]
<1> USE DEF QueueTypeOK
<1>1. CASE Enqueue(c, s, g)
  BY <1>1 DEF Enqueue
<1>2. CASE FindFull(c, s)
  BY <1>2 DEF FindFull, Enqueue
<1>3. CASE DropOldest(c, s)
  BY <1>3 DEF DropOldest, Enqueue
<1> QED
  BY <1>1, <1>2, <1>3

\* What has arrived stays so, and what is enqueued arrives.
LEMMA ArrivedGrows ==
  ASSUME QueueTypeOK, NEW c \in Stream \cup Sub, NEW s \in Sub, NEW g \in Stream,
         Enqueue(c, s, g) \/ FindFull(c, s) \/ DropOldest(c, s)
  PROVE  /\ \A r \in Sub, n \in Stream : Arrived(r, n) => Arrived(r, n)'
         /\ Enqueue(c, s, g) => Arrived(s, g)'
<1>1. arrived[s] \in Seq(Stream) /\ Len(arrived[s]) \in Nat
  BY LenProperties DEF QueueTypeOK
<1>2. CASE arrived'[s] = Append(arrived[s], g)
  <2>1. /\ Len(arrived'[s]) = Len(arrived[s]) + 1 /\ arrived'[s][Len(arrived[s]) + 1] = g
        /\ \A i \in 1..Len(arrived[s]) : arrived'[s][i] = arrived[s][i]
    BY <1>1, <1>2, AppendProperties
  <2>2. Len(arrived[s]) + 1 \in 1..Len(arrived'[s]) /\ 1..Len(arrived[s]) \subseteq 1..Len(arrived'[s])
    <3>1. PICK k \in Nat : k = Len(arrived[s])
      BY <1>1
    <3>2. Len(arrived'[s]) = k + 1
      BY <2>1, <3>1
    <3>3. k + 1 \in 1..k + 1 /\ 1..k \subseteq 1..k + 1
      OBVIOUS
    <3> QED
      BY <3>1, <3>2, <3>3
  <2>3. \A n \in Stream : Arrived(s, n) => Arrived(s, n)'
    BY <2>1, <2>2 DEF Arrived
  <2>4. ASSUME NEW r \in Sub, NEW n \in Stream, r # s, Arrived(r, n) PROVE Arrived(r, n)'
    <3>1. arrived'[r] = arrived[r]
      BY <2>4, QueueEffect
    <3> QED
      BY <2>4, <3>1 DEF Arrived
  <2>5. Arrived(s, g)'
    BY <2>1, <2>2 DEF Arrived
  <2> QED
    BY <2>3, <2>4, <2>5
<1>3. CASE arrived'[s] = arrived[s]
  <2>1. ~Enqueue(c, s, g)
    <3>1. ASSUME Enqueue(c, s, g) PROVE FALSE
      <4>1. arrived'[s] = Append(arrived[s], g)
        BY <3>1 DEF Enqueue, QueueTypeOK
      <4>2. Len(arrived'[s]) = Len(arrived[s]) + 1
        BY <1>1, <4>1, AppendProperties
      <4> QED
        BY <1>1, <1>3, <4>2
    <3> QED
      BY <3>1
  <2> QED
    BY <1>3, <2>1, QueueEffect DEF Arrived
<1> QED
  BY <1>2, <1>3, QueueEffect

(* Steps that publish nothing and let no subscriber past its join.           *)
LEMMA JoinFrame ==
  ASSUME TypeInv, JoinInv, pub' = pub, \A n \in Stream : Published(n)' <=> Published(n),
         \A s \in Sub : pc'[s] \in Added => s \in subs',
         \A s \in Sub : pc'[s] \in Joined =>
             /\ pc[s] \in Joined /\ cached'[s] = cached[s]
             /\ pc[s] \in {"joining", "acked"} /\ cached[s] # NoGroup => pc'[s] \in {"joining", "acked"},
         \A s \in Sub, n \in Stream :
             /\ s \in fan[n] => s \in fan'[n] \/ Arrived(s, n)'
             /\ Arrived(s, n) => Arrived(s, n)'
  PROVE  JoinInv'
<1>1. AddedInv'
  BY DEF AddedInv
<1>2. NoGapInv'
  <2> SUFFICES ASSUME NEW s \in Sub, NEW n \in Stream, pc'[s] \in Joined, Published(n)',
                      cached'[s] = NoGroup \/ ~PubBefore(n, cached'[s])
               PROVE  \/ s \in fan'[n]
                      \/ Arrived(s, n)'
                      \/ pc'[s] \in {"joining", "acked"} /\ n = cached'[s]
    BY DEF NoGapInv, PubBefore
  <2>1. s \in fan[n] \/ Arrived(s, n) \/ (pc[s] \in {"joining", "acked"} /\ n = cached[s])
    BY DEF JoinInv, NoGapInv
  <2>2. n # NoGroup
    BY NoGroupIsNoStream
  <2> QED
    BY <2>1, <2>2
<1> QED
  BY <1>1, <1>2 DEF JoinInv

\* A new group is in the fan-out of every subscriber that has been added.
LEMMA JoinPublish ==
  ASSUME TypeInv, FilterInv, PubInv, JoinInv, NEW n \in Stream, PublishGroup(n)
  PROVE  JoinInv'
<1>1. /\ UNCHANGED <<subs, pc, cached, arrived>>
      /\ fan' = [fan EXCEPT ![n] = subs] /\ fan \in [Stream -> SUBSET Sub]
  BY DEF PublishGroup, subVars, queueVars, TypeInv, TypeOK, IngestTypeOK
<1>2. [Next]_vars /\ \A m \in Stream : Published(m)' <=> Published(m) \/ m = n
  BY PublishEffect DEF Next, Ingest, PubInv
<1>3. AddedInv'
  BY <1>1 DEF JoinInv, AddedInv
<1>4. NoGapInv'
  <2> SUFFICES ASSUME NEW s \in Sub, NEW m \in Stream, pc[s] \in Joined, Published(m)',
                      cached[s] = NoGroup \/ ~PubBefore(m, cached[s])'
               PROVE  \/ s \in fan'[m]
                      \/ Arrived(s, m)'
                      \/ pc[s] \in {"joining", "acked"} /\ m = cached[s]
    BY <1>1 DEF NoGapInv, PubBefore
  <2>1. CASE m = n
    BY <1>1, <2>1 DEF JoinInv, AddedInv, Joined
  <2>2. CASE m # n
    <3>1. PubBefore(m, cached[s]) => PubBefore(m, cached[s])'
      <4>1. PICK x : x = cached[s]
        OBVIOUS
      <4>2. PubBefore(m, x) => PubBefore(m, x)'
        BY <1>2, OrderGrows
      <4> QED
        BY <1>1, <4>1, <4>2 DEF PubBefore
    <3>2. Published(m) /\ (cached[s] = NoGroup \/ ~PubBefore(m, cached[s]))
      BY <1>2, <2>2, <3>1
    <3>3. s \in fan[m] \/ Arrived(s, m) \/ (pc[s] \in {"joining", "acked"} /\ m = cached[s])
      BY <3>2 DEF JoinInv, NoGapInv
    <3> QED
      BY <1>1, <2>2, <3>3 DEF Arrived
  <2> QED
    BY <2>1, <2>2
<1> QED
  BY <1>3, <1>4 DEF JoinInv

\* The live group is read after addSub: nothing was published in between that
\* the subscriber will not be fanned out.
LEMMA JoinRead ==
  ASSUME TypeInv, PubInv, JoinInv, NEW s \in Sub, ReadLive(s)
  PROVE  JoinInv'
<1>1. /\ UNCHANGED <<subs, pub, fan, arrived, stage>>
      /\ pc[s] = "added" /\ pc' = [pc EXCEPT ![s] = "joining"]
      /\ cached' = [cached EXCEPT ![s] = live]
  BY DEF ReadLive, ingestVars, trackVars, queueVars
<1>2. /\ pc'[s] = "joining" /\ cached'[s] = live
      /\ \A r \in Sub : r # s => pc'[r] = pc[r] /\ cached'[r] = cached[r]
  BY <1>1 DEF TypeInv, TypeOK, SubTypeOK
<1>3. AddedInv'
  BY <1>1, <1>2 DEF JoinInv, AddedInv, Added
<1>4. NoGapInv'
  <2> SUFFICES ASSUME NEW r \in Sub, NEW m \in Stream, pc'[r] \in Joined, Published(m),
                      cached'[r] = NoGroup \/ ~PubBefore(m, cached'[r])
               PROVE  \/ r \in fan[m]
                      \/ Arrived(r, m)
                      \/ pc'[r] \in {"joining", "acked"} /\ m = cached'[r]
    BY <1>1 DEF NoGapInv, PubBefore, Published, Arrived
  <2>1. CASE r = s
    <3>1. live \in Stream /\ (m = live \/ PubBefore(m, live))
      BY LiveIsLast
    <3> QED
      BY <1>2, <2>1, <3>1, NoGroupIsNoStream
  <2>2. CASE r # s
    BY <1>2, <2>2 DEF JoinInv, NoGapInv
  <2> QED
    BY <2>1, <2>2
<1> QED
  BY <1>3, <1>4 DEF JoinInv

\* The join is over when the group it starts from has been queued.
LEMMA JoinQueued ==
  ASSUME TypeInv, JoinInv, NEW s \in Sub, JoinSend(s)
  PROVE  JoinInv'
<1>1. /\ UNCHANGED <<subs, pub, fan, stage, cached>>
      /\ pc[s] = "acked" /\ pc' = [pc EXCEPT ![s] = "run"] /\ Enqueue(s, s, cached[s])
  BY DEF JoinSend, ingestVars, trackVars
<1>2. pc'[s] = "run" /\ \A r \in Sub : r # s => pc'[r] = pc[r]
  BY <1>1 DEF TypeInv, TypeOK, SubTypeOK
<1>3. cached[s] \in Stream
  BY <1>1 DEF TypeInv, PcInv
<1>4. /\ \A r \in Sub, m \in Stream : Arrived(r, m) => Arrived(r, m)'
      /\ Arrived(s, cached[s])'
  <2>1. QueueTypeOK
    BY DEF TypeInv, TypeOK
  <2> DEFINE c == cached[s]
  <2>2. Arrived(s, c)' /\ \A r \in Sub, m \in Stream : Arrived(r, m) => Arrived(r, m)'
    <3>1. c \in Stream /\ Enqueue(s, s, c)
      BY <1>1, <1>3
    <3>2. \E x \in Stream : x = c /\ Enqueue(s, s, x)
      BY <3>1
    <3>3. PICK x \in Stream : x = c /\ Enqueue(s, s, x)
      BY <3>2
    <3>4. Arrived(s, x)' /\ \A r \in Sub, m \in Stream : Arrived(r, m) => Arrived(r, m)'
      BY <2>1, <3>3, ArrivedGrows
    <3> QED
      BY <1>1, <3>3, <3>4 DEF Arrived
  <2> QED
    BY <2>2
<1>5. AddedInv'
  BY <1>1, <1>2 DEF JoinInv, AddedInv, Added
<1>6. NoGapInv'
  <2> SUFFICES ASSUME NEW r \in Sub, NEW m \in Stream, pc'[r] \in Joined, Published(m),
                      cached[r] = NoGroup \/ ~PubBefore(m, cached[r])
               PROVE  \/ r \in fan[m]
                      \/ Arrived(r, m)'
                      \/ pc'[r] \in {"joining", "acked"} /\ m = cached[r]
    BY <1>1 DEF NoGapInv, PubBefore, Published
  <2>1. pc[r] \in Joined
    BY <1>1, <1>2 DEF Joined, Added
  <2>2. r \in fan[m] \/ Arrived(r, m) \/ (pc[r] \in {"joining", "acked"} /\ m = cached[r])
    BY <2>1 DEF JoinInv, NoGapInv
  <2> QED
    BY <1>1, <1>2, <1>4, <2>2
<1> QED
  BY <1>5, <1>6 DEF JoinInv

\* Every step keeps the invariant.
LEMMA NextJoin == TypeInv /\ FilterInv /\ PubInv /\ JoinInv /\ [Next]_vars => JoinInv'
<1> SUFFICES ASSUME TypeInv, FilterInv, PubInv, JoinInv, [Next]_vars PROVE JoinInv'
    OBVIOUS
<1>0. /\ QueueTypeOK /\ pc \in [Sub -> {"idle", "added", "joining", "acked", "run", "open", "write", "gone"}]
      /\ fan \in [Stream -> SUBSET Sub]
  BY DEF TypeInv, TypeOK, SubTypeOK, IngestTypeOK
<1>1. ASSUME NEW n \in Stream, NEW s \in Sub,
             FanoutSend(n, s) \/ FanoutFull(n, s) \/ FanoutDrop(n, s)
      PROVE  JoinInv'
  <2>1. UNCHANGED <<pub, stage, subs, pc, cached>>
    BY <1>1 DEF FanoutSend, FanoutFull, FanoutDrop, ingestVars, trackVars, subVars
  <2>2. Enqueue(n, s, n) \/ FindFull(n, s) \/ DropOldest(n, s)
    BY <1>1 DEF FanoutSend, FanoutFull, FanoutDrop
  <2>3. \A r \in Sub, m \in Stream : Arrived(r, m) => Arrived(r, m)'
    BY <1>0, <2>2, ArrivedGrows
  <2>4. ASSUME NEW r \in Sub, NEW m \in Stream, r \in fan[m]
        PROVE  r \in fan'[m] \/ Arrived(r, m)'
    <3>1. CASE fan' = fan
      BY <2>4, <3>1
    <3>2. CASE FanoutSend(n, s)
      <4>1. fan' = [fan EXCEPT ![n] = fan[n] \ {s}] /\ Enqueue(n, s, n)
        BY <3>2 DEF FanoutSend
      <4>2. Arrived(s, n)'
        BY <1>0, <4>1, ArrivedGrows
      <4> QED
        BY <1>0, <2>4, <4>1, <4>2
    <3> QED
      BY <1>1, <3>1, <3>2 DEF FanoutFull, FanoutDrop, ingestVars
  <2> QED
    BY <2>1, <2>3, <2>4, JoinFrame DEF JoinInv, AddedInv, Published
<1>2. ASSUME NEW n \in Stream, AppendObj(n) \/ CloseGroup(n) PROVE JoinInv'
  <2>1. UNCHANGED <<pub, fan, subs, pc, cached, arrived>>
    BY <1>2 DEF AppendObj, CloseGroup, trackVars, subVars, queueVars
  <2>2. \A m \in Stream : Published(m)' <=> Published(m)
    BY <1>2 DEF AppendObj, CloseGroup, Filling, Published, TypeInv, TypeOK, IngestTypeOK
  <2> QED
    BY <2>1, <2>2, JoinFrame DEF JoinInv, AddedInv, Arrived
<1>3. ASSUME NEW s \in Sub, JoinFull(s) \/ JoinDrop(s) PROVE JoinInv'
  <2>1. UNCHANGED <<pub, stage, fan, subs, pc, cached>>
    BY <1>3 DEF JoinFull, JoinDrop, ingestVars, trackVars, subVars
  <2>2. \A r \in Sub : arrived'[r] = arrived[r]
    BY <1>3 DEF JoinFull, JoinDrop, FindFull, DropOldest
  <2> QED
    BY <2>1, <2>2, JoinFrame DEF JoinInv, AddedInv, Arrived, Published
<1>4. ASSUME NEW s \in Sub,
             \/ AddSub(s) \/ SubscribeOK(s) \/ SubscribeFails(s) \/ Take(s) \/ OpenStream(s)
             \/ WriteObject(s) \/ FinishGroup(s) \/ Leave(s) \/ LoseConn(s)
      PROVE  JoinInv'
  <2>1. UNCHANGED <<pub, stage, fan, cached, arrived>>
    BY <1>4 DEF AddSub, SubscribeOK, SubscribeFails, Take, OpenStream, WriteObject, FinishGroup,
       Leave, LoseConn, ingestVars, trackVars, subVars, queueVars
  <2>2. ASSUME NEW r \in Sub, pc'[r] \in Added PROVE r \in subs'
    <3>1. CASE AddSub(s)
      <4>1. pc' = [pc EXCEPT ![s] = "added"] /\ subs' = subs \cup {s}
        BY <3>1 DEF AddSub
      <4> QED
        BY <1>0, <2>2, <4>1 DEF JoinInv, AddedInv
    <3>2. CASE SubscribeFails(s) \/ Leave(s)
      <4>1. pc' = [pc EXCEPT ![s] = "gone"] /\ subs' = subs \ {s}
        BY <3>2 DEF SubscribeFails, Leave
      <4> QED
        BY <1>0, <2>2, <4>1 DEF JoinInv, AddedInv, Added
    <3>3. CASE \/ SubscribeOK(s) \/ Take(s) \/ OpenStream(s)
               \/ WriteObject(s) \/ FinishGroup(s) \/ LoseConn(s)
      <4>1. subs' = subs
        BY <3>3 DEF SubscribeOK, Take, OpenStream, WriteObject, FinishGroup, LoseConn, trackVars
      <4>2. pc[r] \in Added
        BY <1>0, <2>2, <3>3 DEF SubscribeOK, Take, OpenStream, WriteObject, FinishGroup, LoseConn,
           subVars, Added
      <4> QED
        BY <4>1, <4>2 DEF JoinInv, AddedInv
    <3> QED
      BY <1>4, <3>1, <3>2, <3>3
  <2>3. ASSUME NEW r \in Sub, pc'[r] \in Joined
        PROVE  /\ pc[r] \in Joined
               /\ pc[r] \in {"joining", "acked"} /\ cached[r] # NoGroup => pc'[r] \in {"joining", "acked"}
    BY <1>0, <1>4, <2>3 DEF AddSub, SubscribeOK, SubscribeFails, Take, OpenStream, WriteObject,
       FinishGroup, Leave, LoseConn, subVars, Joined, Added
  <2> QED
    BY <2>1, <2>2, <2>3, JoinFrame DEF Arrived, Published
<1>5. CASE UNCHANGED vars
  <2>1. UNCHANGED <<pub, stage, fan, subs, pc, cached, arrived>>
    BY <1>5 DEF vars, ingestVars, trackVars, subVars, queueVars
  <2> QED
    BY <2>1, JoinFrame DEF JoinInv, AddedInv, Arrived, Published
<1> QED
  BY <1>1, <1>2, <1>3, <1>4, <1>5, JoinPublish, JoinRead, JoinQueued
     DEF Next, Ingest, Fanout, Subscriber, Join, Write

\* A late joiner misses nothing between the group it starts from and the first
\* one fanned out to it (relay.go:375-382), for any capacity and any feed.
THEOREM LateJoinSound == Safety => []LateJoinNoGap
<1>1. Init => TypeInv /\ FilterInv /\ PubInv /\ JoinInv
  <2>1. Init => JoinInv
    BY DEF Init, JoinInv, AddedInv, NoGapInv, Added, Joined
  <2> QED
    BY <2>1, InitType, InitFilter, InitPub
<1>2. TypeInv /\ FilterInv /\ PubInv /\ JoinInv /\ [Next]_vars
        => (TypeInv /\ FilterInv /\ PubInv /\ JoinInv)'
  BY NextType, NextFilter, NextPub, NextJoin
<1>3. JoinInv => LateJoinNoGap
  BY DEF JoinInv, NoGapInv, LateJoinNoGap, Joined, Added, Arrived
<1> QED
  BY <1>1, <1>2, <1>3, PTL DEF Safety

-----------------------------------------------------------------------------
(* The order of delivery.  A queue is the rest of what has arrived, so a     *)
(* subscriber takes groups in the order they arrived.                        *)
IsRest(q, a) == /\ Len(q) <= Len(a)
                /\ \A k \in 1..Len(q) : q[k] = a[Len(a) - Len(q) + k]

Gone(s) == Len(arrived[s]) - Len(queue[s])   \* groups taken or dropped

ArrivedInv == \A s \in Sub :
    /\ IsRest(queue[s], arrived[s])
    /\ \A i \in 1..Len(arrived[s]) : Published(arrived[s][i])

\* The filter stands at the k-th group that arrived, the groups sent come before
\* it, and the one being written is that group.
FilterAt(s, k) ==
    /\ last[s] = SeqOf(arrived[s][k]) /\ lastGen[s] = genOf[arrived[s][k]]
    /\ pc[s] \in {"open", "write"} => cur[s] = arrived[s][k]
    /\ \A i \in 1..Len(sent[s]) :
          \/ PubBefore(sent[s][i].grp, arrived[s][k])
          \/ pc[s] # "open" /\ sent[s][i].grp = arrived[s][k]

SentUpTo(s) == Ordered(s) =>
    /\ ~started[s] => sent[s] = <<>> /\ pc[s] \notin {"open", "write"}
    /\ started[s] => \E k \in 1..Gone(s) : FilterAt(s, k)
    /\ \A i, j \in 1..Len(sent[s]) : i < j => PubBefore(sent[s][i].grp, sent[s][j].grp)

\* PubBefore orders what has been published, strictly and totally.
LEMMA OrderTransitive ==
  ASSUME TypeInv, PubInv, NEW l, NEW m, NEW n, PubBefore(l, m), PubBefore(m, n)
  PROVE  PubBefore(l, n)
<1>1. PICK i \in 1..Len(pub), j \in 1..Len(pub) : i < j /\ pub[i] = l /\ pub[j] = m
  BY DEF PubBefore
<1>2. PICK h \in 1..Len(pub), k \in 1..Len(pub) : h < k /\ pub[h] = m /\ pub[k] = n
  BY DEF PubBefore
<1>3. j = h /\ Len(pub) \in Nat
  BY <1>1, <1>2, PubType DEF PubInv, PubMembers
<1>4. i < k
  BY <1>1, <1>2, <1>3
<1> QED
  BY <1>1, <1>2, <1>4 DEF PubBefore

\* Any two are ordered, and generations and numbers grow along the order.
LEMMA OrderTotal ==
  ASSUME TypeInv, PubInv, NEW m \in Stream, Published(m), NEW n \in Stream, Published(n)
  PROVE  /\ m = n \/ PubBefore(m, n) \/ PubBefore(n, m)
         /\ PubBefore(m, n) => /\ genOf[m] <= genOf[n]
                               /\ genOf[m] = genOf[n] => SeqOf(m) <= SeqOf(n)
<1>1. PICK i \in 1..Len(pub), j \in 1..Len(pub) : pub[i] = m /\ pub[j] = n
  BY DEF PubInv, PubMembers
<1>2. i < j \/ j < i \/ i = j
  BY PubType
<1>3. ASSUME PubBefore(m, n)
      PROVE  /\ genOf[m] <= genOf[n]
             /\ genOf[m] = genOf[n] => SeqOf(m) <= SeqOf(n)
  <2>1. PICK h \in 1..Len(pub), k \in 1..Len(pub) : h < k /\ pub[h] = m /\ pub[k] = n
    BY <1>3 DEF PubBefore
  <2>2. h <= k
    BY <2>1, PubType
  <2> QED
    BY <2>1, <2>2 DEF PubInv, PubGrows
<1> QED
  BY <1>1, <1>2, <1>3 DEF PubBefore

(* Nothing about a published group changes, and its order stays.             *)
LEMMA PublishedStays ==
  ASSUME TypeInv, PubInv, [Next]_vars, NEW n \in Stream, Published(n)
  PROVE  Published(n)' /\ SeqOf(n)' = SeqOf(n) /\ genOf'[n] = genOf[n]
<1>1. CASE \E m \in Stream : PublishGroup(m)
  BY <1>1, PublishEffect DEF PubInv, SeqOf
<1> QED
  BY <1>1, OtherSteps DEF SeqOf

\* A queue that is in order now was so before.
LEMMA OrderedBefore ==
  ASSUME TypeInv, PubInv, [Next]_vars, NEW r \in Sub, Ordered(r)',
         Len(arrived[r]) <= Len(arrived'[r]),
         \A i \in 1..Len(arrived[r]) : arrived'[r][i] = arrived[r][i]
  PROVE  Ordered(r)
<1> SUFFICES ASSUME NEW i \in 1..Len(arrived[r]), NEW j \in 1..Len(arrived[r]), i < j,
                    PubBefore(arrived[r][j], arrived[r][i])
             PROVE  FALSE
  BY DEF Ordered
<1>1. TypeInv'
  BY NextType
<1>2. Len(arrived[r]) \in Nat /\ Len(arrived'[r]) \in Nat
  BY <1>1, LenProperties DEF TypeInv, TypeOK, QueueTypeOK
<1>3. i \in 1..Len(arrived'[r]) /\ j \in 1..Len(arrived'[r])
  BY <1>2
<1>4. PICK x, y : x = arrived[r][j] /\ y = arrived[r][i]
  OBVIOUS
<1>5. PubBefore(x, y)'
  BY <1>4, OrderGrows
<1>6. arrived'[r][j] = x /\ arrived'[r][i] = y
  BY <1>4
<1> QED
  BY <1>3, <1>5, <1>6 DEF Ordered, PubBefore

(* The types these proofs need.                                              *)
LEMMA ArrivedType ==
  ASSUME TypeInv, NEW s \in Sub
  PROVE  /\ queue[s] \in Seq(Stream) /\ Len(queue[s]) \in Nat
         /\ arrived[s] \in Seq(Stream) /\ Len(arrived[s]) \in Nat
         /\ \A i \in 1..Len(arrived[s]) : arrived[s][i] \in Stream
         /\ queue[s] = <<>> => Len(queue[s]) = 0
         /\ arrived[s] # <<>> => Len(arrived[s]) \in 1..Len(arrived[s])
<1>1. queue[s] \in Seq(Stream) /\ arrived[s] \in Seq(Stream)
  BY DEF TypeInv, TypeOK, QueueTypeOK
<1> QED
  BY <1>1, LenProperties, ElementOfSeq, EmptySeq

(* The rest of a sequence stays so when both grow, or it loses its head.     *)
LEMMA RestGrows ==
  ASSUME NEW S, NEW q \in Seq(S), NEW a \in Seq(S), NEW g \in S, IsRest(q, a)
  PROVE  /\ IsRest(Append(q, g), Append(a, g))
         /\ Len(Append(a, g)) - Len(Append(q, g)) = Len(a) - Len(q)
<1> DEFINE r == Append(q, g)
           b == Append(a, g)
<1>1. PICK m \in Nat, n \in Nat : m = Len(q) /\ n = Len(a) /\ m <= n
  BY LenProperties DEF IsRest
<1>2. Len(r) = m + 1 /\ r[m + 1] = g /\ \A k \in 1..m : r[k] = q[k]
  BY <1>1, AppendProperties
<1>3. Len(b) = n + 1 /\ b[n + 1] = g /\ \A k \in 1..n : b[k] = a[k]
  BY <1>1, AppendProperties
<1>4. \A k \in 1..m : q[k] = a[n - m + k]
  BY <1>1 DEF IsRest
<1> HIDE DEF r, b
<1>5. (n + 1) - (m + 1) = n - m
  OBVIOUS
<1>6. ASSUME NEW k \in 1..m + 1 PROVE r[k] = b[n - m + k]
  <2>1. CASE k \in 1..m
    <3>1. n - m + k \in 1..n
      BY <1>1, <2>1
    <3> QED
      BY <1>2, <1>3, <1>4, <2>1, <3>1
  <2>2. CASE k = m + 1
    <3>1. n - m + k = n + 1
      BY <2>2
    <3> QED
      BY <1>2, <1>3, <2>2, <3>1
  <2> QED
    BY <2>1, <2>2
<1>7. IsRest(r, b) /\ Len(b) - Len(r) = n - m
  BY <1>1, <1>2, <1>3, <1>5, <1>6 DEF IsRest
<1> QED
  BY <1>1, <1>7 DEF r, b

\* The head of a rest is the next of the whole.
LEMMA RestTail ==
  ASSUME NEW S, NEW q \in Seq(S), NEW a \in Seq(S), q # <<>>, IsRest(q, a)
  PROVE  /\ IsRest(Tail(q), a) /\ Len(a) - Len(Tail(q)) = Len(a) - Len(q) + 1
         /\ Len(a) - Len(q) + 1 \in 1..Len(a) /\ Head(q) = a[Len(a) - Len(q) + 1]
<1> DEFINE r == Tail(q)
<1>1. PICK m \in Nat, n \in Nat : m = Len(q) /\ n = Len(a) /\ m <= n
  BY LenProperties DEF IsRest
<1>2. m # 0
  BY <1>1, EmptySeq
<1>3. Len(r) = m - 1 /\ \A k \in 1..m - 1 : r[k] = q[k + 1]
  BY <1>1, HeadTailProperties
<1>4. \A k \in 1..m : q[k] = a[n - m + k]
  BY <1>1 DEF IsRest
<1>5. Head(q) = q[1]
  OBVIOUS
<1> HIDE DEF r
<1>6. /\ m - 1 <= n /\ n - (m - 1) = n - m + 1 /\ 1 \in 1..m /\ n - m + 1 \in 1..n
  BY <1>1, <1>2
<1>7. \A k \in 1..m - 1 : r[k] = a[n - (m - 1) + k]
  <2> TAKE k \in 1..m - 1
  <2>1. k + 1 \in 1..m /\ n - m + (k + 1) = n - (m - 1) + k
    BY <1>2
  <2> QED
    BY <1>3, <1>4, <2>1
<1>8. IsRest(r, a)
  BY <1>1, <1>3, <1>6, <1>7 DEF IsRest
<1>9. Head(q) = a[n - m + 1]
  BY <1>4, <1>5, <1>6
<1> QED
  BY <1>1, <1>3, <1>6, <1>8, <1>9 DEF r

\* The operations on a queue keep it the rest of what has arrived.
LEMMA ArrivedQueue ==
  ASSUME TypeInv, ArrivedInv, NEW c \in Stream \cup Sub, NEW s \in Sub, NEW g \in Stream,
         Enqueue(c, s, g) \/ FindFull(c, s) \/ DropOldest(c, s),
         Published(g), \A n \in Stream : Published(n) => Published(n)'
  PROVE  /\ ArrivedInv'
         /\ \A r \in Sub : /\ Gone(r) <= Gone(r)' /\ Len(arrived[r]) <= Len(arrived'[r])
                           /\ \A i \in 1..Len(arrived[r]) : arrived'[r][i] = arrived[r][i]
<1> DEFINE P == {n \in Stream : Published(n)'}
<1>0. QueueTypeOK /\ QueueTypeOK' /\ g \in P
  BY EnqueueType DEF TypeInv, TypeOK
<1>1. ASSUME NEW r \in Sub
      PROVE  /\ queue[r] \in Seq(Stream) /\ arrived[r] \in Seq(Stream)
             /\ Len(queue[r]) \in Nat /\ Len(arrived[r]) \in Nat
             /\ IsRest(queue[r], arrived[r])
             /\ \A i \in 1..Len(arrived[r]) : arrived[r][i] \in P
  <2>1. \A i \in 1..Len(arrived[r]) : arrived[r][i] \in Stream /\ Published(arrived[r][i])
    BY ArrivedType DEF ArrivedInv
  <2>2. \A i \in 1..Len(arrived[r]) : arrived[r][i] \in P
    BY <2>1
  <2> QED
    BY <2>2, ArrivedType DEF ArrivedInv
<1> HIDE DEF P
<1>2. ASSUME NEW r \in Sub
      PROVE  /\ IsRest(queue'[r], arrived'[r])
             /\ Len(arrived[r]) - Len(queue[r]) <= Len(arrived'[r]) - Len(queue'[r])
             /\ Len(arrived[r]) <= Len(arrived'[r])
             /\ \A i \in 1..Len(arrived[r]) : arrived'[r][i] = arrived[r][i]
             /\ \A i \in 1..Len(arrived'[r]) : arrived'[r][i] \in P
  <2>1. CASE queue'[r] = Append(queue[r], g) /\ arrived'[r] = Append(arrived[r], g)
    <3>0. /\ IsRest(Append(queue[r], g), Append(arrived[r], g))
          /\ Len(Append(arrived[r], g)) - Len(Append(queue[r], g)) = Len(arrived[r]) - Len(queue[r])
      BY <1>1, RestGrows
    <3>1. /\ IsRest(queue'[r], arrived'[r])
          /\ Len(arrived'[r]) - Len(queue'[r]) = Len(arrived[r]) - Len(queue[r])
      BY <2>1, <3>0
    <3>2. /\ Len(arrived'[r]) = Len(arrived[r]) + 1 /\ arrived'[r][Len(arrived[r]) + 1] = g
          /\ \A i \in 1..Len(arrived[r]) : arrived'[r][i] = arrived[r][i]
      BY <1>1, <2>1, AppendProperties
    <3>3. \A i \in 1..Len(arrived'[r]) : i \in 1..Len(arrived[r]) \/ i = Len(arrived[r]) + 1
      BY <1>1, <3>2
    <3>4. \A i \in 1..Len(arrived'[r]) : arrived'[r][i] \in P
      BY <1>0, <1>1, <3>2, <3>3
    <3>5. /\ Len(arrived[r]) <= Len(arrived'[r])
          /\ Len(arrived[r]) - Len(queue[r]) <= Len(arrived'[r]) - Len(queue'[r])
      <4>1. /\ Len(queue[r]) \in Nat /\ Len(arrived[r]) \in Nat
            /\ Len(queue'[r]) \in Nat /\ Len(arrived'[r]) \in Nat
        BY <1>0, <1>1, LenProperties DEF QueueTypeOK
      <4>2. PICK i \in Nat, j \in Nat, k \in Nat, l \in Nat :
               i = Len(queue[r]) /\ j = Len(arrived[r]) /\ k = Len(queue'[r]) /\ l = Len(arrived'[r])
        BY <4>1
      <4>3. l = j + 1 /\ l - k = j - i
        BY <3>1, <3>2, <4>2
      <4>4. j <= l /\ j - i <= l - k
        BY <4>3
      <4> QED
        BY <4>2, <4>4
    <3> QED
      BY <3>1, <3>2, <3>4, <3>5
  <2>2. CASE queue'[r] = queue[r] /\ arrived'[r] = arrived[r]
    BY <1>1, <2>2
  <2>3. CASE queue[r] # <<>> /\ queue'[r] = Tail(queue[r]) /\ arrived'[r] = arrived[r]
    <3>1. /\ IsRest(queue'[r], arrived'[r])
          /\ Len(arrived'[r]) - Len(queue'[r]) = Len(arrived[r]) - Len(queue[r]) + 1
      BY <1>1, <2>3, RestTail
    <3> QED
      BY <1>1, <2>3, <3>1
  <2>4. \/ queue'[r] = Append(queue[r], g) /\ arrived'[r] = Append(arrived[r], g)
        \/ queue'[r] = queue[r] /\ arrived'[r] = arrived[r]
        \/ queue[r] # <<>> /\ queue'[r] = Tail(queue[r]) /\ arrived'[r] = arrived[r]
    <3>1. CASE r = s
      BY <1>0, <3>1, QueueEffect
    <3>2. CASE r # s
      BY <1>0, <3>2, QueueEffect
    <3> QED
      BY <3>1, <3>2
  <2> QED
    BY <2>1, <2>2, <2>3, <2>4
<1>3. ArrivedInv'
  BY <1>2 DEF ArrivedInv, IsRest, Published, P
<1>4. \A r \in Sub : Gone(r) <= Gone(r)'
  BY <1>2 DEF Gone
<1> QED
  BY <1>2, <1>3, <1>4

-----------------------------------------------------------------------------
\* A fan-out or a join still has a group for s.
Pending(s) == pc[s] = "acked" \/ \E n \in Stream : s \in fan[n]

\* When nothing is queued or pending, the filter stands at the last arrival.
CaughtUp(s) == Ordered(s) /\ queue[s] = <<>> /\ arrived[s] # <<>> /\ ~Pending(s) =>
    /\ started[s]
    /\ last[s] = SeqOf(Last(arrived[s])) /\ lastGen[s] = genOf[Last(arrived[s])]

AtInv == \A n \in Stream : at[n] # Nobody => at[n] \in fan[n]

OrderInv == AtInv /\ ArrivedInv /\ \A s \in Sub : SentUpTo(s) /\ CaughtUp(s)

(* Types and ranges, by name.                                                *)
LEMMA GoneType ==
  ASSUME TypeInv, ArrivedInv, NEW s \in Sub
  PROVE  /\ Gone(s) \in Nat /\ 1..Gone(s) \subseteq 1..Len(arrived[s])
         /\ \A k \in 1..Len(arrived[s]) : arrived[s][k] \in Stream /\ Published(arrived[s][k])
         /\ Len(sent[s]) \in Nat /\ (sent[s] = <<>> <=> Len(sent[s]) = 0)
<1>1. PICK m \in Nat, n \in Nat : m = Len(queue[s]) /\ n = Len(arrived[s])
  BY ArrivedType
<1>2. m <= n
  BY <1>1 DEF ArrivedInv, IsRest
<1>3. Gone(s) = n - m
  BY <1>1 DEF Gone
<1>4. sent[s] \in Seq(Entry)
  BY SentType
<1>5. Len(sent[s]) \in Nat /\ (sent[s] = <<>> <=> Len(sent[s]) = 0)
  BY <1>4, LenProperties, EmptySeq
<1>6. n - m \in Nat /\ 1..n - m \subseteq 1..n
  BY <1>2
<1>7. \A k \in 1..Len(arrived[s]) : arrived[s][k] \in Stream /\ Published(arrived[s][k])
  BY ArrivedType DEF ArrivedInv
<1> QED
  BY <1>1, <1>3, <1>5, <1>6, <1>7

\* A subscriber that takes and opens nothing stays where it is.
LEMMA SentFrame ==
  ASSUME TypeInv, PubInv, ArrivedInv, [Next]_vars, NEW r \in Sub, SentUpTo(r),
         Gone(r) \in Nat, Gone(r)' \in Nat, Gone(r) <= Gone(r)',
         Len(arrived[r]) <= Len(arrived'[r]),
         \A i \in 1..Len(arrived[r]) : arrived'[r][i] = arrived[r][i],
         started'[r] = started[r], last'[r] = last[r], lastGen'[r] = lastGen[r],
         pc'[r] \in {"open", "write"} => pc'[r] = pc[r] /\ cur'[r] = cur[r],
         Len(sent'[r]) = Len(sent[r]), sent[r] = <<>> => sent'[r] = <<>>,
         \A i \in 1..Len(sent[r]) : sent'[r][i].grp = sent[r][i].grp
  PROVE  SentUpTo(r)'
<1> SUFFICES ASSUME Ordered(r)' PROVE SentUpTo(r)'
  BY DEF SentUpTo
<1>0. Ordered(r)
  BY OrderedBefore
<1>1. ASSUME ~started[r] PROVE sent'[r] = <<>> /\ pc'[r] \notin {"open", "write"}
  BY <1>0, <1>1 DEF SentUpTo
<1>2. ASSUME started[r] PROVE \E k \in 1..Gone(r)' : FilterAt(r, k)'
  <2>1. PICK k \in 1..Gone(r) : FilterAt(r, k)
    BY <1>0, <1>2 DEF SentUpTo
  <2>2. k \in 1..Gone(r)' /\ k \in 1..Len(arrived[r])
    BY <2>1, GoneType
  <2>3. PICK g \in Stream : g = arrived[r][k] /\ Published(g)
    BY <2>2, GoneType
  <2>4. arrived'[r][k] = g /\ SeqOf(g)' = SeqOf(g) /\ genOf'[g] = genOf[g]
    BY <2>2, <2>3, PublishedStays
  <2>5. last[r] = SeqOf(g) /\ lastGen[r] = genOf[g] /\ (pc[r] \in {"open", "write"} => cur[r] = g)
    BY <2>1, <2>3 DEF FilterAt
  <2>6. /\ last'[r] = SeqOf(g)' /\ lastGen'[r] = genOf'[g]
        /\ pc'[r] \in {"open", "write"} => cur'[r] = g
    BY <2>4, <2>5
  <2>7. ASSUME NEW i \in 1..Len(sent'[r])
        PROVE  \/ \E h, j \in 1..Len(pub') : h < j /\ pub'[h] = sent'[r][i].grp /\ pub'[j] = g
               \/ pc'[r] # "open" /\ sent'[r][i].grp = g
    <3>1. PICK x : x = sent[r][i].grp
      OBVIOUS
    <3>2. i \in 1..Len(sent[r]) /\ x = sent'[r][i].grp
      BY <3>1
    <3>3. PubBefore(x, g) \/ (pc[r] # "open" /\ x = g)
      BY <2>1, <2>3, <3>1, <3>2 DEF FilterAt
    <3>4. PubBefore(x, g)' \/ (pc'[r] # "open" /\ x = g)
      BY <3>3, OrderGrows
    <3> QED
      BY <3>2, <3>4 DEF PubBefore
  <2>8. FilterAt(r, k)'
    BY <2>4, <2>6, <2>7 DEF FilterAt, SeqOf, PubBefore
  <2> QED
    BY <2>2, <2>8
<1>3. ASSUME NEW i \in 1..Len(sent'[r]), NEW j \in 1..Len(sent'[r]), i < j
      PROVE  \E h, k \in 1..Len(pub') : h < k /\ pub'[h] = sent'[r][i].grp /\ pub'[k] = sent'[r][j].grp
  <2>1. PICK x, y : x = sent[r][i].grp /\ y = sent[r][j].grp
    OBVIOUS
  <2>2. PubBefore(x, y)
    BY <1>0, <1>3, <2>1 DEF SentUpTo
  <2>3. PubBefore(x, y)'
    BY <2>2, OrderGrows
  <2> QED
    BY <2>1, <2>3 DEF PubBefore
<1> QED
  BY <1>1, <1>2, <1>3 DEF SentUpTo, PubBefore

\* One that neither takes nor gets a group remains caught up.
LEMMA CaughtFrame ==
  ASSUME TypeInv, PubInv, ArrivedInv, [Next]_vars, NEW r \in Sub, CaughtUp(r),
         arrived'[r] = arrived[r], queue'[r] = <<>> => queue[r] = <<>>,
         started'[r] = started[r], last'[r] = last[r], lastGen'[r] = lastGen[r],
         Pending(r) => Pending(r)'
  PROVE  CaughtUp(r)'
<1>1. Len(arrived[r]) <= Len(arrived'[r])
  BY ArrivedType
<1>2. ASSUME Ordered(r)', queue'[r] = <<>>, arrived'[r] # <<>>, ~Pending(r)'
      PROVE  \E g \in Stream : /\ g = arrived'[r][Len(arrived'[r])] /\ started'[r]
                               /\ last'[r] = SeqOf(g)' /\ lastGen'[r] = genOf'[g]
  <2>1. Ordered(r)
    BY <1>1, <1>2, OrderedBefore
  <2>2. /\ started[r]
        /\ last[r] = SeqOf(Last(arrived[r])) /\ lastGen[r] = genOf[Last(arrived[r])]
    BY <1>2, <2>1 DEF CaughtUp
  <2>3. Last(arrived[r]) \in Stream /\ Published(Last(arrived[r]))
    BY <1>2, GoneType, ArrivedType DEF Last
  <2>4. PICK g \in Stream : g = Last(arrived[r]) /\ Published(g)
    BY <2>3
  <2>5. SeqOf(g)' = SeqOf(g) /\ genOf'[g] = genOf[g]
    BY <2>4, PublishedStays
  <2> QED
    BY <2>2, <2>4, <2>5 DEF Last
<1> QED
  BY <1>2 DEF CaughtUp, Last, SeqOf

(* What taking a group does to the queue and to the filter.                  *)
LEMMA TakeEffect ==
  ASSUME TypeInv, ArrivedInv, NEW s \in Sub, Take(s)
  PROVE  \E g \in Stream :
            /\ Published(g) /\ g = arrived[s][Gone(s) + 1]
            /\ Gone(s) + 1 \in 1..Len(arrived[s]) /\ Gone(s)' = Gone(s) + 1
            /\ queue'[s] = <<>> => Gone(s) + 1 = Len(arrived[s])
            /\ IsRest(queue'[s], arrived[s])
            /\ pc[s] = "run"
            /\ \/ /\ Passed(s, g) /\ UNCHANGED <<pc, started, last, lastGen, cur>>
               \/ /\ ~Passed(s, g) /\ started'[s] /\ last'[s] = SeqOf(g) /\ lastGen'[s] = genOf[g]
                  /\ pc'[s] = "open" /\ cur'[s] = g
            /\ \A r \in Sub : r # s => /\ pc'[r] = pc[r] /\ cur'[r] = cur[r] /\ queue'[r] = queue[r]
                                       /\ started'[r] = started[r] /\ last'[r] = last[r]
                                       /\ lastGen'[r] = lastGen[r]
            /\ UNCHANGED <<opened, stage, genOf, fan, at, arrived, pub, sent>>
<1> DEFINE g == Head(queue[s])
<1>1. /\ pc[s] = "run" /\ queue[s] # <<>> /\ queue' = [queue EXCEPT ![s] = Tail(queue[s])]
      /\ UNCHANGED <<opened, stage, genOf, fan, at, arrived, pub, sent>>
  BY DEF Take, ingestVars
<1>2. /\ queue[s] \in Seq(Stream) /\ arrived[s] \in Seq(Stream) /\ IsRest(queue[s], arrived[s])
  BY ArrivedType DEF ArrivedInv
<1>3. /\ IsRest(Tail(queue[s]), arrived[s])
      /\ Len(arrived[s]) - Len(Tail(queue[s])) = Len(arrived[s]) - Len(queue[s]) + 1
      /\ Len(arrived[s]) - Len(queue[s]) + 1 \in 1..Len(arrived[s])
      /\ g = arrived[s][Len(arrived[s]) - Len(queue[s]) + 1]
  BY <1>1, <1>2, RestTail
<1>4. queue'[s] = Tail(queue[s]) /\ \A r \in Sub : r # s => queue'[r] = queue[r]
  BY <1>1 DEF TypeInv, TypeOK, QueueTypeOK
<1>5. /\ IsRest(queue'[s], arrived[s]) /\ Gone(s)' = Gone(s) + 1
      /\ Gone(s) + 1 \in 1..Len(arrived[s]) /\ g = arrived[s][Gone(s) + 1]
  BY <1>1, <1>3, <1>4 DEF Gone
<1>6. g \in Stream /\ Published(g)
  BY <1>5, GoneType
<1>7. queue'[s] = <<>> => Gone(s) + 1 = Len(arrived[s])
  <2>1. Len(arrived[s]) \in Nat
    BY ArrivedType
  <2>2. ASSUME queue'[s] = <<>> PROVE Gone(s)' = Len(arrived[s])
    <3>1. Len(queue'[s]) = 0
      BY <2>2
    <3>2. arrived'[s] = arrived[s] /\ Len(arrived[s]) - 0 = Len(arrived[s])
      BY <1>1, <2>1
    <3> QED
      BY <3>1, <3>2 DEF Gone
  <2> QED
    BY <1>5, <2>2
<1>8. SubTypeOK
  BY DEF TypeInv, TypeOK
<1>9. \/ /\ Passed(s, g) /\ UNCHANGED <<pc, started, last, lastGen, cur>>
      \/ /\ ~Passed(s, g) /\ started' = [started EXCEPT ![s] = TRUE]
         /\ last' = [last EXCEPT ![s] = SeqOf(g)] /\ lastGen' = [lastGen EXCEPT ![s] = genOf[g]]
         /\ pc' = [pc EXCEPT ![s] = "open"] /\ cur' = [cur EXCEPT ![s] = g]
  BY DEF Take, filterVars
<1> HIDE DEF g
<1>10. /\ \/ /\ Passed(s, g) /\ UNCHANGED <<pc, started, last, lastGen, cur>>
          \/ /\ ~Passed(s, g) /\ started'[s] /\ last'[s] = SeqOf(g) /\ lastGen'[s] = genOf[g]
             /\ pc'[s] = "open" /\ cur'[s] = g
       /\ \A r \in Sub : r # s => /\ pc'[r] = pc[r] /\ cur'[r] = cur[r]
                                  /\ started'[r] = started[r] /\ last'[r] = last[r]
                                  /\ lastGen'[r] = lastGen[r]
  BY <1>8, <1>9 DEF SubTypeOK
<1> QED
  BY <1>1, <1>4, <1>5, <1>6, <1>7, <1>10

(* Taking the next arrival: it comes after all that was sent, or is passed.  *)
LEMMA OrderTake ==
  ASSUME TypeInv, PubInv, ArrivedInv, NEW s \in Sub, Take(s), SentUpTo(s), CaughtUp(s)
  PROVE  SentUpTo(s)' /\ CaughtUp(s)'
<1>1. PICK g \in Stream :
            /\ Published(g) /\ g = arrived[s][Gone(s) + 1]
            /\ Gone(s) + 1 \in 1..Len(arrived[s]) /\ Gone(s)' = Gone(s) + 1
            /\ queue'[s] = <<>> => Gone(s) + 1 = Len(arrived[s])
            /\ pc[s] = "run"
            /\ \/ /\ Passed(s, g) /\ UNCHANGED <<pc, started, last, lastGen, cur>>
               \/ /\ ~Passed(s, g) /\ started'[s] /\ last'[s] = SeqOf(g) /\ lastGen'[s] = genOf[g]
                  /\ pc'[s] = "open" /\ cur'[s] = g
            /\ UNCHANGED <<opened, genOf, arrived, pub, sent>>
  BY TakeEffect
<1>2. PICK h \in Nat : h = Gone(s) + 1 /\ h \in 1..h /\ 1..Gone(s) \subseteq 1..h
  BY GoneType
<1>7. Ordered(s)' => Ordered(s)
  <2>1. arrived' = arrived /\ pub' = pub
    BY <1>1
  <2> QED
    BY <2>1 DEF Ordered, PubBefore
<1> SUFFICES ASSUME Ordered(s)
             PROVE  /\ ~started'[s] => sent[s] = <<>> /\ pc'[s] \notin {"open", "write"}
                    /\ started'[s] => \E k \in 1..h : FilterAt(s, k)'
                    /\ \A i, j \in 1..Len(sent[s]) :
                          i < j => PubBefore(sent[s][i].grp, sent[s][j].grp)
                    /\ queue'[s] = <<>> => /\ started'[s]
                                           /\ last'[s] = SeqOf(g) /\ lastGen'[s] = genOf[g]
  BY <1>1, <1>2, <1>7 DEF SentUpTo, CaughtUp, PubBefore, SeqOf, Last
<1>3. /\ ~started[s] => sent[s] = <<>> /\ pc[s] \notin {"open", "write"}
      /\ started[s] => \E k \in 1..Gone(s) : FilterAt(s, k)
      /\ \A i, j \in 1..Len(sent[s]) : i < j => PubBefore(sent[s][i].grp, sent[s][j].grp)
  BY DEF SentUpTo
<1>4. ASSUME started[s]
      PROVE  \E k \in 1..Gone(s), f \in Stream :
                /\ FilterAt(s, k) /\ f = arrived[s][k]
                /\ f = g \/ PubBefore(f, g)
                /\ genOf[f] = genOf[g] => SeqOf(f) <= SeqOf(g)
  <2>1. PICK k \in 1..Gone(s) : FilterAt(s, k)
    BY <1>3, <1>4
  <2>2. k \in 1..Len(arrived[s]) /\ k < h /\ h \in 1..Len(arrived[s])
    BY <1>1, <1>2, <2>1, GoneType
  <2>3. PICK f \in Stream : f = arrived[s][k] /\ Published(f)
    BY <2>2, GoneType
  <2>4. ~PubBefore(g, f)
    BY <1>1, <1>2, <2>2, <2>3 DEF Ordered
  <2>5. f = g \/ PubBefore(f, g)
    BY <1>1, <2>3, <2>4, OrderTotal
  <2>6. genOf[f] = genOf[g] => SeqOf(f) <= SeqOf(g)
    BY <1>1, <2>3, <2>5, OrderTotal, PubType
  <2> QED
    BY <2>1, <2>3, <2>5, <2>6
<1>5. CASE Passed(s, g)
  <2>1. UNCHANGED <<pc, started, last, lastGen, cur>> /\ started[s]
    BY <1>1, <1>5 DEF Passed
  <2>2. PICK k \in 1..Gone(s), f \in Stream :
                /\ FilterAt(s, k) /\ f = arrived[s][k]
                /\ genOf[f] = genOf[g] => SeqOf(f) <= SeqOf(g)
    BY <1>4, <2>1
  <2>3. FilterAt(s, k)'
    BY <1>1, <2>1, <2>2 DEF FilterAt, PubBefore, SeqOf
  <2>4. last[s] = SeqOf(f) /\ lastGen[s] = genOf[f] /\ genOf[g] = lastGen[s] /\ SeqOf(g) <= last[s]
    BY <1>5, <2>2 DEF FilterAt, Passed
  <2>5. last[s] = SeqOf(g)
    BY <2>2, <2>4, PubType
  <2> QED
    BY <1>2, <1>3, <2>1, <2>2, <2>3, <2>4, <2>5
<1>6. CASE ~Passed(s, g)
  <2>1. /\ started'[s] /\ last'[s] = SeqOf(g) /\ lastGen'[s] = genOf[g]
        /\ pc'[s] = "open" /\ cur'[s] = g
    BY <1>1, <1>6
  <2>2. \A i \in 1..Len(sent[s]) : PubBefore(sent[s][i].grp, g)
    <3>1. CASE ~started[s]
      BY <1>3, <3>1, GoneType
    <3>2. CASE started[s]
      <4>1. PICK k \in 1..Gone(s), f \in Stream :
                /\ FilterAt(s, k) /\ f = arrived[s][k]
                /\ f = g \/ PubBefore(f, g)
        BY <1>4, <3>2
      <4>2. f # g
        <5>1. last[s] = SeqOf(f) /\ lastGen[s] = genOf[f] /\ SeqOf(f) \in Nat
          BY <4>1, PubType DEF FilterAt
        <5> QED
          BY <1>6, <3>2, <5>1 DEF Passed
      <4>3. ASSUME NEW i \in 1..Len(sent[s]) PROVE PubBefore(sent[s][i].grp, g)
        <5>1. PICK x : x = sent[s][i].grp
          OBVIOUS
        <5>2. PubBefore(x, f) \/ x = f
          BY <4>1, <5>1 DEF FilterAt
        <5>3. PubBefore(x, g)
          BY <4>1, <4>2, <5>2, OrderTransitive
        <5> QED
          BY <5>1, <5>3
      <4> QED
        BY <4>3
    <3> QED
      BY <3>1, <3>2
  <2>3. FilterAt(s, h)'
    <3>1. arrived'[s][h] = g /\ SeqOf(g)' = SeqOf(g) /\ genOf'[g] = genOf[g]
      BY <1>1, <1>2 DEF SeqOf
    <3>2. \A i \in 1..Len(sent'[s]) :
             \E m, n \in 1..Len(pub') : m < n /\ pub'[m] = sent'[s][i].grp /\ pub'[n] = g
      BY <1>1, <2>2 DEF PubBefore
    <3> QED
      BY <2>1, <3>1, <3>2 DEF FilterAt, PubBefore, SeqOf
  <2> QED
    BY <1>2, <1>3, <2>1, <2>3
<1> QED
  BY <1>5, <1>6

\* The group a subscriber opens a stream for comes after all it was sent.
LEMMA OrderOpen ==
  ASSUME TypeInv, ArrivedInv, NEW s \in Sub, OpenStream(s), SentUpTo(s)
  PROVE  SentUpTo(s)'
<1> DEFINE c == cur[s]
           e == [grp |-> c, n |-> 0, fin |-> FALSE]
<1>1. /\ pc[s] = "open" /\ pc' = [pc EXCEPT ![s] = "write"]
      /\ sent' = [sent EXCEPT ![s] = Append(sent[s], e)]
      /\ UNCHANGED <<opened, genOf, queue, arrived, started, last, lastGen, cur, pub>>
  BY DEF OpenStream, ingestVars, queueVars, filterVars
<1>2. c \in Stream /\ e \in Entry /\ sent[s] \in Seq(Entry)
  <2>1. c \in Stream /\ sent[s] \in Seq(Entry)
    BY <1>1, SentType DEF TypeInv, PcInv
  <2>2. 0 \in 0..MaxObj
    BY Bounds
  <2> QED
    BY <2>1, <2>2 DEF Entry
<1>3. PICK m \in Nat : m = Len(sent[s])
  BY GoneType
<1>4. /\ sent'[s] = Append(sent[s], e) /\ pc'[s] = "write"
      /\ Len(sent'[s]) = m + 1 /\ sent'[s][m + 1] = e
      /\ \A i \in 1..m : sent'[s][i] = sent[s][i]
  <2>1. sent'[s] = Append(sent[s], e) /\ pc'[s] = "write"
    BY <1>1, SentType DEF TypeInv, TypeOK, SubTypeOK
  <2> QED
    BY <1>2, <1>3, <2>1, AppendProperties
<1>5. PICK x \in Stream : x = cur[s] /\ x = e.grp
  BY <1>2
<1> HIDE DEF e, c
<1>6. Ordered(s)' => Ordered(s)
  <2>1. arrived' = arrived /\ pub' = pub
    BY <1>1
  <2> QED
    BY <2>1 DEF Ordered, PubBefore
<1>7. ASSUME Ordered(s)
      PROVE  \E k \in 1..Gone(s) :
                /\ started[s] /\ arrived[s][k] = x
                /\ last[s] = SeqOf(x) /\ lastGen[s] = genOf[x]
                /\ \A i \in 1..m : PubBefore(sent[s][i].grp, x)
                /\ \A i, j \in 1..m : i < j => PubBefore(sent[s][i].grp, sent[s][j].grp)
  <2>1. PICK k \in 1..Gone(s) : FilterAt(s, k)
    BY <1>1, <1>7 DEF SentUpTo
  <2>2. started[s] /\ \A i, j \in 1..m : i < j => PubBefore(sent[s][i].grp, sent[s][j].grp)
    BY <1>1, <1>3, <1>7 DEF SentUpTo
  <2>3. arrived[s][k] = x /\ last[s] = SeqOf(x) /\ lastGen[s] = genOf[x]
    BY <1>1, <1>5, <2>1 DEF FilterAt
  <2>4. \A i \in 1..m : PubBefore(sent[s][i].grp, x)
    BY <1>1, <1>3, <2>1, <2>3 DEF FilterAt
  <2> QED
    BY <2>1, <2>2, <2>3, <2>4
<1>8. ASSUME Ordered(s)'
      PROVE  /\ started'[s] /\ \E k \in 1..Gone(s)' : FilterAt(s, k)'
             /\ \A i, j \in 1..Len(sent'[s]) : i < j =>
                   \E h, k \in 1..Len(pub') :
                       h < k /\ pub'[h] = sent'[s][i].grp /\ pub'[k] = sent'[s][j].grp
  <2>1. PICK k \in 1..Gone(s) :
                /\ started[s] /\ arrived[s][k] = x
                /\ last[s] = SeqOf(x) /\ lastGen[s] = genOf[x]
                /\ \A i \in 1..m : PubBefore(sent[s][i].grp, x)
                /\ \A i, j \in 1..m : i < j => PubBefore(sent[s][i].grp, sent[s][j].grp)
    BY <1>6, <1>7, <1>8
  <2>2. started'[s] /\ k \in 1..Gone(s)'
    BY <1>1, <2>1 DEF Gone
  <2>3. \A i \in 1..m + 1 : i \in 1..m \/ i = m + 1
    BY <1>3
  <2>4. ASSUME NEW i \in 1..Len(sent'[s])
        PROVE  (\E h, j \in 1..Len(pub') : h < j /\ pub'[h] = sent'[s][i].grp /\ pub'[j] = x)
               \/ sent'[s][i].grp = x
    <3>1. CASE i = m + 1
      BY <1>4, <1>5, <3>1
    <3>2. CASE i \in 1..m
      <4>1. PubBefore(sent[s][i].grp, x) /\ sent'[s][i] = sent[s][i] /\ pub' = pub
        BY <1>1, <1>4, <2>1, <3>2
      <4> QED
        BY <4>1 DEF PubBefore
    <3> QED
      BY <1>4, <2>3, <3>1, <3>2
  <2>5. FilterAt(s, k)'
    <3>1. /\ arrived'[s][k] = x /\ last'[s] = opened'[x].seq /\ lastGen'[s] = genOf'[x]
          /\ cur'[s] = x /\ pc'[s] = "write"
      BY <1>1, <1>4, <1>5, <2>1 DEF SeqOf
    <3> QED
      BY <2>4, <3>1 DEF FilterAt, PubBefore, SeqOf
  <2>6. ASSUME NEW i \in 1..Len(sent'[s]), NEW j \in 1..Len(sent'[s]), i < j
        PROVE  \E h, l \in 1..Len(pub') : h < l /\ pub'[h] = sent'[s][i].grp /\ pub'[l] = sent'[s][j].grp
    <3>1. i \in 1..m /\ sent'[s][i] = sent[s][i] /\ pub' = pub
      BY <1>1, <1>4, <2>3, <2>6
    <3>2. CASE j = m + 1
      <4>1. PubBefore(sent[s][i].grp, x) /\ sent'[s][j].grp = x
        BY <1>4, <1>5, <2>1, <3>1, <3>2
      <4> QED
        BY <3>1, <4>1 DEF PubBefore
    <3>3. CASE j \in 1..m
      <4>1. PubBefore(sent[s][i].grp, sent[s][j].grp) /\ sent'[s][j] = sent[s][j]
        BY <1>4, <2>1, <2>6, <3>1, <3>3
      <4> QED
        BY <3>1, <4>1 DEF PubBefore
    <3> QED
      BY <1>4, <2>3, <3>2, <3>3
  <2> QED
    BY <2>2, <2>5, <2>6
<1> QED
  BY <1>8 DEF SentUpTo, PubBefore

-----------------------------------------------------------------------------
(* Steps that leave the queues and the filters alone.                        *)
LEMMA OrderFrame ==
  ASSUME TypeInv, PubInv, OrderInv, [Next]_vars, AtInv',
         UNCHANGED <<queue, arrived, started, last, lastGen>>,
         \A r \in Sub :
             /\ pc'[r] \in {"open", "write"} => pc'[r] = pc[r] /\ cur'[r] = cur[r]
             /\ pc[r] = "acked" => pc'[r] = "acked"
             /\ Len(sent'[r]) = Len(sent[r]) /\ (sent[r] = <<>> => sent'[r] = <<>>)
             /\ \A i \in 1..Len(sent[r]) : sent'[r][i].grp = sent[r][i].grp,
         \A n \in Stream : fan[n] \subseteq fan'[n]
  PROVE  OrderInv'
<1>1. ArrivedInv'
  <2> DEFINE P == {n \in Stream : Published(n)'}
  <2>1. ASSUME NEW r \in Sub, NEW i \in 1..Len(arrived[r]) PROVE arrived[r][i] \in P
    BY GoneType, PublishedStays DEF OrderInv
  <2>2. \A r \in Sub : IsRest(queue'[r], arrived'[r])
    BY DEF OrderInv, ArrivedInv
  <2>3. \A r \in Sub : \A i \in 1..Len(arrived[r]) : arrived'[r][i] \in P
    BY <2>1
  <2> QED
    BY <2>2, <2>3 DEF ArrivedInv, IsRest, Published
<1>2. ASSUME NEW r \in Sub PROVE SentUpTo(r)' /\ CaughtUp(r)'
  <2>1. Gone(r) \in Nat /\ Gone(r)' = Gone(r) /\ Len(arrived[r]) \in Nat
    BY GoneType, ArrivedType DEF OrderInv, Gone
  <2>2. Pending(r) => Pending(r)'
    BY DEF Pending
  <2>3. SentUpTo(r)'
    BY <2>1, SentFrame DEF OrderInv
  <2>4. CaughtUp(r)'
    BY <2>2, CaughtFrame DEF OrderInv
  <2> QED
    BY <2>3, <2>4
<1> QED
  BY <1>1, <1>2 DEF OrderInv

(* A queue operation for s, by a caller that is not done with it or has      *)
(* queued its group.                                                         *)
LEMMA OrderQueue ==
  ASSUME TypeInv, PubInv, OrderInv, [Next]_vars, AtInv',
         NEW c \in Stream \cup Sub, NEW s \in Sub, NEW g \in Stream, Published(g),
         Enqueue(c, s, g) \/ FindFull(c, s) \/ DropOldest(c, s),
         Enqueue(c, s, g) \/ Pending(s)',
         UNCHANGED <<started, last, lastGen, sent, cur>>,
         \A n \in Stream : Published(n) => Published(n)',
         \A r \in Sub : pc'[r] \in {"open", "write"} => pc'[r] = pc[r],
         \A r \in Sub : r # s => pc'[r] = pc[r],
         \A r \in Sub, n \in Stream : r # s /\ r \in fan[n] => r \in fan'[n]
  PROVE  OrderInv'
<1>1. /\ ArrivedInv'
      /\ \A r \in Sub : /\ Gone(r) <= Gone(r)' /\ Len(arrived[r]) <= Len(arrived'[r])
                        /\ \A i \in 1..Len(arrived[r]) : arrived'[r][i] = arrived[r][i]
  BY ArrivedQueue DEF OrderInv
<1>2. TypeInv'
  BY NextType
<1>3. ASSUME NEW r \in Sub PROVE SentUpTo(r)'
  <2>1. Gone(r) \in Nat
    BY GoneType DEF OrderInv
  <2>2. Gone(r)' \in Nat
    <3>1. Len(queue'[r]) \in Nat /\ Len(arrived'[r]) \in Nat
      BY <1>2, LenProperties DEF TypeInv, TypeOK, QueueTypeOK
    <3>2. Len(queue'[r]) <= Len(arrived'[r])
      BY <1>1 DEF ArrivedInv, IsRest
    <3> QED
      BY <3>1, <3>2 DEF Gone
  <2> QED
    BY <1>1, <2>1, <2>2, SentFrame DEF OrderInv
<1>4. ASSUME NEW r \in Sub PROVE CaughtUp(r)'
  <2>1. CASE r # s
    <3>1. queue'[r] = queue[r] /\ arrived'[r] = arrived[r]
      BY <2>1, QueueEffect DEF TypeInv, TypeOK
    <3>2. Pending(r) => Pending(r)'
      BY <2>1 DEF Pending
    <3> QED
      BY <3>1, <3>2, CaughtFrame DEF OrderInv
  <2>2. CASE r = s /\ Pending(s)'
    BY <2>2 DEF CaughtUp, Pending
  <2>3. CASE r = s /\ Enqueue(c, s, g)
    <3>1. queue'[s] = Append(queue[s], g)
      BY <2>3 DEF Enqueue, TypeInv, TypeOK, QueueTypeOK
    <3>2. queue'[s] # <<>>
      BY <3>1, ArrivedType, AppendNonEmpty
    <3> QED
      BY <2>3, <3>2 DEF CaughtUp
  <2> QED
    BY <2>1, <2>2, <2>3
<1> QED
  BY <1>1, <1>3, <1>4 DEF OrderInv

\* Every step keeps the invariant.
LEMMA NextOrder == TypeInv /\ FilterInv /\ PubInv /\ OrderInv /\ [Next]_vars => OrderInv'
<1> SUFFICES ASSUME TypeInv, FilterInv, PubInv, OrderInv, [Next]_vars PROVE OrderInv'
    OBVIOUS
<1>0. /\ pc \in [Sub -> {"idle", "added", "joining", "acked", "run", "open", "write", "gone"}]
      /\ fan \in [Stream -> SUBSET Sub] /\ at \in [Stream -> Sub \cup {Nobody}]
      /\ cur \in [Sub -> Stream \cup {NoGroup}] /\ AtInv
  BY DEF TypeInv, TypeOK, SubTypeOK, IngestTypeOK, OrderInv
<1>1. ASSUME NEW n \in Stream, PublishGroup(n) PROVE OrderInv'
  <2>1. /\ UNCHANGED <<queue, arrived, started, last, lastGen, pc, cur, sent, at>>
        /\ fan' = [fan EXCEPT ![n] = subs] /\ stage[n] = "wire"
    BY <1>1 DEF PublishGroup, subVars, filterVars, queueVars
  <2>2. fan[n] = {} /\ at[n] = Nobody
    BY <2>1 DEF FilterInv, FanInv, Published
  <2>3. \A m \in Stream : fan[m] \subseteq fan'[m]
    BY <1>0, <2>1, <2>2
  <2>4. AtInv'
    BY <1>0, <2>1, <2>2 DEF AtInv
  <2> QED
    BY <2>1, <2>3, <2>4, OrderFrame
<1>2. ASSUME NEW n \in Stream, NEW s \in Sub,
             FanoutSend(n, s) \/ FanoutFull(n, s) \/ FanoutDrop(n, s)
      PROVE  OrderInv'
  <2>1. /\ UNCHANGED <<started, last, lastGen, sent, cur, pc, stage>>
        /\ Enqueue(n, s, n) \/ FindFull(n, s) \/ DropOldest(n, s)
    BY <1>2 DEF FanoutSend, FanoutFull, FanoutDrop, ingestVars, subVars, filterVars
  <2>2. s \in fan[n]
    BY <1>0, <1>2, TrackAssumption DEF FanoutSend, FanoutFull, FanoutDrop, Target, AtInv
  <2>3. Published(n) /\ \A m \in Stream : Published(m) => Published(m)'
    BY <2>1, <2>2 DEF FilterInv, FanInv, Published
  <2>4. \/ /\ Enqueue(n, s, n)
           /\ fan' = [fan EXCEPT ![n] = fan[n] \ {s}] /\ at' = [at EXCEPT ![n] = Nobody]
        \/ fan' = fan /\ at' = [at EXCEPT ![n] = s]
        \/ fan' = fan /\ at' = at
    BY <1>2 DEF FanoutSend, FanoutFull, FanoutDrop, ingestVars
  <2>5. AtInv'
    BY <1>0, <2>2, <2>4 DEF AtInv
  <2>6. Enqueue(n, s, n) \/ Pending(s)'
    BY <2>2, <2>4 DEF Pending
  <2>7. \A r \in Sub, m \in Stream : r # s /\ r \in fan[m] => r \in fan'[m]
    BY <1>0, <2>4
  <2> QED
    BY <2>1, <2>3, <2>5, <2>6, <2>7, OrderQueue
<1>3. ASSUME NEW s \in Sub, JoinSend(s) \/ JoinFull(s) \/ JoinDrop(s) PROVE OrderInv'
  <2>1. PICK g : g = cached[s]
    OBVIOUS
  <2>2. g \in Stream /\ Published(g)
    BY <1>3, <2>1, NoGroupIsNoStream
       DEF JoinSend, JoinFull, JoinDrop, TypeInv, PcInv, FilterInv, HeldInv
  <2>3. /\ UNCHANGED <<started, last, lastGen, sent, cur, stage, fan, at>>
        /\ Enqueue(s, s, g) \/ FindFull(s, s) \/ DropOldest(s, s)
    BY <1>3, <2>1 DEF JoinSend, JoinFull, JoinDrop, ingestVars, subVars, filterVars
  <2>4. /\ pc[s] = "acked"
        /\ \/ Enqueue(s, s, g) /\ pc' = [pc EXCEPT ![s] = "run"]
           \/ pc' = pc
    BY <1>3, <2>1 DEF JoinSend, JoinFull, JoinDrop, subVars
  <2>5. /\ \A r \in Sub : pc'[r] \in {"open", "write"} => pc'[r] = pc[r]
        /\ \A r \in Sub : r # s => pc'[r] = pc[r]
    BY <1>0, <2>4
  <2>6. Enqueue(s, s, g) \/ Pending(s)'
    BY <2>4 DEF Pending
  <2>7. AtInv'
    BY <1>0, <2>3 DEF AtInv
  <2>8. \A m \in Stream : Published(m) => Published(m)'
    BY <2>3 DEF Published
  <2> QED
    BY <2>2, <2>3, <2>5, <2>6, <2>7, <2>8, OrderQueue
<1>4. ASSUME NEW n \in Stream, AppendObj(n) \/ CloseGroup(n) PROVE OrderInv'
  <2>1. UNCHANGED <<queue, arrived, started, last, lastGen, pc, cur, sent, fan, at>>
    BY <1>4 DEF AppendObj, CloseGroup, subVars, filterVars, queueVars
  <2>2. AtInv'
    BY <1>0, <2>1 DEF AtInv
  <2> QED
    BY <2>1, <2>2, OrderFrame
<1>5. ASSUME NEW s \in Sub, \/ AddSub(s) \/ ReadLive(s) \/ SubscribeOK(s) \/ SubscribeFails(s)
                            \/ Leave(s) \/ LoseConn(s)
      PROVE  OrderInv'
  <2>1. UNCHANGED <<queue, arrived, started, last, lastGen, cur, sent, fan, at>>
    BY <1>5 DEF AddSub, ReadLive, SubscribeOK, SubscribeFails, Leave, LoseConn,
       ingestVars, filterVars, queueVars
  <2>2. \A r \in Sub : /\ pc'[r] \in {"open", "write"} => pc'[r] = pc[r]
                       /\ pc[r] = "acked" => pc'[r] = "acked"
    BY <1>0, <1>5 DEF AddSub, ReadLive, SubscribeOK, SubscribeFails, Leave, LoseConn
  <2>3. AtInv'
    BY <1>0, <2>1 DEF AtInv
  <2> QED
    BY <2>1, <2>2, <2>3, OrderFrame
<1>6. ASSUME NEW s \in Sub, WriteObject(s) \/ FinishGroup(s) PROVE OrderInv'
  <2>1. /\ UNCHANGED <<queue, arrived, started, last, lastGen, fan, at>> /\ pc[s] = "write"
        /\ \/ pc' = pc /\ cur' = cur
           \/ pc' = [pc EXCEPT ![s] = "run"] /\ cur' = [cur EXCEPT ![s] = NoGroup]
    BY <1>6 DEF WriteObject, FinishGroup, ingestVars, subVars, filterVars, queueVars
  <2>2. \A r \in Sub : /\ pc'[r] \in {"open", "write"} => pc'[r] = pc[r] /\ cur'[r] = cur[r]
                       /\ pc[r] = "acked" => pc'[r] = "acked"
    BY <1>0, <2>1
  <2>3. sent \in [Sub -> Seq(Entry)] /\ sent[s] # <<>> /\ Writing(s) \in Entry
    BY <2>1, SentType, WritingType
  <2>4. PICK e \in Entry : Update(s, e) /\ e.grp = Writing(s).grp
    <3>1. CASE WriteObject(s)
      <4>1. Writing(s).n + 1 \in 0..MaxObj
        <5>1. Writing(s).n < objs[cur[s]] /\ Writing(s).n \in 0..MaxObj /\ objs[cur[s]] \in 0..MaxObj
          BY <2>1, <2>3, <3>1, SentType DEF WriteObject, Entry
        <5> QED
          BY <5>1, Bounds
      <4> QED
        BY <2>3, <3>1, <4>1 DEF WriteObject, Entry
    <3>2. CASE FinishGroup(s)
      <4>1. [Writing(s) EXCEPT !.fin = TRUE] \in Entry
        BY <2>3 DEF Entry
      <4>2. [Writing(s) EXCEPT !.fin = TRUE].grp = Writing(s).grp
        BY <2>3 DEF Entry
      <4> QED
        BY <3>2, <4>1, <4>2 DEF FinishGroup
    <3> QED
      BY <1>6, <3>1, <3>2
  <2>5. /\ \A r \in Sub : Len(sent'[r]) = Len(sent[r])
        /\ \A r \in Sub : r # s => sent'[r] = sent[r]
        /\ \A i \in 1..Len(sent[s]) : sent'[s][i] = IF i = Len(sent[s]) THEN e ELSE sent[s][i]
    BY <2>3, <2>4, UpdateEffect
  <2>6. \A r \in Sub : /\ sent[r] = <<>> => sent'[r] = <<>>
                       /\ \A i \in 1..Len(sent[r]) : sent'[r][i].grp = sent[r][i].grp
    BY <2>3, <2>4, <2>5 DEF Writing
  <2>7. AtInv'
    BY <1>0, <2>1 DEF AtInv
  <2> QED
    BY <2>1, <2>2, <2>5, <2>6, <2>7, OrderFrame
<1>7. ASSUME NEW s \in Sub, Take(s) PROVE OrderInv'
  <2>1. PICK g \in Stream :
            /\ IsRest(queue'[s], arrived[s])
            /\ pc[s] = "run"
            /\ \A r \in Sub : r # s => /\ pc'[r] = pc[r] /\ cur'[r] = cur[r] /\ queue'[r] = queue[r]
                                       /\ started'[r] = started[r] /\ last'[r] = last[r]
                                       /\ lastGen'[r] = lastGen[r]
            /\ UNCHANGED <<stage, fan, at, arrived, sent>>
    BY <1>7, TakeEffect DEF OrderInv
  <2>2. ArrivedInv'
    <3>1. ASSUME NEW r \in Sub PROVE IsRest(queue'[r], arrived'[r])
      <4>1. CASE r = s
        BY <2>1, <4>1
      <4>2. CASE r # s
        BY <2>1, <4>2 DEF OrderInv, ArrivedInv
      <4> QED
        BY <4>1, <4>2
    <3>2. \A r \in Sub : \A i \in 1..Len(arrived[r]) : Published(arrived[r][i])
      BY DEF OrderInv, ArrivedInv
    <3> QED
      BY <2>1, <3>1, <3>2 DEF ArrivedInv, IsRest, Published
  <2>3. AtInv'
    BY <1>0, <2>1 DEF AtInv
  <2>4. SentUpTo(s)' /\ CaughtUp(s)'
    BY <1>7, OrderTake DEF OrderInv
  <2>5. ASSUME NEW r \in Sub, r # s PROVE SentUpTo(r)' /\ CaughtUp(r)'
    <3>1. Gone(r) \in Nat /\ Gone(r)' = Gone(r) /\ Len(arrived[r]) \in Nat
      BY <2>1, <2>5, GoneType, ArrivedType DEF OrderInv, Gone
    <3>2. Pending(r) => Pending(r)'
      BY <2>1, <2>5 DEF Pending
    <3> QED
      BY <2>1, <2>5, <3>1, <3>2, SentFrame, CaughtFrame DEF OrderInv
  <2> QED
    BY <2>2, <2>3, <2>4, <2>5 DEF OrderInv
<1>8. ASSUME NEW s \in Sub, OpenStream(s) PROVE OrderInv'
  <2>1. /\ UNCHANGED <<queue, arrived, started, last, lastGen, cur, stage, fan, at>>
        /\ pc[s] = "open" /\ pc' = [pc EXCEPT ![s] = "write"]
        /\ \A r \in Sub : r # s => sent'[r] = sent[r]
    BY <1>8, SentType DEF OpenStream, ingestVars, filterVars, queueVars
  <2>2. pc'[s] = "write" /\ \A r \in Sub : r # s => pc'[r] = pc[r]
    BY <1>0, <2>1
  <2>3. ArrivedInv'
    BY <2>1 DEF OrderInv, ArrivedInv, IsRest, Published
  <2>4. AtInv'
    BY <1>0, <2>1 DEF AtInv
  <2>5. SentUpTo(s)'
    BY <1>8, OrderOpen DEF OrderInv
  <2>6. ASSUME NEW r \in Sub PROVE (r # s => SentUpTo(r)') /\ CaughtUp(r)'
    <3>1. Gone(r) \in Nat /\ Gone(r)' = Gone(r) /\ Len(arrived[r]) \in Nat
      BY <2>1, GoneType, ArrivedType DEF OrderInv, Gone
    <3>2. Pending(r) => Pending(r)'
      BY <2>1, <2>2 DEF Pending
    <3>3. CaughtUp(r)'
      BY <2>1, <3>2, CaughtFrame DEF OrderInv
    <3>4. ASSUME r # s PROVE SentUpTo(r)'
      BY <2>1, <2>2, <3>1, <3>4, SentFrame DEF OrderInv
    <3> QED
      BY <3>3, <3>4
  <2> QED
    BY <2>3, <2>4, <2>5, <2>6 DEF OrderInv
<1>9. CASE UNCHANGED vars
  <2>1. UNCHANGED <<queue, arrived, started, last, lastGen, pc, cur, sent, fan, at>>
    BY <1>9 DEF vars, ingestVars, subVars, filterVars, queueVars
  <2>2. AtInv'
    BY <1>0, <2>1 DEF AtInv
  <2> QED
    BY <2>1, <2>2, OrderFrame
<1> QED
  BY <1>1, <1>2, <1>3, <1>4, <1>5, <1>6, <1>7, <1>8, <1>9
     DEF Next, Ingest, Fanout, Subscriber, Join, Write

\* Nothing has arrived and nothing was sent at first.
LEMMA InitOrder == Init => OrderInv
<1> SUFFICES ASSUME Init PROVE OrderInv
    OBVIOUS
<1>1. AtInv
  BY DEF Init, AtInv
<1>2. ArrivedInv
  BY DEF Init, ArrivedInv, IsRest
<1>3. \A s \in Sub : SentUpTo(s) /\ CaughtUp(s)
  BY DEF Init, SentUpTo, CaughtUp
<1> QED
  BY <1>1, <1>2, <1>3 DEF OrderInv

\* While fan-outs to a subscriber do not overtake each other, it is sent each
\* group at most once and in publish order (relay.go:207-211): for any
\* subscriptions, capacity and feed.
THEOREM OrderSound == Safety => []SentOnceInOrder
<1>1. Init => TypeInv /\ FilterInv /\ PubInv /\ OrderInv
  BY InitType, InitFilter, InitPub, InitOrder
<1>2. TypeInv /\ FilterInv /\ PubInv /\ OrderInv /\ [Next]_vars
        => (TypeInv /\ FilterInv /\ PubInv /\ OrderInv)'
  BY NextType, NextFilter, NextPub, NextOrder
<1>3. OrderInv => SentOnceInOrder
  BY DEF OrderInv, SentUpTo, SentOnceInOrder
<1> QED
  BY <1>1, <1>2, <1>3, PTL DEF Safety

\* What has caught up has been sent the live group: it arrived, and after it
\* nothing did.
LEMMA CaughtUpNewest ==
  TypeInv /\ FilterInv /\ PubInv /\ JoinInv /\ OrderInv => NewestDelivered
<1> SUFFICES ASSUME TypeInv, FilterInv, PubInv, JoinInv, OrderInv,
                    NEW s \in Sub, Ordered(s), Quiet(s), live # NoGroup
             PROVE  started[s] /\ last[s] = SeqOf(live) /\ lastGen[s] = gen
  BY DEF NewestDelivered
<1>1. live \in Stream /\ Published(live) /\ \A n : ~PubBefore(live, n)
  BY LiveIsLast
<1>2. genOf[live] = gen
  BY DEF PubInv, PubMembers, PubGrows
<1>3. PICK i \in 1..Len(arrived[s]) : arrived[s][i] = live
  BY <1>1 DEF Quiet, JoinInv, NoGapInv, Joined, Added, Arrived
<1>4. arrived[s] # <<>> /\ Len(arrived[s]) \in 1..Len(arrived[s]) /\ Len(arrived[s]) \in Nat
  BY <1>3, ArrivedType
<1>5. PICK g \in Stream : g = Last(arrived[s]) /\ Published(g)
  BY <1>4, GoneType DEF OrderInv, Last
<1>6. g = live
  <2>1. CASE i = Len(arrived[s])
    BY <1>3, <1>5, <2>1 DEF Last
  <2>2. CASE i < Len(arrived[s])
    <3>1. ~PubBefore(g, live)
      BY <1>3, <1>4, <1>5, <2>2 DEF Ordered, Last
    <3> QED
      BY <1>1, <1>5, <3>1, OrderTotal
  <2> QED
    BY <1>4, <2>1, <2>2
<1>7. ~Pending(s) /\ queue[s] = <<>>
  BY DEF Quiet, Pending
<1> QED
  BY <1>2, <1>4, <1>5, <1>6, <1>7 DEF OrderInv, CaughtUp

\* Backpressure never costs a subscriber the newest group (relay.go:10-11): one
\* that has caught up, in order, stands at the live group.
THEOREM NewestSound == Safety => []NewestDelivered
<1>1. Init => TypeInv /\ FilterInv /\ PubInv /\ JoinInv /\ OrderInv
  <2>1. Init => JoinInv
    BY DEF Init, JoinInv, AddedInv, NoGapInv, Added, Joined
  <2> QED
    BY <2>1, InitType, InitFilter, InitPub, InitOrder
<1>2. TypeInv /\ FilterInv /\ PubInv /\ JoinInv /\ OrderInv /\ [Next]_vars
        => (TypeInv /\ FilterInv /\ PubInv /\ JoinInv /\ OrderInv)'
  BY NextType, NextFilter, NextPub, NextJoin, NextOrder
<1> QED
  BY <1>1, <1>2, CaughtUpNewest, PTL DEF Safety
=============================================================================
