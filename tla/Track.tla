-------------------------------- MODULE Track --------------------------------
(* One track at one relay (relay.go): the ingest goroutines that publish its *)
(* groups, the fan-out to the subscribers' bounded queues, the late join     *)
(* from the live group, and the subscriber goroutines that filter and write. *)
(*                                                                           *)
(* Goroutines are pcs; a critical section of track.mu, and an operation on a *)
(* subscriber's queue channel, is one step.  A group is known by the number  *)
(* of the stream it came on.  The content of an object does not matter here, *)
(* so a group is a count of objects; module GroupBuffer has the objects.     *)
EXTENDS Naturals, Sequences, FiniteSets

CONSTANTS Sub,        \* subscriptions: a *subscriber each, never reused
          Nobody,     \* no subscriber
          QueueCap,   \* capacity of subscriber.queue; 3 in the code
          MaxStream,  \* bound: group streams the feed opens
          MaxSeq,     \* bound: highest group sequence number
          MaxEpoch,   \* bound: publisher restarts
          MaxObj,     \* bound: objects in a group
          MaxLoss     \* bound: connections lost

ASSUME TrackAssumption == /\ Nobody \notin Sub
                          /\ QueueCap \in Nat \ {0}
                          /\ {MaxStream, MaxSeq, MaxEpoch, MaxObj, MaxLoss} \subseteq Nat

Stream == 1..MaxStream
NoGroup == 0   \* a nil *groupBuffer

VARIABLES
    \* The feed: what the publisher (or the upstream relay) sends.  It never hears
    \* from the relay, so all of it is chosen at the start.
    opened,    \* opened[n]: sequence number and epoch of the n-th group stream
    \* Ingest goroutines, one per stream, and the groupBuffers they fill.
    stage,     \* stage[n]: "wire", "live" (published), "closed"
    genOf,     \* genOf[n]: g.gen
    objs,      \* objs[n]: Len(g.objs)
    fan,       \* fan[n]: subscribers of publishGroup's snapshot still to be served
    at,        \* at[n]: the one whose enqueue has begun, or Nobody
    \* The track.
    gen,       \* t.gen
    live,      \* t.live
    subs,      \* t.subs
    \* The subscribers.
    pc,        \* "idle", "added", "joining", "acked", "run", "open", "write", "gone"
    conn,      \* conn[s]: the connection is up
    queue,     \* s.queue
    cached,    \* the live group handleSubscriber read
    started, last, lastGen,  \* run's filter
    cur,       \* the group run is writing
    \* Both callers of enqueue: the ingest goroutines and the joining handlers.
    full,      \* full[c]: c has found the queue full and goes on to drop
    \* History: what the properties look back at.
    pub,       \* groups in the order publishGroup took track.mu
    arrived,   \* arrived[s]: groups in the order they entered s.queue
    dropped,   \* dropped[s]: groups enqueue has thrown away
    sent       \* sent[s]: streams opened towards s, with the objects written

ingestVars == <<stage, genOf, objs, fan, at>>
trackVars  == <<gen, live, subs>>
filterVars == <<started, last, lastGen>>
subVars    == <<pc, conn, cached, filterVars, cur>>
queueVars  == <<queue, full, arrived, dropped>>
vars == <<opened, ingestVars, trackVars, subVars, queueVars, pub, sent>>

SeqOf(n) == opened[n].seq
EpochOf(n) == opened[n].epoch
Published(n) == stage[n] \in {"live", "closed"}

\* Group numbers grow, with gaps where the publisher was not connected or the
\* upstream relay dropped a group; a restarted publisher begins a new epoch and
\* numbers from zero again.
IsFeed(f) ==
    /\ f \in [Stream -> [seq : 0..MaxSeq, epoch : 0..MaxEpoch]]
    /\ \A n \in 1..MaxStream - 1 :
        \/ f[n + 1].epoch = f[n].epoch /\ f[n + 1].seq > f[n].seq
        \/ f[n + 1].epoch > f[n].epoch

Init ==
    /\ IsFeed(opened)
    /\ stage = [n \in Stream |-> "wire"]
    /\ genOf = [n \in Stream |-> 0]
    /\ objs = [n \in Stream |-> 0]
    /\ fan = [n \in Stream |-> {}]
    /\ at = [n \in Stream |-> Nobody]
    /\ gen = 0 /\ live = NoGroup /\ subs = {}
    /\ pc = [s \in Sub |-> "idle"]
    /\ conn = [s \in Sub |-> TRUE]
    /\ queue = [s \in Sub |-> <<>>]
    /\ cached = [s \in Sub |-> NoGroup]
    /\ started = [s \in Sub |-> FALSE]
    /\ last = [s \in Sub |-> 0]
    /\ lastGen = [s \in Sub |-> 0]
    /\ cur = [s \in Sub |-> NoGroup]
    /\ full = [c \in Stream \cup Sub |-> FALSE]
    /\ pub = <<>>
    /\ arrived = [s \in Sub |-> <<>>]
    /\ dropped = [s \in Sub |-> {}]
    /\ sent = [s \in Sub |-> <<>>]
-----------------------------------------------------------------------------
(* enqueue, called by caller c for subscriber s with group g.  The send and  *)
(* the drop are separate channel operations: anyone may act in between.      *)
\* Mutant: an unbounded queue.
EnqueueUnbounded(c, s, g) == /\ ~full[c]
                             /\ queue' = [queue EXCEPT ![s] = Append(@, g)]
                             /\ arrived' = [arrived EXCEPT ![s] = Append(@, g)]
                             /\ UNCHANGED <<full, dropped>>

Enqueue(c, s, g) == /\ ~full[c]
                    /\ Len(queue[s]) < QueueCap
                    /\ queue' = [queue EXCEPT ![s] = Append(@, g)]
                    /\ arrived' = [arrived EXCEPT ![s] = Append(@, g)]
                    /\ UNCHANGED <<full, dropped>>

\* Mutant: a plain channel send, which waits for room.
FindFullWaits(c, s) == FALSE /\ UNCHANGED queueVars

FindFull(c, s) == /\ ~full[c]
                  /\ Len(queue[s]) = QueueCap
                  /\ full' = [full EXCEPT ![c] = TRUE]
                  /\ UNCHANGED <<queue, arrived, dropped>>

DropOldest(c, s) ==
    /\ full[c]
    /\ full' = [full EXCEPT ![c] = FALSE]
    /\ IF queue[s] = <<>>
       THEN UNCHANGED <<queue, dropped>>
       ELSE /\ queue' = [queue EXCEPT ![s] = Tail(@)]
            /\ dropped' = [dropped EXCEPT ![s] = @ \cup {Head(queue[s])}]
    /\ UNCHANGED arrived
-----------------------------------------------------------------------------
(* The ingest goroutine of stream n.                                         *)

\* Mutant: no generations.
NeverBump(n) == gen

\* Mutant: a restart is taken to show as group 0.
BumpAtZero(n) == IF live # NoGroup /\ SeqOf(n) = 0 THEN gen + 1 ELSE gen

\* The generation publishGroup gives to group n.
NewGen(n) == IF live # NoGroup /\ SeqOf(n) < SeqOf(live) THEN gen + 1 ELSE gen

\* The header is read: publishGroup, up to the unlock.  Streams are read by
\* goroutines of their own, so they get here in any order; one whose header is
\* never read (it died first) never gets here.
PublishGroup(n) ==
    /\ stage[n] = "wire"
    /\ stage' = [stage EXCEPT ![n] = "live"]
    /\ gen' = NewGen(n)
    /\ genOf' = [genOf EXCEPT ![n] = NewGen(n)]
    /\ live' = n
    /\ fan' = [fan EXCEPT ![n] = subs]
    /\ pub' = Append(pub, n)
    /\ UNCHANGED <<opened, objs, at, subs, subVars, queueVars, sent>>

\* The snapshot is walked in any order (a Go map), one enqueue at a time.
Target(n) == IF at[n] = Nobody THEN fan[n] ELSE {at[n]}

FanoutSend(n, s) == /\ s \in Target(n)
                    /\ Enqueue(n, s, n)
                    /\ fan' = [fan EXCEPT ![n] = @ \ {s}]
                    /\ at' = [at EXCEPT ![n] = Nobody]
                    /\ UNCHANGED <<opened, stage, genOf, objs, trackVars, subVars,
                                   pub, sent>>

FanoutFull(n, s) == /\ s \in Target(n)
                    /\ FindFull(n, s)
                    /\ at' = [at EXCEPT ![n] = s]
                    /\ UNCHANGED <<opened, stage, genOf, objs, fan, trackVars, subVars,
                                   pub, sent>>

FanoutDrop(n, s) == /\ at[n] = s
                    /\ DropOldest(n, s)
                    /\ UNCHANGED <<opened, ingestVars, trackVars, subVars,
                                   pub, sent>>

\* publishGroup has returned: objects are read from the stream only now.
Filling(n) == stage[n] = "live" /\ fan[n] = {}

AppendObj(n) == /\ Filling(n)
                /\ objs[n] < MaxObj
                /\ objs' = [objs EXCEPT ![n] = @ + 1]
                /\ UNCHANGED <<opened, stage, genOf, fan, at, trackVars, subVars,
                               queueVars, pub, sent>>

\* End of stream and abort alike.
CloseGroup(n) == /\ Filling(n)
                 /\ stage' = [stage EXCEPT ![n] = "closed"]
                 /\ UNCHANGED <<opened, genOf, objs, fan, at, trackVars, subVars,
                                queueVars, pub, sent>>
-----------------------------------------------------------------------------
(* handleSubscriber, for subscription s.                                     *)
\* Mutant: t.live is read first and the subscriber added afterwards.
ReadThenAdd(s) ==
    /\ pc[s] = "idle"
    /\ \/ /\ cached[s] = NoGroup
          /\ live # NoGroup
          /\ cached' = [cached EXCEPT ![s] = live]
          /\ UNCHANGED <<pc, subs>>
       \/ /\ cached[s] # NoGroup
          /\ pc' = [pc EXCEPT ![s] = "joining"]
          /\ subs' = subs \cup {s}
          /\ UNCHANGED cached
    /\ UNCHANGED <<opened, ingestVars, gen, live, conn, filterVars,
                   cur, queueVars, pub, sent>>

AddSub(s) == /\ pc[s] = "idle"
             /\ pc' = [pc EXCEPT ![s] = "added"]
             /\ subs' = subs \cup {s}
             /\ UNCHANGED <<opened, ingestVars, gen, live, conn, cached, filterVars,
                            cur, queueVars, pub, sent>>

ReadLive(s) == /\ pc[s] = "added"
               /\ pc' = [pc EXCEPT ![s] = "joining"]
               /\ cached' = [cached EXCEPT ![s] = live]
               /\ UNCHANGED <<opened, ingestVars, trackVars, conn, filterVars, cur,
                              queueVars, pub, sent>>

\* SubscribeOK is written; a relay with no live group yet starts run at once.
SubscribeOK(s) ==
    /\ pc[s] = "joining"
    /\ conn[s]
    /\ pc' = [pc EXCEPT ![s] = IF cached[s] = NoGroup THEN "run" ELSE "acked"]
    /\ UNCHANGED <<opened, ingestVars, trackVars, conn, cached, filterVars, cur,
                   queueVars, pub, sent>>

\* Mutant: return without removeSub.
FailAndStay(s) ==
    /\ pc[s] = "joining"
    /\ ~conn[s]
    /\ pc' = [pc EXCEPT ![s] = "gone"]
    /\ UNCHANGED <<opened, ingestVars, trackVars, conn, cached, filterVars, cur,
                   queueVars, pub, sent>>

SubscribeFails(s) ==
    /\ pc[s] = "joining"
    /\ ~conn[s]
    /\ pc' = [pc EXCEPT ![s] = "gone"]
    /\ subs' = subs \ {s}
    /\ UNCHANGED <<opened, ingestVars, gen, live, conn, cached, filterVars, cur,
                   queueVars, pub, sent>>

JoinSend(s) == /\ pc[s] = "acked"
               /\ Enqueue(s, s, cached[s])
               /\ pc' = [pc EXCEPT ![s] = "run"]
               /\ UNCHANGED <<opened, ingestVars, trackVars, conn, cached, filterVars,
                              cur, pub, sent>>

JoinFull(s) == /\ pc[s] = "acked"
               /\ FindFull(s, s)
               /\ UNCHANGED <<opened, ingestVars, trackVars, subVars, pub, sent>>

JoinDrop(s) == /\ pc[s] = "acked"
               /\ DropOldest(s, s)
               /\ UNCHANGED <<opened, ingestVars, trackVars, subVars, pub, sent>>
-----------------------------------------------------------------------------
(* run and writeGroup, for subscription s.                                   *)
\* Mutant: only strictly older groups are skipped.
PassedStrictly(s, g) == started[s] /\ genOf[g] = lastGen[s] /\ SeqOf(g) < last[s]

\* Mutant: sequence numbers are compared across generations.
PassedAnyGen(s, g) == started[s] /\ SeqOf(g) <= last[s]

Passed(s, g) == started[s] /\ genOf[g] = lastGen[s] /\ SeqOf(g) <= last[s]

\* g := <-s.queue: already passed, or the next one to write.
Take(s) ==
    /\ pc[s] = "run"
    /\ queue[s] # <<>>
    /\ queue' = [queue EXCEPT ![s] = Tail(@)]
    /\ LET g == Head(queue[s]) IN
       \/ /\ Passed(s, g)
          /\ UNCHANGED <<pc, filterVars, cur>>
       \/ /\ ~Passed(s, g)
          /\ started' = [started EXCEPT ![s] = TRUE]
          /\ last' = [last EXCEPT ![s] = SeqOf(g)]
          /\ lastGen' = [lastGen EXCEPT ![s] = genOf[g]]
          /\ cur' = [cur EXCEPT ![s] = g]
          /\ pc' = [pc EXCEPT ![s] = "open"]
    /\ UNCHANGED <<opened, ingestVars, trackVars, conn, cached, full, arrived,
                   dropped, pub, sent>>

\* OpenUniStreamSync and the group header.  It may wait for stream credit.
OpenStream(s) ==
    /\ pc[s] = "open"
    /\ conn[s]
    /\ pc' = [pc EXCEPT ![s] = "write"]
    /\ sent' = [sent EXCEPT ![s] = Append(@, [grp |-> cur[s], n |-> 0, fin |-> FALSE])]
    /\ UNCHANGED <<opened, ingestVars, trackVars, conn, cached, filterVars, cur,
                   queueVars, pub>>

\* The stream towards s that is being written.
Writing(s) == sent[s][Len(sent[s])]
Update(s, r) == sent' = [sent EXCEPT ![s][Len(sent[s])] = r]

\* next(i) returned an object and st.Write took it.
WriteObject(s) ==
    /\ pc[s] = "write"
    /\ conn[s]
    /\ Writing(s).n < objs[cur[s]]
    /\ Update(s, [Writing(s) EXCEPT !.n = @ + 1])
    /\ UNCHANGED <<opened, ingestVars, trackVars, subVars, queueVars, pub>>

\* Mutant: the stream is closed as soon as the group is.
FinishEarly(s) ==
    /\ pc[s] = "write"
    /\ stage[cur[s]] = "closed"
    /\ Update(s, [Writing(s) EXCEPT !.fin = TRUE])
    /\ pc' = [pc EXCEPT ![s] = "run"]
    /\ cur' = [cur EXCEPT ![s] = NoGroup]
    /\ UNCHANGED <<opened, ingestVars, trackVars, conn, cached, filterVars,
                   queueVars, pub>>

\* next(i) reported the end of the group: st.Close.
FinishGroup(s) ==
    /\ pc[s] = "write"
    /\ Writing(s).n >= objs[cur[s]]
    /\ stage[cur[s]] = "closed"
    /\ Update(s, [Writing(s) EXCEPT !.fin = TRUE])
    /\ pc' = [pc EXCEPT ![s] = "run"]
    /\ cur' = [cur EXCEPT ![s] = NoGroup]
    /\ UNCHANGED <<opened, ingestVars, trackVars, conn, cached, filterVars,
                   queueVars, pub>>

\* run returns: its select saw the connection end, or an operation on the
\* connection failed.  A writer waiting in next does not notice: it needs an
\* object to write, or the end of the group.
Leave(s) ==
    /\ ~conn[s]
    /\ \/ pc[s] \in {"run", "open"}
       \/ pc[s] = "write" /\ Writing(s).n < objs[cur[s]]
    /\ pc' = [pc EXCEPT ![s] = "gone"]
    /\ subs' = subs \ {s}
    /\ UNCHANGED <<opened, ingestVars, gen, live, conn, cached, filterVars, cur,
                   queueVars, pub, sent>>

LoseConn(s) == /\ conn[s]
               /\ pc[s] \notin {"idle", "gone"}
               /\ Cardinality({r \in Sub : ~conn[r]}) < MaxLoss
               /\ conn' = [conn EXCEPT ![s] = FALSE]
               /\ UNCHANGED <<opened, ingestVars, trackVars, pc, cached, filterVars, cur,
                              queueVars, pub, sent>>
-----------------------------------------------------------------------------
Fanout(n) == \E s \in Sub : FanoutSend(n, s) \/ FanoutFull(n, s) \/ FanoutDrop(n, s)
Ingest(n) == PublishGroup(n) \/ Fanout(n) \/ AppendObj(n) \/ CloseGroup(n)

Join(s) == \/ ReadLive(s) \/ SubscribeOK(s) \/ SubscribeFails(s)
           \/ JoinSend(s) \/ JoinFull(s) \/ JoinDrop(s)
Write(s) == OpenStream(s) \/ WriteObject(s)
Subscriber(s) == \/ AddSub(s) \/ Join(s) \/ Take(s) \/ Write(s) \/ FinishGroup(s)
                 \/ Leave(s) \/ LoseConn(s)

Next == (\E n \in Stream : Ingest(n)) \/ (\E s \in Sub : Subscriber(s))

Safety == Init /\ [][Next]_vars

\* Goroutines are scheduled fairly, and a group stream ends: its publisher goes
\* on to the next group or its connection dies (QUIC idle timeout, 30 s).
\* Nothing is assumed of a subscriber: it may stop reading and keep its
\* connection, so neither OpenStream nor WriteObject is fair.
Fairness == /\ \A n \in Stream : WF_vars(Fanout(n)) /\ WF_vars(CloseGroup(n))
            /\ \A s \in Sub : /\ WF_vars(Join(s)) /\ WF_vars(Take(s))
                              /\ WF_vars(FinishGroup(s)) /\ WF_vars(Leave(s))

Spec == Safety /\ Fairness
-----------------------------------------------------------------------------
IngestTypeOK ==
    /\ opened \in [Stream -> [seq : 0..MaxSeq, epoch : 0..MaxEpoch]]
    /\ stage \in [Stream -> {"wire", "live", "closed"}]
    /\ genOf \in [Stream -> Nat]
    /\ objs \in [Stream -> 0..MaxObj]
    /\ fan \in [Stream -> SUBSET Sub]
    /\ at \in [Stream -> Sub \cup {Nobody}]
TrackTypeOK ==
    /\ gen \in Nat
    /\ live \in Stream \cup {NoGroup}
    /\ subs \subseteq Sub
SubTypeOK ==
    /\ pc \in [Sub -> {"idle", "added", "joining", "acked", "run", "open", "write", "gone"}]
    /\ conn \in [Sub -> BOOLEAN]
    /\ cached \in [Sub -> Stream \cup {NoGroup}]
    /\ started \in [Sub -> BOOLEAN]
    /\ last \in [Sub -> 0..MaxSeq]
    /\ lastGen \in [Sub -> Nat]
    /\ cur \in [Sub -> Stream \cup {NoGroup}]
QueueTypeOK ==
    /\ queue \in [Sub -> Seq(Stream)]
    /\ \A s \in Sub : Len(queue[s]) <= QueueCap
    /\ full \in [Stream \cup Sub -> BOOLEAN]
    /\ arrived \in [Sub -> Seq(Stream)]
    /\ dropped \in [Sub -> SUBSET Stream]
HistoryTypeOK ==
    /\ pub \in Seq(Stream)
    /\ sent \in [Sub -> Seq([grp : Stream, n : 0..MaxObj, fin : BOOLEAN])]
TypeOK == /\ IngestTypeOK /\ TrackTypeOK /\ SubTypeOK
          /\ QueueTypeOK /\ HistoryTypeOK

\* m was published before n.
PubBefore(m, n) == \E i, j \in 1..Len(pub) : i < j /\ pub[i] = m /\ pub[j] = n

\* Groups entered s.queue in the order they were published.
Ordered(s) == \A i, j \in 1..Len(arrived[s]) :
                  i < j => ~PubBefore(arrived[s][j], arrived[s][i])

\* A publisher restart never blackholes a subscriber (the hazard of the comment
\* at relay.go:146-150): no subscriber's filter is ahead of the live group, in
\* whatever order the groups were published, queued, dropped and taken.
FilterNeverAhead == \A s \in Sub : started[s] =>
    /\ lastGen[s] <= gen
    /\ lastGen[s] = gen => live # NoGroup /\ last[s] <= SeqOf(live)

\* A late joiner misses nothing between the cached group it starts from and the
\* first group fanned out to it (addSub precedes the read of t.live,
\* relay.go:375-382): every group published from then on has been queued for it
\* or is about to be.
LateJoinNoGap == \A s \in Sub, n \in Stream :
    /\ pc[s] \in {"run", "open", "write"}
    /\ Published(n)
    /\ cached[s] = NoGroup \/ ~PubBefore(n, cached[s])
    => s \in fan[n] \/ \E i \in 1..Len(arrived[s]) : arrived[s][i] = n

\* Streams were published in the order they were opened, and each restart showed
\* as a smaller number.
RestartsVisible == \A i \in 1..Len(pub) - 1 :
    /\ pub[i] < pub[i + 1]
    /\ EpochOf(pub[i]) # EpochOf(pub[i + 1]) => SeqOf(pub[i + 1]) < SeqOf(pub[i])

\* Under that condition a generation is exactly one incarnation of the publisher
\* (relay.go:74-77): the filter tells a restart from a stale duplicate.
GenerationsAreIncarnations == RestartsVisible =>
    \A m, n \in Stream : Published(m) /\ Published(n) =>
        (genOf[m] = genOf[n] <=> EpochOf(m) = EpochOf(n))

\* While fan-outs to a subscriber do not overtake each other it is sent each
\* group at most once and in publish order, although a late join may queue its
\* first group twice (relay.go:207-211, 387-390).
SentOnceInOrder == \A s \in Sub : Ordered(s) =>
    \A i, j \in 1..Len(sent[s]) : i < j => PubBefore(sent[s][i].grp, sent[s][j].grp)

\* A stream closed cleanly carries the whole group, and one that was not is the
\* last the subscriber ever gets (relay.go:229-240, 214-216).
FinIsWhole == \A s \in Sub : \A i \in 1..Len(sent[s]) :
    LET e == sent[s][i] IN
    IF e.fin THEN stage[e.grp] = "closed" /\ e.n = objs[e.grp]
             ELSE i = Len(sent[s]) /\ pc[s] \in {"write", "gone"}

\* Nothing is left to do for s.
Quiet(s) == /\ pc[s] = "run" /\ queue[s] = <<>>
            /\ \A n \in Stream : s \notin fan[n]

\* Backpressure drops old groups, never the newest (relay.go:10-11): a subscriber
\* that has caught up has been sent the live group, or one with its number and
\* generation, while fan-outs to it do not overtake each other.
NewestDelivered == \A s \in Sub :
    Ordered(s) /\ Quiet(s) /\ live # NoGroup =>
        started[s] /\ last[s] = SeqOf(live) /\ lastGen[s] = gen

\* enqueue never blocks ingest (relay.go:179): publishGroup serves its whole
\* snapshot whatever the subscribers do, stalled ones included.
FanoutEnds == \A n \in Stream : stage[n] = "live" ~> fan[n] = {}

\* A subscriber whose connection is gone leaves the track (relay.go:197, 384),
\* even when its writer sleeps on a group at that moment.
DepartedRemoved == \A s \in Sub : ~conn[s] ~> s \notin subs
=============================================================================
