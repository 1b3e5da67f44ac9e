----------------------------- MODULE SessionProofs -----------------------------
(* What is proved about those who keep sessions: the gauges of the SFU, for  *)
(* any number of viewers, connections, publisher sessions and failures, and  *)
(* the results that the session manager keeps, for any clients and restarts. *)
EXTENDS Sfu, Manager, SequenceTheorems, FiniteSetTheorems, WellFoundedInduction, TLAPS

Conn == [st : ConnStates, v : Viewers \cup {0}, trk : {0} \cup Tracks]

CountedStates == {"new", "connected", "failing", "erring"}

\* Connections that count once in the gauge.
Counted == {r \in Slots : conn[r].st \in CountedStates}

\* What a connection in state st counts for in the gauge of viewers.
One(st) == IF st \in CountedStates THEN 1 ELSE 0

SubsOK == subs = Cardinality(Counted) - lost

PubOK == /\ pubUp = 1 => Readers # {}
         /\ pubUp = 0 /\ Readers # {} => \E m \in Tracks : onTrack[m] = "done"

\* The inductive invariant: a connection that fails is counted down twice, so the
\* gauge of viewers is short by those that did.
GaugesInv == TypeOK /\ SubsOK /\ PubOK

LEMMA GaugesParts == GaugesInv <=> TypeOK /\ SubsOK /\ PubOK
BY DEF GaugesInv

LEMMA CountType ==
    ASSUME SfuAssumption
    PROVE  IsFiniteSet(Counted) /\ Cardinality(Counted) \in Nat
BY FS_Subset, FS_CardinalityType DEF SfuAssumption, Counted

\* One connection changes, and counts for what its new state counts for.
LEMMA SlotChange ==
    ASSUME SfuAssumption, TypeOK, NEW r \in Slots, NEW c \in Conn,
           conn' = [conn EXCEPT ![r] = c]
    PROVE  /\ conn' \in [Slots -> Conn]
           /\ Cardinality(Counted') = Cardinality(Counted) - One(conn[r].st) + One(c.st)
<1>1. conn \in [Slots -> Conn]
  BY DEF TypeOK, Conn
<1>2. conn' \in [Slots -> Conn] /\ conn'[r] = c /\ \A q \in Slots \ {r} : conn'[q] = conn[q]
  BY <1>1
<1>3. IsFiniteSet(Counted) /\ Cardinality(Counted) \in Nat
  BY CountType
<1>4. r \in Counted <=> conn[r].st \in CountedStates
  BY DEF Counted, CountedStates
<1>5. Counted' = IF c.st \in CountedStates THEN Counted \cup {r} ELSE Counted \ {r}
  BY <1>2 DEF Counted, CountedStates
<1>6. Cardinality(Counted \cup {r}) = Cardinality(Counted) + 1 - One(conn[r].st)
  <2>1. CASE r \in Counted
    <3>1. One(conn[r].st) = 1
      BY <1>4, <2>1 DEF One
    <3>2. Cardinality(Counted \cup {r}) = Cardinality(Counted)
      BY <1>3, <2>1, FS_AddElement
    <3> QED
      BY <1>3, <3>1, <3>2
  <2>2. CASE r \notin Counted
    <3>1. One(conn[r].st) = 0
      BY <1>4, <2>2 DEF One
    <3>2. Cardinality(Counted \cup {r}) = Cardinality(Counted) + 1
      BY <1>3, <2>2, FS_AddElement
    <3> QED
      BY <1>3, <3>1, <3>2
  <2> QED
    BY <2>1, <2>2
<1>7. Cardinality(Counted \ {r}) = Cardinality(Counted) - One(conn[r].st)
  <2>1. CASE r \in Counted
    <3>1. One(conn[r].st) = 1
      BY <1>4, <2>1 DEF One
    <3>2. Cardinality(Counted \ {r}) = Cardinality(Counted) - 1
      BY <1>3, <2>1, FS_RemoveElement
    <3> QED
      BY <1>3, <3>1, <3>2
  <2>2. CASE r \notin Counted
    <3>1. Counted \ {r} = Counted /\ One(conn[r].st) = 0
      BY <1>4, <2>2 DEF One
    <3> QED
      BY <1>3, <3>1
  <2> QED
    BY <2>1, <2>2
<1>8. CASE c.st \in CountedStates
  BY <1>2, <1>3, <1>5, <1>6, <1>8 DEF One
<1>9. CASE c.st \notin CountedStates
  BY <1>2, <1>3, <1>5, <1>7, <1>9 DEF One
<1> QED
  BY <1>8, <1>9

\* The publisher's gauge survives what leaves its readers and goroutines alone.
LEMMA KeptPub ==
    ASSUME PubOK, pubUp' = pubUp, Readers' = Readers,
           \A m \in Tracks : onTrack[m] = "done" => onTrack'[m] = "done"
    PROVE  PubOK'
BY DEF PubOK

\* Actions of the publisher and of the viewers.
LEMMA OutsideStep ==
    ASSUME SfuAssumption, GaugesInv,
           \/ PubDial \/ HandlePublish \/ PubNotices \/ PubFails \/ SfuStart
           \/ \E v \in Viewers : ViewerDial(v) \/ ViewerNotices(v) \/ ViewerFails(v)
    PROVE  GaugesInv'
<1>1. /\ conn' = conn /\ subs' = subs /\ lost' = lost /\ pubUp' = pubUp
      /\ onTrack' = onTrack
  BY DEF PubDial, HandlePublish, PubNotices, PubFails, PubIdle, SfuStart, ViewerDial,
         ViewerNotices, ViewerFails, ViewerPauses, gaugeVars
<1>2. SubsOK' /\ PubOK'
  BY <1>1, GaugesParts DEF SubsOK, PubOK, Counted, Readers
<1>3. TypeOK
  BY GaugesParts
<1>4. TypeOK'
  <2>1. CASE HandlePublish
    BY <1>3, <2>1 DEF HandlePublish, Fault, NoFault, PubIdle, gaugeVars, TypeOK, Tracks, MaxPub,
                      SfuAssumption
  <2>2. CASE PubDial \/ PubNotices \/ PubFails
    BY <1>3, <2>2 DEF PubDial, PubNotices, PubFails, PubIdle, Fault, gaugeVars, TypeOK,
                      SfuAssumption
  <2>3. CASE SfuStart
    BY <1>3, <2>3 DEF SfuStart, gaugeVars, pubVars, TypeOK
  <2>4. ASSUME NEW v \in Viewers, ViewerDial(v) \/ ViewerNotices(v) \/ ViewerFails(v)
        PROVE  TypeOK'
    <3>1. \E s \in {"pause", "signal"} : viewer' = [viewer EXCEPT ![v] = [st |-> s, slot |-> 0]]
      BY <2>4 DEF ViewerDial, ViewerNotices, ViewerFails, ViewerPauses
    <3>2. viewer' \in [Viewers -> [st : {"pause", "signal", "wait"}, slot : {0} \cup Slots]]
      BY <1>3, <3>1 DEF TypeOK
    <3>3. faults' \in 0..MaxFaults
      BY <1>3, <2>4 DEF ViewerDial, ViewerNotices, ViewerFails, Fault, NoFault, TypeOK,
                        SfuAssumption
    <3>4. UNCHANGED <<up, track, onTrack, conn, pubVars, gaugeVars>>
      BY <2>4 DEF ViewerDial, ViewerNotices, ViewerFails, ViewerPauses
    <3> QED
      BY <1>3, <3>2, <3>3, <3>4 DEF TypeOK, pubVars, gaugeVars
  <2> QED
    BY <2>1, <2>2, <2>3, <2>4
<1> QED
  BY <1>2, <1>4 DEF GaugesInv

\* Actions of the goroutines of the publisher's sessions.
LEMMA OnTrackStep ==
    ASSUME SfuAssumption, GaugesInv,
           \/ PubConnected
           \/ \E n \in Tracks : OnTrackSets(n) \/ OnTrackUp(n) \/ OnTrackEnds(n)
    PROVE  GaugesInv'
<1> USE DEF OnTrackStates
<1>1. TypeOK /\ SubsOK /\ PubOK
  BY GaugesParts
<1>2. conn' = conn /\ subs' = subs /\ lost' = lost
  BY DEF PubConnected, OnTrackSets, OnTrackUp, OnTrackEnds, gaugeVars
<1>3. SubsOK'
  BY <1>1, <1>2 DEF SubsOK, Counted
<1>4. TypeOK' /\ PubOK'
  <2>1. CASE PubConnected
    <3>1. onTrack \in [Tracks -> OnTrackStates] /\ onTrack' = [onTrack EXCEPT ![pub.n] = "arrived"]
          /\ onTrack[pub.n] = "none" /\ pubUp' = pubUp
      BY <1>1, <2>1 DEF TypeOK, PubConnected, gaugeVars
    <3>2. /\ onTrack' \in [Tracks -> OnTrackStates]
          /\ \A m \in Tracks : onTrack'[m] = IF m = pub.n THEN "arrived" ELSE onTrack[m]
      BY <3>1
    <3>3. PubOK'
      BY <1>1, <3>1, <3>2 DEF PubOK, Readers
    <3>4. TypeOK'
      BY <1>1, <1>2, <2>1, <3>2 DEF TypeOK, PubConnected, gaugeVars
    <3> QED
      BY <3>3, <3>4
  <2>2. ASSUME NEW n \in Tracks, OnTrackSets(n)
        PROVE  TypeOK' /\ PubOK'
    <3>1. /\ onTrack' \in [Tracks -> OnTrackStates] /\ pubUp' = pubUp
          /\ \A m \in Tracks : onTrack'[m] = IF m = n THEN "set" ELSE onTrack[m]
          /\ onTrack[n] = "arrived"
      BY <1>1, <2>2 DEF TypeOK, OnTrackSets, gaugeVars
    <3>2. PubOK'
      BY <1>1, <3>1 DEF PubOK, Readers
    <3>3. TypeOK'
      BY <1>1, <1>2, <2>2, <3>1 DEF TypeOK, OnTrackSets, pubVars, gaugeVars
    <3> QED
      BY <3>2, <3>3
  <2>3. ASSUME NEW n \in Tracks, OnTrackUp(n)
        PROVE  TypeOK' /\ PubOK'
    <3>1. /\ onTrack' \in [Tracks -> OnTrackStates] /\ pubUp' = 1
          /\ onTrack'[n] = "reading"
      BY <1>1, <2>3 DEF TypeOK, OnTrackUp
    <3>2. PubOK'
      BY <3>1 DEF PubOK, Readers
    <3>3. TypeOK'
      BY <1>1, <1>2, <2>3, <3>1 DEF TypeOK, OnTrackUp, pubVars
    <3> QED
      BY <3>2, <3>3
  <2>4. ASSUME NEW n \in Tracks, OnTrackEnds(n)
        PROVE  TypeOK' /\ PubOK'
    <3>1. /\ onTrack' \in [Tracks -> OnTrackStates] /\ pubUp' = 0
          /\ onTrack'[n] = "done"
      BY <1>1, <2>4 DEF TypeOK, OnTrackEnds
    <3>2. PubOK'
      BY <3>1 DEF PubOK, Readers
    <3>3. TypeOK'
      BY <1>1, <1>2, <2>4, <3>1 DEF TypeOK, OnTrackEnds, pubVars
    <3> QED
      BY <3>2, <3>3
  <2> QED
    BY <2>1, <2>2, <2>3, <2>4
<1> QED
  BY <1>3, <1>4 DEF GaugesInv

\* What a request or a connection of the SFU does to the count: nothing but c in
\* slot r changes, and the gauge follows.
LEMMA SlotStep ==
    ASSUME SfuAssumption, GaugesInv, NEW r \in Slots, NEW c \in Conn,
           conn' = [conn EXCEPT ![r] = c],
           subs' \in Int, lost' \in Nat,
           subs' + lost' = subs + lost - One(conn[r].st) + One(c.st),
           viewer' \in [Viewers -> [st : {"pause", "signal", "wait"}, slot : {0} \cup Slots]],
           faults' \in 0..MaxFaults,
           UNCHANGED <<up, track, onTrack, pubUp, pub, sessions>>
    PROVE  GaugesInv'
<1>1. TypeOK /\ SubsOK /\ PubOK
  BY GaugesParts
<1>2. /\ conn' \in [Slots -> Conn]
      /\ Cardinality(Counted') = Cardinality(Counted) - One(conn[r].st) + One(c.st)
  BY <1>1, SlotChange
<1>3. TypeOK'
  BY <1>1, <1>2 DEF TypeOK, Conn
<1>4. SubsOK'
  <2>1. One(conn[r].st) \in Int /\ One(c.st) \in Int
    BY DEF One
  <2>2. subs = Cardinality(Counted) - lost /\ Cardinality(Counted) \in Nat /\ lost \in Nat
    BY <1>1, CountType DEF SubsOK, TypeOK
  <2>3. ASSUME NEW n \in Nat, NEW n2, NEW s \in Int, NEW s2 \in Int, NEW l \in Nat,
               NEW l2 \in Nat, NEW a \in Int, NEW b \in Int,
               n2 = n - a + b, s = n - l, s2 + l2 = s + l - a + b
        PROVE  s2 = n2 - l2
    BY <2>3
  <2>4. subs' = Cardinality(Counted') - lost'
    BY <1>1, <1>2, <2>1, <2>2, <2>3 DEF TypeOK
  <2> QED
    BY <2>4 DEF SubsOK
<1>5. PubOK'
  BY <1>1 DEF PubOK, Readers
<1> QED
  BY <1>3, <1>4, <1>5 DEF GaugesInv

\* Actions of one connection, but for the end of a request that fails.
LEMMA ConnectionStep ==
    ASSUME SfuAssumption, GaugesInv, NEW r \in Slots,
           \/ SubscribePoll(r) \/ SubscribeGivesUp(r) \/ SubscribeAnswers(r)
           \/ Connected(r) \/ ConnNotices(r) \/ ConnFails(r)
           \/ FailedCallback(r) \/ ClosedCallback(r)
    PROVE  GaugesInv'
<1>1. TypeOK /\ conn \in [Slots -> Conn] /\ subs \in Int /\ lost \in Nat
  BY GaugesParts DEF TypeOK, Conn
<1>2. /\ conn[r] \in Conn /\ conn[r].v \in Viewers \cup {0}
      /\ conn[r].trk \in {0} \cup Tracks /\ conn[r].st \in ConnStates
  BY <1>1 DEF Conn
<1>3. \A st \in {"wait", "pause"} : ReplyTo(r, st) =>
        viewer' \in [Viewers -> [st : {"pause", "signal", "wait"}, slot : {0} \cup Slots]]
  BY <1>1 DEF ReplyTo, TypeOK
<1>4. \A st \in ConnStates : [conn[r] EXCEPT !.st = st] \in Conn
                            /\ [conn[r] EXCEPT !.st = st].st = st
  BY <1>2 DEF Conn
<1>5. viewer \in [Viewers -> [st : {"pause", "signal", "wait"}, slot : {0} \cup Slots]]
      /\ faults \in 0..MaxFaults /\ MaxFaults \in Nat
  BY <1>1 DEF TypeOK, SfuAssumption
<1>6. FreeSlot \in Conn /\ FreeSlot.st = "free"
  BY DEF FreeSlot, Conn, ConnStates
<1>7. CASE SubscribePoll(r)
  <2> DEFINE c == [conn[r] EXCEPT !.st = "bound", !.trk = track]
  <2>1. c \in Conn /\ c.st = "bound" /\ conn[r].st = "poll"
    BY <1>1, <1>2, <1>7 DEF SubscribePoll, Conn, ConnStates, TypeOK
  <2>2. conn' = [conn EXCEPT ![r] = c]
    BY <1>1, <1>7 DEF SubscribePoll
  <2>3. One(c.st) = 0 /\ One(conn[r].st) = 0
    BY <2>1 DEF One, CountedStates
  <2> HIDE DEF c
  <2>4. /\ subs' \in Int /\ lost' \in Nat
        /\ subs' + lost' = subs + lost - One(conn[r].st) + One(c.st)
    BY <1>1, <1>7, <2>3 DEF SubscribePoll, gaugeVars
  <2> QED
    BY <1>1, <1>5, <1>7, <2>1, <2>2, <2>4, SlotStep DEF SubscribePoll, gaugeVars, pubVars
<1>8. CASE SubscribeGivesUp(r)
  <2>1. One(FreeSlot.st) = 0 /\ One(conn[r].st) = 0
    BY <1>6, <1>8 DEF One, CountedStates, SubscribeGivesUp
  <2>2. /\ subs' \in Int /\ lost' \in Nat
        /\ subs' + lost' = subs + lost - One(conn[r].st) + One(FreeSlot.st)
    BY <1>1, <1>8, <2>1 DEF SubscribeGivesUp, gaugeVars
  <2> QED
    BY <1>1, <1>3, <1>5, <1>6, <1>8, <2>2, SlotStep DEF SubscribeGivesUp, gaugeVars, pubVars
<1>9. CASE SubscribeAnswers(r)
  <2> DEFINE c == [conn[r] EXCEPT !.st = "new"]
  <2>1. c \in Conn /\ c.st = "new" /\ conn[r].st = "bound"
    BY <1>4, <1>9 DEF SubscribeAnswers, ConnStates
  <2>2. conn' = [conn EXCEPT ![r] = c]
    BY <1>1, <1>9 DEF SubscribeAnswers
  <2>3. One(c.st) = 1 /\ One(conn[r].st) = 0
    BY <2>1 DEF One, CountedStates
  <2> HIDE DEF c
  <2>4. /\ subs' \in Int /\ lost' \in Nat
        /\ subs' + lost' = subs + lost - One(conn[r].st) + One(c.st)
    BY <1>1, <1>9, <2>3 DEF SubscribeAnswers, gaugeVars
  <2> QED
    BY <1>1, <1>3, <1>5, <1>9, <2>1, <2>2, <2>4, SlotStep DEF SubscribeAnswers, pubVars
<1>10. CASE Connected(r)
  <2> DEFINE c == [conn[r] EXCEPT !.st = "connected"]
  <2>1. c \in Conn /\ c.st = "connected" /\ conn[r].st = "new"
    BY <1>4, <1>10 DEF Connected, ConnStates
  <2>2. conn' = [conn EXCEPT ![r] = c]
    BY <1>1, <1>10 DEF Connected
  <2>3. One(c.st) = 1 /\ One(conn[r].st) = 1
    BY <2>1 DEF One, CountedStates
  <2> HIDE DEF c
  <2>4. /\ subs' \in Int /\ lost' \in Nat
        /\ subs' + lost' = subs + lost - One(conn[r].st) + One(c.st)
    BY <1>1, <1>10, <2>3 DEF Connected, gaugeVars
  <2> QED
    BY <1>1, <1>5, <1>10, <2>1, <2>2, <2>4, SlotStep DEF Connected, gaugeVars, pubVars
<1>11. CASE ConnNotices(r) \/ ConnFails(r)
  <2> DEFINE c == [conn[r] EXCEPT !.st = "failing"]
  <2>1. c \in Conn /\ c.st = "failing" /\ conn[r].st \in {"new", "connected"}
    BY <1>4, <1>11 DEF ConnNotices, ConnFails, ConnStates
  <2>2. conn' = [conn EXCEPT ![r] = c]
    BY <1>1, <1>11 DEF ConnNotices, ConnFails
  <2>3. One(c.st) = 1 /\ One(conn[r].st) = 1
    BY <2>1 DEF One, CountedStates
  <2>4. faults' \in 0..MaxFaults
    BY <1>5, <1>11 DEF ConnNotices, ConnFails, Fault
  <2>5. UNCHANGED <<up, track, onTrack, pubVars, viewer, gaugeVars>>
    BY <1>11 DEF ConnNotices, ConnFails
  <2> HIDE DEF c
  <2>6. /\ subs' \in Int /\ lost' \in Nat
        /\ subs' + lost' = subs + lost - One(conn[r].st) + One(c.st)
    BY <1>1, <2>3, <2>5 DEF gaugeVars
  <2> QED
    BY <1>1, <1>5, <2>1, <2>2, <2>4, <2>5, <2>6, SlotStep DEF gaugeVars, pubVars
<1>12. CASE FailedCallback(r)
  <2> DEFINE c == [conn[r] EXCEPT !.st = "closing"]
  <2>1. c \in Conn /\ c.st = "closing" /\ conn[r].st = "failing"
    BY <1>4, <1>12 DEF FailedCallback, ConnStates
  <2>2. conn' = [conn EXCEPT ![r] = c]
    BY <1>1, <1>12 DEF FailedCallback
  <2>3. One(c.st) = 0 /\ One(conn[r].st) = 1
    BY <2>1 DEF One, CountedStates
  <2> HIDE DEF c
  <2>4. /\ subs' \in Int /\ lost' \in Nat
        /\ subs' + lost' = subs + lost - One(conn[r].st) + One(c.st)
    BY <1>1, <1>12, <2>3 DEF FailedCallback, gaugeVars
  <2> QED
    BY <1>1, <1>5, <1>12, <2>1, <2>2, <2>4, SlotStep DEF FailedCallback, pubVars
<1>13. CASE ClosedCallback(r)
  <2>1. One(FreeSlot.st) = 0
    BY <1>6 DEF One, CountedStates
  <2>2. \/ conn[r].st = "closing" /\ One(conn[r].st) = 0 /\ lost' = lost + 1
        \/ conn[r].st = "erring" /\ One(conn[r].st) = 1 /\ lost' = lost
    BY <1>13 DEF ClosedCallback, One, CountedStates
  <2>3. /\ subs' \in Int /\ lost' \in Nat
        /\ subs' + lost' = subs + lost - One(conn[r].st) + One(FreeSlot.st)
    BY <1>1, <1>13, <2>1, <2>2 DEF ClosedCallback
  <2> QED
    BY <1>1, <1>5, <1>6, <1>13, <2>3, SlotStep DEF ClosedCallback, pubVars
<1> QED
  BY <1>7, <1>8, <1>9, <1>10, <1>11, <1>12, <1>13

\* A request that fails before or after the gauge counted its connection.
LEMMA FailStep ==
    ASSUME SfuAssumption, GaugesInv, NEW r \in Slots, SubscribeFails(r)
    PROVE  GaugesInv'
<1>1. /\ conn \in [Slots -> Conn] /\ subs \in Int /\ lost \in Nat
      /\ conn[r] \in Conn /\ conn[r].st = "bound"
  BY GaugesParts DEF TypeOK, Conn, SubscribeFails
<1>2. /\ viewer' \in [Viewers -> [st : {"pause", "signal", "wait"}, slot : {0} \cup Slots]]
      /\ faults' \in 0..MaxFaults
  BY GaugesParts DEF TypeOK, SubscribeFails, ReplyTo, Fault, SfuAssumption
<1>3. PICK c \in {FreeSlot, [conn[r] EXCEPT !.st = "erring"]} :
        /\ conn' = [conn EXCEPT ![r] = c]
        /\ subs' = IF c = FreeSlot THEN subs ELSE subs + 1
  <2>1. [conn[r] EXCEPT !.st = "erring"].st = "erring" /\ FreeSlot.st = "free"
    BY <1>1 DEF Conn, FreeSlot
  <2> QED
    BY <1>1, <2>1 DEF SubscribeFails
<1>4. /\ c \in Conn /\ One(conn[r].st) = 0
      /\ One(c.st) = IF c = FreeSlot THEN 0 ELSE 1
  BY <1>1 DEF Conn, ConnStates, FreeSlot, One, CountedStates
<1>5. /\ subs' \in Int /\ lost' \in Nat
      /\ subs' + lost' = subs + lost - One(conn[r].st) + One(c.st)
  BY <1>1, <1>3, <1>4 DEF SubscribeFails
<1> QED
  BY <1>2, <1>3, <1>4, <1>5, SlotStep DEF SubscribeFails, pubVars

\* The SFU dies, and both gauges with it.
LEMMA CrashStep ==
    ASSUME SfuAssumption, GaugesInv, SfuCrash
    PROVE  GaugesInv'
<1>1. /\ conn' = [r \in Slots |-> FreeSlot] /\ subs' = 0 /\ lost' = 0 /\ pubUp' = 0
      /\ onTrack' = [n \in Tracks |-> IF n <= sessions THEN "gone" ELSE "none"]
      /\ up' = FALSE /\ track' = 0
      /\ UNCHANGED <<pubVars, viewer>>
  BY DEF SfuCrash
<1>2. Counted' = {}
  BY <1>1 DEF Counted, CountedStates, FreeSlot
<1>3. SubsOK'
  <2>1. Cardinality(Counted') = 0
    BY <1>2, FS_EmptySet
  <2> QED
    BY <1>1, <2>1 DEF SubsOK
<1>4. PubOK'
  BY <1>1 DEF PubOK, Readers
<1>5. TypeOK'
  <2>1. TypeOK
    BY GaugesParts
  <2>2. faults' \in 0..MaxFaults
    BY <2>1 DEF SfuCrash, Fault, TypeOK, SfuAssumption
  <2>3. conn' \in [Slots -> Conn] /\ onTrack' \in [Tracks -> OnTrackStates]
    BY <1>1 DEF Conn, ConnStates, FreeSlot, OnTrackStates
  <2>4. pub' = pub /\ sessions' = sessions /\ viewer' = viewer
    BY <1>1 DEF pubVars
  <2>5. up' \in BOOLEAN
    BY <1>1
  <2>6. track' \in {0} \cup Tracks /\ pubUp' \in {0, 1} /\ subs' \in Int /\ lost' \in Nat
    <3>1. track' = 0 /\ pubUp' = 0 /\ subs' = 0 /\ lost' = 0
      BY <1>1
    <3> QED
      BY <3>1
  <2> QED
    BY <2>1, <2>2, <2>3, <2>4, <2>5, <2>6 DEF TypeOK, Conn
<1> QED
  BY <1>3, <1>4, <1>5 DEF GaugesInv

LEMMA InitGauges == Init => GaugesInv
<1> SUFFICES ASSUME Init PROVE GaugesInv
  OBVIOUS
<1>1. TypeOK
  BY SfuAssumption
     DEF Init, TypeOK, FreeSlot, ConnStates, OnTrackStates, SfuAssumption, MaxPub, Tracks
<1>2. Counted = {}
  BY DEF Init, Counted, CountedStates, FreeSlot
<1>3. SubsOK
  <2>1. Cardinality(Counted) = 0
    BY <1>2, FS_EmptySet
  <2> QED
    BY <2>1 DEF Init, SubsOK
<1>4. PubOK
  BY DEF Init, PubOK, Readers
<1> QED
  BY <1>1, <1>3, <1>4, GaugesParts

LEMMA NextGauges == GaugesInv /\ [Next]_vars => GaugesInv'
<1> SUFFICES ASSUME GaugesInv, [Next]_vars PROVE GaugesInv'
  OBVIOUS
<1>1. CASE UNCHANGED vars
  BY <1>1 DEF GaugesInv, SubsOK, PubOK, TypeOK, Counted, Readers, vars
<1>2. ASSUME NEW r \in Slots,
             \/ SubscribePoll(r) \/ SubscribeGivesUp(r) \/ SubscribeAnswers(r)
             \/ SubscribeFails(r) \/ Connected(r) \/ ConnNotices(r)
             \/ ConnFails(r) \/ FailedCallback(r) \/ ClosedCallback(r)
      PROVE  GaugesInv'
  BY <1>2, ConnectionStep, FailStep, SfuAssumption
<1>3. ASSUME NEW v \in Viewers, NEW r \in Slots, HandleSubscribe(v, r)
      PROVE  GaugesInv'
  <2> DEFINE c == [st |-> "poll", v |-> v, trk |-> 0]
  <2>1. TypeOK /\ subs \in Int /\ lost \in Nat /\ conn[r] = FreeSlot
    BY <1>3, GaugesParts DEF TypeOK, HandleSubscribe
  <2>2. c \in Conn /\ One(c.st) = 0 /\ One(conn[r].st) = 0
    BY <2>1 DEF Conn, ConnStates, FreeSlot, One, CountedStates
  <2>3. /\ viewer' \in [Viewers -> [st : {"pause", "signal", "wait"}, slot : {0} \cup Slots]]
        /\ faults' \in 0..MaxFaults /\ conn' = [conn EXCEPT ![r] = c]
    BY <1>3, <2>1 DEF TypeOK, HandleSubscribe
  <2> HIDE DEF c
  <2>4. /\ subs' \in Int /\ lost' \in Nat
        /\ subs' + lost' = subs + lost - One(conn[r].st) + One(c.st)
    BY <1>3, <2>1, <2>2 DEF HandleSubscribe, gaugeVars
  <2> QED
    BY <1>3, <2>2, <2>3, <2>4, SlotStep, SfuAssumption DEF HandleSubscribe, pubVars, gaugeVars
<1> QED
  BY <1>1, <1>2, <1>3, OutsideStep, OnTrackStep, CrashStep, SfuAssumption DEF Next

\* What is counted and has not been told to end is what is open, but for the
\* connections that failed and are being closed.
LEMMA CountedIsOpen ==
    ASSUME SfuAssumption, TypeOK
    PROVE  /\ IsFiniteSet(Open) /\ Cardinality(Open) \in Nat
           /\ Cardinality(Counted) <= Cardinality(Open)
           /\ (\A r \in Slots : conn[r].st # "closing") => Counted = Open
<1>1. IsFiniteSet(Open) /\ Cardinality(Open) \in Nat
  BY FS_Subset, FS_CardinalityType DEF SfuAssumption, Open
<1>2. \A r \in Slots : conn[r].st \in ConnStates
  BY DEF TypeOK
<1>3. Counted \subseteq Open
  BY DEF Counted, CountedStates, Open
<1>4. (\A r \in Slots : conn[r].st # "closing") => Counted = Open
  BY <1>2 DEF Counted, CountedStates, Open, ConnStates
<1>5. Cardinality(Counted) <= Cardinality(Open)
  BY <1>1, <1>3, FS_Subset
<1> QED
  BY <1>1, <1>4, <1>5

LEMMA GaugesImplied == GaugesInv => GaugesNeverHigh
<1> SUFFICES ASSUME GaugesInv PROVE GaugesNeverHigh
  OBVIOUS
<1>1. TypeOK /\ subs = Cardinality(Counted) - lost /\ lost \in Nat /\ pubUp \in {0, 1}
  BY DEF GaugesInv, SubsOK, TypeOK
<1>2. /\ Cardinality(Counted) \in Nat /\ Cardinality(Open) \in Nat
      /\ Cardinality(Counted) <= Cardinality(Open)
      /\ (\A r \in Slots : conn[r].st # "closing") => Counted = Open
  BY <1>1, CountType, CountedIsOpen, SfuAssumption
<1>3. subs <= Cardinality(Open)
  BY <1>1, <1>2
<1>4. lost = 0 /\ (\A r \in Slots : conn[r].st # "closing") => subs = Cardinality(Open)
  BY <1>1, <1>2
<1>5. /\ pubUp = 1 => Readers # {}
      /\ (\A n \in Tracks : onTrack[n] # "done") => (pubUp = 1 <=> Readers # {})
  BY <1>1 DEF GaugesInv, PubOK
<1> QED
  BY <1>1, <1>3, <1>4, <1>5 DEF GaugesNeverHigh

\* Neither gauge is ever too high, and both are exact until something fails,
\* whatever fails and however often (sfu.go, OnTrack and the callbacks of
\* handleSubscribe).
THEOREM GaugesSound == Spec => []GaugesNeverHigh
BY InitGauges, NextGauges, GaugesImplied, PTL DEF Spec

-----------------------------------------------------------------------------
(* The session manager of a load generator.                                  *)

\* Arguments by a smallest counterexample.
LEMMA Smallest ==
    ASSUME NEW T \in SUBSET Nat, T # {}
    PROVE  \E x \in T : \A y \in T : x <= y
<1>1. PICK x \in T : \A y \in T : <<y, x>> \notin OpToRel(<, Nat)
  BY NatLessThanWellFounded, WFMin
<1>2. \A y \in T : ~(y < x)
  BY <1>1 DEF OpToRel
<1> QED
  BY <1>2

\* A finite set of numbers has a largest one.
LEMMA Largest ==
    ASSUME NEW S \in SUBSET Nat, IsFiniteSet(S), S # {}
    PROVE  \E m \in S : \A x \in S : x <= m
<1> DEFINE Has(T) == \E m \in T : \A x \in T : x <= m
           Bad == {n \in Nat : \E T \in SUBSET S : T # {} /\ Cardinality(T) = n /\ ~Has(T)}
<1>1. \A T \in SUBSET S : IsFiniteSet(T) /\ Cardinality(T) \in Nat
  BY FS_Subset, FS_CardinalityType
<1>2. Bad = {}
  <2> SUFFICES ASSUME Bad # {} PROVE FALSE
    OBVIOUS
  <2>1. PICK n \in Bad : \A m \in Bad : n <= m
    BY Smallest
  <2>2. PICK T \in SUBSET S : T # {} /\ Cardinality(T) = n /\ ~Has(T)
    BY <2>1
  <2>3. \A U \in SUBSET S : U # {} /\ Cardinality(U) < n => Has(U)
    BY <1>1, <2>1, <2>2
  <2>4. PICK x \in T : TRUE
    BY <2>2
  <2> DEFINE U == T \ {x}
  <2>5. U \in SUBSET S /\ Cardinality(U) = n - 1
    BY <1>1, <2>2, FS_RemoveElement
  <2>6. CASE U = {}
    BY <2>2, <2>6
  <2>7. CASE U # {}
    <3>1. Cardinality(U) < n
      BY <2>5
    <3>2. PICK m \in U : \A y \in U : y <= m
      <4> HIDE DEF U
      <4> QED
        BY <2>3, <2>5, <2>7, <3>1
    <3>3. Has(T)
      <4>1. CASE x <= m
        BY <3>2, <4>1
      <4>2. CASE m <= x
        BY <3>2, <4>2
      <4> QED
        BY <4>1, <4>2
    <3> QED
      BY <2>2, <3>3
  <2> QED
    BY <2>6, <2>7
<1>3. Has(S)
  BY <1>1, <1>2
<1> QED
  BY <1>3

LEMMA SlotType == \A n \in Sizes \cup {0} : Size(n) \in Slot
<1> DEFINE S == {Size(n) : n \in Sizes \cup {0}}
           A == Sizes \cup {0}
<1>1. /\ Default \in Nat \ {0} /\ A \in SUBSET Nat /\ IsFiniteSet(A) /\ A # {}
      /\ \A n \in A : Size(n) \in Nat \ {0}
  BY ManagerAssumption, FS_AddElement DEF Size
<1>2. PICK m \in A : \A x \in A : x <= m
  BY <1>1, Largest
<1>3. \E k \in S : \A n \in A : Size(n) <= k
  <2>1. \A n \in A : Size(n) = IF n = 0 THEN Default ELSE n
    BY DEF Size
  <2>2. 0 \in A /\ Size(0) \in S /\ Size(m) \in S
    OBVIOUS
  <2>3. CASE Size(m) >= Default
    <3>1. \A n \in A : Size(n) <= Size(m)
      BY <1>1, <1>2, <2>1, <2>3
    <3> QED
      BY <2>2, <3>1
  <2>4. CASE Size(m) < Default
    <3>1. \A n \in A : Size(n) <= Size(0)
      BY <1>1, <1>2, <2>1, <2>4
    <3> QED
      BY <2>2, <3>1
  <2> QED
    BY <1>1, <2>3, <2>4
<1> DEFINE k == CHOOSE k \in S : \A n \in A : Size(n) <= k
<1>4. k \in S /\ \A n \in A : Size(n) <= k
  <2> HIDE DEF S, A
  <2> QED
    BY <1>3
<1>5. Slot = 1..k
  BY DEF Slot
<1>6. k \in Nat
  BY <1>1, <1>4
<1> HIDE DEF k
<1> QED
  BY <1>1, <1>4, <1>5, <1>6

CallerStates == {"idle", "start", "boot", "gauge", "spawn", "done", "dead"}
SessionStates == {"none", "stagger", "run", "failed", "pause", "gone"}

\* After the unlock a caller knows the generation it has made.
MineOK == \A c \in Caller : pc[c] \in {"gauge", "spawn"} => mine[c] \in Gen

\* The runs that are remembered are the last ones, at most Keep; while run ids
\* are fresh, each of them is found under its id.  Start makes one run.
RunInv ==
    /\ Len(log) = gen
    /\ \A g, h \in 1..gen : log[g] = log[h] => g = h
    /\ pc[Start] \in {"start", "boot"} => \A g \in 1..gen : log[g] # Boot
    /\ Len(runs) = IF gen < Keep THEN gen ELSE Keep
    /\ \A i \in 1..Len(runs) : runs[i] = log[gen - Len(runs) + i]
    /\ \A g \in 1..gen : g + Keep > gen => byRun[log[g]] = g

ManagerInv == ManagerTypeOK /\ MineOK /\ RunInv

LEMMA ManagerStart == ManagerInit => ManagerInv
<1> SUFFICES ASSUME ManagerInit PROVE ManagerInv
  OBVIOUS
<1>1. ManagerTypeOK
  <2>1. MaxGen \in Nat /\ Keep \in Nat \ {0} /\ MaxFail \in Nat
    BY ManagerAssumption
  <2>2. runs \in Seq(Id) /\ Len(runs) <= Keep /\ log \in Seq(Id)
    BY <2>1, EmptySeq DEF ManagerInit
  <2>3. /\ base \in BOOLEAN /\ stuck \in BOOLEAN
        /\ gen = 0 /\ cancelled = {} /\ gauge = 0
    BY DEF ManagerInit
  <2>8. gen \in 0..MaxGen
    BY <2>1, <2>3
  <2>6. size \in [Gen -> {0} \cup Slot]
    BY DEF ManagerInit
  <2>7. byRun \in [Id -> {None} \cup Gen]
    BY DEF ManagerInit
  <2>4. pc \in [Caller -> CallerStates] /\ mine \in [Caller -> {None} \cup Gen]
    BY DEF ManagerInit, CallerStates
  <2>5. /\ sess \in [Gen -> [Slot -> SessionStates]]
        /\ ended \in [Gen -> [Slot -> 0..MaxFail]]
    BY <2>1 DEF ManagerInit, SessionStates
  <2> QED
    BY <2>2, <2>3, <2>4, <2>5, <2>6, <2>7, <2>8 DEF ManagerTypeOK, CallerStates, SessionStates
<1>2. MineOK
  BY DEF ManagerInit, MineOK
<1>3. RunInv
  BY ManagerAssumption DEF ManagerInit, RunInv
<1> QED
  BY <1>1, <1>2, <1>3 DEF ManagerInv

\* What Restart remembers and forgets.
LEMMA RemembersLast ==
    ASSUME ManagerTypeOK, RunInv, NEW id \in Id
    PROVE  /\ Remembered(id) \in Seq(Id)
           /\ Len(Remembered(id)) = IF gen + 1 < Keep THEN gen + 1 ELSE Keep
           /\ \A i \in 1..Len(Remembered(id)) :
                Remembered(id)[i] = IF i = Len(Remembered(id)) THEN id
                                    ELSE log[gen + 1 - Len(Remembered(id)) + i]
           /\ gen < Keep => Forgotten = {}
           /\ gen >= Keep => Forgotten = {log[gen - Keep + 1]}
<1>1. /\ gen \in Nat /\ Keep \in Nat \ {0} /\ runs \in Seq(Id) /\ log \in Seq(Id) /\ Len(log) = gen
      /\ Len(runs) = IF gen < Keep THEN gen ELSE Keep
      /\ \A i \in 1..Len(runs) : runs[i] = log[gen - Len(runs) + i]
  BY ManagerAssumption DEF ManagerTypeOK, RunInv
<1>3. CASE gen < Keep
  <2>1. Remembered(id) = Append(runs, id) /\ Forgotten = {} /\ Len(runs) = gen
    BY <1>1, <1>3 DEF Remembered, Forgotten
  <2>2. /\ Append(runs, id) \in Seq(Id) /\ Len(Append(runs, id)) = gen + 1
        /\ \A i \in 1..gen : Append(runs, id)[i] = runs[i]
        /\ Append(runs, id)[gen + 1] = id
    BY <1>1, <2>1, AppendProperties
  <2>3. ASSUME NEW i \in 1..(gen + 1)
        PROVE  Append(runs, id)[i] = IF i = gen + 1 THEN id ELSE log[i]
    <3>1. CASE i = gen + 1
      BY <2>2, <3>1
    <3>2. CASE i \in 1..gen
      <4>2. i \in 1..Len(runs) /\ gen - Len(runs) + i = i /\ i # gen + 1
        BY <1>1, <2>1, <3>2
      <4>1. runs[i] = log[i] /\ i # gen + 1
        BY <1>1, <4>2
      <4> QED
        BY <2>2, <3>2, <4>1
    <3>3. i = gen + 1 \/ i \in 1..gen
      BY <1>1
    <3> QED
      BY <3>1, <3>2, <3>3
  <2>4. Len(Remembered(id)) = gen + 1 /\ (gen + 1 < Keep \/ gen + 1 = Keep)
    BY <1>1, <1>3, <2>1, <2>2
  <2> DEFINE new == Remembered(id)
  <2>5. /\ new \in Seq(Id) /\ Len(new) = gen + 1
        /\ \A i \in 1..(gen + 1) : new[i] = IF i = gen + 1 THEN id ELSE log[i]
    BY <2>1, <2>2, <2>3
  <2> HIDE DEF new
  <2>6. \A i \in 1..Len(new) : new[i] = IF i = Len(new) THEN id ELSE log[gen + 1 - Len(new) + i]
    <3>1. \A i \in 1..(gen + 1) : gen + 1 - (gen + 1) + i = i
      BY <1>1
    <3> QED
      BY <1>1, <2>5, <3>1
  <2>7. Len(new) = IF gen + 1 < Keep THEN gen + 1 ELSE Keep
    BY <1>1, <2>4, <2>5
  <2>8. Forgotten = {} /\ ~(gen >= Keep)
    BY <1>1, <1>3, <2>1
  <2> QED
    BY <2>5, <2>6, <2>7, <2>8 DEF new
<1>4. CASE gen >= Keep
  <2>1. /\ Remembered(id) = Append(Tail(runs), id) /\ Forgotten = {Head(runs)}
        /\ Len(runs) = Keep /\ runs # <<>>
    BY <1>1, <1>4 DEF Remembered, Forgotten
  <2>2. /\ Tail(runs) \in Seq(Id) /\ Len(Tail(runs)) = Keep - 1
        /\ \A i \in 1..(Keep - 1) : Tail(runs)[i] = runs[i + 1]
        /\ Head(runs) = runs[1]
    BY <1>1, <2>1, HeadTailProperties
  <2> DEFINE new == Append(Tail(runs), id)
  <2>3. /\ new \in Seq(Id) /\ Len(new) = Keep
        /\ \A i \in 1..(Keep - 1) : new[i] = Tail(runs)[i]
        /\ new[Keep] = id
    BY <1>1, <2>2, AppendProperties
  <2>4. Head(runs) = log[gen - Keep + 1]
    BY <1>1, <2>1, <2>2
  <2>5. ASSUME NEW i \in 1..Keep
        PROVE  new[i] = IF i = Keep THEN id ELSE log[gen + 1 - Keep + i]
    <3>1. CASE i = Keep
      BY <2>3, <3>1
    <3>2. CASE i \in 1..(Keep - 1)
      <4>1. new[i] = runs[i + 1] /\ i # Keep
        BY <1>1, <2>2, <2>3, <3>2
      <4>2. runs[i + 1] = log[gen - Keep + (i + 1)]
        <5>1. i + 1 \in 1..Len(runs)
          BY <1>1, <2>1, <3>2
        <5> QED
          BY <1>1, <2>1, <5>1
      <4>3. gen - Keep + (i + 1) = gen + 1 - Keep + i
        BY <1>1, <1>4, <3>2
      <4> QED
        BY <4>1, <4>2, <4>3
    <3>3. i = Keep \/ i \in 1..(Keep - 1)
      BY <1>1
    <3> QED
      BY <3>1, <3>2, <3>3
  <2> HIDE DEF new
  <2>6. Remembered(id) = new /\ ~(gen + 1 < Keep) /\ ~(gen < Keep)
    BY <1>1, <1>4, <2>1 DEF new
  <2> QED
    BY <2>1, <2>3, <2>4, <2>5, <2>6
<1>5. gen < Keep \/ gen >= Keep
  BY <1>1
<1> QED
  BY <1>3, <1>4, <1>5

\* Only a restart changes what the invariants about the runs speak of.
LEMMA RunKept ==
    ASSUME RunInv, UNCHANGED runVars,
           pc'[Start] \in {"start", "boot"} => pc[Start] \in {"start", "boot"}
    PROVE  RunInv'
<1>1. gen' = gen /\ byRun' = byRun /\ runs' = runs /\ log' = log
  BY DEF runVars
<1> QED
  BY <1>1 DEF RunInv

\* A restart under an id no run has had keeps them.
LEMMA NewRunKeeps ==
    ASSUME ManagerInv, NEW c \in Caller, NEW id \in Id, NEW n \in Sizes \cup {0},
           NewRun(c, id, n), \A g \in 1..gen : log[g] # id,
           id = Boot => c = Start,
           c # Start => pc[c] = "idle"
    PROVE  ManagerInv'
<1> USE DEF ManagerInv
<1>1. /\ gen \in Nat /\ gen < MaxGen /\ MaxGen \in Nat /\ Keep \in Nat \ {0}
      /\ gen' = gen + 1 /\ gen' \in Gen /\ gen' \in 0..MaxGen
      /\ log \in Seq(Id) /\ Len(log) = gen
  BY ManagerAssumption DEF ManagerTypeOK, RunInv, NewRun, Gen
<1>2. /\ log' = Append(log, id) /\ log' \in Seq(Id) /\ Len(log') = gen'
      /\ \A g \in 1..gen : log'[g] = log[g]
      /\ log'[gen'] = id
  BY <1>1, AppendProperties DEF NewRun
<1>3. \A g \in 1..gen' : g = gen' \/ g \in 1..gen
  BY <1>1
<1>4. runs' = Remembered(id)
  BY DEF NewRun
<1>5. /\ runs' \in Seq(Id)
      /\ Len(runs') = IF gen' < Keep THEN gen' ELSE Keep
      /\ \A i \in 1..Len(runs') : runs'[i] = log'[gen' - Len(runs') + i]
  <2> DEFINE new == Remembered(id)
  <2>1. /\ new \in Seq(Id)
        /\ Len(new) = IF gen + 1 < Keep THEN gen + 1 ELSE Keep
        /\ \A i \in 1..Len(new) : new[i] = IF i = Len(new) THEN id ELSE log[gen + 1 - Len(new) + i]
    BY RemembersLast
  <2> HIDE DEF new, ManagerInv
  <2>2. Len(new) \in 1..gen' /\ runs' = new
    BY <1>1, <1>4, <2>1 DEF new
  <2>3. ASSUME NEW i \in 1..Len(new)
        PROVE  new[i] = log'[gen' - Len(new) + i]
    <3>1. CASE i = Len(new)
      <4>1. gen' - Len(new) + i = gen'
        BY <1>1, <2>2, <3>1
      <4> QED
        BY <1>2, <2>1, <3>1, <4>1
    <3>2. CASE i # Len(new)
      <4>1. gen + 1 - Len(new) + i = gen' - Len(new) + i /\ gen' - Len(new) + i \in 1..gen
        BY <1>1, <2>2, <3>2
      <4>2. new[i] = log[gen' - Len(new) + i]
        BY <2>1, <3>2, <4>1
      <4> QED
        BY <1>2, <4>1, <4>2
    <3> QED
      BY <3>1, <3>2
  <2> QED
    BY <1>1, <2>1, <2>2, <2>3
<1>6. ManagerTypeOK'
  <2>1. cancelled' \subseteq Gen
    BY <1>1 DEF ManagerTypeOK, NewRun, Cancel, Gen
  <2>2. size' \in [Gen -> {0} \cup Slot]
    BY <1>1, SlotType DEF ManagerTypeOK, NewRun
  <2>3. byRun' \in [Id -> {None} \cup Gen]
    BY <1>1 DEF ManagerTypeOK, NewRun
  <2>4. mine' \in [Caller -> {None} \cup Gen]
    BY <1>1 DEF ManagerTypeOK, NewRun
  <2>5. pc' \in [Caller -> {"idle", "start", "boot", "gauge", "spawn", "done", "dead"}]
    BY DEF ManagerTypeOK, NewRun
  <2>6. Len(runs') <= Keep
    BY <1>1, <1>5
  <2> QED
    BY <1>1, <1>2, <1>5, <2>1, <2>2, <2>3, <2>4, <2>5, <2>6 DEF ManagerTypeOK, NewRun, sessVars
<1>7. MineOK'
  BY <1>1 DEF MineOK, ManagerTypeOK, NewRun
<1>8. \A g, h \in 1..gen' : log'[g] = log'[h] => g = h
  <2>1. \A g, h \in 1..gen : log[g] = log[h] => g = h
    BY DEF RunInv
  <2> QED
    BY <1>2, <1>3, <2>1
<1>9. pc'[Start] \in {"start", "boot"} => \A g \in 1..gen' : log'[g] # Boot
  <2> SUFFICES ASSUME pc'[Start] \in {"start", "boot"}, NEW g \in 1..gen' PROVE log'[g] # Boot
    OBVIOUS
  <2>1. c # Start /\ pc'[Start] = pc[Start]
    BY DEF ManagerTypeOK, NewRun, Caller
  <2>2. id # Boot
    BY <2>1
  <2> QED
    BY <1>2, <1>3, <2>1, <2>2 DEF RunInv
<1>10. \A g \in 1..gen' : g + Keep > gen' => byRun'[log'[g]] = g
  <2> SUFFICES ASSUME NEW g \in 1..gen', g + Keep > gen' PROVE byRun'[log'[g]] = g
    OBVIOUS
  <2>1. \A r \in Id : byRun'[r] = IF r \in Forgotten THEN None ELSE IF r = id THEN gen' ELSE byRun[r]
    BY DEF NewRun
  <2>2. /\ gen < Keep => Forgotten = {}
        /\ gen >= Keep => Forgotten = {log[gen - Keep + 1]}
    BY RemembersLast
  <2>3. CASE g = gen'
    <3>1. id \notin Forgotten
      <4>1. CASE gen < Keep
        BY <2>2, <4>1
      <4>2. CASE gen >= Keep
        <5>1. gen - Keep + 1 \in 1..gen
          BY <1>1, <4>2
        <5> QED
          BY <2>2, <4>2, <5>1
      <4> QED
        BY <1>1, <4>1, <4>2
    <3> QED
      BY <1>2, <2>1, <2>3, <3>1
  <2>4. CASE g \in 1..gen
    <3>1. log'[g] = log[g] /\ log[g] # id /\ log[g] \in Id
      BY <1>1, <1>2, <2>4, ElementOfSeq
    <3>2. log[g] \notin Forgotten
      <4>1. CASE gen < Keep
        BY <2>2, <4>1
      <4>2. CASE gen >= Keep
        <5>1. gen - Keep + 1 \in 1..gen /\ g # gen - Keep + 1
          BY <1>1, <2>4, <4>2
        <5>2. log[g] # log[gen - Keep + 1]
          BY <2>4, <5>1 DEF RunInv
        <5> QED
          BY <2>2, <4>2, <5>2
      <4> QED
        BY <1>1, <4>1, <4>2
    <3>3. g + Keep > gen
      BY <1>1, <2>4
    <3>4. byRun[log[g]] = g
      BY <2>4, <3>3 DEF RunInv
    <3> QED
      BY <2>1, <3>1, <3>2, <3>4
  <2> QED
    BY <1>3, <2>3, <2>4
<1>11. RunInv'
  BY <1>2, <1>5, <1>8, <1>9, <1>10 DEF RunInv
<1> QED
  BY <1>6, <1>7, <1>11

LEMMA ManagerStep == ASSUME ~Reuse, ManagerInv, [ManagerNext]_managerVars PROVE ManagerInv'
<1> USE DEF ManagerInv
<1>0. Start \notin Client /\ Boot \notin RunId /\ MaxFail \in Nat
  BY ManagerAssumption
<1>1. CASE UNCHANGED managerVars
  <2>1. UNCHANGED runVars /\ UNCHANGED sessVars
    BY <1>1 DEF managerVars
  <2>2. ManagerTypeOK' /\ MineOK'
    BY <1>1 DEF ManagerTypeOK, MineOK, managerVars, runVars, sessVars
  <2>3. RunInv'
    BY <1>1, <2>1, RunKept DEF managerVars
  <2> QED
    BY <2>2, <2>3
<1>2. CASE StartUp
  <2>1. ManagerTypeOK' /\ MineOK'
    BY <1>2 DEF ManagerTypeOK, MineOK, StartUp, runVars, sessVars
  <2>2. RunInv'
    BY <1>2, RunKept DEF StartUp
  <2> QED
    BY <2>1, <2>2
<1>3. CASE BootRun
  <2>1. Start \in Caller /\ Boot \in Id /\ \A g \in 1..gen : log[g] # Boot
    BY <1>3 DEF BootRun, Caller, Id, RunInv
  <2> QED
    BY <1>3, <2>1, NewRunKeeps DEF BootRun
<1>4. ASSUME NEW c \in Client, Request(c) PROVE ManagerInv'
  <2>1. c \in Caller /\ c # Start /\ pc[c] = "idle"
    BY <1>0, <1>4 DEF Caller, Request
  <2>2. PICK id \in RunId, n \in Sizes : ~Contains(log, id) /\ IF base THEN NewRun(c, id, n) ELSE Panic(c)
    BY <1>4 DEF Request
  <2>3. CASE base
    <3>1. id \in Id /\ id # Boot /\ NewRun(c, id, n)
      BY <1>0, <2>2, <2>3 DEF Id
    <3>2. \A g \in 1..gen : log[g] # id
      BY <2>2 DEF Contains, RunInv
    <3> QED
      BY <2>1, <3>1, <3>2, NewRunKeeps
  <2>4. CASE ~base
    <3>1. Panic(c)
      BY <2>2, <2>4
    <3>2. ManagerTypeOK' /\ MineOK'
      BY <2>1, <3>1 DEF ManagerTypeOK, MineOK, Panic, runVars, sessVars
    <3>3. pc'[Start] = pc[Start]
      BY <2>1, <3>1 DEF Panic, ManagerTypeOK, Caller
    <3>4. RunInv'
      BY <3>1, <3>3, RunKept DEF Panic
    <3> QED
      BY <3>2, <3>4
  <2> QED
    BY <2>3, <2>4
<1>5. ASSUME NEW c \in Caller, SetGauge(c) PROVE ManagerInv'
  <2>1. mine[c] \in Gen /\ size[mine[c]] \in {0} \cup Slot
    BY <1>5 DEF SetGauge, MineOK, ManagerTypeOK
  <2>2. ManagerTypeOK' /\ MineOK'
    BY <1>5, <2>1 DEF ManagerTypeOK, MineOK, SetGauge, runVars, sessVars
  <2>3. RunInv'
    <3>1. pc'[Start] = IF c = Start THEN "spawn" ELSE pc[Start]
      BY <1>5 DEF SetGauge, ManagerTypeOK, Caller
    <3> QED
      BY <1>5, <3>1, RunKept DEF SetGauge
  <2> QED
    BY <2>2, <2>3
<1>6. ASSUME NEW c \in Caller, Spawn(c) PROVE ManagerInv'
  <2>1. [i \in Slot |-> IF i <= size[mine[c]] THEN "stagger" ELSE "none"]
            \in [Slot -> {"none", "stagger", "run", "failed", "pause", "gone"}]
    OBVIOUS
  <2>2. sess' \in [Gen -> [Slot -> {"none", "stagger", "run", "failed", "pause", "gone"}]]
    BY <1>6, <2>1 DEF Spawn, ManagerTypeOK
  <2>4. ManagerTypeOK' /\ MineOK'
    BY <1>6, <2>2 DEF ManagerTypeOK, MineOK, Spawn, runVars
  <2>3. RunInv'
    <3>1. pc'[Start] = IF c = Start THEN "done" ELSE pc[Start]
      BY <1>6 DEF Spawn, ManagerTypeOK, Caller
    <3> QED
      BY <1>6, <3>1, RunKept DEF Spawn
  <2> QED
    BY <2>3, <2>4
<1>7. ASSUME NEW g \in Gen, NEW i \in Slot, Session(g, i) \/ SessionFault(g, i) PROVE ManagerInv'
  <2>1. UNCHANGED <<base, stuck, runVars, gauge, pc, mine>>
    BY <1>7 DEF Session, SessionFault
  <2>2. PICK st \in {"none", "stagger", "run", "failed", "pause", "gone"} :
          /\ sess' = [sess EXCEPT ![g][i] = st]
          /\ \/ ended' = ended
             \/ ended[g][i] < MaxFail /\ ended' = [ended EXCEPT ![g][i] = @ + 1]
    <3>1. CASE Continue(g, i)
      BY <3>1 DEF Continue, SetSess
    <3>2. CASE TransportEnds(g, i)
      BY <3>2 DEF TransportEnds, SetSess
    <3>3. CASE Pause(g, i)
      BY <3>3 DEF Pause, SetSess
    <3>4. CASE TransportFails(g, i)
      BY <3>4 DEF TransportFails, SetSess
    <3> QED
      BY <1>7, <3>1, <3>2, <3>3, <3>4 DEF Session, SessionFault
  <2>3. sess' \in [Gen -> [Slot -> {"none", "stagger", "run", "failed", "pause", "gone"}]]
    <3>1. [sess[g] EXCEPT ![i] = st] \in [Slot -> {"none", "stagger", "run", "failed", "pause", "gone"}]
      BY DEF ManagerTypeOK
    <3> QED
      BY <2>2, <3>1 DEF ManagerTypeOK
  <2>4. ended' \in [Gen -> [Slot -> 0..MaxFail]]
    <3>1. CASE ended' = ended
      BY <3>1 DEF ManagerTypeOK
    <3>2. CASE ended[g][i] < MaxFail /\ ended' = [ended EXCEPT ![g][i] = @ + 1]
      <4>1. ended[g] \in [Slot -> 0..MaxFail] /\ ended[g][i] \in 0..MaxFail
        BY DEF ManagerTypeOK
      <4>2. [ended[g] EXCEPT ![i] = @ + 1] \in [Slot -> 0..MaxFail]
        BY <1>0, <3>2, <4>1
      <4>3. ended' = [ended EXCEPT ![g] = [ended[g] EXCEPT ![i] = @ + 1]]
        BY <3>2
      <4> QED
        BY <4>2, <4>3 DEF ManagerTypeOK
    <3> QED
      BY <2>2, <3>1, <3>2
  <2>5. ManagerTypeOK' /\ MineOK'
    BY <2>1, <2>3, <2>4 DEF ManagerTypeOK, MineOK, runVars
  <2>7. RunInv'
    BY <2>1, RunKept DEF runVars
  <2> QED
    BY <2>5, <2>7
<1> QED
  BY <1>1, <1>2, <1>3, <1>4, <1>5, <1>6, <1>7 DEF ManagerNext, After

\* The results of the latest Keep runs are those of the sessions that ran under
\* their ids last, if no client uses a run id again.
THEOREM LatestKept == ASSUME ~Reuse PROVE ManagerSpec => []LatestRunsKept
<1>1. ManagerInit => ManagerInv
  BY ManagerStart
<1>2. ManagerInv /\ [ManagerNext]_managerVars => ManagerInv'
  BY ManagerStep
<1>3. ManagerInv => LatestRunsKept
  BY DEF ManagerInv, RunInv, LatestRunsKept
<1> QED
  BY <1>1, <1>2, <1>3, PTL DEF ManagerSpec
=============================================================================
