---------------------------- MODULE PublisherProofs ----------------------------
(* What is proved about the publisher for groups of any length, a ladder of  *)
(* any height, and any number of groups, failures and restarts.              *)
EXTENDS Publisher, SequenceTheorems, TLAPS

-----------------------------------------------------------------------------
(* The ladder.  The counters are what is left of the streak after the moves, *)
(* unless the end of the ladder stops them.                                  *)

LadderTypeOK ==
    /\ tier \in 0..Top /\ slow \in Nat /\ fast \in Nat
    /\ streak \in [of : Ratio, n : Nat, from : 0..Top]

Counters ==
    /\ streak.of # "slow" => slow = 0
    /\ streak.of # "fast" => fast = 0
    /\ streak.of = "slow" /\ tier > 0 => slow = streak.n % 2
    /\ streak.of = "fast" /\ tier < Top => fast = streak.n % 10

LadderInv == LadderTypeOK /\ Counters /\ LadderFollowsStreak

LEMMA StreakType ==
    ASSUME LadderTypeOK
    PROVE  /\ streak.of \in Ratio /\ streak.n \in Nat /\ streak.from \in 0..Top
           /\ streak = [of |-> streak.of, n |-> streak.n, from |-> streak.from]
BY DEF LadderTypeOK

LEMMA NewStreakType ==
    ASSUME NEW t \in 0..Top
    PROVE  /\ NewStreak(t) \in [of : Ratio, n : Nat, from : 0..Top]
           /\ NewStreak(t).of = "steady" /\ NewStreak(t).n = 0 /\ NewStreak(t).from = t
BY DEF NewStreak, Ratio

\* A session begins with no counts and no streak.
LEMMA FreshLadder ==
    ASSUME PublisherAssumption, NEW t \in 0..Top,
           tier' = t, slow' = 0, fast' = 0, streak' = NewStreak(t)
    PROVE  LadderInv'
BY NewStreakType DEF LadderInv, LadderTypeOK, Counters, LadderFollowsStreak

\* Half a number, and a tenth of one, grow when the remainder is full.
LEMMA DivTwo ==
    ASSUME NEW n \in Nat
    PROVE  /\ n % 2 \in {0, 1} /\ n \div 2 \in Nat
           /\ n % 2 = 0 => (n + 1) % 2 = 1 /\ (n + 1) \div 2 = n \div 2
           /\ n % 2 = 1 => (n + 1) % 2 = 0 /\ (n + 1) \div 2 = n \div 2 + 1
OBVIOUS

LEMMA DivTen ==
    ASSUME NEW n \in Nat
    PROVE  /\ n % 10 \in 0..9 /\ n \div 10 \in Nat
           /\ n % 10 < 9 => (n + 1) % 10 = (n % 10) + 1 /\ (n + 1) \div 10 = n \div 10
           /\ n % 10 = 9 => (n + 1) % 10 = 0 /\ (n + 1) \div 10 = (n \div 10) + 1
OBVIOUS

\* A ratio that continues the streak, and one that begins another.
LEMMA AdaptLadder ==
    ASSUME PublisherAssumption, LadderInv, NEW r \in Ratio, Adapt(r)
    PROVE  LadderInv'
<1> DEFINE s == Count(r, "slow", slow)
           f == Count(r, "fast", fast)
<1> USE DEF LadderInv
<1>1. /\ tier \in 0..Top /\ slow \in Nat /\ fast \in Nat /\ Top \in Nat
      /\ streak.of \in Ratio /\ streak.n \in Nat /\ streak.from \in 0..Top
  BY StreakType DEF LadderTypeOK, PublisherAssumption
<1>2. Move(s, f)
  BY DEF Adapt
<1>3. /\ s = (IF r = "slow" THEN slow + 1 ELSE 0)
      /\ f = (IF r = "fast" THEN fast + 1 ELSE 0)
  BY DEF Count
<1> HIDE DEF s, f
<1>4. tier' \in 0..Top /\ slow' \in Nat /\ fast' \in Nat
  BY <1>1, <1>2, <1>3 DEF Move, DownAfter, UpAfter
<1>5. CASE streak.of = r
  <2>1. /\ streak'.of = r /\ streak'.n = streak.n + 1 /\ streak'.from = streak.from
        /\ streak' \in [of : Ratio, n : Nat, from : 0..Top]
    BY <1>1, <1>5, StreakType DEF Adapt
  <2>2. CASE r = "slow"
    <3>1. s = slow + 1 /\ f = 0
      BY <1>3, <2>2
    <3>2. CASE tier = 0
      BY <1>1, <1>2, <1>4, <1>5, <2>1, <2>2, <3>1, <3>2, DivTwo
         DEF Move, DownAfter, UpAfter, LadderTypeOK, Counters, LadderFollowsStreak
    <3>3. CASE tier > 0
      <4> DEFINE n == streak.n
      <4>1. slow = n % 2 /\ n \div 2 <= streak.from /\ tier = streak.from - n \div 2
        BY <1>1, <1>5, <2>2, <3>3, DivTwo DEF Counters, LadderFollowsStreak, DownAfter
      <4>2. /\ fast' = 0 /\ slow' = (n + 1) % 2
            /\ (n + 1) \div 2 <= streak.from /\ tier' = streak.from - (n + 1) \div 2
        <5>1. CASE n % 2 = 0
          BY <1>1, <1>2, <3>1, <3>3, <4>1, <5>1, DivTwo DEF Move, DownAfter, UpAfter
        <5>2. CASE n % 2 = 1
          <6>1. s = 2 /\ f = 0
            BY <3>1, <4>1, <5>2
          <6>2. tier' = tier - 1 /\ slow' = 0 /\ fast' = 0
            BY <1>2, <3>3, <6>1 DEF Move, DownAfter, UpAfter
          <6>3. (n + 1) % 2 = 0 /\ (n + 1) \div 2 = n \div 2 + 1 /\ n \div 2 \in Nat
            BY <1>1, <5>2, DivTwo
          <6> QED
            BY <1>1, <3>3, <4>1, <6>2, <6>3
        <5> QED
          BY <1>1, <5>1, <5>2, DivTwo
      <4> QED
        BY <1>1, <1>4, <2>1, <2>2, <4>2
           DEF LadderTypeOK, Counters, LadderFollowsStreak, DownAfter
    <3> QED
      BY <1>1, <3>2, <3>3
  <2>3. CASE r = "fast"
    <3>1. s = 0 /\ f = fast + 1
      BY <1>3, <2>3
    <3>2. CASE tier = Top
      BY <1>1, <1>2, <1>4, <1>5, <2>1, <2>3, <3>1, <3>2, DivTen
         DEF Move, DownAfter, UpAfter, LadderTypeOK, Counters, LadderFollowsStreak
    <3>3. CASE tier < Top
      <4> DEFINE n == streak.n
      <4>1. fast = n % 10 /\ tier = streak.from + n \div 10
        BY <1>1, <1>5, <2>3, <3>3, DivTen DEF Counters, LadderFollowsStreak, UpAfter
      <4>2. /\ slow' = 0 /\ fast' = (n + 1) % 10
            /\ streak.from + (n + 1) \div 10 <= Top
            /\ tier' = streak.from + (n + 1) \div 10
        <5>1. CASE n % 10 < 9
          BY <1>1, <1>2, <3>1, <3>3, <4>1, <5>1, DivTen DEF Move, DownAfter, UpAfter
        <5>2. CASE n % 10 = 9
          BY <1>1, <1>2, <3>1, <3>3, <4>1, <5>2, DivTen DEF Move, DownAfter, UpAfter
        <5> QED
          BY <1>1, <5>1, <5>2, DivTen
      <4> QED
        BY <1>1, <1>4, <2>1, <2>3, <4>2
           DEF LadderTypeOK, Counters, LadderFollowsStreak, UpAfter
    <3> QED
      BY <1>1, <3>2, <3>3
  <2>4. CASE r = "steady"
    BY <1>1, <1>2, <1>3, <1>4, <1>5, <2>1, <2>4
       DEF Move, DownAfter, UpAfter, LadderTypeOK, Counters, LadderFollowsStreak
  <2> QED
    BY <2>2, <2>3, <2>4 DEF Ratio
<1>6. CASE streak.of # r
  <2>1. /\ streak' = [of |-> r, n |-> 1, from |-> tier]
        /\ streak' \in [of : Ratio, n : Nat, from : 0..Top]
    BY <1>1, <1>6 DEF Adapt
  <2>2. /\ r = "slow" => s = 1 /\ f = 0
        /\ r = "fast" => s = 0 /\ f = 1
        /\ r = "steady" => s = 0 /\ f = 0
    BY <1>3, <1>6 DEF Counters
  <2>3. tier' = tier /\ slow' = s /\ fast' = f
    BY <1>2, <2>2 DEF Move, DownAfter, UpAfter, Ratio
  <2> QED
    BY <1>1, <1>4, <2>1, <2>2, <2>3
       DEF DownAfter, UpAfter, Ratio, LadderTypeOK, Counters, LadderFollowsStreak
<1> QED
  BY <1>5, <1>6

LEMMA KeptLadder == LadderInv /\ UNCHANGED ladderVars => LadderInv'
BY DEF LadderInv, LadderTypeOK, Counters, LadderFollowsStreak, ladderVars

LEMMA InitLadder == Init => LadderInv
BY PublisherAssumption, NewStreakType
   DEF Init, PublisherAssumption, LadderInv, LadderTypeOK, Counters, LadderFollowsStreak

LEMMA NextLadder == LadderInv /\ [Next]_vars => LadderInv'
<1> SUFFICES ASSUME LadderInv, [Next]_vars PROVE LadderInv'
  OBVIOUS
<1>1. tier \in 0..Top /\ StartTier \in 0..Top
  BY PublisherAssumption DEF LadderInv, LadderTypeOK, PublisherAssumption
<1>2. CASE Connect
  BY <1>1, <1>2, FreshLadder, PublisherAssumption DEF Connect
<1>3. CASE Kill
  BY <1>1, <1>3, FreshLadder, PublisherAssumption DEF Kill
<1>4. CASE Tick
  BY <1>4, AdaptLadder, KeptLadder, PublisherAssumption DEF Tick, Boundary, Inside, ladderVars
<1>5. CASE \/ OpenGroup \/ WriteFrame \/ Wake \/ ConnectFails \/ SessionFails \/ Stop
           \/ UNCHANGED vars
  BY <1>5, KeptLadder
     DEF OpenGroup, WriteFrame, Wake, ConnectFails, SessionFails, Stop, vars, ladderVars
<1> QED
  BY <1>2, <1>3, <1>4, <1>5 DEF Next, Run

\* The tier is a function of the current run of equal ratios, for any ladder and
\* however many groups and sessions came before (pub.go, adapt).
THEOREM LadderSound == Spec => []LadderFollowsStreak
<1>1. LadderInv => LadderFollowsStreak
  BY DEF LadderInv
<1> QED
  BY <1>1, InitLadder, NextLadder, PTL DEF Spec
-----------------------------------------------------------------------------
(* The feed.  What ties the streams to the generator is the group that the   *)
(* next stream would carry: one more than the last one's, and one more again *)
(* for each session lost since.                                              *)

Entry == [epoch : 0..MaxKill, session : Nat, seq : 0..MaxGroup,
          objs : 0..GroupFrames, end : {"open", "fin", "lost"}]

Last == streams[Len(streams)]

NextGroup == IF pc = "open" THEN frame.group
             ELSE IF gen.object = 0 THEN gen.group ELSE gen.group + 1

\* A session is lost and the next one not there yet.
Away == IF pc \in {"tick", "open", "write"} THEN 0 ELSE 1

\* The groups begun and not paid for by a session.
Debt == NextGroup - session - Away

\* How many frames of its group the open stream has.
Written == IF pc = "write" THEN frame.object
           ELSE IF gen.object = 0 THEN GroupFrames ELSE gen.object

StreamsOK == Len(streams) <= 2 /\ \A i \in 1..Len(streams) : streams[i].epoch <= kills

PcOK == /\ on => pc \in {"tick", "write"}
        /\ pc = "write" => on
        /\ pc = "open" => frame.object = 0
        /\ pc \in {"open", "write"} => gen = Advance(frame)

\* The stream that is open is the last one, of this session.
OpenOK ==
    on => /\ Len(streams) > 0
          /\ Last.end = "open" /\ Last.epoch = kills /\ Last.session = session
          /\ Last.seq + 1 = NextGroup /\ Last.objs = Written

EndedOK == ~on /\ Len(streams) > 0 => Last.end # "open"

\* How far the next stream may be ahead of the last.
AheadOK ==
    Len(streams) > 0 /\ Last.epoch = kills =>
        /\ Last.seq < NextGroup /\ Last.session <= session
        /\ Debt <= 1 + Last.seq - Last.session

Pairs == \A i \in 1..Len(streams) - 1 :
    LET a == streams[i]  b == streams[i + 1]
    IN /\ b.epoch > a.epoch \/ (b.epoch = a.epoch /\ b.seq > a.seq)
       /\ a.end # "open"
       /\ a.epoch = b.epoch => b.seq - a.seq <= 1 + b.session - a.session

FeedInv == /\ TypeOK /\ StreamsOK /\ PcOK /\ OpenOK /\ EndedOK /\ AheadOK
           /\ Pairs /\ CleanEndIsWhole

\* A number of the generator: what Advance makes of it.
LEMMA AdvanceType ==
    ASSUME PublisherAssumption, NEW g \in [group : 0..MaxGroup, object : 0..GroupFrames - 1]
    PROVE  /\ g.group \in Nat /\ g.object \in 0..GroupFrames - 1
           /\ Advance(g).group = IF g.object + 1 = GroupFrames THEN g.group + 1 ELSE g.group
           /\ Advance(g).object = IF g.object + 1 = GroupFrames THEN 0 ELSE g.object + 1
           /\ g.group < MaxGroup => Advance(g) \in [group : 0..MaxGroup, object : 0..GroupFrames - 1]
BY DEF Advance, PublisherAssumption

\* The fields of a stream.
LEMMA EntryType ==
    ASSUME TypeOK, NEW i \in 1..Len(streams)
    PROVE  /\ streams[i] \in Entry
           /\ streams[i].epoch \in 0..MaxKill /\ streams[i].session \in Nat
           /\ streams[i].seq \in 0..MaxGroup /\ streams[i].objs \in 0..GroupFrames
           /\ streams[i].end \in {"open", "fin", "lost"}
<1>1. streams \in Seq(Entry)
  BY DEF TypeOK, Entry
<1>2. streams[i] \in Entry
  BY <1>1, ElementOfSeq
<1> QED
  BY <1>2 DEF Entry

\* Ending the open stream changes its end and nothing else.
LEMMA EndOpenStep ==
    ASSUME TypeOK, NEW e \in {"fin", "lost"}, on => Len(streams) > 0
    PROVE  /\ EndOpen(e) \in Seq(Entry) /\ Len(EndOpen(e)) = Len(streams)
           /\ \A i \in 1..Len(streams) :
                /\ EndOpen(e)[i].epoch = streams[i].epoch
                /\ EndOpen(e)[i].session = streams[i].session
                /\ EndOpen(e)[i].seq = streams[i].seq
                /\ EndOpen(e)[i].objs = streams[i].objs
                /\ EndOpen(e)[i].end = IF on /\ i = Len(streams) THEN e ELSE streams[i].end
<1>1. streams \in Seq(Entry) /\ Len(streams) \in Nat
  BY LenProperties DEF TypeOK, Entry
<1>2. CASE on
  <2> DEFINE n == Len(streams)
             x == [streams[n] EXCEPT !.end = e]
  <2>1. n \in 1..Len(streams)
    BY <1>1, <1>2
  <2>2. x \in Entry
    BY <2>1, EntryType DEF Entry
  <2>3. /\ x.epoch = streams[n].epoch /\ x.session = streams[n].session
        /\ x.seq = streams[n].seq /\ x.objs = streams[n].objs /\ x.end = e
    BY <2>1, EntryType DEF Entry
  <2>4. EndOpen(e) = [streams EXCEPT ![n] = x]
    BY <1>2 DEF EndOpen
  <2> HIDE DEF x
  <2>5. /\ EndOpen(e) \in Seq(Entry) /\ Len(EndOpen(e)) = Len(streams)
        /\ \A i \in 1..Len(streams) : EndOpen(e)[i] = IF i = n THEN x ELSE streams[i]
    BY <1>1, <2>1, <2>2, <2>4, ExceptSeq
  <2> QED
    BY <1>2, <2>3, <2>5
<1>3. CASE ~on
  BY <1>1, <1>3 DEF EndOpen
<1> QED
  BY <1>2, <1>3

\* Opening a stream keeps the last one and the new one.
LEMMA LastTwoStep ==
    ASSUME NEW s \in Seq(Entry), Len(s) \in 0..2, NEW x \in Entry
    PROVE  LET t == LastTwo(Append(s, x)) IN
           /\ t \in Seq(Entry) /\ Len(t) \in {1, 2} /\ (Len(t) = 2 <=> Len(s) > 0)
           /\ t[Len(t)] = x
           /\ Len(s) > 0 => t[1] = s[Len(s)]
<1> DEFINE a == Append(s, x)
           m == IF Len(a) > 2 THEN Len(a) - 1 ELSE 1
           t == SubSeq(a, m, Len(a))
<1>1. /\ Len(s) \in 0..2 /\ a \in Seq(Entry) /\ Len(a) = Len(s) + 1 /\ a[Len(a)] = x
      /\ \A i \in 1..Len(s) : a[i] = s[i]
  <2>2. a \in Seq(Entry) /\ Len(a) = Len(s) + 1
    BY AppendProperties
  <2>3. \A i \in 1..Len(s) + 1 : a[i] = IF i = Len(s) + 1 THEN x ELSE s[i]
    BY AppendProperties
  <2> HIDE DEF a
  <2> QED
    BY <2>2, <2>3
<1> HIDE DEF a
<1>2. \A i \in m..Len(a) : a[i] \in Entry
  BY <1>1, ElementOfSeq
<1>3. m \in 1..2 /\ Len(a) \in 1..3 /\ m <= Len(a)
  BY <1>1
<1> HIDE DEF m
<1>4. /\ t \in Seq(Entry) /\ Len(t) = Len(a) - m + 1
      /\ \A i \in 1..Len(a) - m + 1 : t[i] = a[m + i - 1]
  BY <1>2, <1>3, SubSeqProperties
<1>5. t = LastTwo(Append(s, x))
  BY DEF LastTwo, a, m
<1> HIDE DEF t
<1>6. Len(t) \in {1, 2} /\ (Len(t) = 2 <=> Len(s) > 0) /\ m + Len(t) - 1 = Len(a)
  BY <1>1, <1>3, <1>4 DEF m
<1>7. t[Len(t)] = x
  BY <1>1, <1>3, <1>4, <1>6
<1>8. Len(s) > 0 => t[1] = s[Len(s)]
  BY <1>1, <1>3, <1>4, <1>6
<1> QED
  BY <1>4, <1>5, <1>6, <1>7, <1>8

LEMMA LastType ==
    ASSUME TypeOK, Len(streams) > 0
    PROVE  /\ Len(streams) \in 1..Len(streams) /\ Last \in Entry
           /\ Last.epoch \in Nat /\ Last.session \in Nat
           /\ Last.seq \in Nat /\ Last.objs \in Nat
<1>1. Len(streams) \in Nat
  BY LenProperties DEF TypeOK
<1>2. Len(streams) \in 1..Len(streams)
  BY <1>1
<1> QED
  BY <1>2, EntryType DEF Last, PublisherAssumption

LEMMA NumberType ==
    ASSUME PublisherAssumption, TypeOK
    PROVE  /\ gen.group \in Nat /\ gen.object \in 0..GroupFrames - 1
           /\ frame.group \in 0..MaxGroup /\ frame.object \in 0..GroupFrames - 1
           /\ GroupFrames \in Nat /\ GroupFrames > 1
           /\ session \in Nat /\ kills \in Nat /\ MaxGroup \in Nat /\ MaxKill \in Nat
           /\ NextGroup \in Nat /\ Debt \in Int /\ Len(streams) \in Nat
<1>1. Len(streams) \in Nat
  BY LenProperties DEF TypeOK
<1>2. /\ gen.group \in Nat /\ gen.object \in 0..GroupFrames - 1
      /\ frame.group \in 0..MaxGroup /\ frame.object \in 0..GroupFrames - 1
      /\ GroupFrames \in Nat /\ GroupFrames > 1
      /\ session \in Nat /\ kills \in Nat /\ MaxGroup \in Nat /\ MaxKill \in Nat
  BY DEF PublisherAssumption, TypeOK
<1>3. NextGroup \in Nat
  BY <1>2 DEF NextGroup
<1>4. Debt \in Int
  BY <1>2, <1>3 DEF Debt, Away
<1> QED
  BY <1>1, <1>2, <1>3, <1>4

LEMMA NextNumberType ==
    ASSUME PublisherAssumption, TypeOK'
    PROVE  session' \in Nat /\ NextGroup' \in Nat /\ Debt' \in Int
<1>1. /\ gen'.group \in Nat /\ frame'.group \in 0..MaxGroup /\ session' \in Nat
      /\ MaxGroup \in Nat
  BY DEF PublisherAssumption, TypeOK
<1>2. NextGroup' \in Nat
  BY <1>1 DEF NextGroup
<1>3. Debt' \in Int
  BY <1>1, <1>2 DEF Debt, Away
<1> QED
  BY <1>1, <1>2, <1>3

\* Streams that keep their numbers stay in order.
LEMMA KeptPairs ==
    ASSUME Pairs, Len(streams') = Len(streams), Len(streams) \in Nat,
           \A i \in 1..Len(streams) :
              /\ streams'[i].epoch = streams[i].epoch
              /\ streams'[i].session = streams[i].session
              /\ streams'[i].seq = streams[i].seq
              /\ streams[i].end # "open" => streams'[i].end # "open"
    PROVE  Pairs'
<1> SUFFICES ASSUME NEW i \in 1..Len(streams) - 1
             PROVE  LET a == streams'[i]  b == streams'[i + 1]
                    IN /\ b.epoch > a.epoch \/ (b.epoch = a.epoch /\ b.seq > a.seq)
                       /\ a.end # "open"
                       /\ a.epoch = b.epoch => b.seq - a.seq <= 1 + b.session - a.session
  BY DEF Pairs
<1>1. i \in 1..Len(streams) /\ i + 1 \in 1..Len(streams)
  OBVIOUS
<1> QED
  BY <1>1 DEF Pairs

\* So do the streams that have ended well, as long as the process has not
\* stopped.
LEMMA KeptClean ==
    ASSUME CleanEndIsWhole, Len(streams') = Len(streams), Len(streams) \in Nat,
           pc # "stopped", kills' = kills,
           \A i \in 1..Len(streams) :
              /\ streams'[i].epoch = streams[i].epoch
              /\ streams'[i].end = "fin" =>
                   \/ streams[i].end = "fin" /\ streams'[i].objs = streams[i].objs
                   \/ streams'[i].objs = GroupFrames
    PROVE  CleanEndIsWhole'
<1> SUFFICES ASSUME NEW i \in 1..Len(streams), streams'[i].end = "fin",
                    streams'[i].objs # GroupFrames
             PROVE  CutByStop(i)'
  BY DEF CleanEndIsWhole
<1>1. CutByStop(i)
  BY DEF CleanEndIsWhole
<1>2. \A j \in i + 1..Len(streams) : j \in 1..Len(streams)
  OBVIOUS
<1> QED
  BY <1>1, <1>2 DEF CutByStop

\* The last stream keeps its numbers, and the next group has moved on by no more
\* than the sessions lost.
LEMMA KeptAhead ==
    ASSUME PublisherAssumption, TypeOK, TypeOK', AheadOK,
           Len(streams') = Len(streams), kills' = kills,
           Len(streams) > 0 => /\ Last'.epoch = Last.epoch /\ Last'.seq = Last.seq
                               /\ Last'.session = Last.session,
           NextGroup <= NextGroup', session <= session', Debt' <= Debt
    PROVE  AheadOK'
<1>1. SUFFICES ASSUME Len(streams) > 0, Last.epoch = kills
               PROVE  /\ Last.seq < NextGroup' /\ Last.session <= session'
                      /\ Debt' <= 1 + Last.seq - Last.session
  BY DEF AheadOK
<1>2. /\ Last.seq < NextGroup /\ Last.session <= session
      /\ Debt <= 1 + Last.seq - Last.session
  BY <1>1 DEF AheadOK
<1>3. Last.seq \in Nat /\ Last.session \in Nat
  BY <1>1, LastType
<1>4. /\ NextGroup \in Nat /\ NextGroup' \in Nat
      /\ session \in Nat /\ session' \in Nat /\ Debt \in Int /\ Debt' \in Int
  BY NumberType, NextNumberType
<1>5. /\ Last.seq < NextGroup' /\ Last.session <= session'
      /\ Debt' <= 1 + Last.seq - Last.session
  <2>1. NextGroup <= NextGroup' /\ session <= session' /\ Debt' <= Debt
    OBVIOUS
  <2>2. Last.seq < NextGroup'
    BY <1>2, <1>3, <1>4, <2>1
  <2>3. Last.session <= session'
    BY <1>2, <1>3, <1>4, <2>1
  <2>4. Debt' <= 1 + Last.seq - Last.session
    <3>1. \A d, e, b \in Int : e <= d /\ d <= b => e <= b
      OBVIOUS
    <3>2. 1 + Last.seq - Last.session \in Int
      BY <1>3
    <3>3. Debt <= 1 + Last.seq - Last.session /\ Debt' <= Debt
      BY <1>2, <2>1
    <3> QED
      BY <1>4, <3>1, <3>2, <3>3
  <2> QED
    BY <2>2, <2>3, <2>4
<1> QED
  BY <1>5

\* Actions that leave the streams alone.
LEMMA QuietStep ==
    ASSUME PublisherAssumption, FeedInv, TypeOK', PcOK',
           streams' = streams, on' = on, kills' = kills, pc # "stopped",
           on => NextGroup' = NextGroup /\ Written' = Written /\ session' = session,
           NextGroup <= NextGroup', session <= session', Debt' <= Debt
    PROVE  FeedInv'
<1> USE DEF FeedInv
<1>1. Len(streams) \in Nat /\ Last' = Last
  BY NumberType DEF Last
<1>2. StreamsOK'
  BY DEF StreamsOK
<1>3. Pairs'
  BY <1>1, KeptPairs
<1>4. CleanEndIsWhole'
  BY <1>1, KeptClean
<1>5. AheadOK'
  BY <1>1, KeptAhead
<1>6. OpenOK' /\ EndedOK'
  BY <1>1 DEF OpenOK, EndedOK
<1> QED
  BY <1>2, <1>3, <1>4, <1>5, <1>6

\* Actions that end the open stream, if there is one.
LEMMA EndStep ==
    ASSUME PublisherAssumption, FeedInv, TypeOK', PcOK', NEW e \in {"fin", "lost"},
           streams' = EndOpen(e), on' = FALSE, kills' = kills,
           CleanEndIsWhole',
           NextGroup <= NextGroup', session <= session', Debt' <= Debt
    PROVE  FeedInv'
<1> USE DEF FeedInv
<1>1. /\ Len(streams) \in Nat /\ on => Len(streams) > 0
      /\ Len(streams') = Len(streams)
      /\ \A i \in 1..Len(streams) :
           /\ streams'[i].epoch = streams[i].epoch
           /\ streams'[i].session = streams[i].session
           /\ streams'[i].seq = streams[i].seq
           /\ streams'[i].end = IF on /\ i = Len(streams) THEN e ELSE streams[i].end
  BY NumberType, EndOpenStep DEF OpenOK
<1>2. StreamsOK'
  BY <1>1 DEF StreamsOK
<1>3. Pairs'
  BY <1>1, KeptPairs
<1>4. Len(streams) > 0 => Len(streams) \in 1..Len(streams)
  BY <1>1
<1>5. AheadOK'
  <2>1. Len(streams) > 0 => /\ Last'.epoch = Last.epoch /\ Last'.seq = Last.seq
                            /\ Last'.session = Last.session
    BY <1>1, <1>4 DEF Last
  <2> QED
    BY <1>1, <2>1, KeptAhead
<1>6. OpenOK' /\ EndedOK'
  BY <1>1, <1>4 DEF OpenOK, EndedOK, Last
<1> QED
  BY <1>2, <1>3, <1>5, <1>6

-----------------------------------------------------------------------------
(* One lemma for each action. *)

LEMMA NoStream ==
    ASSUME PublisherAssumption
    PROVE  Init => FeedInv
<1> SUFFICES ASSUME Init PROVE FeedInv
  OBVIOUS
<1>1. TypeOK
  <2>1. /\ gen \in [group : 0..MaxGroup, object : 0..GroupFrames - 1] /\ frame = gen
        /\ fails \in 0..MaxFail /\ kills \in 0..MaxKill /\ session \in Nat
    BY DEF Init, PublisherAssumption
  <2>2. streams \in Seq(Entry)
    BY DEF Init
  <2>3. tier \in 0..Top /\ slow = 0 /\ fast = 0 /\ streak = NewStreak(tier)
    BY DEF Init, PublisherAssumption
  <2>4. streak \in [of : Ratio, n : Nat, from : 0..Top]
    BY <2>3, NewStreakType
  <2>5. pc \in {"dial", "tick", "open", "write", "sleep", "stopped"} /\ on \in BOOLEAN
    BY DEF Init
  <2> QED
    BY <2>1, <2>2, <2>3, <2>4, <2>5 DEF TypeOK, Entry
<1>2. Len(streams) = 0 /\ ~on /\ pc = "dial"
  BY DEF Init
<1>3. (1..Len(streams) = {}) /\ (1..Len(streams) - 1 = {})
  BY <1>2
<1>4. StreamsOK /\ Pairs /\ CleanEndIsWhole
  BY <1>2, <1>3 DEF StreamsOK, Pairs, CleanEndIsWhole
<1>5. PcOK /\ OpenOK /\ EndedOK /\ AheadOK
  BY <1>2 DEF PcOK, OpenOK, EndedOK, AheadOK
<1> QED
  BY <1>1, <1>4, <1>5 DEF FeedInv

LEMMA ConnectStep ==
    ASSUME PublisherAssumption, FeedInv, Connect
    PROVE  FeedInv'
<1>1. TypeOK' /\ PcOK' /\ ~on /\ pc = "dial"
  BY PublisherAssumption, NewStreakType DEF FeedInv, TypeOK, PcOK, Connect, PublisherAssumption
<1>2. session \in Nat /\ session' = session + 1
  BY DEF FeedInv, TypeOK, Connect
<1>3. NextGroup' = NextGroup /\ NextGroup \in Nat
  BY NumberType DEF FeedInv, Connect, NextGroup
<1>4. Debt' <= Debt
  BY <1>1, <1>2, <1>3 DEF Connect, Debt, Away
<1> QED
  BY <1>1, <1>2, <1>3, <1>4, QuietStep DEF Connect

LEMMA WaitStep ==
    ASSUME PublisherAssumption, FeedInv, ConnectFails \/ Wake
    PROVE  FeedInv'
<1>1. /\ pc \in {"dial", "sleep"} /\ pc' \in {"dial", "sleep"}
      /\ gen' = gen /\ frame' = frame /\ on' = on /\ kills' = kills
      /\ session' = session /\ streams' = streams /\ UNCHANGED ladderVars
  BY DEF ConnectFails, Wake
<1>2. fails' \in 0..MaxFail
  <2>1. CASE ConnectFails
    BY <2>1 DEF ConnectFails, FeedInv, TypeOK, PublisherAssumption
  <2>2. CASE Wake
    BY <2>2 DEF Wake, FeedInv, TypeOK
  <2> QED
    BY <2>1, <2>2
<1>3. TypeOK'
  BY <1>1, <1>2 DEF FeedInv, TypeOK, ladderVars
<1>4. PcOK' /\ ~on
  BY <1>1 DEF FeedInv, PcOK
<1>5. NextGroup' = NextGroup /\ Debt' = Debt
  BY <1>1 DEF NextGroup, Debt, Away
<1>6. NextGroup \in Nat /\ Debt \in Int /\ session \in Nat
  BY NumberType DEF FeedInv
<1> QED
  BY <1>1, <1>3, <1>4, <1>5, <1>6, QuietStep

LEMMA AdaptType ==
    ASSUME PublisherAssumption, TypeOK, NEW r \in Ratio, Adapt(r)
    PROVE  /\ tier' \in 0..Top /\ slow' \in Nat /\ fast' \in Nat /\ (slow' = 0 \/ fast' = 0)
           /\ streak' \in [of : Ratio, n : Nat, from : 0..Top]
<1> DEFINE s == Count(r, "slow", slow)
           f == Count(r, "fast", fast)
<1>1. tier \in 0..Top /\ slow \in Nat /\ fast \in Nat /\ Top \in Nat
  BY DEF TypeOK, PublisherAssumption
<1>2. s \in Nat /\ f \in Nat /\ (s = 0 \/ f = 0)
  BY <1>1 DEF Count
<1>3. Move(s, f)
  BY DEF Adapt
<1> HIDE DEF s, f
<1>4. tier' \in 0..Top /\ slow' \in Nat /\ fast' \in Nat /\ (slow' = 0 \/ fast' = 0)
  BY <1>1, <1>2, <1>3 DEF Move, DownAfter, UpAfter
<1>5. streak' \in [of : Ratio, n : Nat, from : 0..Top]
  <2>1. /\ streak.of \in Ratio /\ streak.n \in Nat /\ streak.from \in 0..Top
        /\ streak = [of |-> streak.of, n |-> streak.n, from |-> streak.from]
    BY DEF TypeOK
  <2>2. CASE streak.of = r
    <3>1. streak' = [streak EXCEPT !.n = streak.n + 1]
      BY <2>2 DEF Adapt
    <3>2. streak' = [of |-> streak.of, n |-> streak.n + 1, from |-> streak.from]
      BY <2>1, <3>1
    <3> QED
      BY <2>1, <3>2
  <2>3. CASE streak.of # r
    BY <1>1, <2>3 DEF Adapt
  <2> QED
    BY <2>2, <2>3
<1> QED
  BY <1>4, <1>5

\* What a tick does to the generator.
LEMMA TickNumbers ==
    ASSUME PublisherAssumption, FeedInv, Tick
    PROVE  /\ gen \in [group : 0..MaxGroup, object : 0..GroupFrames - 1]
           /\ gen' \in [group : 0..MaxGroup, object : 0..GroupFrames - 1]
           /\ frame' = gen /\ gen' = Advance(gen)
           /\ gen.group \in Nat /\ gen.object \in 0..GroupFrames - 1
           /\ gen'.group = IF gen.object + 1 = GroupFrames THEN gen.group + 1 ELSE gen.group
           /\ gen'.object = IF gen.object + 1 = GroupFrames THEN 0 ELSE gen.object + 1
<1>1. gen \in [group : 0..MaxGroup, object : 0..GroupFrames - 1]
  BY DEF FeedInv, TypeOK
<1>2. frame' = gen /\ gen' = Advance(gen) /\ gen.group < MaxGroup
  BY DEF Tick
<1> QED
  BY <1>1, <1>2, AdvanceType

LEMMA InsideStep ==
    ASSUME PublisherAssumption, FeedInv, Tick, Inside
    PROVE  FeedInv'
<1>1. TypeOK'
  BY TickNumbers DEF FeedInv, TypeOK, Tick, Inside, ladderVars
<1>2. PcOK'
  BY TickNumbers DEF FeedInv, TypeOK, PcOK, Tick, Inside
<1>3. /\ pc = "tick" /\ gen.object > 0 /\ pc' = (IF on THEN "write" ELSE "tick")
      /\ frame'.object = gen.object /\ on' = on /\ session' = session
      /\ gen.group \in Nat /\ gen.object \in 0..GroupFrames - 1 /\ GroupFrames \in Nat
  BY TickNumbers DEF Tick, Inside, FeedInv, TypeOK, PublisherAssumption
<1>4. NextGroup' = NextGroup
  BY <1>3, TickNumbers DEF NextGroup
<1>5. on => Written' = Written
  BY <1>3 DEF Written
<1>6. Debt' = Debt
  BY <1>3, <1>4 DEF Debt, Away
<1>7. NextGroup \in Nat /\ Debt \in Int /\ session \in Nat
  BY NumberType DEF FeedInv
<1> QED
  BY <1>1, <1>2, <1>3, <1>4, <1>5, <1>6, <1>7, QuietStep DEF Tick, Inside

LEMMA BoundaryStep ==
    ASSUME PublisherAssumption, FeedInv, Tick, Boundary
    PROVE  FeedInv'
<1>1. on => Len(streams) > 0
  BY DEF FeedInv, OpenOK
<1>2. /\ EndOpen("fin") \in Seq(Entry) /\ Len(EndOpen("fin")) = Len(streams)
      /\ \A i \in 1..Len(streams) :
           /\ EndOpen("fin")[i].epoch = streams[i].epoch
           /\ EndOpen("fin")[i].objs = streams[i].objs
           /\ EndOpen("fin")[i].end = IF on /\ i = Len(streams) THEN "fin" ELSE streams[i].end
  BY <1>1, EndOpenStep DEF FeedInv
<1>3. TypeOK'
  <2>1. tier' \in 0..Top /\ slow' \in Nat /\ fast' \in Nat /\ (slow' = 0 \/ fast' = 0)
        /\ streak' \in [of : Ratio, n : Nat, from : 0..Top]
    BY AdaptType DEF Boundary, FeedInv, TypeOK, ladderVars
  <2>2. streams' \in Seq(Entry)
    BY <1>2 DEF Boundary
  <2> QED
    BY <2>1, <2>2, TickNumbers DEF FeedInv, TypeOK, Tick, Boundary, Entry
<1>4. PcOK'
  BY TickNumbers DEF FeedInv, TypeOK, PcOK, Tick, Boundary
<1>5. /\ pc = "tick" /\ gen.object = 0 /\ pc' = "open" /\ frame'.group = gen.group
      /\ on' = FALSE /\ session' = session /\ kills' = kills /\ streams' = EndOpen("fin")
  BY TickNumbers DEF Tick, Boundary
<1>6. CleanEndIsWhole'
  <2>1. on => Last.objs = GroupFrames
    BY <1>5 DEF FeedInv, OpenOK, Written
  <2> QED
    BY <1>2, <1>5, <2>1, NumberType, KeptClean DEF FeedInv, Last
<1>7. NextGroup' = NextGroup
  BY <1>5 DEF NextGroup
<1>8. Debt' = Debt
  BY <1>5, <1>7 DEF Debt, Away
<1>9. NextGroup <= NextGroup' /\ session <= session' /\ Debt' <= Debt
  BY <1>5, <1>7, <1>8, NumberType DEF FeedInv
<1> QED
  BY <1>3, <1>4, <1>5, <1>6, <1>9, EndStep

LEMMA OpenGroupStep ==
    ASSUME PublisherAssumption, FeedInv, OpenGroup
    PROVE  FeedInv'
<1> DEFINE x == [epoch |-> kills, session |-> session,
                 seq |-> frame.group, objs |-> 0, end |-> "open"]
<1>1. /\ pc = "open" /\ pc' = "write" /\ on' = TRUE /\ kills' = kills
      /\ session' = session /\ gen' = gen /\ frame' = frame
      /\ streams' = LastTwo(Append(streams, x)) /\ UNCHANGED <<ladderVars, fails>>
  BY DEF OpenGroup
<1>2. /\ ~on /\ frame.object = 0 /\ gen = Advance(frame) /\ frame.group \in Nat
      /\ gen.group = frame.group /\ gen.object = 1
  <2>1. frame \in [group : 0..MaxGroup, object : 0..GroupFrames - 1]
    BY DEF FeedInv, TypeOK
  <2>2. ~on /\ frame.object = 0 /\ gen = Advance(frame)
    BY <1>1 DEF FeedInv, PcOK
  <2> QED
    BY <2>1, <2>2, AdvanceType DEF PublisherAssumption
<1>3. /\ x \in Entry /\ x.epoch = kills /\ x.session = session /\ x.seq = frame.group
      /\ x.objs = 0 /\ x.end = "open"
  BY DEF Entry, FeedInv, TypeOK, PublisherAssumption
<1> HIDE DEF x
<1>4. streams \in Seq(Entry) /\ Len(streams) \in 0..2
  <2>1. streams \in Seq(Entry)
    BY DEF FeedInv, TypeOK, Entry
  <2>2. Len(streams) \in Nat /\ Len(streams) <= 2
    BY NumberType DEF FeedInv, StreamsOK
  <2>3. \A l \in Nat : l <= 2 => l \in 0..2
    OBVIOUS
  <2>4. Len(streams) \in 0..2
    BY <2>2, <2>3
  <2> QED
    BY <2>1, <2>4
<1>5. /\ streams' \in Seq(Entry) /\ Len(streams') \in {1, 2}
      /\ (Len(streams') = 2 <=> Len(streams) > 0)
      /\ streams'[Len(streams')] = x
      /\ Len(streams) > 0 => streams'[1] = streams[Len(streams)]
  BY <1>1, <1>3, <1>4, LastTwoStep
<1>6. TypeOK' /\ PcOK'
  BY <1>1, <1>2, <1>5 DEF FeedInv, TypeOK, PcOK, ladderVars, Entry
<1>7. Last' = x
  BY <1>5 DEF Last
<1>8. NextGroup' = frame.group + 1
  BY <1>1, <1>2 DEF NextGroup
<1>9. Len(streams) > 0 => /\ Last.epoch \in 0..kills /\ Last.end # "open"
                          /\ Last.epoch = kills => /\ Last.seq < frame.group
                                                   /\ frame.group - Last.seq <= 1 + session - Last.session
  <2>1. SUFFICES ASSUME Len(streams) > 0
                 PROVE  /\ Last.epoch \in 0..kills /\ Last.end # "open"
                        /\ Last.epoch = kills => /\ Last.seq < frame.group
                                                 /\ frame.group - Last.seq <= 1 + session - Last.session
    OBVIOUS
  <2>2. Last.epoch \in 0..kills
    <3>1. Last.epoch \in Nat /\ kills \in Nat /\ Len(streams) \in 1..Len(streams)
      BY <2>1, LastType, NumberType DEF FeedInv
    <3>2. Last.epoch <= kills
      BY <3>1 DEF FeedInv, StreamsOK, Last
    <3>3. \A e, k \in Nat : e <= k => e \in 0..k
      OBVIOUS
    <3> QED
      BY <3>1, <3>2, <3>3
  <2>3. Last.end # "open"
    BY <1>2, <2>1 DEF FeedInv, EndedOK
  <2>4. NextGroup = frame.group /\ Debt = frame.group - session - 0
    BY <1>1 DEF NextGroup, Debt, Away
  <2>5. Last.epoch = kills => Last.seq < NextGroup /\ Debt <= 1 + Last.seq - Last.session
    BY <2>1 DEF FeedInv, AheadOK
  <2>6. Last.seq \in Nat /\ Last.session \in Nat /\ session \in Nat
    BY <2>1, LastType, NumberType DEF FeedInv
  <2> QED
    BY <1>2, <2>2, <2>3, <2>4, <2>5, <2>6
<1>10. Len(streams) > 0 => /\ streams'[1] = Last /\ streams'[2] = x /\ Len(streams') = 2
                           /\ 1..Len(streams') = {1, 2} /\ 2..Len(streams') = {2}
  <2>1. 1..2 = {1, 2} /\ 2..2 = {2}
    OBVIOUS
  <2>2. Len(streams) > 0 => streams'[1] = Last /\ streams'[2] = x /\ Len(streams') = 2
    BY <1>5 DEF Last
  <2> QED
    BY <2>1, <2>2
<1>11. Len(streams) = 0 => /\ streams'[1] = x /\ Len(streams') = 1
                           /\ 1..Len(streams') = {1}
  <2>1. 1..1 = {1}
    OBVIOUS
  <2>2. Len(streams) = 0 => streams'[1] = x /\ Len(streams') = 1
    BY <1>4, <1>5
  <2> QED
    BY <2>1, <2>2
<1>12. StreamsOK'
  <2>1. \A i \in 1..Len(streams') : streams'[i].epoch <= kills
    <3>1. CASE Len(streams) > 0
      <4>1. Last.epoch <= kills /\ x.epoch <= kills
        BY <1>3, <1>9, <3>1, NumberType DEF FeedInv
      <4> QED
        BY <1>10, <3>1, <4>1
    <3>2. CASE Len(streams) = 0
      <4>1. x.epoch <= kills
        BY <1>3, NumberType DEF FeedInv
      <4> QED
        BY <1>11, <3>2, <4>1
    <3> QED
      BY <1>4, <3>1, <3>2
  <2> QED
    BY <1>1, <1>5, <2>1 DEF StreamsOK
<1>13. Pairs'
  <2>1. SUFFICES ASSUME NEW i \in 1..Len(streams') - 1
                 PROVE  LET a == streams'[i]  b == streams'[i + 1]
                        IN /\ b.epoch > a.epoch \/ (b.epoch = a.epoch /\ b.seq > a.seq)
                           /\ a.end # "open"
                           /\ a.epoch = b.epoch => b.seq - a.seq <= 1 + b.session - a.session
    BY DEF Pairs
  <2>2. i = 1 /\ Len(streams) > 0
    BY <1>5
  <2>3. streams'[i] = Last /\ streams'[i + 1] = x
    BY <1>10, <2>2
  <2>4. Last.epoch \in Nat /\ Last.seq \in Nat /\ kills \in Nat
    BY <2>2, LastType, NumberType DEF FeedInv
  <2> QED
    BY <1>2, <1>3, <1>9, <2>2, <2>3, <2>4
<1>14. CleanEndIsWhole'
  <2>1. SUFFICES ASSUME NEW i \in 1..Len(streams'), streams'[i].end = "fin",
                        streams'[i].objs # GroupFrames
                 PROVE  CutByStop(i)'
    BY DEF CleanEndIsWhole
  <2>2. Len(streams) > 0
    BY <1>3, <1>4, <1>11, <2>1
  <2>3. i = 1
    BY <1>3, <1>10, <2>1, <2>2
  <2>4. Len(streams) \in 1..Len(streams) /\ Last = streams[Len(streams)]
    BY <2>2, LastType DEF FeedInv, Last
  <2>5. CutByStop(Len(streams))
    BY <1>10, <2>1, <2>2, <2>3, <2>4 DEF FeedInv, CleanEndIsWhole
  <2>6. Last.epoch # kills
    BY <1>1, <2>4, <2>5 DEF CutByStop
  <2>7. Last.epoch < kills
    <3>1. Last.epoch \in 0..kills /\ kills \in Nat
      BY <1>9, <2>2, NumberType DEF FeedInv
    <3> QED
      BY <2>6, <3>1
  <2>8. \A j \in 2..Len(streams') : streams'[j] = x
    BY <1>10, <2>2
  <2>9. streams'[i].epoch = Last.epoch /\ kills' = kills /\ x.epoch = kills
    BY <1>1, <1>3, <1>10, <2>2, <2>3
  <2>10. streams'[i].epoch # kills'
    BY <2>6, <2>9
  <2>11. \A j \in i + 1..Len(streams') : streams'[j].epoch > streams'[i].epoch
    <3>1. i + 1..Len(streams') = 2..Len(streams')
      BY <2>3
    <3> QED
      BY <2>7, <2>8, <2>9, <3>1
  <2> QED
    BY <2>10, <2>11 DEF CutByStop
<1>15. OpenOK' /\ EndedOK'
  <2>1. Written' = 0
    BY <1>1, <1>2 DEF Written
  <2>2. /\ Last'.end = "open" /\ Last'.epoch = kills' /\ Last'.session = session'
        /\ Last'.objs = Written'
    BY <1>1, <1>3, <1>7, <2>1
  <2>3. Last'.seq + 1 = NextGroup'
    BY <1>3, <1>7, <1>8
  <2>4. Len(streams') > 0
    BY <1>4, <1>10, <1>11
  <2>5. OpenOK'
    BY <2>2, <2>3, <2>4 DEF OpenOK
  <2>6. EndedOK'
    BY <1>1 DEF EndedOK
  <2> QED
    BY <2>5, <2>6
<1>16. AheadOK'
  <2>1. Debt' = frame.group + 1 - session /\ session \in Nat
    <3>1. Away' = 0
      BY <1>1 DEF Away
    <3>2. Debt' = NextGroup' - session' - Away' /\ session' = session
      BY <1>1 DEF Debt
    <3>3. session \in Nat
      BY NumberType DEF FeedInv
    <3>4. \A g, k \in Int : g + 1 - k - 0 = g + 1 - k
      OBVIOUS
    <3> QED
      BY <1>2, <1>8, <3>1, <3>2, <3>3, <3>4
  <2>2. Last'.seq = frame.group /\ Last'.session = session /\ session' = session
    BY <1>1, <1>3, <1>7
  <2>3. Last'.seq < NextGroup' /\ Last'.session <= session'
    BY <1>2, <1>8, <2>1, <2>2
  <2>4. Debt' <= 1 + Last'.seq - Last'.session
    BY <1>2, <2>1, <2>2
  <2> QED
    BY <2>3, <2>4 DEF AheadOK
<1> QED
  BY <1>6, <1>12, <1>13, <1>14, <1>15, <1>16 DEF FeedInv

LEMMA WriteFrameStep ==
    ASSUME PublisherAssumption, FeedInv, WriteFrame
    PROVE  FeedInv'
<1> DEFINE n == Len(streams)
           x == [streams[n] EXCEPT !.objs = streams[n].objs + 1]
<1>1. /\ pc = "write" /\ pc' = "tick" /\ on' = on /\ kills' = kills /\ session' = session
      /\ gen' = gen /\ frame' = frame /\ streams' = [streams EXCEPT ![n] = x]
      /\ UNCHANGED <<ladderVars, fails>>
  BY DEF WriteFrame
<1>2. /\ on /\ gen = Advance(frame) /\ n > 0 /\ n \in 1..n
      /\ Last = streams[n] /\ Last \in Entry /\ Last.objs = frame.object
      /\ Last.end = "open" /\ Last.epoch = kills /\ Last.session = session
      /\ Last.seq + 1 = NextGroup
  BY <1>1, LastType DEF FeedInv, PcOK, OpenOK, Last, Written
<1>3. /\ frame.object \in 0..GroupFrames - 1 /\ GroupFrames \in Nat
      /\ gen.object = IF frame.object + 1 = GroupFrames THEN 0 ELSE frame.object + 1
  <2>1. frame \in [group : 0..MaxGroup, object : 0..GroupFrames - 1]
    BY DEF FeedInv, TypeOK
  <2> QED
    BY <1>2, <2>1, AdvanceType DEF PublisherAssumption
<1>4. /\ x \in Entry /\ x.epoch = Last.epoch /\ x.session = Last.session /\ x.seq = Last.seq
      /\ x.objs = frame.object + 1 /\ x.end = "open"
  <2>1. /\ Last = [epoch |-> Last.epoch, session |-> Last.session, seq |-> Last.seq,
                    objs |-> Last.objs, end |-> Last.end]
        /\ Last.epoch \in 0..MaxKill /\ Last.session \in Nat /\ Last.seq \in 0..MaxGroup
    BY <1>2 DEF Entry
  <2>2. x = [epoch |-> Last.epoch, session |-> Last.session, seq |-> Last.seq,
             objs |-> frame.object + 1, end |-> Last.end]
    BY <1>2, <2>1
  <2>3. frame.object + 1 \in 0..GroupFrames
    BY <1>3
  <2> HIDE DEF x
  <2> QED
    BY <1>2, <2>1, <2>2, <2>3 DEF Entry
<1>5. streams \in Seq(Entry)
  BY DEF FeedInv, TypeOK, Entry
<1> HIDE DEF x
<1>6. /\ streams' \in Seq(Entry) /\ Len(streams') = n
      /\ \A i \in 1..n : streams'[i] = IF i = n THEN x ELSE streams[i]
  BY <1>1, <1>2, <1>4, <1>5, ExceptSeq
<1>7. Last' = x
  BY <1>2, <1>6 DEF Last
<1>8. TypeOK' /\ PcOK'
  BY <1>1, <1>2, <1>6 DEF FeedInv, TypeOK, PcOK, ladderVars, Entry
<1>9. \A i \in 1..n : /\ streams'[i].epoch = streams[i].epoch
                      /\ streams'[i].session = streams[i].session
                      /\ streams'[i].seq = streams[i].seq
                      /\ streams'[i].end = streams[i].end
                      /\ streams'[i].end = "fin" => streams'[i].objs = streams[i].objs
  BY <1>2, <1>4, <1>6
<1>10. StreamsOK'
  <2>1. Len(streams') <= 2 /\ \A i \in 1..n : streams'[i].epoch <= kills
    BY <1>6, <1>9 DEF FeedInv, StreamsOK
  <2> QED
    BY <1>1, <1>6, <2>1 DEF StreamsOK
<1>11. Pairs'
  BY <1>6, <1>9, NumberType, KeptPairs DEF FeedInv
<1>12. CleanEndIsWhole'
  BY <1>1, <1>6, <1>9, NumberType, KeptClean DEF FeedInv
<1>13. NextGroup' = NextGroup
  BY <1>1 DEF NextGroup
<1>14. Debt' = Debt
  BY <1>1, <1>13 DEF Debt, Away
<1>15. AheadOK'
  BY <1>1, <1>4, <1>6, <1>7, <1>8, <1>13, <1>14, NumberType, KeptAhead DEF FeedInv
<1>16. Written' = frame.object + 1
  BY <1>1, <1>3 DEF Written
<1>17. OpenOK' /\ EndedOK'
  BY <1>1, <1>2, <1>4, <1>6, <1>7, <1>13, <1>16 DEF OpenOK, EndedOK
<1> QED
  BY <1>8, <1>10, <1>11, <1>12, <1>15, <1>17 DEF FeedInv

\* The session is lost: at "open" with a group that never had a stream.
LEMMA SessionFailsStep ==
    ASSUME PublisherAssumption, FeedInv, SessionFails
    PROVE  FeedInv'
<1>1. /\ pc \in {"open", "write"} /\ pc' = "sleep" /\ on' = FALSE /\ kills' = kills
      /\ session' = session /\ gen' = gen /\ frame' = frame /\ streams' = EndOpen("lost")
      /\ UNCHANGED ladderVars
  BY DEF SessionFails
<1>2. fails' \in 0..MaxFail
  BY DEF SessionFails, FeedInv, TypeOK, PublisherAssumption
<1>3. on => Len(streams) > 0
  BY DEF FeedInv, OpenOK
<1>4. /\ EndOpen("lost") \in Seq(Entry) /\ Len(EndOpen("lost")) = Len(streams)
      /\ \A i \in 1..Len(streams) :
           /\ EndOpen("lost")[i].epoch = streams[i].epoch
           /\ EndOpen("lost")[i].objs = streams[i].objs
           /\ EndOpen("lost")[i].end = IF on /\ i = Len(streams) THEN "lost" ELSE streams[i].end
  BY <1>3, EndOpenStep DEF FeedInv
<1>5. TypeOK' /\ PcOK'
  BY <1>1, <1>2, <1>4 DEF FeedInv, TypeOK, PcOK, ladderVars, Entry
<1>6. CleanEndIsWhole'
  BY <1>1, <1>4, NumberType, KeptClean DEF FeedInv
<1>7. pc = "open" => /\ NextGroup = frame.group /\ NextGroup' = frame.group + 1
                     /\ Away = 0 /\ Away' = 1
  <2>1. SUFFICES ASSUME pc = "open"
                 PROVE  NextGroup' = frame.group + 1 /\ NextGroup = frame.group
    BY <1>1 DEF Away
  <2>2. frame \in [group : 0..MaxGroup, object : 0..GroupFrames - 1]
    BY DEF FeedInv, TypeOK
  <2>3. gen = Advance(frame) /\ frame.object = 0
    BY <2>1 DEF FeedInv, PcOK
  <2>4. gen.group = frame.group /\ gen.object = 1
    BY <2>2, <2>3, AdvanceType DEF PublisherAssumption
  <2> QED
    BY <1>1, <2>1, <2>4 DEF NextGroup
<1>8. pc = "write" => NextGroup' = NextGroup /\ Away = 0 /\ Away' = 1
  BY <1>1 DEF NextGroup, Away
<1>9. NextGroup <= NextGroup' /\ session <= session' /\ Debt' <= Debt
  <2>1. frame.group \in Nat /\ session \in Nat /\ NextGroup \in Nat
    BY NumberType DEF FeedInv
  <2> QED
    BY <1>1, <1>7, <1>8, <2>1 DEF Debt
<1> QED
  BY <1>1, <1>5, <1>6, <1>9, EndStep

\* The context ends: the last stream of the process may be cut short.
LEMMA StopStep ==
    ASSUME PublisherAssumption, FeedInv, Stop
    PROVE  FeedInv'
<1>1. /\ pc \in {"dial", "tick", "open", "sleep"} /\ pc' = "stopped" /\ on' = FALSE
      /\ kills' = kills /\ session' = session /\ gen' = gen /\ frame' = frame
      /\ fails' = fails /\ streams' = EndOpen("fin") /\ UNCHANGED ladderVars
  BY DEF Stop
<1>2. on => Len(streams) > 0
  BY DEF FeedInv, OpenOK
<1>3. /\ EndOpen("fin") \in Seq(Entry) /\ Len(EndOpen("fin")) = Len(streams)
      /\ \A i \in 1..Len(streams) :
           /\ EndOpen("fin")[i].epoch = streams[i].epoch
           /\ EndOpen("fin")[i].objs = streams[i].objs
           /\ EndOpen("fin")[i].end = IF on /\ i = Len(streams) THEN "fin" ELSE streams[i].end
  BY <1>2, EndOpenStep DEF FeedInv
<1>4. TypeOK' /\ PcOK'
  BY <1>1, <1>3 DEF FeedInv, TypeOK, PcOK, ladderVars, Entry
<1>5. CleanEndIsWhole'
  <2>1. SUFFICES ASSUME NEW i \in 1..Len(streams), streams'[i].end = "fin",
                        streams'[i].objs # GroupFrames
                 PROVE  CutByStop(i)'
    BY <1>1, <1>3 DEF CleanEndIsWhole
  <2>2. \A j \in i + 1..Len(streams) : j \in 1..Len(streams)
    BY NumberType DEF FeedInv
  <2>3. CASE streams[i].end = "fin"
    BY <1>1, <1>3, <2>1, <2>2, <2>3 DEF FeedInv, CleanEndIsWhole, CutByStop
  <2>4. CASE streams[i].end # "fin"
    <3>1. i = Len(streams)
      BY <1>1, <1>3, <2>1, <2>4
    <3>2. i + 1..Len(streams) = {}
      BY <3>1, NumberType DEF FeedInv
    <3> QED
      BY <1>1, <1>3, <3>2 DEF CutByStop
  <2> QED
    BY <2>3, <2>4
<1>6. NextGroup <= NextGroup' /\ session <= session' /\ Debt' <= Debt
  <2>1. /\ NextGroup \in Nat /\ session \in Nat /\ Away' = 1
    BY <1>1, NumberType DEF FeedInv, Away
  <2>2. CASE pc = "open"
    <3>1. frame \in [group : 0..MaxGroup, object : 0..GroupFrames - 1]
      BY DEF FeedInv, TypeOK
    <3>2. gen = Advance(frame) /\ frame.object = 0
      BY <2>2 DEF FeedInv, PcOK
    <3>3. gen.group = frame.group /\ gen.object = 1
      BY <3>1, <3>2, AdvanceType DEF PublisherAssumption
    <3>4. NextGroup = frame.group /\ NextGroup' = frame.group + 1 /\ Away = 0
      BY <1>1, <2>2, <3>3 DEF NextGroup, Away
    <3> QED
      BY <1>1, <2>1, <3>4 DEF Debt
  <2>3. CASE pc # "open"
    <3>1. NextGroup' = NextGroup /\ Away \in {0, 1}
      BY <1>1, <2>3 DEF NextGroup, Away
    <3> QED
      BY <1>1, <2>1, <3>1 DEF Debt
  <2> QED
    BY <2>2, <2>3
<1> QED
  BY <1>1, <1>4, <1>5, <1>6, EndStep

\* The process starts anew: what it opened before is of an earlier epoch.
LEMMA KillStep ==
    ASSUME PublisherAssumption, FeedInv, Kill
    PROVE  FeedInv'
<1>1. /\ kills' = kills + 1 /\ pc' = "dial" /\ on' = FALSE /\ session' = 0 /\ fails' = fails
      /\ streams' = EndOpen("lost") /\ kills < MaxKill /\ kills \in Nat /\ MaxKill \in Nat
  BY NumberType DEF Kill, FeedInv
<1>2. on => Len(streams) > 0
  BY DEF FeedInv, OpenOK
<1>3. /\ EndOpen("lost") \in Seq(Entry) /\ Len(EndOpen("lost")) = Len(streams)
      /\ \A i \in 1..Len(streams) :
           /\ EndOpen("lost")[i].epoch = streams[i].epoch
           /\ EndOpen("lost")[i].session = streams[i].session
           /\ EndOpen("lost")[i].seq = streams[i].seq
           /\ EndOpen("lost")[i].objs = streams[i].objs
           /\ EndOpen("lost")[i].end = IF on /\ i = Len(streams) THEN "lost" ELSE streams[i].end
  BY <1>2, EndOpenStep DEF FeedInv
<1>4. Len(streams) \in Nat /\ \A i \in 1..Len(streams) : streams[i].epoch \in 0..kills
  <2>1. SUFFICES ASSUME NEW i \in 1..Len(streams) PROVE streams[i].epoch \in 0..kills
    BY NumberType DEF FeedInv
  <2>2. streams[i].epoch \in 0..MaxKill /\ streams[i].epoch <= kills
    BY EntryType DEF FeedInv, StreamsOK
  <2> QED
    BY <1>1, <2>2
<1>5. TypeOK'
  <2>1. gen' \in [group : 0..MaxGroup, object : 0..GroupFrames - 1] /\ frame' = gen'
    BY DEF Kill, PublisherAssumption
  <2>2. /\ tier' \in 0..Top /\ slow' = 0 /\ fast' = 0
        /\ streak' \in [of : Ratio, n : Nat, from : 0..Top]
    BY NewStreakType DEF Kill, PublisherAssumption
  <2>3. kills' \in 0..MaxKill
    BY <1>1
  <2>4. streams' \in Seq(Entry)
    BY <1>1, <1>3
  <2> QED
    BY <1>1, <2>1, <2>2, <2>3, <2>4 DEF FeedInv, TypeOK, Entry
<1>6. PcOK'
  BY <1>1 DEF PcOK
<1>7. StreamsOK'
  <2>1. \A i \in 1..Len(streams) : streams'[i].epoch <= kills'
    BY <1>1, <1>3, <1>4
  <2>2. Len(streams') <= 2
    BY <1>1, <1>3 DEF FeedInv, StreamsOK
  <2> QED
    BY <1>1, <1>3, <2>1, <2>2 DEF StreamsOK
<1>8. Pairs'
  BY <1>1, <1>3, <1>4, KeptPairs DEF FeedInv
<1>9. \A i \in 1..Len(streams) : streams'[i].epoch # kills'
  BY <1>1, <1>3, <1>4
<1>10. CleanEndIsWhole'
  <2>1. SUFFICES ASSUME NEW i \in 1..Len(streams), streams'[i].end = "fin",
                        streams'[i].objs # GroupFrames
                 PROVE  CutByStop(i)'
    BY <1>1, <1>3 DEF CleanEndIsWhole
  <2>2. \A j \in i + 1..Len(streams) : j \in 1..Len(streams)
    BY <1>4
  <2>3. streams[i].end = "fin" /\ streams[i].objs # GroupFrames
    BY <1>1, <1>3, <2>1
  <2> QED
    BY <1>1, <1>3, <1>9, <2>2, <2>3 DEF FeedInv, CleanEndIsWhole, CutByStop
<1>11. Len(streams) > 0 => Len(streams) \in 1..Len(streams) /\ Len(streams') = Len(streams)
  BY <1>1, <1>3, <1>4
<1>12. OpenOK' /\ EndedOK'
  BY <1>1, <1>3, <1>11 DEF FeedInv, OpenOK, EndedOK, Last
<1>13. AheadOK'
  BY <1>1, <1>3, <1>9, <1>11 DEF AheadOK, Last
<1> QED
  BY <1>5, <1>6, <1>7, <1>8, <1>10, <1>12, <1>13 DEF FeedInv

LEMMA NextFeed == FeedInv /\ [Next]_vars => FeedInv'
<1> SUFFICES ASSUME FeedInv, [Next]_vars PROVE FeedInv'
  OBVIOUS
<1>1. CASE Tick
  BY <1>1, InsideStep, BoundaryStep, PublisherAssumption DEF Tick
<1>2. CASE UNCHANGED vars
  BY <1>2 DEF FeedInv, TypeOK, StreamsOK, PcOK, OpenOK, EndedOK, AheadOK, Pairs,
              CleanEndIsWhole, CutByStop, Last, NextGroup, Away, Debt, Written,
              vars, ladderVars
<1> QED
  BY <1>1, <1>2, ConnectStep, WaitStep, OpenGroupStep, WriteFrameStep, SessionFailsStep,
     StopStep, KillStep, PublisherAssumption DEF Next, Run

\* What Track assumes of its feed, for any length of group and any number of
\* lost sessions and restarts: the numbers of the streams grow, and skip no more
\* than one group for each session lost (pub.go, publishOnce and RunPub).
THEOREM FeedSound == Spec => []FeedOrder
<1>1. FeedInv => FeedOrder
  BY DEF FeedInv, Pairs, FeedOrder
<1>2. Init => FeedInv
  BY NoStream, PublisherAssumption
<1> QED
  BY <1>1, <1>2, NextFeed, PTL DEF Spec

\* A stream that ends with FIN is a whole group, unless shutting down cut it
\* (pub.go, publishOnce).
THEOREM CleanSound == Spec => []CleanEndIsWhole
<1>1. FeedInv => CleanEndIsWhole
  BY DEF FeedInv
<1>2. Init => FeedInv
  BY NoStream, PublisherAssumption
<1> QED
  BY <1>1, <1>2, NextFeed, PTL DEF Spec
=============================================================================
