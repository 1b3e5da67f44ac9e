------------------------------- MODULE HlsProofs -------------------------------
(* The player's account of its buffer, and the origin's rings behind its     *)
(* playlists, for every ring, window, segment length, ladder and speed of    *)
(* the link.                                                                 *)
EXTENDS Hls, SequenceTheorems, TLAPS

(* The inductive invariant: the account as it stands, what it means, and     *)
(* that a session which has not started to play has lost nothing.            *)
AccountTypeOK ==
    /\ clock \in Nat /\ lastTick \in Nat /\ buffer \in Nat
    /\ stalled \in Nat /\ level \in Nat /\ starved \in Nat
    /\ before \in Nat /\ cut \in Nat
    /\ started \in BOOLEAN
    /\ lastTick <= clock

Unstarted == pc # "failed" /\ ~started => level = buffer /\ cut = 0

AccountInv == AccountTypeOK /\ StallsAreReal /\ Unstarted

LEMMA Bounds == Seg \in Nat \ {0} /\ Target \in Nat
  BY HlsAssumption

LEMMA InitAccount == Init => AccountInv
<1> SUFFICES ASSUME Init PROVE AccountInv
  OBVIOUS
<1>1. /\ clock = 0 /\ stalled = 0 /\ starved = 0 /\ before = 0 /\ cut = 0
      /\ buffer = 0 /\ started = FALSE /\ lastTick = 0 /\ level = 0
  BY DEF Init, NewSession
<1>2. AccountTypeOK
  <2>1. lastTick <= clock
    BY <1>1
  <2>2. started \in BOOLEAN
    BY <1>1
  <2> QED
    BY <1>1, <2>1, <2>2 DEF AccountTypeOK
<1>3. Left = 0 /\ Lacking = 0
  BY <1>1 DEF Left, Lacking, LeftAfter, LackingAfter
<1> QED
  BY <1>1, <1>2, <1>3 DEF AccountInv, StallsAreReal, Unstarted

\* A tick costs the player that watches its buffer one tick of it, or is one of
\* starvation; the account says the same once the time is drained.
LEMMA TickAccount == AccountInv /\ Tick => AccountInv'
<1> SUFFICES ASSUME AccountInv, Tick PROVE AccountInv'
  OBVIOUS
<1>1. /\ clock' = clock + 1
      /\ UNCHANGED <<pc, buffer, started, lastTick, stalled, before, cut>>
      /\ level' = IF started /\ level > 0 THEN level - 1 ELSE level
      /\ starved' = IF started /\ level = 0 THEN starved + 1 ELSE starved
  BY DEF Tick, accountVars
<1>2. AccountTypeOK'
  BY <1>1 DEF AccountInv, AccountTypeOK
<1>3. StallsAreReal'
  BY <1>1 DEF AccountInv, AccountTypeOK, StallsAreReal, Left, Lacking, LeftAfter, LackingAfter, Elapsed
<1>4. Unstarted'
  BY <1>1 DEF AccountInv, Unstarted
<1> QED
  BY <1>2, <1>3, <1>4 DEF AccountInv

\* What a drain leaves: the buffer no shorter and the stalled time no longer than
\* they are, and off by what the measured time lacks of the true one.
LEMMA DrainEffect ==
  ASSUME AccountInv, pc # "failed", NEW e \in Measured, Drain(e)
  PROVE  /\ LeftAfter(e) \in Nat /\ stalled' \in Nat /\ cut' \in Nat /\ lastTick' = clock
         /\ level <= LeftAfter(e) /\ stalled' - before <= starved
         /\ (LeftAfter(e) - level) + (starved - (stalled' - before)) = cut'
         /\ ~started => LeftAfter(e) = buffer /\ cut' = cut
<1>1. /\ e \in Nat /\ (e = Elapsed \/ e = Elapsed - 1) /\ Elapsed \in Nat
  BY DEF Measured, Elapsed, AccountInv, AccountTypeOK
<1>2. /\ stalled' = stalled + LackingAfter(e) /\ lastTick' = clock
      /\ cut' = IF started THEN cut + (Elapsed - e) ELSE cut
  BY DEF Drain
<1>3. /\ buffer \in Nat /\ stalled \in Nat /\ level \in Nat /\ starved \in Nat
      /\ before \in Nat /\ cut \in Nat /\ started \in BOOLEAN
  BY DEF AccountInv, AccountTypeOK
<1>4. /\ level <= Left /\ stalled - before + Lacking <= starved
      /\ (Left - level) + (starved - (stalled - before + Lacking)) = cut
  BY DEF AccountInv, StallsAreReal
<1>5. /\ LeftAfter(e) \in Nat /\ LackingAfter(e) \in Nat /\ Left \in Nat /\ Lacking \in Nat
  BY <1>1, <1>3 DEF LeftAfter, LackingAfter, Left, Lacking
<1>6. /\ Left <= LeftAfter(e) /\ LackingAfter(e) <= Lacking
      /\ started => (LeftAfter(e) - Left) + (Lacking - LackingAfter(e)) = Elapsed - e
      /\ ~started => LeftAfter(e) = buffer /\ Left = buffer /\ LackingAfter(e) = 0 /\ Lacking = 0
  BY <1>1, <1>3 DEF LeftAfter, LackingAfter, Left, Lacking
<1>7. CASE started
  BY <1>1, <1>2, <1>3, <1>4, <1>5, <1>6, <1>7
<1>8. CASE ~started
  BY <1>2, <1>3, <1>4, <1>5, <1>6, <1>8
<1> QED
  BY <1>7, <1>8

\* A segment arrives: the download's time is drained before the gain.
LEMMA GotSegmentAccount == AccountInv /\ GotSegment => AccountInv'
<1> SUFFICES ASSUME AccountInv, GotSegment PROVE AccountInv'
  OBVIOUS
<1>1. PICK e \in Measured : Drain(e) /\ buffer' = LeftAfter(e) + Seg
  BY DEF GotSegment, Gain
<1>2. /\ pc = "reply" /\ pc' = "scan" /\ clock' = clock
      /\ started' = (started \/ buffer' >= Startup)
      /\ level' = level + Seg /\ starved' = starved /\ before' = before
  BY DEF GotSegment
<1>3. PICK n \in Nat : n = LeftAfter(e)
  BY <1>1, <1>2, DrainEffect
<1>4. /\ stalled' \in Nat /\ cut' \in Nat /\ lastTick' = clock
      /\ level <= n /\ stalled' - before <= starved
      /\ (n - level) + (starved - (stalled' - before)) = cut'
      /\ ~started => n = buffer /\ cut' = cut
  BY <1>1, <1>2, <1>3, DrainEffect
<1>5. buffer' = n + Seg
  BY <1>1, <1>3
<1>6. AccountTypeOK'
  BY <1>2, <1>4, <1>5, Bounds DEF AccountInv, AccountTypeOK
<1>7. Left' = n + Seg /\ Lacking' = 0
  BY <1>2, <1>4, <1>5, <1>6, Bounds DEF AccountTypeOK, Left, Lacking, LeftAfter, LackingAfter, Elapsed
<1>8. StallsAreReal'
  <2>1. PICK k \in Int, x \in Nat, w \in Nat, g \in Nat :
           k = stalled' - before /\ x = level /\ w = starved /\ g = Seg
    <3>1. stalled' \in Nat /\ before \in Nat /\ level \in Nat /\ starved \in Nat
      BY <1>4 DEF AccountInv, AccountTypeOK
    <3>2. stalled' - before \in Int
      BY <3>1
    <3>3. Seg \in Nat
      BY Bounds
    <3> QED
      BY <3>1, <3>2, <3>3
  <2>2. x <= n /\ k <= w /\ (n - x) + (w - k) = cut'
    BY <1>4, <2>1
  <2>3. level' = x + g /\ Left' = n + g /\ starved' = w /\ stalled' - before' + Lacking' = k
    BY <1>2, <1>7, <2>1
  <2>4. x + g <= n + g /\ k <= w /\ ((n + g) - (x + g)) + (w - k) = cut'
    BY <2>2
  <2> QED
    BY <2>3, <2>4 DEF StallsAreReal
<1>9. Unstarted'
  <2>1. ~started' => ~started
    BY <1>2
  <2> QED
    BY <1>2, <1>4, <1>5, <2>1 DEF Unstarted, AccountInv
<1> QED
  BY <1>6, <1>8, <1>9 DEF AccountInv

\* The end of a loop drains and changes nothing else of the account.
LEMMA EndScanAccount == AccountInv /\ EndScan => AccountInv'
<1> SUFFICES ASSUME AccountInv, EndScan PROVE AccountInv'
  OBVIOUS
<1>1. PICK e \in Measured : Drain(e) /\ buffer' = LeftAfter(e)
  BY DEF EndScan
<1>2. /\ pc = "scan" /\ clock' = clock
      /\ UNCHANGED <<started, level, starved, before>>
  BY DEF EndScan
<1>3. PICK n \in Nat : n = LeftAfter(e)
  BY <1>1, <1>2, DrainEffect
<1>4. /\ stalled' \in Nat /\ cut' \in Nat /\ lastTick' = clock
      /\ level <= n /\ stalled' - before <= starved
      /\ (n - level) + (starved - (stalled' - before)) = cut'
      /\ ~started => n = buffer /\ cut' = cut
  BY <1>1, <1>2, <1>3, DrainEffect
<1>5. buffer' = n
  BY <1>1, <1>3
<1>6. AccountTypeOK'
  BY <1>2, <1>4, <1>5 DEF AccountInv, AccountTypeOK
<1>7. Left' = n /\ Lacking' = 0
  BY <1>2, <1>4, <1>5, <1>6 DEF AccountTypeOK, Left, Lacking, LeftAfter, LackingAfter, Elapsed
<1>8. StallsAreReal'
  <2>1. /\ stalled' \in Nat /\ before \in Nat /\ starved \in Nat /\ level \in Nat /\ cut' \in Nat
    BY <1>4 DEF AccountInv, AccountTypeOK
  <2>2. stalled' - before' + Lacking' = stalled' - before
    BY <1>2, <1>7, <2>1
  <2>3. level' <= Left' /\ stalled' - before' + Lacking' <= starved'
    BY <1>2, <1>4, <1>7, <2>1, <2>2
  <2>4. (Left' - level') + (starved' - (stalled' - before' + Lacking')) = cut'
    BY <1>2, <1>4, <1>7, <2>1, <2>2
  <2> QED
    BY <2>3, <2>4 DEF StallsAreReal
<1>9. Unstarted'
  BY <1>2, <1>4, <1>5 DEF Unstarted, AccountInv
<1> QED
  BY <1>6, <1>8, <1>9 DEF AccountInv

\* A new session starts a new account, for the player that watches as well; the
\* recorder's total goes on.
LEMMA ReconnectAccount == AccountInv /\ Reconnect => AccountInv'
<1> SUFFICES ASSUME AccountInv, Reconnect PROVE AccountInv'
  OBVIOUS
<1>1. /\ clock' = clock /\ stalled' = stalled /\ buffer' = 0 /\ started' = FALSE
      /\ lastTick' = clock /\ level' = 0 /\ starved' = 0 /\ before' = stalled /\ cut' = 0
  BY DEF Reconnect
<1>2. AccountTypeOK'
  <2>1. clock \in Nat /\ stalled \in Nat
    BY DEF AccountInv, AccountTypeOK
  <2>2. lastTick' <= clock'
    BY <1>1, <2>1
  <2>3. started' \in BOOLEAN
    BY <1>1
  <2>4. /\ clock' \in Nat /\ lastTick' \in Nat /\ buffer' \in Nat /\ before' \in Nat
        /\ stalled' \in Nat /\ level' \in Nat /\ starved' \in Nat /\ cut' \in Nat
    BY <1>1, <2>1
  <2> QED
    BY <2>2, <2>3, <2>4 DEF AccountTypeOK
<1>3. StallsAreReal'
  <2>1. Left' = 0 /\ Lacking' = 0
    BY <1>1 DEF Left, Lacking, LeftAfter, LackingAfter
  <2>2. stalled \in Nat
    BY DEF AccountInv, AccountTypeOK
  <2> QED
    BY <1>1, <2>1, <2>2 DEF StallsAreReal
<1>4. Unstarted'
  BY <1>1 DEF Unstarted
<1> QED
  BY <1>2, <1>3, <1>4 DEF AccountInv

\* Nothing else touches the account, and no step but Reconnect leaves "failed".
LEMMA OtherAccount ==
  ASSUME AccountInv, UNCHANGED <<clock, accountVars, watchVars>>, pc = "failed" => pc' = "failed"
  PROVE  AccountInv'
  BY DEF accountVars, watchVars, AccountInv, AccountTypeOK, StallsAreReal, Unstarted, Left, Lacking,
         LeftAfter, LackingAfter, Elapsed

LEMMA NextAccount == AccountInv /\ [Next]_vars => AccountInv'
<1> SUFFICES ASSUME AccountInv, [Next]_vars PROVE AccountInv'
  OBVIOUS
<1>1. CASE Tick
  BY <1>1, TickAccount
<1>2. CASE GotSegment
  BY <1>2, GotSegmentAccount
<1>3. CASE EndScan
  BY <1>3, EndScanAccount
<1>4. CASE Reconnect
  BY <1>4, ReconnectAccount
<1>5. CASE Produce \/ Restart \/ ServePlaylist \/ ServeSegment \/ NotFound
  <2>1. UNCHANGED <<clock, accountVars, watchVars>>
    BY <1>5 DEF Produce, Restart, ServePlaylist, ServeSegment, NotFound, historyVars
  <2>2. pc = "failed" => pc' = "failed"
    BY <1>5 DEF Produce, Restart, ServePlaylist, ServeSegment, NotFound, playerVars, Waiting
  <2> QED
    BY <2>1, <2>2, OtherAccount
<1>6. CASE Fails \/ GotPlaylist \/ Fetch \/ Again
  <2>1. UNCHANGED <<clock, accountVars, watchVars>>
    BY <1>6 DEF Fails, GotPlaylist, Fetch, Again, historyVars
  <2>2. pc = "failed" => pc' = "failed"
    BY <1>6 DEF Fails, GotPlaylist, Fetch, Again
  <2> QED
    BY <2>1, <2>2, OtherAccount
<1>7. CASE UNCHANGED vars
  BY <1>7, OtherAccount DEF vars, playerVars, historyVars
<1> QED
  BY <1>1, <1>2, <1>3, <1>4, <1>5, <1>6, <1>7 DEF Next, Origin, Player

\* However slow its requests are and however long it sleeps: in every session, up
\* to its failure, what the player records as stalled time is the time its viewer
\* starved, but for the parts of ticks its drains cut off (client.go:59-68).
THEOREM AccountIsReal == Spec => []StallsAreReal
<1>1. Init => AccountInv
  BY InitAccount
<1>2. AccountInv /\ [Next]_vars => AccountInv'
  BY NextAccount
<1>3. AccountInv => StallsAreReal
  BY DEF AccountInv
<1> QED
  BY <1>1, <1>2, <1>3, PTL DEF Spec
-----------------------------------------------------------------------------
(* The ring and the playlist.  Every ring holds the last numbers produced,   *)
(* as many as there are and no more than Ring, and a playlist the last       *)
(* numbers there were when it was written.                                   *)
Newest(s, x) == \A i \in 1..Len(s) : s[i] = x - Len(s) + (i - 1)

RingInv == \A r \in Rendition :
    /\ Len(segs[r]) = IF seq < Ring THEN seq ELSE Ring
    /\ Newest(segs[r], seq)

ListInv ==
    /\ pc = "reply" /\ want = Playlist => list # <<>>
    /\ made < Ring => /\ made + Len(list) <= seq /\ Len(list) <= Window
                      /\ Newest(list, seq - made)

ServeInv == AccountInv /\ TypeOK /\ RingInv /\ ListInv

\* The end of a ring.
LEMMA LatestEffect ==
  ASSUME NEW s \in Seq(Nat), NEW n \in Nat
  PROVE  /\ Latest(s, n) \in Seq(Nat)
         /\ Len(Latest(s, n)) = IF Len(s) > n THEN n ELSE Len(s)
         /\ \A x \in Int : Newest(s, x) => Newest(Latest(s, n), x)
<1>1. PICK k \in Nat : k = Len(s)
  BY LenProperties
<1>2. CASE k > n
  <2>1. Latest(s, n) = SubSeq(s, k - n + 1, k)
    BY <1>1, <1>2 DEF Latest
  <2>2. k - n + 1 \in 1..k + 1 /\ k \in 0..k
    BY <1>2
  <2>3. /\ Latest(s, n) \in Seq(Nat) /\ Len(Latest(s, n)) = n
        /\ \A i \in 1..n : Latest(s, n)[i] = s[k - n + i]
    <3>1. \A i \in k - n + 1..k : s[i] \in Nat
      BY <1>1, <2>2, ElementOfSeq
    <3>2. k - (k - n + 1) + 1 = n /\ \A i \in 1..n : (k - n + 1) + i - 1 = k - n + i
      BY <1>2
    <3> QED
      BY <1>2, <2>1, <2>2, <3>1, <3>2, SubSeqProperties
  <2>4. ASSUME NEW x \in Int, Newest(s, x) PROVE Newest(Latest(s, n), x)
    <3>1. ASSUME NEW i \in 1..n PROVE Latest(s, n)[i] = x - n + (i - 1)
      <4>1. k - n + i \in 1..k /\ x - k + (k - n + i - 1) = x - n + (i - 1)
        BY <1>2
      <4>2. s[k - n + i] = x - k + (k - n + i - 1)
        BY <1>1, <2>4, <4>1 DEF Newest
      <4> QED
        BY <2>3, <4>1, <4>2
    <3> QED
      BY <2>3, <3>1 DEF Newest
  <2> QED
    BY <1>1, <1>2, <2>3, <2>4
<1>3. CASE ~(k > n)
  BY <1>1, <1>3 DEF Latest
<1> QED
  BY <1>2, <1>3

LEMMA Positive == Ring \in Nat \ {0} /\ Window \in Nat \ {0} /\ Window <= Ring
  BY HlsAssumption

LEMMA Limits == Slow \in Nat /\ MaxTime \in Nat /\ MaxFail \in Nat /\ MaxCrash \in Nat
  BY HlsAssumption

LEMMA InitServe == Init => ServeInv
<1> SUFFICES ASSUME Init PROVE ServeInv
  OBVIOUS
<1>1. AccountInv
  BY InitAccount
<1>2. /\ segs = [r \in Rendition |-> <<0>>] /\ seq = 1 /\ list = <<>> /\ made = 0
      /\ pc = "ask" /\ want = Playlist
  BY DEF Init, NewSession
<1>3. ASSUME NEW r \in Rendition
      PROVE  segs[r] = <<0>> /\ Len(segs[r]) = 1 /\ Newest(segs[r], seq)
  BY <1>2 DEF Newest
<1>4. RingInv
  BY <1>2, <1>3, Positive DEF RingInv
<1>5. ListInv
  <2>1. Len(list) = 0 /\ Newest(list, seq - made)
    BY <1>2 DEF Newest
  <2> QED
    BY <1>2, <2>1, Positive DEF ListInv
<1>6. TypeOK
  <2>1. segs \in [Rendition -> Seq(Nat)]
    BY <1>2
  <2>2. \A r \in Rendition : Len(segs[r]) \in 1..Ring
    <3>1. 1 \in 1..Ring
      BY Positive
    <3> QED
      BY <1>3, <3>1
  <2>3. /\ clock \in Time /\ phase \in 0..Seg /\ crashes \in 0..MaxCrash /\ spent \in 0..Slow
        /\ lastTick \in Time /\ fails \in 0..MaxFail /\ made \in 0..Ring
    BY HlsAssumption DEF Init, NewSession, Time
  <2>4. /\ list \in Seq(Nat) /\ cur \in Rendition /\ nextSeq \in Nat \cup {None}
        /\ want \in Nat \cup {Playlist}
    BY HlsAssumption DEF Init, NewSession
  <2>5. started \in BOOLEAN /\ fetched \in BOOLEAN /\ prompt \in BOOLEAN
    BY DEF Init, NewSession
  <2>6. /\ seq \in Nat /\ buffer \in Nat /\ nap \in Nat /\ stalled \in Nat /\ level \in Nat /\ starved \in Nat
        /\ before \in Nat /\ cut \in Nat
    BY DEF Init, NewSession
  <2> QED
    BY <1>2, <2>1, <2>2, <2>3, <2>4, <2>5, <2>6 DEF TypeOK
<1> QED
  BY <1>1, <1>4, <1>5, <1>6 DEF ServeInv

\* Nothing but the origin's ticker and a restart touches the rings, and nothing
\* but these and an answer the playlist.
LEMMA OtherServe ==
  ASSUME RingInv, ListInv, UNCHANGED <<segs, seq, list, made>>,
         pc' = "reply" /\ want' = Playlist => pc = "reply" /\ want = Playlist
  PROVE  RingInv' /\ ListInv'
  BY DEF RingInv, ListInv, Newest

LEMMA TickServe == ServeInv /\ Tick => TypeOK' /\ RingInv' /\ ListInv'
<1> SUFFICES ASSUME ServeInv, Tick PROVE TypeOK' /\ RingInv' /\ ListInv'
  OBVIOUS
<1>1. UNCHANGED <<segs, seq, crashes, pc, want, list, cur, nextSeq, fetched, fails,
                  buffer, started, lastTick, stalled, made, before, cut>>
  BY DEF Tick, accountVars
<1>2. RingInv' /\ ListInv'
  BY <1>1, OtherServe DEF ServeInv
<1>3. /\ clock < MaxTime /\ clock' = clock + 1
      /\ phase > 0 /\ phase' = phase - 1
      /\ spent' = spent \/ (spent < Slow /\ spent' = spent + 1)
      /\ nap' = nap \/ (nap > 0 /\ nap' = nap - 1)
  BY DEF Tick
<1>4. /\ clock \in 0..MaxTime /\ lastTick \in 0..MaxTime /\ phase \in 0..Seg
      /\ spent \in 0..Slow /\ nap \in Nat
  BY DEF ServeInv, TypeOK, Time
<1>5. clock' \in 0..MaxTime /\ phase' \in 0..Seg
  BY <1>3, <1>4, Bounds, Limits
<1>6. spent' \in 0..Slow /\ nap' \in Nat
  BY <1>3, <1>4, Limits
<1>7. level' \in Nat /\ starved' \in Nat
  BY DEF Tick, ServeInv, TypeOK
<1>8. prompt' \in BOOLEAN
  BY DEF Tick, ServeInv, TypeOK
<1> QED
  BY <1>1, <1>2, <1>4, <1>5, <1>6, <1>7, <1>8 DEF ServeInv, TypeOK, Time

\* A segment of every rendition is produced: the rings slide by one, and what a
\* playlist lists is one further from their end.
LEMMA ProduceServe == ServeInv /\ Produce => TypeOK' /\ RingInv' /\ ListInv'
<1> SUFFICES ASSUME ServeInv, Produce PROVE TypeOK' /\ RingInv' /\ ListInv'
  OBVIOUS
<1>1. /\ phase' = Seg /\ segs' = [r \in Rendition |-> Push(r)] /\ seq' = seq + 1
      /\ made' = IF made < Ring THEN made + 1 ELSE made
      /\ UNCHANGED <<clock, crashes, pc, want, spent, list, cur, nextSeq, fetched, nap, fails,
                     buffer, started, lastTick, stalled, prompt, level, starved, before, cut>>
  BY DEF Produce, playerVars, accountVars, watchVars
<1>2. /\ segs \in [Rendition -> Seq(Nat)] /\ seq \in Nat /\ made \in 0..Ring /\ list \in Seq(Nat)
  BY DEF ServeInv, TypeOK
<1>3. ASSUME NEW r \in Rendition
      PROVE  /\ segs'[r] \in Seq(Nat)
             /\ Len(segs'[r]) = IF seq + 1 < Ring THEN seq + 1 ELSE Ring
             /\ Len(segs'[r]) \in 1..Ring
             /\ Newest(segs'[r], seq + 1)
  <2>1. PICK s \in Seq(Nat) : s = segs[r]
    BY <1>2
  <2>2. PICK x \in Nat : x = seq
    BY <1>2
  <2>3. Len(s) = (IF x < Ring THEN x ELSE Ring) /\ Newest(s, x)
    BY <2>1, <2>2 DEF ServeInv, RingInv
  <2>4. PICK k \in Nat : k = Len(s)
    BY LenProperties
  <2>5. PICK t \in Seq(Nat) : t = Append(s, x)
    BY AppendProperties
  <2>6. /\ Len(t) = k + 1
        /\ \A i \in 1..k : t[i] = s[i]
        /\ t[k + 1] = x
    BY <2>4, <2>5
  <2>7. Newest(t, x + 1)
    <3>1. ASSUME NEW i \in 1..k + 1 PROVE t[i] = x + 1 - (k + 1) + (i - 1)
      <4>1. CASE i \in 1..k
        <5>1. t[i] = s[i] /\ s[i] = x - k + (i - 1)
          BY <2>3, <2>4, <2>6, <4>1 DEF Newest
        <5> QED
          BY <5>1
      <4>2. CASE i = k + 1
        BY <2>6, <4>2
      <4> QED
        BY <4>1, <4>2
    <3> QED
      BY <2>6, <3>1 DEF Newest
  <2>8. segs'[r] = Latest(t, Ring)
    BY <1>1, <2>1, <2>2, <2>5 DEF Push
  <2>9. /\ Latest(t, Ring) \in Seq(Nat)
        /\ Len(Latest(t, Ring)) = IF k + 1 > Ring THEN Ring ELSE k + 1
        /\ Newest(Latest(t, Ring), x + 1)
    BY <2>6, <2>7, LatestEffect, Positive
  <2> QED
    BY <2>2, <2>3, <2>4, <2>8, <2>9, Positive
<1>4. RingInv'
  BY <1>1, <1>3 DEF RingInv, Newest
<1>5. ListInv'
  <2>1. pc' = "reply" /\ want' = Playlist => list' # <<>>
    BY <1>1 DEF ServeInv, ListInv
  <2>2. ASSUME made' < Ring
        PROVE  /\ made' + Len(list') <= seq' /\ Len(list') <= Window
               /\ Newest(list', seq' - made')
    <3>1. PICK k \in Nat : k = Len(list)
      BY <1>2, LenProperties
    <3>2. made < Ring /\ made' = made + 1
      BY <1>1, <1>2, <2>2, Positive
    <3>3. made + k <= seq /\ k <= Window /\ Newest(list, seq - made)
      BY <3>1, <3>2 DEF ServeInv, ListInv
    <3>4. seq' - made' = seq - made /\ made' + k <= seq'
      BY <1>1, <1>2, <3>2, <3>3
    <3>5. Newest(list', seq' - made')
      BY <1>1, <3>3, <3>4 DEF Newest
    <3> QED
      BY <1>1, <3>1, <3>3, <3>4, <3>5
  <2> QED
    BY <2>1, <2>2 DEF ListInv, Newest
<1>6. TypeOK'
  <2>1. segs' \in [Rendition -> Seq(Nat)]
    <3>1. \A r \in Rendition : Push(r) \in Seq(Nat)
      BY <1>1, <1>3
    <3> QED
      BY <1>1, <3>1
  <2>2. made' \in 0..Ring /\ phase' \in 0..Seg /\ seq' \in Nat
    BY <1>1, <1>2, HlsAssumption
  <2> QED
    BY <1>1, <1>3, <2>1, <2>2 DEF ServeInv, TypeOK, Time
<1> QED
  BY <1>4, <1>5, <1>6

\* The origin starts again: its rings are new, and no playlist counts.
LEMMA RestartServe == ServeInv /\ Restart => TypeOK' /\ RingInv' /\ ListInv'
<1> SUFFICES ASSUME ServeInv, Restart PROVE TypeOK' /\ RingInv' /\ ListInv'
  OBVIOUS
<1>1. /\ crashes < MaxCrash /\ crashes' = crashes + 1
      /\ segs' = [r \in Rendition |-> <<0>>] /\ seq' = 1 /\ phase' = Seg
      /\ made' = Ring
      /\ pc' = IF Waiting THEN "failed" ELSE pc
      /\ UNCHANGED <<clock, want, spent, list, cur, nextSeq, fetched, nap, fails,
                     buffer, started, lastTick, stalled, prompt, level, starved, before, cut>>
  BY DEF Restart, accountVars, watchVars
<1>2. ASSUME NEW r \in Rendition
      PROVE  segs'[r] = <<0>> /\ Len(segs'[r]) = 1 /\ Newest(segs'[r], 1)
  BY <1>1 DEF Newest
<1>3. RingInv'
  BY <1>1, <1>2, Positive DEF RingInv, Newest
<1>4. ListInv'
  <2>1. ~(pc' = "reply" /\ want' = Playlist)
    BY <1>1 DEF Waiting
  <2>2. ~(made' < Ring)
    BY <1>1, Positive
  <2> QED
    BY <2>1, <2>2 DEF ListInv
<1>5. TypeOK'
  <2>1. segs' \in [Rendition -> Seq(Nat)] /\ seq' \in Nat
    BY <1>1
  <2>2. \A r \in Rendition : Len(segs'[r]) \in 1..Ring
    <3>1. 1 \in 1..Ring
      BY Positive
    <3> QED
      BY <1>2, <3>1
  <2>3. crashes' \in 0..MaxCrash /\ phase' \in 0..Seg /\ made' \in 0..Ring
    BY <1>1, Bounds, Limits, Positive DEF ServeInv, TypeOK
  <2>4. pc' \in {"ask", "reply", "scan", "sleep", "failed"}
    BY <1>1 DEF ServeInv, TypeOK
  <2> QED
    BY <1>1, <2>1, <2>2, <2>3, <2>4 DEF ServeInv, TypeOK, Time
<1> QED
  BY <1>3, <1>4, <1>5

\* The playlist is written: it lists the end of a ring, which is not empty.
LEMMA ServePlaylistServe == ServeInv /\ ServePlaylist => TypeOK' /\ RingInv' /\ ListInv'
<1> SUFFICES ASSUME ServeInv, ServePlaylist PROVE TypeOK' /\ RingInv' /\ ListInv'
  OBVIOUS
<1>1. /\ list' = Latest(segs[cur], Window) /\ made' = 0 /\ pc' = "reply"
      /\ UNCHANGED <<clock, phase, segs, seq, crashes, want, spent, cur, nextSeq, fetched, nap, fails,
                     buffer, started, lastTick, stalled, prompt, level, starved, before, cut>>
  BY DEF ServePlaylist, originVars, accountVars, watchVars
<1>2. PICK s \in Seq(Nat) : s = segs[cur]
  BY DEF ServeInv, TypeOK
<1>3. PICK x \in Nat : x = seq
  BY DEF ServeInv, TypeOK
<1>4. PICK k \in Nat : k = Len(s)
  BY LenProperties
<1>5. k \in 1..Ring /\ k <= x /\ Newest(s, x)
  <2>1. cur \in Rendition
    BY DEF ServeInv, TypeOK
  <2>2. Len(segs[cur]) \in 1..Ring
    BY <2>1 DEF ServeInv, TypeOK
  <2>3. Len(segs[cur]) = (IF seq < Ring THEN seq ELSE Ring) /\ Newest(segs[cur], seq)
    BY <2>1 DEF ServeInv, RingInv
  <2> QED
    BY <1>2, <1>3, <1>4, <2>2, <2>3, Positive
<1>6. PICK l : l = Latest(s, Window)
  OBVIOUS
<1>7. l \in Seq(Nat) /\ Len(l) = (IF k > Window THEN Window ELSE k) /\ Newest(l, x)
  BY <1>4, <1>5, <1>6, LatestEffect, Positive
<1>8. Len(l) \in 1..Window /\ Len(l) <= x /\ l # <<>>
  BY <1>5, <1>7, Positive
<1>9. list' = l
  BY <1>1, <1>2, <1>6
<1>10. RingInv'
  BY <1>1 DEF ServeInv, RingInv, Newest
<1>11. ListInv'
  <2>1. seq' = x /\ made' = 0 /\ x - 0 = x /\ 0 + Len(l) <= x
    BY <1>1, <1>3, <1>8
  <2>2. Newest(list', seq' - made')
    BY <1>7, <1>9, <2>1
  <2> QED
    BY <1>8, <1>9, <2>1, <2>2 DEF ListInv, Newest
<1>12. TypeOK'
  BY <1>1, <1>7, <1>9, Positive DEF ServeInv, TypeOK, Time
<1> QED
  BY <1>10, <1>11, <1>12

\* The playlist arrives, and is not empty: the player joins at a number.
LEMMA GotPlaylistServe == ServeInv /\ GotPlaylist => TypeOK' /\ RingInv' /\ ListInv'
<1> SUFFICES ASSUME ServeInv, GotPlaylist PROVE TypeOK' /\ RingInv' /\ ListInv'
  OBVIOUS
<1>1. /\ pc = "reply" /\ want = Playlist /\ pc' = "scan" /\ fetched' = FALSE
      /\ nextSeq' = IF nextSeq = None THEN JoinAt(list) ELSE nextSeq
      /\ UNCHANGED <<clock, phase, segs, seq, crashes, want, spent, list, cur, nap, fails,
                     buffer, started, lastTick, stalled, made, prompt, level, starved, before, cut>>
  BY DEF GotPlaylist, originVars, accountVars, historyVars, watchVars
<1>2. RingInv' /\ ListInv'
  BY <1>1, OtherServe DEF ServeInv
<1>3. nextSeq' \in Nat \cup {None}
  <2>1. PICK l \in Seq(Nat) : l = list
    BY DEF ServeInv, TypeOK
  <2>2. l # <<>>
    BY <1>1, <2>1 DEF ServeInv, ListInv
  <2>3. Head(l) \in Nat /\ Len(l) \in Nat
    BY <2>2
  <2>4. JoinAt(l) \in Nat
    BY <2>3 DEF JoinAt
  <2> QED
    BY <1>1, <2>1, <2>4 DEF ServeInv, TypeOK
<1>4. TypeOK'
  BY <1>1, <1>3 DEF ServeInv, TypeOK, Time
<1> QED
  BY <1>2, <1>4

LEMMA FetchServe == ServeInv /\ Fetch => TypeOK' /\ RingInv' /\ ListInv'
<1> SUFFICES ASSUME ServeInv, Fetch PROVE TypeOK' /\ RingInv' /\ ListInv'
  OBVIOUS
<1>1. /\ nextSeq \in ToSet(list) /\ pc' = "ask" /\ want' = nextSeq /\ spent' = 0
      /\ UNCHANGED <<clock, phase, segs, seq, crashes, list, cur, nextSeq, fetched, nap, fails,
                     buffer, started, lastTick, stalled, made, prompt, level, starved, before, cut>>
  BY DEF Fetch, Ask, originVars, accountVars, historyVars, watchVars
<1>2. RingInv' /\ ListInv'
  BY <1>1, OtherServe DEF ServeInv
<1>3. want' \in Nat \cup {Playlist}
  BY <1>1 DEF ServeInv, TypeOK, None, Playlist
<1>4. spent' \in 0..Slow
  BY <1>1, HlsAssumption
<1>5. TypeOK'
  BY <1>1, <1>3, <1>4 DEF ServeInv, TypeOK, Time
<1> QED
  BY <1>2, <1>5

LEMMA GotSegmentServe == ServeInv /\ GotSegment => TypeOK' /\ RingInv' /\ ListInv'
<1> SUFFICES ASSUME ServeInv, GotSegment PROVE TypeOK' /\ RingInv' /\ ListInv'
  OBVIOUS
<1>1. /\ pc = "reply" /\ want # Playlist /\ pc' = "scan" /\ cur' \in Rendition
      /\ nextSeq' = nextSeq + 1 /\ fetched' = TRUE
      /\ UNCHANGED <<clock, phase, segs, seq, crashes, want, spent, list, nap, fails, made, prompt>>
  BY DEF GotSegment, originVars
<1>2. RingInv' /\ ListInv'
  BY <1>1, OtherServe DEF ServeInv
<1>3. AccountTypeOK'
  BY GotSegmentAccount DEF ServeInv, AccountInv
<1>4. nextSeq' \in Nat \cup {None}
  BY <1>1 DEF ServeInv, TypeOK, None
<1>5. lastTick' \in Time /\ fetched' \in BOOLEAN
  <2>1. lastTick' = clock
    BY DEF GotSegment, Drain
  <2> QED
    BY <1>1, <2>1 DEF ServeInv, TypeOK
<1>6. TypeOK'
  BY <1>1, <1>3, <1>4, <1>5 DEF ServeInv, TypeOK, AccountTypeOK, Time
<1> QED
  BY <1>2, <1>6

\* How long the player sleeps: half of what is in its buffer beyond its target.
LEMMA NapEffect ==
  ASSUME NEW n \in Nat, NEW m \in Nap(n)
  PROVE  m \in Nat /\ (m <= 1 \/ 2 * m <= n - Target + 1)
<1>1. CASE n > Target
  <2>1. PICK d \in Nat : d = n - Target
    BY <1>1, Bounds
  <2>2. m = d \div 2 \/ m = (d + 1) \div 2
    BY <1>1, <2>1 DEF Nap
  <2>3. m \in Nat /\ 2 * m <= d + 1
    BY <2>2
  <2> QED
    BY <2>1, <2>3, Bounds
<1>2. CASE ~(n > Target)
  BY <1>2 DEF Nap
<1> QED
  BY <1>1, <1>2

LEMMA EndScanServe == ServeInv /\ EndScan => TypeOK' /\ RingInv' /\ ListInv'
<1> SUFFICES ASSUME ServeInv, EndScan PROVE TypeOK' /\ RingInv' /\ ListInv'
  OBVIOUS
<1>1. /\ pc' = "sleep"
      /\ UNCHANGED <<clock, phase, segs, seq, crashes, want, spent, list, cur, nextSeq, fetched,
                     fails, made, prompt>>
  BY DEF EndScan, originVars
<1>2. RingInv' /\ ListInv'
  BY <1>1, OtherServe DEF ServeInv
<1>3. AccountTypeOK'
  BY EndScanAccount DEF ServeInv, AccountInv
<1>4. nap' \in Nat /\ lastTick' = clock
  <2>1. PICK x \in Measured : Drain(x) /\ nap' \in Nap(LeftAfter(x))
    BY DEF EndScan
  <2>2. pc # "failed" /\ AccountInv
    BY DEF EndScan, ServeInv
  <2>3. PICK n \in Nat : n = LeftAfter(x)
    BY <2>1, <2>2, DrainEffect
  <2>4. nap' \in Nat
    BY <2>1, <2>3, NapEffect
  <2>5. lastTick' = clock
    BY <2>1 DEF Drain
  <2> QED
    BY <2>4, <2>5
<1>5. lastTick' \in Time
  BY <1>4 DEF ServeInv, TypeOK
<1>6. TypeOK'
  BY <1>1, <1>3, <1>4, <1>5 DEF ServeInv, TypeOK, AccountTypeOK, Time
<1> QED
  BY <1>2, <1>6

LEMMA ReconnectServe == ServeInv /\ Reconnect => TypeOK' /\ RingInv' /\ ListInv'
<1> SUFFICES ASSUME ServeInv, Reconnect PROVE TypeOK' /\ RingInv' /\ ListInv'
  OBVIOUS
<1>1. /\ pc' = "ask" /\ want' = Playlist /\ spent' = 0
      /\ list' = <<>> /\ nextSeq' = None /\ fetched' = FALSE /\ nap' = 0 /\ cur' = Lowest
      /\ buffer' = 0 /\ started' = FALSE /\ lastTick' = clock
      /\ level' = 0 /\ starved' = 0 /\ before' = stalled /\ cut' = 0
      /\ UNCHANGED <<clock, phase, segs, seq, crashes, fails, stalled, made, prompt>>
  BY DEF Reconnect, Ask, originVars
<1>2. RingInv'
  BY <1>1 DEF ServeInv, RingInv, Newest
<1>3. ListInv'
  <2>1. ~(pc' = "reply" /\ want' = Playlist)
    BY <1>1
  <2>2. Len(list') = 0 /\ Newest(list', seq' - made')
    BY <1>1 DEF Newest
  <2>3. made \in 0..Ring /\ seq \in Nat
    BY DEF ServeInv, TypeOK
  <2>4. made < Ring => made <= seq
    <3>1. ASSUME made < Ring PROVE made + Len(list) <= seq
      BY <3>1 DEF ServeInv, ListInv
    <3>2. PICK k \in Nat : k = Len(list)
      BY LenProperties DEF ServeInv, TypeOK
    <3> QED
      BY <2>3, <3>1, <3>2
  <2> QED
    BY <1>1, <2>1, <2>2, <2>3, <2>4, Positive DEF ListInv, Newest
<1>4. TypeOK'
  <2>1. list' \in Seq(Nat) /\ nextSeq' \in Nat \cup {None} /\ want' \in Nat \cup {Playlist}
    BY <1>1
  <2>2. /\ spent' \in 0..Slow /\ nap' \in Nat /\ buffer' \in Nat /\ level' \in Nat
        /\ starved' \in Nat /\ cut' \in Nat /\ cur' \in Rendition
    BY <1>1, HlsAssumption
  <2>3. started' \in BOOLEAN /\ fetched' \in BOOLEAN
    BY <1>1
  <2> QED
    BY <1>1, <2>1, <2>2, <2>3 DEF ServeInv, TypeOK, Time
<1> QED
  BY <1>2, <1>3, <1>4

LEMMA NextServe == ServeInv /\ [Next]_vars => ServeInv'
<1> SUFFICES ASSUME ServeInv, [Next]_vars PROVE ServeInv'
  OBVIOUS
<1>1. AccountInv'
  BY NextAccount DEF ServeInv
<1> SUFFICES TypeOK' /\ RingInv' /\ ListInv'
  BY <1>1 DEF ServeInv
<1>2. CASE Tick
  BY <1>2, TickServe
<1>3. CASE Produce
  BY <1>3, ProduceServe
<1>4. CASE Restart
  BY <1>4, RestartServe
<1>5. CASE ServePlaylist
  BY <1>5, ServePlaylistServe
<1>6. CASE GotPlaylist
  BY <1>6, GotPlaylistServe
<1>7. CASE Fetch
  BY <1>7, FetchServe
<1>8. CASE GotSegment
  BY <1>8, GotSegmentServe
<1>9. CASE EndScan
  BY <1>9, EndScanServe
<1>10. CASE Reconnect
  BY <1>10, ReconnectServe
<1>11. CASE ServeSegment \/ NotFound \/ Fails
  <2>1. /\ pc' \in {"reply", "failed"}
        /\ pc' = "reply" => want # Playlist
        /\ UNCHANGED <<clock, phase, segs, seq, crashes, want, spent, list, cur, nextSeq, fetched, nap,
                       buffer, started, lastTick, stalled, made, prompt, level, starved, before, cut>>
    <3>1. CASE ServeSegment
      <4>1. ToSet(segs[cur]) \subseteq Nat
        BY DEF ServeInv, TypeOK, ToSet
      <4>2. want # Playlist
        BY <3>1, <4>1 DEF ServeSegment, Playlist
      <4> QED
        BY <3>1, <4>2 DEF ServeSegment, originVars, accountVars, historyVars, watchVars
    <3>2. CASE NotFound
      BY <3>2 DEF NotFound, originVars, accountVars, historyVars, watchVars
    <3>3. CASE Fails
      BY <3>3 DEF Fails, originVars, accountVars, historyVars, watchVars
    <3> QED
      BY <1>11, <3>1, <3>2, <3>3
  <2>2. fails' \in 0..MaxFail
    BY <1>11, Limits DEF ServeSegment, NotFound, Fails, ServeInv, TypeOK
  <2>3. RingInv' /\ ListInv'
    BY <2>1, OtherServe DEF ServeInv
  <2>4. TypeOK'
    BY <2>1, <2>2 DEF ServeInv, TypeOK, Time
  <2> QED
    BY <2>3, <2>4
<1>12. CASE Again
  <2>1. /\ pc' = "ask" /\ want' = Playlist /\ spent' = 0
        /\ UNCHANGED <<clock, phase, segs, seq, crashes, list, cur, nextSeq, fetched, nap, fails,
                       buffer, started, lastTick, stalled, made, prompt, level, starved, before, cut>>
    BY <1>12 DEF Again, Ask, originVars, accountVars, historyVars, watchVars
  <2>2. RingInv' /\ ListInv'
    BY <2>1, OtherServe DEF ServeInv
  <2>3. spent' \in 0..Slow
    BY <2>1, HlsAssumption
  <2>4. TypeOK'
    BY <2>1, <2>3 DEF ServeInv, TypeOK, Time
  <2> QED
    BY <2>2, <2>4
<1>13. CASE UNCHANGED vars
  <2>1. UNCHANGED <<clock, phase, segs, seq, crashes, pc, want, spent, list, cur, nextSeq, fetched, nap,
                    fails, buffer, started, lastTick, stalled, made, prompt, level, starved, before, cut>>
    BY <1>13 DEF vars, originVars, playerVars, accountVars, historyVars, watchVars
  <2>2. RingInv' /\ ListInv'
    BY <2>1, OtherServe DEF ServeInv
  <2>3. TypeOK'
    BY <2>1 DEF ServeInv, TypeOK, Time
  <2> QED
    BY <2>2, <2>3
<1> QED
  BY <1>2, <1>3, <1>4, <1>5, <1>6, <1>7, <1>8, <1>9, <1>10, <1>11, <1>12, <1>13
     DEF Next, Origin, Player

\* A playlist's last number is the ring's made segments ago; while the segments
\* made since and the playlist fit in the ring, the ring has them all.
LEMMA ListedInRing == ServeInv => ListedIsServed
<1> SUFFICES ASSUME ServeInv PROVE ListedIsServed
  OBVIOUS
<1> SUFFICES ASSUME made <= Ring - Window, NEW r \in Rendition, NEW y \in ToSet(list)
             PROVE  y \in ToSet(segs[r])
  BY DEF ServeInv, ListedIsServed
<1>1. PICK l \in Seq(Nat), s \in Seq(Nat), x \in Nat, m \in Nat :
         l = list /\ s = segs[r] /\ x = seq /\ m = made
  BY DEF ServeInv, TypeOK
<1>2. PICK j \in Nat, k \in Nat : j = Len(l) /\ k = Len(s)
  BY LenProperties
<1>3. m < Ring
  BY <1>1, Positive
<1>4. m + j <= x /\ j <= Window /\ Newest(l, x - m)
  BY <1>1, <1>2, <1>3 DEF ServeInv, ListInv
<1>5. k = (IF x < Ring THEN x ELSE Ring) /\ Newest(s, x)
  BY <1>1, <1>2 DEF ServeInv, RingInv
<1>6. PICK i \in 1..j : y = l[i]
  BY <1>1, <1>2 DEF ToSet
<1>7. y = x - m - j + (i - 1)
  BY <1>2, <1>4, <1>6 DEF Newest
<1>8. PICK h \in Int : h = i + k - m - j
  OBVIOUS
<1>9. m + j <= k
  BY <1>1, <1>4, <1>5, Positive
<1>10. h \in 1..k
  BY <1>8, <1>9
<1>11. s[h] = x - k + (h - 1)
  BY <1>2, <1>5, <1>10 DEF Newest
<1>12. s[h] = y
  BY <1>7, <1>8, <1>11
<1> QED
  BY <1>1, <1>2, <1>10, <1>12 DEF ToSet

\* For a ring and a window of any length, any ladder and through any restarts:
\* what a playlist lists is served, in whichever rendition, while ringSegments -
\* windowSegments more segments are produced (origin.go's two constants).
THEOREM ListedSound == Spec => []ListedIsServed
<1>1. Init => ServeInv
  BY InitServe
<1>2. ServeInv /\ [Next]_vars => ServeInv'
  BY NextServe
<1>3. ServeInv => ListedIsServed
  BY ListedInRing
<1> QED
  BY <1>1, <1>2, <1>3, PTL DEF Spec
-----------------------------------------------------------------------------
(* The pace of a player whose requests are prompt.  Segment k is produced at *)
(* time k * Seg.  How late the player is, for the segment it needs, never    *)
(* exceeds some three segments: a scan halves it, and how long the player    *)
(* sleeps depends on its buffer, which with its lateness makes up the delay  *)
(* of what it plays (level + Late).  That delay is fixed when it starts to   *)
(* play, and grows only while it starves.                                    *)
Made(k) == k * Seg
Edge == Last(list) + 1
Late == clock - Made(nextSeq)
Beyond == clock - Made(Edge)

\* How late a player may be when it asks for a playlist.
Slack == IF started THEN 3 * Seg + 2 ELSE 2 * Seg + 1

Scanning == pc = "scan" \/ (Waiting /\ want # Playlist)
Spent == IF pc = "scan" THEN 0 ELSE spent

ClockInv == clock + phase = Made(seq)
SpentInv == 2 * spent <= Seg
ShapeInv ==
    list # <<>> => /\ Edge \in Nat /\ Len(list) = (IF Edge < Window THEN Edge ELSE Window)
                   /\ Newest(list, Edge)
Reached == Edge <= seq /\ Edge - Window <= nextSeq /\ nextSeq <= Edge
ScanInv ==
    Scanning => /\ list # <<>> /\ nextSeq # None /\ Reached
                /\ Waiting => want = nextSeq /\ nextSeq < Edge
                /\ Late + Beyond - 2 * Spent <= Slack + Seg
                /\ 2 * (Late - Spent) <= 2 * Slack + Seg
PollInv ==
    Waiting /\ want = Playlist /\ nextSeq # None => nextSeq <= seq /\ Late - spent <= Slack
ListingInv ==
    pc = "reply" /\ want = Playlist =>
        /\ list # <<>> /\ Edge <= seq /\ Beyond <= spent
        /\ nextSeq # None => Reached
JoinInv ==
    nextSeq = None => /\ pc \in {"ask", "reply", "failed"}
                      /\ pc # "failed" => want = Playlist /\ level = 0 /\ ~started
SleepInv == pc = "sleep" => nextSeq # None /\ nextSeq <= seq /\ Late + nap <= Slack
LevelInv == pc # "failed" => IF started THEN level + Late <= 4 * Seg + 2 ELSE level \in {0, Seg}

Paced == /\ ClockInv /\ SpentInv /\ ShapeInv /\ ScanInv /\ PollInv /\ ListingInv
         /\ JoinInv /\ SleepInv /\ LevelInv

PaceInv == /\ crashes = 0 => ClockInv
           /\ crashes = 0 /\ prompt /\ cut <= Target => Paced

LEMMA MadeEffect ==
    /\ \A k \in Int : Made(k) \in Int /\ Made(k + 1) = Made(k) + Seg
    /\ \A j, k \in Int : k <= j => Made(k) <= Made(j)
    /\ \A j, k \in Int : k + 7 <= j => Made(k) + 7 * Seg <= Made(j)
<1>1. ASSUME NEW k \in Int PROVE Made(k) \in Int /\ Made(k + 1) = Made(k) + Seg
  BY Bounds DEF Made
<1>2. ASSUME NEW j \in Int, NEW k \in Int, NEW d \in Nat, k + d <= j
      PROVE  Made(k) + d * Seg <= Made(j)
  <2>1. PICK i \in Nat : j = k + d + i
    <3>1. j - k - d \in Nat /\ j = k + d + (j - k - d)
      BY <1>2
    <3> QED
      BY <3>1
  <2>2. (k + d + i) * Seg = k * Seg + d * Seg + i * Seg /\ i * Seg >= 0
    BY Bounds
  <2>3. k * Seg \in Int /\ d * Seg \in Int /\ i * Seg \in Int
    BY Bounds
  <2> QED
    BY <2>1, <2>2, <2>3 DEF Made
<1>3. ASSUME NEW j \in Int, NEW k \in Int, k <= j PROVE Made(k) <= Made(j)
  <2>1. Made(k) + 0 * Seg <= Made(j)
    BY <1>2, <1>3
  <2> QED
    BY <1>1, <2>1, Bounds
<1>4. ASSUME NEW j \in Int, NEW k \in Int, k + 7 <= j PROVE Made(k) + 7 * Seg <= Made(j)
  BY <1>2, <1>4
<1> QED
  BY <1>1, <1>3, <1>4

\* What the arithmetic below rests on.
PaceNumbers ==
    /\ clock \in Nat /\ phase \in Nat /\ phase <= Seg /\ seq \in Nat /\ spent \in Nat
    /\ nap \in Nat /\ level \in Nat /\ nextSeq \in Int
    /\ Late \in Int /\ Slack \in Nat /\ Spent \in Nat

LEMMA PaceTypes ==
    ServeInv => PaceNumbers /\ started \in BOOLEAN /\ crashes \in Nat /\ nextSeq \in Nat \cup {None}
<1> SUFFICES ASSUME ServeInv
             PROVE  /\ PaceNumbers /\ started \in BOOLEAN /\ crashes \in Nat
                    /\ nextSeq \in Nat \cup {None}
  OBVIOUS
<1>1. /\ clock \in Nat /\ phase \in 0..Seg /\ seq \in Nat /\ spent \in Nat /\ nap \in Nat
      /\ level \in Nat /\ started \in BOOLEAN /\ nextSeq \in Nat \cup {None}
      /\ list \in Seq(Nat) /\ crashes \in Nat
  BY Limits DEF ServeInv, TypeOK, Time
<1>2. nextSeq \in Int
  BY <1>1 DEF None
<1>3. Late \in Int
  BY <1>1, <1>2, MadeEffect DEF Late
<1>4. Slack \in Nat /\ Spent \in Nat
  BY <1>1, Bounds DEF Slack, Spent
<1> QED
  BY <1>1, <1>2, <1>3, <1>4, Bounds DEF PaceNumbers

\* Where clock, need and playlist stay, so does the pace.
LEMMA SamePace ==
    /\ Late' = clock' - Made(nextSeq') /\ Beyond' = clock' - Made(Edge')
    /\ UNCHANGED list => Edge' = Edge
    /\ UNCHANGED list /\ ShapeInv => ShapeInv'
    /\ UNCHANGED <<clock, nextSeq>> => Late' = Late
    /\ UNCHANGED <<clock, list>> => Beyond' = Beyond
    /\ UNCHANGED started => Slack' = Slack
    /\ UNCHANGED <<pc, spent>> => Spent' = Spent
    /\ UNCHANGED <<list, nextSeq>> /\ seq \in Nat /\ seq' \in Nat /\ seq <= seq' /\ nextSeq \in Int
          /\ Edge \in Int /\ Reached => Reached'
<1>1. UNCHANGED list => Edge' = Edge
  BY DEF Edge, Last
<1>2. Late' = clock' - Made(nextSeq') /\ Beyond' = clock' - Made(Edge')
  BY DEF Late, Beyond, Made
<1>3. UNCHANGED <<clock, nextSeq>> => Late' = Late
  BY DEF Late, Made
<1>4. UNCHANGED <<clock, list>> => Beyond' = Beyond
  BY <1>1, <1>2 DEF Beyond
<1>5. UNCHANGED started => Slack' = Slack
  BY DEF Slack
<1>6. UNCHANGED <<pc, spent>> => Spent' = Spent
  BY DEF Spent
<1>7. UNCHANGED list /\ ShapeInv => ShapeInv'
  BY <1>1 DEF ShapeInv, Newest
<1>8. UNCHANGED <<list, nextSeq>> /\ seq \in Nat /\ seq' \in Nat /\ seq <= seq' /\ nextSeq \in Int
         /\ Edge \in Int /\ Reached => Reached'
  BY <1>1 DEF Reached
<1> QED
  BY <1>1, <1>2, <1>3, <1>4, <1>5, <1>6, <1>7, <1>8

\* A player that has just begun, or begun again.
LEMMA FreshPace ==
  ASSUME list' = <<>>, nextSeq' = None, pc' = "ask", want' = Playlist, spent' = 0,
         level' = 0, ~started', ClockInv'
  PROVE  Paced'
<1>1. SpentInv' /\ ShapeInv'
  BY Bounds DEF SpentInv, ShapeInv
<1>2. ScanInv' /\ PollInv' /\ ListingInv' /\ SleepInv'
  BY DEF ScanInv, PollInv, ListingInv, SleepInv, Scanning, Waiting, None
<1>3. JoinInv' /\ LevelInv'
  BY DEF JoinInv, LevelInv
<1> QED
  BY <1>1, <1>2, <1>3 DEF Paced

LEMMA InitPace == Init => PaceInv
<1> SUFFICES ASSUME Init PROVE Paced
  BY DEF PaceInv, Paced
<1>1. /\ clock = 0 /\ phase = Seg /\ seq = 1 /\ list = <<>> /\ nextSeq = None /\ pc = "ask"
      /\ want = Playlist /\ spent = 0 /\ level = 0 /\ started = FALSE
  BY DEF Init, NewSession
<1>2. ClockInv /\ SpentInv /\ ShapeInv
  BY <1>1, Bounds DEF ClockInv, SpentInv, ShapeInv, Made
<1>3. ScanInv /\ PollInv /\ ListingInv /\ SleepInv
  BY <1>1 DEF ScanInv, PollInv, ListingInv, SleepInv, Scanning, Waiting, None
<1>4. JoinInv /\ LevelInv
  BY <1>1 DEF JoinInv, LevelInv
<1> QED
  BY <1>2, <1>3, <1>4 DEF Paced

\* A session that has failed keeps no pace.
LEMMA FailedPace ==
  ASSUME Paced, pc' = "failed", UNCHANGED <<spent, list>>, ClockInv'
  PROVE  Paced'
<1>1. SpentInv' /\ ShapeInv'
  BY SamePace DEF Paced, SpentInv
<1>2. ScanInv' /\ PollInv' /\ ListingInv' /\ SleepInv' /\ JoinInv' /\ LevelInv'
  BY DEF ScanInv, PollInv, ListingInv, SleepInv, JoinInv, LevelInv, Scanning, Waiting
<1> QED
  BY <1>1, <1>2 DEF Paced

\* Time passes: a request or a sleep has been allowed for, and a player that
\* starves has as little buffer as it is late.
LEMMA TickPace == ServeInv /\ Paced /\ Tick /\ prompt' => Paced'
<1> SUFFICES ASSUME ServeInv, Paced, Tick, prompt' PROVE Paced'
  OBVIOUS
<1>0. /\ clock \in Nat /\ phase \in Nat /\ phase <= Seg /\ seq \in Nat /\ spent \in Nat
      /\ nap \in Nat /\ level \in Nat /\ nextSeq \in Int
      /\ Late \in Int /\ Slack \in Nat /\ Spent \in Nat
  BY PaceTypes DEF PaceNumbers
<1> USE <1>0, Bounds
<1>1. /\ clock' = clock + 1 /\ phase > 0 /\ phase' = phase - 1
      /\ level' = (IF started /\ level > 0 THEN level - 1 ELSE level)
      /\ 2 * spent' <= Seg
      /\ UNCHANGED <<seq, crashes, pc, want, list, nextSeq, started>>
  BY DEF Tick, accountVars
<1>2. /\ ClockInv /\ SpentInv /\ ShapeInv /\ ScanInv /\ PollInv /\ ListingInv
      /\ JoinInv /\ SleepInv /\ LevelInv
  BY DEF Paced
<1>3. ClockInv'
  <2>1. Made(seq)' = Made(seq)
    BY <1>1 DEF Made
  <2>2. Made(seq) \in Int
    BY MadeEffect
  <2> QED
    BY <1>1, <1>2, <2>1, <2>2 DEF ClockInv
<1>4. CASE pc = "failed"
  <2>1. SpentInv' /\ ShapeInv'
    BY <1>1, <1>2, SamePace DEF SpentInv
  <2>2. ScanInv' /\ PollInv' /\ ListingInv' /\ SleepInv' /\ JoinInv' /\ LevelInv'
    BY <1>1, <1>4 DEF ScanInv, PollInv, ListingInv, SleepInv, JoinInv, LevelInv, Scanning, Waiting
  <2> QED
    BY <1>3, <2>1, <2>2 DEF Paced
<1>5. CASE pc # "failed"
  <2>1. \/ Waiting /\ spent' = spent + 1
        \/ pc = "sleep" /\ nap > 0 /\ nap' = nap - 1
    BY <1>5 DEF Tick
  <2>2. Late' = Late + 1
    <3>1. Made(nextSeq) \in Int
      BY MadeEffect
    <3> QED
      BY <1>1, <3>1, SamePace DEF Late
  <2>3. Slack' = Slack
    BY <1>1, SamePace
  <2>4. ASSUME list # <<>> PROVE Edge' = Edge /\ Edge \in Nat /\ Beyond \in Int /\ Beyond' = Beyond + 1
    <3>1. Edge \in Nat /\ Edge' = Edge
      BY <1>1, <1>2, <2>4, SamePace DEF ShapeInv
    <3>2. Made(Edge) \in Int
      BY <3>1, MadeEffect
    <3> QED
      BY <1>1, <3>1, <3>2, SamePace DEF Beyond
  <2>5. ScanInv'
    <3> SUFFICES ASSUME Scanning' PROVE ScanInv'
      BY DEF ScanInv
    <3>1. Scanning /\ Waiting /\ spent' = spent + 1
      BY <1>1, <2>1 DEF Scanning, Waiting
    <3>2. /\ list # <<>> /\ nextSeq # None /\ Reached /\ want = nextSeq /\ nextSeq < Edge
          /\ Late + Beyond - 2 * spent <= Slack + Seg
          /\ 2 * (Late - spent) <= 2 * Slack + Seg
      BY <1>2, <3>1 DEF ScanInv, Spent, Waiting
    <3>3. Spent' = spent + 1
      BY <1>1, <3>1 DEF Spent, Waiting
    <3>4. /\ Late' + Beyond' - 2 * Spent' <= Slack' + Seg
          /\ 2 * (Late' - Spent') <= 2 * Slack' + Seg
      <4>1. PICK t \in Int, b \in Int, p \in Nat, k \in Nat :
               t = Late /\ b = Beyond /\ p = spent /\ k = Slack
        BY <2>4, <3>2
      <4>2. t + b - 2 * p <= k + Seg /\ 2 * (t - p) <= 2 * k + Seg
        BY <3>2, <4>1
      <4>3. Late' = t + 1 /\ Beyond' = b + 1 /\ Spent' = p + 1 /\ Slack' = k
        BY <2>2, <2>3, <2>4, <3>2, <3>3, <4>1
      <4> HIDE <1>0
      <4> QED
        BY <4>2, <4>3
    <3>5. Reached' /\ want' = nextSeq' /\ nextSeq' < Edge' /\ list' # <<>> /\ nextSeq' # None
      BY <1>1, <2>4, <3>2 DEF Reached
    <3> QED
      BY <3>4, <3>5 DEF ScanInv
  <2>6. PollInv'
    BY <1>1, <1>2, <2>1, <2>2, <2>3 DEF PollInv, Waiting
  <2>7. ListingInv'
    <3> SUFFICES ASSUME pc = "reply", want = Playlist PROVE ListingInv'
      BY <1>1 DEF ListingInv
    <3>1. list # <<>> /\ Edge <= seq /\ Beyond <= spent /\ (nextSeq # None => Reached)
      BY <1>2 DEF ListingInv
    <3>2. spent' = spent + 1
      BY <2>1
    <3>3. Beyond' <= spent' /\ Edge' <= seq'
      <4>1. Beyond' = Beyond + 1 /\ Beyond \in Int /\ Edge' = Edge
        BY <2>4, <3>1
      <4> QED
        BY <1>1, <3>1, <3>2, <4>1
    <3>4. nextSeq' # None => Reached'
      BY <1>1, <2>4, <3>1 DEF Reached
    <3> QED
      BY <1>1, <3>1, <3>3, <3>4 DEF ListingInv
  <2>8. SleepInv'
    BY <1>1, <1>2, <2>1, <2>2, <2>3 DEF SleepInv, Waiting
  <2>9. JoinInv'
    BY <1>1, <1>2, <1>5 DEF JoinInv
  <2>10. LevelInv'
    <3>1. CASE ~started
      BY <1>1, <1>2, <1>5, <3>1 DEF LevelInv
    <3>2. CASE started /\ level > 0
      BY <1>1, <1>2, <1>5, <2>2, <3>2 DEF LevelInv
    <3>3. CASE started /\ level = 0
      <4>1. nextSeq # None /\ Slack = 3 * Seg + 2
        BY <1>2, <1>5, <3>3 DEF JoinInv, Slack
      <4>2. CASE pc = "sleep"
        BY <1>1, <2>8, <2>3, <2>1, <3>3, <4>1, <4>2, <2>2 DEF SleepInv, LevelInv, Waiting
      <4>3. CASE Waiting /\ want = Playlist
        <5>1. Late' - spent' <= Slack
          BY <1>1, <2>3, <2>6, <4>1, <4>3 DEF PollInv, Waiting
        <5>2. spent' \in Nat
          BY <2>1, <4>3 DEF Waiting
        <5>3. 2 * spent' <= Seg
          BY <1>1
        <5>4. Late' \in Int /\ spent' \in Nat
          BY <2>2, <5>2
        <5> HIDE <1>0
        <5>5. PICK t \in Int : t = Late'
          BY <5>4
        <5>6. PICK p \in Nat : p = spent'
          BY <5>4
        <5>7. t <= 4 * Seg + 2
          <6>1. t - p <= 3 * Seg + 2
            BY <4>1, <5>1, <5>5, <5>6
          <6>2. 2 * p <= Seg
            BY <5>3, <5>6
          <6> QED
            BY <6>1, <6>2
        <5>8. level' = 0
          BY <1>1, <3>3
        <5>9. started'
          BY <1>1, <3>3
        <5>10. level' + Late' <= 4 * Seg + 2
          <6>1. 0 + t = t
            OBVIOUS
          <6> QED
            BY <5>5, <5>7, <5>8, <6>1
        <5> QED
          BY <5>9, <5>10 DEF LevelInv
      <4>4. CASE Waiting /\ want # Playlist
        <5>1. spent' = spent + 1 /\ Spent' = spent'
          BY <1>1, <2>1, <4>4 DEF Spent, Waiting
        <5>2. 2 * (Late' - spent') <= 2 * Slack + Seg
          BY <1>1, <2>3, <2>5, <4>4, <5>1 DEF ScanInv, Scanning, Waiting
        <5> QED
          BY <1>1, <2>2, <3>3, <4>1, <5>1, <5>2 DEF LevelInv
      <4> QED
        BY <2>1, <4>2, <4>3, <4>4
    <3> QED
      BY <3>1, <3>2, <3>3
  <2>11. SpentInv' /\ ShapeInv'
    BY <1>1, <1>2, SamePace DEF SpentInv
  <2> QED
    BY <1>3, <2>5, <2>6, <2>7, <2>8, <2>9, <2>10, <2>11 DEF Paced
<1> QED
  BY <1>4, <1>5

\* What the origin writes.
LEMMA Written ==
  ASSUME ServeInv, NEW x \in Nat, x = seq, NEW l, l = Latest(segs[cur], Window)
  PROVE  /\ l # <<>> /\ Newest(l, x)
         /\ Len(l) = (IF x < Window THEN x ELSE Window)
         /\ Last(l) = x - 1
<1>1. PICK s \in Seq(Nat) : s = segs[cur]
  BY DEF ServeInv, TypeOK
<1>2. PICK k \in Nat : k = Len(s)
  BY LenProperties
<1>3. k \in 1..Ring /\ k = (IF x < Ring THEN x ELSE Ring) /\ Newest(s, x)
  <2>1. cur \in Rendition
    BY DEF ServeInv, TypeOK
  <2>2. Len(segs[cur]) \in 1..Ring
    BY <2>1 DEF ServeInv, TypeOK
  <2>3. Len(segs[cur]) = (IF seq < Ring THEN seq ELSE Ring) /\ Newest(segs[cur], seq)
    BY <2>1 DEF ServeInv, RingInv
  <2> QED
    BY <1>1, <1>2, <2>2, <2>3
<1>4. PICK m \in Seq(Nat) : m = Latest(s, Window)
  BY LatestEffect, Positive
<1>5. Newest(s, x) /\ Newest(m, x)
  BY <1>3, <1>4, LatestEffect, Positive
<1>6. PICK n \in Nat : n = Len(m)
  BY LenProperties
<1>7. n = (IF k > Window THEN Window ELSE k)
  BY <1>2, <1>4, <1>6, LatestEffect, Positive
<1>8. n = (IF x < Window THEN x ELSE Window) /\ n >= 1
  BY <1>3, <1>7, Positive
<1>9. m # <<>>
  <2>1. n # 0
    BY <1>8
  <2>2. Len(m) # 0
    BY <1>6, <2>1
  <2> QED
    BY <2>2
<1>10. m[n] = x - n + (n - 1)
  <2>1. n \in 1..Len(m)
    BY <1>6, <1>8
  <2> QED
    BY <1>5, <1>6, <2>1 DEF Newest
<1>11. Last(m) = x - 1
  BY <1>6, <1>10 DEF Last
<1>12. l = m
  BY <1>1, <1>4
<1> QED
  BY <1>5, <1>6, <1>8, <1>9, <1>11, <1>12

\* A segment is asked for by its number.
LEMMA ServedIsSegment == ServeInv /\ ServeSegment => want # Playlist
<1> SUFFICES ASSUME ServeInv, ServeSegment PROVE want # Playlist
  OBVIOUS
<1>1. ToSet(segs[cur]) \subseteq Nat
  BY DEF ServeInv, TypeOK, ToSet
<1> QED
  BY <1>1 DEF ServeSegment, Playlist

\* The playlist is written: its edge is not behind the time, and a player that
\* is less than six segments late finds its segment on it.
LEMMA ListPace ==
  ASSUME Window >= 6, ServeInv, ServeInv', Paced, ServePlaylist
  PROVE  Paced'
<1>0. /\ clock \in Nat /\ phase \in Nat /\ phase <= Seg /\ seq \in Nat /\ spent \in Nat
      /\ nap \in Nat /\ level \in Nat /\ nextSeq \in Int
      /\ Late \in Int /\ Slack \in Nat /\ Spent \in Nat
  BY PaceTypes DEF PaceNumbers
<1> USE <1>0, Bounds
<1>1. /\ pc = "ask" /\ want = Playlist /\ pc' = "reply"
      /\ list' = Latest(segs[cur], Window)
      /\ UNCHANGED <<clock, phase, segs, seq, want, spent, cur, nextSeq, nap, level, started>>
  BY DEF ServePlaylist, originVars, accountVars, watchVars
<1>2. ClockInv /\ SpentInv /\ PollInv /\ JoinInv /\ LevelInv
  BY DEF Paced
<1>3. PICK x \in Nat, l \in Seq(Nat) : x = seq /\ l = list'
  BY DEF ServeInv, TypeOK
<1>4. /\ l # <<>> /\ Newest(l, x) /\ Len(l) = (IF x < Window THEN x ELSE Window)
      /\ Last(l) = x - 1
  BY <1>1, <1>3, Written
<1>5. Edge' = x
  <2>1. Edge' = Last(l) + 1
    BY <1>3 DEF Edge, Last
  <2> QED
    BY <1>4, <2>1
<1>6. ShapeInv'
  BY <1>3, <1>4, <1>5 DEF ShapeInv, Newest
<1>7. Made(x) \in Int /\ clock + phase = Made(x)
  BY <1>2, <1>3, MadeEffect DEF ClockInv
<1>8. ClockInv'
  BY <1>1, <1>2 DEF ClockInv, Made
<1>9. ListingInv'
  <2>1. Beyond' <= spent'
    <3>1. Beyond' = clock - Made(x)
      BY <1>1, <1>5, SamePace
    <3>2. PICK c \in Nat, p \in Nat, y \in Int : c = clock /\ p = phase /\ y = Made(x)
      BY <1>7
    <3>3. c + p = y /\ Beyond' = c - y
      BY <1>7, <3>1, <3>2
    <3>4. Beyond' <= 0 /\ spent' \in Nat
      BY <1>1, <3>2, <3>3
    <3> QED
      BY <3>2, <3>3, <3>4
  <2>2. ASSUME nextSeq # None PROVE Reached'
    <3>1. nextSeq <= x /\ Late - spent <= Slack /\ 2 * spent <= Seg
      BY <1>1, <1>2, <1>3, <2>2 DEF PollInv, SpentInv, Waiting
    <3>2. x - Window <= nextSeq
      <4> SUFFICES ASSUME nextSeq + 7 <= x PROVE FALSE
        BY Positive
      <4>0. x \in Int /\ Made(nextSeq) \in Int
        BY MadeEffect
      <4>1. PICK n \in Int, a \in Int, y \in Int, k \in Nat :
               n = nextSeq /\ a = Made(n) /\ y = Made(x) /\ k = Slack
        BY <1>7, <4>0
      <4>2. a + 7 * Seg <= y
        BY <4>1, MadeEffect
      <4>3. clock - a - spent <= k /\ 2 * spent <= Seg
        BY <3>1, <4>1 DEF Late
      <4>4. 2 * k <= 6 * Seg + 4
        BY <4>1 DEF Slack
      <4>5. clock + phase = y /\ phase <= Seg
        BY <1>7, <4>1
      <4>6. PICK c \in Nat, p \in Nat, f \in Nat : c = clock /\ p = spent /\ f = phase
        OBVIOUS
      <4> HIDE <1>0
      <4>7. a + 7 * Seg <= c + f /\ f <= Seg /\ c - a - p <= k
        BY <4>2, <4>3, <4>5, <4>6
      <4>8. 2 * p <= Seg /\ 2 * k <= 6 * Seg + 4
        BY <4>3, <4>4, <4>6
      <4> QED
        BY <4>7, <4>8
    <3>3. x <= seq' /\ nextSeq' = nextSeq
      BY <1>1, <1>3
    <3> QED
      BY <1>5, <3>1, <3>2, <3>3 DEF Reached
  <2>3. list' # <<>> /\ Edge' <= seq'
    BY <1>1, <1>3, <1>4, <1>5
  <2> QED
    BY <1>1, <2>1, <2>2, <2>3 DEF ListingInv
<1>10. ScanInv' /\ SleepInv'
  BY <1>1 DEF ScanInv, SleepInv, Scanning, Waiting
<1>11. PollInv'
  BY <1>1, <1>2, SamePace DEF PollInv, Waiting
<1>12. SpentInv' /\ JoinInv' /\ LevelInv'
  BY <1>1, <1>2, SamePace DEF SpentInv, JoinInv, LevelInv
<1> QED
  BY <1>6, <1>8, <1>9, <1>10, <1>11, <1>12 DEF Paced

\* The playlist arrives: who joins needs one of its last two segments, and who
\* goes on the one after those it has.
LEMMA ArrivePace ==
  ASSUME Window >= 6, ServeInv, Paced, GotPlaylist
  PROVE  Paced'
<1>0. /\ clock \in Nat /\ phase \in Nat /\ phase <= Seg /\ seq \in Nat /\ spent \in Nat
      /\ nap \in Nat /\ level \in Nat /\ nextSeq \in Int
      /\ Late \in Int /\ Slack \in Nat /\ Spent \in Nat
  BY PaceTypes DEF PaceNumbers
<1> USE <1>0, Bounds
<1>1. /\ pc = "reply" /\ want = Playlist /\ pc' = "scan"
      /\ nextSeq' = IF nextSeq = None THEN JoinAt(list) ELSE nextSeq
      /\ UNCHANGED <<clock, phase, seq, want, spent, list, nap, level, started>>
  BY DEF GotPlaylist, originVars, accountVars, historyVars, watchVars
<1>2. /\ ClockInv /\ SpentInv /\ ShapeInv /\ PollInv /\ ListingInv /\ JoinInv /\ LevelInv
  BY DEF Paced
<1>3. PICK e \in Nat : e = Edge
  BY <1>1, <1>2 DEF ShapeInv, ListingInv
<1>4. /\ list # <<>> /\ e <= seq /\ Beyond <= spent /\ 2 * spent <= Seg
      /\ Len(list) = (IF e < Window THEN e ELSE Window) /\ Newest(list, e)
  BY <1>1, <1>2, <1>3 DEF ShapeInv, ListingInv, SpentInv
<1>5. Made(e) \in Int /\ Beyond = clock - Made(e) /\ Beyond' = Beyond
  BY <1>1, <1>3, MadeEffect, SamePace DEF Beyond
<1>6. Edge' = e /\ Slack' = Slack /\ Spent' = 0
  BY <1>1, <1>3, SamePace DEF Spent
<1>7. /\ nextSeq' \in Nat /\ e - Window <= nextSeq' /\ nextSeq' <= e
      /\ Late' \in Int
      /\ Late' + Beyond <= Slack + Seg /\ 2 * Late' <= 2 * Slack + Seg
  <2>1. CASE nextSeq # None
    <3>1. nextSeq' = nextSeq /\ nextSeq \in Nat /\ Reached /\ Late - spent <= Slack
      BY <1>1, <1>2, <2>1, PaceTypes DEF ListingInv, PollInv, Waiting
    <3>2. Late' = Late
      BY <1>1, <3>1, SamePace
    <3>3. e - Window <= nextSeq' /\ nextSeq' <= e /\ nextSeq' \in Nat
      BY <1>3, <3>1 DEF Reached
    <3>4. Late + Beyond <= Slack + Seg /\ 2 * Late <= 2 * Slack + Seg
      <4>1. PICK t \in Int, b \in Int, p \in Nat, k \in Nat :
               t = Late /\ b = Beyond /\ p = spent /\ k = Slack
        BY <1>5
      <4>2. t - p <= k /\ b <= p /\ 2 * p <= Seg
        BY <1>4, <3>1, <4>1
      <4> HIDE <1>0
      <4> QED
        BY <4>1, <4>2
    <3> QED
      BY <3>2, <3>3, <3>4
  <2>2. CASE nextSeq = None
    <3>1. Slack = 2 * Seg + 1
      BY <1>1, <1>2, <2>2 DEF JoinInv, Slack
    <3>2. PICK n \in Nat : n = Len(list) /\ n > 0
      BY <1>4
    <3>3. Head(list) = e - n
      <4>1. list[1] = e - n + (1 - 1)
        BY <1>4, <3>2 DEF Newest
      <4> QED
        BY <1>4, <3>2, <4>1
    <3>4. PICK d \in {1, 2} : nextSeq' = e - d
      <4>1. nextSeq' = IF n >= 2 THEN e - 2 ELSE e - 1
        BY <1>1, <2>2, <3>2, <3>3 DEF JoinAt
      <4> QED
        BY <4>1
    <3>5. e - d \in Nat
      <4>1. nextSeq' = IF n >= 2 THEN e - 2 ELSE e - 1
        BY <1>1, <2>2, <3>2, <3>3 DEF JoinAt
      <4>2. n <= e
        BY <1>4, <3>2, Positive
      <4> QED
        BY <3>2, <3>4, <4>1, <4>2
    <3>6. Made(e - d) \in Int /\ Made(e - d) + d * Seg = Made(e)
      <4>1. /\ Made(e - 1) + Seg = Made(e) /\ Made(e - 1) \in Int
            /\ Made(e - 2) + Seg = Made(e - 1) /\ Made(e - 2) \in Int
        <5>1. e - 1 \in Int /\ e - 2 \in Int /\ (e - 1) + 1 = e /\ (e - 2) + 1 = e - 1
          OBVIOUS
        <5> QED
          BY <5>1, MadeEffect
      <4> QED
        BY <4>1
    <3>7. Late' = clock - Made(e - d)
      BY <1>1, <3>4, SamePace
    <3>8. Late' = Beyond + d * Seg
      BY <1>5, <3>6, <3>7
    <3>9. nextSeq' \in Nat /\ e - Window <= nextSeq' /\ nextSeq' <= e
      BY <3>4, <3>5, Positive
    <3>10. PICK b \in Int, p \in Nat : b = Beyond /\ p = spent
      BY <1>5
    <3>11. b <= p /\ 2 * p <= Seg
      BY <1>4, <3>10
    <3>12. Late' = b + Seg \/ Late' = b + 2 * Seg
      BY <3>4, <3>8, <3>10
    <3>13. Late' \in Int /\ Late' + b <= 3 * Seg + 1 /\ 2 * Late' <= 5 * Seg + 2
      BY <3>10, <3>11, <3>12
    <3>14. Slack + Seg = 3 * Seg + 1 /\ 2 * Slack + Seg = 5 * Seg + 2
      <4> HIDE <1>0
      <4>1. PICK k \in Nat : k = Slack /\ k = 2 * Seg + 1
        BY <3>1
      <4>2. k + Seg = 3 * Seg + 1 /\ 2 * k + Seg = 5 * Seg + 2
        BY <4>1
      <4> QED
        BY <4>1, <4>2
    <3> QED
      BY <3>9, <3>10, <3>13, <3>14
  <2> QED
    BY <2>1, <2>2
<1>8. ScanInv'
  <2>1. Reached'
    BY <1>1, <1>4, <1>6, <1>7 DEF Reached
  <2>2. nextSeq' # None /\ ~Waiting' /\ list' # <<>>
    BY <1>1, <1>4, <1>7 DEF None, Waiting
  <2>3. /\ Late' + Beyond' - 2 * Spent' <= Slack' + Seg
        /\ 2 * (Late' - Spent') <= 2 * Slack' + Seg
    <3>1. PICK t \in Int, b \in Int, k \in Nat : t = Late' /\ b = Beyond /\ k = Slack
      BY <1>5, <1>7
    <3>2. t + b <= k + Seg /\ 2 * t <= 2 * k + Seg
      BY <1>7, <3>1
    <3>3. Late' = t /\ Beyond' = b /\ Spent' = 0 /\ Slack' = k
      BY <1>5, <1>6, <3>1
    <3>4. t + b - 2 * 0 <= k + Seg /\ 2 * (t - 0) <= 2 * k + Seg
      BY <3>2
    <3> QED
      BY <3>3, <3>4
  <2> QED
    BY <2>1, <2>2, <2>3 DEF ScanInv
<1>9. ClockInv' /\ SpentInv' /\ ShapeInv'
  BY <1>1, <1>2, SamePace DEF ClockInv, SpentInv, Made
<1>10. PollInv' /\ ListingInv' /\ SleepInv' /\ JoinInv'
  BY <1>1, <1>7 DEF PollInv, ListingInv, SleepInv, JoinInv, Waiting, None
<1>11. LevelInv'
  <2>1. CASE started
    <3>1. nextSeq # None
      BY <1>1, <1>2, <2>1 DEF JoinInv
    <3>2. Late' = Late
      BY <1>1, <3>1, SamePace
    <3> QED
      BY <1>1, <1>2, <2>1, <3>2 DEF LevelInv
  <2>2. CASE ~started
    BY <1>1, <1>2, <2>2 DEF LevelInv
  <2> QED
    BY <2>1, <2>2
<1> QED
  BY <1>8, <1>9, <1>10, <1>11 DEF Paced

\* The next segment is asked for: it is listed, so the edge is beyond it.
LEMMA FetchPace == ServeInv /\ Paced /\ Fetch => Paced'
<1> SUFFICES ASSUME ServeInv, Paced, Fetch PROVE Paced'
  OBVIOUS
<1>0. /\ clock \in Nat /\ phase \in Nat /\ phase <= Seg /\ seq \in Nat /\ spent \in Nat
      /\ nap \in Nat /\ level \in Nat /\ nextSeq \in Int
      /\ Late \in Int /\ Slack \in Nat /\ Spent \in Nat
  BY PaceTypes DEF PaceNumbers
<1> USE <1>0, Bounds
<1>1. /\ pc = "scan" /\ nextSeq \in ToSet(list) /\ pc' = "ask" /\ want' = nextSeq /\ spent' = 0
      /\ UNCHANGED <<clock, phase, seq, list, nextSeq, nap, level, started>>
  BY DEF Fetch, Ask, originVars, accountVars, historyVars, watchVars
<1>2. ClockInv /\ ShapeInv /\ ScanInv /\ LevelInv
  BY DEF Paced
<1>3. PICK e \in Nat : e = Edge
  BY <1>1, <1>2 DEF ShapeInv, ScanInv, Scanning
<1>4. /\ list # <<>> /\ nextSeq # None /\ Reached /\ Newest(list, e)
      /\ Late + Beyond - 2 * Spent <= Slack + Seg
      /\ 2 * (Late - Spent) <= 2 * Slack + Seg
  BY <1>1, <1>2, <1>3 DEF ShapeInv, ScanInv, Scanning
<1>5. nextSeq < e /\ nextSeq \in Nat
  <2>1. PICK n \in Nat : n = Len(list)
    BY LenProperties DEF ServeInv, TypeOK
  <2>2. PICK i \in 1..n : nextSeq = list[i]
    BY <1>1, <2>1 DEF ToSet
  <2>3. nextSeq = e - n + (i - 1)
    BY <1>4, <2>1, <2>2 DEF Newest
  <2>4. nextSeq \in Nat
    BY <1>4, PaceTypes
  <2> QED
    BY <2>2, <2>3, <2>4
<1>6. want' # Playlist
  BY <1>1, <1>5 DEF Playlist
<1>7. Spent' = 0 /\ Spent = 0
  BY <1>1 DEF Spent
<1>8. Edge' = e /\ Slack' = Slack /\ Late' = Late /\ Beyond' = Beyond
  BY <1>1, <1>3, SamePace
<1>9. ScanInv'
  <2>1. Reached'
    BY <1>1, <1>3, <1>4, <1>8 DEF Reached
  <2>2. want' = nextSeq' /\ nextSeq' < Edge' /\ list' # <<>> /\ nextSeq' # None
    BY <1>1, <1>4, <1>5, <1>8
  <2>3. /\ Late' + Beyond' - 2 * Spent' <= Slack' + Seg
        /\ 2 * (Late' - Spent') <= 2 * Slack' + Seg
    BY <1>4, <1>7, <1>8
  <2> QED
    BY <2>1, <2>2, <2>3 DEF ScanInv
<1>10. ClockInv' /\ SpentInv' /\ ShapeInv'
  BY <1>1, <1>2, SamePace DEF ClockInv, SpentInv, Made
<1>11. PollInv' /\ ListingInv' /\ SleepInv' /\ JoinInv'
  BY <1>1, <1>4, <1>6 DEF PollInv, ListingInv, SleepInv, JoinInv
<1>12. LevelInv'
  BY <1>1, <1>2, <1>8 DEF LevelInv
<1> QED
  BY <1>9, <1>10, <1>11, <1>12 DEF Paced

\* A segment arrives, in half the time it plays: the player is less late, and
\* its buffer gains as much.
LEMMA GotSegmentPace == ServeInv /\ Paced /\ GotSegment => Paced'
<1> SUFFICES ASSUME ServeInv, Paced, GotSegment PROVE Paced'
  OBVIOUS
<1>0. /\ clock \in Nat /\ phase \in Nat /\ phase <= Seg /\ seq \in Nat /\ spent \in Nat
      /\ nap \in Nat /\ level \in Nat /\ nextSeq \in Int
      /\ Late \in Int /\ Slack \in Nat /\ Spent \in Nat
  BY PaceTypes DEF PaceNumbers
<1> USE <1>0, Bounds
<1>1. /\ pc = "reply" /\ want # Playlist /\ pc' = "scan"
      /\ started' = (started \/ buffer' >= Startup)
      /\ nextSeq' = nextSeq + 1 /\ level' = level + Seg
      /\ UNCHANGED <<clock, phase, seq, want, spent, list, nap>>
  BY DEF GotSegment, originVars
<1>2. /\ ClockInv /\ SpentInv /\ ShapeInv /\ ScanInv /\ LevelInv
  BY DEF Paced
<1>3. Scanning /\ Waiting /\ Spent = spent
  BY <1>1 DEF Scanning, Waiting, Spent
<1>4. PICK e \in Nat : e = Edge
  BY <1>2, <1>3 DEF ShapeInv, ScanInv
<1>5. /\ list # <<>> /\ nextSeq # None /\ Reached /\ nextSeq < e
      /\ Late + Beyond - 2 * spent <= Slack + Seg
      /\ 2 * (Late - spent) <= 2 * Slack + Seg
      /\ 2 * spent <= Seg
  BY <1>2, <1>3, <1>4 DEF ScanInv, SpentInv
<1>6. nextSeq \in Nat /\ nextSeq + 1 \in Nat
  <2>1. nextSeq \in Nat
    BY <1>5, PaceTypes
  <2> HIDE <1>0
  <2> QED
    BY <2>1
<1>7. Late' = Late - Seg
  <2>1. Made(nextSeq) \in Int /\ Made(nextSeq + 1) = Made(nextSeq) + Seg
    BY MadeEffect
  <2>2. Late' = clock - Made(nextSeq + 1)
    BY <1>1, SamePace
  <2> QED
    BY <2>1, <2>2 DEF Late
<1>8. Edge' = e /\ Beyond' = Beyond /\ Beyond \in Int /\ Spent' = 0
  BY <1>1, <1>4, SamePace, MadeEffect DEF Beyond, Spent
<1>9. /\ started => started' /\ Slack' = Slack
      /\ ~started => (started' <=> level' >= 2 * Seg)
      /\ started' \in BOOLEAN
      /\ Slack <= Slack'
  <2>1. ~started => buffer' = level'
    <3> HIDE <1>0
    <3>1. PICK d \in Measured : Drain(d) /\ buffer' = LeftAfter(d) + Seg
      BY DEF GotSegment, Gain
    <3>2. ~started => LeftAfter(d) = buffer /\ level = buffer
      BY <1>1 DEF LeftAfter, ServeInv, AccountInv, Unstarted
    <3> QED
      BY <1>1, <3>1, <3>2
  <2>2. ~started => (started' <=> level' >= 2 * Seg)
    BY <1>1, <2>1 DEF Startup
  <2>3. started' \in BOOLEAN /\ (started => started')
    BY <1>1
  <2>4. started => Slack' = Slack
    BY <2>3 DEF Slack
  <2>5. Slack <= Slack'
    BY <2>3 DEF Slack
  <2> QED
    BY <2>2, <2>3, <2>4, <2>5
<1>10. ScanInv'
  <2>1. Reached'
    BY <1>1, <1>4, <1>5, <1>6, <1>8, Positive DEF Reached
  <2>2. nextSeq' # None /\ ~Waiting' /\ list' # <<>>
    BY <1>1, <1>5, <1>6 DEF None, Waiting
  <2>3. Slack' \in Nat
    BY <1>9 DEF Slack
  <2>4. /\ Late' + Beyond' - 2 * Spent' <= Slack' + Seg
        /\ 2 * (Late' - Spent') <= 2 * Slack' + Seg
    <3>1. PICK t \in Int, b \in Int, p \in Nat, k \in Nat, m \in Nat :
             t = Late /\ b = Beyond /\ p = spent /\ k = Slack /\ m = Slack'
      BY <1>8, <2>3
    <3>2. t + b - 2 * p <= k + Seg /\ 2 * (t - p) <= 2 * k + Seg /\ 2 * p <= Seg /\ k <= m
      BY <1>5, <1>9, <3>1
    <3> HIDE <1>0
    <3>3. t - Seg + b <= m + Seg /\ 2 * (t - Seg) <= 2 * m + Seg
      BY <3>2
    <3>4. Late' = t - Seg /\ Beyond' = b /\ Spent' = 0 /\ Slack' = m
      BY <1>7, <1>8, <3>1
    <3> QED
      BY <3>3, <3>4
  <2> QED
    BY <2>1, <2>2, <2>4 DEF ScanInv
<1>11. ClockInv' /\ SpentInv' /\ ShapeInv'
  BY <1>1, <1>2, SamePace DEF ClockInv, SpentInv, Made
<1>12. PollInv' /\ ListingInv' /\ SleepInv' /\ JoinInv'
  BY <1>1, <1>6 DEF PollInv, ListingInv, SleepInv, JoinInv, None, Waiting
<1>13. LevelInv'
  <2>1. CASE started
    BY <1>1, <1>2, <1>7, <1>9, <2>1 DEF LevelInv
  <2>2. CASE ~started /\ level = 0
    BY <1>1, <1>9, <2>2 DEF LevelInv
  <2>3. CASE ~started /\ level = Seg
    <3>1. started' /\ level' = 2 * Seg /\ Slack = 2 * Seg + 1
      BY <1>1, <1>9, <2>3 DEF Slack
    <3>2. Late - Seg <= 2 * Seg + 1
      <4>1. PICK t \in Int, p \in Nat : t = Late /\ p = spent
        OBVIOUS
      <4>2. 2 * (t - p) <= 2 * (2 * Seg + 1) + Seg /\ 2 * p <= Seg
        BY <1>5, <3>1, <4>1
      <4> HIDE <1>0
      <4> QED
        BY <4>1, <4>2
    <3>3. level' + Late' <= 4 * Seg + 2
      BY <1>7, <3>1, <3>2
    <3> QED
      BY <3>1, <3>3 DEF LevelInv
  <2> QED
    BY <1>1, <1>2, <2>1, <2>2, <2>3 DEF LevelInv
<1> QED
  BY <1>10, <1>11, <1>12, <1>13 DEF Paced

\* Sleeping by a buffer that is too long by what the drains cut off.
LEMMA NapArithmetic ==
  ASSUME NEW n \in Nat, NEW v \in Nat, NEW w \in Nat, NEW a \in Nat, NEW b \in Nat,
         NEW c \in Nat, NEW g \in Nat, NEW m \in Nat,
         (n - v) + (w - (a - b)) = c, a - b <= w, c <= g, m <= 1 \/ 2 * m <= n - g + 1
  PROVE  m <= 1 \/ 2 * m <= v + 1
<1>1. n <= v + c
  OBVIOUS
<1> QED
  BY <1>1

\* The end of a scan: the player needs what the edge will be, and the longer its
\* buffer lets it sleep, the less late it is.
LEMMA EndScanPace == ServeInv /\ Paced /\ EndScan /\ cut' <= Target => Paced'
<1> SUFFICES ASSUME ServeInv, Paced, EndScan, cut' <= Target PROVE Paced'
  OBVIOUS
<1>0. /\ clock \in Nat /\ phase \in Nat /\ phase <= Seg /\ seq \in Nat /\ spent \in Nat
      /\ nap \in Nat /\ level \in Nat /\ nextSeq \in Int
      /\ Late \in Int /\ Slack \in Nat /\ Spent \in Nat
  BY PaceTypes DEF PaceNumbers
<1> USE <1>0, Bounds
<1>1. /\ pc = "scan" /\ nextSeq \notin ToSet(list) /\ pc' = "sleep"
      /\ UNCHANGED <<clock, phase, seq, want, spent, list, nextSeq, level, started>>
  BY DEF EndScan, originVars
<1>2. ClockInv /\ SpentInv /\ ShapeInv /\ ScanInv /\ LevelInv
  BY DEF Paced
<1>3. PICK e \in Nat : e = Edge
  BY <1>1, <1>2 DEF ShapeInv, ScanInv, Scanning
<1>4. /\ list # <<>> /\ nextSeq # None /\ Reached /\ Newest(list, e)
      /\ Len(list) = (IF e < Window THEN e ELSE Window)
      /\ Late + Beyond - 2 * Spent <= Slack + Seg
  BY <1>1, <1>2, <1>3 DEF ShapeInv, ScanInv, Scanning
<1>5. nextSeq = e
  <2> SUFFICES ASSUME nextSeq < e PROVE FALSE
    BY <1>3, <1>4 DEF Reached
  <2>1. PICK n \in Nat : n = Len(list)
    BY LenProperties DEF ServeInv, TypeOK
  <2>2. nextSeq \in Nat /\ e - n <= nextSeq
    <3>1. nextSeq \in Nat
      BY <1>4, PaceTypes
    <3>2. e - Window <= nextSeq
      BY <1>3, <1>4 DEF Reached
    <3> QED
      BY <1>4, <2>1, <3>1, <3>2, Positive
  <2>3. PICK i \in 1..n : i = nextSeq - e + n + 1
    <3>1. nextSeq - e + n + 1 \in 1..n
      BY <2>2
    <3> QED
      BY <3>1
  <2>4. list[i] = e - n + (i - 1)
    BY <1>4, <2>1, <2>3 DEF Newest
  <2>5. list[i] = nextSeq
    BY <2>2, <2>3, <2>4
  <2> QED
    BY <1>1, <2>1, <2>3, <2>5 DEF ToSet
<1>6. 2 * Late <= Slack + Seg
  <2>1. Beyond = Late /\ Spent = 0
    BY <1>1, <1>3, <1>5 DEF Beyond, Late, Spent
  <2> QED
    BY <1>4, <2>1
<1>7. nap' \in Nat /\ (nap' <= 1 \/ 2 * nap' <= level + 1)
  <2> HIDE <1>0, Bounds
  <2>1. PICK x \in Measured : Drain(x) /\ nap' \in Nap(LeftAfter(x))
    BY DEF EndScan
  <2>2. AccountInv /\ pc # "failed"
    BY <1>1 DEF ServeInv
  <2>3. PICK n \in Nat : n = LeftAfter(x)
    BY <2>1, <2>2, DrainEffect
  <2>4. nap' \in Nat /\ (nap' <= 1 \/ 2 * nap' <= n - Target + 1)
    BY <2>1, <2>3, NapEffect
  <2>5. /\ (n - level) + (starved - (stalled' - before)) = cut' /\ stalled' - before <= starved
        /\ stalled' \in Nat /\ cut' \in Nat
    BY <2>1, <2>2, <2>3, DrainEffect
  <2>6. level \in Nat /\ starved \in Nat /\ before \in Nat
    BY <2>2 DEF AccountInv, AccountTypeOK
  <2>7. Target \in Nat /\ cut' <= Target
    BY Bounds
  <2>8. PICK v \in Nat, w \in Nat, a \in Nat, b \in Nat :
           v = level /\ w = starved /\ a = stalled' /\ b = before
    BY <2>5, <2>6
  <2>9. PICK c \in Nat, g \in Nat, m \in Nat : c = cut' /\ g = Target /\ m = nap'
    BY <2>4, <2>5, <2>7
  <2>10. /\ (n - v) + (w - (a - b)) = c /\ a - b <= w /\ c <= g
         /\ m <= 1 \/ 2 * m <= n - g + 1
    BY <2>4, <2>5, <2>7, <2>8, <2>9
  <2>11. m <= 1 \/ 2 * m <= v + 1
    BY <2>10, NapArithmetic
  <2> QED
    BY <2>8, <2>9, <2>11
<1>8. Late + nap' <= Slack
  <2>1. CASE started
    <3>1. Slack = 3 * Seg + 2 /\ level + Late <= 4 * Seg + 2
      BY <1>1, <1>2, <2>1 DEF Slack, LevelInv
    <3>2. PICK t \in Int, v \in Nat, m \in Nat : t = Late /\ v = level /\ m = nap'
      BY <1>7
    <3>3. v + t <= 4 * Seg + 2 /\ (m <= 1 \/ 2 * m <= v + 1)
      BY <1>7, <3>1, <3>2
    <3>4. 2 * t <= 4 * Seg + 2
      BY <1>6, <3>1, <3>2
    <3> HIDE <1>0
    <3>5. t + m <= 3 * Seg + 2
      BY <3>3, <3>4
    <3> QED
      BY <3>1, <3>2, <3>5
  <2>2. CASE ~started
    <3>1. Slack = 2 * Seg + 1 /\ level <= Seg
      BY <1>1, <1>2, <2>2 DEF Slack, LevelInv
    <3>2. PICK t \in Int, v \in Nat, m \in Nat : t = Late /\ v = level /\ m = nap'
      BY <1>7
    <3>3. v <= Seg /\ (m <= 1 \/ 2 * m <= v + 1)
      BY <1>7, <3>1, <3>2
    <3>4. 2 * t <= 3 * Seg + 1
      BY <1>6, <3>1, <3>2
    <3> HIDE <1>0
    <3>5. t + m <= 2 * Seg + 1
      BY <3>3, <3>4
    <3> QED
      BY <3>1, <3>2, <3>5
  <2> QED
    BY <2>1, <2>2
<1>9. SleepInv'
  <2>1. Late' = Late /\ Slack' = Slack
    BY <1>1, SamePace
  <2>2. nextSeq <= seq
    BY <1>3, <1>4, <1>5 DEF Reached
  <2> QED
    BY <1>1, <1>4, <1>8, <2>1, <2>2 DEF SleepInv
<1>10. ClockInv' /\ SpentInv' /\ ShapeInv'
  BY <1>1, <1>2, SamePace DEF ClockInv, SpentInv, Made
<1>11. ScanInv' /\ PollInv' /\ ListingInv' /\ JoinInv'
  BY <1>1, <1>4 DEF ScanInv, PollInv, ListingInv, JoinInv, Scanning, Waiting
<1>12. LevelInv'
  BY <1>1, <1>2, SamePace DEF LevelInv
<1> QED
  BY <1>9, <1>10, <1>11, <1>12 DEF Paced

\* The player asks for the playlist again.
LEMMA AgainPace == ServeInv /\ Paced /\ Again => Paced'
<1> SUFFICES ASSUME ServeInv, Paced, Again PROVE Paced'
  OBVIOUS
<1>0. /\ clock \in Nat /\ phase \in Nat /\ phase <= Seg /\ seq \in Nat /\ spent \in Nat
      /\ nap \in Nat /\ level \in Nat /\ nextSeq \in Int
      /\ Late \in Int /\ Slack \in Nat /\ Spent \in Nat
  BY PaceTypes DEF PaceNumbers
<1> USE <1>0, Bounds
<1>1. /\ pc = "sleep" /\ nap = 0 /\ pc' = "ask" /\ want' = Playlist /\ spent' = 0
      /\ UNCHANGED <<clock, phase, seq, list, nextSeq, nap, level, started>>
  BY DEF Again, Ask, originVars, accountVars, historyVars, watchVars
<1>2. ClockInv /\ ShapeInv /\ SleepInv /\ LevelInv
  BY DEF Paced
<1>3. nextSeq # None /\ nextSeq <= seq /\ Late <= Slack
  BY <1>1, <1>2 DEF SleepInv
<1>4. Late' = Late /\ Slack' = Slack
  BY <1>1, SamePace
<1>5. PollInv'
  BY <1>1, <1>3, <1>4 DEF PollInv
<1>6. ClockInv' /\ SpentInv' /\ ShapeInv'
  BY <1>1, <1>2, SamePace DEF ClockInv, SpentInv, Made
<1>7. ScanInv' /\ ListingInv' /\ SleepInv' /\ JoinInv'
  BY <1>1, <1>3 DEF ScanInv, ListingInv, SleepInv, JoinInv, Scanning, Waiting
<1>8. LevelInv'
  BY <1>1, <1>2, <1>4 DEF LevelInv
<1> QED
  BY <1>5, <1>6, <1>7, <1>8 DEF Paced

\* A segment is produced when it is due; a playlist that was written before is
\* the same.
LEMMA ProducePace == ServeInv /\ Paced /\ Produce => Paced'
<1> SUFFICES ASSUME ServeInv, Paced, Produce PROVE Paced'
  OBVIOUS
<1>0. /\ clock \in Nat /\ phase \in Nat /\ phase <= Seg /\ seq \in Nat /\ spent \in Nat
      /\ nap \in Nat /\ level \in Nat /\ nextSeq \in Int
      /\ Late \in Int /\ Slack \in Nat /\ Spent \in Nat
  BY PaceTypes DEF PaceNumbers
<1> USE <1>0, Bounds
<1>1. /\ phase = 0 /\ phase' = Seg /\ seq' = seq + 1
      /\ UNCHANGED <<clock, pc, want, spent, list, nextSeq, nap, level, started>>
  BY DEF Produce, playerVars, accountVars, watchVars
<1>2. /\ ClockInv /\ SpentInv /\ ShapeInv /\ ScanInv /\ PollInv /\ ListingInv
      /\ JoinInv /\ SleepInv /\ LevelInv
  BY DEF Paced
<1>3. ClockInv'
  <2>1. Made(seq)' = Made(seq + 1)
    BY <1>1 DEF Made
  <2>2. Made(seq) \in Int /\ Made(seq + 1) = Made(seq) + Seg
    BY MadeEffect
  <2> QED
    BY <1>1, <1>2, <2>1, <2>2 DEF ClockInv
<1>4. UNCHANGED <<Edge, Late, Beyond, Slack, Spent>> /\ ShapeInv'
  BY <1>1, <1>2, SamePace
<1>5. list # <<>> => Edge \in Nat
  BY <1>2 DEF ShapeInv
<1>6. ASSUME list # <<>>, Reached PROVE Reached'
  BY <1>1, <1>4, <1>5, <1>6 DEF Reached
<1>7. ScanInv' /\ ListingInv'
  <2>1. ScanInv'
    BY <1>1, <1>2, <1>4, <1>6 DEF ScanInv, Scanning, Waiting
  <2>2. ListingInv'
    BY <1>1, <1>2, <1>4, <1>5, <1>6 DEF ListingInv
  <2> QED
    BY <2>1, <2>2
<1>8. PollInv' /\ SleepInv'
  BY <1>1, <1>2, <1>4 DEF PollInv, SleepInv, Waiting
<1>9. SpentInv' /\ JoinInv' /\ LevelInv'
  BY <1>1, <1>2, <1>4 DEF SpentInv, JoinInv, LevelInv
<1> QED
  BY <1>3, <1>4, <1>7, <1>8, <1>9 DEF Paced

\* The segment is served, or nothing happens.
LEMMA ServeSegmentPace ==
  ASSUME ServeInv, Paced, want # Playlist, pc = "ask", pc' = "reply",
         UNCHANGED <<clock, phase, seq, want, spent, list, nextSeq, nap, level, started>>
  PROVE  Paced'
<1>0. /\ clock \in Nat /\ phase \in Nat /\ phase <= Seg /\ seq \in Nat /\ spent \in Nat
      /\ nap \in Nat /\ level \in Nat /\ nextSeq \in Int
      /\ Late \in Int /\ Slack \in Nat /\ Spent \in Nat
  BY PaceTypes DEF PaceNumbers
<1> USE <1>0, Bounds
<1>1. /\ ClockInv /\ SpentInv /\ ShapeInv /\ ScanInv /\ JoinInv /\ LevelInv
  BY DEF Paced
<1>2. UNCHANGED <<Edge, Late, Beyond, Slack>> /\ ShapeInv'
  BY <1>1, SamePace
<1>3. Spent' = Spent
  BY DEF Spent
<1>4. ScanInv'
  BY <1>1, <1>2, <1>3 DEF ScanInv, Scanning, Waiting, Reached
<1>5. PollInv' /\ ListingInv' /\ SleepInv'
  BY DEF PollInv, ListingInv, SleepInv
<1>6. ClockInv' /\ SpentInv' /\ JoinInv' /\ LevelInv'
  BY <1>1, <1>2 DEF ClockInv, SpentInv, JoinInv, LevelInv, Made
<1> QED
  BY <1>2, <1>4, <1>5, <1>6 DEF Paced

\* What drains have cut off adds up, until the next session.
LEMMA CutGrows == ServeInv /\ Next /\ ~Restart /\ ~Reconnect => cut <= cut'
<1> SUFFICES ASSUME ServeInv, Next, ~Restart, ~Reconnect PROVE cut <= cut'
  OBVIOUS
<1>1. cut \in Nat
  BY DEF ServeInv, AccountInv, AccountTypeOK
<1>2. ASSUME NEW e \in Measured, Drain(e) PROVE cut <= cut'
  <2>1. e \in Nat /\ (e = Elapsed \/ e = Elapsed - 1) /\ Elapsed \in Nat
    BY DEF Measured, Elapsed, ServeInv, AccountInv, AccountTypeOK
  <2>2. cut' = (IF started THEN cut + (Elapsed - e) ELSE cut)
    BY <1>2 DEF Drain
  <2> QED
    BY <1>1, <2>1, <2>2
<1>3. CASE GotSegment \/ EndScan
  BY <1>2, <1>3 DEF GotSegment, EndScan
<1>4. CASE ~GotSegment /\ ~EndScan
  <2>1. cut' = cut
    BY <1>4 DEF Next, Origin, Player, Tick, Produce, ServePlaylist, ServeSegment, NotFound,
       Fails, GotPlaylist, Fetch, Again, historyVars, watchVars
  <2> QED
    BY <1>1, <2>1
<1> QED
  BY <1>3, <1>4

\* The clock of an origin that does not restart.
LEMMA NextClock == ServeInv /\ PaceInv /\ [Next]_vars /\ crashes' = 0 => ClockInv'
<1> SUFFICES ASSUME ServeInv, PaceInv, [Next]_vars, crashes' = 0 PROVE ClockInv'
  OBVIOUS
<1>1. /\ clock \in Nat /\ phase \in Nat /\ seq \in Nat /\ crashes \in Nat
  BY PaceTypes DEF PaceNumbers
<1>2. CASE Restart
  BY <1>1, <1>2 DEF Restart
<1>3. CASE ~Restart
  <2>1. crashes' = crashes
    BY <1>3 DEF Next, Origin, Player, Tick, Produce, ServePlaylist, ServeSegment, NotFound,
       Fails, Reconnect, GotPlaylist, Fetch, GotSegment, EndScan, Again, originVars, vars
  <2>2. clock + phase = Made(seq)
    BY <2>1 DEF PaceInv, ClockInv
  <2>3. CASE Tick
    <3>1. clock' + phase' = clock + phase /\ seq' = seq
      BY <1>1, <2>3 DEF Tick
    <3> QED
      BY <2>2, <3>1 DEF ClockInv, Made
  <2>4. CASE Produce
    <3>1. clock' = clock /\ phase = 0 /\ phase' = Seg /\ seq' = seq + 1
      BY <2>4 DEF Produce
    <3>2. Made(seq') = Made(seq) + Seg
      BY <1>1, <3>1, MadeEffect
    <3>3. clock' + phase' = Made(seq')
      BY <1>1, <2>2, <3>1, <3>2, Bounds
    <3> QED
      BY <3>3 DEF ClockInv, Made
  <2>5. CASE ~Tick /\ ~Produce
    <3>1. UNCHANGED <<clock, phase, seq>>
      BY <1>3, <2>5 DEF Next, Origin, Player, ServePlaylist, ServeSegment, NotFound,
         Fails, Reconnect, GotPlaylist, Fetch, GotSegment, EndScan, Again, originVars, vars
    <3> QED
      BY <2>2, <3>1 DEF ClockInv, Made
  <2> QED
    BY <2>3, <2>4, <2>5
<1> QED
  BY <1>2, <1>3

LEMMA NextPace ==
  ASSUME Window >= 6, ServeInv, ServeInv', PaceInv, [Next]_vars
  PROVE  PaceInv'
<1> SUFFICES ASSUME crashes' = 0, prompt', cut' <= Target PROVE Paced'
  BY NextClock DEF PaceInv
<1>1. CASE UNCHANGED vars
  <2>1. UNCHANGED <<clock, phase, seq, crashes, prompt, pc, want, spent, list, nextSeq, nap, level,
                    started, cut>>
    BY <1>1 DEF vars, originVars, playerVars, accountVars, historyVars, watchVars
  <2>2. Paced
    BY <2>1 DEF PaceInv
  <2>3. UNCHANGED <<Edge, Late, Beyond, Slack, Spent>>
    BY <2>1, SamePace
  <2>4. ShapeInv' /\ ClockInv'
    BY <2>1, <2>2, SamePace DEF Paced, ClockInv, Made
  <2> QED
    BY <2>1, <2>2, <2>3, <2>4 DEF Paced, SpentInv, ScanInv, PollInv, ListingInv, JoinInv, SleepInv,
       LevelInv, Scanning, Waiting, Reached
<1>2. CASE Next
  <2>1. ~Restart
    <3>1. Restart => crashes' = crashes + 1
      BY DEF Restart
    <3> QED
      BY <3>1, PaceTypes
  <2>2. crashes = 0 /\ prompt
    <3>1. crashes' = crashes
      BY <1>2, <2>1 DEF Next, Origin, Player, Tick, Produce, ServePlaylist, ServeSegment, NotFound,
         Fails, Reconnect, GotPlaylist, Fetch, GotSegment, EndScan, Again, originVars
    <3>2. prompt
      BY <1>2, <2>1 DEF Next, Origin, Player, Tick, Produce, ServePlaylist, ServeSegment, NotFound,
         Fails, Reconnect, GotPlaylist, Fetch, GotSegment, EndScan, Again, historyVars
    <3> QED
      BY <3>1, <3>2
  <2>3. ASSUME ~Reconnect PROVE Paced
    <3>1. cut <= cut'
      BY <1>2, <2>1, <2>3, CutGrows
    <3>2. cut \in Nat /\ cut' \in Nat
      BY DEF ServeInv, AccountInv, AccountTypeOK
    <3>3. cut <= Target
      BY <3>1, <3>2, Bounds
    <3> QED
      BY <2>2, <3>3 DEF PaceInv
  <2>4. CASE Reconnect
    <3>1. /\ list' = <<>> /\ nextSeq' = None /\ pc' = "ask" /\ want' = Playlist /\ spent' = 0
          /\ level' = 0 /\ started' = FALSE
      BY <2>4 DEF Reconnect, Ask
    <3>2. ClockInv'
      BY NextClock
    <3> QED
      BY <3>1, <3>2, FreshPace
  <2>5. CASE ~Reconnect
    <3>1. Paced
      BY <2>3, <2>5
    <3>2. CASE Tick
      BY <3>1, <3>2, TickPace
    <3>3. CASE Produce
      BY <3>1, <3>3, ProducePace
    <3>4. CASE ServePlaylist
      BY <3>1, <3>4, ListPace
    <3>5. CASE ServeSegment
      <4>2. want # Playlist
        BY <3>5, ServedIsSegment
      <4>3. /\ pc = "ask" /\ pc' = "reply"
            /\ UNCHANGED <<clock, phase, seq, want, spent, list, nextSeq, nap, level, started>>
        BY <3>5 DEF ServeSegment, originVars, accountVars, historyVars, watchVars
      <4> QED
        BY <3>1, <4>2, <4>3, ServeSegmentPace
    <3>6. CASE NotFound \/ Fails
      <4>1. pc' = "failed" /\ UNCHANGED <<clock, phase, seq, spent, list>>
        BY <3>6 DEF NotFound, Fails, originVars
      <4>2. ClockInv'
        BY <3>1, <4>1 DEF Paced, ClockInv, Made
      <4> QED
        BY <3>1, <4>1, <4>2, FailedPace
    <3>7. CASE GotPlaylist
      BY <3>1, <3>7, ArrivePace
    <3>8. CASE Fetch
      BY <3>1, <3>8, FetchPace
    <3>9. CASE GotSegment
      BY <3>1, <3>9, GotSegmentPace
    <3>10. CASE EndScan
      BY <3>1, <3>10, EndScanPace
    <3>11. CASE Again
      BY <3>1, <3>11, AgainPace
    <3> QED
      BY <1>2, <2>1, <2>5, <3>2, <3>3, <3>4, <3>5, <3>6, <3>7, <3>8, <3>9, <3>10, <3>11
         DEF Next, Origin, Player
  <2> QED
    BY <2>4, <2>5
<1> QED
  BY <1>1, <1>2

LEMMA PacedKeepsUp == ServeInv /\ PaceInv => KeepsUp
<1> SUFFICES ASSUME ServeInv, PaceInv, prompt, crashes = 0, cut <= Target, pc = "scan"
             PROVE  nextSeq \in Head(list)..(Last(list) + 1)
  BY DEF KeepsUp
<1>1. ScanInv /\ ShapeInv
  BY DEF PaceInv, Paced
<1>2. PICK e \in Nat : e = Edge
  BY <1>1 DEF ShapeInv, ScanInv, Scanning
<1>3. /\ list # <<>> /\ nextSeq \in Nat /\ e - Window <= nextSeq /\ nextSeq <= e
      /\ Newest(list, e) /\ Len(list) = (IF e < Window THEN e ELSE Window)
  BY <1>1, <1>2, PaceTypes DEF ShapeInv, ScanInv, Scanning, Reached
<1>4. PICK n \in Nat : n = Len(list) /\ n > 0
  BY <1>3, PaceTypes
<1>5. Head(list) = e - n
  <2>1. list[1] = e - n + (1 - 1)
    BY <1>3, <1>4 DEF Newest
  <2> QED
    BY <1>2, <1>3, <1>4, <2>1, PaceTypes
<1>6. Last(list) + 1 = e
  BY <1>2 DEF Edge
<1> QED
  BY <1>3, <1>4, <1>5, <1>6, Positive

\* With a window of six, as in origin.go, or longer, and for any length of a
\* segment, buffer target and ladder: a player whose requests each take no more
\* than half a segment stays within the playlists (client.go:76-90), as long as
\* the truncated times of its session add up to no more than the buffer target.
THEOREM PaceSound == ASSUME Window >= 6 PROVE Spec => []KeepsUp
<1>1. Init => ServeInv /\ PaceInv
  BY InitServe, InitPace
<1>2. ServeInv /\ PaceInv /\ [Next]_vars => (ServeInv /\ PaceInv)'
  <2> SUFFICES ASSUME ServeInv, PaceInv, [Next]_vars PROVE (ServeInv /\ PaceInv)'
    OBVIOUS
  <2>1. ServeInv'
    BY NextServe
  <2>2. PaceInv'
    BY <2>1, NextPace
  <2> QED
    BY <2>1, <2>2
<1>3. ServeInv /\ PaceInv => KeepsUp
  BY PacedKeepsUp
<1> QED
  BY <1>1, <1>2, <1>3, PTL DEF Spec
=============================================================================
