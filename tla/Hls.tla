--------------------------------- MODULE Hls ---------------------------------
(* The HLS path (internal/hlspath): the origin produces a segment of every   *)
(* rendition each Seg ticks and keeps a ring of them; one player polls the   *)
(* playlist, downloads, and keeps the account of its own buffer.  The player *)
(* computes in no time; its requests and its sleeps take ticks.  The size of *)
(* a segment and the bandwidth estimate are left out: any download may take  *)
(* up to Slow ticks and be followed by any rendition.  A tick is a           *)
(* millisecond, the grain of the player's account; steps happen between two  *)
(* ticks.                                                                    *)
EXTENDS Integers, Sequences, SequencesExt

CONSTANTS Rendition,   \* the ladder,
          Lowest,      \* and its lowest rendition, where a session starts
          Window,      \* windowSegments: what a playlist lists
          Ring,        \* ringSegments: what the origin keeps
          Seg,         \* SegmentSeconds, in ticks
          Target,      \* targetBufferMs, in ticks
          Slow,        \* bound: ticks a request takes
          MaxTime,     \* bound: end of time
          MaxFail,     \* bound: requests that fail
          MaxCrash     \* bound: restarts of the origin

ASSUME HlsAssumption ==
    /\ Lowest \in Rendition
    /\ {Window, Ring, Seg} \subseteq Nat \ {0} /\ Window <= Ring
    /\ {Target, Slow, MaxTime, MaxFail, MaxCrash} \subseteq Nat

Startup == 2 * Seg   \* startupBufferMs
None == -1           \* nextSeq of a player that has not joined
Playlist == -1       \* the request of a playlist; a segment's is its number

VARIABLES
    \* The origin.
    clock, phase,    \* the time; ticks to the next tick of Run's ticker
    segs, seq,       \* o.segs (numbers only), o.seq
    crashes,
    \* The player (RunSession's locals).
    pc,              \* "ask": a request is on its way; "reply": its answer is;
                     \* "scan": in the loop; "sleep"; "failed": the session ended
    want, spent,     \* the request, and the ticks it has taken
    list,            \* pl.segments
    cur, nextSeq, buffer, started, lastTick, fetched,
    nap,             \* what is left of a sleep
    fails,
    stalled,         \* rec: stalled time
    \* History.
    made,            \* segments produced since the playlist was written (at most Ring)
    prompt,          \* every request so far took at most half a segment
    level, starved,  \* the buffer, and the stalled time in this session, of a
                     \* player that watches its buffer at every tick
    before, cut      \* stalled when this session began, and what its drains have
                     \* lost of the time since then

originVars == <<phase, segs, seq, crashes>>
accountVars == <<buffer, started, lastTick, stalled>>
watchVars == <<level, starved, before, cut>>
historyVars == <<made, prompt, watchVars>>
playerVars == <<pc, want, spent, list, cur, nextSeq, fetched, nap, fails>>
vars == <<clock, originVars, playerVars, accountVars, historyVars>>

\* The end of a ring: its last n segments.
Latest(s, n) == IF Len(s) > n THEN SubSeq(s, Len(s) - n + 1, Len(s)) ELSE s

NewSession == /\ pc = "ask" /\ want = Playlist /\ spent = 0
              /\ list = <<>> /\ cur = Lowest /\ nextSeq = None /\ fetched = FALSE /\ nap = 0
              /\ buffer = 0 /\ started = FALSE /\ lastTick = clock /\ level = 0

Init == /\ clock = 0 /\ phase = Seg /\ crashes = 0
        /\ segs = [r \in Rendition |-> <<0>>] /\ seq = 1
        /\ NewSession
        /\ fails = 0 /\ stalled = 0 /\ starved = 0 /\ before = 0 /\ cut = 0
        /\ made = 0 /\ prompt = TRUE
-----------------------------------------------------------------------------
Waiting == pc \in {"ask", "reply"}

\* A tick: the player waits for an answer, sleeps, or is between two sessions.
Tick == /\ clock < MaxTime /\ phase > 0
        /\ clock' = clock + 1 /\ phase' = phase - 1
        /\ \/ Waiting /\ spent < Slow /\ spent' = spent + 1 /\ UNCHANGED nap
           \/ pc = "sleep" /\ nap > 0 /\ nap' = nap - 1 /\ UNCHANGED spent
           \/ pc = "failed" /\ UNCHANGED <<spent, nap>>
        /\ level' = IF started /\ level > 0 THEN level - 1 ELSE level
        /\ starved' = IF started /\ level = 0 THEN starved + 1 ELSE starved
        /\ prompt' = (prompt /\ 2 * spent' <= Seg)
        /\ UNCHANGED <<segs, seq, crashes, pc, want, list, cur, nextSeq, fetched, fails,
                       accountVars, made, before, cut>>

\* Mutant: the ring is cut before the new segment is appended to it.
PushShort(r) == Append(Latest(segs[r], Window - 1), seq)

Push(r) == Latest(Append(segs[r], seq), Ring)

\* produce, with o.mu held throughout.
Produce == /\ phase = 0 /\ phase' = Seg
           /\ segs' = [r \in Rendition |-> Push(r)]
           /\ seq' = seq + 1
           /\ made' = IF made < Ring THEN made + 1 ELSE made
           /\ UNCHANGED <<clock, crashes, playerVars, accountVars, prompt, watchVars>>

\* The origin is killed and started again: its numbers start again.  A request
\* under way fails.
Restart == /\ crashes < MaxCrash /\ crashes' = crashes + 1
           /\ segs' = [r \in Rendition |-> <<0>>] /\ seq' = 1 /\ phase' = Seg
           /\ made' = Ring
           /\ pc' = IF Waiting THEN "failed" ELSE pc
           /\ UNCHANGED <<clock, want, spent, list, cur, nextSeq, fetched, nap, fails,
                          accountVars, prompt, watchVars>>
-----------------------------------------------------------------------------
Ask(x) == pc' = "ask" /\ want' = x /\ spent' = 0

\* The handlers of the origin, with o.mu held while they read the ring: the
\* playlist lists the end of the ring, ...
ServePlaylist == /\ pc = "ask" /\ want = Playlist
                 /\ list' = Latest(segs[cur], Window)
                 /\ made' = 0 /\ pc' = "reply"
                 /\ UNCHANGED <<clock, originVars, want, spent, cur, nextSeq, fetched, nap, fails,
                                accountVars, prompt, watchVars>>

\* ... a segment is served from anywhere in it, ...
ServeSegment == /\ pc = "ask" /\ want \in ToSet(segs[cur])
                /\ pc' = "reply"
                /\ UNCHANGED <<clock, originVars, want, spent, list, cur, nextSeq, fetched, nap,
                               fails, accountVars, historyVars>>

\* ... and one that is not there is not found, which ends the session.
NotFound == /\ pc = "ask" /\ want # Playlist /\ want \notin ToSet(segs[cur])
            /\ pc' = "failed"
            /\ UNCHANGED <<clock, originVars, want, spent, list, cur, nextSeq, fetched, nap,
                           fails, accountVars, historyVars>>

\* A request fails on the network or by the client's timeout.
Fails == /\ Waiting /\ fails < MaxFail /\ fails' = fails + 1
         /\ pc' = "failed"
         /\ UNCHANGED <<clock, originVars, want, spent, list, cur, nextSeq, fetched, nap,
                        accountVars, historyVars>>

\* Manager.session calls RunSession again; the recorder goes on, and the watching
\* player begins again too.  A fetch that fails returns without a drain, so what
\* the failed session lacked since its last one is in no account, and neither is
\* the pause between two sessions.
Reconnect == /\ pc = "failed"
             /\ Ask(Playlist)
             /\ list' = <<>> /\ nextSeq' = None /\ fetched' = FALSE /\ nap' = 0
             /\ cur' = Lowest
             /\ buffer' = 0 /\ started' = FALSE /\ lastTick' = clock
             /\ level' = 0 /\ starved' = 0 /\ before' = stalled /\ cut' = 0
             /\ UNCHANGED <<clock, originVars, fails, stalled, made, prompt>>
-----------------------------------------------------------------------------
\* What e ticks leave of the buffer, and what they lack.
LeftAfter(e) == IF ~started THEN buffer ELSE IF e < buffer THEN buffer - e ELSE 0
LackingAfter(e) == IF ~started \/ e <= buffer THEN 0 ELSE e - buffer

Elapsed == clock - lastTick
Left == LeftAfter(Elapsed)
Lacking == LackingAfter(Elapsed)

\* now.Sub(lastTick).Milliseconds(): both instants lie between two ticks, and the
\* time from one to the other is truncated.
Measured == {Elapsed, Elapsed - 1} \cap Nat

\* drain, with the time measured as e.  lastTick moves by all of it.
Drain(e) == /\ stalled' = stalled + LackingAfter(e)
            /\ lastTick' = clock
            /\ cut' = IF started THEN cut + (Elapsed - e) ELSE cut

\* Mutant: joined at the live edge, wherever the playlist begins.
JoinAnywhere(l) == Head(l) + Len(l) - 2

\* Two segments behind the live edge, if the playlist goes back that far.
JoinAt(l) == IF Len(l) >= 2 THEN Head(l) + Len(l) - 2 ELSE Head(l)

\* The playlist arrives.
GotPlaylist == /\ pc = "reply" /\ want = Playlist /\ pc' = "scan"
               /\ nextSeq' = IF nextSeq = None THEN JoinAt(list) ELSE nextSeq
               /\ fetched' = FALSE
               /\ UNCHANGED <<clock, originVars, want, spent, list, cur, nap, fails,
                              accountVars, historyVars>>

\* The loop over the playlist: the next segment is asked for, from the rendition
\* chosen last, which need not be the playlist's.
Fetch == /\ pc = "scan" /\ nextSeq \in ToSet(list)
         /\ Ask(nextSeq)
         /\ UNCHANGED <<clock, originVars, list, cur, nextSeq, fetched, nap, fails,
                        accountVars, historyVars>>

\* Mutant: the segment is added before the time of its download is drained.
GainFirst(e) == IF LackingAfter(e) > Seg THEN 0 ELSE buffer + Seg - (IF started THEN e ELSE 0)

Gain(e) == LeftAfter(e) + Seg

\* A segment arrives.
GotSegment == /\ pc = "reply" /\ want # Playlist /\ pc' = "scan"
              /\ \E e \in Measured : Drain(e) /\ buffer' = Gain(e)
              /\ started' = (started \/ buffer' >= Startup)
              /\ nextSeq' = nextSeq + 1 /\ fetched' = TRUE
              /\ cur' \in Rendition
              /\ level' = level + Seg
              /\ UNCHANGED <<clock, originVars, want, spent, list, nap, fails, made, prompt,
                             starved, before>>

\* How long to sleep at the end of the loop, with b in the buffer (a poll takes
\* less than a tick).
Nap(b) == IF b > Target THEN {(b - Target) \div 2, (b - Target + 1) \div 2}
          ELSE IF fetched THEN {0} ELSE {0, 1}

\* The end of the loop.
EndScan == /\ pc = "scan" /\ nextSeq \notin ToSet(list) /\ pc' = "sleep"
           /\ \E e \in Measured : Drain(e) /\ buffer' = LeftAfter(e) /\ nap' \in Nap(LeftAfter(e))
           /\ UNCHANGED <<clock, originVars, want, spent, list, cur, nextSeq, fetched, fails, started,
                          made, prompt, level, starved, before>>

Again == /\ pc = "sleep" /\ nap = 0
         /\ Ask(Playlist)
         /\ UNCHANGED <<clock, originVars, list, cur, nextSeq, fetched, nap, fails,
                        accountVars, historyVars>>

Origin == Produce \/ Restart \/ ServePlaylist \/ ServeSegment \/ NotFound
Player == Fails \/ Reconnect \/ GotPlaylist \/ Fetch \/ GotSegment \/ EndScan \/ Again
Next == Tick \/ Origin \/ Player

Spec == Init /\ [][Next]_vars
-----------------------------------------------------------------------------
Time == 0..MaxTime

\* Every variable has a value of its type.
TypeOK ==
    /\ clock \in Time /\ phase \in 0..Seg /\ crashes \in 0..MaxCrash
    /\ segs \in [Rendition -> Seq(Nat)] /\ seq \in Nat
    /\ \A r \in Rendition : Len(segs[r]) \in 1..Ring
    /\ pc \in {"ask", "reply", "scan", "sleep", "failed"}
    /\ want \in Nat \cup {Playlist} /\ spent \in 0..Slow
    /\ list \in Seq(Nat) /\ cur \in Rendition /\ nextSeq \in Nat \cup {None}
    /\ buffer \in Nat /\ started \in BOOLEAN /\ lastTick \in Time /\ fetched \in BOOLEAN
    /\ nap \in Nat /\ fails \in 0..MaxFail /\ stalled \in Nat
    /\ made \in 0..Ring /\ prompt \in BOOLEAN
    /\ level \in Nat /\ starved \in Nat /\ before \in Nat /\ cut \in Nat

\* What a playlist lists stays on the origin, in every rendition, while
\* ringSegments - windowSegments more segments are produced: a player that is no
\* slower than that never asks for one that is gone, whichever it switches to.
ListedIsServed ==
    /\ TypeOK
    /\ made <= Ring - Window => \A r \in Rendition : ToSet(list) \subseteq ToSet(segs[r])

\* A player whose requests each take no more than half a segment stays within
\* the playlists: the segment it needs is listed or is the next to be produced.
\* This is as long as the truncated times of its session add up to no more than
\* the buffer it aims at: they make it think its buffer longer than it is, and
\* sleep.
KeepsUp == prompt /\ crashes = 0 /\ cut <= Target /\ pc = "scan" =>
               nextSeq \in Head(list)..(Last(list) + 1)

\* In every session up to its end or failure, the account of the player, which it
\* brings up to date only when a segment arrives and when a loop ends
\* (client.go:59-68), is that of a player which watches its buffer at every tick,
\* but for the part of a tick that each drain may cut off: it invents no stall,
\* counts none twice, hides none behind the segment that ends it, and what it
\* cut off is all that is missing.
StallsAreReal ==
    pc # "failed" =>
        LET recorded == stalled - before + Lacking IN
        /\ level <= Left /\ recorded <= starved
        /\ (Left - level) + (starved - recorded) = cut
=============================================================================
