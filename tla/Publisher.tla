------------------------------- MODULE Publisher -------------------------------
(* The MoQ publisher (moqclient/pub.go) with its frame generator             *)
(* (media/generator.go): one goroutine that reconnects for ever, opens a     *)
(* QUIC stream per group, writes the frames of the group on it, and, with    *)
(* ABR, moves on the bitrate ladder when writing a group takes too long or   *)
(* hardly any time.  What it opens is the feed that module Track assumes.    *)
EXTENDS Integers, Sequences

CONSTANTS GroupFrames,  \* media.Config.GroupFrames
          Top,          \* highest index of Ladder; 4 in the code
          StartTier,    \* index of StartKbps in Ladder
          ABR,          \* PubConfig.ABR
          MaxGroup,     \* bound: groups the generator begins in a process
          MaxFail,      \* bound: connections that fail
          MaxKill       \* bound: restarts of the process

ASSUME PublisherAssumption == /\ GroupFrames \in Nat /\ GroupFrames > 1
                              /\ Top \in Nat /\ StartTier \in 0..Top
                              /\ ABR \in BOOLEAN
                              /\ {MaxGroup, MaxFail, MaxKill} \subseteq Nat

Ratio == {"slow", "steady", "fast"}  \* writeDur / groupDur: > 0.5, between, < 0.1
DownAfter == 2
UpAfter == 10

VARIABLES
    pc,       \* "dial", "tick", "open", "write", "sleep", "stopped"
    gen,      \* the generator: the group and the object Next returns next
    frame,    \* f, the frame in hand
    on,       \* st # nil: a group stream is open
    tier, slow, fast,
    fails, kills,
    \* History.
    session,  \* connections made by this process
    streams,  \* the last two group streams opened
    streak    \* groups in a row with the same ratio, in this session

ladderVars == <<tier, slow, fast, streak>>
vars == <<pc, gen, frame, on, ladderVars, fails, kills, session, streams>>

NewStreak(t) == [of |-> "steady", n |-> 0, from |-> t]

Init == /\ pc = "dial"
        /\ gen = [group |-> 0, object |-> 0]
        /\ frame = gen
        /\ on = FALSE
        /\ tier = StartTier /\ slow = 0 /\ fast = 0
        /\ fails = 0 /\ kills = 0 /\ session = 0
        /\ streams = <<>>
        /\ streak = NewStreak(StartTier)
-----------------------------------------------------------------------------

Advance(g) == IF g.object + 1 >= GroupFrames
              THEN [group |-> g.group + 1, object |-> 0]
              ELSE [g EXCEPT !.object = @ + 1]

\* The stream that is open, if one is, ends as e: "fin" or "lost".
EndOpen(e) ==
    IF on THEN [streams EXCEPT ![Len(streams)].end = e] ELSE streams

LastTwo(s) == SubSeq(s, IF Len(s) > 2 THEN Len(s) - 1 ELSE 1, Len(s))

Count(r, now, k) == IF r = now THEN k + 1 ELSE 0

\* Mutant: the count of slow groups is not reset by the move.
MoveAgain(s, f) ==
    /\ slow' = s /\ fast' = f
    /\ tier' = IF s >= DownAfter /\ tier > 0 THEN tier - 1
               ELSE IF f >= UpAfter /\ tier < Top THEN tier + 1 ELSE tier

\* The move on the ladder after the counters have become s and f.
Move(s, f) ==
    \/ /\ s >= DownAfter /\ tier > 0
       /\ tier' = tier - 1 /\ slow' = 0 /\ fast' = f
    \/ /\ f >= UpAfter /\ tier < Top
       /\ tier' = tier + 1 /\ slow' = s /\ fast' = 0
    \/ /\ ~(s >= DownAfter /\ tier > 0) /\ ~(f >= UpAfter /\ tier < Top)
       /\ tier' = tier /\ slow' = s /\ fast' = f

Adapt(r) == /\ Move(Count(r, "slow", slow), Count(r, "fast", fast))
            /\ streak' = IF streak.of = r THEN [streak EXCEPT !.n = @ + 1]
                         ELSE [of |-> r, n |-> 1, from |-> tier]

\* Mutant: a generator per session.
ConnectAnew == /\ pc = "dial" /\ pc' = "tick"
               /\ gen' = [group |-> 0, object |-> 0]
               /\ session' = session + 1
               /\ slow' = 0 /\ fast' = 0 /\ streak' = NewStreak(tier)
               /\ UNCHANGED <<frame, on, tier, fails, kills, streams>>

\* Dial, set-up and announcement.  The generator is the one of the process.
Connect == /\ pc = "dial" /\ pc' = "tick"
           /\ session' = session + 1
           /\ slow' = 0 /\ fast' = 0 /\ streak' = NewStreak(tier)
           /\ UNCHANGED <<gen, frame, on, tier, fails, kills, streams>>

ConnectFails == /\ pc = "dial" /\ pc' = "sleep"
                /\ fails < MaxFail /\ fails' = fails + 1
                /\ UNCHANGED <<gen, frame, on, ladderVars, kills, session, streams>>

\* A tick: the next frame.  The first frame of a group ends the stream of the
\* group before; a frame inside a group the session did not open is skipped.
Boundary == /\ gen.object = 0
            /\ pc' = "open"
            /\ on' = FALSE
            /\ streams' = EndOpen("fin")
            /\ IF on /\ ABR THEN \E r \in Ratio : Adapt(r)
               ELSE UNCHANGED ladderVars

\* Mutant: a stream is opened for whatever frame comes first.
InsideOpens == /\ gen.object > 0
               /\ pc' = IF on THEN "write" ELSE "open"
               /\ UNCHANGED <<on, streams, ladderVars>>

Inside == /\ gen.object > 0
          /\ pc' = IF on THEN "write" ELSE "tick"
          /\ UNCHANGED <<on, streams, ladderVars>>

Tick == /\ pc = "tick"
        /\ gen.group < MaxGroup
        /\ frame' = gen
        /\ gen' = Advance(gen)
        /\ Boundary \/ Inside
        /\ UNCHANGED <<fails, kills, session>>

\* OpenUniStreamSync and the group header.
OpenGroup == /\ pc = "open" /\ pc' = "write"
             /\ on' = TRUE
             /\ streams' = LastTwo(Append(streams, [epoch |-> kills, session |-> session,
                                                    seq |-> frame.group, objs |-> 0, end |-> "open"]))
             /\ UNCHANGED <<gen, frame, ladderVars, fails, kills, session>>

WriteFrame == /\ pc = "write" /\ pc' = "tick"
              /\ streams' = [streams EXCEPT ![Len(streams)].objs = @ + 1]
              /\ UNCHANGED <<gen, frame, on, ladderVars, fails, kills, session>>

\* Opening a stream, its header or a write fails: publishOnce returns, and its
\* defers drop the connection.
SessionFails == /\ pc \in {"open", "write"} /\ pc' = "sleep"
                /\ fails < MaxFail /\ fails' = fails + 1
                /\ on' = FALSE /\ streams' = EndOpen("lost")
                /\ UNCHANGED <<gen, frame, ladderVars, kills, session>>

\* Two seconds later.  Nothing is generated meanwhile.
Wake == /\ pc = "sleep" /\ pc' = "dial"
        /\ UNCHANGED <<gen, frame, on, ladderVars, fails, kills, session, streams>>

\* ctx ends: the select closes the open stream, other waits return.
Stop == /\ pc \in {"dial", "tick", "open", "sleep"} /\ pc' = "stopped"
        /\ on' = FALSE /\ streams' = EndOpen("fin")
        /\ UNCHANGED <<gen, frame, ladderVars, fails, kills, session>>

\* The container is killed, and started again: the process begins anew.
Kill == /\ kills < MaxKill /\ kills' = kills + 1
        /\ pc' = "dial"
        /\ gen' = [group |-> 0, object |-> 0] /\ frame' = gen'
        /\ on' = FALSE /\ streams' = EndOpen("lost")
        /\ session' = 0
        /\ tier' = StartTier /\ slow' = 0 /\ fast' = 0 /\ streak' = NewStreak(StartTier)
        /\ UNCHANGED fails

Run == Connect \/ Tick \/ OpenGroup \/ WriteFrame \/ Wake
Next == Run \/ ConnectFails \/ SessionFails \/ Stop \/ Kill

Spec == Init /\ [][Next]_vars
-----------------------------------------------------------------------------
\* Every variable has a value of its type; the tier is on the ladder, and slow
\* and fast groups are never both being counted (pub.go, adapt).
TypeOK ==
    /\ pc \in {"dial", "tick", "open", "write", "sleep", "stopped"}
    /\ gen \in [group : 0..MaxGroup, object : 0..GroupFrames - 1]
    /\ frame \in [group : 0..MaxGroup, object : 0..GroupFrames - 1]
    /\ on \in BOOLEAN
    /\ tier \in 0..Top /\ slow \in Nat /\ fast \in Nat /\ (slow = 0 \/ fast = 0)
    /\ fails \in 0..MaxFail /\ kills \in 0..MaxKill /\ session \in Nat
    /\ streams \in Seq([epoch : 0..MaxKill, session : Nat, seq : 0..MaxGroup,
                        objs : 0..GroupFrames, end : {"open", "fin", "lost"}])
    /\ streak \in [of : Ratio, n : Nat, from : 0..Top]

\* The relay relies on it (Track, IsFeed): from a stream to the next the number
\* of the group grows, over reconnections too, unless the process has started
\* anew; and the stream before is no longer open.  Losing a session costs at most
\* one group number that was never on the wire: frames are not generated while
\* the publisher is away.
FeedOrder ==
    /\ TypeOK
    /\ \A i \in 1..Len(streams) - 1 :
        LET a == streams[i]  b == streams[i + 1]
        IN /\ b.epoch > a.epoch \/ (b.epoch = a.epoch /\ b.seq > a.seq)
           /\ a.end # "open"
           /\ a.epoch = b.epoch => b.seq - a.seq <= 1 + b.session - a.session

\* A group stream that ends with FIN carries its group from the keyframe to the
\* last frame, also when the session began or ended inside a group; only
\* shutting down cuts the last one of a process short.
CutByStop(i) == /\ streams[i].epoch = kills => pc = "stopped"
                /\ \A j \in i + 1..Len(streams) : streams[j].epoch > streams[i].epoch
CleanEndIsWhole ==
    \A i \in 1..Len(streams) :
        streams[i].end = "fin" => streams[i].objs = GroupFrames \/ CutByStop(i)

\* The ladder position is a function of the current run of equal ratios: one
\* tier down for each two slow groups in a row, one up for each ten fast ones,
\* stopping at its ends (pub.go, adapt; docs/07-lessons-learned.md, "steps down
\* within two groups").
LadderFollowsStreak ==
    LET drop == streak.n \div DownAfter
        rise == streak.n \div UpAfter
    IN tier = CASE streak.of = "slow" -> IF drop > streak.from THEN 0 ELSE streak.from - drop
                [] streak.of = "fast" -> IF streak.from + rise > Top THEN Top ELSE streak.from + rise
                [] OTHER -> streak.from

=============================================================================
