-------------------------------- MODULE Sfu --------------------------------
(***************************************************************************)
(* The WebRTC reference path: the SFU, its one publisher and its viewers   *)
(* (internal/webrtcpath).  The three meet only through signaling POSTs and *)
(* through peer connections whose ends notice each other's death late and  *)
(* independently.  A track is named by the publisher session whose OnTrack *)
(* goroutine made it; 0 is nil.                                            *)
(*                                                                         *)
(* Pion (the WebRTC library) is external: a connection whose peer is gone  *)
(* is found failed in the end, Close leads to one more callback (Closed),  *)
(* a reader of a track whose publisher is gone may see an error or block   *)
(* for ever, and OnTrack runs after the first packet, at any later time.   *)
(***************************************************************************)
EXTENDS Integers, FiniteSets

CONSTANTS
    Viewers,     \* viewer sessions of the load generators
    Slots,       \* bound: /subscribe requests and connections alive at once
    MaxFaults    \* bound: failures of the network or of a process, in all

\* Every publisher session but the last one ends with a fault.
MaxPub == MaxFaults + 1
Tracks == 1..MaxPub

ASSUME SfuAssumption == /\ IsFiniteSet(Slots) /\ 0 \notin Slots
                        /\ MaxFaults \in Nat

VARIABLES
    up,        \* the SFU process runs
    track,     \* SFU.track
    onTrack,   \* the OnTrack goroutine of each publisher session
    pubUp,     \* edgecast_sfu_publisher_connected
    subs,      \* edgecast_sfu_subscribers
    conn,      \* per slot: a /subscribe request, then its PeerConnection
    pub,       \* the publisher: where publishOnce is, and its session
    sessions,  \* publisher sessions the SFU has answered so far
    viewer,    \* per viewer: where Subscribe is, and its slot
    faults,    \* failures so far
    lost       \* history: connections that failed, then closed

pubVars == <<pub, sessions>>
gaugeVars == <<pubUp, subs, lost>>
vars == <<up, track, onTrack, pubUp, subs, conn, pub, sessions, viewer,
          faults, lost>>

OnTrackStates ==
    {"none",      \* not answered, or nothing received yet
     "arrived",   \* the first packet is in: OnTrack may run
     "set",       \* s.track is this session's track
     "reading",   \* sfuPublisherUp.Set(1) done, in the ReadRTP loop
     "done",      \* ReadRTP failed: sfuPublisherUp.Set(0) done
     "gone"}      \* the SFU process that held it died

ConnStates ==
    {"free", "poll", "bound", "new", "connected",
     "failing",   \* state Failed, its callback has not run
     "closing",   \* the callback counted it down and called Close
     "erring"}    \* Close was called because there was no answer

FreeSlot == [st |-> "free", v |-> 0, trk |-> 0]

TypeOK ==
    /\ up \in BOOLEAN
    /\ track \in {0} \cup Tracks
    /\ onTrack \in [Tracks -> OnTrackStates]
    /\ pubUp \in {0, 1} /\ subs \in Int /\ lost \in Nat
    /\ conn \in [Slots -> [st : ConnStates, v : Viewers \cup {0},
                           trk : {0} \cup Tracks]]
    /\ pub \in [st : {"idle", "signal", "setup", "live"}, n : {0} \cup Tracks]
    /\ sessions \in 0..MaxPub
    /\ viewer \in [Viewers -> [st : {"pause", "signal", "wait"},
                               slot : {0} \cup Slots]]
    /\ faults \in 0..MaxFaults

Init ==
    /\ up = TRUE /\ track = 0 /\ pubUp = 0 /\ subs = 0 /\ lost = 0
    /\ onTrack = [n \in Tracks |-> "none"]
    /\ conn = [r \in Slots |-> FreeSlot]
    /\ pub = [st |-> "idle", n |-> 0] /\ sessions = 0
    /\ viewer = [v \in Viewers |-> [st |-> "pause", slot |-> 0]]
    /\ faults = 0

Fault == faults < MaxFaults /\ faults' = faults + 1
NoFault == UNCHANGED faults

\* Viewer v still holds the other end of its request or connection.
Attached(v) == /\ viewer[v].slot # 0
               /\ conn[viewer[v].slot].v = v
               /\ conn[viewer[v].slot].st \in {"poll", "bound", "new", "connected"}

Owns(v, r) == viewer[v].slot = r /\ Attached(v)

----------------------------------------------------------------------------
(* The publisher: RunPublisher around publishOnce.                         *)

PubIdle == pub' = [st |-> "idle", n |-> 0]

PubDial ==
    /\ pub.st = "idle"
    /\ pub' = [st |-> "signal", n |-> 0]
    /\ UNCHANGED <<up, track, onTrack, conn, sessions, viewer, faults, gaugeVars>>

\* handlePublish answers; the answer may be an error or come too late.
HandlePublish ==
    /\ up /\ pub.st = "signal"
    /\ \/ /\ NoFault /\ sessions < MaxPub
          /\ sessions' = sessions + 1
          /\ pub' = [st |-> "setup", n |-> sessions + 1]
       \/ Fault /\ PubIdle /\ UNCHANGED sessions
    /\ UNCHANGED <<up, track, onTrack, conn, viewer, gaugeVars>>

PubConnected ==
    /\ pub.st = "setup" /\ onTrack[pub.n] = "none"
    /\ pub' = [pub EXCEPT !.st = "live"]
    /\ onTrack' = [onTrack EXCEPT ![pub.n] = "arrived"]
    /\ UNCHANGED <<up, track, conn, sessions, viewer, faults, gaugeVars>>

\* The SFU is not there: the POST is refused, the set-up times out after
\* 15 s, or the connection fails.  publishOnce returns an error.
PubNotices ==
    /\ \/ pub.st = "signal" /\ ~up
       \/ pub.st \in {"setup", "live"} /\ onTrack[pub.n] = "gone"
    /\ PubIdle
    /\ UNCHANGED <<up, track, onTrack, conn, sessions, viewer, faults, gaugeVars>>

\* The publisher's connection fails, or its process is restarted.
PubFails ==
    /\ pub.st \in {"setup", "live"} /\ Fault
    /\ PubIdle
    /\ UNCHANGED <<up, track, onTrack, conn, sessions, viewer, gaugeVars>>

----------------------------------------------------------------------------
(* The SFU: one OnTrack goroutine per publisher session.                   *)

OnTrackSets(n) ==
    /\ onTrack[n] = "arrived"
    /\ onTrack' = [onTrack EXCEPT ![n] = "set"]
    /\ track' = n
    /\ UNCHANGED <<up, conn, pubVars, viewer, faults, gaugeVars>>

OnTrackUp(n) ==
    /\ onTrack[n] = "set"
    /\ onTrack' = [onTrack EXCEPT ![n] = "reading"]
    /\ pubUp' = 1
    /\ UNCHANGED <<up, track, conn, pubVars, viewer, faults, subs, lost>>

Live(n) == pub.st = "live" /\ pub.n = n

\* Mutant: the deferred Set(0) is forgotten.
OnTrackEndsUp(n) ==
    /\ onTrack[n] = "reading" /\ ~Live(n)
    /\ onTrack' = [onTrack EXCEPT ![n] = "done"]
    /\ UNCHANGED <<up, track, conn, pubVars, viewer, faults, gaugeVars>>

\* ReadRTP fails and the deferred Set(0) runs.  s.track stays.
OnTrackEnds(n) ==
    /\ onTrack[n] = "reading" /\ ~Live(n)
    /\ onTrack' = [onTrack EXCEPT ![n] = "done"]
    /\ pubUp' = 0
    /\ UNCHANGED <<up, track, conn, pubVars, viewer, faults, subs, lost>>

----------------------------------------------------------------------------
(* The SFU: handleSubscribe and the callbacks of its connections.          *)

\* The request's viewer, if it is still there, goes to state st.
ReplyTo(r, st) ==
    viewer' = [v \in Viewers |->
                 IF Owns(v, r)
                 THEN [st |-> st, slot |-> IF st = "wait" THEN r ELSE 0]
                 ELSE viewer[v]]

HandleSubscribe(v, r) ==
    /\ up /\ viewer[v] = [st |-> "signal", slot |-> 0] /\ conn[r] = FreeSlot
    /\ conn' = [conn EXCEPT ![r] = [st |-> "poll", v |-> v, trk |-> 0]]
    /\ viewer' = [viewer EXCEPT ![v].slot = r]
    /\ UNCHANGED <<up, track, onTrack, pubVars, faults, gaugeVars>>

SubscribePoll(r) ==
    /\ conn[r].st = "poll" /\ track # 0
    /\ conn' = [conn EXCEPT ![r].st = "bound", ![r].trk = track]
    /\ UNCHANGED <<up, track, onTrack, pubVars, viewer, faults, gaugeVars>>

\* 100 polls without a publisher: 503.
SubscribeGivesUp(r) ==
    /\ conn[r].st = "poll" /\ track = 0
    /\ conn' = [conn EXCEPT ![r] = FreeSlot]
    /\ ReplyTo(r, "pause")
    /\ UNCHANGED <<up, track, onTrack, pubVars, faults, gaugeVars>>

SubscribeAnswers(r) ==
    /\ conn[r].st = "bound"
    /\ conn' = [conn EXCEPT ![r].st = "new"]
    /\ subs' = subs + 1
    /\ ReplyTo(r, "wait")
    /\ UNCHANGED <<up, track, onTrack, pubVars, faults, pubUp, lost>>

\* 500: the connection or the track cannot be made, or there is no answer
\* (by then the gauge counts the connection and Close will count it down).
SubscribeFails(r) ==
    /\ conn[r].st = "bound" /\ Fault
    /\ \/ conn' = [conn EXCEPT ![r] = FreeSlot] /\ UNCHANGED subs
       \/ conn' = [conn EXCEPT ![r].st = "erring"] /\ subs' = subs + 1
    /\ ReplyTo(r, "pause")
    /\ UNCHANGED <<up, track, onTrack, pubVars, pubUp, lost>>

Connected(r) ==
    /\ conn[r].st = "new"
    /\ \E v \in Viewers : viewer[v] = [st |-> "wait", slot |-> r] /\ conn[r].v = v
    /\ conn' = [conn EXCEPT ![r].st = "connected"]
    /\ UNCHANGED <<up, track, onTrack, pubVars, viewer, faults, gaugeVars>>

\* ICE finds the other end dead.
ConnNotices(r) ==
    /\ conn[r].st \in {"new", "connected"}
    /\ \A v \in Viewers : ~Owns(v, r)
    /\ conn' = [conn EXCEPT ![r].st = "failing"]
    /\ UNCHANGED <<up, track, onTrack, pubVars, viewer, faults, gaugeVars>>

ConnFails(r) ==
    /\ conn[r].st \in {"new", "connected"} /\ Fault
    /\ conn' = [conn EXCEPT ![r].st = "failing"]
    /\ UNCHANGED <<up, track, onTrack, pubVars, viewer, gaugeVars>>

\* OnConnectionStateChange(Failed): Dec, then pc.Close().
FailedCallback(r) ==
    /\ conn[r].st = "failing"
    /\ conn' = [conn EXCEPT ![r].st = "closing"]
    /\ subs' = subs - 1
    /\ UNCHANGED <<up, track, onTrack, pubVars, viewer, faults, pubUp, lost>>

\* OnConnectionStateChange(Closed), which Close brings about: Dec.
ClosedCallback(r) ==
    /\ conn[r].st \in {"closing", "erring"}
    /\ conn' = [conn EXCEPT ![r] = FreeSlot]
    /\ subs' = subs - 1
    /\ lost' = IF conn[r].st = "closing" THEN lost + 1 ELSE lost
    /\ UNCHANGED <<up, track, onTrack, pubVars, viewer, faults, pubUp>>

SfuCrash ==
    /\ up /\ Fault
    /\ up' = FALSE /\ track' = 0 /\ pubUp' = 0 /\ subs' = 0 /\ lost' = 0
    /\ onTrack' = [n \in Tracks |-> IF n <= sessions THEN "gone" ELSE "none"]
    /\ conn' = [r \in Slots |-> FreeSlot]
    /\ UNCHANGED <<pubVars, viewer>>

SfuStart ==
    /\ ~up /\ up' = TRUE
    /\ UNCHANGED <<track, onTrack, conn, pubVars, viewer, faults, gaugeVars>>

----------------------------------------------------------------------------
(* A viewer: Manager.session around Subscribe.                             *)

ViewerDial(v) ==
    /\ viewer[v].st = "pause"
    /\ viewer' = [viewer EXCEPT ![v] = [st |-> "signal", slot |-> 0]]
    /\ UNCHANGED <<up, track, onTrack, conn, pubVars, faults, gaugeVars>>

ViewerPauses(v) ==
    /\ viewer' = [viewer EXCEPT ![v] = [st |-> "pause", slot |-> 0]]
    /\ UNCHANGED <<up, track, onTrack, conn, pubVars, gaugeVars>>

\* Mutant: no OnConnectionStateChange at the viewer, a dead connection is
\* read for ever.
ViewerListens(v) ==
    /\ \/ viewer[v] = [st |-> "signal", slot |-> 0] /\ ~up
       \/ viewer[v].st = "signal" /\ viewer[v].slot # 0 /\ ~Attached(v)
    /\ NoFault
    /\ ViewerPauses(v)

\* The POST is refused or breaks off with the SFU, or the viewer's own
\* connection state turns Failed: Subscribe returns an error.
ViewerNotices(v) ==
    /\ \/ viewer[v] = [st |-> "signal", slot |-> 0] /\ ~up
       \/ viewer[v].slot # 0 /\ ~Attached(v)
    /\ NoFault
    /\ ViewerPauses(v)

\* The POST takes 20 s, the connection fails at the viewer's end, or the
\* session is cancelled.
ViewerFails(v) ==
    /\ Attached(v) /\ Fault
    /\ ViewerPauses(v)

----------------------------------------------------------------------------

Next ==
    \/ PubDial \/ HandlePublish \/ PubConnected \/ PubNotices \/ PubFails
    \/ \E n \in Tracks : OnTrackSets(n) \/ OnTrackUp(n) \/ OnTrackEnds(n)
    \/ \E v \in Viewers, r \in Slots : HandleSubscribe(v, r)
    \/ \E r \in Slots :
         \/ SubscribePoll(r) \/ SubscribeGivesUp(r) \/ SubscribeAnswers(r)
         \/ SubscribeFails(r) \/ Connected(r) \/ ConnNotices(r)
         \/ ConnFails(r) \/ FailedCallback(r) \/ ClosedCallback(r)
    \/ SfuCrash \/ SfuStart
    \/ \E v \in Viewers :
         ViewerDial(v) \/ ViewerNotices(v) \/ ViewerFails(v)

\* Goroutines run, timers fire, connections between live ends come up and
\* dead ones are noticed; no failure need ever happen, and neither the end
\* of a ReadRTP nor the OnTrack of a session that is over.
Fairness ==
    /\ WF_vars(PubDial) /\ WF_vars(PubConnected) /\ WF_vars(PubNotices)
    /\ WF_vars(NoFault /\ HandlePublish) /\ WF_vars(SfuStart)
    /\ \A n \in Tracks : /\ WF_vars(Live(n) /\ OnTrackSets(n))
                         /\ WF_vars(OnTrackUp(n))
    /\ \A v \in Viewers :
         /\ WF_vars(ViewerDial(v)) /\ WF_vars(ViewerNotices(v))
         /\ WF_vars(\E r \in Slots : HandleSubscribe(v, r))
    /\ \A r \in Slots :
         /\ WF_vars(SubscribePoll(r)) /\ WF_vars(SubscribeGivesUp(r))
         /\ WF_vars(SubscribeAnswers(r)) /\ WF_vars(Connected(r))
         /\ WF_vars(ConnNotices(r)) /\ WF_vars(FailedCallback(r))
         /\ WF_vars(ClosedCallback(r))

Spec == Init /\ [][Next]_vars /\ Fairness

----------------------------------------------------------------------------
(* Properties.                                                             *)

\* Connections that have been counted and whose end has not been told.
Open == {r \in Slots : conn[r].st \notin {"free", "poll", "bound"}}

Readers == {n \in Tracks : onTrack[n] = "reading"}

\* Neither gauge is ever too high, and both are exact as long as nothing has
\* failed: the gauge of viewers (sfu.go:27) never counts a connection that has
\* ended, and counts all the others while none has failed, those given up for want
\* of an answer included; the gauge of the publisher (sfu.go:30) is 1 only while
\* some OnTrack goroutine reads, and is 1 then unless another one has ended.
GaugesNeverHigh ==
    /\ TypeOK
    /\ subs <= Cardinality(Open)
    /\ lost = 0 /\ (\A r \in Slots : conn[r].st # "closing") => subs = Cardinality(Open)
    /\ pubUp = 1 => Readers # {}
    /\ (\A n \in Tracks : onTrack[n] # "done") => (pubUp = 1 <=> Readers # {})

\* No viewer's connection is being set up or has an end still to be told.
AtRest == \A r \in Slots : conn[r].st \in {"free", "poll", "bound", "connected"}

SubscribersShown == AtRest => subs = Cardinality({r \in Slots : conn[r].st = "connected"})

PublisherShown == pub.st = "live" /\ onTrack[pub.n] = "reading" => pubUp = 1

\* What the gauges say of themselves: "Connected viewer PeerConnections"
\* (sfu.go:28) and "1 while a publisher is connected" (sfu.go:31), taken when no
\* connection is coming up or going down.  Each is claimed; this asks only that
\* they be not both wrong at once, so that one behaviour shows what either does.
HelpTexts == SubscribersShown \/ PublisherShown

Fed(v) == /\ viewer[v].st = "wait" /\ Attached(v)
          /\ conn[viewer[v].slot].st = "connected"
          /\ Live(conn[viewer[v].slot].trk)
          /\ onTrack[pub.n] = "reading"

\* A viewer whose connection is fine but whose track nobody writes to.
Starved(v) == /\ viewer[v].st = "wait" /\ Attached(v)
              /\ conn[viewer[v].slot].st = "connected"
              /\ pub.st = "live" /\ conn[viewer[v].slot].trk # pub.n

\* Whatever fails, in the end the publisher is up and every viewer either
\* receives it or holds a connection that works, bound to the track of
\* another publisher session: no viewer hangs in any other way.
FedOrStarved == <>[](\A v \in Viewers : Fed(v) \/ Starved(v))

\* What docs/07-lessons-learned.md:56 says of the deployment: "killing any
\* container mid-run heals".
Heals == <>[](\A v \in Viewers : Fed(v))
=============================================================================
