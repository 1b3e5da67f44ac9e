# Edgecast in TLA+

A verification project for [Edgecast](../src/README.md), a Go testbed that delivers the
same live stream over three paths: MoQ (media over QUIC through a tree of relays), WebRTC
(through an SFU) and HLS (segments over HTTP). The modules below model its core logic, TLC
checks them on small instances, and TLAPS proves some of the results for every value of
the constants. Source references are to `src/internal/` unless they say otherwise.

## The system

| Part | State it keeps | Operations | Concurrency |
| --- | --- | --- | --- |
| relay, group buffer (`relay/relay.go` 71-121) | the group's objects, closed, a condition variable | append, close, next | one ingest goroutine fills it, one writer per subscriber waits on it |
| relay, track (`relay.go` 123-240, 335-393) | generation, live group, subscribers with a queue of three and a filter | publishGroup, enqueue, addSub/removeSub, run, writeGroup | a goroutine per group stream, per subscriber and per connection |
| relay, sessions and pull-through (`relay.go` 243-333, 395-451) | tracks, `sourced`, upstream loops | announce, subscribe, ensureSourced, upstreamLoop | relays in a tree, killed and restarted |
| MoQ publisher (`moqclient/pub.go`, `media/generator.go`) | generator numbering, the open group stream, ABR tier and counters | RunPublisher, publishOnce, adapt, Generator.Next | sequential; sessions fail anywhere |
| MoQ viewer (`moqclient/sub.go`) | none | Subscribe | a goroutine per group |
| link emulator (`netem/`) | heap of packets, nextFree, timer, wake channel, profile; deadlines and receive queue of PacketConn | send, loop, Apply, ReadFrom, Close | senders and one scheduler goroutine per direction |
| load generator, manager (`loadgen/loadgen.go` 269-399) | generation, recorders by run id, run order | Start, Restart, session, HTTP handlers | concurrent requests, a goroutine per session |
| load generator, recorder (86-267) | samples per second, last arrival, stalls | Media, AddStall, Snapshot | groups arrive concurrently, with a time taken before the lock |
| HLS origin (`hlspath/origin.go`) | a ring of segments per rendition | produce, playlist, segment | a ticker and HTTP handlers |
| HLS player (`hlspath/client.go`) | nextSeq, buffer account, rendition, bandwidth estimate | RunSession | sequential against a moving origin |
| WebRTC SFU, publisher, viewer (`webrtcpath/`) | the current track, two gauges, a connection per viewer | handlePublish, handleSubscribe, OnTrack, publishOnce, Subscribe | a goroutine per publisher session, callbacks of PeerConnections, reconnection loops |
| experiment controller (`expctl/`) | the run in hand, the records of the runs, the summary | Run, runOne, aggregate | HTTP calls to several targets, any may fail; cancellation |
| wire protocol (`proto/`), `quicutil/`, `admin/`, `cmd/` | none to speak of | framing, configuration, wiring | - |

How they interact: a publisher dials a relay, announces a track and opens one QUIC stream
per group. The relay fans each group out to subscribers, which are viewers or downstream
relays; a relay that lacks a track subscribes upstream. Viewers are sessions of a load
generator, behind an emulated link. The experiment controller changes links and restarts
sessions over HTTP and collects their results by run id. The publisher and everything
upstream never hear from what is downstream, except by connections that open and close.

What is hard here, and what makes each part correct:

* *Group buffer*: waiting without losing a wakeup, and never taking "closed" for "all
  read". Correct: a reader gets exactly the group, and gets all of it.
* *Track*: fan-out happens after the unlock, goroutines of different groups overtake each
  other, publishers restart their numbering, subscribers join in between, queues overflow.
  Correct: nobody is blackholed, nothing in between is missed, old groups are dropped and
  the newest is not, ingest never waits for a subscriber.
* *Tree*: requests for an absent track arrive together, processes are killed. Correct: one
  pull per track and relay, and the tree heals.
* *Publisher*: a session fails with a frame in hand. Correct: the numbering the relay
  relies on, whole groups, a ladder that moves once per reason.
* *Link*: stale clock readings, a heap shared with a timer that only one goroutine sets.
  Correct: nothing accepted is lost, early or stuck; rate and queue bound hold.
* *Manager*: restarts overlap with each other, with start-up and with failing sessions.
  Correct: the latest generation runs, its results can be collected.
* *Recorder*: units are recorded in another order than they arrived. Correct: what is booked
  as stalled is the silence, or more, never less.
* *WebRTC*: the ends of a connection learn of each other's death late, callbacks of one
  session run after those of the next. Correct: gauges that can be read, no viewer hangs.
* *Experiments*: a request fails before or after it took effect, a target restarts, the
  controller is told to stop. Correct: a run is what its label says, the summary counts every
  unit once, links are clear afterwards, the matrix ends.
* *HLS*: the playlist is old when it is used, the account is brought up to date lazily.
  Correct: a prompt player stays within the window, stalls are what was watched.

`PROJECT.json` lists each hazard at its line, with the properties that would catch it.

## Modules

| Module | Models | Runs | Proofs |
| --- | --- | --- | --- |
| `ObjectLog` | abstract: a group is a growing log with a seal, readers deliver its objects in order | - | - |
| `GroupBuffer` | the group buffer with its lock, condition variable and the gap before each broadcast; implements `ObjectLog` | `group_buffer` | `RelayProofs` |
| `Track` | one track at one relay: ingest, fan-out, join, filter, writing | `track` | `TrackProofs` |
| `RelayTree`, `MCRelayTree` | announce, subscribe, pull-through, reconnection over a tree; which tree is in the MC module | `relay_tree` | `RelayProofs` |
| `Publisher` | sessions, generator numbering, stream per group, ABR | `publisher` | `PublisherProofs` |
| `Shaper`, `MCShaper` | one direction of a link; the profiles are in the MC module | `shaper` | `ShaperProofs` |
| `PacketConn` | reading from an impaired socket: deadlines, close, the receive queue | `packet_conn` | `PacketConnProofs` |
| `Manager` | the session manager of a load generator | `manager` | `SessionProofs` |
| `Hls` | origin and one player | `hls` | `HlsProofs` |
| `Sfu` | the SFU, its publisher and its viewers | `sfu`, `sfu_gauges`, `sfu_heals` | `SessionProofs` |
| `Experiment`, `MCExperiment` | the controller's runs over several load generators; the matrix is in the MC module | `experiment` | `ExperimentProofs` |
| `Recorder` | the recorder of a session, as operators that `Experiment` applies | `experiment` | - |
| `Aggregate` | the summary of the controller, as operators that `Experiment` applies | `experiment` | - |

How they fit together: `Publisher`'s `FeedOrder` is what `Track` assumes of its feed
(`IsFeed`: numbers grow, with gaps, or a new incarnation begins); `GroupBuffer` is what
`Track` abstracts to a count of objects per group; `RelayTree` says when a feed exists at
all. Each leaves out what the other decides, so that both stay within TLC's reach.
`Experiment` composes the controller with what it drives: the state of a link (`Shaper` is
what a link does with it), the run a load generator records for (`Manager` is how it changes
runs) and a `Recorder`, whose samples `Aggregate` reads.

### Conventions

A goroutine is a `pc` with the locals it still needs. A critical section, or one operation
on a channel, is one step; what the code does after an unlock is a step of its own, because
the hazards live there. The names are the code's. Definitions marked *Mutant* are plausible
bugs: each is the wrong form of the definition that follows it, and the property paired
with it in `PROJECT.json` fails when it is put in that definition's place. History variables
(`pub`, `sent`, `log`, ...) are read by properties only. Every bound has a name, is a
CONSTANT, and occurs in a guard or in the feed. An invariant whose first conjunct is
`TypeOK` is the module's type invariant too.

### GroupBuffer

`objs` and `closed` are the fields; a reader is `"next"` (about to lock), `"waiting"` in
`cond.Wait`, `"write"` with an object in hand, `"finished"` or `"gave_up"`. `AppendObj` and
`CloseGroup` end at the unlock; `Broadcast` is the call that follows. Two writers, two
objects and groups of up to three are enough for one writer to sleep while another reads,
for a close to fall between test and wait, and for the second broadcast to find a waiter
that the first one missed. `IsLiveObjectLog` says that the buffer, with its lock and its
late broadcast, is to its readers the log of `ObjectLog`, progress included.

### Track

`opened` is the feed, chosen at the start. `stage`, `objs` and `fan` are the ingest
goroutines; `PublishGroup` is the critical section of publishGroup, then `FanoutSend`,
`FanoutFull` and `FanoutDrop` are enqueue for one subscriber after the other: send, or find
the queue full, drop the oldest, try again. `AddSub`, `ReadLive`, `SubscribeOK`/`Fails` and
`JoinSend`/`Full`/`Drop` are handleSubscriber; `Take`, `OpenStream`, `WriteObject` and
`FinishGroup` are run and writeGroup; `LoseConn` and `Leave` are the connection's end.

The run has two groups of up to two objects, either of them a restart, one subscription, a
queue of one (so that it overflows) and a connection that may be lost, in every order of
publishing, fan-out, joining and writing. Two groups are enough for a restart to overtake the
join, for a group to be both fanned out and joined, and for a full queue to be drained by the
subscriber between the test and the drop. Behaviours that need more (a fan-out overtaken by a
restart and by its successor, a longer queue) are covered by the theorems: all seven
invariants of the run are proved for any feed, queue and subscriptions.
Subscriptions share nothing but the snapshot that a fan-out walks, so one is enough for
TLC.

Fairness: goroutines are scheduled, and a group stream ends, because the publisher goes on
to the next group or QUIC's idle timeout (`quicutil.go`) ends the connection. A subscriber
may stop reading for ever: writing to it is not fair.

### RelayTree

A client is whoever dials (publisher, viewer, relay with an upstream) and lives the same
life: dial, ask, serve, back off. `Crash` forgets everything a relay knows; `Restart` starts
it again (compose restarts containers). `relay_tree` is a chain of three relays with a
viewer at each of the lower two, two kills, one lost connection and a publisher that may
leave. `Heals` assumes fairness of every client's loop and of restarts, and that failures
end (the bounds): it says nothing of a system that is killed for ever.

### Publisher

`gen` is the generator's counter, `frame` the frame in hand, `streams` the last two group
streams (properties compare neighbours only), `session` and `kills` count incarnations.
`SessionFails` may occur at any write, `Kill` at any time. Thirteen groups let the ladder
fall to its bottom, climb one rung after ten fast groups, and two sessions and a process be
lost on the way.

### Shaper

`call[s]` is a goroutine's call of send with what it has read so far: the profile and the
time before the lock (`Begin`), the critical section (`Admit`, `Drop`), delivery on the fast
path or the wake-up after it (`SendNow`, `WakeLoop`). The scheduler is `Look`, `Pop`,
`DeliverNext`, `Arm`, then `Woken`, `Expired` or `Quit`. Time is a counter; the end of time
stands for every later moment, so that a timer armed beyond it still expires. Two senders
and two packets under a profile change from jitter with loss to a rate cap are the fewest
with a packet queued behind another, a drop by the queue bound, and a wake-up that comes
while the loop is between its pop and its wait. Tick, the loop and each call of send are
weakly fair (scheduling).

### PacketConn

`call[r]` is a goroutine's ReadFrom: `CopyAt` is the critical section that copies deadline
and channel, `Arm` what follows the unlock, and the four cases of the select are
`TakePacket`, `SeeClosed`, `TimeOut` and `Notified`. A channel that is closed to wake its
readers is a number, and every number below `dlNotify` is closed. Packets are alike, and the shaper
in between delivers them some time or never (`Shaper` is how). Two readers, three deadlines
one after the other and two packets through a queue of one are enough for deadlines to come
between copy and wait, for a reader to lose a packet to the other, and for the queue to
overflow. Readers and time are weakly fair (scheduling); nothing is assumed of
packets, of who closes or of who sets deadlines.

### Manager

A caller is a client or Start; `NewRun` is Restart's critical section, `SetGauge` and
`Spawn` what follows its unlock, `Continue`, `TransportFails` and `Pause` a session's loop.
`TransportFails` is the transport returning, with an error or without: the loop goes on alike,
and `Result.Errors`, which counts the former, is left out.
`Panic` is a request that comes before Start has set `baseCtx`. Two clients, three
generations and a memory of two runs make prunings and overlapping restarts.

### Hls

The origin's ring holds segment numbers; `Produce` is its ticker. The player's requests take
up to `Slow` ticks; the origin answers at any moment of that. A tick is a millisecond, the
grain of the player's account, and what happens does so between two ticks. `drain` truncates
the time since the last one (client.go:61) but moves `lastTick` by all of it (67):
`Measured` is the time it finds, exact or one tick less, and `cut` adds up what the drains
of a session have lost. `level` and `starved` are the account of an imaginary player that
begins each session with the real one and watches its buffer at every tick; the real one
drains lazily, and `StallsAreReal` says that in every session, up to its failure, the two
agree but for exactly `cut`. At a failure the session returns without a drain (client.go:73,
90), and `Reconnect` begins both accounts again: what was lost there is in none, which is an
observation below. `KeepsUp` holds while `cut` is at most the target buffer. The loss adds
up by at most 1 ms per drain; a player that has lost more believes its buffer fuller than it
is, and oversleeps. Windows of three and five instead of six and twelve, and segments of two
ticks, let a request outlast the ring within the bound; what matters is their difference,
which is named in `ListedIsServed`. Bandwidth is a free choice: any download may be followed
by any rendition.

### Sfu

A publisher session has a number, and so has the track its `OnTrack` goroutine makes;
`onTrack` is how far that goroutine is. `conn` is a /subscribe request (`poll`, `bound`) and
then its PeerConnection, `Connected` to `ClosedCallback`; `viewer` is Subscribe inside the
manager's loop. The two ends learn of a failure in steps of their own: `PubNotices`,
`ViewerNotices` and `ConnNotices`. Pion is external, modelled from how the code uses it: a
connection whose other end is gone fails in the end, Close brings one more callback, a read
from a publisher that is gone may fail or block, and OnTrack runs at some time after the
first packet.

Two viewers, three connections (one more than viewers, so that an old connection's callbacks
overlap with a new one) and two failures are the fewest with a publisher that reconnects
while a viewer is between poll and answer, and with an SFU that dies after a session was
replaced. Goroutines, timers, dials and notices are weakly fair; failures are not, nor the
end of a read, nor the OnTrack of a session that is over.

### Experiment, Recorder, Aggregate

`ctl` is runOne's place in the code; `PostProfile`, `PostRestart`, `PostEvent`, `Collect` and
`PostClear` are one request each, with its failure and what runOne makes of it. A failed
request took effect or not, and cost no time or the client's time-out. Load generators are
`link`, `cur`, `store` and `pending`: a media unit has its time taken (`MediaRead`) before it
has the recorder's lock (`MediaRecord`). `Recorder` and `Aggregate` compute with the samples
that come out of that. `log` and `hit` are history: what a link went through, and which
failures a run met.

One session stands for those of a target. Requests that succeed take no time: time passes
where runOne waits. Units arrive during the first requests of a run and while runOne waits;
the sessions a load generator starts with are not followed. The manager's pruning is left
out, as the matrix has fewer runs than are remembered. Events of a timeline that have the
same time may be sent in any order, as `sort.Slice` says nothing of equal ones;
`WindowsAreApplied` speaks of timelines without equal times. The matrix has a timeline out of
order and one with a burst of loss, over one and two targets; one failure of any kind and three units
and failures in all suffice for each failure to meet each request, and for one unit to
overtake another at the lock. Fairness is of the controller only: `Finishes` asks nothing of
the load generators, because every request has a time-out.

## Runs

| Run | Shows |
| --- | --- |
| `group_buffer` | no wakeup lost; a clean end is the whole group; the buffer implements the object log, progress included |
| `track` | no filter is ahead of the live group; a late joiner misses nothing from its first group on; a generation is an incarnation (when streams are published in order and restarts show); sent once and in order, newest delivered (while fan-outs to the subscriber do not overtake each other); a stream closed cleanly is a whole group; every fan-out ends whatever the subscriber does; a subscriber whose connection died leaves |
| `relay_tree` | one pull per track and relay; whoever is served is fed; the tree heals |
| `publisher` | the feed `Track` assumes, with at most one number lost per reconnection; whole groups; the ladder follows the current run of equal ratios |
| `shaper` | accepted packets are conserved, not early, delivered, in order if queued; the cap and the queue bound hold |
| `packet_conn` | no reader waits for a deadline that was replaced, unless its wake-up is on the way; a call ends with its deadline and with the connection |
| `manager` | the latest generation runs and the others end; the last runs' results are kept |
| `hls` | listed segments are served in time; a prompt player stays within the playlists; in a session that has not failed, stalls are what was watched, but for what drains truncate |
| `sfu` | neither gauge is too high, and each is exact until something failed; in the end every viewer is fed, or holds a working connection to the track of an older publisher session |
| `sfu_gauges` | after two failures and the reconnections both gauges differ from their Help texts for good (expects a violation) |
| `sfu_heals` | a viewer is left on the track of an older session after one failure of the publisher (expects a violation) |
| `experiment` | runs are what their labels say; the windows of the summary are those of the link; links are left clear but for a named failure; stalls are silence; each unit in a window is counted once; the matrix ends |

Deadlock is not checked where a run's behaviour really ends: the feed, the frames, the
packets or the time of the bounds are used up, or a healed system has nothing to do.

### Where the code and its documents differ

* `sfu_heals`: docs/07 says that killing any container mid-run heals. The SFU binds a viewer
  to the track of the publisher session it found (sfu.go:125); after the publisher's
  container is killed its next session has another track, and the viewer's connection stays
  up and silent.

* `sfu_gauges`: the Help text of edgecast_sfu_subscribers is "Connected viewer
  PeerConnections" (sfu.go:28), but the gauge goes down twice for a connection that failed,
  once for Failed and once for the Closed that pc.Close brings (sfu.go:142), and below zero.
  That of edgecast_sfu_publisher_connected is "1 while a publisher is connected" (sfu.go:31),
  but the goroutine of an older session clears it after the newer one has set it (sfu.go:79).
  The property says that not both texts are wrong at once when nothing is coming up or going
  down, so that its one counterexample shows both. `GaugesNeverHigh` is what is left to rely
  on, and would hold of corrected code too.

Seen with TLC while the models were written, and not kept as runs:

* Two ingest goroutines of one publisher may publish in the other order, and the relay takes
  that for a restart (relay.go:151; the comments at 127 and 146 speak of a restart only).
* A publisher that announced at a relay with an upstream leaves `sourced` set for ever; the
  track is never pulled after it has left (relay.go:320, 399).
* An HLS player that has fallen behind the window, or has seen the origin restart, polls for
  ever as if at the live edge (client.go:84; the comment at 128 says otherwise).
* A group of an older generation that is enqueued late resets a subscriber's filter, and
  the late join's copy of a newer group is then sent a second time (relay.go:209).
* A publisher that restarts while its group 0 is live publishes another group 0 under the
  same generation, and it is discarded as a duplicate (relay.go:151, 209).
* The fast path of send looks at the heap only, and overtakes a packet that the loop has
  popped and not delivered yet, on a link without jitter too (shaper.go:135).
* Restarting under one run id more often than runs are remembered deletes the current run's
  recorders, as the id is appended again and the oldest entry pruned (loadgen.go:325).
  `LatestRunsKept` fails when `Reuse` is TRUE and clients use one id six times; the
  `manager` run has clients that use fresh ids, as the experiment controller does.
* Two restarts may set the session gauge in the other order (loadgen.go:331).
* A restart request between RegisterHandlers and Start panics with `m.mu` held, and Start
  waits for ever (loadgen.go:310); `Settles` excludes that case by name.
* OnTrack of an older publisher session that runs late replaces the track of the newer one
  (sfu.go:76); `FedOrStarved` counts the viewers it costs as starved.
* A run that fails leaves its impairments on the links (expctl.go:135), which docs/03 does
  not have: it says that the controller clears them first. The next run that uses the
  target replaces them; after the last one they stay. `LeftClear` names that case.
* A timeline whose file is out of order gives other recovery windows than were applied, or
  none, as runOne sorts and impairmentWindows does not (aggregate.go:111).
* An event or a collection that failed is not recorded (expctl.go:158, 177): such a run
  counts like any other.

Seen in the code, with no property on it:

* loadgen.go:352 says of a viewer that reconnects: "the downtime shows up as stalls". It does
  not for an HLS viewer. A fetch that fails returns without a drain (client.go:73, 90), so the
  starvation since the last drain is lost; the next session begins with `started` false,
  so that neither the pause of two seconds nor its start-up is a stall, whatever the recorder
  has. In the model this is the time between the last drain and `Reconnect`, which
  `StallsAreReal` leaves out by being about a session up to its failure.
* One starvation of an HLS player is recorded as many stalls, one for each poll in it
  (client.go:63); the total of a session is right.
* Stalled percentage and throughput divide by the seconds that have a sample, not by the
  measure window (aggregate.go:68-86); a session that was silent for long looks better in
  throughput, and its stalled percentage can exceed 100. The baseline of a recovery counts
  sampled seconds only, and sessions that never recover are left out of the median.
* `prevArr` takes the time of an overtaken unit, so that the next gap and its jitter look
  longer (loadgen.go:155); `StallsAreSilence` bounds the effect for stalls.
* A session's Snapshot and the summary compute percentiles by different formulas.
* The SFU does not close the PeerConnection of a publisher that is gone (sfu.go:59).
* A group that was aborted upstream of a relay ends with a clean FIN downstream of it, as
  `groupBuffer.closed` carries no error (relay.go:104).

## Proofs

Assumptions: only the `ASSUME`s of the modules (constants are numbers of the right kind,
names are distinct, the profiles of a link are finitely many, the tree's clients dial
relays). TLC evaluates them in the runs. Four theorems have a hypothesis of their own:
`PaceSound` the length of the HLS window, `LatestKept` that no client uses a run id twice
(the controller does not; see above what happens otherwise), `RunsAsLabelled` and
`WindowsMatchLoss` that no run names a target twice (it would get each event twice, and its
label says once). There is no end of time, of packets or of groups in the theorems: the bounds
of the runs are any numbers there.

* `RelayProofs`: `TypeCorrect`, `NoWakeupLost`, `FinishedWhole`, `Refinement`, for any
  readers and objects. `NoLostWakeup` alone is not inductive; `IInv` adds that a reader has
  written a prefix, writes only where there is an object, and finishes only at the seal. The
  refinement maps each step to a step of the log or a stutter.
* `TrackProofs`, for any subscriptions, queue capacity and feed:
  * `TypeCorrect`, with the queue bound, and `FilterSound`: no filter is ever ahead of the live
    group. A filter takes its values from queued and cached groups, so `FilterInv` says of
    every published group that it is not ahead of the live one.
  * `FinSound`: a clean end of stream is the whole group. `WriterInv`: the last stream of a
    subscriber that writes is that of its current group, open, and has no more objects than
    the group.
  * `GenerationsSound`: a generation is an incarnation. `EpochInv` says it of any two published
    groups, and that incarnations are published in their order.
  * `LateJoinSound`: no gap after a late join. `NoGapInv`: what is published and not before the
    live group that the subscription read has arrived, is being fanned out to it, or is that
    group. It holds because the subscription is added first (`AddedInv`).
  * `OrderSound` and `NewestSound`: sent once, in order, and not without the newest. The queue
    is the rest of what has arrived (`ArrivedInv`); the filter stands at a group that has
    left it, after everything sent before (`SentUpTo`), and at the last one when nothing is
    queued or under way (`CaughtUp`).
* `ShaperProofs`, for any senders, any finite set of profiles and any bounds:
  * `ConservedSound`: `Places` says that ids are never shared (`IdInv`), that each accepted
    packet is in exactly one place (`PlaceInv`), and that queued copies agree with what was
    accepted (`SameInv`). The counts follow by adding one and taking one at each step.
  * `NeverEarly`, an action property: readings are never ahead of the clock (`TimeInv`), so
    what the loop has popped, or a sender holds on the fast path, is due (`PlaceInv`).
  * `QueueSound`: `OrderInv` orders heap, popped packets and delivered ones against each other
    by time due and then by number (`HeapOrder`, `ReadyOrder`, `DoneOrder`).
  * `CapSound`: the next free moment is the end of the last slot under a cap, and is ahead of
    the clock by no more than the queue bound and one packet.
  * `InOrder`, the sequence in which a set of packets leaves the heap, is a CHOOSE; that one
    exists for every finite set is `SortedExists`.
* `RelayProofs`: `SinglePull` and `PullThrough` in any tree: `TreeInv` ties a relay's
  loop to `sourced` and to what its handlers have passed.
* `PacketConnProofs`: `TypeCorrect` and `NeverStale`, for any readers, queue and deadlines. The
  invariant adds that the channel a reader holds was made by the time it copied
  (`CopyIsOld`), so that the next deadline's channel is another, and that no packet comes
  from nowhere, which bounds the shaper's contents.
* `PublisherProofs`: `FeedSound`, `CleanSound` and `LadderSound`, for any length of group,
  height of ladder and number of failures. What makes `FeedOrder` inductive is the number
  the next stream would carry: minus the session, and one more while the publisher is away,
  it never grows (`Debt`), because a session that is lost at "open" takes one number with
  it and the next connection pays for it. `CleanEndIsWhole` needs that the open stream has
  as many frames as the generator has passed (`OpenOK`). The ladder's counters are the
  remainders of the streak by two and by ten, except at the ends of the ladder (`Counters`).
* `SessionProofs`: `GaugesSound`, for any viewers, connections and failures.
  `GaugesNeverHigh` is not inductive; `GaugesInv` says by how much the gauge of viewers is
  low: by the connections that ever failed, each counted down twice (`lost`, a history
  variable). `SlotChange` is what one connection's step does to the number of those that
  count, and each action is shown to move the gauge, or `lost`, by as much.
* `SessionProofs`: `LatestKept`, for any clients, size of memory and number of runs: what
  can be collected are the runs that ran last. `RunInv` says that the ids remembered are
  the last `Keep` of those that ran, each once, and each with the recorders of its sessions;
  it needs that an id which ran does not come again.
* `HlsProofs`, with no end of time:
  * `AccountIsReal`, for any window, ring, segment length and link speed: in every session up
    to its failure. Each draining step is shown to leave the buffer no shorter and the stalled
    time no longer than the watched ones, and off by what the drains have cut (`DrainEffect`);
    between drains the watched one loses exactly what the lazy one has still to drain.
  * `ListedSound`, for any window, ring and ladder, through restarts. `RingInv` says that every
    ring is the last `Ring` numbers, `ListInv` that a playlist is the end of a ring as it was
    `made` segments ago.
  * `PaceSound`: with a window of six, as in origin.go, or longer, and for any segment
    length, target and ladder, a prompt player stays within the playlists while `cut` is at
    most the target. `Paced` bounds how late it is for the segment it needs: `Slack` when it
    asks for a playlist, about three segments once it plays. A scan halves the lateness, as
    a segment takes half of its length; the sleep after it is half of the true buffer at
    most (`NapArithmetic`: what the player believes it has beyond that is no more than the
    target, which it takes off), and buffer and lateness together are a delay that is fixed
    when playing starts and grows only while the player starves (`LevelInv`). So at most
    three and a half segments and two ticks lie between the live edge and what is needed,
    where the window holds six. (The run's window of three is enough for its target buffer,
    and is not covered by the theorem.)

* `ExperimentProofs`, for any load generators, matrix, failures, times and media. `CoreInv` is
  types, with the place of runOne within targets and timeline (`PlaceInv`); each request is
  described once by what it makes of that place (`ProfileGoes` to `ClearGoes`).
  * `RunsAsLabelled`: `SetUpInv` says what the targets already passed have, as long as no
    load generator restarted: the profile, then the run's sessions; `TimelineInv` that their
    links, and what was collected of them, went through the events passed so far
    (`Played`), each at its time. That the events can be put in order at all is
    `OrderExists`: the place of an event is the number of those not after it.
  * `LinksLeftClear`: `ClearInv` says in every state whom an impaired link is to be blamed on
    (`Blamed`): the run in hand while it is in hand, or a run that met a failed request and
    was the last to use the target, or whose later users met one as well.
  * `StallsSound`: `RecInv` relates every recording to the units it has recorded; the proof
    adds one unit. `SilenceStep` is what that does to the silences of a set of times: a time
    after all others adds one gap, one in between breaks a gap in two, and the parts
    together are not more than the whole, since each has the buffer taken off.
  * `RowsWhole`: `WinInv` says that a session collected has, with the units that waited for its
    recorder then (`late`), all that its recorder has and will have of the window: the window
    is over when the run collects (`Over`), so that no unit read later is in it. What is
    summed are recordings in order (`GotInv`), so a sample is the number of units of its
    second; the sums over sessions, seconds and runs are sums of the sizes of disjoint
    sets (`SumSizes`, `SumPairs`). `RowsOnce`: rows stand in the order of the first run of
    each, and a run finds its own among them, once.
  * `WindowsMatchLoss`: a timeline in its order is gone through in that order, as only the
    identity puts it in order (`OrderedLog`, `ListUnique`). So event i is what the link did at
    place i + 1 of its log. `Windowed` says what the scan of the timeline has after some
    events: the windows ended by then, in order, and when the open one began; `WindowNext`
    adds an event, which opens a window, ends it, or changes nothing. The second lost to
    truncation is `DivSum`.
  * The library's sums are folds: a function on the subsets of a set, each value made of one of a
    smaller set. `SumExists` and `SumUnique` show that there is exactly one such function, after
    which a sum is what one expects: `SumAdd`, `SumSame`, `SumBound`, `SumBump`.

Arguments by induction over numbers (the smallest packet, group or set that breaks a
property does not exist) use `Smallest`: a nonempty set of naturals has a least element.

Model-checked only: every liveness property (`IsLiveObjectLog`, `FanoutEnds`,
`DepartedRemoved`, `Heals`, `AllDelivered`, `DeadlineHonoured`, `CloseEndsReads`, `Settles`,
`FedOrStarved`, `Finishes`), as liveness under fairness is out of the prover's reach. The
progress half of `IsLiveObjectLog` is liveness; its safety half is the theorem `Refinement`.

## Not modelled

* Wire framing (`proto/wire.go`): messages are atomic; varints and the end of a stream at an
  object boundary are left out.
* TCP pacing (`netem`): arithmetic of sleeps on one connection.
* In the recorder: jitter, end-to-end times, the manual mode of the HLS player. In the
  summary: every column but the counts and the sums for throughput, recovery times and
  percentiles included (their windows are modelled).
* `PacketConn.WriteTo` hands a packet to a shaper; the two modules are not composed.
* How a MoQ viewer reads groups off their streams: it keeps no state between them.
* Frame and segment contents, HTTP and JSON, metrics other than those named, TLS and QUIC
  configuration, admin server, flags and wiring, dashboards and recorded results: they hold
  no state of the protocols.

## Plan

1. `PacketConn` composed with two instances of `Shaper`, with WriteTo.
2. `Wire`: varints and object framing as functions.
3. TCP pacing with the HLS player.
