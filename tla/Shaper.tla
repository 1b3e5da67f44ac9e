-------------------------------- MODULE Shaper --------------------------------
(* One direction of an emulated link (netem/shaper.go): goroutines call send *)
(* and one scheduler goroutine, loop, hands packets on when they are due.    *)
(* A critical section of shaper.mu is one step; the time a goroutine reads   *)
(* before it takes the lock, and the delivery and the wake-up that follow    *)
(* the unlock, are steps of their own.  Time is a counter.                   *)
EXTENDS Naturals, Sequences, FiniteSets, SequencesExt, FiniteSetsExt

CONSTANTS Sender,     \* goroutines that call send
          Profiles,   \* link profiles: [delay, jitter, tx, lossy]; tx > 0 is a rate cap,
                      \* the time a packet takes at that rate
          Changes,    \* how often the profile may change (/netem/apply)
          CanClose,   \* the link may be closed
          MaxQueue,   \* maxQueueDelay
          MaxPacket,  \* bound: packets sent
          LastSend,   \* bound: time of the last send
          MaxTime     \* bound: end of time

ASSUME ShaperAssumption ==
    /\ Profiles \subseteq [delay : Nat, jitter : Nat, tx : Nat, lossy : BOOLEAN]
    /\ IsFiniteSet(Profiles)
    /\ {Changes, MaxQueue, MaxPacket, LastSend, MaxTime} \subseteq Nat
    /\ CanClose \in BOOLEAN

Hour == MaxTime + 1   \* the timer's idle setting: it does not expire within the bound
Packet == 1..MaxPacket

VARIABLES
    clock,
    profile, changes,   \* what s.profile() returns; how often it has changed
    heap,      \* s.h: records [id, due, seq]
    nextFree, seq,
    wake,      \* s.wake holds a token
    closed,    \* s.done is closed
    call,      \* call[s]: s's call of send, with what it has read so far
    \* loop.
    lpc,       \* "look", "lock", "deliver", "wait", "gone"
    lnow, ready, wait,
    timer,     \* when the timer expires
    \* History.
    sends,     \* packets given to send
    order,     \* packets that passed the lock, in that order
    out        \* packets delivered, in that order

sharedVars == <<heap, nextFree, seq, order>>
loopVars == <<lpc, lnow, ready, wait, timer>>
envVars == <<clock, profile, changes, closed>>
vars == <<envVars, sharedVars, wake, call, sends, loopVars, out>>

Idle == [at |-> "idle"]

Init == /\ clock = 0 /\ profile \in Profiles /\ changes = 0 /\ closed = FALSE
        /\ heap = {} /\ nextFree = 0 /\ seq = 0 /\ order = <<>>
        /\ wake = FALSE
        /\ call = [s \in Sender |-> Idle] /\ sends = 0
        /\ lpc = "look" /\ lnow = 0 /\ ready = <<>> /\ wait = Hour /\ timer = Hour
        /\ out = <<>>
-----------------------------------------------------------------------------
Tick == /\ clock < MaxTime /\ clock' = clock + 1
        /\ UNCHANGED <<profile, changes, closed, sharedVars, wake, call, sends, loopVars, out>>

\* State.Apply: the next send sees the new profile.
Apply == /\ changes < Changes /\ changes' = changes + 1
         /\ profile' \in Profiles \ {profile}
         /\ UNCHANGED <<clock, closed, sharedVars, wake, call, sends, loopVars, out>>

\* PacketConn.Close.  loop looks at done only when it waits; send never does.
Close == /\ CanClose /\ ~closed /\ closed' = TRUE
         /\ UNCHANGED <<clock, profile, changes, sharedVars, wake, call, sends, loopVars, out>>
-----------------------------------------------------------------------------
\* send reads the profile, drops the packet as lost, or reads the time.
Begin(s) == /\ call[s] = Idle
            /\ sends < MaxPacket /\ clock <= LastSend
            /\ sends' = sends + 1
            /\ \/ call' = [call EXCEPT ![s] = [at |-> "lock", id |-> sends', prof |-> profile,
                                               now |-> clock]]
               \/ profile.lossy /\ UNCHANGED call
            /\ UNCHANGED <<envVars, sharedVars, wake, loopVars, out>>

\* nextFree once it has caught up with a packet that arrives at n.
Free(n) == IF nextFree > n THEN nextFree ELSE n

Capped(c) == c.prof.tx > 0

Full(c) == Capped(c) /\ Free(c.now) - c.now > MaxQueue

\* Mutant: the serialisation of the packet before is forgotten.
SlotNow(c) == c.now

\* When a packet may begin to be serialised, and how long it may then take.
Slot(c) == IF Capped(c) THEN Free(c.now) ELSE c.now
Delays(c) == LET d == c.prof.delay  j == c.prof.jitter
             IN (IF j > d THEN 0 ELSE d - j)..(d + j)

\* The critical section of send drops the packet, ...
Drop(s) == /\ call[s].at = "lock" /\ Full(call[s])
           /\ nextFree' = Free(call[s].now)
           /\ call' = [call EXCEPT ![s] = Idle]
           /\ UNCHANGED <<envVars, heap, seq, order, wake, sends, loopVars, out>>

\* ... or accepts it: on the fast path if it is due and nothing is queued.
Accept(c, due) ==
    /\ nextFree' = IF Capped(c) THEN Slot(c) + c.prof.tx ELSE nextFree
    /\ order' = Append(order, [id |-> c.id, due |-> due, slot |-> Slot(c), tx |-> c.prof.tx,
                               fast |-> due <= c.now /\ heap = {}])
    /\ IF due <= c.now /\ heap = {} THEN UNCHANGED <<heap, seq>>
       ELSE /\ seq' = seq + 1
            /\ heap' = heap \cup {[id |-> c.id, due |-> due, seq |-> seq']}

Admit(s) == /\ call[s].at = "lock" /\ ~Full(call[s])
            /\ \E d \in Delays(call[s]) : Accept(call[s], Slot(call[s]) + d)
            /\ call' = [call EXCEPT ![s] = [at |-> IF heap' = heap THEN "fast" ELSE "wake",
                                            id |-> @.id]]
            /\ UNCHANGED <<envVars, wake, sends, loopVars, out>>

\* After the unlock: the delivery of the fast path, or the wake-up.
SendNow(s) == /\ call[s].at = "fast"
              /\ out' = Append(out, call[s].id)
              /\ call' = [call EXCEPT ![s] = Idle]
              /\ UNCHANGED <<envVars, sharedVars, wake, sends, loopVars>>

\* Mutant: the wake channel has no buffer; nobody listening, nothing sent.
WakeListener(s) == /\ call[s].at = "wake"
                   /\ wake' = (wake \/ lpc = "wait")
                   /\ call' = [call EXCEPT ![s] = Idle]
                   /\ UNCHANGED <<envVars, sharedVars, sends, loopVars, out>>

WakeLoop(s) == /\ call[s].at = "wake"
               /\ wake' = TRUE
               /\ call' = [call EXCEPT ![s] = Idle]
               /\ UNCHANGED <<envVars, sharedVars, sends, loopVars, out>>
-----------------------------------------------------------------------------
\* loop reads the time, ...
Look == /\ lpc = "look" /\ lpc' = "lock" /\ lnow' = clock
        /\ UNCHANGED <<envVars, sharedVars, wake, call, sends, ready, wait, timer, out>>

\* ... under the lock takes what is due, in the order of the heap, ...

\* Mutant: packets are ready a moment early.
DueSoon == {p \in heap : p.due <= lnow + 1}

Due == {p \in heap : p.due <= lnow}

\* Mutant: equal times in reverse.
BeforeTies(a, b) == a.due < b.due \/ (a.due = b.due /\ a.seq > b.seq)

Before(a, b) == a.due < b.due \/ (a.due = b.due /\ a.seq < b.seq)

InOrder(S) == CHOOSE q \in [1..Cardinality(S) -> S] :
                  \A i, j \in DOMAIN q : i < j => Before(q[i], q[j])

\* Mutant: the clock is read again.
KeptAnew == {p \in heap : p.due > clock}

Kept == heap \ Due
Pop == /\ lpc = "lock" /\ lpc' = "deliver"
       /\ ready' = InOrder(Due)
       /\ heap' = Kept
       /\ wait' = IF heap' = {} THEN Hour ELSE Min({p.due : p \in heap'}) - lnow
       /\ lnow' = 0  \* not read again
       /\ UNCHANGED <<envVars, nextFree, seq, order, wake, call, sends, timer, out>>

\* ... delivers it, ...
DeliverNext == /\ lpc = "deliver" /\ ready # <<>>
               /\ out' = Append(out, Head(ready).id)
               /\ ready' = Tail(ready)
               /\ UNCHANGED <<envVars, sharedVars, wake, call, sends, lpc, lnow, wait, timer>>

\* When a timer expires that is armed for time t: MaxTime is every later moment.
Expiry(t) == IF wait = Hour THEN Hour ELSE IF t > MaxTime THEN MaxTime ELSE t

\* ... arms the timer (an expiry nobody has read is drained), ...
Arm == /\ lpc = "deliver" /\ ready = <<>> /\ lpc' = "wait"
       /\ timer' = Expiry(clock + wait)
       /\ wait' = Hour
       /\ UNCHANGED <<envVars, sharedVars, wake, call, sends, lnow, ready, out>>

\* ... and waits: for a wake-up, for the timer, for the end.
Woken == /\ lpc = "wait" /\ wake
         /\ wake' = FALSE /\ lpc' = "look"
         /\ UNCHANGED <<envVars, sharedVars, call, sends, lnow, ready, wait, timer, out>>

Expired == /\ lpc = "wait" /\ clock >= timer
           /\ timer' = Hour /\ lpc' = "look"
           /\ UNCHANGED <<envVars, sharedVars, wake, call, sends, lnow, ready, wait, out>>

Quit == /\ lpc = "wait" /\ closed /\ lpc' = "gone"
        /\ UNCHANGED <<envVars, sharedVars, wake, call, sends, lnow, ready, wait, timer, out>>

Finish(s) == Drop(s) \/ Admit(s) \/ SendNow(s) \/ WakeLoop(s)
Loop == Look \/ Pop \/ DeliverNext \/ Arm \/ Woken \/ Expired \/ Quit
Next == Tick \/ Apply \/ Close \/ Loop \/ \E s \in Sender : Begin(s) \/ Finish(s)

Spec == /\ Init /\ [][Next]_vars
        /\ WF_vars(Tick) /\ WF_vars(Loop) /\ \A s \in Sender : WF_vars(Finish(s))
-----------------------------------------------------------------------------
Accepted == {order[i].id : i \in 1..Len(order)}
Delivered == ToSet(out)
Entry(p) == CHOOSE e \in ToSet(order) : e.id = p

\* Where an accepted packet is until it is delivered.
Passing == {s \in Sender : call[s].at = "fast"}
Held == {p.id : p \in heap} \cup {p.id : p \in ToSet(ready)} \cup {call[s].id : s \in Passing}

\* Every variable has a value of its type.
TypeOK ==
    /\ clock \in 0..MaxTime /\ profile \in Profiles /\ changes \in 0..Changes
    /\ closed \in BOOLEAN /\ wake \in BOOLEAN
    /\ heap \subseteq [id : Packet, due : Nat, seq : Packet]
    /\ nextFree \in Nat /\ seq \in 0..MaxPacket
    /\ order \in Seq([id : Packet, due : Nat, slot : Nat, tx : Nat, fast : BOOLEAN])
    /\ \A s \in Sender : \/ call[s] = Idle
                         \/ call[s] \in [at : {"lock"}, id : Packet, prof : Profiles, now : 0..MaxTime]
                         \/ call[s] \in [at : {"fast", "wake"}, id : Packet]
    /\ sends \in 0..MaxPacket
    /\ lpc \in {"look", "lock", "deliver", "wait", "gone"}
    /\ lnow \in 0..MaxTime /\ timer \in 0..Hour /\ wait \in Nat \ {0}
    /\ ready \in Seq([id : Packet, due : Nat, seq : Packet])
    /\ out \in Seq(Packet)

\* A packet that passed the lock is in one place: queued, popped, with a sender
\* on the fast path, or delivered, once.  The link loses nothing else than what
\* the profile's loss or the queue bound drops.
Conserved ==
    /\ TypeOK
    /\ Accepted = Held \cup Delivered
    /\ Len(order) = Cardinality(heap) + Len(ready) + Cardinality(Passing) + Len(out)

\* No packet is delivered before it is due, however old the loop's and the
\* sender's readings of the clock are.
NotEarly == [][\A p \in Delivered' \ Delivered : clock >= Entry(p).due]_vars

\* Under a rate cap the link serialises one packet at a time, over concurrent
\* senders, drops and changes of the rate, and no packet waits longer than
\* maxQueueDelay and what was sent while its sender was on the way to the lock.
RateCap ==
    /\ \A i, j \in 1..Len(order) :
        i < j /\ order[i].tx > 0 /\ order[j].tx > 0 => order[j].slot >= order[i].slot + order[i].tx
    /\ nextFree <= clock + MaxQueue + Max({q.tx : q \in Profiles})

\* Of two packets that are queued, the one accepted first and due no later is
\* delivered first, through changes of delay, jitter and rate.  A packet on the
\* fast path may overtake what the loop has popped and not delivered yet.
QueuedInOrder ==
    \A i, j \in 1..Len(order) :
        (/\ i < j /\ order[i].due <= order[j].due
         /\ ~order[i].fast /\ ~order[j].fast
         /\ order[j].id \in Delivered) => order[i].id \in Delivered

\* No wake-up is lost: an accepted packet is delivered unless the link is closed
\* (the wake channel holds one token, and the timer is set for the earliest).
AllDelivered == \A p \in Packet : p \in Accepted ~> (p \in Delivered \/ closed)
=============================================================================
