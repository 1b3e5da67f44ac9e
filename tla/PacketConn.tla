------------------------------ MODULE PacketConn ------------------------------
(* The receiving side of an impaired socket (netem/packetconn.go): pump reads *)
(* the inner socket into the downlink shaper, which hands packets on, in any  *)
(* order, to a bounded queue; ReadFrom takes them from there, and has to be   *)
(* woken by a new deadline and by Close.  The shaper itself is module Shaper. *)
(*                                                                            *)
(* A channel that is closed to wake its readers is a number: dlNotify is the  *)
(* last one made, and every smaller number is a closed channel.  Packets are   *)
(* alike: transit and readCh say how many there are.                          *)
EXTENDS Naturals

CONSTANTS Reader,     \* goroutines that call ReadFrom
          QueueCap,   \* capacity of readCh
          MaxPacket,  \* bound: packets that arrive on the inner socket
          MaxSet,     \* bound: calls of SetReadDeadline
          MaxTime     \* bound: end of time

ASSUME PacketConnAssumption ==
    /\ QueueCap \in Nat \ {0} /\ MaxTime \in Nat \ {0}
    /\ MaxPacket \in Nat /\ MaxSet \in Nat

NoDeadline == 0   \* the zero time.Time

VARIABLES
    clock,
    arrived,             \* packets read from the inner socket
    pump,                \* "read", or "gone"
    transit,             \* packets in the downlink shaper
    readCh,              \* packets in the queue
    closed,              \* c.closed is closed
    inner,               \* the inner socket is open
    deadline, dlNotify,
    call                 \* call[r]: where r's ReadFrom is, with its dl and notify

connVars == <<readCh, closed, inner, deadline, dlNotify>>
pathVars == <<arrived, pump, transit>>
vars == <<clock, pathVars, connVars, call>>

\* A call that has nothing copied: before it began, or woken to copy again.
Blank(at) == [at |-> at, dl |-> NoDeadline, notify |-> 0]
Idle == Blank("idle")
Woken == Blank("woken")

Init == /\ clock = 1
        /\ arrived = 0 /\ pump = "read" /\ transit = 0
        /\ readCh = 0 /\ closed = FALSE /\ inner = TRUE
        /\ deadline = NoDeadline /\ dlNotify = 0
        /\ call = [r \in Reader |-> Idle]

Tick == /\ clock < MaxTime /\ clock' = clock + 1
        /\ UNCHANGED <<pathVars, connVars, call>>
-----------------------------------------------------------------------------
\* pump reads a packet, which the shaper accepts or drops.
Arrive == /\ pump = "read" /\ inner /\ arrived < MaxPacket
          /\ arrived' = arrived + 1
          /\ transit' \in {transit, transit + 1}
          /\ UNCHANGED <<clock, pump, connVars, call>>

\* deliverDown: into the queue, or dropped when it is full.
Deliver == /\ transit > 0 /\ transit' = transit - 1
           /\ readCh' = IF readCh < QueueCap THEN readCh + 1 ELSE readCh
           /\ UNCHANGED <<clock, arrived, pump, closed, inner, deadline, dlNotify, call>>

\* Close, under once: the readers' channel first, the inner socket last.
Close == /\ ~closed /\ closed' = TRUE
         /\ UNCHANGED <<clock, pathVars, readCh, inner, deadline, dlNotify, call>>

CloseInner == /\ closed /\ inner /\ inner' = FALSE
              /\ UNCHANGED <<clock, pathVars, readCh, closed, deadline, dlNotify, call>>

\* The inner socket fails, or was closed: pump closes the connection and ends.
PumpFails == /\ pump = "read" /\ pump' = "gone"
             /\ closed' = TRUE
             /\ UNCHANGED <<clock, arrived, transit, readCh, inner, deadline, dlNotify, call>>
-----------------------------------------------------------------------------
\* SetReadDeadline wakes every reader by closing the channel it has copied.
SetReadDeadline(t) == /\ dlNotify < MaxSet
                      /\ deadline' = t /\ dlNotify' = dlNotify + 1
                      /\ UNCHANGED <<clock, pathVars, readCh, closed, inner, call>>

\* The critical section: deadline and channel are copied together, when ReadFrom
\* begins and again whenever it was woken by a new deadline.
CopyAt(r, at) == /\ call[r].at = at
                 /\ call' = [call EXCEPT ![r] =
                                [at |-> "armed", dl |-> deadline, notify |-> dlNotify]]
                 /\ UNCHANGED <<clock, pathVars, connVars>>

Read(r) == CopyAt(r, "idle")
CopyAgain(r) == CopyAt(r, "woken")

Return(r) == call' = [call EXCEPT ![r] = Idle]

\* Mutant: the channel is read when the wait begins, not with the deadline.
SelectOn(c) == [c EXCEPT !.at = "select", !.notify = dlNotify]

\* What the wait is for.
Select(c) == [c EXCEPT !.at = "select"]

\* A deadline that has passed ends the call; otherwise it waits.
Arm(r) == /\ call[r].at = "armed"
          /\ IF call[r].dl # NoDeadline /\ call[r].dl <= clock
             THEN Return(r)
             ELSE call' = [call EXCEPT ![r] = Select(@)]
          /\ UNCHANGED <<clock, pathVars, connVars>>

\* The select: whichever is ready, and any of those that are.
TakePacket(r) == /\ call[r].at = "select" /\ readCh > 0
                 /\ readCh' = readCh - 1
                 /\ Return(r)
                 /\ UNCHANGED <<clock, pathVars, closed, inner, deadline, dlNotify>>

\* Mutant: the closed connection is looked at before the wait, not in it.
SeeClosedEarly(r) == /\ call[r].at = "armed" /\ closed
                     /\ Return(r)
                     /\ UNCHANGED <<clock, pathVars, connVars>>

SeeClosed(r) == /\ call[r].at = "select" /\ closed
                /\ Return(r)
                /\ UNCHANGED <<clock, pathVars, connVars>>

TimeOut(r) == /\ call[r].at = "select" /\ call[r].dl # NoDeadline /\ call[r].dl <= clock
              /\ Return(r)
              /\ UNCHANGED <<clock, pathVars, connVars>>

\* Mutant: the deadline is copied once, before the loop.
NotifiedOnce(r) == /\ call[r].at = "select" /\ call[r].notify # dlNotify
                   /\ call' = [call EXCEPT ![r].at = "armed"]
                   /\ UNCHANGED <<clock, pathVars, connVars>>

Notified(r) == /\ call[r].at = "select" /\ call[r].notify # dlNotify
               /\ call' = [call EXCEPT ![r] = Woken]
               /\ UNCHANGED <<clock, pathVars, connVars>>

Wake(r) == TakePacket(r) \/ SeeClosed(r) \/ TimeOut(r) \/ Notified(r)
ReadFrom(r) == CopyAgain(r) \/ Arm(r) \/ Wake(r)
Owner == Close \/ CloseInner \/ \E t \in {NoDeadline} \cup 1..MaxTime : SetReadDeadline(t)
Path == Arrive \/ PumpFails \/ Deliver
Next == Tick \/ Path \/ Owner \/ \E r \in Reader : Read(r) \/ ReadFrom(r)

\* Time passes and goroutines are scheduled.  Nothing is assumed of the network,
\* of who closes the connection, or of who reads.
Spec == /\ Init /\ [][Next]_vars
        /\ WF_vars(Tick) /\ \A r \in Reader : WF_vars(ReadFrom(r))
-----------------------------------------------------------------------------
Instant == 0..MaxTime   \* a time, or NoDeadline
Call == [at : {"idle", "woken", "armed", "select"}, dl : Instant, notify : 0..MaxSet]

\* Every variable has a value of its type.
TypeOK ==
    /\ clock \in 1..MaxTime /\ arrived \in 0..MaxPacket /\ pump \in {"read", "gone"}
    /\ transit \in 0..MaxPacket /\ readCh \in 0..QueueCap
    /\ closed \in BOOLEAN /\ inner \in BOOLEAN
    /\ deadline \in Instant /\ dlNotify \in 0..MaxSet
    /\ call \in [Reader -> Call]

NoneStale == \A r \in Reader :
    call[r].at \in {"armed", "select"} => call[r].dl = deadline \/ call[r].notify # dlNotify

\* A reader never waits for a deadline that has been replaced unless a wake-up is
\* on its way to it, wherever between its copy and its wait the new one came.
NoStaleDeadline == TypeOK /\ NoneStale

Busy(r) == call[r].at # "idle"

\* No call of ReadFrom outlasts a deadline that stays: however the readers and
\* the setting of deadlines interleave, when its time has come the call returns.
DeadlineHonoured ==
    \A r \in Reader, t \in 1..MaxTime :
        Busy(r) /\ deadline = t /\ t <= clock ~> ~Busy(r) \/ deadline # t

\* No call of ReadFrom outlasts the connection.
CloseEndsReads == \A r \in Reader : closed /\ Busy(r) ~> ~Busy(r)
=============================================================================
