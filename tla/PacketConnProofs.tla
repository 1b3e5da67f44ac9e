--------------------------- MODULE PacketConnProofs ---------------------------
(* What is proved about PacketConn for any readers, queue, packets and times. *)
EXTENDS PacketConn, TLAPS

\* A reader that has copied the deadline holds a channel that was made by then,
\* so that the channel of every later deadline differs from it.
Copied(r) == call[r].at \in {"armed", "select"}
CopyIsOld == \A r \in Reader : Copied(r) => call[r].notify <= dlNotify

\* Packets are where TypeOK bounds them because none comes from nowhere.
NoneFromNowhere == transit + readCh <= arrived

\* The inductive invariant.
IInv == TypeOK /\ NoneFromNowhere /\ CopyIsOld /\ NoneStale

\* What a call may be, over its fields.
LEMMA CallType ==
    ASSUME NEW c \in Call
    PROVE  /\ c.at \in {"idle", "woken", "armed", "select"}
           /\ c.dl \in Instant /\ c.notify \in 0..MaxSet
  BY DEF Call

LEMMA CallMade ==
    ASSUME NEW at \in {"idle", "woken", "armed", "select"}, NEW dl \in Instant,
           NEW n \in 0..MaxSet
    PROVE  [at |-> at, dl |-> dl, notify |-> n] \in Call
  BY DEF Call

LEMMA BlankType == Idle \in Call /\ Woken \in Call
  BY PacketConnAssumption DEF Call, Idle, Woken, Blank, NoDeadline, Instant

LEMMA InitOK == Init => IInv
<1> SUFFICES ASSUME Init PROVE IInv
  OBVIOUS
<1>1. call \in [Reader -> Call]
  BY BlankType DEF Init
<1>2. TypeOK
  <2>1. clock \in 1..MaxTime /\ deadline \in Instant /\ dlNotify \in 0..MaxSet
    BY PacketConnAssumption DEF Init, Instant, NoDeadline
  <2>2. arrived \in 0..MaxPacket /\ transit \in 0..MaxPacket /\ readCh \in 0..QueueCap
    BY PacketConnAssumption DEF Init
  <2>3. pump \in {"read", "gone"} /\ closed \in BOOLEAN /\ inner \in BOOLEAN
    BY DEF Init
  <2> QED
    BY <1>1, <2>1, <2>2, <2>3 DEF TypeOK
<1>3. NoneFromNowhere
  BY DEF Init, NoneFromNowhere
<1>4. CopyIsOld /\ NoneStale
  BY DEF Init, CopyIsOld, Copied, NoneStale, Idle, Blank
<1> QED
  BY <1>2, <1>3, <1>4 DEF IInv

\* Time, the path and Close touch neither deadlines nor calls.
LEMMA PathStep ==
    ASSUME IInv, Tick \/ Path \/ Close \/ CloseInner
    PROVE  IInv'
<1>1. UNCHANGED <<deadline, dlNotify, call>>
  BY DEF Tick, Path, Arrive, PumpFails, Deliver, Close, CloseInner, pathVars, connVars
<1>2. clock' \in 1..MaxTime
  BY PacketConnAssumption
     DEF IInv, TypeOK, Tick, Path, Arrive, PumpFails, Deliver, Close, CloseInner
<1>3. pump' \in {"read", "gone"} /\ closed' \in BOOLEAN /\ inner' \in BOOLEAN
  BY DEF IInv, TypeOK, Tick, Path, Arrive, PumpFails, Deliver, Close, CloseInner, pathVars, connVars
<1>4. /\ arrived' \in 0..MaxPacket /\ transit' \in 0..MaxPacket /\ readCh' \in 0..QueueCap
      /\ transit' + readCh' <= arrived'
  BY PacketConnAssumption
     DEF IInv, TypeOK, NoneFromNowhere, Tick, Path, Arrive, PumpFails, Deliver, Close, CloseInner,
         pathVars, connVars
<1>5. TypeOK' /\ NoneFromNowhere'
  BY <1>1, <1>2, <1>3, <1>4 DEF IInv, TypeOK, NoneFromNowhere
<1>6. CopyIsOld' /\ NoneStale'
  BY <1>1 DEF IInv, CopyIsOld, Copied, NoneStale
<1> QED
  BY <1>5, <1>6 DEF IInv

\* A new deadline comes with a channel that no reader has copied.
LEMMA SetStep ==
    ASSUME IInv, NEW t \in Instant, SetReadDeadline(t)
    PROVE  IInv'
<1>1. /\ deadline' = t /\ dlNotify < MaxSet /\ dlNotify' = dlNotify + 1
      /\ UNCHANGED <<clock, arrived, pump, transit, readCh, closed, inner, call>>
  BY DEF SetReadDeadline, pathVars
<1>2. dlNotify \in Nat /\ dlNotify' \in 0..MaxSet
  BY <1>1, PacketConnAssumption DEF IInv, TypeOK
<1>3. TypeOK' /\ NoneFromNowhere'
  BY <1>1, <1>2 DEF IInv, TypeOK, NoneFromNowhere
<1>4. ASSUME NEW r \in Reader, Copied(r)'
      PROVE  call'[r].notify <= dlNotify' /\ call'[r].notify # dlNotify'
  <2>1. Copied(r) /\ call'[r] = call[r]
    BY <1>1, <1>4 DEF Copied
  <2>2. call[r].notify \in Nat /\ call[r].notify <= dlNotify
    BY <2>1, CallType DEF IInv, TypeOK, CopyIsOld
  <2> QED
    BY <1>1, <1>2, <2>1, <2>2
<1>5. CopyIsOld' /\ NoneStale'
  BY <1>4 DEF CopyIsOld, NoneStale, Copied
<1> QED
  BY <1>3, <1>5 DEF IInv

\* Taking packets from the queue keeps it within its bounds.
LEMMA FewerPackets ==
    ASSUME NEW cap \in Nat, NEW old \in 0..cap, NEW new \in 0..old,
           NEW t \in Nat, NEW a \in Nat, t + old <= a
    PROVE  new \in 0..cap /\ t + new <= a
  OBVIOUS

\* A step of one reader, told by the call it leaves behind: as it was but further
\* on, just copied, or blank.
LEMMA CallStep ==
    ASSUME IInv, NEW r \in Reader, NEW c \in Call,
           call' = [call EXCEPT ![r] = c],
           UNCHANGED <<clock, arrived, pump, transit, closed, inner, deadline, dlNotify>>,
           readCh' \in 0..readCh,
           \/ c.at \in {"idle", "woken"}
           \/ Copied(r) /\ c.dl = call[r].dl /\ c.notify = call[r].notify
           \/ c.dl = deadline /\ c.notify = dlNotify
    PROVE  IInv'
<1>1. call' \in [Reader -> Call]
  BY DEF IInv, TypeOK
<1>2. TypeOK' /\ NoneFromNowhere'
  <2>1. /\ QueueCap \in Nat /\ arrived \in Nat /\ transit \in Nat /\ readCh \in 0..QueueCap
        /\ transit + readCh <= arrived
    BY PacketConnAssumption DEF IInv, TypeOK, NoneFromNowhere
  <2>2. readCh' \in 0..QueueCap /\ transit + readCh' <= arrived
    BY <2>1, FewerPackets, PacketConnAssumption
  <2>3. transit' = transit /\ arrived' = arrived
    OBVIOUS
  <2>4. NoneFromNowhere'
    BY <2>2, <2>3 DEF NoneFromNowhere
  <2>5. TypeOK'
    BY <1>1, <2>2 DEF IInv, TypeOK
  <2> QED
    BY <2>4, <2>5
<1>3. ASSUME NEW q \in Reader, Copied(q)'
      PROVE  /\ call'[q].notify <= dlNotify'
             /\ call'[q].dl = deadline' \/ call'[q].notify # dlNotify'
  <2>1. CASE q # r
    <3>1. call'[q] = call[q] /\ Copied(q)
      BY <2>1, <1>3 DEF IInv, TypeOK, Copied
    <3> QED
      BY <3>1 DEF IInv, CopyIsOld, NoneStale, Copied
  <2>2. CASE q = r
    <3>1. call'[q] = c /\ c.at \in {"armed", "select"}
      BY <2>2, <1>3 DEF IInv, TypeOK, Copied
    <3>2. dlNotify \in Nat
      BY DEF IInv, TypeOK
    <3>3. CASE Copied(r) /\ c.dl = call[r].dl /\ c.notify = call[r].notify
      BY <3>1, <3>3 DEF IInv, CopyIsOld, NoneStale, Copied
    <3>4. CASE c.dl = deadline /\ c.notify = dlNotify
      BY <3>1, <3>2, <3>4
    <3> QED
      BY <3>1, <3>3, <3>4
  <2> QED
    BY <2>1, <2>2
<1>4. CopyIsOld' /\ NoneStale'
  BY <1>3 DEF CopyIsOld, NoneStale, Copied
<1> QED
  BY <1>2, <1>4 DEF IInv

LEMMA ReaderStep ==
    ASSUME IInv, NEW r \in Reader, Read(r) \/ ReadFrom(r)
    PROVE  IInv'
<1>1. call[r] \in Call /\ deadline \in Instant /\ dlNotify \in 0..MaxSet /\ readCh \in Nat
  BY DEF IInv, TypeOK
<1>2. readCh \in 0..readCh
  BY <1>1
<1>3. CASE CopyAt(r, "idle") \/ CopyAt(r, "woken")
  <2> DEFINE c == [at |-> "armed", dl |-> deadline, notify |-> dlNotify]
  <2>1. c \in Call
    BY <1>1, CallType, CallMade
  <2>2. /\ call' = [call EXCEPT ![r] = c]
        /\ UNCHANGED <<clock, arrived, pump, transit, readCh, closed, inner, deadline, dlNotify>>
    BY <1>3 DEF CopyAt, pathVars, connVars
  <2>3. c.dl = deadline /\ c.notify = dlNotify
    OBVIOUS
  <2> HIDE DEF c
  <2> QED
    BY <1>2, <2>1, <2>2, <2>3, CallStep
<1>4. CASE Arm(r) /\ call' = [call EXCEPT ![r] = Select(@)]
  <2> DEFINE c == [at |-> "select", dl |-> call[r].dl, notify |-> call[r].notify]
  <2>1. c \in Call
    BY <1>1, CallType, CallMade
  <2>2. Select(call[r]) = c
    BY <1>1 DEF Select, Call
  <2>3. /\ call' = [call EXCEPT ![r] = c]
        /\ UNCHANGED <<clock, arrived, pump, transit, readCh, closed, inner, deadline, dlNotify>>
    BY <1>4, <2>2 DEF Arm, pathVars, connVars
  <2>4. Copied(r)
    BY <1>4 DEF Arm, Copied
  <2>5. c.dl = call[r].dl /\ c.notify = call[r].notify
    OBVIOUS
  <2> HIDE DEF c
  <2> QED
    BY <1>2, <2>1, <2>3, <2>4, <2>5, CallStep
<1>5. CASE \/ Arm(r) /\ Return(r)
           \/ SeeClosed(r) \/ TimeOut(r) \/ Notified(r) \/ TakePacket(r)
  <2>1. /\ call' = [call EXCEPT ![r] = Idle] \/ call' = [call EXCEPT ![r] = Woken]
        /\ UNCHANGED <<clock, arrived, pump, transit, closed, inner, deadline, dlNotify>>
    BY <1>5 DEF Arm, Return, SeeClosed, TimeOut, Notified, TakePacket, pathVars, connVars
  <2>2. readCh' \in 0..readCh
    BY <1>1, <1>5 DEF Arm, SeeClosed, TimeOut, Notified, TakePacket, pathVars, connVars
  <2>3. Idle.at = "idle" /\ Woken.at = "woken"
    BY DEF Idle, Woken, Blank
  <2> QED
    BY <2>1, <2>2, <2>3, BlankType, CallStep
<1> QED
  BY <1>3, <1>4, <1>5 DEF Read, ReadFrom, CopyAgain, Wake, Arm

LEMMA Inductive == IInv /\ [Next]_vars => IInv'
<1> SUFFICES ASSUME IInv, [Next]_vars PROVE IInv'
  OBVIOUS
<1>1. CASE Tick \/ Path \/ Close \/ CloseInner
  BY <1>1, PathStep
<1>2. ASSUME NEW t \in {NoDeadline} \cup 1..MaxTime, SetReadDeadline(t) PROVE IInv'
  BY <1>2, SetStep, PacketConnAssumption DEF Instant, NoDeadline
<1>3. ASSUME NEW r \in Reader, Read(r) \/ ReadFrom(r) PROVE IInv'
  BY <1>3, ReaderStep
<1>4. CASE UNCHANGED vars
  BY <1>4 DEF vars, pathVars, connVars, IInv, TypeOK, NoneFromNowhere, CopyIsOld, Copied,
              NoneStale
<1> QED
  BY <1>1, <1>2, <1>3, <1>4 DEF Next, Owner

THEOREM Invariance == Spec => []IInv
<1> QED
  BY InitOK, Inductive, PTL DEF Spec

\* Every variable has a value of its type; the receive queue never holds more
\* than its capacity.
THEOREM TypeCorrect == Spec => []TypeOK
  BY Invariance, PTL DEF IInv

\* However readers and setters of deadlines interleave, no reader of ReadFrom
\* waits for a deadline that was replaced without its wake-up being on the way.
THEOREM NeverStale == Spec => []NoStaleDeadline
<1>1. IInv => NoStaleDeadline
  BY DEF IInv, NoStaleDeadline
<1> QED
  BY <1>1, Invariance, PTL
=============================================================================
