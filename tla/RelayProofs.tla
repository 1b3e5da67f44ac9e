----------------------------- MODULE RelayProofs -----------------------------
(* Proofs about the relay: GroupBuffer, for any readers, objects and group   *)
(* length, then RelayTree, for any tree of relays and any clients.           *)
EXTENDS GroupBuffer, RelayTree, SequenceTheorems, TLAPS

(* The inductive invariant.  A reader has written a prefix of the group, is  *)
(* about to write only where there is a next object, and has finished only   *)
(* at the seal; nobody sleeps past a wakeup.                                 *)
ReadsPrefix == \A r \in Reader :
    /\ Len(sent[r]) <= Len(objs)
    /\ \A i \in 1..Len(sent[r]) : sent[r][i] = objs[i]
WritesExisting == \A r \in Reader : at[r] = "write" => Len(sent[r]) < Len(objs)
FinishesAtSeal == \A r \in Reader :
    at[r] = "finished" => closed /\ Len(sent[r]) = Len(objs)

IInv == TypeOK /\ ReadsPrefix /\ WritesExisting /\ FinishesAtSeal /\ NoLostWakeup

(* A reader that has written as many objects as there are has written those. *)
LEMMA WholePrefix ==
  ASSUME TypeOK, ReadsPrefix, NEW r \in Reader, Len(sent[r]) = Len(objs)
  PROVE  sent[r] = objs
<1>1. objs \in Seq(Obj) /\ sent[r] \in Seq(Obj)
  BY DEF TypeOK
<1>2. \A i \in 1..Len(sent[r]) : sent[r][i] = objs[i]
  BY DEF ReadsPrefix
<1> QED
  BY <1>1, <1>2, SeqEqual

\* Nothing has happened yet: the invariant holds.
LEMMA InitInv == Init => IInv
<1> SUFFICES ASSUME Init PROVE IInv
    OBVIOUS
<1>1. TypeOK
  <2>1. objs \in Seq(Obj) /\ Len(objs) = 0
    BY DEF Init
  <2>2. closed = FALSE /\ ingest = "reading"
    BY DEF Init
  <2>3. at \in [Reader -> {"next", "waiting", "write", "finished", "gave_up"}]
    BY DEF Init
  <2>4. sent \in [Reader -> Seq(Obj)]
    BY DEF Init
  <2>5. Len(objs) <= MaxObj
    BY <2>1, MaxObjAssumption
  <2>6. closed \in BOOLEAN /\ ingest \in {"reading", "broadcast", "done"}
    BY <2>2
  <2>7. closed => ingest # "reading"
    BY <2>2
  <2> QED
    BY <2>1, <2>3, <2>4, <2>5, <2>6, <2>7 DEF TypeOK
<1>2. ReadsPrefix
  BY DEF Init, ReadsPrefix
<1>3. WritesExisting /\ FinishesAtSeal /\ NoLostWakeup
  BY DEF Init, WritesExisting, FinishesAtSeal, NoLostWakeup
<1> QED
  BY <1>1, <1>2, <1>3 DEF IInv

\* Every step of the ingest goroutine or of a writer keeps the invariant.
LEMMA NextInv == IInv /\ [Next]_vars => IInv'
<1> SUFFICES ASSUME IInv, [Next]_vars PROVE IInv'
    OBVIOUS
<1> USE DEF IInv, TypeOK, ReadsPrefix, WritesExisting, FinishesAtSeal, NoLostWakeup
<1>1. ASSUME NEW o \in Obj, AppendObj(o) PROVE IInv'
  <2>1. TypeOK'
    BY <1>1, MaxObjAssumption DEF AppendObj
  <2>2. ReadsPrefix'
    BY <1>1 DEF AppendObj
  <2>3. (WritesExisting /\ FinishesAtSeal)'
    BY <1>1 DEF AppendObj
  <2>4. NoLostWakeup'
    BY <1>1 DEF AppendObj
  <2> QED
    BY <2>1, <2>2, <2>3, <2>4
<1>2. CASE CloseGroup
  BY <1>2 DEF CloseGroup
<1>3. CASE Broadcast
  BY <1>3 DEF Broadcast
<1>4. ASSUME NEW r \in Reader, NextObject(r) PROVE IInv'
  BY <1>4 DEF NextObject
<1>5. ASSUME NEW r \in Reader, WriteObject(r) PROVE IInv'
  <2>1. Len(sent[r]) < Len(objs) /\ Len(sent[r]) + 1 \in 1..Len(objs)
    BY <1>5 DEF WriteObject
  <2>2. objs[Len(sent[r]) + 1] \in Obj
    BY <2>1
  <2>3. TypeOK'
    BY <1>5, <2>2 DEF WriteObject
  <2>4. ReadsPrefix'
    BY <1>5, <2>1, <2>2 DEF WriteObject
  <2>5. (WritesExisting /\ FinishesAtSeal /\ NoLostWakeup)'
    BY <1>5 DEF WriteObject
  <2> QED
    BY <2>3, <2>4, <2>5
<1>6. ASSUME NEW r \in Reader, WriteFails(r) PROVE IInv'
  BY <1>6 DEF WriteFails
<1>7. CASE UNCHANGED vars
  BY <1>7 DEF vars
<1> QED
  BY <1>1, <1>2, <1>3, <1>4, <1>5, <1>6, <1>7 DEF Next, Ingest, Read, Terminated

\* The invariant holds in every reachable state.
LEMMA Invariant == Spec => []IInv
<1>1. Init => IInv
  BY InitInv
<1>2. IInv /\ [Next]_vars => IInv'
  BY NextInv
<1> QED
  BY <1>1, <1>2, PTL DEF Spec

\* Every variable keeps its type, and nothing is read after the seal.
THEOREM TypeCorrect == Spec => []TypeOK
BY Invariant, PTL DEF IInv

\* No wakeup is lost, however many writers sleep on the group (relay.go:96-119).
THEOREM NoWakeupLost == Spec => []NoLostWakeup
BY Invariant, PTL DEF IInv

\* A stream closed cleanly carries exactly the group's objects (relay.go:229-240).
THEOREM FinishedWhole == Spec => []FinishedIsWhole
<1>1. IInv => FinishedIsWhole
  <2> SUFFICES ASSUME IInv, NEW r \in Reader, at[r] = "finished"
               PROVE closed /\ sent[r] = objs
    BY DEF FinishedIsWhole
  <2> QED
    BY WholePrefix DEF IInv, FinishesAtSeal
<1> QED
  BY <1>1, Invariant, PTL

\* GroupBuffer implements the abstract object log: to its readers the lock, the
\* condition variable and the window before the broadcast do not exist.
THEOREM Refinement == Spec => IsObjectLog
<1>1. Init => Log!LogInit
  BY DEF Init, Log!LogInit
<1>2. IInv /\ IInv' /\ [Next]_vars => [Log!LogNext]_Log!logVars
  <2> SUFFICES ASSUME IInv, IInv', [Next]_vars
               PROVE [Log!LogNext]_Log!logVars
    OBVIOUS
  <2> USE DEF IInv, TypeOK, Log!LogNext, Log!logVars
  <2>1. ASSUME NEW o \in Obj, AppendObj(o) PROVE Log!Extend(o)
    BY <2>1 DEF AppendObj, Log!Extend
  <2>2. CASE CloseGroup
    BY <2>2 DEF CloseGroup, Log!Seal
  <2>3. CASE Broadcast
    BY <2>3 DEF Broadcast
  <2>4. ASSUME NEW r \in Reader, NextObject(r) PROVE [Log!LogNext]_Log!logVars
    <3>1. CASE Len(sent[r]) = Len(objs) /\ closed
      <4>1. at' = [at EXCEPT ![r] = "finished"]
        <5>1. ~(Len(sent[r]) < Len(objs))
          BY <3>1
        <5> QED
          BY <2>4, <3>1, <5>1 DEF NextObject
      <4>2. sent[r] = objs
        BY <3>1, WholePrefix
      <4>3. Log!Finish(r)
        BY <2>4, <3>1, <4>1, <4>2 DEF NextObject, Log!Finish
      <4> QED
        BY <4>3
    <3>2. CASE ~(Len(sent[r]) = Len(objs) /\ closed)
      <4>1. at' = [at EXCEPT ![r] = "write"] \/ at' = [at EXCEPT ![r] = "waiting"]
        <5>1. CASE Len(sent[r]) < Len(objs)
          BY <2>4, <5>1 DEF NextObject
        <5>2. CASE ~(Len(sent[r]) < Len(objs))
          <6>1. ~closed
            BY <5>2, <3>2 DEF ReadsPrefix
          <6> QED
            BY <2>4, <5>2, <6>1 DEF NextObject
        <5> QED
          BY <5>1, <5>2
      <4> QED
        BY <2>4, <4>1 DEF NextObject
    <3> QED
      BY <3>1, <3>2
  <2>5. ASSUME NEW r \in Reader, WriteObject(r) PROVE Log!Deliver(r)
    BY <2>5 DEF WriteObject, WritesExisting, Log!Deliver
  <2>6. ASSUME NEW r \in Reader, WriteFails(r) PROVE Log!GiveUp(r)
    BY <2>6 DEF WriteFails, Log!GiveUp
  <2>7. CASE UNCHANGED vars
    BY <2>7 DEF vars
  <2> QED
    BY <2>1, <2>2, <2>3, <2>4, <2>5, <2>6, <2>7 DEF Next, Ingest, Read, Terminated
<1> QED
  BY <1>1, <1>2, Invariant, PTL DEF Spec, IsObjectLog, Log!LogSafety

-----------------------------------------------------------------------------
(* The inductive invariant.  The sourced flag is what ties the loops to the  *)
(* subscribers: a loop runs only under the flag, a served subscriber has     *)
(* raised it, and without a publisher of its own a relay raises it only by   *)
(* starting the loop.                                                        *)
LoopUnderFlag == \A r \in Relay : loops[r] > 0 => sourced[r]
FlagHasLoop == \A r \in Relay :
    sourced[r] /\ HasUpstream(r) /\ (\A p \in Publisher : Dials[p] # r) => loops[r] = 1
ServedRaised == \A c \in Client \ Publisher :
    Served(c) /\ HasUpstream(Dials[c]) => sourced[Dials[c]]

TreeInv == TreeTypeOK /\ LoopIsClient /\ LoopUnderFlag /\ FlagHasLoop /\ ServedRaised

\* No session is served and no loop runs.
LEMMA InitTree == TreeInit => TreeInv
BY TreeAssumption
   DEF TreeInit, TreeInv, TreeTypeOK, LoopIsClient, LoopUnderFlag, FlagHasLoop, ServedRaised, Served, HasUpstream

LEMMA RelayOfClient == ASSUME NEW c \in Client PROVE Dials[c] \in Relay
BY TreeAssumption

\* Every step keeps the invariant.
LEMMA NextTree == TreeInv /\ [TreeNext]_treeVars => TreeInv'
<1> SUFFICES ASSUME TreeInv, [TreeNext]_treeVars PROVE TreeInv'
    OBVIOUS
<1> USE TreeAssumption, RelayOfClient
    DEF TreeInv, TreeTypeOK, LoopIsClient, LoopUnderFlag, FlagHasLoop, ServedRaised, Served, HasUpstream
<1>1. ASSUME NEW c \in Client, Dial(c) \/ DialFails(c) \/ Answered(c) \/ Fails(c) \/ Retry(c)
      PROVE  TreeInv'
  <2>1. CASE Dial(c)
    BY <2>1 DEF Dial, relayVars, boundVars
  <2>2. CASE DialFails(c)
    BY <2>2 DEF DialFails, relayVars, boundVars
  <2>3. CASE Answered(c)
    BY <2>3 DEF Answered, relayVars, boundVars
  <2>4. CASE Fails(c)
    BY <2>4 DEF Fails, relayVars, boundVars
  <2>5. CASE Retry(c)
    BY <2>5 DEF Retry, relayVars, boundVars
  <2> QED
    BY <1>1, <2>1, <2>2, <2>3, <2>4, <2>5
<1>2. ASSUME NEW c \in Client, Announce(c) PROVE TreeInv'
  BY <1>2 DEF Announce, boundVars
<1>3. ASSUME NEW c \in Client, Subscribe(c) PROVE TreeInv'
  <2> DEFINE r == Dials[c]
  <2>1. CASE ~sourced[r] /\ HasUpstream(r)
    <3>1. /\ sourced' = [sourced EXCEPT ![r] = TRUE]
          /\ loops' = [loops EXCEPT ![r] = @ + 1]
          /\ client' = [client EXCEPT ![r] = "dial"]
          /\ session' = [session EXCEPT ![c] = "serving"]
          /\ UNCHANGED <<up, link, boundVars>>
      BY <1>3, <2>1 DEF Subscribe, EnsureSourced
    <3>2. loops[r] = 0 /\ client[r] = "off" /\ r \in Client /\ r \in Relay
      BY <2>1
    <3>3. link[r] = "none"
      BY <3>2
    <3>4. TreeTypeOK'
      BY <3>1, <3>2, <3>3 DEF boundVars
    <3>5. (LoopIsClient /\ LoopUnderFlag /\ FlagHasLoop)'
      BY <3>1, <3>2
    <3>6. ServedRaised'
      BY <3>1, <3>2
    <3> QED
      BY <3>4, <3>5, <3>6
  <2>2. CASE ~(~sourced[r] /\ HasUpstream(r))
    <3>1. /\ session' = [session EXCEPT ![c] = "serving"]
          /\ UNCHANGED <<up, sourced, loops, client, link, boundVars>>
      BY <1>3, <2>2 DEF Subscribe, EnsureSourced
    <3> QED
      BY <2>2, <3>1 DEF boundVars
  <2> QED
    BY <2>1, <2>2
<1>4. ASSUME NEW c \in Client, SessionEnds(c) PROVE TreeInv'
  BY <1>4 DEF SessionEnds, relayVars, boundVars
<1>5. ASSUME NEW c \in Client, Break(c) PROVE TreeInv'
  BY <1>5 DEF Break, relayVars
<1>6. ASSUME NEW r \in Relay, Crash(r) PROVE TreeInv'
  <2>1. TreeTypeOK'
    BY <1>6 DEF Crash
  <2>2. LoopIsClient'
    BY <1>6 DEF Crash
  <2>3. (LoopUnderFlag /\ FlagHasLoop)'
    BY <1>6 DEF Crash
  <2>4. ServedRaised'
    BY <1>6 DEF Crash
  <2> QED
    BY <2>1, <2>2, <2>3, <2>4
<1>7. ASSUME NEW r \in Relay, Restart(r) PROVE TreeInv'
  BY <1>7 DEF Restart, clientVars, boundVars
<1>8. ASSUME NEW p \in Publisher, Leave(p) PROVE TreeInv'
  BY <1>8 DEF Leave, relayVars
<1>9. CASE UNCHANGED treeVars
  BY <1>9 DEF treeVars, relayVars, clientVars, boundVars
<1> QED
  BY <1>1, <1>2, <1>3, <1>4, <1>5, <1>6, <1>7, <1>8, <1>9 DEF TreeNext, ClientStep, ServerStep

LEMMA TreeInvariant == Safety => []TreeInv
BY InitTree, NextTree, PTL DEF Safety

\* At most one upstream loop per track and relay, for any number of subscribers
\* that ask for the track together (relay.go:397-406).
THEOREM SinglePull == Safety => []OnePull
<1>1. TreeInv => OnePull
  BY DEF TreeInv, OnePull
<1> QED
  BY <1>1, TreeInvariant, PTL

\* A relay that serves a subscriber and has no publisher of its own is pulling
\* the track, through any crashes and restarts (relay.go:9, 372).
THEOREM PullThrough == Safety => []ServedIsPulled
<1>1. TreeInv => ServedIsPulled
  BY RelayOfClient DEF TreeInv, ServedRaised, FlagHasLoop, ServedIsPulled
<1> QED
  BY <1>1, TreeInvariant, PTL
=============================================================================
