----------------------------- MODULE ShaperProofs -----------------------------
(* The emulated link, for any number of senders, any finite set of profiles, *)
(* any queue bound, and any bound on packets and time.                       *)
EXTENDS Shaper, SequenceTheorems, FiniteSetTheorems, WellFoundedInduction, TLAPS

\* The constants, one by one.
LEMMA Bounds == /\ MaxQueue \in Nat /\ MaxPacket \in Nat /\ MaxTime \in Nat /\ Changes \in Nat
                /\ LastSend \in Nat
  BY ShaperAssumption

LEMMA ProfileType == ASSUME NEW p \in Profiles
                     PROVE  p.delay \in Nat /\ p.jitter \in Nat /\ p.tx \in Nat
  BY ShaperAssumption

\* A set of numbers has a smallest one.
LEMMA Smallest ==
  ASSUME NEW T \in SUBSET Nat, T # {}
  PROVE  \E x \in T : \A y \in T : x <= y
<1>1. PICK x \in T : \A y \in T : <<y, x>> \notin OpToRel(<, Nat)
  BY NatLessThanWellFounded, WFMin
<1>2. \A y \in T : ~(y < x)
  BY <1>1 DEF OpToRel
<1> QED
  BY <1>2

LEMMA MinEffect ==
  ASSUME NEW T \in SUBSET Nat, T # {}
  PROVE  Min(T) \in T /\ \A y \in T : Min(T) <= y
  BY Smallest DEF Min

\* A finite set of numbers has a largest one: a smallest set without one would
\* still have none with any element less.
LEMMA MaxEffect ==
  ASSUME NEW T \in SUBSET Nat, IsFiniteSet(T), T # {}
  PROVE  Max(T) \in T /\ \A y \in T : y <= Max(T)
<1> DEFINE Tops(S) == \E x \in S : \A y \in S : x >= y
           Wrong == {n \in Nat : \E S \in SUBSET Nat : /\ IsFiniteSet(S) /\ S # {}
                                                       /\ Cardinality(S) = n /\ ~Tops(S)}
<1>1. Wrong = {}
  <2> SUFFICES ASSUME Wrong # {} PROVE FALSE
    OBVIOUS
  <2>1. PICK n \in Wrong : \A m \in Wrong : n <= m
    BY Smallest
  <2>2. PICK S \in SUBSET Nat : IsFiniteSet(S) /\ S # {} /\ Cardinality(S) = n /\ ~Tops(S)
    OBVIOUS
  <2>3. PICK x \in S : TRUE
    BY <2>2
  <2>4. IsFiniteSet(S \ {x}) /\ Cardinality(S \ {x}) = n - 1 /\ n \in Nat
    BY <2>2, <2>3, FS_RemoveElement, FS_CardinalityType
  <2>5. Cardinality(S \ {x}) \in Nat
    BY <2>4, FS_CardinalityType
  <2>6. n - 1 \notin Wrong
    BY <2>1, <2>4
  <2>7. S \ {x} = {} \/ Tops(S \ {x})
    BY <2>4, <2>5, <2>6
  <2>8. CASE S \ {x} = {}
    <3>1. \A y \in S : y = x
      BY <2>8
    <3> QED
      BY <2>2, <2>3, <3>1
  <2>9. CASE Tops(S \ {x})
    <3>1. PICK z \in S \ {x} : \A y \in S \ {x} : z >= y
      BY <2>9
    <3>2. CASE z >= x
      BY <2>2, <3>1, <3>2
    <3>3. CASE ~(z >= x)
      <4>1. \A y \in S : x >= y
        BY <2>3, <3>1, <3>3
      <4> QED
        BY <2>2, <2>3, <4>1
    <3> QED
      BY <3>2, <3>3
  <2> QED
    BY <2>7, <2>8, <2>9
<1>2. Cardinality(T) \in Nat
  BY FS_CardinalityType
<1>3. Tops(T)
  BY <1>1, <1>2
<1>4. PICK x \in T : \A y \in T : x >= y
  BY <1>3
<1>5. Max(T) \in T /\ \A y \in T : Max(T) >= y
  BY <1>4 DEF Max
<1> QED
  BY <1>5
-----------------------------------------------------------------------------
(* The heap's order.  Entries with different sequence numbers are totally    *)
(* ordered, so a finite set of them has one enumeration.                     *)
Queued == [id : Nat, due : Nat, seq : Nat]
SeqsDiffer(S) == \A e, f \in S : e.seq = f.seq => e = f
Sorted(q, n) == \A i, j \in 1..n : i < j => Before(q[i], q[j])

\* There is a first entry.
LEMMA FirstExists ==
  ASSUME NEW S \in SUBSET Queued, S # {}, SeqsDiffer(S)
  PROVE  \E e \in S : \A f \in S \ {e} : Before(e, f)
<1> DEFINE D == {e.due : e \in S}
<1>1. D \in SUBSET Nat /\ D # {}
  BY DEF Queued
<1>2. PICK d \in D : \A y \in D : d <= y
  BY <1>1, Smallest
<1> DEFINE N == {e.seq : e \in {f \in S : f.due = d}}
<1>3. N \in SUBSET Nat /\ N # {}
  BY DEF Queued
<1>4. PICK n \in N : \A y \in N : n <= y
  BY <1>3, Smallest
<1>5. PICK e \in S : e.due = d /\ e.seq = n
  OBVIOUS
<1>6. ASSUME NEW f \in S \ {e} PROVE Before(e, f)
  <2>1. /\ f.due \in Nat /\ f.seq \in Nat /\ e.due \in Nat /\ e.seq \in Nat
        /\ e.due <= f.due /\ f.seq # e.seq
    BY <1>2, <1>5 DEF Queued, SeqsDiffer
  <2>2. f.due = e.due => e.seq <= f.seq
    BY <1>4, <1>5
  <2> QED
    BY <2>1, <2>2 DEF Before
<1> QED
  BY <1>6

LEMMA SortedExists ==
  ASSUME NEW T \in SUBSET Queued, IsFiniteSet(T), SeqsDiffer(T)
  PROVE  \E q \in [1..Cardinality(T) -> T] : Sorted(q, Cardinality(T))
<1> DEFINE Has(S) == \E q \in [1..Cardinality(S) -> S] : Sorted(q, Cardinality(S))
           Wrong == {n \in Nat : \E S \in SUBSET Queued : /\ IsFiniteSet(S) /\ SeqsDiffer(S)
                                                          /\ Cardinality(S) = n /\ ~Has(S)}
<1>1. Wrong = {}
  <2> SUFFICES ASSUME Wrong # {} PROVE FALSE
    OBVIOUS
  <2>1. PICK n \in Wrong : \A m \in Wrong : n <= m
    BY Smallest
  <2>2. PICK S \in SUBSET Queued : IsFiniteSet(S) /\ SeqsDiffer(S) /\ Cardinality(S) = n /\ ~Has(S)
    OBVIOUS
  <2>3. n # 0
    <3> SUFFICES ASSUME n = 0 PROVE FALSE
      OBVIOUS
    <3> DEFINE q == [i \in 1..0 |-> i]
    <3>1. q \in [1..0 -> S] /\ \A i, j \in 1..0 : i < j => Before(q[i], q[j])
      OBVIOUS
    <3> QED
      BY <2>2, <3>1 DEF Sorted
  <2>4. S # {}
    BY <2>2, <2>3, FS_EmptySet
  <2>5. PICK e \in S : \A f \in S \ {e} : Before(e, f)
    BY <2>2, <2>4, FirstExists
  <2>6. IsFiniteSet(S \ {e}) /\ Cardinality(S \ {e}) = n - 1 /\ n - 1 \in Nat
    BY <2>2, <2>3, <2>5, FS_RemoveElement
  <2>7. Has(S \ {e})
    <3>1. SeqsDiffer(S \ {e})
      BY <2>2 DEF SeqsDiffer
    <3>2. n - 1 \notin Wrong
      BY <2>1, <2>6
    <3> QED
      BY <2>6, <3>1, <3>2
  <2>8. PICK p \in [1..(n - 1) -> S \ {e}] : Sorted(p, n - 1)
    BY <2>6, <2>7
  <2> DEFINE q == [i \in 1..n |-> IF i = 1 THEN e ELSE p[i - 1]]
  <2>9. \A i \in 1..n : i # 1 => i - 1 \in 1..(n - 1)
    OBVIOUS
  <2>10. q \in [1..n -> S]
    BY <2>5, <2>8, <2>9
  <2>11. ASSUME NEW i \in 1..n, NEW j \in 1..n, i < j PROVE Before(q[i], q[j])
    <3>1. q[j] = p[j - 1] /\ j - 1 \in 1..(n - 1)
      BY <2>9, <2>11
    <3>2. CASE i = 1
      <4>1. p[j - 1] \in S \ {e}
        BY <2>8, <3>1
      <4> QED
        BY <2>5, <3>1, <3>2, <4>1
    <3>3. CASE i # 1
      <4>1. q[i] = p[i - 1] /\ i - 1 \in 1..(n - 1) /\ i - 1 < j - 1
        BY <2>9, <2>11, <3>3
      <4> QED
        BY <2>8, <3>1, <4>1 DEF Sorted
    <3> QED
      BY <3>2, <3>3
  <2>12. Sorted(q, n)
    BY <2>11 DEF Sorted
  <2> HIDE DEF q
  <2> QED
    BY <2>2, <2>10, <2>12
<1>2. Cardinality(T) \in Nat
  BY FS_CardinalityType
<1> QED
  BY <1>1, <1>2

\* What pops out of the heap: all that is due, once, in the heap's order.
LEMMA InOrderEffect ==
  ASSUME NEW T \in SUBSET Queued, IsFiniteSet(T), SeqsDiffer(T)
  PROVE  /\ InOrder(T) \in Seq(T)
         /\ Len(InOrder(T)) = Cardinality(T)
         /\ ToSet(InOrder(T)) = T
         /\ Sorted(InOrder(T), Cardinality(T))
<1>1. PICK n \in Nat : n = Cardinality(T)
  BY FS_CardinalityType
<1>2. \E q \in [1..n -> T] : \A i, j \in DOMAIN q : i < j => Before(q[i], q[j])
  <2>1. PICK q \in [1..n -> T] : Sorted(q, n)
    BY <1>1, SortedExists
  <2>2. DOMAIN q = 1..n
    OBVIOUS
  <2> QED
    BY <2>1, <2>2 DEF Sorted
<1>3. PICK q : q = InOrder(T)
  OBVIOUS
<1>4. q \in [1..n -> T] /\ \A i, j \in DOMAIN q : i < j => Before(q[i], q[j])
  BY <1>1, <1>2, <1>3 DEF InOrder
<1>5. q \in Seq(T) /\ Len(q) = n
  BY <1>4
<1>6. Sorted(q, n)
  BY <1>4 DEF Sorted
<1>7. q \in Injection(1..n, T)
  <2> SUFFICES ASSUME NEW i \in 1..n, NEW j \in 1..n, i < j PROVE q[i] # q[j]
    BY <1>4 DEF Injection, IsInjective
  <2>1. Before(q[i], q[j])
    BY <1>6 DEF Sorted
  <2>2. q[i].due \in Nat /\ q[i].seq \in Nat
    BY <1>4 DEF Queued
  <2> QED
    BY <2>1, <2>2 DEF Before
<1>8. q \in Surjection(1..n, T)
  <2>1. IsFiniteSet(1..n) /\ Cardinality(1..n) = n
    BY FS_Interval
  <2> QED
    BY <1>1, <1>7, <2>1, FS_Injection
<1>9. ToSet(q) = T
  BY <1>4, <1>8 DEF Surjection, ToSet
<1> QED
  BY <1>1, <1>3, <1>5, <1>6, <1>9
-----------------------------------------------------------------------------
(* Type correctness.  A queued packet's sequence number is a packet's        *)
(* because there are no more of them than packets that passed the lock, and  *)
(* with the senders before the lock no more than were sent.                  *)
Locking == {s \in Sender : call[s].at = "lock"}
OrderRec == [id : Packet, due : Nat, slot : Nat, tx : Nat, fast : BOOLEAN]
HeapRec == [id : Packet, due : Nat, seq : Packet]
Calls == {Idle} \cup [at : {"lock"}, id : Packet, prof : Profiles, now : 0..MaxTime]
                \cup [at : {"fast", "wake"}, id : Packet]

CountInv ==
    /\ IsFiniteSet(heap) /\ IsFiniteSet(Locking) /\ IsFiniteSet(Passing)
    /\ Len(order) + Cardinality(Locking) <= sends
    /\ seq <= Len(order)

QueueInv == SeqsDiffer(heap) /\ \A e \in heap : e.seq <= seq

TimeInv ==
    /\ lnow <= clock
    /\ \A s \in Locking : call[s].now <= clock
    /\ lpc # "deliver" => ready = <<>>

Base == TypeOK /\ call \in [Sender -> Calls] /\ CountInv /\ QueueInv /\ TimeInv

LEMMA CallType ==
  ASSUME NEW c \in Calls
  PROVE  /\ c.at \in {"idle", "lock", "fast", "wake"}
         /\ c.at = "idle" => c = Idle
         /\ c.at = "lock" => c \in [at : {"lock"}, id : Packet, prof : Profiles, now : 0..MaxTime]
         /\ c.at \in {"fast", "wake"} => c \in [at : {"fast", "wake"}, id : Packet]
  BY DEF Calls, Idle

\* One sender's call changes.
LEMMA CallSet ==
  ASSUME call \in [Sender -> Calls], NEW s \in Sender, NEW c \in Calls,
         call' = [call EXCEPT ![s] = c]
  PROVE  /\ call' \in [Sender -> Calls]
         /\ call'[s] = c
         /\ \A t \in Sender : t # s => call'[t] = call[t]
         /\ Locking' = IF c.at = "lock" THEN Locking \cup {s} ELSE Locking \ {s}
         /\ Passing' = IF c.at = "fast" THEN Passing \cup {s} ELSE Passing \ {s}
<1>1. /\ call' \in [Sender -> Calls]
      /\ call'[s] = c
      /\ \A t \in Sender : t # s => call'[t] = call[t]
  OBVIOUS
<1>2. Locking' = IF c.at = "lock" THEN Locking \cup {s} ELSE Locking \ {s}
  BY <1>1 DEF Locking
<1>3. Passing' = IF c.at = "fast" THEN Passing \cup {s} ELSE Passing \ {s}
  BY <1>1 DEF Passing
<1> QED
  BY <1>1, <1>2, <1>3

\* The calls have their types one by one.
LEMMA CallsOK ==
  ASSUME NEW f \in [Sender -> Calls]
  PROVE  \A s \in Sender : \/ f[s] = Idle
                           \/ f[s] \in [at : {"lock"}, id : Packet, prof : Profiles, now : 0..MaxTime]
                           \/ f[s] \in [at : {"fast", "wake"}, id : Packet]
  BY DEF Calls

\* Where the loop is, what it has read, and the timer.
LEMMA InitBase == Init => Base
<1> SUFFICES ASSUME Init PROVE Base
  OBVIOUS
<1>1. call = [s \in Sender |-> Idle]
  BY DEF Init
<1>2. call \in [Sender -> Calls]
  BY <1>1 DEF Calls
<1>3. Locking = {} /\ Passing = {}
  BY <1>1 DEF Locking, Passing, Idle
<1>4. CountInv
  <2>1. heap = {} /\ order = <<>> /\ sends = 0 /\ seq = 0
    BY DEF Init
  <2>2. Len(order) = 0
    BY <2>1
  <2> QED
    BY <1>3, <2>1, <2>2, FS_EmptySet DEF CountInv
<1>5. QueueInv
  BY DEF Init, QueueInv, SeqsDiffer
<1>6. TimeInv
  BY <1>3 DEF Init, TimeInv
<1>7. TypeOK
  <2>1. /\ clock \in 0..MaxTime /\ changes \in 0..Changes /\ seq \in 0..MaxPacket
        /\ sends \in 0..MaxPacket /\ lnow \in 0..MaxTime /\ timer \in 0..Hour /\ wait \in Nat \ {0}
    BY Bounds DEF Init, Hour
  <2>2. /\ order \in Seq(OrderRec) /\ ready \in Seq(HeapRec) /\ out \in Seq(Packet)
        /\ heap \subseteq HeapRec
    BY DEF Init
  <2>3. /\ profile \in Profiles /\ closed \in BOOLEAN /\ wake \in BOOLEAN /\ nextFree \in Nat
        /\ lpc \in {"look", "lock", "deliver", "wait", "gone"}
    BY DEF Init
  <2> QED
    BY <1>2, <2>1, <2>2, <2>3, CallsOK DEF TypeOK, OrderRec, HeapRec
<1> QED
  BY <1>2, <1>4, <1>5, <1>6, <1>7 DEF Base

\* What passing the lock does.
LEMMA AdmitEffect ==
  ASSUME Base, NEW s \in Sender, Admit(s)
  PROVE  \E o \in OrderRec :
            /\ order' = Append(order, o)
            /\ s \in Locking /\ o.id = call[s].id
            /\ o.slot = Slot(call[s]) /\ o.tx = call[s].prof.tx /\ ~Full(call[s])
            /\ nextFree' = IF o.tx > 0 THEN o.slot + o.tx ELSE nextFree
            /\ o.fast => /\ o.due <= call[s].now /\ heap' = heap /\ seq' = seq
                         /\ call' = [call EXCEPT ![s] = [at |-> "fast", id |-> o.id]]
            /\ ~o.fast => /\ heap' = heap \cup {[id |-> o.id, due |-> o.due, seq |-> seq + 1]}
                          /\ seq' = seq + 1
                          /\ call' = [call EXCEPT ![s] = [at |-> "wake", id |-> o.id]]
            /\ UNCHANGED <<envVars, wake, sends, loopVars, out>>
<1>1. PICK c \in Calls : c = call[s]
  BY DEF Base
<1>2. c.at = "lock" /\ ~Full(c) /\ \E d \in Delays(c) : Accept(c, Slot(c) + d)
  BY <1>1 DEF Admit
<1>3. c.id \in Packet /\ c.prof \in Profiles /\ c.now \in Nat
  BY <1>2, CallType, Bounds
<1>4. c.prof.delay \in Nat /\ c.prof.jitter \in Nat /\ c.prof.tx \in Nat
  BY <1>3, ProfileType
<1>5. Slot(c) \in Nat
  BY <1>3 DEF Slot, Free, Base, TypeOK
<1>6. PICK d \in Delays(c) : Accept(c, Slot(c) + d)
  BY <1>2
<1>7. Slot(c) + d \in Nat
  BY <1>4, <1>5 DEF Delays
<1>8. PICK due \in Nat : due = Slot(c) + d
  BY <1>7
<1>9. PICK o : o = [id |-> c.id, due |-> due, slot |-> Slot(c), tx |-> c.prof.tx,
                    fast |-> due <= c.now /\ heap = {}]
  OBVIOUS
<1>10. o \in OrderRec
  BY <1>3, <1>4, <1>5, <1>9 DEF OrderRec
<1>11. /\ order' = Append(order, o)
       /\ nextFree' = IF o.tx > 0 THEN o.slot + o.tx ELSE nextFree
  BY <1>6, <1>8, <1>9 DEF Accept, Capped
<1>12. o.fast = (due <= c.now /\ heap = {})
  BY <1>9
<1>13. CASE o.fast
  <2>1. heap' = heap /\ seq' = seq
    BY <1>6, <1>8, <1>12, <1>13 DEF Accept
  <2>2. call' = [call EXCEPT ![s] = [at |-> "fast", id |-> o.id]]
    BY <1>1, <1>9, <2>1 DEF Admit
  <2> QED
    BY <1>1, <1>2, <1>9, <1>10, <1>11, <1>12, <1>13, <2>1, <2>2 DEF Locking, Admit
<1>14. CASE ~o.fast
  <2>1. seq' = seq + 1 /\ heap' = heap \cup {[id |-> c.id, due |-> due, seq |-> seq + 1]}
    BY <1>6, <1>8, <1>12, <1>14 DEF Accept
  <2>2. heap' # heap
    <3>1. seq \in Nat /\ \A e \in heap : e.seq <= seq
      BY DEF Base, TypeOK, QueueInv
    <3>2. PICK e : e = [id |-> c.id, due |-> due, seq |-> seq + 1]
      OBVIOUS
    <3>3. e.seq = seq + 1
      BY <3>2
    <3>4. e \notin heap
      BY <3>1, <3>3
    <3> QED
      BY <2>1, <3>2, <3>4
  <2>3. call' = [call EXCEPT ![s] = [at |-> "wake", id |-> o.id]]
    BY <1>1, <1>9, <2>2 DEF Admit
  <2>4. heap' = heap \cup {[id |-> o.id, due |-> o.due, seq |-> seq + 1]}
    BY <1>9, <2>1
  <2> QED
    BY <1>1, <1>2, <1>9, <1>10, <1>11, <1>14, <2>1, <2>3, <2>4 DEF Locking, Admit
<1> QED
  BY <1>13, <1>14
-----------------------------------------------------------------------------
\* The parts of TypeOK.
EnvOK == /\ clock \in 0..MaxTime /\ profile \in Profiles /\ changes \in 0..Changes
         /\ closed \in BOOLEAN /\ wake \in BOOLEAN
DataOK == /\ heap \subseteq HeapRec /\ nextFree \in Nat /\ seq \in 0..MaxPacket
          /\ order \in Seq(OrderRec) /\ sends \in 0..MaxPacket /\ out \in Seq(Packet)
LoopOK == /\ lpc \in {"look", "lock", "deliver", "wait", "gone"}
          /\ lnow \in 0..MaxTime /\ timer \in 0..Hour /\ wait \in Nat \ {0}
          /\ ready \in Seq(HeapRec)

LEMMA TypeParts == Base => EnvOK /\ DataOK /\ LoopOK
  BY DEF Base, TypeOK, EnvOK, DataOK, LoopOK, HeapRec, OrderRec

LEMMA TypePartsPrime ==
  ASSUME EnvOK', DataOK', LoopOK', call' \in [Sender -> Calls]
  PROVE  TypeOK'
  BY CallsOK DEF TypeOK, EnvOK, DataOK, LoopOK, HeapRec, OrderRec

\* Steps of time, of the loop but Pop, and of nobody.
LEMMA QuietBase ==
  ASSUME Base, UNCHANGED <<sharedVars, call, sends>>, EnvOK', LoopOK', out' \in Seq(Packet),
         clock <= clock', lnow' <= clock', lpc' # "deliver" => ready' = <<>>
  PROVE  Base'
<1>1. UNCHANGED <<heap, nextFree, seq, order>>
  BY DEF sharedVars
<1>2. TypeOK' /\ call' \in [Sender -> Calls]
  BY <1>1, TypeParts, TypePartsPrime DEF DataOK, Base
<1>3. Locking' = Locking /\ Passing' = Passing
  BY DEF Locking, Passing
<1>4. CountInv' /\ QueueInv'
  BY <1>1, <1>3 DEF Base, CountInv, QueueInv, SeqsDiffer
<1>5. TimeInv'
  <2>1. ASSUME NEW s \in Locking PROVE call'[s].now <= clock'
    <3>1. PICK c \in Calls : c = call[s]
      BY DEF Base, Locking
    <3>2. c.now \in Nat
      BY <2>1, <3>1, CallType, Bounds DEF Locking
    <3>3. clock \in Nat /\ clock' \in Nat
      BY TypeParts, Bounds DEF EnvOK
    <3>4. c.now <= clock
      BY <2>1, <3>1 DEF Base, TimeInv
    <3> QED
      BY <3>1, <3>2, <3>3, <3>4
  <2> QED
    BY <1>3, <2>1 DEF TimeInv
<1> QED
  BY <1>2, <1>4, <1>5 DEF Base

LEMMA TickBase == Base /\ (Tick \/ Apply \/ Close) => Base'
<1> SUFFICES ASSUME Base, Tick \/ Apply \/ Close PROVE Base'
  OBVIOUS
<1>1. UNCHANGED <<sharedVars, call, sends, out, wake, lpc, lnow, ready, wait, timer>>
  BY DEF Tick, Apply, Close, loopVars
<1>2. EnvOK' /\ clock <= clock'
  <2>1. EnvOK
    BY TypeParts
  <2>2. CASE Tick
    BY <2>1, <2>2, Bounds DEF Tick, EnvOK
  <2>3. CASE Apply
    BY <2>1, <2>3, Bounds DEF Apply, EnvOK
  <2>4. CASE Close
    BY <2>1, <2>4, Bounds DEF Close, EnvOK
  <2> QED
    BY <2>2, <2>3, <2>4
<1>3. LoopOK' /\ out' \in Seq(Packet)
  BY <1>1, TypeParts DEF LoopOK, DataOK
<1>4. lnow' <= clock' /\ (lpc' # "deliver" => ready' = <<>>)
  BY <1>1, <1>2, Bounds DEF Base, TimeInv, TypeOK, EnvOK
<1> QED
  BY <1>1, <1>2, <1>3, <1>4, QuietBase

LEMMA LoopBase == Base /\ (Look \/ DeliverNext \/ Arm \/ Woken \/ Expired \/ Quit) => Base'
<1> SUFFICES ASSUME Base, Look \/ DeliverNext \/ Arm \/ Woken \/ Expired \/ Quit PROVE Base'
  OBVIOUS
<1>1. UNCHANGED <<clock, profile, changes, closed, sharedVars, call, sends>>
  BY DEF Look, DeliverNext, Arm, Woken, Expired, Quit, envVars
<1>2. EnvOK /\ DataOK /\ LoopOK
  BY TypeParts
<1>3. EnvOK' /\ clock <= clock'
  <2>1. wake' \in BOOLEAN
    BY <1>2 DEF Look, DeliverNext, Arm, Woken, Expired, Quit, EnvOK
  <2> QED
    BY <1>1, <1>2, <2>1, Bounds DEF EnvOK
<1>4. /\ LoopOK' /\ out' \in Seq(Packet) /\ lnow' <= clock'
      /\ lpc' # "deliver" => ready' = <<>>
  <2>1. /\ lnow <= clock /\ clock \in 0..MaxTime
        /\ lpc # "deliver" => ready = <<>>
    BY <1>2 DEF Base, TimeInv, EnvOK
  <2>2. CASE Look
    BY <1>2, <2>1, <2>2, Bounds DEF Look, LoopOK, DataOK, envVars
  <2>3. CASE DeliverNext
    <3>1. PICK q \in Seq(HeapRec) : q = ready
      BY <1>2 DEF LoopOK
    <3>2. Tail(q) \in Seq(HeapRec) /\ Head(q) \in HeapRec
      BY <2>3, <3>1, HeadTailProperties DEF DeliverNext
    <3>3. Head(q).id \in Packet
      BY <3>2 DEF HeapRec
    <3>4. out' \in Seq(Packet)
      BY <1>2, <2>3, <3>1, <3>3, AppendProperties DEF DeliverNext, DataOK
    <3> QED
      BY <1>1, <1>2, <2>1, <2>3, <3>1, <3>2, <3>4 DEF DeliverNext, LoopOK
  <2>4. CASE Arm
    <3>1. Hour \in Nat \ {0} /\ MaxTime \in 0..Hour /\ Hour \in 0..Hour
      BY Bounds DEF Hour
    <3>2. ASSUME NEW t \in Nat PROVE Expiry(t) \in 0..Hour
      BY <3>1, Bounds DEF Expiry, Hour
    <3>3. clock + wait \in Nat
      BY <1>2, <2>1, Bounds DEF LoopOK
    <3>4. timer' \in 0..Hour /\ wait' \in Nat \ {0}
      BY <2>4, <3>1, <3>2, <3>3 DEF Arm
    <3> QED
      BY <1>1, <1>2, <2>1, <2>4, <3>4 DEF Arm, LoopOK, DataOK
  <2>5. CASE Woken \/ Expired \/ Quit
    <3>1. Hour \in 0..Hour
      BY Bounds DEF Hour
    <3>2. lpc = "wait" /\ lpc' \in {"look", "gone"} /\ timer' \in 0..Hour
      BY <1>2, <2>5, <3>1 DEF Woken, Expired, Quit, LoopOK
    <3>3. UNCHANGED <<clock, lnow, ready, wait, out>>
      BY <2>5 DEF Woken, Expired, Quit, envVars
    <3> QED
      BY <1>2, <2>1, <3>2, <3>3 DEF LoopOK, DataOK
  <2> QED
    BY <2>2, <2>3, <2>4, <2>5
<1> QED
  BY <1>1, <1>3, <1>4, QuietBase

\* What popping what is due does.
LEMMA PopEffect ==
  ASSUME Base, Pop
  PROVE  /\ ready' \in Seq(Due) /\ ready = <<>>
         /\ Len(ready') = Cardinality(Due) /\ ToSet(ready') = Due /\ Sorted(ready', Len(ready'))
         /\ heap' = heap \ Due /\ lpc' = "deliver" /\ lnow' = 0
         /\ IsFiniteSet(heap') /\ Cardinality(heap) = Cardinality(heap') + Cardinality(Due)
         /\ UNCHANGED <<envVars, nextFree, seq, order, wake, call, sends, timer, out>>
<1>1. heap \subseteq HeapRec /\ IsFiniteSet(heap) /\ SeqsDiffer(heap)
  BY TypeParts DEF Base, DataOK, CountInv, QueueInv
<1>2. Due \subseteq heap
  BY DEF Due
<1>3. HeapRec \subseteq Queued
  BY Bounds DEF HeapRec, Queued, Packet
<1>4. IsFiniteSet(Due) /\ Cardinality(heap \cap Due) = Cardinality(Due)
  <2>1. heap \cap Due = Due
    BY <1>2
  <2> QED
    BY <1>1, <1>2, <2>1, FS_Subset
<1>5. SeqsDiffer(Due)
  BY <1>1, <1>2 DEF SeqsDiffer
<1>6. PICK T : T = Due
  OBVIOUS
<1>7. /\ InOrder(T) \in Seq(T) /\ Len(InOrder(T)) = Cardinality(T)
      /\ ToSet(InOrder(T)) = T /\ Sorted(InOrder(T), Cardinality(T))
  <2>1. T \in SUBSET Queued /\ IsFiniteSet(T) /\ SeqsDiffer(T)
    BY <1>1, <1>2, <1>3, <1>4, <1>5, <1>6
  <2> QED
    BY <2>1, InOrderEffect
<1>8. ready' = InOrder(T) /\ heap' = heap \ T /\ lpc = "lock" /\ lpc' = "deliver" /\ lnow' = 0
  BY <1>6 DEF Pop, Kept
<1>9. IsFiniteSet(heap \ T) /\ Cardinality(heap \ T) = Cardinality(heap) - Cardinality(T)
  BY <1>1, <1>4, <1>6, FS_Difference
<1>10. Cardinality(heap) \in Nat /\ Cardinality(T) \in Nat
  BY <1>1, <1>4, <1>6, FS_CardinalityType
<1>11. Cardinality(heap) = Cardinality(heap') + Cardinality(T)
  BY <1>8, <1>9, <1>10
<1>12. ready = <<>>
  BY <1>8 DEF Base, TimeInv
<1>13. UNCHANGED <<envVars, nextFree, seq, order, wake, call, sends, timer, out>>
  BY DEF Pop
<1> QED
  BY <1>6, <1>7, <1>8, <1>9, <1>11, <1>12, <1>13

LEMMA PopBase == Base /\ Pop => Base'
<1> SUFFICES ASSUME Base, Pop PROVE Base'
  OBVIOUS
<1>1. /\ ready' \in Seq(Due) /\ heap' = heap \ Due /\ lpc' = "deliver" /\ lnow' = 0
      /\ IsFiniteSet(heap')
      /\ UNCHANGED <<clock, profile, changes, closed, nextFree, seq, order, wake, call, sends, timer, out>>
  BY PopEffect DEF envVars
<1>2. EnvOK /\ DataOK /\ LoopOK
  BY TypeParts
<1>3. EnvOK' /\ DataOK'
  BY <1>1, <1>2 DEF EnvOK, DataOK
<1>4. LoopOK'
  <2>1. ready' \in Seq(HeapRec)
    <3>1. Due \subseteq HeapRec
      BY <1>2 DEF Due, DataOK
    <3> QED
      BY <1>1, <3>1
  <2>2. wait' \in Nat \ {0}
    <3>1. CASE heap' = {}
      <4>1. wait' = Hour
        BY <3>1 DEF Pop
      <4> QED
        BY <4>1, Bounds DEF Hour
    <3>2. CASE heap' # {}
      <4>1. PICK h : h = heap'
        OBVIOUS
      <4> DEFINE D == {p.due : p \in h}
      <4>2. h \subseteq HeapRec /\ h # {} /\ \A p \in h : p \in heap /\ p \notin Due
        BY <1>1, <1>2, <3>2, <4>1 DEF DataOK
      <4>3. D \in SUBSET Nat /\ D # {}
        BY <4>2 DEF HeapRec
      <4>4. Min(D) \in D
        BY <4>3, MinEffect
      <4>5. PICK p \in h : Min(D) = p.due
        BY <4>4
      <4>6. p.due \in Nat /\ lnow \in Nat /\ ~(p.due <= lnow)
        BY <1>2, <4>2, <4>5, Bounds DEF Due, HeapRec, LoopOK
      <4>7. wait' = Min(D) - lnow
        BY <3>2, <4>1 DEF Pop
      <4>8. wait' = p.due - lnow
        BY <4>5, <4>7
      <4> QED
        BY <4>6, <4>8
    <3> QED
      BY <3>1, <3>2
  <2>3. lnow' \in 0..MaxTime
    BY <1>1, Bounds
  <2> QED
    BY <1>1, <1>2, <2>1, <2>2, <2>3 DEF LoopOK
<1>5. Locking' = Locking /\ Passing' = Passing
  BY <1>1 DEF Locking, Passing
<1>6. CountInv' /\ QueueInv'
  BY <1>1, <1>5 DEF Base, CountInv, QueueInv, SeqsDiffer
<1>7. TimeInv'
  <2>1. 0 <= clock
    BY <1>2, Bounds DEF EnvOK
  <2> QED
    BY <1>1, <1>5, <2>1 DEF Base, TimeInv
<1>8. TypeOK'
  BY <1>1, <1>3, <1>4, TypePartsPrime DEF Base
<1> QED
  BY <1>1, <1>6, <1>7, <1>8 DEF Base
-----------------------------------------------------------------------------
\* How many are before the lock once one sender's call has changed.
LEMMA CallCount ==
  ASSUME Base, NEW s \in Sender, NEW c \in Calls, call' = [call EXCEPT ![s] = c]
  PROVE  /\ IsFiniteSet(Locking') /\ IsFiniteSet(Passing')
         /\ Cardinality(Locking') = IF c.at = "lock"
                                    THEN IF s \in Locking THEN Cardinality(Locking)
                                                          ELSE Cardinality(Locking) + 1
                                    ELSE IF s \in Locking THEN Cardinality(Locking) - 1
                                                          ELSE Cardinality(Locking)
         /\ Cardinality(Passing') = IF c.at = "fast"
                                    THEN IF s \in Passing THEN Cardinality(Passing)
                                                          ELSE Cardinality(Passing) + 1
                                    ELSE IF s \in Passing THEN Cardinality(Passing) - 1
                                                          ELSE Cardinality(Passing)
         /\ Cardinality(Locking) \in Nat /\ Cardinality(Passing) \in Nat
<1>1. IsFiniteSet(Locking) /\ IsFiniteSet(Passing)
  BY DEF Base, CountInv
<1>2. Locking' = IF c.at = "lock" THEN Locking \cup {s} ELSE Locking \ {s}
  BY CallSet DEF Base
<1>3. Passing' = IF c.at = "fast" THEN Passing \cup {s} ELSE Passing \ {s}
  BY CallSet DEF Base
<1>4. Cardinality(Locking) \in Nat /\ Cardinality(Passing) \in Nat
  BY <1>1, FS_CardinalityType
<1>5. /\ IsFiniteSet(Locking')
      /\ Cardinality(Locking') = IF c.at = "lock"
                                 THEN IF s \in Locking THEN Cardinality(Locking)
                                                       ELSE Cardinality(Locking) + 1
                                 ELSE IF s \in Locking THEN Cardinality(Locking) - 1
                                                       ELSE Cardinality(Locking)
  BY <1>1, <1>2, FS_AddElement, FS_RemoveElement
<1>6. /\ IsFiniteSet(Passing')
      /\ Cardinality(Passing') = IF c.at = "fast"
                                 THEN IF s \in Passing THEN Cardinality(Passing)
                                                       ELSE Cardinality(Passing) + 1
                                 ELSE IF s \in Passing THEN Cardinality(Passing) - 1
                                                       ELSE Cardinality(Passing)
  BY <1>1, <1>3, FS_AddElement, FS_RemoveElement
<1> QED
  BY <1>4, <1>5, <1>6

\* A step of a sender.
LEMMA CallBase ==
  ASSUME Base, EnvOK', DataOK', UNCHANGED <<clock, loopVars>>,
         NEW s \in Sender, NEW c \in Calls, call' = [call EXCEPT ![s] = c],
         c.at = "lock" => c.now <= clock,
         IsFiniteSet(heap'), QueueInv', seq' <= Len(order'),
         Len(order') + Cardinality(Locking') <= sends'
  PROVE  Base'
<1>1. call' \in [Sender -> Calls] /\ call'[s] = c /\ \A t \in Sender : t # s => call'[t] = call[t]
  BY CallSet DEF Base
<1>2. UNCHANGED <<lpc, lnow, ready, wait, timer>>
  BY DEF loopVars
<1>3. LoopOK'
  BY <1>2, TypeParts DEF LoopOK
<1>4. TypeOK'
  BY <1>1, <1>3, TypePartsPrime
<1>5. CountInv'
  BY CallCount DEF CountInv
<1>6. TimeInv'
  <2>1. ASSUME NEW t \in Locking' PROVE call'[t].now <= clock'
    <3>1. t \in Sender /\ call'[t].at = "lock"
      BY <2>1 DEF Locking
    <3>2. CASE t = s
      BY <1>1, <3>1, <3>2
    <3>3. CASE t # s
      <4>1. call'[t] = call[t] /\ t \in Locking
        BY <1>1, <3>1, <3>3 DEF Locking
      <4> QED
        BY <4>1 DEF Base, TimeInv
    <3> QED
      BY <3>2, <3>3
  <2> QED
    BY <1>2, <2>1 DEF Base, TimeInv
<1> QED
  BY <1>1, <1>4, <1>5, <1>6 DEF Base

\* What send has read before it takes the lock.
LEMMA BeginEffect ==
  ASSUME Base, NEW s \in Sender, Begin(s)
  PROVE  /\ sends' = sends + 1 /\ sends' \in Packet /\ s \notin Locking /\ s \notin Passing
         /\ \/ call' = call
            \/ \E c \in Calls : /\ call' = [call EXCEPT ![s] = c]
                                /\ c.at = "lock" /\ c.id = sends' /\ c.now = clock
         /\ UNCHANGED <<envVars, sharedVars, wake, loopVars, out>>
<1>1. /\ call[s] = Idle /\ sends < MaxPacket /\ sends' = sends + 1
      /\ UNCHANGED <<envVars, sharedVars, wake, loopVars, out>>
  BY DEF Begin
<1>2. sends' \in Packet
  BY <1>1, TypeParts, Bounds DEF DataOK, Packet
<1>3. s \notin Locking /\ s \notin Passing
  BY <1>1 DEF Locking, Passing, Idle
<1>4. CASE call' = call
  BY <1>1, <1>2, <1>3, <1>4
<1>5. CASE call' = [call EXCEPT ![s] = [at |-> "lock", id |-> sends', prof |-> profile, now |-> clock]]
  <2>1. PICK c : c = [at |-> "lock", id |-> sends', prof |-> profile, now |-> clock]
    OBVIOUS
  <2>2. c \in [at : {"lock"}, id : Packet, prof : Profiles, now : 0..MaxTime]
    BY <1>2, <2>1, TypeParts DEF EnvOK
  <2>3. c \in Calls /\ c.at = "lock" /\ c.id = sends' /\ c.now = clock
    BY <2>1, <2>2 DEF Calls
  <2> QED
    BY <1>1, <1>2, <1>3, <1>5, <2>1, <2>3
<1> QED
  BY <1>4, <1>5 DEF Begin

LEMMA BeginBase == ASSUME Base, NEW s \in Sender, Begin(s) PROVE Base'
<1>1. /\ sends' = sends + 1 /\ sends' \in Packet /\ s \notin Locking
      /\ UNCHANGED <<clock, profile, changes, closed, heap, nextFree, seq, order, wake, out>>
      /\ UNCHANGED loopVars
  BY BeginEffect DEF envVars, sharedVars
<1>2. EnvOK /\ DataOK /\ LoopOK
  BY TypeParts
<1>3. EnvOK'
  BY <1>1, <1>2 DEF EnvOK
<1>4. DataOK'
  <2>1. sends' \in 0..MaxPacket
    BY <1>1, Bounds DEF Packet
  <2> QED
    BY <1>1, <1>2, <2>1 DEF DataOK
<1>5. IsFiniteSet(heap') /\ QueueInv' /\ seq' <= Len(order')
  BY <1>1 DEF Base, CountInv, QueueInv, SeqsDiffer
<1>6. PICK k \in Nat : k = Len(order)
  BY <1>2, LenProperties DEF DataOK
<1>7. PICK l \in Nat : l = Cardinality(Locking)
  BY FS_CardinalityType DEF Base, CountInv
<1>8. k + l <= sends /\ sends \in Nat
  BY <1>2, <1>6, <1>7, Bounds DEF Base, CountInv, DataOK
<1>9. CASE call' = call
  <2>1. Locking' = Locking /\ Passing' = Passing
    BY <1>9 DEF Locking, Passing
  <2>2. CountInv'
    BY <1>1, <1>6, <1>7, <1>8, <2>1 DEF Base, CountInv
  <2>3. TimeInv'
    BY <1>1, <1>9, <2>1 DEF Base, TimeInv, loopVars
  <2>4. LoopOK'
    BY <1>1, <1>2 DEF LoopOK, loopVars
  <2>5. TypeOK' /\ call' \in [Sender -> Calls]
    BY <1>3, <1>4, <1>9, <2>4, TypePartsPrime DEF Base
  <2> QED
    BY <1>5, <2>2, <2>3, <2>5 DEF Base
<1>10. ASSUME NEW c \in Calls, call' = [call EXCEPT ![s] = c],
              c.at = "lock" /\ c.id = sends' /\ c.now = clock
       PROVE  Base'
  <2>1. Cardinality(Locking') = l + 1
    BY <1>1, <1>7, <1>10, CallCount
  <2>2. Len(order') + Cardinality(Locking') <= sends'
    BY <1>1, <1>6, <1>8, <2>1
  <2>3. c.now <= clock
    BY <1>2, <1>10, Bounds DEF EnvOK
  <2> QED
    BY <1>1, <1>3, <1>4, <1>5, <1>10, <2>2, <2>3, CallBase
<1> QED
  BY <1>9, <1>10, BeginEffect

LEMMA IdleCall == Idle \in Calls /\ Idle.at = "idle"
  BY DEF Calls, Idle

\* A call ends.
LEMMA EndBase ==
  ASSUME Base, NEW s \in Sender, call' = [call EXCEPT ![s] = Idle],
         UNCHANGED <<clock, profile, changes, closed, heap, seq, order, sends, loopVars>>,
         nextFree' \in Nat, wake' \in BOOLEAN, out' \in Seq(Packet)
  PROVE  Base'
<1>1. EnvOK' /\ DataOK'
  BY TypeParts DEF EnvOK, DataOK
<1>2. IsFiniteSet(heap') /\ QueueInv' /\ seq' <= Len(order')
  BY DEF Base, CountInv, QueueInv, SeqsDiffer
<1>3. PICK k \in Nat : k = Len(order)
  BY TypeParts, LenProperties DEF DataOK
<1>4. PICK l \in Nat, m \in Nat : l = Cardinality(Locking) /\ m = Cardinality(Locking') /\ m <= l
  <2>1. Cardinality(Locking') = IF s \in Locking THEN Cardinality(Locking) - 1 ELSE Cardinality(Locking)
    BY CallCount, IdleCall
  <2>2. Cardinality(Locking) \in Nat /\ Cardinality(Locking') \in Nat
    BY CallCount, IdleCall, FS_CardinalityType
  <2> QED
    BY <2>1, <2>2
<1>5. k + l <= sends /\ sends \in Nat
  BY <1>3, <1>4, TypeParts, Bounds DEF Base, CountInv, DataOK
<1>6. Len(order') + Cardinality(Locking') <= sends'
  BY <1>3, <1>4, <1>5
<1>7. Idle.at # "lock"
  BY IdleCall
<1> QED
  BY <1>1, <1>2, <1>6, <1>7, IdleCall, CallBase

LEMMA FinishBase == ASSUME Base, NEW s \in Sender, Drop(s) \/ SendNow(s) \/ WakeLoop(s) PROVE Base'
<1>1. /\ call' = [call EXCEPT ![s] = Idle]
      /\ UNCHANGED <<clock, profile, changes, closed, heap, seq, order, sends, loopVars>>
  BY DEF Drop, SendNow, WakeLoop, envVars, sharedVars
<1>2. PICK c \in Calls : c = call[s]
  BY DEF Base
<1>3. EnvOK /\ DataOK
  BY TypeParts
<1>4. nextFree' \in Nat
  <2>1. CASE Drop(s)
    <3>1. c.now \in Nat
      BY <1>2, <2>1, CallType, Bounds DEF Drop
    <3> QED
      BY <1>2, <1>3, <2>1, <3>1 DEF Drop, Free, DataOK
  <2>2. CASE SendNow(s) \/ WakeLoop(s)
    BY <1>3, <2>2 DEF SendNow, WakeLoop, sharedVars, DataOK
  <2> QED
    BY <2>1, <2>2
<1>5. wake' \in BOOLEAN
  BY <1>3 DEF EnvOK, Drop, SendNow, WakeLoop
<1>6. out' \in Seq(Packet)
  <2>1. CASE SendNow(s)
    <3>1. c.id \in Packet
      BY <1>2, <2>1, CallType DEF SendNow
    <3> QED
      BY <1>2, <1>3, <2>1, <3>1, AppendProperties DEF SendNow, DataOK
  <2>2. CASE Drop(s) \/ WakeLoop(s)
    BY <1>3, <2>2 DEF Drop, WakeLoop, DataOK
  <2> QED
    BY <2>1, <2>2
<1> QED
  BY <1>1, <1>4, <1>5, <1>6, EndBase

LEMMA AdmitBase == ASSUME Base, NEW s \in Sender, Admit(s) PROVE Base'
<1>1. PICK o \in OrderRec :
            /\ order' = Append(order, o)
            /\ s \in Locking
            /\ nextFree' = IF o.tx > 0 THEN o.slot + o.tx ELSE nextFree
            /\ o.fast => /\ heap' = heap /\ seq' = seq
                         /\ call' = [call EXCEPT ![s] = [at |-> "fast", id |-> o.id]]
            /\ ~o.fast => /\ heap' = heap \cup {[id |-> o.id, due |-> o.due, seq |-> seq + 1]}
                          /\ seq' = seq + 1
                          /\ call' = [call EXCEPT ![s] = [at |-> "wake", id |-> o.id]]
            /\ UNCHANGED <<envVars, wake, sends, loopVars, out>>
  BY AdmitEffect
<1>2. EnvOK /\ DataOK
  BY TypeParts
<1>3. UNCHANGED <<clock, profile, changes, closed, wake, sends, out, loopVars>>
  BY <1>1 DEF envVars
<1>4. o.id \in Packet /\ o.due \in Nat /\ o.slot \in Nat /\ o.tx \in Nat
  BY <1>1 DEF OrderRec
<1>5. PICK c : c = [at |-> IF o.fast THEN "fast" ELSE "wake", id |-> o.id]
  OBVIOUS
<1>6. c \in Calls /\ c.at # "lock"
  BY <1>4, <1>5 DEF Calls
<1>7. call' = [call EXCEPT ![s] = c]
  BY <1>1, <1>5
<1>8. PICK k \in Nat : k = Len(order)
  BY <1>2, LenProperties DEF DataOK
<1>9. PICK l \in Nat : l = Cardinality(Locking)
  BY FS_CardinalityType DEF Base, CountInv
<1>10. k + l <= sends /\ sends \in 0..MaxPacket /\ seq <= k /\ seq \in Nat
  BY <1>2, <1>8, <1>9, Bounds DEF Base, CountInv, DataOK
<1>11. Cardinality(Locking') = l - 1 /\ Cardinality(Locking') \in Nat
  BY <1>1, <1>6, <1>7, <1>9, CallCount, FS_CardinalityType
<1>12. order' \in Seq(OrderRec) /\ Len(order') = k + 1
  BY <1>1, <1>2, <1>8, AppendProperties DEF DataOK
<1>13. Len(order') + Cardinality(Locking') <= sends'
  BY <1>3, <1>10, <1>11, <1>12
<1>14. seq + 1 \in Packet /\ seq' \in 0..MaxPacket /\ seq' <= Len(order')
  <2>1. seq' = seq \/ seq' = seq + 1
    BY <1>1
  <2>2. k + 1 <= MaxPacket
    BY <1>10, <1>11, Bounds
  <2> QED
    BY <1>10, <1>12, <2>1, <2>2, Bounds DEF Packet
<1>15. PICK e : e = [id |-> o.id, due |-> o.due, seq |-> seq + 1]
  OBVIOUS
<1>16. e \in HeapRec /\ e.seq = seq + 1
  BY <1>4, <1>14, <1>15 DEF HeapRec
<1>17. heap' = heap \/ (heap' = heap \cup {e} /\ seq' = seq + 1)
  BY <1>1, <1>15
<1>18. IsFiniteSet(heap') /\ heap' \subseteq HeapRec
  <2>1. IsFiniteSet(heap) /\ heap \subseteq HeapRec
    BY <1>2 DEF Base, CountInv, DataOK
  <2>2. IsFiniteSet(heap \cup {e})
    BY <2>1, FS_AddElement
  <2> QED
    BY <1>16, <1>17, <2>1, <2>2
<1>19. QueueInv'
  <2>1. SeqsDiffer(heap) /\ \A f \in heap : f.seq <= seq /\ f.seq \in Nat
    BY <1>2, Bounds DEF Base, QueueInv, DataOK, HeapRec, Packet
  <2>2. seq' = seq \/ seq' = seq + 1
    BY <1>1
  <2>3. \A f \in heap' : f.seq <= seq'
    BY <1>10, <1>16, <1>17, <2>1, <2>2
  <2>4. ASSUME NEW f \in heap', NEW g \in heap', f.seq = g.seq PROVE f = g
    BY <1>10, <1>16, <1>17, <2>1, <2>4 DEF SeqsDiffer
  <2> QED
    BY <2>3, <2>4 DEF QueueInv, SeqsDiffer
<1>20. nextFree' \in Nat
  BY <1>1, <1>2, <1>4 DEF DataOK
<1>21. EnvOK' /\ DataOK'
  BY <1>2, <1>3, <1>12, <1>14, <1>18, <1>20 DEF EnvOK, DataOK
<1> QED
  BY <1>3, <1>6, <1>7, <1>13, <1>14, <1>18, <1>19, <1>21, CallBase

LEMMA NextBase == Base /\ [Next]_vars => Base'
<1> SUFFICES ASSUME Base, [Next]_vars PROVE Base'
  OBVIOUS
<1>1. CASE Tick \/ Apply \/ Close
  BY <1>1, TickBase
<1>2. CASE Loop
  BY <1>2, LoopBase, PopBase DEF Loop
<1>3. ASSUME NEW s \in Sender, Begin(s) \/ Finish(s) PROVE Base'
  BY <1>3, BeginBase, FinishBase, AdmitBase DEF Finish
<1>4. CASE UNCHANGED vars
  <2>1. UNCHANGED <<clock, profile, changes, closed, sharedVars, wake, call, sends, loopVars, out>>
    BY <1>4 DEF vars, envVars
  <2>2. UNCHANGED <<lpc, lnow, ready, wait, timer>>
    BY <2>1 DEF loopVars
  <2>3. EnvOK' /\ LoopOK' /\ out' \in Seq(Packet)
    BY <2>1, <2>2, TypeParts DEF EnvOK, LoopOK, DataOK
  <2>4. clock <= clock' /\ lnow' <= clock' /\ (lpc' # "deliver" => ready' = <<>>)
    <3>1. clock <= clock
      BY TypeParts, Bounds DEF EnvOK
    <3> QED
      BY <2>1, <2>2, <3>1 DEF Base, TimeInv
  <2> QED
    BY <2>1, <2>3, <2>4, QuietBase
<1> QED
  BY <1>1, <1>2, <1>3, <1>4 DEF Next
-----------------------------------------------------------------------------
(* Where the packets are.  Every packet has a number of its own, and what is *)
(* queued, popped or on the fast path has passed the lock and is known there *)
(* by its number and the time it is due.                                     *)
Index == 1..Len(order)

IdInv ==
    /\ \A i \in Index : order[i].id <= sends
    /\ \A i, j \in Index : order[i].id = order[j].id => i = j
    /\ \A s \in Locking : call[s].id <= sends /\ \A i \in Index : order[i].id # call[s].id
    /\ \A s, t \in Locking : call[s].id = call[t].id => s = t

Filed(e) == \E i \in Index : order[i].id = e.id /\ order[i].due = e.due /\ ~order[i].fast

PlaceInv ==
    /\ \A e \in heap : Filed(e)
    /\ \A e \in ToSet(ready) : Filed(e) /\ e.due <= clock
    /\ \A s \in Passing : \E i \in Index :
          order[i].id = call[s].id /\ order[i].fast /\ order[i].due <= clock

SameInv ==
    /\ Accepted = Held \cup Delivered
    /\ Len(order) = Cardinality(heap) + Len(ready) + Cardinality(Passing) + Len(out)

\* The steps that move no packet.
Quiet ==
    /\ UNCHANGED <<order, heap, seq, ready, out, sends>> /\ clock <= clock'
    /\ Passing' = Passing /\ Locking' \subseteq Locking
    /\ \A s \in Locking' \cup Passing : call'[s] = call[s]

LEMMA AppendSet ==
  ASSUME NEW S, NEW q \in Seq(S), NEW e \in S
  PROVE  /\ ToSet(Append(q, e)) = ToSet(q) \cup {e}
         /\ Append(q, e) \in Seq(S) /\ Len(Append(q, e)) = Len(q) + 1
<1>1. PICK n \in Nat : n = Len(q)
  BY LenProperties
<1>2. PICK r \in Seq(S) : r = Append(q, e)
  BY AppendProperties
<1>3. Len(r) = n + 1 /\ r[n + 1] = e /\ \A i \in 1..n : r[i] = q[i]
  BY <1>1, <1>2, AppendProperties
<1>4. ToSet(r) = {r[i] : i \in 1..n + 1} /\ ToSet(q) = {q[i] : i \in 1..n}
  BY <1>1, <1>3, LenProperties DEF ToSet
<1>5. \A i \in 1..n + 1 : i \in 1..n \/ i = n + 1
  OBVIOUS
<1>6. 1..n \subseteq 1..n + 1 /\ n + 1 \in 1..n + 1
  OBVIOUS
<1>7. ToSet(r) = ToSet(q) \cup {e}
  BY <1>3, <1>4, <1>5, <1>6
<1> QED
  BY <1>1, <1>2, <1>3, <1>7

LEMMA TailSet ==
  ASSUME NEW S, NEW q \in Seq(S), q # <<>>
  PROVE  /\ ToSet(q) = {Head(q)} \cup ToSet(Tail(q))
         /\ Head(q) \in S /\ Tail(q) \in Seq(S) /\ Len(Tail(q)) + 1 = Len(q)
         /\ Head(q) = q[1] /\ \A i \in 1..Len(Tail(q)) : Tail(q)[i] = q[i + 1]
<1>1. PICK n \in Nat : n = Len(q)
  BY LenProperties
<1>2. n # 0
  BY <1>1, EmptySeq
<1>3. PICK r \in Seq(S) : r = Tail(q)
  BY HeadTailProperties
<1>4. Len(r) = n - 1 /\ \A i \in 1..n - 1 : r[i] = q[i + 1]
  BY <1>1, <1>3, HeadTailProperties
<1>5. Head(q) = q[1]
  BY <1>1
<1>6. ToSet(q) = {q[i] : i \in 1..n} /\ ToSet(r) = {r[i] : i \in 1..n - 1}
  BY <1>1, <1>4, LenProperties DEF ToSet
<1>7. \A i \in 1..n : i = 1 \/ (i - 1 \in 1..n - 1 /\ (i - 1) + 1 = i)
  OBVIOUS
<1>8. \A i \in 1..n - 1 : i + 1 \in 1..n
  OBVIOUS
<1>9. 1 \in 1..n
  BY <1>2
<1>10. ToSet(q) = {q[1]} \cup ToSet(r)
  <2>1. ASSUME NEW i \in 1..n PROVE q[i] \in {q[1]} \cup ToSet(r)
    <3>1. CASE i = 1
      BY <3>1
    <3>2. CASE i - 1 \in 1..n - 1 /\ (i - 1) + 1 = i
      <4>1. r[i - 1] = q[i]
        BY <1>4, <3>2
      <4> QED
        BY <1>6, <3>2, <4>1
    <3> QED
      BY <1>7, <3>1, <3>2
  <2>2. ASSUME NEW i \in 1..n - 1 PROVE r[i] \in ToSet(q)
    BY <1>4, <1>6, <1>8
  <2> QED
    BY <1>6, <1>9, <2>1, <2>2
<1> QED
  BY <1>1, <1>2, <1>3, <1>4, <1>5, <1>10, HeadTailProperties

LEMMA TypePartsNext == Base' => EnvOK' /\ DataOK' /\ LoopOK'
  BY DEF Base, TypeOK, EnvOK, DataOK, LoopOK, HeapRec, OrderRec

LEMMA OrderType ==
  ASSUME Base, NEW i \in Index
  PROVE  /\ order[i] \in OrderRec /\ order[i].id \in Packet /\ order[i].due \in Nat
         /\ order[i].slot \in Nat /\ order[i].tx \in Nat
<1>1. order[i] \in OrderRec
  BY TypeParts, ElementOfSeq DEF DataOK, Index
<1> QED
  BY <1>1 DEF OrderRec

LEMMA NextCases ==
  ASSUME Base, [Next]_vars
  PROVE  \/ Quiet \/ Pop \/ DeliverNext
         \/ \E s \in Sender : Begin(s) \/ Admit(s) \/ SendNow(s)
<1>1. ASSUME UNCHANGED <<order, heap, seq, ready, out, sends, call>>, clock <= clock' PROVE Quiet
  BY <1>1 DEF Quiet, Locking, Passing
<1>2. CASE Tick \/ Apply \/ Close
  <2>1. clock <= clock'
    BY <1>2, TypeParts, Bounds DEF Tick, Apply, Close, EnvOK
  <2>2. UNCHANGED <<order, heap, seq, ready, out, sends, call>>
    BY <1>2 DEF Tick, Apply, Close, sharedVars, loopVars
  <2> QED
    BY <1>1, <2>1, <2>2
<1>3. CASE Look \/ Arm \/ Woken \/ Expired \/ Quit \/ UNCHANGED vars
  <2>1. clock' = clock /\ UNCHANGED <<order, heap, seq, ready, out, sends, call>>
    BY <1>3 DEF Look, Arm, Woken, Expired, Quit, vars, envVars, sharedVars, loopVars
  <2>2. clock <= clock
    BY TypeParts, Bounds DEF EnvOK
  <2> QED
    BY <1>1, <2>1, <2>2
<1>4. ASSUME NEW s \in Sender, Drop(s) \/ WakeLoop(s) PROVE Quiet
  <2>1. clock' = clock /\ UNCHANGED <<order, heap, seq, ready, out, sends>>
    BY <1>4 DEF Drop, WakeLoop, envVars, sharedVars, loopVars
  <2>2. clock <= clock
    BY TypeParts, Bounds DEF EnvOK
  <2>3. call' = [call EXCEPT ![s] = Idle] /\ s \notin Passing
    BY <1>4 DEF Drop, WakeLoop, Passing
  <2>4. /\ \A t \in Sender : t # s => call'[t] = call[t]
        /\ Locking' = Locking \ {s} /\ Passing' = Passing \ {s}
    BY <2>3, CallSet, IdleCall DEF Base
  <2>5. Passing' = Passing /\ Locking' \subseteq Locking
    BY <2>3, <2>4
  <2>6. \A t \in Locking' \cup Passing : call'[t] = call[t]
    BY <2>3, <2>4 DEF Locking, Passing
  <2> QED
    BY <2>1, <2>2, <2>5, <2>6 DEF Quiet
<1> QED
  BY <1>2, <1>3, <1>4 DEF Next, Loop, Finish

LEMMA InitPlaces == Init => IdInv /\ PlaceInv /\ SameInv
<1> SUFFICES ASSUME Init PROVE IdInv /\ PlaceInv /\ SameInv
  OBVIOUS
<1>1. /\ order = <<>> /\ heap = {} /\ ready = <<>> /\ out = <<>>
      /\ call = [s \in Sender |-> Idle]
  BY DEF Init
<1>2. Locking = {} /\ Passing = {}
  BY <1>1 DEF Locking, Passing, Idle
<1>3. Len(order) = 0 /\ Len(ready) = 0 /\ Len(out) = 0 /\ ToSet(ready) = {} /\ ToSet(out) = {}
  BY <1>1 DEF ToSet
<1>4. Index = {}
  BY <1>3 DEF Index
<1>5. IdInv /\ PlaceInv
  BY <1>1, <1>2, <1>3, <1>4 DEF IdInv, PlaceInv
<1>6. Accepted = {} /\ Held = {} /\ Delivered = {}
  BY <1>1, <1>2, <1>3 DEF Accepted, Held, Delivered
<1>7. SameInv
  BY <1>1, <1>2, <1>3, <1>6, FS_EmptySet DEF SameInv
<1> QED
  BY <1>5, <1>7

LEMMA QuietPlaces ==
  ASSUME Base, IdInv, PlaceInv, SameInv, Quiet, Base'
  PROVE  IdInv' /\ PlaceInv' /\ SameInv'
<1>1. Index' = Index
  BY DEF Quiet, Index
<1>2. IdInv'
  BY <1>1 DEF Quiet, IdInv
<1>3. PlaceInv'
  <2>1. \A e \in heap' : Filed(e)'
    BY <1>1 DEF Quiet, PlaceInv, Filed
  <2>2. clock \in Nat /\ clock' \in Nat /\ clock <= clock'
    BY TypeParts, TypePartsNext, Bounds DEF EnvOK, Quiet
  <2>3. ASSUME NEW e \in ToSet(ready') PROVE Filed(e)' /\ e.due <= clock'
    <3>1. e \in ToSet(ready) /\ ToSet(ready) \subseteq HeapRec
      BY <2>3, TypeParts DEF Quiet, LoopOK, ToSet
    <3>2. Filed(e) /\ e.due <= clock /\ e.due \in Nat
      BY <3>1 DEF PlaceInv, HeapRec
    <3> QED
      BY <1>1, <2>2, <3>2 DEF Quiet, Filed
  <2>4. ASSUME NEW s \in Passing'
        PROVE  \E i \in Index' : order'[i].id = call'[s].id /\ order'[i].fast /\ order'[i].due <= clock'
    <3>1. s \in Passing /\ call'[s] = call[s]
      BY <2>4 DEF Quiet
    <3>2. PICK i \in Index : order[i].id = call[s].id /\ order[i].fast /\ order[i].due <= clock
      BY <3>1 DEF PlaceInv
    <3>3. order[i].due \in Nat
      BY <3>2, OrderType
    <3> QED
      BY <1>1, <2>2, <3>1, <3>2, <3>3 DEF Quiet
  <2> QED
    BY <2>1, <2>3, <2>4 DEF PlaceInv
<1>4. SameInv'
  <2>1. Accepted' = Accepted /\ Delivered' = Delivered
    BY DEF Quiet, Accepted, Delivered
  <2>2. {call[s].id : s \in Passing}' = {call[s].id : s \in Passing}
    BY DEF Quiet
  <2>3. Held' = Held
    BY <2>2 DEF Quiet, Held
  <2> QED
    BY <2>1, <2>3 DEF Quiet, SameInv
<1> QED
  BY <1>2, <1>3, <1>4
-----------------------------------------------------------------------------
\* One more packet is sent: its number is new.
LEMMA BeginPlaces ==
  ASSUME Base, IdInv, PlaceInv, SameInv, NEW s \in Sender, Begin(s)
  PROVE  IdInv' /\ PlaceInv' /\ SameInv'
<1>1. /\ sends' = sends + 1 /\ s \notin Locking /\ s \notin Passing
      /\ UNCHANGED <<clock, order, heap, seq, ready, out>>
  BY BeginEffect DEF envVars, sharedVars, loopVars
<1>2. sends \in Nat /\ clock \in Nat
  BY TypeParts, Bounds DEF DataOK, EnvOK
<1>3. Index' = Index
  BY <1>1 DEF Index
<1>4. /\ Passing' = Passing /\ \A t \in Passing : call'[t] = call[t]
      /\ Locking' \subseteq Locking \cup {s} /\ \A t \in Locking : call'[t] = call[t]
      /\ s \in Locking' => call'[s].id = sends + 1
  <2>1. CASE call' = call
    BY <1>1, <2>1 DEF Locking, Passing
  <2>2. ASSUME NEW c \in Calls, call' = [call EXCEPT ![s] = c], c.at = "lock", c.id = sends'
        PROVE  /\ Passing' = Passing /\ \A t \in Passing : call'[t] = call[t]
               /\ Locking' \subseteq Locking \cup {s} /\ \A t \in Locking : call'[t] = call[t]
               /\ s \in Locking' => call'[s].id = sends + 1
    <3>1. /\ call'[s] = c /\ \A t \in Sender : t # s => call'[t] = call[t]
          /\ Locking' = Locking \cup {s} /\ Passing' = Passing \ {s}
      BY <2>2, CallSet DEF Base
    <3> QED
      BY <1>1, <2>2, <3>1 DEF Locking, Passing
  <2> QED
    BY <2>1, <2>2, BeginEffect
<1>5. IdInv'
  <2>1. \A i \in Index : order[i].id <= sends /\ order[i].id \in Nat
    BY OrderType, Bounds DEF IdInv, Packet
  <2>2. \A t \in Locking : call[t].id <= sends /\ call[t].id \in Nat
    <3> SUFFICES ASSUME NEW t \in Locking PROVE call[t].id <= sends /\ call[t].id \in Nat
      OBVIOUS
    <3>1. PICK c \in Calls : c = call[t]
      BY DEF Base, Locking
    <3>2. c.id \in Nat
      BY <3>1, CallType, Bounds DEF Locking, Packet
    <3> QED
      BY <3>1, <3>2 DEF IdInv
  <2>3. \A i \in Index' : order'[i].id <= sends'
    BY <1>1, <1>2, <1>3, <2>1
  <2>4. \A i, j \in Index' : order'[i].id = order'[j].id => i = j
    BY <1>1, <1>3 DEF IdInv
  <2>5. ASSUME NEW t \in Locking'
        PROVE  call'[t].id <= sends' /\ \A i \in Index' : order'[i].id # call'[t].id
    <3>1. CASE t \in Locking
      BY <1>1, <1>2, <1>3, <1>4, <2>2, <3>1 DEF IdInv
    <3>2. CASE t = s
      <4>1. \A i \in Index : order[i].id # sends + 1
        BY <1>2, <2>1
      <4> QED
        BY <1>1, <1>2, <1>3, <1>4, <2>5, <3>2, <4>1
    <3> QED
      BY <1>4, <2>5, <3>1, <3>2
  <2>6. ASSUME NEW t \in Locking', NEW u \in Locking', call'[t].id = call'[u].id PROVE t = u
    <3>1. ASSUME NEW v \in Locking PROVE call'[v].id <= sends /\ call'[v].id \in Nat
      BY <1>4, <2>2
    <3>2. CASE t \in Locking /\ u \in Locking
      BY <1>4, <2>6, <3>2 DEF IdInv
    <3>3. CASE t = s /\ u \in Locking
      BY <1>2, <1>4, <2>6, <3>1, <3>3
    <3>4. CASE t \in Locking /\ u = s
      BY <1>2, <1>4, <2>6, <3>1, <3>4
    <3> QED
      BY <1>4, <3>2, <3>3, <3>4
  <2> QED
    BY <2>3, <2>4, <2>5, <2>6 DEF IdInv
<1>6. PlaceInv'
  <2>1. (\A e \in heap : Filed(e))'
    BY <1>1, <1>3 DEF PlaceInv, Filed
  <2>2. (\A e \in ToSet(ready) : Filed(e) /\ e.due <= clock)'
    BY <1>1, <1>3 DEF PlaceInv, Filed
  <2> QED
    BY <1>1, <1>3, <1>4, <2>1, <2>2 DEF PlaceInv
<1>7. SameInv'
  <2>1. Accepted' = Accepted /\ Delivered' = Delivered
    BY <1>1 DEF Accepted, Delivered
  <2>2. {call[t].id : t \in Passing}' = {call[t].id : t \in Passing}
    BY <1>4
  <2>3. Held' = Held
    BY <1>1, <2>2 DEF Held
  <2> QED
    BY <1>1, <1>4, <2>1, <2>3 DEF SameInv
<1> QED
  BY <1>5, <1>6, <1>7

\* A packet passes the lock.
LEMMA AdmitIds ==
  ASSUME Base, IdInv, NEW s \in Sender, Admit(s)
  PROVE  IdInv'
<1>1. PICK o \in OrderRec :
            /\ order' = Append(order, o) /\ s \in Locking /\ o.id = call[s].id
            /\ o.fast => call' = [call EXCEPT ![s] = [at |-> "fast", id |-> o.id]]
            /\ ~o.fast => call' = [call EXCEPT ![s] = [at |-> "wake", id |-> o.id]]
            /\ sends' = sends
  BY AdmitEffect
<1>2. PICK k \in Nat : k = Len(order)
  BY LenProperties, TypeParts DEF DataOK
<1>3. PICK q \in Seq(OrderRec) : q = order
  BY TypeParts DEF DataOK
<1>4. /\ Len(order') = k + 1 /\ order'[k + 1] = o
      /\ \A i \in 1..k : order'[i] = order[i]
  BY <1>1, <1>2, <1>3, AppendProperties
<1>5. Index = 1..k /\ Index' = 1..k + 1
  BY <1>2, <1>4 DEF Index
<1>6. /\ Locking' = Locking \ {s} /\ \A t \in Locking' : call'[t] = call[t]
  <2>1. PICK c : c = [at |-> IF o.fast THEN "fast" ELSE "wake", id |-> o.id]
    OBVIOUS
  <2>2. o.id \in Packet
    BY DEF OrderRec
  <2>3. c \in Calls /\ c.at # "lock" /\ call' = [call EXCEPT ![s] = c]
    BY <1>1, <2>1, <2>2 DEF Calls
  <2>4. Locking' = Locking \ {s} /\ \A t \in Sender : t # s => call'[t] = call[t]
    BY <2>3, CallSet DEF Base
  <2> QED
    BY <2>4 DEF Locking
<1>7. o.id <= sends /\ \A i \in Index : order[i].id # o.id
  BY <1>1 DEF IdInv
<1>8. \A i \in Index' : order'[i].id <= sends'
  BY <1>1, <1>4, <1>5, <1>7 DEF IdInv
<1>9. ASSUME NEW i \in Index', NEW j \in Index', order'[i].id = order'[j].id PROVE i = j
  <2>1. CASE i \in 1..k /\ j \in 1..k
    BY <1>4, <1>5, <1>9, <2>1 DEF IdInv
  <2>2. CASE i = k + 1 /\ j \in 1..k
    BY <1>4, <1>5, <1>7, <1>9, <2>2
  <2>3. CASE i \in 1..k /\ j = k + 1
    BY <1>4, <1>5, <1>7, <1>9, <2>3
  <2> QED
    BY <1>5, <2>1, <2>2, <2>3
<1>10. ASSUME NEW t \in Locking'
       PROVE  call'[t].id <= sends' /\ \A i \in Index' : order'[i].id # call'[t].id
  <2>1. t \in Locking /\ t # s /\ call'[t] = call[t]
    BY <1>6, <1>10
  <2>2. call[t].id # o.id
    BY <1>1, <2>1 DEF IdInv
  <2> QED
    BY <1>1, <1>4, <1>5, <2>1, <2>2 DEF IdInv
<1>11. \A t, u \in Locking' : call'[t].id = call'[u].id => t = u
  BY <1>6 DEF IdInv
<1> QED
  BY <1>8, <1>9, <1>10, <1>11 DEF IdInv

LEMMA AdmitPlaces ==
  ASSUME Base, IdInv, PlaceInv, SameInv, NEW s \in Sender, Admit(s)
  PROVE  PlaceInv' /\ SameInv'
<1>1. PICK o \in OrderRec :
            /\ order' = Append(order, o) /\ s \in Locking /\ o.id = call[s].id
            /\ o.fast => /\ o.due <= call[s].now /\ heap' = heap
                         /\ call' = [call EXCEPT ![s] = [at |-> "fast", id |-> o.id]]
            /\ ~o.fast => /\ heap' = heap \cup {[id |-> o.id, due |-> o.due, seq |-> seq + 1]}
                          /\ call' = [call EXCEPT ![s] = [at |-> "wake", id |-> o.id]]
            /\ UNCHANGED <<envVars, ready, out>>
  BY AdmitEffect DEF loopVars
<1>2. PICK k \in Nat : k = Len(order)
  BY LenProperties, TypeParts DEF DataOK
<1>3. PICK q \in Seq(OrderRec) : q = order
  BY TypeParts DEF DataOK
<1>4. /\ Len(order') = k + 1 /\ order'[k + 1] = o
      /\ \A i \in 1..k : order'[i] = order[i]
  BY <1>1, <1>2, <1>3, AppendProperties
<1>5. Index = 1..k /\ Index' = 1..k + 1
  BY <1>2, <1>4 DEF Index
<1>6. PICK c : c = [at |-> IF o.fast THEN "fast" ELSE "wake", id |-> o.id]
  OBVIOUS
<1>7. o.id \in Packet /\ o.due \in Nat /\ o.fast \in BOOLEAN
  BY DEF OrderRec
<1>8. c \in Calls /\ c.at = (IF o.fast THEN "fast" ELSE "wake") /\ c.id = o.id
      /\ call' = [call EXCEPT ![s] = c]
  BY <1>1, <1>6, <1>7 DEF Calls
<1>9. /\ Passing' = IF o.fast THEN Passing \cup {s} ELSE Passing
      /\ call'[s].id = o.id /\ \A t \in Passing : call'[t] = call[t]
  <2>1. s \notin Passing
    BY <1>1 DEF Locking, Passing
  <2>2. /\ call'[s] = c /\ \A t \in Sender : t # s => call'[t] = call[t]
        /\ Passing' = IF c.at = "fast" THEN Passing \cup {s} ELSE Passing \ {s}
    BY <1>8, CallSet DEF Base
  <2> QED
    BY <1>8, <2>1, <2>2 DEF Passing
<1>10. PICK e : e = [id |-> o.id, due |-> o.due, seq |-> seq + 1]
  OBVIOUS
<1>11. e.id = o.id /\ e.due = o.due /\ e.seq = seq + 1
  BY <1>10
<1>12. heap' = IF o.fast THEN heap ELSE heap \cup {e}
  BY <1>1, <1>10
<1>13. \A f : Filed(f) => Filed(f)'
  BY <1>4, <1>5 DEF Filed
<1>14. clock' = clock /\ clock \in Nat
  BY <1>1, TypeParts, Bounds DEF envVars, EnvOK
<1>15. PlaceInv'
  <2>1. ASSUME NEW f \in heap' PROVE Filed(f)'
    <3>1. CASE f \in heap
      BY <1>13, <3>1 DEF PlaceInv
    <3>2. CASE f = e /\ ~o.fast
      BY <1>4, <1>5, <1>11, <3>2 DEF Filed
    <3> QED
      BY <1>12, <2>1, <3>1, <3>2
  <2>2. \A f \in ToSet(ready') : Filed(f)' /\ f.due <= clock'
    BY <1>1, <1>13, <1>14 DEF PlaceInv
  <2>3. ASSUME NEW t \in Passing'
        PROVE  \E i \in Index' : order'[i].id = call'[t].id /\ order'[i].fast /\ order'[i].due <= clock'
    <3>1. CASE t \in Passing
      <4>1. PICK i \in Index : order[i].id = call[t].id /\ order[i].fast /\ order[i].due <= clock
        BY <3>1 DEF PlaceInv
      <4> QED
        BY <1>4, <1>5, <1>9, <1>14, <3>1, <4>1
    <3>2. CASE t = s /\ o.fast
      <4>1. PICK n : n = call[s].now
        OBVIOUS
      <4>2. o.due <= n /\ n <= clock /\ n \in Nat
        <5>1. PICK d \in Calls : d = call[s]
          BY DEF Base
        <5>2. n \in Nat
          BY <1>1, <4>1, <5>1, CallType, Bounds DEF Locking
        <5> QED
          BY <1>1, <3>2, <4>1, <5>2 DEF Base, TimeInv
      <4>3. o.due <= clock
        BY <1>7, <1>14, <4>2
      <4> QED
        BY <1>4, <1>5, <1>9, <1>14, <3>2, <4>3
    <3> QED
      BY <1>9, <2>3, <3>1, <3>2
  <2> QED
    BY <2>1, <2>2, <2>3 DEF PlaceInv
<1>16. SameInv'
  <2>1. Accepted' = Accepted \cup {o.id}
    <3>1. Accepted = {order[i].id : i \in 1..k} /\ Accepted' = {order'[i].id : i \in 1..k + 1}
      BY <1>2, <1>4 DEF Accepted
    <3>2. \A i \in 1..k + 1 : i \in 1..k \/ i = k + 1
      OBVIOUS
    <3>3. 1..k \subseteq 1..k + 1 /\ k + 1 \in 1..k + 1
      OBVIOUS
    <3> QED
      BY <1>4, <3>1, <3>2, <3>3
  <2>2. Delivered' = Delivered
    BY <1>1 DEF Delivered
  <2>3. Held' = Held \cup {o.id}
    <3>1. {p.id : p \in heap'} = IF o.fast THEN {p.id : p \in heap} ELSE {p.id : p \in heap} \cup {o.id}
      BY <1>11, <1>12
    <3>2. {call'[t].id : t \in Passing'} = IF o.fast THEN {call[t].id : t \in Passing} \cup {o.id}
                                                     ELSE {call[t].id : t \in Passing}
      BY <1>9
    <3>3. {p.id : p \in ToSet(ready')} = {p.id : p \in ToSet(ready)}
      BY <1>1
    <3> QED
      BY <3>1, <3>2, <3>3 DEF Held
  <2>4. Accepted' = Held' \cup Delivered'
    BY <2>1, <2>2, <2>3 DEF SameInv
  <2>5. PICK h \in Nat, p \in Nat, r \in Nat, d \in Nat :
           h = Cardinality(heap) /\ p = Cardinality(Passing) /\ r = Len(ready) /\ d = Len(out)
    BY TypeParts, FS_CardinalityType, LenProperties DEF Base, CountInv, DataOK, LoopOK
  <2>6. k = h + r + p + d
    BY <1>2, <2>5 DEF SameInv
  <2>7. Cardinality(heap') = IF o.fast THEN h ELSE h + 1
    <3>1. e \notin heap
      <4>1. seq \in Nat /\ \A f \in heap : f.seq <= seq
        BY TypeParts DEF Base, QueueInv, DataOK
      <4> QED
        BY <1>11, <4>1
    <3> QED
      BY <1>12, <2>5, <3>1, FS_AddElement DEF Base, CountInv
  <2>8. Cardinality(Passing') = IF o.fast THEN p + 1 ELSE p
    <3>1. s \notin Passing
      BY <1>1 DEF Locking, Passing
    <3> QED
      BY <1>9, <2>5, <3>1, FS_AddElement DEF Base, CountInv
  <2>9. Len(order') = Cardinality(heap') + Len(ready') + Cardinality(Passing') + Len(out')
    <3>1. Len(ready') = r /\ Len(out') = d
      BY <1>1, <2>5
    <3> QED
      BY <1>4, <2>6, <2>7, <2>8, <3>1
  <2> QED
    BY <2>4, <2>9 DEF SameInv
<1> QED
  BY <1>15, <1>16
-----------------------------------------------------------------------------
\* The packet on the fast path is delivered.
LEMMA SendNowPlaces ==
  ASSUME Base, IdInv, PlaceInv, SameInv, NEW s \in Sender, SendNow(s)
  PROVE  IdInv' /\ PlaceInv' /\ SameInv'
<1>1. /\ s \in Passing /\ out' = Append(out, call[s].id) /\ call' = [call EXCEPT ![s] = Idle]
      /\ UNCHANGED <<clock, order, heap, seq, sends, ready>>
  BY DEF SendNow, Passing, envVars, sharedVars, loopVars
<1>2. Index' = Index
  BY <1>1 DEF Index
<1>3. /\ Passing' = Passing \ {s} /\ Locking' = Locking \ {s}
      /\ \A t \in Sender : t # s => call'[t] = call[t]
  BY <1>1, CallSet, IdleCall DEF Base
<1>4. s \notin Locking
  BY <1>1 DEF Passing, Locking
<1>5. \A t \in Locking' \cup Passing' : call'[t] = call[t]
  BY <1>3 DEF Passing, Locking
<1>6. IdInv'
  BY <1>1, <1>2, <1>3, <1>5 DEF IdInv
<1>7. PlaceInv'
  <2>1. (\A e \in heap : Filed(e))'
    BY <1>1, <1>2 DEF PlaceInv, Filed
  <2>2. (\A e \in ToSet(ready) : Filed(e) /\ e.due <= clock)'
    BY <1>1, <1>2 DEF PlaceInv, Filed
  <2>3. ASSUME NEW t \in Passing'
        PROVE  \E i \in Index' : order'[i].id = call'[t].id /\ order'[i].fast /\ order'[i].due <= clock'
    <3>1. t \in Passing /\ call'[t] = call[t]
      BY <1>3, <1>5, <2>3
    <3> QED
      BY <1>1, <1>2, <3>1 DEF PlaceInv
  <2> QED
    BY <2>1, <2>2, <2>3 DEF PlaceInv
<1>8. PICK x \in Packet : x = call[s].id
  <2>1. PICK c \in Calls : c = call[s]
    BY DEF Base
  <2>2. c.id \in Packet
    BY <1>1, <2>1, CallType DEF Passing
  <2> QED
    BY <2>1, <2>2
<1>9. PICK q \in Seq(Packet) : q = out
  BY TypeParts DEF DataOK
<1>10. ToSet(out') = ToSet(out) \cup {x} /\ Len(out') = Len(out) + 1
  BY <1>1, <1>8, <1>9, AppendSet
<1>11. SameInv'
  <2>1. Accepted' = Accepted /\ Delivered' = Delivered \cup {x}
    BY <1>1, <1>10 DEF Accepted, Delivered
  <2>2. {call[t].id : t \in Passing} = {call'[t].id : t \in Passing'} \cup {x}
    BY <1>1, <1>3, <1>5, <1>8
  <2>3. Held = Held' \cup {x}
    BY <1>1, <2>2 DEF Held
  <2>4. PICK h \in Nat, p \in Nat, r \in Nat, d \in Nat :
           h = Cardinality(heap) /\ p = Cardinality(Passing) /\ r = Len(ready) /\ d = Len(out)
    BY TypeParts, FS_CardinalityType, LenProperties DEF Base, CountInv, DataOK, LoopOK
  <2>5. Len(order) = h + r + p + d
    BY <2>4 DEF SameInv
  <2>6. Cardinality(Passing') = p - 1
    BY <1>1, <1>3, <2>4, FS_RemoveElement DEF Base, CountInv
  <2>7. h + r + p + d = h + r + (p - 1) + (d + 1)
    OBVIOUS
  <2>8. Len(order') = Cardinality(heap') + Len(ready') + Cardinality(Passing') + Len(out')
    BY <1>1, <1>10, <2>4, <2>5, <2>6, <2>7
  <2> QED
    BY <2>1, <2>3, <2>8 DEF SameInv
<1> QED
  BY <1>6, <1>7, <1>11

\* What is due is popped.
LEMMA PopPlaces ==
  ASSUME Base, IdInv, PlaceInv, SameInv, Pop
  PROVE  IdInv' /\ PlaceInv' /\ SameInv'
<1>1. /\ ready' \in Seq(Due) /\ ready = <<>> /\ Len(ready') = Cardinality(Due)
      /\ ToSet(ready') = Due /\ heap' = heap \ Due
      /\ Cardinality(heap) = Cardinality(heap') + Cardinality(Due)
      /\ IsFiniteSet(heap')
      /\ UNCHANGED <<clock, order, seq, call, sends, out>>
  BY PopEffect DEF envVars
<1>2. Index' = Index /\ Locking' = Locking /\ Passing' = Passing
  BY <1>1 DEF Index, Locking, Passing
<1>3. IdInv'
  BY <1>1, <1>2 DEF IdInv
<1>4. Due \subseteq heap
  BY DEF Due
<1>5. PlaceInv'
  <2>1. \A e \in heap : Filed(e)'
    BY <1>1, <1>2 DEF PlaceInv, Filed
  <2>2. ASSUME NEW e \in Due PROVE e.due <= clock
    <3>1. e.due <= lnow /\ e.due \in Nat
      BY <1>4, TypeParts DEF Due, DataOK, HeapRec
    <3>2. lnow <= clock /\ lnow \in Nat /\ clock \in Nat
      BY TypeParts, Bounds DEF Base, TimeInv, LoopOK, EnvOK
    <3> QED
      BY <3>1, <3>2
  <2> QED
    BY <1>1, <1>2, <1>4, <2>1, <2>2 DEF PlaceInv
<1>6. SameInv'
  <2>1. Accepted' = Accepted /\ Delivered' = Delivered
    BY <1>1 DEF Accepted, Delivered
  <2>2. {call'[t].id : t \in Passing'} = {call[t].id : t \in Passing}
    BY <1>1, <1>2
  <2>3. ToSet(ready) = {}
    BY <1>1 DEF ToSet
  <2>4. heap = heap' \cup ToSet(ready')
    BY <1>1, <1>4
  <2>5. Held' = Held
    BY <2>2, <2>3, <2>4 DEF Held
  <2>6. PICK h \in Nat, p \in Nat, u \in Nat, d \in Nat :
           h = Cardinality(heap') /\ p = Cardinality(Passing) /\ u = Len(ready') /\ d = Len(out)
    <3>1. Cardinality(heap') \in Nat /\ Cardinality(Passing) \in Nat
      BY <1>1, FS_CardinalityType DEF Base, CountInv
    <3>2. Len(ready') \in Nat /\ Len(out) \in Nat
      BY <1>1, TypeParts, LenProperties DEF DataOK
    <3> QED
      BY <3>1, <3>2
  <2>7. Len(ready) = 0
    BY <1>1
  <2>8. Len(order) = (h + u) + 0 + p + d
    BY <1>1, <2>6, <2>7 DEF SameInv
  <2>9. (h + u) + 0 + p + d = h + u + p + d
    OBVIOUS
  <2>10. Len(order') = Cardinality(heap') + Len(ready') + Cardinality(Passing') + Len(out')
    BY <1>1, <1>2, <2>6, <2>8, <2>9
  <2> QED
    BY <2>1, <2>5, <2>10 DEF SameInv
<1> QED
  BY <1>3, <1>5, <1>6

\* The next of what was popped is delivered.
LEMMA DeliverEffect ==
  ASSUME Base, DeliverNext
  PROVE  \E e \in HeapRec :
            /\ e = Head(ready) /\ ToSet(ready) = {e} \cup ToSet(ready')
            /\ Len(ready) = Len(ready') + 1 /\ Len(ready') \in Nat
            /\ e = ready[1] /\ \A i \in 1..Len(ready') : ready'[i] = ready[i + 1]
            /\ Delivered' = Delivered \cup {e.id} /\ Len(out') = Len(out) + 1
            /\ UNCHANGED <<clock, order, heap, seq, call, sends>>
<1>1. PICK q \in Seq(HeapRec) : q = ready
  BY TypeParts DEF LoopOK
<1>2. q # <<>> /\ ready' = Tail(q) /\ out' = Append(out, Head(q).id)
      /\ UNCHANGED <<clock, order, heap, seq, call, sends>>
  BY <1>1 DEF DeliverNext, envVars, sharedVars
<1>3. /\ ToSet(q) = {Head(q)} \cup ToSet(Tail(q))
      /\ Head(q) \in HeapRec /\ Tail(q) \in Seq(HeapRec) /\ Len(Tail(q)) + 1 = Len(q)
      /\ Head(q) = q[1] /\ \A i \in 1..Len(Tail(q)) : Tail(q)[i] = q[i + 1]
  BY <1>2, TailSet
<1>4. PICK e \in HeapRec : e = Head(q)
  BY <1>3
<1>5. e.id \in Packet
  BY DEF HeapRec
<1>6. PICK o \in Seq(Packet) : o = out
  BY TypeParts DEF DataOK
<1>7. ToSet(out') = ToSet(out) \cup {e.id} /\ Len(out') = Len(out) + 1
  BY <1>2, <1>4, <1>5, <1>6, AppendSet
<1>8. Len(Tail(q)) \in Nat
  BY <1>3, LenProperties
<1> QED
  BY <1>1, <1>2, <1>3, <1>4, <1>7, <1>8 DEF Delivered

LEMMA DeliverPlaces ==
  ASSUME Base, IdInv, PlaceInv, SameInv, DeliverNext
  PROVE  IdInv' /\ PlaceInv' /\ SameInv'
<1>1. PICK e \in HeapRec :
            /\ ToSet(ready) = {e} \cup ToSet(ready')
            /\ Len(ready) = Len(ready') + 1 /\ Len(ready') \in Nat
            /\ Delivered' = Delivered \cup {e.id} /\ Len(out') = Len(out) + 1
            /\ UNCHANGED <<clock, order, heap, seq, call, sends>>
  BY DeliverEffect
<1>2. Index' = Index /\ Locking' = Locking /\ Passing' = Passing
  BY <1>1 DEF Index, Locking, Passing
<1>3. IdInv'
  BY <1>1, <1>2 DEF IdInv
<1>4. PlaceInv'
  <2>1. (\A f \in heap : Filed(f))'
    BY <1>1, <1>2 DEF PlaceInv, Filed
  <2>2. \A f \in ToSet(ready') : Filed(f)' /\ f.due <= clock'
    BY <1>1, <1>2 DEF PlaceInv, Filed
  <2> QED
    BY <1>1, <1>2, <2>1, <2>2 DEF PlaceInv
<1>5. SameInv'
  <2>1. Accepted' = Accepted
    BY <1>1 DEF Accepted
  <2>2. {call'[t].id : t \in Passing'} = {call[t].id : t \in Passing}
    BY <1>1, <1>2
  <2>3. {p.id : p \in ToSet(ready)} = {e.id} \cup {p.id : p \in ToSet(ready')}
    BY <1>1
  <2>4. Held = Held' \cup {e.id}
    BY <1>1, <2>2, <2>3 DEF Held
  <2>5. PICK h \in Nat, p \in Nat, u \in Nat, d \in Nat :
           h = Cardinality(heap) /\ p = Cardinality(Passing) /\ u = Len(ready') /\ d = Len(out)
    BY <1>1, TypeParts, FS_CardinalityType, LenProperties DEF Base, CountInv, DataOK
  <2>6. Len(order) = h + (u + 1) + p + d
    BY <1>1, <2>5 DEF SameInv
  <2>7. h + (u + 1) + p + d = h + u + p + (d + 1)
    OBVIOUS
  <2>8. Len(order') = Cardinality(heap') + Len(ready') + Cardinality(Passing') + Len(out')
    BY <1>1, <1>2, <2>5, <2>6, <2>7
  <2> QED
    BY <1>1, <2>1, <2>4, <2>8 DEF SameInv
<1> QED
  BY <1>3, <1>4, <1>5

(* The invariant of the places.                                              *)
Places == Base /\ IdInv /\ PlaceInv /\ SameInv

LEMMA NextPlaces == Places /\ [Next]_vars => Places'
<1> SUFFICES ASSUME Places, [Next]_vars PROVE Places'
  OBVIOUS
<1>1. Base /\ Base'
  BY NextBase DEF Places
<1>2. CASE Quiet
  BY <1>1, <1>2, QuietPlaces DEF Places
<1>3. CASE Pop
  BY <1>1, <1>3, PopPlaces DEF Places
<1>4. CASE DeliverNext
  BY <1>1, <1>4, DeliverPlaces DEF Places
<1>5. ASSUME NEW s \in Sender, Begin(s) PROVE Places'
  BY <1>1, <1>5, BeginPlaces DEF Places
<1>6. ASSUME NEW s \in Sender, Admit(s) PROVE Places'
  BY <1>1, <1>6, AdmitIds, AdmitPlaces DEF Places
<1>7. ASSUME NEW s \in Sender, SendNow(s) PROVE Places'
  BY <1>1, <1>7, SendNowPlaces DEF Places
<1> QED
  BY <1>1, <1>2, <1>3, <1>4, <1>5, <1>6, <1>7, NextCases

\* For any senders, profiles and bounds, through changes of the profile and the
\* end of the link: a packet that passed the lock is in one place or delivered
\* once (shaper.go's send and loop).
THEOREM ConservedSound == Spec => []Conserved
<1>1. Init => Places
  BY InitBase, InitPlaces DEF Places
<1>2. Places /\ [Next]_vars => Places'
  BY NextPlaces
<1>3. Places => Conserved
  BY DEF Places, Base, SameInv, Conserved
<1> QED
  BY <1>1, <1>2, <1>3, PTL DEF Spec

\* The entry of a packet is the one with its number.
LEMMA EntryOf ==
  ASSUME Places, NEW i \in Index
  PROVE  Entry(order[i].id) = order[i]
<1>1. ToSet(order) = {order[j] : j \in Index}
  BY TypeParts DEF Places, DataOK, Index, ToSet
<1>2. order[i] \in ToSet(order)
  BY <1>1
<1>3. \A e \in ToSet(order) : e.id = order[i].id => e = order[i]
  BY <1>1 DEF Places, IdInv
<1> QED
  BY <1>2, <1>3 DEF Entry

\* What a step delivers was due when the loop, or its sender, read the clock.
LEMMA StepNotEarly ==
  ASSUME Places, [Next]_vars, NEW p \in Delivered' \ Delivered
  PROVE  clock >= Entry(p).due
<1>1. clock \in Nat
  BY TypeParts, Bounds DEF Places, EnvOK
<1>2. CASE DeliverNext
  <2>1. PICK e \in HeapRec : ToSet(ready) = {e} \cup ToSet(ready') /\ Delivered' = Delivered \cup {e.id}
    BY <1>2, DeliverEffect DEF Places
  <2>2. p = e.id /\ e \in ToSet(ready)
    BY <2>1
  <2>3. e.due <= clock /\ \E i \in Index : order[i].id = e.id /\ order[i].due = e.due
    BY <2>2 DEF Places, PlaceInv, Filed
  <2>4. PICK i \in Index : order[i].id = p /\ order[i].due = e.due
    BY <2>2, <2>3
  <2>5. Entry(p).due = e.due /\ e.due \in Nat
    BY <2>4, EntryOf DEF HeapRec
  <2> QED
    BY <1>1, <2>3, <2>5
<1>3. ASSUME NEW s \in Sender, SendNow(s) PROVE clock >= Entry(p).due
  <2>1. s \in Passing /\ out' = Append(out, call[s].id)
    BY <1>3 DEF SendNow, Passing
  <2>2. PICK i \in Index : order[i].id = call[s].id /\ order[i].fast /\ order[i].due <= clock
    BY <2>1 DEF Places, PlaceInv
  <2>3. p = call[s].id
    <3>1. PICK q \in Seq(Packet), x \in Packet : q = out /\ x = call[s].id
      BY <2>2, TypeParts, OrderType DEF Places, DataOK
    <3>2. ToSet(Append(q, x)) = ToSet(q) \cup {x}
      BY AppendSet
    <3> QED
      BY <2>1, <3>1, <3>2 DEF Delivered
  <2>4. Entry(p) = order[i] /\ order[i].due \in Nat
    BY <2>2, <2>3, EntryOf, OrderType DEF Places
  <2> QED
    BY <1>1, <2>2, <2>4
<1>4. Delivered' = Delivered \/ DeliverNext \/ \E s \in Sender : SendNow(s)
  <2>1. CASE Quiet
    BY <2>1 DEF Quiet, Delivered
  <2>2. CASE Pop
    BY <2>2 DEF Pop, Delivered
  <2>3. ASSUME NEW s \in Sender, Begin(s) \/ Admit(s) PROVE Delivered' = Delivered
    BY <2>3 DEF Begin, Admit, Delivered
  <2> QED
    BY <2>1, <2>2, <2>3, NextCases DEF Places
<1> QED
  BY <1>2, <1>3, <1>4

\* However old the loop's and the senders' readings of the clock are, no packet
\* is delivered before it is due (shaper.go's loop and fast path).
THEOREM NeverEarly == Spec => NotEarly
<1>1. Init => Places
  BY InitBase, InitPlaces DEF Places
<1>2. Places /\ [Next]_vars => Places'
  BY NextPlaces
<1>3. Places /\ [Next]_vars => [\A p \in Delivered' \ Delivered : clock >= Entry(p).due]_vars
  BY StepNotEarly
<1> QED
  BY <1>1, <1>2, <1>3, PTL DEF Spec, NotEarly
-----------------------------------------------------------------------------
(* The order of the queued.  In the heap sequence numbers grow in the order  *)
(* of the lock, and what was popped has behind it nothing that must come     *)
(* first.                                                                    *)
Pair(i, j) == /\ i < j /\ order[i].due <= order[j].due
              /\ ~order[i].fast /\ ~order[j].fast

HeapOrder == \A e, f \in heap : \A i, j \in Index :
    order[i].id = e.id /\ order[j].id = f.id /\ i < j => e.seq < f.seq

ReadyOrder == \A i, j \in Index : Pair(i, j) =>
    \A b \in 1..Len(ready) : ready[b].id = order[j].id =>
        \/ order[i].id \in Delivered
        \/ \E a \in 1..Len(ready) : a < b /\ ready[a].id = order[i].id

DoneOrder == \A i, j \in Index :
    Pair(i, j) /\ order[j].id \in Delivered => order[i].id \in Delivered

OrderInv == HeapOrder /\ ReadyOrder /\ DoneOrder

LEMMA InitOrder == Init => OrderInv
<1> SUFFICES ASSUME Init PROVE OrderInv
  OBVIOUS
<1>1. order = <<>>
  BY DEF Init
<1>2. Index = {}
  BY <1>1 DEF Index
<1> QED
  BY <1>2 DEF OrderInv, HeapOrder, ReadyOrder, DoneOrder

\* An entry of the heap is due when its packet is.
LEMMA HeapEntry ==
  ASSUME Places, NEW e \in heap, NEW i \in Index, order[i].id = e.id
  PROVE  order[i].due = e.due /\ ~order[i].fast
<1>1. PICK j \in Index : order[j].id = e.id /\ order[j].due = e.due /\ ~order[j].fast
  BY DEF Places, PlaceInv, Filed
<1>2. i = j
  BY <1>1 DEF Places, IdInv
<1> QED
  BY <1>1, <1>2

LEMMA SameOrder ==
  ASSUME OrderInv, UNCHANGED <<order, heap, ready>>, Delivered' = Delivered
  PROVE  OrderInv'
<1>1. Index' = Index
  BY DEF Index
<1>2. \A i, j : Pair(i, j)' <=> Pair(i, j)
  BY DEF Pair
<1>3. HeapOrder'
  BY <1>1 DEF OrderInv, HeapOrder
<1>4. ReadyOrder'
  BY <1>1, <1>2 DEF OrderInv, ReadyOrder
<1>5. DoneOrder'
  BY <1>1, <1>2 DEF OrderInv, DoneOrder
<1> QED
  BY <1>3, <1>4, <1>5 DEF OrderInv

\* A packet on the fast path is not queued.
LEMMA SendNowOrder ==
  ASSUME Places, OrderInv, NEW s \in Sender, SendNow(s)
  PROVE  OrderInv'
<1>1. s \in Passing /\ out' = Append(out, call[s].id) /\ UNCHANGED <<order, heap, ready>>
  BY DEF SendNow, Passing, sharedVars, loopVars
<1>2. PICK k \in Index : order[k].id = call[s].id /\ order[k].fast
  BY <1>1 DEF Places, PlaceInv
<1>3. Delivered' = Delivered \cup {order[k].id}
  <2>1. PICK q \in Seq(Packet), x \in Packet : q = out /\ x = order[k].id
    BY TypeParts, OrderType DEF Places, DataOK
  <2>2. ToSet(Append(q, x)) = ToSet(q) \cup {x}
    BY AppendSet
  <2> QED
    BY <1>1, <1>2, <2>1, <2>2 DEF Delivered
<1>4. Index' = Index
  BY <1>1 DEF Index
<1>5. \A i, j : Pair(i, j)' <=> Pair(i, j)
  BY <1>1 DEF Pair
<1>6. HeapOrder'
  BY <1>1, <1>4 DEF OrderInv, HeapOrder
<1>7. ReadyOrder'
  BY <1>1, <1>3, <1>4, <1>5 DEF OrderInv, ReadyOrder
<1>8. DoneOrder'
  <2> SUFFICES ASSUME NEW i \in Index, NEW j \in Index, Pair(i, j), order[j].id \in Delivered'
               PROVE  order[i].id \in Delivered'
    BY <1>1, <1>4, <1>5 DEF DoneOrder
  <2>1. order[j].id # order[k].id
    <3>1. ~order[j].fast
      BY DEF Pair
    <3> QED
      BY <1>2, <3>1 DEF Places, IdInv
  <2>2. order[j].id \in Delivered
    BY <1>3, <2>1
  <2> QED
    BY <1>3, <2>2 DEF OrderInv, DoneOrder
<1> QED
  BY <1>6, <1>7, <1>8 DEF OrderInv

\* The first of what was popped has nothing before it.
LEMMA DeliverOrder ==
  ASSUME Places, OrderInv, DeliverNext
  PROVE  OrderInv'
<1>1. PICK e \in HeapRec :
            /\ Len(ready) = Len(ready') + 1 /\ Len(ready') \in Nat
            /\ e = ready[1] /\ \A i \in 1..Len(ready') : ready'[i] = ready[i + 1]
            /\ Delivered' = Delivered \cup {e.id}
            /\ UNCHANGED <<order, heap>>
  BY DeliverEffect DEF Places
<1>2. PICK n \in Nat : n = Len(ready')
  BY <1>1
<1>3. Len(ready) = n + 1
  BY <1>1, <1>2
<1>4. Index' = Index
  BY <1>1 DEF Index
<1>5. \A i, j : Pair(i, j)' <=> Pair(i, j)
  BY <1>1 DEF Pair
<1>6. HeapOrder'
  BY <1>1, <1>4 DEF OrderInv, HeapOrder
<1>7. ASSUME NEW i \in Index, NEW j \in Index, Pair(i, j), NEW b \in 1..n + 1, ready[b].id = order[j].id
      PROVE  \/ order[i].id \in Delivered
             \/ \E a \in 1..n + 1 : a < b /\ ready[a].id = order[i].id
  BY <1>3, <1>7 DEF OrderInv, ReadyOrder
<1>8. ReadyOrder'
  <2> SUFFICES ASSUME NEW i \in Index, NEW j \in Index, Pair(i, j),
                      NEW b \in 1..n, ready'[b].id = order[j].id
               PROVE  \/ order[i].id \in Delivered'
                      \/ \E a \in 1..n : a < b /\ ready'[a].id = order[i].id
    BY <1>1, <1>2, <1>4, <1>5 DEF ReadyOrder
  <2>1. b + 1 \in 1..n + 1 /\ ready[b + 1].id = order[j].id
    BY <1>1, <1>2
  <2>2. CASE order[i].id \in Delivered
    BY <1>1, <2>2
  <2>3. ASSUME NEW a \in 1..n + 1, a < b + 1, ready[a].id = order[i].id
        PROVE  \/ order[i].id \in Delivered'
               \/ \E c \in 1..n : c < b /\ ready'[c].id = order[i].id
    <3>1. CASE a = 1
      BY <1>1, <2>3, <3>1
    <3>2. CASE a # 1
      <4>1. a - 1 \in 1..n /\ a - 1 < b /\ (a - 1) + 1 = a
        BY <2>3, <3>2
      <4>2. ready'[a - 1] = ready[a]
        BY <1>1, <1>2, <4>1
      <4> QED
        BY <2>3, <4>1, <4>2
    <3> QED
      BY <3>1, <3>2
  <2> QED
    BY <1>7, <2>1, <2>2, <2>3
<1>9. DoneOrder'
  <2> SUFFICES ASSUME NEW i \in Index, NEW j \in Index, Pair(i, j), order[j].id \in Delivered'
               PROVE  order[i].id \in Delivered'
    BY <1>1, <1>4, <1>5 DEF DoneOrder
  <2>1. CASE order[j].id \in Delivered
    BY <1>1, <2>1 DEF OrderInv, DoneOrder
  <2>2. CASE order[j].id = e.id
    <3>1. 1 \in 1..n + 1 /\ ready[1].id = order[j].id
      BY <1>1, <2>2
    <3>2. order[i].id \in Delivered
      BY <1>7, <3>1
    <3> QED
      BY <1>1, <3>2
  <2> QED
    BY <1>1, <2>1, <2>2
<1> QED
  BY <1>6, <1>8, <1>9 DEF OrderInv

\* What is popped is popped in the heap's order, and whatever was to come before
\* it is popped with it.
LEMMA PopOrder ==
  ASSUME Places, OrderInv, Pop
  PROVE  OrderInv'
<1>1. /\ ready' \in Seq(Due) /\ ready = <<>> /\ ToSet(ready') = Due
      /\ Sorted(ready', Len(ready')) /\ heap' = heap \ Due
      /\ UNCHANGED <<order, out>>
  BY PopEffect DEF Places
<1>2. PICK n \in Nat : n = Len(ready')
  BY <1>1, LenProperties
<1>3. Due = {ready'[a] : a \in 1..n}
  BY <1>1, <1>2, LenProperties DEF ToSet
<1>4. \A a, b \in 1..n : a < b => Before(ready'[a], ready'[b])
  BY <1>1, <1>2 DEF Sorted
<1>5. Index' = Index /\ Delivered' = Delivered
  BY <1>1 DEF Index, Delivered
<1>6. \A i, j : Pair(i, j)' <=> Pair(i, j)
  BY <1>1 DEF Pair
<1>7. HeapOrder'
  BY <1>1, <1>5 DEF OrderInv, HeapOrder
<1>8. DoneOrder'
  BY <1>1, <1>5, <1>6 DEF OrderInv, DoneOrder
<1>9. ReadyOrder'
  <2> SUFFICES ASSUME NEW i \in Index, NEW j \in Index, Pair(i, j),
                      NEW b \in 1..n, ready'[b].id = order[j].id,
                      order[i].id \notin Delivered
               PROVE  \E a \in 1..n : a < b /\ ready'[a].id = order[i].id
    BY <1>1, <1>2, <1>5, <1>6 DEF ReadyOrder
  <2>1. PICK f \in Due : f = ready'[b]
    BY <1>3
  <2>2. f \in heap /\ f.due <= lnow /\ f \in HeapRec
    BY TypeParts DEF Due, Places, DataOK
  <2>3. order[j].due = f.due
    BY <2>1, <2>2, HeapEntry
  <2>4. order[i].id \in Held
    <3>1. order[i].id \in Accepted
      BY DEF Accepted, Index
    <3> QED
      BY <3>1 DEF Places, SameInv
  <2>5. PICK e \in heap : e.id = order[i].id
    <3>1. order[i].id \notin {p.id : p \in ToSet(ready)}
      BY <1>1 DEF ToSet
    <3>2. ASSUME NEW s \in Passing, call[s].id = order[i].id PROVE FALSE
      <4>1. PICK k \in Index : order[k].id = call[s].id /\ order[k].fast
        BY DEF Places, PlaceInv
      <4>2. k = i
        BY <3>2, <4>1 DEF Places, IdInv
      <4> QED
        BY <4>1, <4>2 DEF Pair
    <3> QED
      BY <2>4, <3>1, <3>2 DEF Held
  <2>6. e.due = order[i].due /\ e.seq < f.seq
    <3>1. e.due = order[i].due
      BY <2>5, HeapEntry
    <3>2. order[j].id = f.id /\ i < j
      BY <2>1 DEF Pair
    <3> QED
      BY <2>2, <2>5, <3>1, <3>2 DEF OrderInv, HeapOrder
  <2>7. /\ e.due <= f.due /\ e.due \in Nat /\ f.due \in Nat /\ e.seq \in Nat /\ f.seq \in Nat
        /\ lnow \in Nat
    <3>1. e \in HeapRec
      BY <2>5, TypeParts DEF Places, DataOK
    <3>2. HeapRec \subseteq Queued
      BY Bounds DEF HeapRec, Queued, Packet
    <3>3. /\ e.due \in Nat /\ f.due \in Nat /\ e.seq \in Nat /\ f.seq \in Nat
      BY <2>2, <3>1, <3>2 DEF Queued
    <3>4. lnow \in Nat
      BY TypeParts, Bounds DEF Places, LoopOK
    <3> QED
      BY <2>3, <2>6, <3>3, <3>4 DEF Pair
  <2>8. e \in Due
    BY <2>2, <2>5, <2>7 DEF Due
  <2>9. PICK a \in 1..n : ready'[a] = e
    BY <1>3, <2>8
  <2>10. ~Before(f, e) /\ e # f
    BY <2>6, <2>7 DEF Before
  <2>11. a # b /\ ~(b < a)
    BY <1>4, <2>1, <2>9, <2>10
  <2>12. a < b
    BY <2>11
  <2> QED
    BY <2>5, <2>9, <2>12
<1> QED
  BY <1>7, <1>8, <1>9 DEF OrderInv

\* The packet that passes the lock is last in every order there is.
LEMMA AdmitOrder ==
  ASSUME Places, OrderInv, NEW s \in Sender, Admit(s)
  PROVE  OrderInv'
<1>1. PICK o \in OrderRec :
            /\ order' = Append(order, o) /\ s \in Locking /\ o.id = call[s].id
            /\ o.fast => heap' = heap
            /\ ~o.fast => heap' = heap \cup {[id |-> o.id, due |-> o.due, seq |-> seq + 1]}
            /\ UNCHANGED <<ready, out>>
  BY AdmitEffect DEF Places, loopVars
<1>2. PICK k \in Nat : k = Len(order)
  BY LenProperties, TypeParts DEF Places, DataOK
<1>3. PICK q \in Seq(OrderRec) : q = order
  BY TypeParts DEF Places, DataOK
<1>4. /\ Len(order') = k + 1 /\ order'[k + 1] = o
      /\ \A i \in 1..k : order'[i] = order[i]
  BY <1>1, <1>2, <1>3, AppendProperties
<1>5. Index = 1..k /\ Index' = 1..k + 1
  BY <1>2, <1>4 DEF Index
<1>6. \A i \in Index : order[i].id # o.id
  BY <1>1 DEF Places, IdInv
<1>7. Delivered' = Delivered
  BY <1>1 DEF Delivered
<1>8. o.id \notin Delivered /\ \A b \in 1..Len(ready) : ready[b].id # o.id
  <2>1. o.id \notin Accepted
    BY <1>6 DEF Accepted, Index
  <2>2. o.id \notin Delivered /\ o.id \notin {p.id : p \in ToSet(ready)}
    BY <2>1 DEF Places, SameInv, Held
  <2>3. ToSet(ready) = {ready[b] : b \in 1..Len(ready)}
    BY TypeParts DEF ToSet, Places, LoopOK
  <2> QED
    BY <2>2, <2>3
<1>9. \A i, j \in 1..k : Pair(i, j)' <=> Pair(i, j)
  BY <1>4 DEF Pair
<1>10. \A i, j \in Index' : Pair(i, j)' => i \in Index /\ (j \in Index \/ j = k + 1)
  <2> SUFFICES ASSUME NEW i \in 1..k + 1, NEW j \in 1..k + 1, i < j PROVE i \in 1..k /\ (j \in 1..k \/ j = k + 1)
    BY <1>5 DEF Pair
  <2>1. j <= k + 1 /\ i \in Int /\ j \in Int /\ 1 <= i /\ 1 <= j
    OBVIOUS
  <2>2. i <= k /\ (j <= k \/ j = k + 1)
    BY <2>1
  <2> QED
    BY <2>1, <2>2
<1>11. ReadyOrder'
  <2> SUFFICES ASSUME NEW i \in Index', NEW j \in Index', Pair(i, j)',
                      NEW b \in 1..Len(ready), ready[b].id = order'[j].id
               PROVE  \/ order'[i].id \in Delivered
                      \/ \E a \in 1..Len(ready) : a < b /\ ready[a].id = order'[i].id
    <3>1. ready' = ready
      BY <1>1
    <3> QED
      BY <1>7, <3>1 DEF ReadyOrder
  <2>1. CASE j \in Index
    <3>1. i \in Index /\ Pair(i, j) /\ order'[i] = order[i] /\ order'[j] = order[j]
      BY <1>4, <1>5, <1>9, <1>10, <2>1
    <3> QED
      BY <2>1, <3>1 DEF OrderInv, ReadyOrder
  <2>2. CASE j = k + 1
    BY <1>4, <1>8, <2>2
  <2> QED
    BY <1>10, <2>1, <2>2
<1>12. DoneOrder'
  <2> SUFFICES ASSUME NEW i \in Index', NEW j \in Index', Pair(i, j)', order'[j].id \in Delivered
               PROVE  order'[i].id \in Delivered
    BY <1>7 DEF DoneOrder
  <2>1. CASE j \in Index
    <3>1. i \in Index /\ Pair(i, j) /\ order'[i] = order[i] /\ order'[j] = order[j]
      BY <1>4, <1>5, <1>9, <1>10, <2>1
    <3> QED
      BY <2>1, <3>1 DEF OrderInv, DoneOrder
  <2>2. CASE j = k + 1
    BY <1>4, <1>8, <2>2
  <2> QED
    BY <1>10, <2>1, <2>2
<1>13. HeapOrder'
  <2>1. PICK n : n = [id |-> o.id, due |-> o.due, seq |-> seq + 1]
    OBVIOUS
  <2>2. n.id = o.id /\ n.seq = seq + 1
    BY <2>1
  <2>3. heap' \subseteq heap \cup {n}
    BY <1>1, <2>1
  <2>4. \A e \in heap : e.id # o.id
    BY <1>6 DEF Places, PlaceInv, Filed
  <2>5. seq \in Nat /\ \A e \in heap : e.seq \in Nat /\ e.seq < seq + 1
    <3>1. seq \in Nat /\ heap \subseteq HeapRec /\ \A e \in heap : e.seq <= seq
      BY TypeParts DEF Places, Base, QueueInv, DataOK
    <3>2. \A e \in heap : e.seq \in Nat
      BY <3>1, Bounds DEF HeapRec, Packet
    <3> QED
      BY <3>1, <3>2
  <2> SUFFICES ASSUME NEW e \in heap', NEW f \in heap', NEW i \in Index', NEW j \in Index',
                      order'[i].id = e.id, order'[j].id = f.id, i < j
               PROVE  e.seq < f.seq
    BY DEF HeapOrder
  <2>6. i \in 1..k /\ order'[i] = order[i]
    BY <1>4, <1>5
  <2>7. e \in heap
    BY <1>5, <1>6, <2>2, <2>3, <2>6
  <2>8. CASE j \in 1..k
    <3>1. order'[j] = order[j]
      BY <1>4, <2>8
    <3>2. f \in heap
      BY <1>5, <1>6, <2>2, <2>3, <2>8, <3>1
    <3> QED
      BY <1>5, <2>6, <2>7, <2>8, <3>1, <3>2 DEF OrderInv, HeapOrder
  <2>9. CASE j = k + 1
    <3>1. f = n
      BY <1>4, <2>3, <2>4, <2>9
    <3> QED
      BY <2>2, <2>5, <2>7, <3>1
  <2> QED
    BY <1>5, <2>8, <2>9
<1> QED
  BY <1>11, <1>12, <1>13 DEF OrderInv

LEMMA NextOrder == Places /\ OrderInv /\ [Next]_vars => OrderInv'
<1> SUFFICES ASSUME Places, OrderInv, [Next]_vars PROVE OrderInv'
  OBVIOUS
<1>1. CASE Quiet
  BY <1>1, SameOrder DEF Quiet, Delivered
<1>2. ASSUME NEW s \in Sender, Begin(s) PROVE OrderInv'
  BY <1>2, SameOrder DEF Begin, sharedVars, loopVars, Delivered
<1> QED
  BY <1>1, <1>2, PopOrder, DeliverOrder, AdmitOrder, SendNowOrder, NextCases DEF Places

\* For any senders and links, through changes of delay, jitter and rate: of two
\* queued packets the one accepted first and due no later is delivered first.
THEOREM QueueSound == Spec => []QueuedInOrder
<1>1. Init => Places /\ OrderInv
  BY InitBase, InitPlaces, InitOrder DEF Places
<1>2. Places /\ OrderInv /\ [Next]_vars => (Places /\ OrderInv)'
  BY NextPlaces, NextOrder
<1>3. Places /\ OrderInv => QueuedInOrder
  BY DEF OrderInv, DoneOrder, Pair, QueuedInOrder, Index
<1> QED
  BY <1>1, <1>2, <1>3, PTL DEF Spec
-----------------------------------------------------------------------------
(* The rate cap.  nextFree is the end of the last packet's serialisation, so *)
(* no packet begins before it; and it is never further ahead than a packet   *)
(* that was let in may have put it.                                          *)
Longest == Max({q.tx : q \in Profiles})

CapInv ==
    /\ \A i \in Index : order[i].tx > 0 => order[i].slot + order[i].tx <= nextFree
    /\ \A i, j \in Index :
          i < j /\ order[i].tx > 0 /\ order[j].tx > 0 => order[j].slot >= order[i].slot + order[i].tx
    /\ nextFree <= clock + MaxQueue + Longest

\* Some profile is slowest.
LEMMA LongestIs ==
  ASSUME Profiles # {}
  PROVE  Longest \in Nat /\ \A q \in Profiles : q.tx <= Longest
<1> DEFINE T == {q.tx : q \in Profiles}
<1>1. T \in SUBSET Nat /\ T # {}
  BY ProfileType
<1>2. IsFiniteSet(T)
  <2> DEFINE f == [q \in Profiles |-> q.tx]
  <2>1. f \in Surjection(Profiles, T)
    BY DEF Surjection
  <2>2. IsFiniteSet(Profiles)
    BY ShaperAssumption
  <2> QED
    BY <2>1, <2>2, FS_Surjection
<1>3. Max(T) \in T /\ \A y \in T : y <= Max(T)
  BY <1>1, <1>2, MaxEffect
<1> QED
  BY <1>1, <1>3 DEF Longest

LEMMA SomeProfile == Base => Profiles # {}
  BY TypeParts DEF EnvOK

LEMMA InitCap == Init => CapInv
<1> SUFFICES ASSUME Init PROVE CapInv
  OBVIOUS
<1>1. Index = {}
  BY DEF Init, Index
<1>2. nextFree = 0 /\ clock = 0 /\ Profiles # {}
  BY DEF Init
<1>3. Longest \in Nat
  BY <1>2, LongestIs
<1> QED
  BY <1>1, <1>2, <1>3, Bounds DEF CapInv

\* A step after which nextFree is what it was.
LEMMA SameCap ==
  ASSUME Base, CapInv, Base', UNCHANGED <<order, nextFree>>, clock <= clock'
  PROVE  CapInv'
<1>1. Index' = Index /\ Longest' = Longest
  BY DEF Index, Longest
<1>2. nextFree' <= clock' + MaxQueue + Longest
  <2>1. PICK x \in Nat, y \in Nat, f \in Nat, m \in Nat :
           x = clock /\ y = clock' /\ f = nextFree /\ m = Longest
    <3>1. clock \in Nat /\ nextFree \in Nat
      BY TypeParts, Bounds DEF EnvOK, DataOK
    <3>2. clock' \in Nat
      BY TypePartsNext, Bounds DEF EnvOK
    <3> QED
      BY <3>1, <3>2, SomeProfile, LongestIs
  <2>2. f <= x + MaxQueue + m /\ x <= y
    BY <2>1 DEF CapInv
  <2>3. f <= y + MaxQueue + m
    BY <2>2, Bounds
  <2> QED
    BY <2>1, <2>3
<1> QED
  BY <1>1, <1>2 DEF CapInv

\* A packet is dropped when the link is behind, and leaves it as it is.
LEMMA DropSame ==
  ASSUME Base, NEW s \in Sender, Drop(s)
  PROVE  nextFree' = nextFree
<1>1. PICK c \in Calls : c = call[s]
  BY DEF Base
<1>2. c.at = "lock" /\ Full(c) /\ nextFree' = Free(c.now)
  BY <1>1 DEF Drop
<1>3. c.now \in Nat /\ nextFree \in Nat
  BY <1>2, CallType, TypeParts, Bounds DEF DataOK
<1>4. Free(c.now) - c.now > MaxQueue
  BY <1>2 DEF Full
<1> QED
  BY <1>2, <1>3, <1>4, Bounds DEF Free

\* A packet that passes the lock under a cap begins when the link is free.
LEMMA AdmitCap ==
  ASSUME Base, CapInv, NEW s \in Sender, Admit(s)
  PROVE  CapInv'
<1>1. PICK o \in OrderRec :
            /\ order' = Append(order, o) /\ s \in Locking
            /\ o.slot = Slot(call[s]) /\ o.tx = call[s].prof.tx /\ ~Full(call[s])
            /\ nextFree' = IF o.tx > 0 THEN o.slot + o.tx ELSE nextFree
            /\ clock' = clock
  BY AdmitEffect DEF envVars
<1>2. PICK c \in Calls : c = call[s]
  BY DEF Base
<1>3. c.now \in Nat /\ c.prof \in Profiles /\ c.now <= clock
  BY <1>1, <1>2, CallType, Bounds DEF Locking, Base, TimeInv
<1>4. PICK n \in Nat, t \in Nat, f \in Nat, now \in Nat, m \in Nat :
         n = o.slot /\ t = o.tx /\ f = nextFree /\ now = c.now /\ m = Longest
  BY <1>3, TypeParts, SomeProfile, LongestIs DEF OrderRec, DataOK
<1>5. t <= m
  BY <1>1, <1>2, <1>3, <1>4, SomeProfile, LongestIs
<1>6. t > 0 => n >= f /\ n <= now + MaxQueue
  <2> SUFFICES ASSUME t > 0 PROVE n >= f /\ n <= now + MaxQueue
    OBVIOUS
  <2>1. Capped(c)
    BY <1>1, <1>2, <1>4 DEF Capped
  <2>2. n = Free(now) /\ ~(Free(now) - now > MaxQueue)
    BY <1>1, <1>2, <1>4, <2>1 DEF Slot, Full
  <2>3. Free(now) = IF f > now THEN f ELSE now
    BY <1>4 DEF Free
  <2> QED
    BY <2>2, <2>3, Bounds
<1>7. PICK k \in Nat : k = Len(order)
  BY LenProperties, TypeParts DEF DataOK
<1>8. PICK q \in Seq(OrderRec) : q = order
  BY TypeParts DEF DataOK
<1>9. /\ Len(order') = k + 1 /\ order'[k + 1] = o
      /\ \A i \in 1..k : order'[i] = order[i]
  BY <1>1, <1>7, <1>8, AppendProperties
<1>10. Index = 1..k /\ Index' = 1..k + 1
  BY <1>7, <1>9 DEF Index
<1>11. nextFree' = (IF t > 0 THEN n + t ELSE f) /\ nextFree' >= f /\ nextFree' \in Nat
  BY <1>1, <1>4, <1>6
<1>12. ASSUME NEW i \in Index', order'[i].tx > 0 PROVE order'[i].slot + order'[i].tx <= nextFree'
  <2>1. CASE i \in 1..k
    <3>1. /\ order'[i] = order[i] /\ order[i].slot + order[i].tx <= f
          /\ order[i].slot \in Nat /\ order[i].tx \in Nat
      BY <1>4, <1>9, <1>10, <1>12, <2>1, OrderType DEF CapInv
    <3> QED
      BY <1>11, <3>1
  <2>2. CASE i = k + 1
    BY <1>4, <1>9, <1>11, <1>12, <2>2
  <2> QED
    BY <1>10, <1>12, <2>1, <2>2
<1>13. ASSUME NEW i \in Index', NEW j \in Index', i < j, order'[i].tx > 0, order'[j].tx > 0
       PROVE  order'[j].slot >= order'[i].slot + order'[i].tx
  <2>1. i \in 1..k /\ (j \in 1..k \/ j = k + 1) /\ order'[i] = order[i]
    BY <1>9, <1>10, <1>13
  <2>2. CASE j \in 1..k
    BY <1>9, <1>10, <1>13, <2>1, <2>2 DEF CapInv
  <2>3. CASE j = k + 1
    <3>1. order'[j].slot = n /\ n >= f
      BY <1>4, <1>6, <1>9, <1>13, <2>3
    <3>2. /\ order[i].slot + order[i].tx <= f
          /\ order[i].slot \in Nat /\ order[i].tx \in Nat
      BY <1>4, <1>10, <1>13, <2>1, OrderType DEF CapInv
    <3> QED
      BY <2>1, <3>1, <3>2
  <2> QED
    BY <2>1, <2>2, <2>3
<1>14. nextFree' <= clock' + MaxQueue + Longest
  <2>1. PICK x \in Nat : x = clock
    BY TypeParts, Bounds DEF EnvOK
  <2>2. f <= x + MaxQueue + m /\ now <= x
    BY <1>3, <1>4, <2>1 DEF CapInv
  <2>3. nextFree' <= x + MaxQueue + m
    BY <1>5, <1>6, <1>11, <2>2, Bounds
  <2> QED
    BY <1>1, <1>4, <2>1, <2>3
<1> QED
  BY <1>12, <1>13, <1>14 DEF CapInv, Longest

LEMMA NextCap == Base /\ CapInv /\ [Next]_vars => CapInv'
<1> SUFFICES ASSUME Base, CapInv, [Next]_vars PROVE CapInv'
  OBVIOUS
<1>1. Base'
  BY NextBase
<1>2. ASSUME NEW s \in Sender, Admit(s) PROVE CapInv'
  BY <1>2, AdmitCap
<1>3. ASSUME UNCHANGED <<order, nextFree>>, clock' = clock PROVE CapInv'
  <2>1. clock <= clock'
    BY <1>3, TypeParts, Bounds DEF EnvOK
  <2> QED
    BY <1>1, <1>3, <2>1, SameCap
<1>4. CASE Tick
  <2>1. clock <= clock' /\ UNCHANGED <<order, nextFree>>
    BY <1>4, TypeParts, Bounds DEF Tick, EnvOK, sharedVars
  <2> QED
    BY <1>1, <2>1, SameCap
<1>5. CASE Apply \/ Close
  BY <1>3, <1>5 DEF Apply, Close, sharedVars
<1>6. CASE Loop
  BY <1>3, <1>6 DEF Loop, Look, Pop, DeliverNext, Arm, Woken, Expired, Quit, envVars, sharedVars
<1>7. ASSUME NEW s \in Sender, Begin(s) \/ SendNow(s) \/ WakeLoop(s) PROVE CapInv'
  BY <1>3, <1>7 DEF Begin, SendNow, WakeLoop, envVars, sharedVars
<1>8. ASSUME NEW s \in Sender, Drop(s) PROVE CapInv'
  BY <1>3, <1>8, DropSame DEF Drop, envVars
<1>9. CASE UNCHANGED vars
  BY <1>3, <1>9 DEF vars, envVars, sharedVars
<1> QED
  BY <1>2, <1>4, <1>5, <1>6, <1>7, <1>8, <1>9 DEF Next, Finish

\* For any senders, queue bound and set of links: under a cap the link sends one
\* packet at a time, and no packet is let in to wait longer than maxQueueDelay.
THEOREM CapSound == Spec => []RateCap
<1>1. Init => Base /\ CapInv
  BY InitBase, InitCap
<1>2. Base /\ CapInv /\ [Next]_vars => (Base /\ CapInv)'
  BY NextBase, NextCap
<1>3. Base /\ CapInv => RateCap
  BY DEF CapInv, RateCap, Index, Longest
<1> QED
  BY <1>1, <1>2, <1>3, PTL DEF Spec
===============================================================================
