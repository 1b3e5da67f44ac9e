------------------------------ MODULE Recorder ------------------------------
(***************************************************************************)
(* The recorder of one viewer session (internal/loadgen/loadgen.go), as    *)
(* operators on a record: each one is the critical section of a method.    *)
(* Times are ticks, PerSec of them a second; every media unit has one      *)
(* byte.  prevArr = 0 is "nothing received yet", as in the code.           *)
(* End-to-end times, jitter and the Prometheus copies are left out.        *)
(***************************************************************************)
EXTENDS Integers, Sequences

CONSTANTS
    PerSec,     \* ticks in a second
    JitterBuf,  \* jitterBufMicros, in ticks
    Threshold   \* stallThresholdMicros, in ticks

SecondOf(t) == t \div PerSec

newRecorder(t) ==
    [started |-> t, startup |-> -1, prevArr |-> 0, stalls |-> 0, stalled |-> 0,
     seconds |-> <<>>,  \* a map from seconds to samples, empty
     arr |-> <<>>]      \* for the properties: the units, as recorded

second(r, s) ==
    IF s \in DOMAIN r.seconds THEN r
    ELSE [r EXCEPT !.seconds = [u \in DOMAIN @ \cup {s} |->
            IF u = s THEN [bytes |-> 0, stall |-> 0] ELSE r.seconds[u]]]

markStartup(r, t) ==
    IF r.startup >= 0 THEN r ELSE [r EXCEPT !.startup = t - r.started]

\* Mutant: a silence is booked in full, the buffer is not taken off.
FullSilence(r, t, d) ==
    [second(r, SecondOf(t)) EXCEPT
        !.stalls = @ + 1, !.stalled = @ + d + JitterBuf,
        !.seconds[SecondOf(t)].stall = @ + d + JitterBuf]

stall(r, t, d) ==
    [second(r, SecondOf(t)) EXCEPT
        !.stalls = @ + 1, !.stalled = @ + d,
        !.seconds[SecondOf(t)].stall = @ + d]

count(r, t) ==
    [second(r, SecondOf(t)) EXCEPT !.seconds[SecondOf(t)].bytes = @ + 1,
                                   !.arr = Append(@, t)]

\* A unit whose time t was read before the lock was taken.
Media(r, t) ==
    LET first == r.prevArr = 0
        gap   == t - r.prevArr
        r1    == count(r, t)
        r2    == IF first THEN markStartup(r1, t)
                 ELSE IF gap > JitterBuf + Threshold THEN stall(r1, t, gap - JitterBuf)
                 ELSE r1
    IN  [r2 EXCEPT !.prevArr = t]
=============================================================================
