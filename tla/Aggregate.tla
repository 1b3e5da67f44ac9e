----------------------------- MODULE Aggregate -----------------------------
(***************************************************************************)
(* What expctl makes of its run records (internal/expctl/aggregate.go), as *)
(* operators.  A run record rr has the profile, the time it was started    *)
(* and, per session collected, the seconds of its recorder.  Of the        *)
(* columns there are the counts and the sums for throughput; the others    *)
(* are computed from the same sessions and seconds.                        *)
(***************************************************************************)
EXTENDS Integers, Sequences, FiniteSets, SequencesExt, FiniteSetsExt

CONSTANTS
    PerSec,     \* ticks in a second
    Warmup,     \* Matrix.WarmupSeconds
    Measure     \* Matrix.MeasureSeconds

Base(rr) == rr.started \div PerSec

\* The seconds of the measure window: w0 to w1 - 1.
w0(rr) == Base(rr) + Warmup
w1(rr) == w0(rr) + Measure

Window(rr) == w0(rr)..(w1(rr) - 1)

Lossy(imp) == imp.loss > 0

\* One timeline event: loss turning on opens a window, its end closes it.
WindowStep(base, acc, ev) ==
    LET at == base + ev.at \div PerSec IN
    IF Lossy(ev.apply) /\ acc.openAt < 0 THEN [acc EXCEPT !.openAt = at]
    ELSE IF ~Lossy(ev.apply) /\ acc.openAt >= 0
    THEN [openAt |-> -1, out |-> Append(acc.out, <<acc.openAt, at>>)]
    ELSE acc

\* Mutant: no window is open is written 0, and read as an open one.
ZeroSentinel(rr) ==
    FoldLeft(LAMBDA acc, ev : WindowStep(Base(rr), acc, ev),
             [openAt |-> 0, out |-> <<>>], rr.profile.timeline).out

\* In the order of the file, which runOne sorts and this does not.
impairmentWindows(rr) ==
    FoldLeft(LAMBDA acc, ev : WindowStep(Base(rr), acc, ev),
             [openAt |-> -1, out |-> <<>>], rr.profile.timeline).out

\* Mutant: the second after the window counts too.
InWindowOrNext(rr, s) == (w0(rr)..w1(rr)) \cap DOMAIN s.rec.seconds

\* The samples of session s that count: those of the measure window.
InWindow(rr, s) == Window(rr) \cap DOMAIN s.rec.seconds

\* The numbers of a finite set in their order.
InOrder(S) == CHOOSE s \in [1..Cardinality(S) -> S] :
                 \A j, k \in DOMAIN s : j < k => s[j] < s[k]

\* A row is the record of all the runs of one (profile, protocol).
Row(row, runs) ==
    LET mine == {k \in DOMAIN runs : runs[k].row = row}
        all == UNION {{k} \X DOMAIN runs[k].sessions : k \in mine}
        run(x) == runs[x[1]]
        session(x) == runs[x[1]].sessions[x[2]]
        window(x) == InWindow(run(x), session(x))
        seconds(x) == session(x).rec.seconds
    IN  [row |-> row, runs |-> Cardinality(mine), sessions |-> Cardinality(all),
         winBytes |-> SumFunction([x \in all |->
                        SumFunction([t \in window(x) |-> seconds(x)[t].bytes])]),
         winSeconds |-> SumFunction([x \in all |-> Cardinality(window(x))])]

\* One row per cell, in the order in which the cells first appear.
Aggregated(runs) ==
    LET firsts == {k \in DOMAIN runs : \A j \in 1..(k - 1) : runs[j].row # runs[k].row}
        order == InOrder(firsts)
    IN  [n \in DOMAIN order |-> Row(runs[order[n]].row, runs)]
=============================================================================
