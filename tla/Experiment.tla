----------------------------- MODULE Experiment -----------------------------
(***************************************************************************)
(* The experiment controller (internal/expctl: Run and runOne) with what   *)
(* it drives over HTTP: the link state of each load generator (netem,      *)
(* State), the run its sessions record for (loadgen, Manager), and a       *)
(* recorder per run, fed by goroutines that read the clock before they     *)
(* take the recorder's lock.  One session stands for those of a target.    *)
(*                                                                         *)
(* A post or get may fail, before or after it took effect, at once or at   *)
(* the client's time-out; a load generator may restart; the controller may *)
(* be told to stop.  Otherwise a request takes no time: time passes where  *)
(* runOne waits.                                                           *)
(***************************************************************************)
EXTENDS Integers, Sequences, FiniteSets, SequencesExt, FiniteSetsExt

CONSTANTS
    Targets,     \* load generators
    Plan,        \* the runs of the matrix: sequence of [profile, targets, row]
    Warmup, Measure, PerSec, JitterBuf, Threshold,
    Starts,      \* the times at which the controller may be started
    Timeout,     \* the HTTP client's time-out, in ticks
    MaxFaults,   \* bound: failed requests, restarts of load generators, Cancel
    Viewed,      \* bound: load generators whose media is followed
    MaxAll       \* bound: media units and failures, together

Agg == INSTANCE Aggregate
Rec == INSTANCE Recorder

Cells == 1..Len(Plan)
RowIds == {Plan[c].row : c \in Cells}
Boot == 0              \* the run id of Manager.Start
RunIds == {Boot} \cup Cells
NoRec == <<>>

Imp == [delay : Nat, loss : Nat]          \* netem's Profile, as far as it matters
Profile == [apply : Imp, timeline : Seq([at : Nat, apply : Imp])]

ASSUME ExperimentAssumption ==
    /\ Plan \in Seq([profile : Profile, targets : Seq(Targets) \ {<<>>}, row : RowIds])
    /\ Starts \subseteq Nat \ {0} /\ Viewed \subseteq Targets
    /\ PerSec \in Nat \ {0}
    /\ {Warmup, Measure, JitterBuf, Threshold} \subseteq Nat
    /\ {Timeout, MaxFaults, MaxAll} \subseteq Nat

VARIABLES
    now,
    ctl,      \* runOne: pc, cell, target i, event ev, started, collected
    live,     \* the controller's context is not cancelled
    link,     \* per load generator: State.dyn
    cur,      \* per load generator: the run id of its sessions
    store,    \* per load generator: Manager.byRun, run id to recorder
    pending,  \* per load generator: units read, not yet recorded
    runs,     \* Run: the records of the runs that succeeded
    rows,     \* Run: what it writes to summary.csv
    faults, media,
    log,      \* for the properties: what the link went through since restart
    hit       \* for the properties: per cell, the kinds of failure it met

targetVars == <<link, cur, store, pending, log>>
vars == <<now, ctl, live, targetVars, runs, rows, faults, media, hit>>

Clear == [delay |-> 0, loss |-> 0]
At(t, imp) == [at |-> t, imp |-> imp]

Init ==
    /\ now \in Starts
    /\ ctl = [pc |-> "cell", cell |-> 0, i |-> 1, ev |-> 1, started |-> 0, got |-> <<>>]
    /\ live = TRUE
    /\ link = [t \in Targets |-> Clear]
    /\ cur = [t \in Targets |-> Boot]
    /\ store = [t \in Targets |-> [r \in RunIds |->
                  IF r = Boot THEN Rec!newRecorder(now) ELSE NoRec]]
    /\ pending = [t \in Targets |-> <<>>]
    /\ runs = <<>> /\ rows = <<>>
    /\ faults = 0 /\ media = 0
    /\ log = [t \in Targets |-> <<At(now, Clear)>>]
    /\ hit = [c \in Cells |-> {}]

Failure == /\ faults < MaxFaults /\ media + faults < MaxAll
           /\ faults' = faults + 1

Cell == Plan[ctl.cell]
Target == Cell.targets[ctl.i]

\* Mutant: the timeline is played as it is written.
EventsAsWritten == Cell.profile.timeline

\* Sorted by time; what sort.Slice makes of equal times is left open.
Events ==
    LET tl == Cell.profile.timeline
        p  == CHOOSE p \in [DOMAIN tl -> DOMAIN tl] :
                IsInjective(p) /\ \A j, k \in DOMAIN tl : j < k => tl[p[j]].at <= tl[p[k]].at
    IN  [k \in DOMAIN tl |-> tl[p[k]]]

totalDur == (Warmup + Measure) * PerSec

\* What runOne waits for: the next event, or the end of the run.
Due == ctl.started + IF ctl.ev <= Len(Events) THEN Events[ctl.ev].at ELSE totalDur

----------------------------------------------------------------------------
(* The load generator's side of a request.                                 *)

\* Mutant: what a request leaves out stays as it was.
Merge(t, imp) ==
    LET new == [delay |-> IF imp.delay = 0 THEN link[t].delay ELSE imp.delay,
                loss |-> imp.loss]
    IN  /\ link' = [link EXCEPT ![t] = new]
        /\ log' = [log EXCEPT ![t] = Append(@, At(now, new))]
        /\ UNCHANGED <<cur, store, pending>>

\* /netem/apply, and /netem/clear with Clear.
Apply(t, imp) ==
    /\ link' = [link EXCEPT ![t] = imp]
    /\ log' = [log EXCEPT ![t] = Append(@, At(now, imp))]
    /\ UNCHANGED <<cur, store, pending>>

\* /sessions/restart: new sessions, and a new recorder under the run id.
Restart(t, run) ==
    /\ cur' = [cur EXCEPT ![t] = run]
    /\ store' = [store EXCEPT ![t][run] = Rec!newRecorder(now)]
    /\ log' = [log EXCEPT ![t] = <<At(now, link[t])>>]
    /\ UNCHANGED <<link, pending>>

NoEffect == UNCHANGED targetVars

\* The load generator's process is started anew: the scenario is not kept.
TargetRestarts(t) ==
    /\ Failure
    /\ link' = [link EXCEPT ![t] = Clear]
    /\ cur' = [cur EXCEPT ![t] = Boot]
    /\ store' = [store EXCEPT ![t] = [r \in RunIds |->
                   IF r = Boot THEN Rec!newRecorder(now) ELSE NoRec]]
    /\ pending' = [pending EXCEPT ![t] = <<>>]
    /\ log' = [log EXCEPT ![t] = <<At(now, Clear)>>]
    /\ ctl.cell > 0 /\ ctl.pc \notin {"done", "gone"}
    /\ hit' = [hit EXCEPT ![ctl.cell] = @ \cup {"restart"}]
    /\ UNCHANGED <<now, ctl, live, runs, rows, media>>

\* A unit arrives: its time is taken, and the recorder's lock waited for.
\* Bounds: units arrive while the controller waits, the only steps that take
\* time, or begins a run; the sessions of Manager.Start, which no run asks
\* for, are not followed.
MediaRead(t) ==
    /\ media + faults < MaxAll /\ media' = media + 1
    /\ cur[t] # Boot /\ ctl.pc \in {"apply", "await"}
    /\ Len(pending[t]) < 2
    /\ pending' = [pending EXCEPT ![t] = Append(@, [run |-> cur[t], at |-> now])]
    /\ UNCHANGED <<now, ctl, live, link, cur, store, log, runs, rows, faults, hit>>

\* One of those that wait takes the lock.
MediaRecord(t) ==
    \E k \in DOMAIN pending[t] :
      LET u == pending[t][k] IN
      /\ pending' = [pending EXCEPT ![t] = RemoveAt(@, k)]
      /\ store' = IF store[t][u.run] = NoRec THEN store
                  ELSE [store EXCEPT ![t][u.run] = Rec!Media(@, u.at)]
      /\ UNCHANGED <<now, ctl, live, link, cur, log, runs, rows, faults, media, hit>>

----------------------------------------------------------------------------
(* The controller.                                                         *)

Succeeds == UNCHANGED <<now, faults, hit>>

\* The request fails; the client may have waited for its time-out.
Fails ==
    /\ Failure
    /\ now' \in {now, now + Timeout}
    /\ hit' = [hit EXCEPT ![ctl.cell] = @ \cup {"request"}]

\* Mutant: the loop over the targets does not advance.
SameTarget(past) ==
    ctl' = IF ctl.i < Len(Cell.targets) THEN ctl ELSE [past EXCEPT !.i = 1]

\* On to the next target, or past the last one.
NextTarget(past) ==
    ctl' = IF ctl.i < Len(Cell.targets) THEN [ctl EXCEPT !.i = @ + 1]
           ELSE [past EXCEPT !.i = 1]

\* runOne returns an error: Run ends if its context has, or goes on.
RunFails == /\ ctl' = [ctl EXCEPT !.pc = IF live THEN "cell" ELSE "gone"]
            /\ UNCHANGED <<runs, rows>>

StartCell ==
    /\ ctl.pc = "cell" /\ ctl.cell < Len(Plan)
    /\ ctl' = IF live
              THEN [ctl EXCEPT !.pc = "apply", !.cell = @ + 1, !.i = 1, !.ev = 1, !.got = <<>>]
              ELSE [ctl EXCEPT !.pc = "gone"]
    /\ UNCHANGED <<now, live, targetVars, runs, rows, faults, media, hit>>

LastCell == /\ ctl.pc = "cell" /\ ctl.cell = Len(Plan)
            /\ ctl' = [ctl EXCEPT !.pc = "done"] /\ UNCHANGED now

WriteSummary ==
    /\ LastCell
    /\ rows' = Agg!Aggregated(runs)
    /\ UNCHANGED <<live, targetVars, runs, faults, media, hit>>

PostProfile ==
    /\ ctl.pc = "apply"
    /\ \/ /\ Apply(Target, Cell.profile.apply) /\ Succeeds
          /\ NextTarget([ctl EXCEPT !.pc = "restart", !.started = now])
          /\ UNCHANGED <<runs, rows>>
       \/ /\ Apply(Target, Cell.profile.apply) \/ NoEffect
          /\ Fails /\ RunFails
    /\ UNCHANGED <<live, media>>

PostRestart ==
    /\ ctl.pc = "restart"
    /\ \/ /\ Restart(Target, ctl.cell) /\ Succeeds
          /\ NextTarget([ctl EXCEPT !.pc = "plan"])
          /\ UNCHANGED <<runs, rows>>
       \/ /\ Restart(Target, ctl.cell) \/ NoEffect
          /\ Fails /\ RunFails
    /\ UNCHANGED <<live, media>>

\* Is there anything to wait for?  Then select on the timer and the context.
Schedule ==
    /\ ctl.pc = "plan"
    /\ ctl' = [ctl EXCEPT !.pc = IF now < Due THEN "await"
                                 ELSE IF ctl.ev <= Len(Events) THEN "fire" ELSE "collect"]
    /\ UNCHANGED <<now, live, targetVars, runs, rows, faults, media, hit>>

Tick ==
    /\ ctl.pc = "await" /\ now < Due
    /\ now' = now + 1
    /\ UNCHANGED <<ctl, live, targetVars, runs, rows, faults, media, hit>>

Wake ==
    /\ ctl.pc = "await"
    /\ \/ /\ now >= Due
          /\ ctl' = [ctl EXCEPT !.pc = IF ctl.ev <= Len(Events) THEN "fire" ELSE "collect"]
          /\ UNCHANGED <<runs, rows>>
       \/ ~live /\ RunFails
    /\ UNCHANGED <<now, live, targetVars, faults, media, hit>>

\* An event's posts may fail: the error is dropped.
PostEvent ==
    /\ ctl.pc = "fire"
    /\ \/ Apply(Target, Events[ctl.ev].apply) /\ Succeeds
       \/ (Apply(Target, Events[ctl.ev].apply) \/ NoEffect) /\ Fails
    /\ NextTarget([ctl EXCEPT !.pc = "plan", !.ev = @ + 1])
    /\ UNCHANGED <<live, runs, rows, media>>

\* What the target has under the run id, nothing if it does not know it.
Results(t) ==
    IF store[t][ctl.cell] = NoRec THEN <<>>
    ELSE <<[t |-> t, rec |-> store[t][ctl.cell], log |-> log[t],
            late |-> Len(pending[t])]>>

\* A get that fails costs the run the sessions of that target.
Collect ==
    LET with(got) == LET c == [ctl EXCEPT !.got = got] IN
                     ctl' = IF ctl.i < Len(Cell.targets) THEN [c EXCEPT !.i = @ + 1]
                            ELSE [c EXCEPT !.i = 1, !.pc = "clear"]
    IN  /\ ctl.pc = "collect"
        /\ \/ Succeeds /\ with(ctl.got \o Results(Target))
           \/ Fails /\ with(ctl.got)
        /\ UNCHANGED <<live, targetVars, runs, rows, media>>

RunRecord == [cell |-> ctl.cell, row |-> Cell.row, profile |-> Cell.profile,
              started |-> ctl.started, sessions |-> ctl.got]

\* The links are cleared, whatever comes of it; then the run is over.
PostClear ==
    /\ ctl.pc = "clear"
    /\ \/ Apply(Target, Clear) /\ Succeeds
       \/ (Apply(Target, Clear) \/ NoEffect) /\ Fails
    /\ IF ctl.i < Len(Cell.targets)
       THEN NextTarget(ctl) /\ UNCHANGED <<runs, rows>>
       ELSE IF ctl.got = <<>> THEN RunFails
       ELSE /\ runs' = Append(runs, RunRecord)
            /\ ctl' = [ctl EXCEPT !.pc = "cell"]
            /\ UNCHANGED rows
    /\ UNCHANGED <<live, media>>

Cancel ==
    /\ live /\ ctl.pc \notin {"done", "gone"}
    /\ Failure
    /\ live' = FALSE
    /\ UNCHANGED <<now, ctl, targetVars, runs, rows, media, hit>>

Runs == \/ StartCell \/ PostProfile \/ PostRestart \/ Schedule \/ Tick \/ Wake
        \/ PostEvent \/ Collect \/ PostClear

Next ==
    \/ Runs \/ WriteSummary \/ Cancel
    \/ \E t \in Targets : TargetRestarts(t)
    \/ \E t \in Viewed : MediaRead(t) \/ MediaRecord(t)

\* The controller runs and its requests come to an end; nothing is assumed
\* of the load generators, of failures, or of the media.  (Each step of the
\* controller changes now or ctl, and LastCell is what enables WriteSummary.)
Spec == Init /\ [][Next]_vars /\ WF_<<now, ctl>>(Runs \/ LastCell)

----------------------------------------------------------------------------
(* Properties.                                                             *)

TypeOK ==
    /\ now \in Nat /\ live \in BOOLEAN /\ faults \in 0..MaxFaults
    /\ ctl.pc \in {"cell", "apply", "restart", "plan", "await", "fire",
                   "collect", "clear", "done", "gone"}
    /\ ctl.cell \in RunIds /\ ctl.i \in Nat \ {0} /\ ctl.ev \in Nat \ {0}
    /\ link \in [Targets -> Imp]
    /\ cur \in [Targets -> RunIds]
    /\ hit \in [Cells -> SUBSET {"request", "restart"}]

\* log_ is what the link of a session should have gone through: the profile at
\* the start, then the events in the order of their times, each at its time.
AsPrescribed(rr, log_) ==
    LET tl == rr.profile.timeline IN
    /\ log_[1] = At(rr.started, rr.profile.apply)
    /\ \E p \in [DOMAIN tl -> DOMAIN tl] :
         IsInjective(p) /\ Tail(log_) = [k \in DOMAIN tl |-> At(rr.started + tl[p[k]].at, tl[p[k]].apply)]
    /\ IsSorted(log_, LAMBDA a, b : a.at <= b.at)

\* A run is what its label says (expctl.go:141).  Every session that was
\* collected began under the profile, unless a load generator restarted
\* during the run; if nothing failed, all targets are there and each went
\* through the timeline, in order and on time, from start to collection.
AsLabelled ==
    /\ TypeOK
    /\ \A k \in DOMAIN runs :
         LET rr == runs[k]
             targets == Plan[rr.cell].targets
         IN  /\ "restart" \notin hit[rr.cell] =>
                  \A j \in DOMAIN rr.sessions :
                    rr.sessions[j].log[1] = At(rr.started, rr.profile.apply)
             /\ hit[rr.cell] = {} =>
                  /\ [j \in DOMAIN rr.sessions |-> rr.sessions[j].t] = targets
                  /\ \A j \in DOMAIN rr.sessions : AsPrescribed(rr, rr.sessions[j].log)

\* The times at which loss was on while log was made: <<from, to>>, in order.
LossTimes(log_) ==
    LET lossy(k) == Agg!Lossy(log_[k].imp)
        on  == {k \in DOMAIN log_ : lossy(k) /\ (k = 1 \/ ~lossy(k - 1))}
        off(k) == {j \in DOMAIN log_ : j > k /\ ~lossy(j)}
        ons == Agg!InOrder({k \in on : off(k) # {}})
    IN  [n \in DOMAIN ons |-> <<log_[ons[n]].at, log_[Min(off(ons[n]))].at>>]

IsSortedTimeline(tl) == \A j, k \in DOMAIN tl : j < k => tl[j].at < tl[k].at

\* The windows after which recovery is measured (aggregate.go:110) are those
\* in which the links really lost packets, to the second that truncation
\* costs, in a run that met no failure, whose file lists the events in order
\* and whose profile starts without loss.
WindowsAreApplied ==
    \A k \in DOMAIN runs :
      LET rr == runs[k]
          windows == Agg!impairmentWindows(rr)
      IN  /\ hit[rr.cell] = {} /\ IsSortedTimeline(rr.profile.timeline)
          /\ rr.profile.apply.loss = 0
          => \A j \in DOMAIN rr.sessions :
               LET times == LossTimes(rr.sessions[j].log) IN
               /\ Len(times) = Len(windows)
               /\ \A n \in DOMAIN times : \A b \in {1, 2} :
                    times[n][b] \div PerSec - windows[n][b] \in {0, 1}

Uses(c, t) == \E k \in DOMAIN Plan[c].targets : Plan[c].targets[k] = t

\* A load generator that is still impaired when the controller is done had a
\* request of the last run that used it fail; one that is still impaired when
\* the controller was stopped may also belong to the run that was stopped.
LeftClear ==
    ctl.pc \in {"done", "gone"} =>
      \A t \in Targets : link[t] # Clear =>
        \E c \in 1..ctl.cell :
          /\ Uses(c, t) /\ \A d \in (c + 1)..ctl.cell : ~Uses(d, t) \/ "request" \in hit[d]
          /\ "request" \in hit[c] \/ (ctl.pc = "gone" /\ c = ctl.cell)

\* Silences of a session: the time beyond the buffer between units that
\* follow each other on the clock, where it is long enough to be a stall.
Silence(times) ==
    LET gap(a) == Min({b \in times : b > a}) - a
    IN  SumFunction([a \in {a \in times : \E b \in times : b > a} |->
          IF gap(a) > JitterBuf + Threshold THEN gap(a) - JitterBuf ELSE 0])

\* Stalls against the clock (loadgen.go:155): what is booked is the silence
\* itself when the units were recorded in the order of their times, and never
\* less when one was overtaken at the lock, once the earliest was first.  The
\* samples per second add up to the totals.
StallsAreSilence ==
    \A t \in Targets, run \in RunIds :
      LET r == store[t][run] IN
      r # NoRec /\ r.arr # <<>> =>
        /\ IsSorted(r.arr, <=) => r.stalled = Silence(Range(r.arr))
        /\ r.arr[1] = Min(Range(r.arr)) => r.stalled >= Silence(Range(r.arr))
        /\ r.stalled = SumFunction([s \in DOMAIN r.seconds |-> r.seconds[s].stall])
        /\ Len(r.arr) = SumFunction([s \in DOMAIN r.seconds |-> r.seconds[s].bytes])

Within(rr, r) == {k \in DOMAIN r.arr : r.arr[k] \div PerSec \in Agg!Window(rr)}

\* The summary (aggregate.go:34).  Every run that succeeded is in exactly
\* one row, and a row counts the units its sessions received in the measure
\* windows of their runs.  That is all of them: a run is collected when its
\* window is over, and what is recorded of it later had been read before and
\* waited for the recorder's lock.
RowsAreWhole ==
    ctl.pc = "done" =>
      /\ \A k \in DOMAIN runs :
           Cardinality({n \in DOMAIN rows : rows[n].row = runs[k].row}) = 1
      /\ \A n \in DOMAIN rows :
           LET mine == {k \in DOMAIN runs : runs[k].row = rows[n].row} IN
           /\ rows[n].runs = Cardinality(mine)
           /\ rows[n].winBytes =
                SumFunction([k \in mine |->
                  SumFunction([j \in DOMAIN runs[k].sessions |->
                    Cardinality(Within(runs[k], runs[k].sessions[j].rec))])])
           /\ rows[n].winSeconds <= Measure * rows[n].sessions
      /\ \A k \in DOMAIN runs : \A j \in DOMAIN runs[k].sessions :
           LET s == runs[k].sessions[j]
               r == store[s.t][runs[k].cell]
           IN  r # NoRec => Cardinality(Within(runs[k], r))
                              <= Cardinality(Within(runs[k], s.rec)) + s.late

\* The matrix comes to an end, whatever fails.
Finishes == <>(ctl.pc \in {"done", "gone"})
=============================================================================
