-------------------------------- MODULE Manager --------------------------------
(* The session manager of a load generator (loadgen.go, Manager): Start, the *)
(* HTTP requests that restart the sessions under a run id, and the goroutine *)
(* of each session.  A generation is what one Restart creates: a context and *)
(* a set of recorders.  The critical section of Restart is one step; what it *)
(* does after the unlock are steps of their own.                             *)
EXTENDS Naturals, Sequences, FiniteSets, SequencesExt

CONSTANTS Client,      \* clients of /sessions/restart
          Start,       \* Manager.Start, the other caller of Restart
          RunId,       \* run ids a client may choose
          Boot,        \* the run id of Start
          Sizes,       \* session counts a client may ask for; 0: the default
          Default,     \* defaultCount
          Keep,        \* how many runs' results are kept; 4 in the code
          Early,       \* a client may come before Start
          Reuse,       \* a client may use a run id again
          MaxGen,      \* bound: restarts
          MaxFail      \* bound: how often a session's transport returns before it is cancelled

ASSUME ManagerAssumption ==
    /\ Start \notin Client /\ Boot \notin RunId
    /\ Default \in Nat \ {0} /\ Sizes \subseteq Nat /\ IsFiniteSet(Sizes)
    /\ Keep \in Nat \ {0} /\ {MaxGen, MaxFail} \subseteq Nat
    /\ Early \in BOOLEAN /\ Reuse \in BOOLEAN

Caller == Client \cup {Start}
Gen == 1..MaxGen
Id == RunId \cup {Boot}
None == 0
Size(n) == IF n = 0 THEN Default ELSE n
Slot == 1..(CHOOSE m \in {Size(n) : n \in Sizes \cup {0}} :
                \A n \in Sizes \cup {0} : Size(n) <= m)

VARIABLES
    base,      \* m.baseCtx is set
    stuck,     \* m.mu is held by a goroutine that has panicked
    gen,       \* m.runSeq, and the generation m.cancel cancels
    cancelled, \* generations whose context is cancelled
    size,      \* size[g]: count of generation g
    byRun,     \* m.byRun: the generation whose recorders it holds, or None
    runs,      \* m.runs
    gauge,     \* edgecast_sub_sessions_active
    pc,        \* pc[c]: "idle", "gauge", "spawn", "dead"; Start begins at "start"
    mine,      \* mine[c]: the generation c's Restart has made
    sess,      \* sess[g][i]: "none", "stagger", "run", "failed", "pause", "gone"
    ended,     \* ended[g][i]: how often the transport has returned uncancelled, with an
               \* error or without (Result.Errors, which nothing here reads, counts the former)
    log        \* history: run ids in the order of the restarts

sessVars == <<sess, ended>>
runVars == <<gen, cancelled, size, byRun, runs, log>>
managerVars == <<base, stuck, runVars, gauge, pc, mine, sessVars>>

ManagerInit ==
    /\ base = FALSE /\ stuck = FALSE
    /\ gen = 0 /\ cancelled = {} /\ size = [g \in Gen |-> 0]
    /\ byRun = [r \in Id |-> None] /\ runs = <<>> /\ log = <<>>
    /\ gauge = 0
    /\ pc = [c \in Caller |-> IF c = Start THEN "start" ELSE "idle"]
    /\ mine = [c \in Caller |-> None]
    /\ sess = [g \in Gen |-> [i \in Slot |-> "none"]]
    /\ ended = [g \in Gen |-> [i \in Slot |-> 0]]
-----------------------------------------------------------------------------
\* The ids the pruning loop of Restart forgets, and with each what byRun has
\* under it by then.

\* Mutant: a run too few is kept.
ForgottenEarly == IF Len(runs) + 1 < Keep THEN {} ELSE {Head(runs)}

Forgotten == IF Len(runs) < Keep THEN {} ELSE {Head(runs)}

Remembered(id) == IF Len(runs) < Keep THEN Append(runs, id) ELSE Append(Tail(runs), id)

Cancel == IF gen = 0 THEN cancelled ELSE cancelled \cup {gen}

NewRun(c, id, n) ==
    /\ ~stuck /\ gen < MaxGen
    /\ gen' = gen + 1
    /\ cancelled' = Cancel
    /\ size' = [size EXCEPT ![gen'] = Size(n)]
    /\ byRun' = [r \in Id |-> IF r \in Forgotten THEN None ELSE IF r = id THEN gen' ELSE byRun[r]]
    /\ runs' = Remembered(id)
    /\ log' = Append(log, id)
    /\ mine' = [mine EXCEPT ![c] = gen']
    /\ pc' = [pc EXCEPT ![c] = "gauge"]
    /\ UNCHANGED <<base, stuck, gauge, sessVars>>

\* context.WithCancel panics on a nil parent; the HTTP server recovers the
\* goroutine, and m.mu stays locked.
Panic(c) == /\ ~stuck /\ stuck' = TRUE
            /\ pc' = [pc EXCEPT ![c] = "dead"]
            /\ UNCHANGED <<base, runVars, gauge, mine, sessVars>>

\* A request: restart under run id and with n sessions.
Request(c) == /\ pc[c] = "idle"
              /\ base \/ Early
              /\ \E id \in RunId, n \in Sizes :
                    /\ Reuse \/ ~Contains(log, id)
                    /\ IF base THEN NewRun(c, id, n) ELSE Panic(c)

StartUp == /\ pc[Start] = "start" /\ ~stuck
           /\ base' = TRUE
           /\ pc' = [pc EXCEPT ![Start] = "boot"]
           /\ UNCHANGED <<stuck, runVars, gauge, mine, sessVars>>

BootRun == pc[Start] = "boot" /\ NewRun(Start, Boot, 0)

\* After the unlock.
SetGauge(c) == /\ pc[c] = "gauge"
               /\ gauge' = size[mine[c]]
               /\ pc' = [pc EXCEPT ![c] = "spawn"]
               /\ UNCHANGED <<base, stuck, runVars, mine, sessVars>>

Spawn(c) == /\ pc[c] = "spawn"
            /\ sess' = [sess EXCEPT ![mine[c]] =
                            [i \in Slot |-> IF i <= size[mine[c]] THEN "stagger" ELSE "none"]]
            /\ pc' = [pc EXCEPT ![c] = IF c = Start THEN "done" ELSE "idle"]
            /\ UNCHANGED <<base, stuck, runVars, gauge, mine, ended>>
-----------------------------------------------------------------------------
\* A session.  Its waits and its transport return when the context is cancelled.
SetSess(g, i, st) == sess' = [sess EXCEPT ![g][i] = st]

\* Mutant: a session that has failed is over.
ContinueOnce(g, i) == /\ sess[g][i] \in {"stagger", "pause"}
                      /\ SetSess(g, i, IF g \in cancelled \/ sess[g][i] = "pause" THEN "gone" ELSE "run")
                      /\ UNCHANGED ended

Continue(g, i) == /\ sess[g][i] \in {"stagger", "pause"}
                  /\ SetSess(g, i, IF g \in cancelled THEN "gone" ELSE "run")
                  /\ UNCHANGED ended

TransportFails(g, i) == /\ sess[g][i] = "run" /\ g \notin cancelled
                        /\ ended[g][i] < MaxFail
                        /\ SetSess(g, i, "failed")
                        /\ ended' = [ended EXCEPT ![g][i] = @ + 1]

TransportEnds(g, i) == /\ sess[g][i] = "run" /\ g \in cancelled
                       /\ SetSess(g, i, "gone")
                       /\ UNCHANGED ended

\* The transport has returned: the session pauses, whether there was an error
\* to record or not, unless its context is cancelled by now.
Pause(g, i) == /\ sess[g][i] = "failed"
               /\ SetSess(g, i, IF g \in cancelled THEN "gone" ELSE "pause")
               /\ UNCHANGED ended

Session(g, i) == /\ Continue(g, i) \/ TransportEnds(g, i) \/ Pause(g, i)
                 /\ UNCHANGED <<base, stuck, runVars, gauge, pc, mine>>
SessionFault(g, i) == /\ TransportFails(g, i)
                      /\ UNCHANGED <<base, stuck, runVars, gauge, pc, mine>>

After(c) == SetGauge(c) \/ Spawn(c)
ManagerNext ==
    \/ StartUp \/ BootRun
    \/ \E c \in Client : Request(c)
    \/ \E c \in Caller : After(c)
    \/ \E g \in Gen, i \in Slot : Session(g, i) \/ SessionFault(g, i)

ManagerSpec ==
    /\ ManagerInit /\ [][ManagerNext]_managerVars
    /\ WF_managerVars(StartUp) /\ WF_managerVars(BootRun)
    /\ \A c \in Caller : WF_managerVars(After(c))
    /\ \A g \in Gen, i \in Slot : WF_managerVars(Session(g, i))
-----------------------------------------------------------------------------
\* Every variable has a value of its type.
ManagerTypeOK ==
    /\ base \in BOOLEAN /\ stuck \in BOOLEAN
    /\ gen \in 0..MaxGen /\ cancelled \subseteq Gen
    /\ size \in [Gen -> {0} \cup Slot]
    /\ byRun \in [Id -> {None} \cup Gen]
    /\ runs \in Seq(Id) /\ Len(runs) <= Keep /\ log \in Seq(Id)
    /\ gauge \in {0} \cup Slot
    /\ pc \in [Caller -> {"idle", "start", "boot", "gauge", "spawn", "done", "dead"}]
    /\ mine \in [Caller -> {None} \cup Gen]
    /\ sess \in [Gen -> [Slot -> {"none", "stagger", "run", "failed", "pause", "gone"}]]
    /\ ended \in [Gen -> [Slot -> 0..MaxFail]]

\* The results of the latest Keep runs can be collected, and are those of the
\* sessions that ran under the id last (pruning forgets only older runs).
LatestRunsKept ==
    /\ ManagerTypeOK
    /\ \A g \in 1..gen : g + Keep > gen /\ (\A h \in g + 1..gen : log[h] # log[g])
                           => byRun[log[g]] = g

\* In the end the sessions of the latest restart are running, as many as were
\* asked for, and every session of an older one is gone; Start's are there at
\* least, unless a request has come before it and left m.mu locked.
Settled == \A g \in 1..gen, i \in Slot :
              sess[g][i] = IF i > size[g] THEN "none" ELSE IF g = gen THEN "run" ELSE "gone"
Settles == <>[](stuck \/ (gen > 0 /\ Settled))

=============================================================================
