----------------------------- MODULE GroupBuffer -----------------------------
(* One group being filled by its ingest goroutine while subscriber writers   *)
(* stream it out (relay.go, type groupBuffer and the reading half of         *)
(* subscriber.writeGroup).                                                   *)
(*                                                                           *)
(* A critical section of g.mu is one step.  append and close unlock before   *)
(* they broadcast, so the broadcast is a step of its own, and a reader that  *)
(* finds nothing joins the wait set of the condition variable in the same    *)
(* critical section as the test (sync.Cond.Wait registers the caller before  *)
(* it unlocks).                                                              *)
EXTENDS Naturals, Sequences

CONSTANTS Obj,     \* the encoded objects
          Reader,  \* subscriber goroutines that stream this group
          MaxObj   \* bound: objects in the group

ASSUME MaxObjAssumption == MaxObj \in Nat

VARIABLES objs,    \* g.objs
          closed,  \* g.closed
          ingest,  \* "reading" the stream, about to "broadcast", or "done"
          at,      \* at[r]: "next" (in g.next), "waiting", "write", "finished", "gave_up"
          sent     \* sent[r]: objects r has written; Len(sent[r]) is its i

vars == <<objs, closed, ingest, at, sent>>

Init == /\ objs = <<>>
        /\ closed = FALSE
        /\ ingest = "reading"
        /\ at = [r \in Reader |-> "next"]
        /\ sent = [r \in Reader |-> <<>>]

\* append, up to the unlock.
AppendObj(o) == /\ ingest = "reading"
                /\ Len(objs) < MaxObj
                /\ objs' = Append(objs, o)
                /\ ingest' = "broadcast"
                /\ UNCHANGED <<closed, at, sent>>

\* Mutant: close without the broadcast.
CloseQuietly == /\ ingest = "reading"
                /\ closed' = TRUE
                /\ ingest' = "done"
                /\ UNCHANGED <<objs, at, sent>>

\* close, up to the unlock: the stream ended or was aborted.
CloseGroup == /\ ingest = "reading"
              /\ closed' = TRUE
              /\ ingest' = "broadcast"
              /\ UNCHANGED <<objs, at, sent>>

\* Mutant: cond.Signal instead of cond.Broadcast.
SignalOne == /\ ingest = "broadcast"
             /\ ingest' = IF closed THEN "done" ELSE "reading"
             /\ \/ /\ \A r \in Reader : at[r] # "waiting"
                   /\ UNCHANGED at
                \/ \E r \in Reader : at[r] = "waiting" /\ at' = [at EXCEPT ![r] = "next"]
             /\ UNCHANGED <<objs, closed, sent>>

\* Mutant: the ingest goroutine reads on after close.
BroadcastAndGoOn ==
    /\ ingest = "broadcast"
    /\ ingest' = "reading"
    /\ at' = [r \in Reader |-> IF at[r] = "waiting" THEN "next" ELSE at[r]]
    /\ UNCHANGED <<objs, closed, sent>>

\* cond.Broadcast: every waiting reader is back at the top of next's loop.
Broadcast == /\ ingest = "broadcast"
             /\ ingest' = IF closed THEN "done" ELSE "reading"
             /\ at' = [r \in Reader |-> IF at[r] = "waiting" THEN "next" ELSE at[r]]
             /\ UNCHANGED <<objs, closed, sent>>

\* Mutant: next looks at closed before it looks for object i.
NextClosedFirst(r) ==
    /\ at[r] = "next"
    /\ at' = [at EXCEPT ![r] = IF closed THEN "finished"
                               ELSE IF Len(sent[r]) < Len(objs) THEN "write"
                               ELSE "waiting"]
    /\ UNCHANGED <<objs, closed, ingest, sent>>

\* One turn of next's loop: an object is there, else the group is over, else wait.
NextObject(r) ==
    /\ at[r] = "next"
    /\ at' = [at EXCEPT ![r] = IF Len(sent[r]) < Len(objs) THEN "write"
                               ELSE IF closed THEN "finished"
                               ELSE "waiting"]
    /\ UNCHANGED <<objs, closed, ingest, sent>>

\* st.Write(obj) succeeded: the object is the i-th, read under the lock.
WriteObject(r) == /\ at[r] = "write"
                  /\ sent' = [sent EXCEPT ![r] = Append(@, objs[Len(@) + 1])]
                  /\ at' = [at EXCEPT ![r] = "next"]
                  /\ UNCHANGED <<objs, closed, ingest>>

\* st.Write failed: writeGroup returns without closing the stream.
WriteFails(r) == /\ at[r] = "write"
                 /\ at' = [at EXCEPT ![r] = "gave_up"]
                 /\ UNCHANGED <<objs, closed, ingest, sent>>

\* The ingest goroutine has returned and every reader with it.
Terminated == /\ ingest = "done"
              /\ \A r \in Reader : at[r] \in {"finished", "gave_up"}
              /\ UNCHANGED vars

Ingest == (\E o \in Obj : AppendObj(o)) \/ CloseGroup \/ Broadcast
Read(r) == NextObject(r) \/ WriteObject(r) \/ WriteFails(r)

Next == Ingest \/ (\E r \in Reader : Read(r)) \/ Terminated

\* Goroutines are scheduled fairly; a stream write returns (QUIC gives up an
\* idle connection after 30 s).  Nothing obliges the ingest side to append.
Fairness == /\ WF_vars(Broadcast)
            /\ \A r \in Reader : WF_vars(Read(r))

Spec == Init /\ [][Next]_vars /\ Fairness
-----------------------------------------------------------------------------
TypeOK == /\ objs \in Seq(Obj) /\ Len(objs) <= MaxObj
          /\ closed \in BOOLEAN
          /\ ingest \in {"reading", "broadcast", "done"}
          /\ closed => ingest # "reading"
          /\ at \in [Reader -> {"next", "waiting", "write", "finished", "gave_up"}]
          /\ sent \in [Reader -> Seq(Obj)]

\* The relay's wakeups are never lost: a writer asleep in next (relay.go:119)
\* although its object is there, or although the group is over, is about to be
\* woken.  append and close broadcast after the unlock (relay.go:96-97,103-104),
\* so there is a window; the window always ends in the broadcast.
NoLostWakeup == \A r \in Reader :
    at[r] = "waiting" /\ (Len(sent[r]) < Len(objs) \/ closed) => ingest = "broadcast"

\* A writer leaves next with ok=false, and so closes its stream cleanly
\* (relay.go:231-240), only when it has written the whole group and no object
\* will follow.
FinishedIsWhole == \A r \in Reader :
    at[r] = "finished" => closed /\ sent[r] = objs

\* The group buffer is an object log: the same objects to every reader, in
\* order, and a reader ends only at the seal (relay.go:107-121).
Log == INSTANCE ObjectLog WITH
    log <- objs, sealed <- closed, out <- sent,
    status <- [r \in Reader |-> IF at[r] \in {"finished", "gave_up"}
                                THEN at[r] ELSE "reading"]

\* Safety half of the refinement.
IsObjectLog == Log!LogSafety
\* With progress: a reader with something to read is not left waiting.
IsLiveObjectLog == Log!LogSpec
=============================================================================
