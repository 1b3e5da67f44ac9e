------------------------------ MODULE ObjectLog ------------------------------
(* What a group buffer promises (relay.go, type groupBuffer): an append-only *)
(* log of objects that is sealed once, and readers each of which receives    *)
(* the log in order and may stop only after the seal, holding all of it.     *)
(* A reader may also give up at any time: its connection died.  Locks,       *)
(* condition variables and who is woken when do not appear at this level.    *)
EXTENDS Naturals, Sequences

CONSTANTS Obj,     \* the encoded objects of a group
          Reader   \* the subscriber writers streaming the group out

VARIABLES log,     \* the objects published so far
          sealed,  \* no object will follow
          out,     \* out[r]: what reader r has received
          status   \* status[r]: "reading", "finished" or "gave_up"

logVars == <<log, sealed, out, status>>

LogInit == /\ log = <<>>
           /\ sealed = FALSE
           /\ out = [r \in Reader |-> <<>>]
           /\ status = [r \in Reader |-> "reading"]

Extend(o) == /\ ~sealed
             /\ log' = Append(log, o)
             /\ UNCHANGED <<sealed, out, status>>

Seal == /\ ~sealed
        /\ sealed' = TRUE
        /\ UNCHANGED <<log, out, status>>

Deliver(r) == /\ status[r] = "reading"
              /\ Len(out[r]) < Len(log)
              /\ out' = [out EXCEPT ![r] = Append(@, log[Len(@) + 1])]
              /\ UNCHANGED <<log, sealed, status>>

Finish(r) == /\ status[r] = "reading"
             /\ sealed
             /\ out[r] = log
             /\ status' = [status EXCEPT ![r] = "finished"]
             /\ UNCHANGED <<log, sealed, out>>

GiveUp(r) == /\ status[r] = "reading"
             /\ status' = [status EXCEPT ![r] = "gave_up"]
             /\ UNCHANGED <<log, sealed, out>>

LogNext == \/ \E o \in Obj : Extend(o)
           \/ Seal
           \/ \E r \in Reader : Deliver(r) \/ Finish(r) \/ GiveUp(r)

LogSafety == LogInit /\ [][LogNext]_logVars

\* A reader that can make progress does: it is never left asleep.
LogSpec == LogSafety /\ \A r \in Reader : WF_logVars(Deliver(r) \/ Finish(r))
=============================================================================
