------------------------------- MODULE MCShaper -------------------------------
(* Links for TLC: times are a few ticks, a rate cap is a serialisation time. *)
EXTENDS Shaper

Link(d, j, t, l) == [delay |-> d, jitter |-> j, tx |-> t, lossy |-> l]

\* An access link before and after /netem/apply: jitter and loss; a rate cap.
Access == {Link(0, 1, 0, TRUE), Link(1, 0, 2, FALSE)}
=============================================================================
