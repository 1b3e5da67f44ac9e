---------------------------- MODULE MCExperiment ----------------------------
(* A matrix for TLC: a profile with loss whose file lists its events out   *)
(* of order, on one load generator, then one with a burst of loss, on that *)
(* load generator and another.                                             *)
EXTENDS Experiment

MCImp(d, l) == [delay |-> d, loss |-> l]
Ev(at, d, l) == [at |-> at, apply |-> MCImp(d, l)]

Shuffled == [apply |-> MCImp(2, 0), timeline |-> <<Ev(2, 2, 0), Ev(1, 1, 5)>>]
Burst == [apply |-> MCImp(1, 0), timeline |-> <<Ev(1, 1, 5), Ev(2, 0, 5), Ev(3, 1, 0)>>]

MCPlan == <<[profile |-> Shuffled, targets |-> <<"t2">>, row |-> "shuffled"],
            [profile |-> Burst, targets |-> <<"t1", "t2">>, row |-> "burst"]>>
=============================================================================
