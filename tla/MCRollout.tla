------------------------------ MODULE MCRollout ------------------------------
EXTENDS Rollout
\* Operand 2 respins the image of operand 1; operand 3 opens a new stream.
UpstreamOf == [v \in 1..3 |-> IF v = 3 THEN 2 ELSE 1]
StreamOf   == [v \in 1..3 |-> IF v = 3 THEN 2 ELSE 1]
Whole ==
    [knob |-> 1, sa |-> 1, cpu |-> 1, probes |-> 1, conf |-> 1, custom |-> FALSE,
     version |-> 1, type |-> "InPlaceRolling", overlay |-> "m1",
     auth |-> "generated", enc |-> TRUE, claim |-> 1]
Bare == [Whole EXCEPT !.sa = 0, !.cpu = 0, !.type = "Shutdown", !.overlay = NoMap,
                      !.auth = "none", !.enc = FALSE, !.claim = 0]
BothSpecs == {Whole, Bare}
=============================================================================
