---------------------------- MODULE MCPseudoClock ----------------------------
(* Instances of PseudoClock for TLC: a period of four slices. *)
EXTENDS PseudoClock

\* Machine and clients of every kind, and devices with an instant nucleus.
AllSettings == {s \in [latency : 0 .. 1, others : BOOLEAN, nested : BOOLEAN] :
                  s.nested => s.latency = 0}
DevicesOnly == {[latency |-> 0, others |-> TRUE, nested |-> FALSE]}
=============================================================================
