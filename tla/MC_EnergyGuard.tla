--------------------------- MODULE MC_EnergyGuard ---------------------------
(* Instances of EnergyGuard for TLC: the limits that are asked for and     *)
(* reported.                                                               *)
EXTENDS EnergyGuard

CONSTANT p1

\* A curtailment, and one that breaks both rules of normalise.
Curtail == [active |-> TRUE, watts |-> 4, duration |-> None]
Careless == [active |-> TRUE, watts |-> -1, duration |-> 0]

GridLimits == {Curtail, Careless}
PeerReports == {Deactivated, Curtail}
=============================================================================
