--------------------------- MODULE MC_SpineEngine ---------------------------
(* Instances of SpineEngine for TLC: an energy manager that exposes two     *)
(* entities, and a second device that competes with it.                     *)
EXTENDS SpineEngine

Client(d, e) == [device |-> d, entity |-> e, feature |-> 1]

MCDevices == {"em", "other"}
MCClients == {Client("em", 1), Client("em", 2), Client("other", 1)}
MCServers == {"LoadControl", "DeviceConfiguration"}
MCApproved == {"LoadControl"}
MCSchedule == <<1, 2>>

Budget(q, a, c, w, u) ==
    [k \in Kinds |-> CASE k = "requests" -> q [] k = "answers" -> a
                      [] k = "calls" -> c [] k = "writes" -> w
                      [] k = "upheavals" -> u]

\* A device that asks, and one that serves.
Asking == {Budget(3, 0, 0, 0, 0), Budget(2, 1, 0, 0, 1), Budget(1, 2, 0, 0, 1)}
Serving == {Budget(0, 0, 3, 1, 0), Budget(0, 1, 2, 1, 1), Budget(0, 0, 2, 2, 1),
            Budget(0, 0, 1, 1, 2)}
MCBudgets == Asking \cup Serving
=============================================================================
