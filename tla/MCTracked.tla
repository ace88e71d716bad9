------------------------------ MODULE MCTracked ------------------------------
(* An instance of TrackedPool for TLC: one device with an event queue.      *)
EXTENDS TrackedPool
CONSTANTS qe, la
DeviceOfQueue == [q \in {qe} |-> "dev"]
DeviceOfList == [l \in {la} |-> "dev"]
=============================================================================
