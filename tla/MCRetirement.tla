---------------------------- MODULE MCRetirement ----------------------------
(* Instances of Retirement for TLC: queues of one device, a resource of the *)
(* host's and objects of one feature.                                       *)
EXTENDS Retirement
CONSTANTS qe, qh, la, resource, model, buffers, feature
OneDeviceQ == [q \in {qe, qh} |-> "dev"]
OneDeviceL == [l \in {la} |-> "dev"]
Owners == [o \in {resource, model, buffers} |-> IF o = resource THEN NoFeature ELSE feature]
=============================================================================
