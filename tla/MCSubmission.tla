---------------------------- MODULE MCSubmission ----------------------------
(* Instances of Submission for TLC: one device, or two, with an event queue *)
(* and a hooked one.                                                        *)
EXTENDS SubmissionContract
CONSTANTS qe, qh, la, lb
OneDeviceQ == [q \in {qe, qh} |-> "dev"]
OneDeviceL == [l \in {la, lb} |-> "dev"]
TwoDevicesQ == [q \in {qe, qh} |-> IF q = qe THEN "dev" ELSE "dev2"]
TwoDevicesL == [l \in {la, lb} |-> IF l = la THEN "dev" ELSE "dev2"]
SwapLists == {[l \in {la, lb} |-> l], [l \in {la, lb} |-> IF l = la THEN lb ELSE la]}
=============================================================================
