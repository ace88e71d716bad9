------------------------------- MODULE MCHolders -------------------------------
(***************************************************************************)
(* Those who hold GPU objects for a use, for TLC: Retirement (graves, over *)
(* the tracker itself) and DescriptorPool (over what the tracker promises).*)
(* They share no state, so one behaviour is of one part and the other      *)
(* stays at its start: the sum of two state graphs, not their product.     *)
(***************************************************************************)
EXTENDS MCRetirement, DescriptorPool

VARIABLE part   \* "graves", "pool"

holders == <<part, rvars, pvars>>

HInit == RInit /\ PInit /\ part \in {"graves", "pool"}

HNext ==
  \/ part = "graves" /\ RNext /\ UNCHANGED <<part, pvars>>
  \/ part = "pool" /\ PNext /\ UNCHANGED <<part, rvars>>

HSpec == HInit /\ [][HNext]_holders
=============================================================================
