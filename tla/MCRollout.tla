----------------------------- MODULE MCRollout -----------------------------
(* Instances of Rollout for TLC.                                           *)
EXTENDS Rollout, TLC

CONSTANTS d1, d2, d3, v1

MCDevice == {d1, d2, d3}
MCVersion == {v1}

(* Every list of up to three waves over the devices, so that plan's checks *)
(* decide which of them become rollouts.                                   *)
MCWavePlans == UNION {[1 .. n -> SUBSET MCDevice] : n \in 0 .. 3}

(* The default policy of the code and the laxest one a request may carry.  *)
MCDefaultPolicy ==
  [maxFailure |-> 5, minReported |-> 70, maxUnreachable |-> 20,
   canaryFirst |-> TRUE, minCanary |-> 2]
MCLaxPolicy ==
  [maxFailure |-> 50, minReported |-> 50, maxUnreachable |-> 100,
   canaryFirst |-> TRUE, minCanary |-> 1]
MCPolicies == {MCDefaultPolicy, MCLaxPolicy}

MCSymmetry == Permutations(MCDevice)
=============================================================================
