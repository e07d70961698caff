----------------------------- MODULE MCFleetOta -----------------------------
(* Instances of FleetOta for TLC.                                          *)
EXTENDS FleetOta, TLC

CONSTANTS d1, d2, d3, v1, v2, r1, r2, t1, t2

MCDevice == {d1, d2, d3}
MCTwoDevices == {d1, d2}
MCVersion == {v1, v2}
MCRolloutId == {r1, r2}
(* r1 is "ro-1" and r2 "ro-1-rollback", whoever plans them.                *)
MCNamesakes == [id \in MCRolloutId |-> IF id = r1 THEN {r1, r2} ELSE {id}]
MCThreads == {t1, t2}
MCStatuses == {"QUARANTINED"}

(* A wave of one device and the rest; a wave of two and the rest.          *)
MCWaveLists == {<<1, 9>>}
MCBadLists == {<<1, 9>>, <<2, 9>>}

MCPolicy ==
  [maxFailure |-> 50, minReported |-> 50, maxUnreachable |-> 100,
   canaryFirst |-> TRUE, minCanary |-> 2]
MCPolicies == {MCPolicy}

(* Two requests at once; one at a time, with every bad end of a job; one   *)
(* at a time on devices that run no version, and something from outside.   *)
MCSettings ==
  {[first |-> v1, marks |-> 0, atOnce |-> 2, ends |-> {}],
   [first |-> v1, marks |-> 0, atOnce |-> 1, ends |-> BadEnds],
   [first |-> "none", marks |-> 1, atOnce |-> 1, ends |-> {}]}

(* The loop of _slice_waves comes to the sizes asked for: the code's       *)
(* default sizes for up to 20 targets, and every short list of small ones. *)
MCSizeLists == {<<2, 8, 9999>>} \cup UNION {[1 .. n -> 0 .. 4] : n \in 0 .. 3}

ASSUME LoopIsSlicing ==
  \A n \in 0 .. 20, list \in MCSizeLists : SlicedSizes(n, list) = SizesAsAsked(n, list)

MCSymmetry == Permutations(Device) \cup Permutations(Thread)
=============================================================================
