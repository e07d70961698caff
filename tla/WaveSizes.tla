------------------------------ MODULE WaveSizes ------------------------------
(***************************************************************************)
(* The sizes of the waves a number of targets is cut into by a request's   *)
(* wave_sizes (_slice_waves): the function's loop, and in closed form what *)
(* it should come to.  MCFleetOta compares them over bounded inputs, and   *)
(* SlicesAsAsked of FleetOtaProofs for all.                                *)
(***************************************************************************)
EXTENDS Integers, Sequences

(* The loop over wave_sizes: what remains to be cut and the waves cut so   *)
(* far, after each of its turns.  The last size stands for all that is     *)
(* left, and nothing is cut once nothing is left.                          *)
SlicedSizes(n, list) ==
  LET Take(k, remaining) ==
        IF k = Len(list) \/ list[k] > remaining THEN remaining ELSE list[k]
      loop[k \in 0 .. Len(list)] ==
        IF k = 0 THEN [remaining |-> n, waves |-> <<>>]
        ELSE IF loop[k - 1].remaining = 0 THEN loop[k - 1]
        ELSE [remaining |-> loop[k - 1].remaining - Take(k, loop[k - 1].remaining),
              waves |-> Append(loop[k - 1].waves, Take(k, loop[k - 1].remaining))]
      last == loop[Len(list)]
  IN  IF last.remaining = 0 THEN last.waves ELSE Append(last.waves, last.remaining)

-----------------------------------------------------------------------------
(* The reference: how many of n targets the first k sizes take.            *)
TakenBy(n, list, k) ==
  LET sum[i \in 0 .. Len(list)] == IF i = 0 THEN 0 ELSE sum[i - 1] + list[i]
  IN  IF k >= Len(list) \/ sum[k] > n THEN n ELSE sum[k]

(* Every target is in one wave, each wave has the size asked for while     *)
(* there are enough, and the last one has the rest.                        *)
SizesAsAsked(n, list) ==
  LET needed == {k \in DOMAIN list : TakenBy(n, list, k - 1) < n}
  IN  IF list = <<>> THEN (IF n = 0 THEN <<>> ELSE <<n>>)
      ELSE [k \in needed |-> TakenBy(n, list, k) - TakenBy(n, list, k - 1)]
=============================================================================
