------------------------------ MODULE MCUplink ------------------------------
(* Instances of Uplink for TLC: one that meets every hardship, with little *)
(* disk, a small budget, restarts and other reports of the device, and one *)
(* where only the line and the agent fail and the last answers are no full *)
(* uplink_every.                                                           *)
EXTENDS Uplink

Harsh ==
  [uplinkEvery |-> 2, budget |-> 4, perHour |-> 2, perDay |-> 10,
   otherStamps |-> {3}, maxSamples |-> 4, maxBoots |-> 2, maxLost |-> 1]

Gentle ==
  [Harsh EXCEPT !.budget = 20, !.otherStamps = {}, !.maxBoots = 1,
                !.maxSamples = 5, !.maxLost = 2]

MCBoth == {Harsh, Gentle}

(* Two boots and room for everything: what is stored is only replaced.     *)
MCRestarted == {[Gentle EXCEPT !.maxSamples = 4, !.maxBoots = 2, !.maxLost = 0]}
=============================================================================
