--------------------------- MODULE MCFleetRegistry ---------------------------
(* Instances of FleetRegistry for TLC.                                      *)
EXTENDS FleetRegistry

CONSTANTS d1, d2, v1, v2, b1, j1, normal, faulty

MCDevice == {d1, d2}
MCVersion == {v1, v2}
MCBuild == {b1}
MCJob == {j1}

\* A bundle that may be published, and one that names no build.
Bundle(version, build) ==
  [version |-> version, kib |-> 64, checksum |-> {"sum"}, labels |-> {normal, faulty},
   fields |-> {"x"}, normalization |-> {"x"}, interval |-> 60, p95 |-> 10, mix |-> {normal}, build |-> build]
MCBundles == {Bundle(v1, {b1}), Bundle(v2, {b1}), Bundle(v2, {})}

\* What each device contributes: enough from one device, or only from both.
Counts(records) ==
  [records |-> records, labelled |-> 10, labels |-> normal :> 8 @@ faulty :> 8, labelOrder |-> <<normal, faulty>>]
MCSpecs == {Counts(100), Counts(60)}

MCComputes == {[instance |-> {"ml"}, count |-> 1, seconds |-> 3600, hourly |-> 100],
               [instance |-> {"ml"}, count |-> 9, seconds |-> 3600, hourly |-> 900]}

MCPolicies ==
  [build |-> [minRecords |-> 100, minLabelled |-> 10, minPerLabel |-> 5, maxShare |-> 50, minDevices |-> 2,
              reasons |-> TRUE],
   training |-> [estimate |-> TRUE, maxCost |-> 2000, maxSeconds |-> 7200, floors |-> <<>>],
   release |-> [maxKib |-> 256, maxFleetMib |-> 512, preprocessing |-> TRUE, baseline |-> TRUE, lineage |-> TRUE]]
=============================================================================
