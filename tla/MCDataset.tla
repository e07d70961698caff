------------------------------ MODULE MCDataset ------------------------------
(***************************************************************************)
(* A small time series: one sensor, a time column, and a label column the  *)
(* second schema takes for something else.  The thresholds are the code's  *)
(* defaults (percent), each measurement has one value on either side of    *)
(* what the judgement turns on.                                            *)
(***************************************************************************)
EXTENDS Dataset

Requests == Permutations(Threads)

MCModality == "TIME_SERIES"

Field(type, role) == [type |-> type, role |-> role, required |-> TRUE, range |-> {}]

Column(type, empty) == [type |-> type, empty |-> empty, values |-> {}]

MCProfiles ==
  {[rows |-> 9, columns |-> [time |-> Column("TIMESTAMP", FALSE), volt |-> Column("INTEGER", empty),
                             kind |-> Column("TEXT", FALSE)]] : empty \in BOOLEAN}
    \union {[rows |-> 0, columns |-> [time |-> Column("TIMESTAMP", FALSE)]]}

Plain == [time |-> Field("TIMESTAMP", "TIME_INDEX"), volt |-> Field("REAL", "FEATURE"),
          kind |-> Field("CATEGORY", "LABEL")]

MCSchemas == {Plain, [Plain EXCEPT !.volt.role = "METADATA"]}

MCSpaces == {[field |-> "kind", classes |-> {"ok", "bad"}]}

Ratio == [train |-> 60, validation |-> 20, test |-> 20]

MCPlans == {[strategy |-> "TIME_ORDERED", time |-> {"time"}, group |-> {}, ratio |-> Ratio, seed |-> n] : n \in 1..2}
             \union {[strategy |-> "RANDOM", time |-> {}, group |-> {}, ratio |-> Ratio, seed |-> 1]}

MCDesigns ==
  {[schema |-> Plain, features |-> {"volt"}, label |-> "kind", window |-> {[length |-> 10, stride |-> 5]},
    image |-> FALSE, method |-> "ZSCORE", statistics |-> {}, fittedTo |-> {}]}

MCSignals == {[volt |-> [total |-> 100, outOfRange |-> 0, constantRun |-> 12, saturated |-> n]] : n \in {2}}

MCTimeAxes == {[duration |-> 90, records |-> 10, outOfOrder |-> 0, duplicates |-> 0, median |-> 10, longestGap |-> 10]}

MCLabelCounts == {[counts |-> [ok |-> 300, bad |-> n], unlabeled |-> 0, reviewed |-> 50, disagreed |-> 2] : n \in {29, 0}}

MCShifts == {[observed |-> 200, unseen |-> 0, shifts |-> [volt |-> [psi |-> p, coverage |-> 95]]] : p \in {10}}

MCPartitions ==
  {[counts |-> [train |-> 60, validation |-> 20, test |-> 20], sharedGroups |-> 0, timeOverlap |-> t,
    classes |-> [train |-> [ok |-> 50, bad |-> 10], test |-> [ok |-> 17, bad |-> 3]]] : t \in {0}}

MCPolicies ==
  [sensors   |-> [maxOutOfRange |-> 0, minConstantRun |-> 10, maxConstantRun |-> 15, maxSaturated |-> 2],
   images    |-> [minFocus |-> 50, maxDefocused |-> 5, maxUnreadable |-> 0, maxDuplicates |-> 2,
                  maxBrightnessSpread |-> 40],
   time      |-> [interval |-> 10, allowOutOfOrder |-> FALSE, maxDuplicates |-> 0, tolerance |-> 20,
                  gapMultiplier |-> 3, minCoverage |-> 95],
   labels    |-> [minPerClass |-> 30, maxUnlabeled |-> 0, requireReview |-> TRUE, minAgreement |-> 90,
                  maxImbalance |-> 10],
   shift     |-> [minObserved |-> 100, psiWarning |-> 10, psiCritical |-> 25, minCoverage |-> 90, maxUnseen |-> 5],
   partition |-> [minPerSplit |-> 1, ratioTolerance |-> 5, maxClassGap |-> 10]]

MCReadinessPolicies ==
  {[required |-> DefaultRequiredKinds, allowWarnings |-> TRUE, maxWarnings |-> n] : n \in {1, 10}}
=============================================================================
