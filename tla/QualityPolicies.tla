-------------------------- MODULE QualityPolicies --------------------------
(***************************************************************************)
(* The policies of the data quality context (domain/data_quality): for     *)
(* each of the six dimensions, what it finds in a measurement and the      *)
(* score it gives; the gate over all of them; and the two comparisons.     *)
(*                                                                         *)
(* A measurement is a record, or a function from field names to records,   *)
(* of counts out of a total.  Thresholds are in thousandths, scores and    *)
(* deductions in whole points, rounded down.                               *)
(***************************************************************************)
EXTENDS Inspection, FiniteSetsExt

Dimensions == {"COMPLETENESS", "VALIDITY", "LABEL_QUALITY", "BALANCE", "NOISE", "UNIQUENESS"}

---------------------------------------------------------------------------
(* Scores. *)

Beyond(part, whole, mille) == part * 1000 > mille * whole

\* Nothing up to the tolerance, the whole weight from the cap on, linear
\* between; a cap below the tolerance makes it all or nothing.
Deduct(part, whole, tolerance, cap, weight) ==
  LET excess == part * 1000 - tolerance * whole
      room   == (cap - tolerance) * whole IN
  CASE whole = 0 \/ excess <= 0 -> 0
    [] whole > 0 /\ excess > 0 /\ excess >= room -> weight
    [] OTHER -> (weight * excess) \div room

FromDeductions(total) == Max({100 - total, 0})

Result(deductions, findings) ==
  [score |-> FromDeductions(deductions), findings |-> findings]

\* The dimensions measured field by field are as bad as their worst field.
WorstField(fields, Penalty(_), findings) ==
  Result(Max({Penalty(n) : n \in DOMAIN fields} \union {0}), findings)

Passes(result) == DeriveVerdict(result.findings) # "FAILED"

---------------------------------------------------------------------------
(* The six dimensions. *)

HiddenMissing(m) ==
  /\ Beyond(m.repeated, m.total, 10)
  /\ m.repeated > 0 /\ m.meanRun < 2

LongRun(m) == m.longestRun >= 10 /\ Beyond(m.longestRun, m.total, 10)

Concentrated(m) == m.missing > 0 /\ m.concentration > 600

Completeness(fields) ==
  WorstField(fields,
    LAMBDA n : LET m == fields[n] IN
      Deduct(m.missing, m.total, 20, 300, 45)
      + (IF LongRun(m) THEN Deduct(m.longestRun, m.total, 10, 100, 25) ELSE 0)
      + (IF Concentrated(m) THEN Deduct(m.concentration, 1000, 600, 1000, 20) ELSE 0)
      + (IF HiddenMissing(m) THEN Deduct(m.repeated, m.total, 10, 150, 40) ELSE 0),
    UNION {LET m == fields[n] IN
        Found(Beyond(m.missing, m.total, 20), "MISSING_RATIO_HIGH",
              IF Beyond(m.missing, m.total, 60) THEN "CRITICAL" ELSE "WARNING", n)
        \union Found(LongRun(m), "MISSING_RUN_LONG", "CRITICAL", n)
        \union Found(Concentrated(m), "MISSING_CONCENTRATED", "CRITICAL", n)
        \union Found(HiddenMissing(m), "MISSING_HIDDEN", "CRITICAL", n)
      : n \in DOMAIN fields})

MaskingGap(m) == Max({m.mad - m.z, 0})

\* The share of the outliers that lie in rows labelled normal is deducted
\* whenever there are outliers; the deduction is 0 up to the tolerance.
NormalShare(m) == <<m.madNormal, m.madLabelled>>

Validity(fields) ==
  WorstField(fields,
    LAMBDA n : LET m == fields[n] IN
      Deduct(m.outOfRange, m.total, 0, 50, 30)
      + Deduct(m.mad, m.total, 10, 100, 30)
      + Deduct(MaskingGap(m), m.total, 5, 50, 10)
      + Deduct(m.rate, m.total, 5, 20, 20)
      + (IF m.mad > 0 THEN Deduct(NormalShare(m)[1], NormalShare(m)[2], 700, 1000, 10) ELSE 0),
    UNION {LET m == fields[n] IN
        Found(Beyond(m.outOfRange, m.total, 0), "VALIDITY_OUT_OF_RANGE", "CRITICAL", n)
        \union Found(Beyond(m.mad, m.total, 10), "VALIDITY_OUTLIER_RATIO", "WARNING", n)
        \union Found(Beyond(MaskingGap(m), m.total, 5), "VALIDITY_ZSCORE_MASKED", "WARNING", n)
        \union Found(Beyond(m.rate, m.total, 5), "VALIDITY_RATE_VIOLATION", "CRITICAL", n)
        \union Found(m.mad > 0 /\ Beyond(NormalShare(m)[1], NormalShare(m)[2], 700),
                     "VALIDITY_OUTLIER_IN_NORMAL", "CRITICAL", n)
      : n \in DOMAIN fields})

\* What of the labels can be right at all, in thousandths.
AccuracyCeiling(m) ==
  IF m.labeled = 0 THEN 1000
  ELSE Max({0, 1000 - ((m.violations + m.conflicts) * 1000) \div m.labeled})

LabelQuality(m, rules) ==
  Result((IF rules = {} THEN 40 ELSE 0)
           + Deduct(m.violations, m.labeled, 5, 50, 40)
           + Deduct(m.conflicts, m.labeled, 0, 20, 40),
    UNION {Found(rules = {}, "LABEL_NO_CONSISTENCY_RULE", "CRITICAL", "rules"),
           Found(Beyond(m.violations, m.labeled, 5), "LABEL_RULE_VIOLATION", "CRITICAL", "label"),
           {Finding("LABEL_VIOLATION_BY_CLASS", "INFO", c) : c \in m.violated},
           Found(Beyond(m.conflicts, m.labeled, 0), "LABEL_CONFLICT", "CRITICAL", "label"),
           Found(AccuracyCeiling(m) < 980, "LABEL_ACCURACY_CEILING", "WARNING", "label")})

Present(counts) == {counts[c] : c \in {k \in DOMAIN counts : counts[k] > 0}}

ClassesPresent(counts) == Cardinality({c \in DOMAIN counts : counts[c] > 0})

Balance(counts, testPercent) ==
  LET most     == Max(Present(counts))
      least    == Min(Present(counts))
      total    == MapThenSumSet(LAMBDA c : counts[c], DOMAIN counts)
      expected == least * testPercent IN
  IF ClassesPresent(counts) < 2
  THEN [score |-> 0, findings |-> {Finding("BALANCE_SINGLE_CLASS", "CRITICAL", "class")}]
  ELSE Result(Deduct(Min({most, 1000 * least}), least, 20000, 200000, 25)
                + Deduct(most, total, 950, 1000, 35)
                + Deduct(100 - least, 100, 0, 1000, 30)
                + Deduct(2000 - expected, 2000, 0, 1000, 10),
    UNION {Found(Beyond(most, least, 20000), "BALANCE_IMBALANCED", "WARNING", "class"),
           Found(Beyond(most, total, 950), "BALANCE_BASELINE_TOO_HIGH", "CRITICAL", "accuracy"),
           Found(least < 100, "BALANCE_MINORITY_TOO_FEW", "CRITICAL", "class"),
           Found(expected < 2000, "BALANCE_TEST_TOO_THIN", "WARNING", "class")})

\* Ratios of powers in dB, high frequencies in millionths.
Noise(fields) ==
  WorstField(fields,
    LAMBDA n : LET m == fields[n] IN
      Deduct(20 - m.snr, 30, 0, 1000, 55)
      + Deduct(m.reversals, 1000, 750, 1000, 25)
      + (IF m.highFrequency < 10 THEN 20 ELSE 0),
    UNION {LET m == fields[n] IN
        Found(m.snr < 20, "NOISE_SNR_LOW", IF m.snr < 10 THEN "CRITICAL" ELSE "WARNING", n)
        \union Found(m.reversals > 750, "NOISE_JITTER", "WARNING", n)
        \union Found(m.highFrequency < 10, "NOISE_OVERSMOOTHED", "CRITICAL", n)
      : n \in DOMAIN fields})

Distinct(m) == m.rows - m.exact

Uniqueness(m) ==
  Result(Deduct(m.exact, m.rows, 5, 200, 45)
           + Deduct(m.near, m.rows, 50, 400, 25)
           + Deduct(m.conflicting, m.rows, 0, 50, 30),
    UNION {Found(Beyond(m.exact, m.rows, 5), "UNIQUENESS_EXACT_DUPLICATE", "CRITICAL", "feature_vector"),
           Found(Beyond(m.near, m.rows, 50), "UNIQUENESS_NEAR_DUPLICATE", "WARNING", "feature_vector"),
           Found(Beyond(m.conflicting, m.rows, 0), "UNIQUENESS_LABEL_CONFLICT", "CRITICAL", "label"),
           Found(Distinct(m) <= 0 \/ Beyond(m.rows, Distinct(m), 1050),
                 "UNIQUENESS_SAMPLE_INFLATION", "WARNING", "sample_count")})

---------------------------------------------------------------------------
(* The gate.  Results are a function from the dimensions measured. *)

\* A policy whose weights cover what it requires and sum to the whole.
IsGatePolicy(policy) ==
  /\ policy.required \subseteq DOMAIN policy.weights
  /\ MapThenSumSet(LAMBDA d : policy.weights[d], DOMAIN policy.weights) = 100
  /\ \A d \in DOMAIN policy.weights : policy.weights[d] >= 0
  /\ policy.minOverall \in 0..100

\* The weighted mean of what was measured: what was not is a reason of its own.
OverallScore(policy, results) ==
  LET weight(d) == IF d \in DOMAIN policy.weights THEN policy.weights[d] ELSE 0
      total     == MapThenSumSet(weight, DOMAIN results) IN
  IF total = 0 THEN 0
  ELSE MapThenSumSet(LAMBDA d : weight(d) * results[d].score, DOMAIN results) \div total

Reasons(policy, results, unverified) ==
  {<<"TOO_LOW", d>> : d \in {k \in DOMAIN results : results[k].score < policy.minDimension}}
  \union {<<"BLOCKS", d>> : d \in {k \in policy.blocking \intersect DOMAIN results : ~Passes(results[k])}}
  \union {<<"NOT_MEASURED", d>> : d \in policy.required \ DOMAIN results}
  \union {<<"UNVERIFIED", d>> : d \in unverified}
  \union (IF OverallScore(policy, results) < policy.minOverall THEN {<<"OVERALL", "ALL">>} ELSE {})

\* Mutant: a repair passes without its proof.
EvaluateTrusting(policy, results, unverified) ==
  LET reasons == Reasons(policy, results, {}) IN
  [verdict |-> IF reasons # {} THEN "FAILED" ELSE "PASSED",
   reasons |-> reasons,
   missing |-> policy.required \ DOMAIN results]

Evaluate(policy, results, unverified) ==
  LET reasons  == Reasons(policy, results, unverified)
      warnings == UNION {Warnings(results[d].findings) : d \in DOMAIN results} IN
  [verdict |-> CASE reasons # {} -> "FAILED"
                 [] reasons = {} /\ warnings # {} -> "PASSED_WITH_WARNINGS"
                 [] OTHER -> "PASSED",
   reasons |-> reasons,
   missing |-> policy.required \ DOMAIN results]

IsReady(certificate) == certificate.verdict # "FAILED"

---------------------------------------------------------------------------
(* What the data means for training, and two assessments side by side. *)

EstimateTrainingImpact(missing, duplicates, counts, labels) ==
  [total       |-> duplicates.rows,
   usable      |-> Max({Distinct(duplicates) - duplicates.conflicting, 0}),
   withMissing |-> Min({MapThenSumSet(LAMBDA n : missing[n].missing, DOMAIN missing),
                        Max({missing[n].total : n \in DOMAIN missing} \union {0})}),
   minority    |-> IF Present(counts) = {} THEN 0 ELSE Min(Present(counts)),
   ceiling     |-> AccuracyCeiling(labels)]

\* Compared dimensions are those both snapshots have; half a point is no change.
Delta(before, after, d) == after[d].score - before[d].score

Improved(before, after) ==
  {d \in DOMAIN before \intersect DOMAIN after : Delta(before, after, d) > 0}

Regressed(before, after) ==
  {d \in DOMAIN before \intersect DOMAIN after : Delta(before, after, d) < 0}

---------------------------------------------------------------------------
(* Rebalancing. *)

RebalancingStrategies == {"NONE", "OVERSAMPLE", "UNDERSAMPLE", "CLASS_WEIGHT", "SYNTHETIC"}

\* Only a synthetic sample could bring information; the others move rows.
InformationGain(outcome) ==
  IF outcome.strategy = "SYNTHETIC" THEN outcome.synthesized ELSE 0

RebalancingFindings(plan, outcome) ==
  LET base == Max({outcome.distinctMinority, 1}) IN
  UNION {Found(~plan.afterSplit, "REBALANCE_BEFORE_SPLIT", "CRITICAL", plan.strategy),
         Found(outcome.duplicated > 0 /\ outcome.duplicated + base > 3 * base,
               "REBALANCE_HEAVY_DUPLICATION", "WARNING", plan.strategy),
         Found(outcome.before > 0 /\ outcome.discarded * 2 > outcome.before,
               "REBALANCE_HEAVY_DISCARD", "WARNING", plan.strategy),
         Found(outcome.synthesized > 0, "REBALANCE_SYNTHETIC", "WARNING", plan.strategy),
         Found(outcome.distinctMinority \in 1..49, "REBALANCE_CANNOT_FIX_SHORTAGE",
               IF plan.strategy = "NONE" THEN "WARNING" ELSE "CRITICAL", plan.strategy),
         Found(plan.strategy = "CLASS_WEIGHT" /\ outcome.after = outcome.before,
               "REBALANCE_WEIGHT_ONLY", "INFO", plan.strategy)}

SafeStrategies(rows) == {r[1].strategy : r \in {q \in rows : Blocking(q[3]) = {}}}
=============================================================================
