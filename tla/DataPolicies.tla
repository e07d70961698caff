---------------------------- MODULE DataPolicies ----------------------------
(***************************************************************************)
(* The policies of the data context (domain/data): what each inspection    *)
(* finds in a measurement, and what a set of reports amounts to.           *)
(*                                                                         *)
(* A schema is a function from field names to specifications, a profile    *)
(* one from column names to what was seen.  A value that may be None is a  *)
(* set with at most one element.                                           *)
(***************************************************************************)
EXTENDS Inspection, FiniteSetsExt

Kinds == {"PROFILE", "SCHEMA", "SIGNAL_PLAUSIBILITY", "TIME_AXIS", "LABEL_SPACE",
          "TRAINING_SPEC", "PARTITION", "REPRESENTATIVENESS"}

DefaultRequiredKinds == Kinds \ {"PROFILE", "TIME_AXIS"}

Numeric == {"REAL", "INTEGER"}

---------------------------------------------------------------------------
(* Schema against profile. *)

WithRole(schema, role) == {n \in DOMAIN schema : schema[n].role = role}

\* What __post_init__ of DataSchema and FieldSpec accept.
IsSchema(schema) ==
  /\ DOMAIN schema # {}
  /\ Cardinality(WithRole(schema, "TIME_INDEX")) <= 1
  /\ Cardinality(WithRole(schema, "LABEL")) <= 1
  /\ \A n \in DOMAIN schema :
       /\ schema[n].range # {} => schema[n].type \in Numeric
       /\ schema[n].role = "TIME_INDEX" => schema[n].type = "TIMESTAMP"

AcceptsProfile(spec, column) ==
  \/ column.type = spec.type
  \/ spec.type = "REAL" /\ column.type = "INTEGER"
  \/ {spec.type, column.type} = {"CATEGORY", "TEXT"}
  \/ column.empty

SchemaFindings(schema, profile) ==
  UNION {LET spec == schema[n] column == profile[n] IN
           IF n \notin DOMAIN profile
           THEN {Finding("FIELD_MISSING", IF spec.required THEN "CRITICAL" ELSE "WARNING", n)}
           ELSE Found(~AcceptsProfile(spec, column), "TYPE_MISMATCH", "CRITICAL", n)
             \union Found(spec.required /\ column.empty, "REQUIRED_FIELD_EMPTY", "CRITICAL", n)
             \union Found(column.type \in Numeric /\ \E r \in spec.range, v \in column.values : v < r[1],
                          "BELOW_PHYSICAL_RANGE", "CRITICAL", n)
             \union Found(column.type \in Numeric /\ \E r \in spec.range, v \in column.values : v > r[2],
                          "ABOVE_PHYSICAL_RANGE", "CRITICAL", n)
         : n \in DOMAIN schema}
  \union {Finding("UNDECLARED_FIELD", "WARNING", n) : n \in DOMAIN profile \ DOMAIN schema}

---------------------------------------------------------------------------
(* Signals. *)

SensorFindings(policy, channels) ==
  UNION {LET m == channels[n] IN
           Found(Over(m.outOfRange, m.total, policy.maxOutOfRange),
                 "SIGNAL_OUT_OF_RANGE", "CRITICAL", n)
           \union Found(m.constantRun >= policy.minConstantRun
                          /\ Over(m.constantRun, m.total, policy.maxConstantRun),
                        "SIGNAL_STUCK", "CRITICAL", n)
           \union Found(Over(m.saturated, m.total, policy.maxSaturated),
                        "SIGNAL_SATURATED", "WARNING", n)
         : n \in DOMAIN channels}

Defocused(policy, m) == Cardinality({i \in DOMAIN m.focus : m.focus[i] < policy.minFocus})

\* The least score of no image is 0.
LeastFocus(m) == IF m.focus = <<>> THEN 0 ELSE Min({m.focus[i] : i \in DOMAIN m.focus})

ImageFindings(policy, m) ==
  LET blurred == Over(Defocused(policy, m), m.total, policy.maxDefocused) IN
  UNION {Found(Over(m.unreadable, m.total, policy.maxUnreadable),
               "SIGNAL_UNREADABLE", "CRITICAL", "image"),
         Found(blurred, "SIGNAL_DEFOCUSED", "CRITICAL", "focus"),
         Found(~blurred /\ LeastFocus(m) < policy.minFocus,
               "SIGNAL_DEFOCUSED", "WARNING", "focus"),
         Found(m.brightnessSpread > policy.maxBrightnessSpread,
               "SIGNAL_EXPOSURE_SHIFT", "WARNING", "brightness"),
         Found(Over(m.duplicates, m.total, policy.maxDuplicates),
               "SIGNAL_VISUAL_DUPLICATE", "WARNING", "duplicate"),
         Found(m.resolutions > 1, "SIGNAL_RESOLUTION_MIXED", "WARNING", "resolution")}

---------------------------------------------------------------------------
(* Time axis.  Times are whole multiples of a second. *)

\* floor(duration / interval) + 1
ExpectedCount(duration, interval) == (duration \div interval) + 1

TimeAxisFindings(policy, m) ==
  LET expected == ExpectedCount(m.duration, policy.interval) IN
  UNION {Found(~policy.allowOutOfOrder /\ m.outOfOrder > 0, "TIME_OUT_OF_ORDER", "CRITICAL", "time"),
         Found(Over(m.duplicates, m.records, policy.maxDuplicates), "TIME_DUPLICATED", "CRITICAL", "time"),
         Found(m.median > 0 /\ Over(Distance(m.median, policy.interval), policy.interval, policy.tolerance),
               "TIME_INTERVAL_MISMATCH", "WARNING", "time"),
         Found(m.longestGap > policy.interval * policy.gapMultiplier, "TIME_GAP", "WARNING", "time"),
         Found(Under(Min({m.records, expected}), expected, policy.minCoverage),
               "TIME_COVERAGE_LOW", "CRITICAL", "time")}

---------------------------------------------------------------------------
(* Labels.  A label space is the field it is about and its classes. *)

CountOf(m, class) == IF class \in DOMAIN m.counts THEN m.counts[class] ELSE 0

Total(counts) == MapThenSumSet(LAMBDA c : counts[c], DOMAIN counts)

Imbalanced(counts, limit) ==
  /\ DOMAIN counts # {}
  /\ LET sizes == {counts[c] : c \in DOMAIN counts} IN
       Min(sizes) = 0 \/ Max(sizes) > limit * Min(sizes)

LabelFindings(policy, space, m) ==
  {Finding("LABEL_UNDEFINED", "CRITICAL", c) : c \in DOMAIN m.counts \ space.classes}
  \union {Finding("LABEL_CLASS_EMPTY", "CRITICAL", c) : c \in {k \in space.classes : CountOf(m, k) = 0}}
  \union {Finding("LABEL_CLASS_TOO_FEW", "WARNING", c) :
            c \in {k \in space.classes : CountOf(m, k) \in 1..(policy.minPerClass - 1)}}
  \union Found(Over(m.unlabeled, Total(m.counts) + m.unlabeled, policy.maxUnlabeled),
               "LABEL_MISSING", "CRITICAL", space.field)
  \union Found(policy.requireReview /\ m.reviewed = 0, "LABEL_NO_CROSS_REVIEW", "CRITICAL", space.field)
  \union Found(policy.requireReview /\ m.reviewed > 0
                 /\ Under(m.reviewed - m.disagreed, m.reviewed, policy.minAgreement),
               "LABEL_DISAGREEMENT", "CRITICAL", space.field)
  \union Found(Imbalanced(m.counts, policy.maxImbalance), "LABEL_IMBALANCED", "WARNING", space.field)

---------------------------------------------------------------------------
(* Representativeness. *)

RepresentativenessFindings(policy, m) ==
  Found(m.observed < policy.minObserved, "REPR_SAMPLE_TOO_SMALL", "WARNING", "observed")
  \union UNION {LET s == m.shifts[n] IN
                  Found(s.psi >= policy.psiCritical, "REPR_DISTRIBUTION_SHIFTED", "CRITICAL", n)
                  \union Found(s.psi < policy.psiCritical /\ s.psi >= policy.psiWarning,
                               "REPR_DISTRIBUTION_DRIFTING", "WARNING", n)
                  \union Found(s.coverage < policy.minCoverage, "REPR_COVERAGE_GAP", "CRITICAL", n)
                : n \in DOMAIN m.shifts}
  \union Found(m.unseen > policy.maxUnseen, "REPR_UNSEEN_CATEGORY", "CRITICAL", "category")

---------------------------------------------------------------------------
(* Partition.  A plan is a strategy, a ratio in percent and the fields it
   splits by; a measurement has the counts of the splits. *)

Splits == {"train", "validation", "test"}

\* PartitionPlan.__post_init__ and validate_against
FitsSchema(plan, schema) ==
  /\ plan.strategy = "TIME_ORDERED" => plan.time # {}
  /\ plan.strategy = "GROUP_HOLDOUT" => plan.group # {}
  /\ plan.time \subseteq WithRole(schema, "TIME_INDEX")
  /\ plan.group \subseteq WithRole(schema, "GROUP")
  /\ plan.strategy = "RANDOM" => WithRole(schema, "TIME_INDEX") = {}

\* Nothing is a share 0 of anything.
Whole(n) == Max({1, n})

\* The shares of a class in train and test differ by more than the gap.
Skewed(m, class, gap) ==
  LET share(s) == IF class \in DOMAIN m.classes[s] THEN m.classes[s][class] ELSE 0
      of(s) == Whole(Total(m.classes[s])) IN
    Over(Distance(share("train") * of("test"), share("test") * of("train")),
         of("train") * of("test"), gap)

PartitionFindings(policy, plan, m) ==
  LET total == Whole(m.counts["train"] + m.counts["validation"] + m.counts["test"])
      small(s) == m.counts[s] < policy.minPerSplit IN
  {Finding("PARTITION_EMPTY_SPLIT", "CRITICAL", s) : s \in {k \in Splits : small(k)}}
  \union {Finding("PARTITION_RATIO_DRIFT", "WARNING", s) :
            s \in {k \in Splits : ~small(k) /\ Distance(m.counts[k] * 100, plan.ratio[k] * total)
                                                 > policy.ratioTolerance * total}}
  \union Found(m.sharedGroups > 0, "PARTITION_GROUP_LEAKAGE", "CRITICAL", "group")
  \union Found(m.timeOverlap > 0, "PARTITION_TIME_LEAKAGE", "CRITICAL", "time")
  \union {Finding("PARTITION_CLASS_SKEW", "WARNING", c) :
            c \in {k \in DOMAIN m.classes["train"] \union DOMAIN m.classes["test"] :
                     Skewed(m, k, policy.maxClassGap)}}

---------------------------------------------------------------------------
(* The input contract of the model. *)

\* What __post_init__ of TrainingDataSpec accepts.
IsTrainingSpec(spec) ==
  /\ spec.features # {} /\ spec.features \subseteq DOMAIN spec.schema
  /\ \A n \in spec.features : spec.schema[n].role \notin {"IDENTIFIER", "LABEL", "GROUP", "TIME_INDEX"}
  /\ spec.label \in WithRole(spec.schema, "LABEL")
  /\ WithRole(spec.schema, "TIME_INDEX") # {} => spec.window # {} \/ spec.image
  /\ ~(spec.window # {} /\ spec.image)
  /\ \A w \in spec.window : w.stride \in 1..w.length
  /\ spec.method # "NONE" => spec.statistics \subseteq spec.features

SpecFindings(spec) ==
  {Finding("SPEC_FEATURE_UNUSED", "INFO", n) : n \in WithRole(spec.schema, "FEATURE") \ spec.features}
  \union Found(spec.method = "NONE", "SPEC_NO_NORMALIZATION", "WARNING", "normalization")
  \union {Finding("SPEC_STATISTICS_MISSING", "CRITICAL", n) :
            n \in {k \in spec.features : spec.method # "NONE" /\ k \notin spec.statistics}}
  \union Found(\E w \in spec.window : Over(w.length - w.stride, w.length, 90),
               "SPEC_WINDOW_OVERLAP_HIGH", "WARNING", "window")

---------------------------------------------------------------------------
(* Sampling design.  Bytes are in units of the budget's grain. *)

\* Bytes kept, times the interval: 86400 / interval samples a day.
BytesByInterval(plan) == 86400 * plan.bytesPerSample * plan.days

SamplingFindings(policy, plan, o) ==
  LET tooSlow == policy.target < policy.minPerEvent * plan.interval IN
  UNION {Found(o.lostRuns > 0, "SAMPLING_EVENT_LOST", "CRITICAL", "interval"),
         Found(tooSlow, "SAMPLING_TOO_SLOW", "CRITICAL", "interval"),
         Found(~tooSlow /\ policy.target > policy.overkill * plan.interval,
               "SAMPLING_OVERKILL", "INFO", "interval"),
         Found(BytesByInterval(plan) > policy.maxBytes * plan.interval,
               "SAMPLING_OVER_BUDGET", "WARNING", "interval"),
         Found(plan.resolution > 0 /\ o.distinct \in 1..(policy.minDistinct - 1),
               "RESOLUTION_TOO_COARSE", "CRITICAL", "resolution")}

\* rows: the plans compared, each with its findings.
Acceptable(rows) == {i \in DOMAIN rows : Blocking(rows[i].findings) = {}}

\* Of those that pass, the slowest one; max keeps the first of equals.
CheapestAcceptable(rows) ==
  {i \in Acceptable(rows) :
     \A j \in Acceptable(rows) \ {i} :
       \/ rows[j].plan.interval < rows[i].plan.interval
       \/ rows[j].plan.interval = rows[i].plan.interval /\ i < j}

---------------------------------------------------------------------------
(* Readiness: the reports, by kind, against what is required. *)

\* Mutant: an inspection that was never made does not block.
EvaluateWhatIsThere(policy, reports) ==
  LET all == UNION {reports[k] : k \in DOMAIN reports} IN
    [verdict  |-> IF Blocking(all) # {} THEN "FAILED"
                  ELSE IF Warnings(all) # {} THEN "PASSED_WITH_WARNINGS" ELSE "PASSED",
     missing  |-> policy.required \ DOMAIN reports,
     blocking |-> Blocking(all),
     warnings |-> Warnings(all)]

Evaluate(policy, reports) ==
  LET all == UNION {reports[k] : k \in DOMAIN reports}
      missing == policy.required \ DOMAIN reports
      blocking == Blocking(all)
        \union {Finding("READINESS_INSPECTION_MISSING", "CRITICAL", k) : k \in missing}
        \union Found(Cardinality(Warnings(all)) > policy.maxWarnings,
                     "READINESS_TOO_MANY_WARNINGS", "CRITICAL", "warnings")
      strict == blocking = {} /\ ~policy.allowWarnings /\ Warnings(all) # {} IN
    [verdict  |-> IF blocking # {} \/ strict THEN "FAILED"
                  ELSE IF Warnings(all) # {} THEN "PASSED_WITH_WARNINGS" ELSE "PASSED",
     missing  |-> missing,
     blocking |-> IF strict THEN Warnings(all) ELSE blocking,
     warnings |-> Warnings(all)]

IsReady(certificate) == certificate.verdict # "FAILED"
=============================================================================
