------------------------- MODULE OperationsPolicies -------------------------
(***************************************************************************)
(* The value objects and policies of the operations context                *)
(* (domain/operations) and the measurers of infrastructure/monitoring:     *)
(* windows and logs, latency, the mix of predictions, drift of the inputs, *)
(* the time line and its onsets, incidents, retraining, shadow runs, split *)
(* traffic, release checks, packaging and the pipeline of a device.        *)
(*                                                                         *)
(* Latencies are in hundredths of the unit of the log, so that percentiles *)
(* are whole; rates, confidences and thresholds are thousandths.  A value  *)
(* computed by a division is a pair <<part, whole>>.                       *)
(***************************************************************************)
EXTENDS Inspection, FiniteSetsExt, SequencesExt

Weight(n) == IF n = 0 THEN 1 ELSE n

\* part / whole against a threshold in thousandths; over nothing it is 0.
Above(value, mille) == 1000 * value[1] > mille * Weight(value[2])
Below(value, mille) == 1000 * value[1] < mille * Weight(value[2])

---------------------------------------------------------------------------
(* Windows and the log. *)

IsWindow(w) == w.from <= w.to /\ w.samples >= 0

\* The record checks itself when it is made: a log holds no other.
IsRecord(r) == r.version >= 1 /\ r.confidence \in 0..1000 /\ r.latency >= 0

WindowFindings(minimum, w) ==
  Found(w.samples < minimum, "OPS_WINDOW_TOO_SMALL", "WARNING", w.label)

RecordsIn(log, w) ==
  SelectSeq(log, LAMBDA r : w.from <= r.at /\ r.at <= w.to /\ w.device \subseteq {r.device})

\* The whole log as one window.
WindowsOf(log) ==
  IF log = <<>> THEN {}
  ELSE {[label |-> "all", from |-> Head(log).at, to |-> Last(log).at, samples |-> Len(log), device |-> {}]}

\* Windows of `hours`, from the full hour of the first record (times are minutes).
SliceWindows(log, hours, device) ==
  LET selected == SelectSeq(log, LAMBDA r : device \subseteq {r.device})
      first    == (Head(selected).at \div 60) * 60
      span     == 60 * hours
      count    == (Last(selected).at - first) \div span + 1
  IN IF selected = <<>> THEN <<>>
     ELSE [i \in 1..count |->
             LET from == first + (i - 1) * span IN
             [label |-> from, from |-> from, to |-> from + span - 1, device |-> device,
              samples |-> Len(SelectSeq(selected, LAMBDA r : r.at \in from..(from + span - 1)))]]

Tally(records, Test(_)) == Len(SelectSeq(records, Test))

Summarize(records) ==
  [total |-> Len(records), timestamps |-> Len(records), devices |-> Len(records),
   versioned |-> Tally(records, LAMBDA r : r.version > 0), confident |-> Len(records),
   digests |-> Tally(records, LAMBDA r : r.digest # {}),
   labelled |-> Tally(records, LAMBDA r : r.truth # {}),
   distinctVersions |-> Cardinality({records[i].version : i \in DOMAIN records})]

LogFindings(policy, c) ==
  IF c.total = 0 THEN Found(TRUE, "LOG_EMPTY", "CRITICAL", "log")
  ELSE Found(c.timestamps < c.total, "LOG_MISSING_TIMESTAMP", "CRITICAL", "time")
       \union Found(c.devices < c.total, "LOG_MISSING_DEVICE", "CRITICAL", "device")
       \union Found(c.versioned < c.total, "LOG_MISSING_VERSION", "CRITICAL", "version")
       \union Found(c.confident < c.total, "LOG_MISSING_CONFIDENCE", "CRITICAL", "confidence")
       \union Found(Below(<<c.digests, c.total>>, policy.minDigests), "LOG_MISSING_DIGEST", "WARNING", "input_digest")
       \union Found(Below(<<c.labelled, c.total>>, policy.minLabelled), "LOG_TOO_FEW_LABELS", "WARNING", "ground_truth")
       \union Found(c.distinctVersions > 1, "LOG_MIXED_VERSIONS", "WARNING", "deployment_version")

---------------------------------------------------------------------------
(* Latency. *)

\* The q-th percentile of a sorted sequence, linear between neighbours.
Percentile(sorted, q) ==
  LET position == (Len(sorted) - 1) * q
      low      == position \div 100 + 1
      fraction == position % 100
  IN 100 * sorted[low] + IF fraction = 0 THEN 0 ELSE fraction * (sorted[low + 1] - sorted[low])

\* Answers beyond the time-out are counted apart; if all are, they count as it.
MeasureLatency(records, timeout) ==
  LET values == SortSeq([i \in DOMAIN records |-> records[i].latency], <)
      kept   == SelectSeq(values, LAMBDA v : \A t \in timeout : v <= t)
      used   == IF kept = <<>> THEN SetToSeq(timeout) ELSE kept
  IN IF records = <<>> THEN [p50 |-> 0, p95 |-> 0, p99 |-> 0, max |-> 0, timeouts |-> 0]
     ELSE [p50 |-> Percentile(used, 50), p95 |-> Percentile(used, 95), p99 |-> Percentile(used, 99),
           max |-> 100 * Last(used), timeouts |-> Len(values) - Len(kept)]

IsLatency(l) ==
  0 <= l.p50 /\ l.p50 <= l.p95 /\ l.p95 <= l.p99 /\ l.p99 <= l.max /\ l.timeouts >= 0

LatencyFindings(policy, w, l, baseline) ==
     Found(l.p95 > policy.budget, "OPS_OVER_CYCLE_BUDGET", "CRITICAL", w.label)
  \union Found(baseline > 0 /\ Above(<<l.p95, baseline>>, policy.maxRegression), "OPS_LATENCY_REGRESSION",
               IF l.p95 <= policy.budget THEN "WARNING" ELSE "CRITICAL", w.label)
  \union Found(IF l.p50 = 0 THEN policy.maxJitter < 1000 ELSE Above(<<l.p95, l.p50>>, policy.maxJitter),
               "OPS_LATENCY_JITTER", "WARNING", w.label)
  \union Found(Above(<<l.timeouts, w.samples + l.timeouts>>, policy.maxTimeouts), "OPS_TIMEOUT", "CRITICAL", w.label)

---------------------------------------------------------------------------
(* The mix of predictions: label -> how many, and the sum of their confidences. *)

MeasureMix(records) ==
  LET labels == {records[i].label : i \in DOMAIN records}
      of(l)  == SelectSeq(records, LAMBDA r : r.label = l)
  IN [l \in labels |-> [count |-> Len(of(l)), sum |-> FoldLeft(LAMBDA s, r : s + r.confidence, 0, of(l))]]

CountOf(mix, l) == IF l \in DOMAIN mix THEN mix[l].count ELSE 0

MixTotal(mix) == MapThenSumSet(LAMBDA l : mix[l].count, DOMAIN mix)

\* A baseline is a function from labels to shares.
ShareOf(baseline, l) == IF l \in DOMAIN baseline THEN baseline[l] ELSE 0

Shares(mix) == [l \in DOMAIN mix |-> (1000 * mix[l].count) \div Weight(MixTotal(mix))]

OverallConfidence(mix) == <<MapThenSumSet(LAMBDA l : mix[l].sum, DOMAIN mix), 1000 * Weight(MixTotal(mix))>>

ShiftFrom(mix, baseline) ==
  LET whole == Weight(MixTotal(mix)) IN
  <<MapThenSumSet(LAMBDA l : Distance(1000 * CountOf(mix, l), ShareOf(baseline, l) * whole),
                  DOMAIN mix \union DOMAIN baseline), 2000 * whole>>

VanishedFrom(mix, baseline) == {l \in DOMAIN baseline : baseline[l] > 0 /\ CountOf(mix, l) = 0}

\* At least factor times its share: factor is in thousandths.
SurgedFrom(mix, baseline, factor) ==
  {l \in DOMAIN baseline :
     baseline[l] > 0 /\ 1000000 * CountOf(mix, l) >= factor * baseline[l] * Weight(MixTotal(mix))}

MixFindings(policy, w, mix, baseline, baselineConfidence) ==
  IF DOMAIN baseline = {} THEN Found(TRUE, "OPS_NO_MIX_BASELINE", "WARNING", w.label)
  ELSE LET confidence == OverallConfidence(mix) IN
       Found(Above(ShiftFrom(mix, baseline), policy.maxShift), "OPS_PREDICTION_SHIFT", "WARNING", w.label)
       \union {Finding("OPS_LABEL_VANISHED", IF l \in policy.critical THEN "CRITICAL" ELSE "WARNING", l)
               : l \in VanishedFrom(mix, baseline)}
       \union {Finding("OPS_LABEL_SURGE", "WARNING", l) : l \in SurgedFrom(mix, baseline, policy.surge)}
       \union Found(confidence[1] > 0 /\ Below(confidence, policy.minConfidence), "OPS_LOW_CONFIDENCE", "WARNING", w.label)
       \union Found(\E c \in baselineConfidence \ {0} : Below(confidence, c - policy.maxDrop), "OPS_CONFIDENCE_DROP", "WARNING", w.label)

---------------------------------------------------------------------------
(* Drift of the inputs: field -> [psi, outside], both in thousandths. *)

MaxPsi(drift) == Max({0} \union {drift[f].psi : f \in DOMAIN drift})

Drifted(drift, threshold) == {f \in DOMAIN drift : drift[f].psi >= threshold}

DriftFindings(policy, w, drift) ==
  IF DOMAIN drift = {} THEN Found(TRUE, "OPS_NO_DRIFT_BASELINE", "WARNING", w.label)
  ELSE LET drifted == Drifted(drift, policy.maxPsi) IN
       {Finding("OPS_INPUT_DRIFT", "WARNING", f) : f \in drifted}
       \union {Finding("OPS_INPUT_DRIFT_WATCH", "INFO", f) : f \in Drifted(drift, policy.watchPsi) \ drifted}
       \union {Finding("OPS_INPUT_OUT_OF_RANGE", "CRITICAL", f)
               : f \in {g \in DOMAIN drift : drift[g].outside >= policy.maxOutside}}
       \union Found(Cardinality(drifted) > policy.maxFields, "OPS_MULTI_FEATURE_DRIFT", "CRITICAL", w.label)

\* The measurer's bins are the deciles of the reference; equal ones are merged.
EdgesOf(sorted) == {Percentile(sorted, 10 * q) : q \in 0..10}

\* Values outside the reference: they fall into the outermost bins.
Outside(sorted, values) == Tally(values, LAMBDA v : v < Head(sorted) \/ v > Last(sorted))

---------------------------------------------------------------------------
(* The time line: a sequence of reports.  A value a report lacks is skipped. *)

ValueOf(report, metric) ==
  CASE metric = "LATENCY_P95"      -> {<<l.p95, 100>> : l \in report.latency}
    [] metric = "PREDICTION_SHIFT" -> IF DOMAIN report.baseline = {} THEN {} ELSE {ShiftFrom(m, report.baseline) : m \in report.mix}
    [] metric = "INPUT_PSI"        -> {<<MaxPsi(d), 1000>> : d \in report.drift}
    [] metric = "CONFIDENCE"       -> {OverallConfidence(m) : m \in report.mix}

\* The labels of the window where it was first exceeded, and of the window
\* from which it stayed so: the first of `consecutive` measured windows in a row.
OnsetOf(reports, metric, threshold, consecutive) ==
  LET points      == SelectSeq(reports, LAMBDA r : ValueOf(r, metric) # {})
      Exceeded(i) == \A v \in ValueOf(points[i], metric) : Above(v, threshold)
      first       == {i \in DOMAIN points : Exceeded(i)}
      sustained   == {i \in DOMAIN points : i + consecutive - 1 <= Len(points)
                                            /\ \A j \in i..(i + consecutive - 1) : Exceeded(j)}
      Earliest(S) == IF S = {} THEN {} ELSE {points[Min(S)].window.label}
  IN [first |-> Earliest(first), sustained |-> Earliest(sustained)]

SpikeOnly(onset) == onset.first # {} /\ onset.sustained = {}

---------------------------------------------------------------------------
(* Incidents. *)

KindOf(code) ==
  CASE code \in {"OPS_OVER_CYCLE_BUDGET", "OPS_LATENCY_REGRESSION", "OPS_LATENCY_JITTER", "OPS_TIMEOUT"} -> "LATENCY"
    [] code \in {"OPS_PREDICTION_SHIFT", "OPS_LABEL_VANISHED", "OPS_LABEL_SURGE", "OPS_CONFIDENCE_DROP",
                 "OPS_LOW_CONFIDENCE"} -> "PREDICTION_SHIFT"
    [] code \in {"OPS_INPUT_DRIFT", "OPS_INPUT_DRIFT_WATCH", "OPS_INPUT_OUT_OF_RANGE", "OPS_MULTI_FEATURE_DRIFT"} -> "INPUT_DRIFT"
    [] code \in {"LOG_EMPTY", "LOG_MISSING_TIMESTAMP", "LOG_MISSING_DEVICE", "LOG_MISSING_VERSION",
                 "LOG_MISSING_CONFIDENCE", "LOG_MISSING_DIGEST", "LOG_TOO_FEW_LABELS", "LOG_MIXED_VERSIONS"} -> "LOGGING"
    [] OTHER -> "MIXED"

Assess(findings) == {KindOf(f.code) : f \in findings}

IncidentKindOf(findings) ==
  IF Cardinality(Assess(findings)) = 1 THEN CHOOSE k \in Assess(findings) : TRUE ELSE "MIXED"

ShouldQuarantine(policy, findings) ==
  \/ policy.onCritical /\ Blocking(findings) # {}
  \/ Cardinality(Warnings(findings)) >= policy.warnings

---------------------------------------------------------------------------
(* Retraining. *)

\* Everything labelled counts as labelled since the deployment, unless the
\* caller says from when.
CountLabels(log, since) ==
  LET records  == SelectSeq(log, LAMBDA r : \A w \in WindowsOf(log) : \A s \in since : w.from >= s)
      labelled == SelectSeq(records, LAMBDA r : r.truth # {})
      truths   == UNION {labelled[i].truth : i \in DOMAIN labelled}
  IN [total |-> Len(records), labelled |-> Len(labelled), new |-> Len(labelled),
      perClass |-> [t \in truths |-> Tally(labelled, LAMBDA r : r.truth = {t})]]

IsSupply(s) == s.labelled <= s.total

\* A class nobody labelled is not among the counted ones, so it is not starved.
Blockers(policy, supply) ==
  (IF supply.new < policy.minNew THEN {"too few new labels"} ELSE {})
  \union (IF \E t \in DOMAIN supply.perClass : supply.perClass[t] < policy.minPerClass THEN {"starved class"} ELSE {})

DecideRetraining(policy, reports, supply, accuracy) ==
  LET drift == OnsetOf(reports, "INPUT_PSI", policy.psi, policy.sustained)
      shift == OnsetOf(reports, "PREDICTION_SHIFT", policy.shift, policy.sustained)
      decayed  == \E c \in ValueOf(Last(reports), "CONFIDENCE") : Below(c, policy.confidence)
      dropped  == \E a \in accuracy, floor \in policy.accuracy : a < floor
      triggers == (IF drift.sustained # {} THEN {"INPUT_DRIFT"} ELSE {})
                  \union (IF shift.sustained # {} THEN {"PREDICTION_SHIFT"} ELSE {})
                  \union (IF decayed THEN {"CONFIDENCE_DECAY"} ELSE {})
                  \union (IF dropped THEN {"MEASURED_ACCURACY_DROP"} ELSE {})
      blockers == IF triggers = {} THEN {} ELSE Blockers(policy, supply)
  IN [needed   |-> triggers # {},
      urgency  |-> CASE dropped -> "NOW"
                     [] ~dropped /\ triggers # {} -> "PLAN"
                     [] ~dropped /\ triggers = {} /\ SpikeOnly(drift) -> "WATCH"
                     [] OTHER -> "NONE",
      reasons  |-> triggers \union (IF triggers # {} /\ blockers = {} THEN {"NEW_LABELS_AVAILABLE"} ELSE {}),
      blockers |-> blockers]

---------------------------------------------------------------------------
(* A candidate beside the incumbent: shadow runs and split traffic. *)

\* The answers of both to the first records, as many as both have.
ShadowOf(records, answers, candidateP95) ==
  LET count  == Min({Len(records), Len(answers)})
      Agree(Test(_)) == Cardinality({i \in 1..count : Test(i)})
      latencies == SortSeq([i \in 1..count |-> records[i].latency], <)
  IN [samples |-> count, agreement |-> Agree(LAMBDA i : records[i].label = answers[i]),
      incumbentP95 |-> Percentile(latencies, 95), candidateP95 |-> candidateP95,
      labelled |-> Agree(LAMBDA i : records[i].truth # {}),
      incumbentCorrect |-> Agree(LAMBDA i : records[i].truth = {records[i].label}),
      candidateCorrect |-> Agree(LAMBDA i : records[i].truth = {answers[i]})]

IsShadow(s) ==
  /\ s.samples >= 1 /\ s.agreement <= s.samples /\ s.labelled <= s.samples
  /\ s.incumbentCorrect <= s.labelled /\ s.candidateCorrect <= s.labelled

ShadowFindings(policy, s) ==
     Found(s.samples < policy.minSamples, "SHADOW_TOO_FEW_SAMPLES", "CRITICAL", "window")
  \union Found(policy.requireLabels /\ s.labelled = 0, "SHADOW_NO_LABELS", "CRITICAL", "window")
  \union Found(s.labelled \in 1..(policy.minLabelled - 1), "SHADOW_TOO_FEW_LABELS", "WARNING", "window")
  \union Found(s.labelled > 0 /\ 1000 * (s.candidateCorrect - s.incumbentCorrect) < policy.minGain * s.labelled,
               "SHADOW_NOT_BETTER", "CRITICAL", "candidate")
  \union Found(s.incumbentP95 > 0 /\ Above(<<s.candidateP95, s.incumbentP95>>, policy.maxSlowdown),
               "SHADOW_SLOWER", "CRITICAL", "candidate")
  \union Found(policy.minAgreement > 0 /\ Below(<<s.agreement, s.samples>>, policy.minAgreement),
               "SHADOW_HIGH_DISAGREEMENT", "WARNING", "window")

MayPromote(policy, s) == DeriveVerdict(ShadowFindings(policy, s)) # "FAILED"

IsSplit(s) == s.control # s.candidate /\ s.ratio \in 1..999

\* right / (right + wrong) as thousandths; nothing confirmed is nothing right.
ArmPrecision(arm) == (1000 * arm.right) \div Weight(arm.right + arm.wrong)

ArmFindings(policy, arm) ==
     Found(arm.samples < policy.minSamples, "AB_TOO_FEW_SAMPLES", "CRITICAL", arm.version)
  \union Found(arm.devices < policy.minDevices, "AB_TOO_FEW_DEVICES", "CRITICAL", arm.version)
  \union Found(arm.right + arm.wrong < policy.minConfirmed, "AB_NO_GROUND_TRUTH", "CRITICAL", arm.version)

SplitFindings(policy, split, control, candidate) ==
  LET all == Weight(control.samples + candidate.samples) IN
     ArmFindings(policy, control) \union ArmFindings(policy, candidate)
  \union Found(Distance(1000 * candidate.samples, split.ratio * all) > policy.maxSkew * all,
               "AB_ASSIGNMENT_SKEWED", "WARNING", "device_id")
  \union Found(ArmPrecision(control) - ArmPrecision(candidate) > policy.stopDrop,
               "AB_STOP_PRECISION", "CRITICAL", candidate.version)
  \union Found(control.p95 > 0 /\ 1000 * candidate.p95 > policy.stopLatency * control.p95,
               "AB_STOP_LATENCY", "CRITICAL", candidate.version)

---------------------------------------------------------------------------
(* What may go out, and how. *)

IsTarget(t) == t.devices >= 1 /\ (t.kind = "DEVICE" => t.devices = 1)

IsWide(t) == t.kind = "FLEET" \/ t.devices > 10

HasBaseline(artifact) == artifact.p95 > 0 /\ DOMAIN artifact.mix # {}

HasPreprocessing(artifact) == artifact.normalized \/ artifact.inputs = {}

ReleaseFindings(policy, artifact, target, previous) ==
     Found(policy.requireSelected /\ ~artifact.selected, "RELEASE_NOT_SELECTED", "CRITICAL", "artifact")
  \union Found(policy.requirePreprocessing /\ ~HasPreprocessing(artifact), "RELEASE_NO_PREPROCESSING", "CRITICAL", "normalization")
  \union Found(policy.requireBaseline /\ ~HasBaseline(artifact), "RELEASE_NO_BASELINE", "CRITICAL", "baseline")
  \union Found(previous = 0 /\ target.devices > policy.maxFirst, "RELEASE_FIRST_TOO_WIDE", "CRITICAL", "target")
  \union Found(previous = 0 /\ target.devices <= policy.maxFirst, "RELEASE_FIRST_NO_ROLLBACK_TARGET", "INFO", "target")
  \union Found(artifact.inputs = {}, "RELEASE_NO_INPUT_SCHEMA",
               IF policy.requirePreprocessing THEN "CRITICAL" ELSE "WARNING", "input_fields")

IsCapability(d) == d.storage >= 0 /\ d.uplink > 0 /\ d.devices >= 1

IsPackaging(o) == o.bytes > 0 /\ o.rollback >= 0

PackagingFindings(policy, device, o) ==
     Found(o.kind = "CONTAINER" /\ ~device.container, "PKG_RUNTIME_UNSUPPORTED", "CRITICAL", o.kind)
  \union Found(policy.headroom * o.bytes > 1000 * device.storage, "PKG_NO_STORAGE", "CRITICAL", o.kind)
  \union Found(o.bytes > policy.maxTransfer * device.uplink, "PKG_TRANSFER_TOO_LONG", "WARNING", o.kind)
  \union Found(o.rollback > policy.maxRollback, "PKG_ROLLBACK_SLOW", "WARNING", o.kind)
  \union Found(o.kind = "MODEL_FILE", "PKG_PREPROCESSING_NOT_SHIPPED", "WARNING", o.kind)

---------------------------------------------------------------------------
(* The pipeline of a device: what it was trained to see, and what each of   *)
(* its stages lets through.                                                 *)

Stages == <<"ACQUIRE", "PREPROCESS", "INFER", "POSTPROCESS", "EMIT">>

Differences(contract, other) == {f \in DOMAIN contract : contract[f] # other[f]}

StageOrder(stage) == CHOOSE i \in DOMAIN Stages : Stages[i] = stage

\* Stages come in the order of the pipeline; none need be there but one.
IsPipelineRun(run) ==
  /\ run.stages # <<>>
  /\ \A i \in DOMAIN run.stages : run.stages[i].succeeded \in 0..run.stages[i].attempted
  /\ \A i, j \in DOMAIN run.stages : i < j => StageOrder(run.stages[i].stage) <= StageOrder(run.stages[j].stage)

\* The first stage of that name, if there is one.
StageOf(run, stage) ==
  LET named == SelectSeq(run.stages, LAMBDA s : s.stage = stage) IN IF named = <<>> THEN {} ELSE {Head(named)}

\* How often it could have decided: windows, where there is a window stage.
Opportunities(run) ==
  IF StageOf(run, "PREPROCESS") # {} THEN Max({s.attempted : s \in StageOf(run, "PREPROCESS")})
  ELSE Head(run.stages).attempted

Answered(run) == Max({0} \union {s.succeeded : s \in StageOf(run, "EMIT")})

PipelineFindings(policy, run, trained) ==
     Found(\E c \in trained : Differences(run.contract, c) # {}, "PIPE_CONTRACT_MISMATCH", "CRITICAL", run.device)
  \union {Finding("PIPE_STAGE_DROP", IF s.stage \in {"ACQUIRE", "INFER"} THEN "CRITICAL" ELSE "WARNING", s.stage)
          : s \in {t \in ToSet(run.stages) : Above(<<t.attempted - t.succeeded, t.attempted>>, policy.maxDrop)}}
  \union Found(Below(<<Answered(run), Opportunities(run)>>, policy.minEndToEnd), "PIPE_END_TO_END_LOSS", "CRITICAL", run.device)
  \union Found(Answered(run) > 0 /\ Above(<<run.withheld, Opportunities(run)>>, policy.maxWithheld),
               "PIPE_TOO_MANY_WITHHELD", "WARNING", run.device)
=============================================================================
