------------------------ MODULE OptimizationPolicies ------------------------
(***************************************************************************)
(* The value objects and policies of the optimization context              *)
(* (domain/optimization): runtimes, benchmarks, conversions, the table of  *)
(* candidates and the choice from it, structural reduction, quantization,  *)
(* the roofline, resources and batches; with the arithmetic of the         *)
(* exporters and laboratories of infrastructure/optimization.              *)
(*                                                                         *)
(* Times are microseconds, rates are thousandths, differences of outputs   *)
(* are millionths, sizes are bytes.  A candidate is                        *)
(*   [label |-> <<runtime, precision>>, size, p95, activation, accuracy,   *)
(*    macro, recall |-> [class -> rate], equivalence |-> option].          *)
(***************************************************************************)
EXTENDS Inspection, Integers, Sequences, FiniteSets, SequencesExt, FiniteSetsExt

Content(option) == CHOOSE x \in option : TRUE

---------------------------------------------------------------------------
(* Runtimes and artifacts. *)

Runtimes == {"PYTORCH", "TORCHSCRIPT", "ONNX", "TFLITE"}

DeployableOnDevice(runtime) == runtime # "PYTORCH"

BytesPerWeight == [FP32 |-> 4, FP16 |-> 2, INT8 |-> 1]

\* What a file holds beyond its weights.
Overhead(parameters, precision, size) ==
  LET weights == parameters * BytesPerWeight[precision] IN IF size > weights THEN size - weights ELSE 0

\* Only TFLite takes anything but full precision.
Supports(runtime, precision) == precision = "FP32" \/ runtime = "TFLITE"

\* A TFLite file is built through Keras, which knows two architectures, and
\* eight bits want samples of train to learn the ranges from.
Converts(runtime, precision, kind, trainSamples) ==
  runtime = "TFLITE" => kind \in {"CNN1D", "MLP"} /\ (precision = "INT8" => trainSamples > 0)

\* Two neighbouring layers' results are held at once, and the input, in floats.
ActivationBytes(input, outputs) ==
  LET sizes == <<1>> \o outputs
      pairs == {sizes[i] + sizes[i + 1] : i \in 1..(Len(sizes) - 1)}
  IN 4 * (input + IF pairs = {} THEN 0 ELSE Max(pairs))

---------------------------------------------------------------------------
(* Benchmarks. *)

IsProtocol(p) == p.warmup >= 0 /\ p.runs >= 1 /\ p.batch >= 1 /\ p.threads >= 1

IsBenchmark(b) ==
  /\ IsProtocol(b.protocol) /\ b.activation >= 0
  /\ 0 <= b.min /\ b.min <= b.p50 /\ b.p50 <= b.p95 /\ b.p95 <= b.p99 /\ b.p99 <= b.max

BenchmarkFindings(policy, b) ==
  LET p == b.protocol IN
     Found(p.warmup < policy.minWarmup, "BENCH_NO_WARMUP", "CRITICAL", "warmup")
  \union Found(p.runs < policy.minRuns, "BENCH_TOO_FEW_RUNS", "WARNING", "runs")
  \union Found(policy.singleThread /\ p.threads > 1, "BENCH_MULTI_THREAD", "WARNING", "threads")
  \union Found(policy.batchOne /\ p.batch > 1, "BENCH_BATCHED", "CRITICAL", "batch_size")
  \union Found(IF b.p50 = 0 THEN policy.maxJitter < 1000 ELSE 1000 * b.p95 > policy.maxJitter * b.p50,
               "BENCH_JITTER_HIGH", "WARNING", "jitter")

\* From one export to another: thousandths of the other's p95 over this one's.
Speedup(b, other) == IF b.p95 = 0 THEN 0 ELSE (1000 * other.p95) \div b.p95

---------------------------------------------------------------------------
(* Conversions.  Every conversion starts from the eager PyTorch module. *)

Tolerance(policy, precision) ==
  CASE precision = "FP32" -> {policy.fp32} [] precision = "FP16" -> {policy.fp16} [] OTHER -> {}

EquivalenceFindings(policy, c) ==
  LET runtime == c.label[1] IN
  IF c.equivalence = {} THEN Found(runtime # "PYTORCH", "CONVERT_NOT_VERIFIED", "CRITICAL", runtime)
  ELSE LET e == Content(c.equivalence) IN
       Found(e.samples < policy.minSamples, "CONVERT_SAMPLE_TOO_FEW", "WARNING", runtime)
       \union Found(\E limit \in Tolerance(policy, c.label[2]) : e.diff > limit,
                    "CONVERT_OUTPUT_DRIFT", "CRITICAL", runtime)
       \union Found(e.agreement < policy.minAgreement, "CONVERT_PREDICTION_CHANGED", "CRITICAL", runtime)

---------------------------------------------------------------------------
(* The table: a sequence that begins with the baseline. *)

\* A dictionary keeps the place of a key whose value is replaced.
WithCandidate(candidates, c) ==
  IF \E i \in DOMAIN candidates : candidates[i].label = c.label
  THEN [i \in DOMAIN candidates |-> IF candidates[i].label = c.label THEN c ELSE candidates[i]]
  ELSE Append(candidates, c)

\* The largest loss of recall among the baseline's classes, zero when none lost.
WorstClassDrop(c, baseline) ==
  Max({0} \union {baseline.recall[k] - (IF k \in DOMAIN c.recall THEN c.recall[k] ELSE 0) : k \in DOMAIN baseline.recall})

Dominates(c, d) ==
  /\ c.p95 <= d.p95 /\ c.macro >= d.macro
  /\ c.p95 < d.p95 \/ c.macro > d.macro

ParetoFront(table) == {c \in ToSet(table) : ~ \E d \in ToSet(table) : Dominates(d, c)}

SlowerThanBaseline(table) == {c \in ToSet(Tail(table)) : c.p95 > Head(table).p95}

---------------------------------------------------------------------------
(* The choice. *)

IsBudget(b) ==
  /\ b.p95 > 0 /\ \A x \in b.storage \union b.activation : x > 0
  /\ {b.minMacro, b.maxDrop, b.maxClassDrop} \subseteq 0..1000

CheckCandidate(policy, c, baseline) ==
  LET b == policy.budget IN
     Found(policy.requireDeployable /\ ~DeployableOnDevice(c.label[1]),
           "SELECT_RUNTIME_NOT_DEPLOYABLE", "CRITICAL", c.label)
  \union Found(c.p95 > b.p95, "SELECT_OVER_LATENCY_BUDGET", "CRITICAL", c.label)
  \union Found(\E x \in b.storage : c.size > x, "SELECT_OVER_STORAGE_BUDGET", "CRITICAL", c.label)
  \union Found(\E x \in b.activation : c.activation > x, "SELECT_OVER_ACTIVATION_BUDGET", "CRITICAL", c.label)
  \union Found(c.macro < b.minMacro, "SELECT_BELOW_MACRO_RECALL", "CRITICAL", c.label)
  \union Found(baseline.accuracy - c.accuracy > b.maxDrop, "SELECT_ACCURACY_DROP", "CRITICAL", c.label)
  \union Found(WorstClassDrop(c, baseline) > b.maxClassDrop, "SELECT_CLASS_RECALL_DROP", "CRITICAL", c.label)
  \union EquivalenceFindings(policy.equivalence, c)
  \union Found(c.p95 > baseline.p95, "SELECT_SLOWER_THAN_BASELINE", "WARNING", c.label)

\* Python's min: the first of those with the least key.
FirstLeast(seq, Key(_)) ==
  seq[CHOOSE i \in DOMAIN seq : \A j \in DOMAIN seq :
        Key(seq[i]) < Key(seq[j]) \/ (Key(seq[i]) = Key(seq[j]) /\ i <= j)]

\* Labels as strings are ordered: the runtime's name, then the precision's.
LabelRank(label) ==
  CHOOSE n \in 1..6 :
    <<<<"ONNX", "FP32">>, <<"PYTORCH", "FP32">>, <<"TFLITE", "FP16">>, <<"TFLITE", "FP32">>,
      <<"TFLITE", "INT8">>, <<"TORCHSCRIPT", "FP32">>>>[n] = label

\* The most accurate; among those as accurate, of those within tie of the
\* fastest, the smallest.
Pick(policy, accepted) ==
  LET P95(c)  == c.p95
      Size(c) == c.size
      Better(c, d) == c.macro > d.macro \/ (c.macro = d.macro /\ c.accuracy > d.accuracy)
      tied == SelectSeq(accepted, LAMBDA c : \A d \in ToSet(accepted) : ~Better(d, c))
      fastest == Min({c.p95 : c \in ToSet(tied)})
      contenders == SelectSeq(tied, LAMBDA c : 1000 * c.p95 <= fastest * (1000 + policy.tie))
      smallest == SelectSeq(contenders, LAMBDA c : \A d \in ToSet(contenders) : c.size <= d.size)
      Rank(c) == LabelRank(c.label)
  IN CASE policy.objective = "LATENCY" -> FirstLeast(accepted, P95)
       [] policy.objective = "SIZE"    -> FirstLeast(accepted, Size)
       [] OTHER                        -> FirstLeast(smallest, Rank)

\* The certificate names the choice, if any, and every candidate's findings.
Evaluate(policy, table) ==
  LET accepted == SelectSeq(table, LAMBDA c : Blocking(CheckCandidate(policy, c, Head(table))) = {})
  IN [selected |-> IF accepted = <<>> THEN {} ELSE {Pick(policy, accepted)},
      verdict  |-> IF accepted = <<>> THEN "FAILED" ELSE "PASSED",
      verdicts |-> [i \in DOMAIN table |-> CheckCandidate(policy, table[i], Head(table))]]

---------------------------------------------------------------------------
(* Structural reduction. *)

ChangesShape(kind) == kind \in {"WIDTH", "DEPTH"}

\* Python rounds halves to the even neighbour.
RoundHalfEven(n, d) ==
  LET q == n \div d r == n % d IN
  IF 2 * r < d \/ (2 * r = d /\ q % 2 = 0) THEN q ELSE q + 1

\* The channels left: narrower layers, or fewer of them.
Shrunk(channels, kind, ratio) ==
  LET Kept(n) == Max({1, RoundHalfEven(n * (100 - ratio), 100)}) IN
  IF kind = "WIDTH" THEN [i \in DOMAIN channels |-> Kept(channels[i])]
                    ELSE SubSeq(channels, 1, Kept(Len(channels)))

Sparsity(o) == IF o.parameters = 0 THEN 0 ELSE (1000 * (o.parameters - o.nonzero)) \div o.parameters

Saved(before, after) == IF before = 0 THEN 0 ELSE 1000 - (1000 * after) \div before

\* A pruned model keeps its architecture, so its multiplications.
Outcome(reduction, before, after, nonzero) ==
  [kind |-> reduction.kind, ratio |-> reduction.ratio, fineTuned |-> reduction.fineTuned,
   parameters |-> after.parameters, nonzero |-> nonzero,
   macsBefore |-> before.macs, macsAfter |-> IF ChangesShape(reduction.kind) THEN after.macs ELSE before.macs,
   sizeBefore |-> before.size, sizeAfter |-> after.size, drop |-> before.accuracy - after.accuracy]

StructuralFindings(policy, o) ==
     Found(~o.fineTuned, "STRUCT_NO_FINE_TUNE", IF o.drop > policy.maxDrop THEN "CRITICAL" ELSE "WARNING", o.kind)
  \union Found(o.drop > policy.maxDrop, "STRUCT_ACCURACY_LOST", "CRITICAL", o.kind)
  \union Found(Sparsity(o) > 100 /\ Saved(o.sizeBefore, o.sizeAfter) < 50,
               "STRUCT_SPARSITY_NOT_REALIZED", "CRITICAL", o.kind)
  \union Found(o.fineTuned /\ ~ChangesShape(o.kind) /\ 2 * Sparsity(o) < 10 * o.ratio,
               "STRUCT_PRUNE_UNDONE", "CRITICAL", o.kind)
  \union Found(Saved(o.macsBefore, o.macsAfter) < policy.minMacs, "STRUCT_MAC_UNCHANGED", "WARNING", o.kind)

Usable(policy, outcomes) == {o \in outcomes : Blocking(StructuralFindings(policy, o)) = {}}

---------------------------------------------------------------------------
(* Quantization. *)

\* The level of a weight when the largest magnitude of its scale is top: its
\* value is the level's share of top.
QuantizedLevel(weight, top, bits) ==
  LET limit == 2 ^ (bits - 1) - 1
      level == IF weight < 0 THEN -RoundHalfEven(-weight * limit, top) ELSE RoundHalfEven(weight * limit, top)
  IN Max({-limit - 1, Min({limit, level})})

QuantizedBytes(weights, bits) == (weights * bits) \div 8

QuantizationFindings(policy, q) ==
  LET ptqDrop == q.baseline - q.ptq  qatDrop == q.baseline - q.qat IN
     Found(ptqDrop <= policy.acceptable, "QUANT_PTQ_SUFFICIENT", "INFO", q.bits)
  \union Found(ptqDrop > policy.acceptable /\ q.qat - q.ptq < policy.minRecovery,
               "QUANT_QAT_DID_NOT_HELP", "WARNING", q.bits)
  \union Found(ptqDrop > policy.acceptable /\ q.qat - q.ptq >= policy.minRecovery,
               "QUANT_QAT_JUSTIFIED", "INFO", q.bits)
  \union Found(qatDrop > policy.acceptable, "QUANT_STILL_DEGRADED", "CRITICAL", q.bits)

---------------------------------------------------------------------------
(* The roofline: where the time of a model goes on a device. *)

\* The elements going in and out of each layer, and its weights, in floats.
LayerCosts(input, layers) ==
  [i \in DOMAIN layers |->
     [name |-> layers[i].name, macs |-> layers[i].macs,
      moved |-> 4 * (layers[i].parameters + layers[i].out + IF i = 1 THEN input ELSE layers[i - 1].out)]]

\* The balance of the machine is gmacs over bandwidth; a quarter to either side
\* of it is balanced.
Bottleneck(layer, device) ==
  LET intensity == 4 * layer.macs * device.bandwidth
      balance   == layer.moved * device.gmacs
  IN CASE layer.macs = 0 /\ layer.moved = 0           -> "NEGLIGIBLE"
       [] layer.moved = 0 \/ intensity < 3 * balance  -> "MEMORY_BOUND"
       [] intensity > 5 * balance                     -> "COMPUTE_BOUND"
       [] OTHER                                       -> "BALANCED"

Macs(layers) == FoldSeq(LAMBDA layer, sum : sum + layer.macs, 0, layers)

\* The kind with the most work; of equals the one met first.
DominantBottleneck(layers, device) ==
  LET Kind(i) == Bottleneck(layers[i], device)
      Weight(kind) == FoldSeq(LAMBDA layer, sum : sum + IF Bottleneck(layer, device) = kind
                                                        THEN Max({layer.macs, layer.moved}) ELSE 0, 0, layers)
      first == {i \in DOMAIN layers : \A j \in 1..(i - 1) : Kind(j) # Kind(i)}
  IN IF layers = <<>> THEN "NEGLIGIBLE"
     ELSE Kind(CHOOSE i \in first : \A j \in first :
                 Weight(Kind(i)) > Weight(Kind(j)) \/ (Weight(Kind(i)) = Weight(Kind(j)) /\ i <= j))

RooflineFindings(policy, layers, device) ==
  LET total == Max({1, Macs(layers)})
      bound == Macs(SelectSeq(layers, LAMBDA layer : Bottleneck(layer, device) = "MEMORY_BOUND"))
      LessWork(layer) == -layer.macs
      busiest == FirstLeast(layers, LessWork)
      memory == 1000 * bound > policy.maxMemoryShare * total
  IN IF layers = <<>> THEN {}
     ELSE Found(memory, "ROOFLINE_MEMORY_BOUND", "INFO", "memory")
          \union Found(~memory, "ROOFLINE_COMPUTE_BOUND", "INFO", "compute")
          \union Found(2 * busiest.macs > total, "ROOFLINE_SINGLE_HOTSPOT", "WARNING", busiest.name)

---------------------------------------------------------------------------
(* Resources and batches. *)

ResourceFindings(policy, u) ==
     Found(u.peak > policy.maxRss, "RES_OVER_MEMORY", "CRITICAL", u.label)
  \union Found(u.peak <= policy.maxRss /\ 1000 * u.peak > policy.warn * policy.maxRss,
               "RES_MEMORY_TIGHT", "WARNING", u.label)
  \union Found(u.wall > 0 /\ 1000 * u.cpu > (policy.maxCores + 200) * u.wall, "RES_MULTI_CORE", "CRITICAL", u.label)
  \union Found(u.artifact > 0 /\ u.peak > policy.maxRatio * u.artifact, "RES_RUNTIME_DOMINATES", "WARNING", u.label)

\* The points of a batch measurement, by size; the first must be a single one.
IsScaling(points) ==
  /\ Len(points) >= 2 /\ points[1].batch = 1
  /\ \A i \in DOMAIN points : points[i].batch >= 1 /\ points[i].p50 >= 0 /\ points[i].p95 >= 0

Scaling(sizes, P50(_), P95(_)) ==
  LET order == SetToSortSeq(sizes, <) IN
  [i \in DOMAIN order |-> [batch |-> order[i], p50 |-> P50(order[i]), p95 |-> P95(order[i])]]

LargestBatch(points) == LET Size(p) == -p.batch IN FirstLeast(points, Size)

\* A whole batch answers when its last sample is done.
CycleFindings(cycle, points) ==
  LET one == points[1]  many == LargestBatch(points)
      gain == one.p50 > 0 /\ many.p50 > 0 /\ 2 * many.batch * one.p50 > 3 * many.p50 IN
  UNION {Found(points[i].batch # 1 /\ points[i].p50 > cycle,
               "BATCH_MISSES_CYCLE_TIME", "CRITICAL", points[i].batch) : i \in DOMAIN points}
  \union Found(gain, "BATCH_THROUGHPUT_GAIN", "INFO", many.batch)
=============================================================================
