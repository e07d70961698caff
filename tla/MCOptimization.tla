--------------------------- MODULE MCOptimization ---------------------------
(***************************************************************************)
(* One accepted model, converted by two threads for two runtimes, and one  *)
(* that was not accepted and that TFLite cannot take.                      *)
(***************************************************************************)
EXTENDS Optimization, TLC

Interchangeable == Permutations(Threads)

MCBaselines ==
  {[version |-> "mv-power", kind |-> "CNN1D", trainSamples |-> 200, accepted |-> TRUE],
   [version |-> "mv-parts", kind |-> "CNN2D", trainSamples |-> 0, accepted |-> FALSE]}

MCTargets == {<<"ONNX", "FP32">>, <<"TFLITE", "INT8">>}

Measure(size, p95, rate) ==
  [size |-> size, p95 |-> p95, activation |-> 4096, accuracy |-> rate, macro |-> rate,
   recall |-> [ok |-> rate, bad |-> rate]]

MCMeasures == {Measure(40000, 30, 950), Measure(12000, 90, 940)}

MCChecks == {[samples |-> 128, diff |-> 50, agreement |-> 1000], [samples |-> 128, diff |-> 50000, agreement |-> 900]}

Policy(objective, p95, deployable) ==
  [objective |-> objective, tie |-> 50, requireDeployable |-> deployable,
   budget |-> [p95 |-> p95, storage |-> {65536}, activation |-> {}, minMacro |-> 0, maxDrop |-> 20, maxClassDrop |-> 50],
   equivalence |-> [fp32 |-> 100, fp16 |-> 10000, minAgreement |-> 990, minSamples |-> 32]]

MCPolicies == {Policy("ACCURACY", 100, TRUE), Policy("SIZE", 50, TRUE)}

---------------------------------------------------------------------------
(* What the pure rules promise, over small inputs. *)

Made(label, size, p95, rate) ==
  [label |-> label, size |-> size, p95 |-> p95, activation |-> 1, accuracy |-> rate, macro |-> rate,
   recall |-> [ok |-> rate], equivalence |-> {[samples |-> 64, diff |-> 0, agreement |-> 1000]}]

Base(p95) == [Made(Eager, 9, p95, 900) EXCEPT !.equivalence = {}]

Trio(sizes, times, rates) ==
  <<Made(<<"ONNX", "FP32">>, sizes[1], times[1], rates[1]),
    Made(<<"TFLITE", "FP32">>, sizes[2], times[2], rates[2]),
    Made(<<"TFLITE", "INT8">>, sizes[3], times[3], rates[3])>>

\* "The most accurate of those within the budget": what is selected is within
\* the budget and deployable, nothing acceptable is more accurate, and the
\* order in which candidates were added makes no difference (SelectionPolicy).
ASSUME \A sizes \in [1..3 -> {5, 9}], times \in [1..3 -> {40, 41, 60}], rates \in [1..3 -> {885, 900}] :
  LET trio     == Trio(sizes, times, rates)
      policy   == Policy("ACCURACY", 50, TRUE)
      chosen   == Evaluate(policy, <<Base(45)>> \o trio).selected
      reversed == Evaluate(policy, <<Base(45)>> \o Reverse(trio)).selected
  IN /\ chosen = reversed
     /\ \A c \in chosen : /\ c.p95 <= 50 /\ c.label # Eager
                          /\ \A d \in ToSet(trio) : d.p95 <= 50 => d.macro <= c.macro
     /\ chosen = {} <=> \A d \in ToSet(trio) : d.p95 > 50

\* Whatever is chosen for its speed lies on the Pareto front, or another of the
\* same speed does; nothing that is on the front is dominated (TradeoffTable).
ASSUME \A times \in [1..3 -> {40, 60}], rates \in [1..3 -> {890, 900}] :
  LET table  == <<Base(45)>> \o Trio(<<5, 6, 7>>, times, rates)
      front  == ParetoFront(table)
      chosen == Evaluate(Policy("LATENCY", 90, FALSE), table).selected
  IN /\ front # {} /\ \A c \in ToSet(table) \ front : \E d \in front : Dominates(d, c)
     /\ \A c \in chosen : \E d \in front : d.p95 = c.p95
     /\ SlowerThanBaseline(table) = {c \in ToSet(table) : c.p95 > 45}

\* Quantizing moves a weight by half a level at most, and the ends stay within
\* the range of the bits (fake_quantize).
ASSUME \A bits \in 2..8, weight \in -20..20 :
  LET limit == 2 ^ (bits - 1) - 1 level == QuantizedLevel(weight, 20, bits) IN
  level \in -limit..limit /\ 2 * Distance(level * 20, weight * limit) <= 20

\* Shrinking leaves at least one channel and one layer, and never adds any
\* (TorchStructuralReducer._shrink).
ASSUME \A channels \in UNION {[1..n -> {1, 5, 32}] : n \in 1..3}, ratio \in {10, 50, 75, 99} :
  LET narrow == Shrunk(channels, "WIDTH", ratio)  flat == Shrunk(channels, "DEPTH", ratio) IN
  /\ Len(narrow) = Len(channels) /\ \A i \in DOMAIN channels : narrow[i] \in 1..channels[i]
  /\ Len(flat) \in 1..Len(channels) /\ IsPrefix(flat, channels)

\* Unstructured pruning never makes a usable candidate: its zeros stay in the
\* file, and fine tuning either keeps them there or undoes them (StructuralPolicy).
ASSUME \A nonzero \in {40, 70, 89, 100}, tuned \in BOOLEAN :
  LET o == Outcome([kind |-> "PRUNE_UNSTRUCTURED", ratio |-> 60, fineTuned |-> tuned],
                   [parameters |-> 100, macs |-> 900, size |-> 400, accuracy |-> 950],
                   [parameters |-> 100, macs |-> 900, size |-> 400, accuracy |-> 945], nonzero) IN
  tuned => Usable([maxDrop |-> 30, minMacs |-> 100], {o}) = {}

\* A memory that is faster never makes a layer wait for memory that did not,
\* and the dominant bottleneck is that of some layer (RooflineProfile).
ASSUME \A macs \in [1..2 -> {0, 8, 800}], parameters \in [1..2 -> {1, 50}], bandwidth \in 1..3 :
  LET layers == LayerCosts(4, [i \in 1..2 |-> [name |-> i, macs |-> macs[i], parameters |-> parameters[i], out |-> 2]])
      slow == [gmacs |-> 2, bandwidth |-> bandwidth]  fast == [slow EXCEPT !.bandwidth = @ + 1]
  IN /\ \A i \in 1..2 : Bottleneck(layers[i], fast) = "MEMORY_BOUND" => Bottleneck(layers[i], slow) = "MEMORY_BOUND"
     /\ DominantBottleneck(layers, slow) \in {Bottleneck(layers[i], slow) : i \in 1..2}

\* A batch is never praised for its throughput when a sample of it takes as
\* long as one alone, and misses the cycle if any batch does (CycleTimePolicy).
ASSUME \A cost \in 1..3, cycle \in {5, 12, 40} :
  LET P50(n) == n * cost  points == Scaling({1, 4, 16}, P50, P50)  found == CycleFindings(cycle, points) IN
  /\ IsScaling(points)
  /\ found = {Finding("BATCH_MISSES_CYCLE_TIME", "CRITICAL", n) : n \in {m \in {4, 16} : m * cost > cycle}}
=============================================================================
