--------------------------- MODULE ModelPolicies ---------------------------
(***************************************************************************)
(* The policies of the model context (domain/model): what a training       *)
(* curve, a confusion matrix, the use of the splits, the windows, an image *)
(* folder, a baseline and a board of experiments amount to, and the        *)
(* acceptance that puts the first three together.                          *)
(*                                                                         *)
(* Accuracies and thresholds on them are in percent, losses in             *)
(* thousandths.  Ratios of counts are compared by cross multiplication.    *)
(***************************************************************************)
EXTENDS Inspection, FiniteSetsExt

SumOver(S, f(_)) == MapThenSumSet(f, S)

---------------------------------------------------------------------------
(* Shapes. *)

Ranks == [MLP |-> {1, 2}, CNN1D |-> {2}, CNN2D |-> {3}]

\* ModelArchitecture.__post_init__
IsArchitecture(a) ==
  /\ a.classes >= 2 /\ a.channels # <<>> /\ \A i \in DOMAIN a.channels : a.channels[i] >= 1
  /\ a.kernel >= 1 /\ a.kernel % 2 = 1
  /\ \A i \in DOMAIN a.input : a.input[i] >= 1
  /\ Len(a.input) \in Ranks[a.kind]

\* An image in the layout the specification asks for.
ImageShape(spec) ==
  IF spec.layout = "CHANNEL_LAST" THEN <<spec.height, spec.width, spec.channels>>
                                  ELSE <<spec.channels, spec.height, spec.width>>

BatchCount(batch, samples) ==
  LET full == samples \div batch.size IN
  IF batch.dropLast \/ samples % batch.size = 0 THEN full ELSE full + 1

\* Weights and multiplications of a profile's layers, and its heaviest one.
ParameterCount(layers) == SumOver(DOMAIN layers, LAMBDA i : layers[i].parameters)

Heaviest(layers) ==
  {layers[i] : i \in {j \in DOMAIN layers : \A k \in DOMAIN layers : layers[k].parameters <= layers[j].parameters}}

---------------------------------------------------------------------------
(* Windows over rows. *)

\* The first label of the priority whose share of the window is reached.
LabelFor(policy, counts) ==
  LET total   == SumOver(DOMAIN counts, LAMBDA l : counts[l])
      share(l) == IF l \in DOMAIN counts THEN counts[l] ELSE 0
      reached == {i \in DOMAIN policy.priority :
                    share(policy.priority[i].label) * 100 >= policy.priority[i].percent * total} IN
  IF total = 0 \/ reached = {} THEN policy.default ELSE policy.priority[Min(reached)].label

\* Where windows start, and where the splits end among them.
WindowStarts(rows, length, stride) == {s \in 0..(rows - length) : s % stride = 0}

WindowCount(rows, length, stride) == Cardinality(WindowStarts(rows, length, stride))

SplitPoints(count, ratio) ==
  LET train == (count * ratio[1]) \div 100 IN
  <<train, Min({train + (count * ratio[2]) \div 100, count})>>

\* Rows shared by the last window before a cut and the first one after it.
BoundaryOverlap(count, length, stride, cuts) ==
  SumOver(1..2, LAMBDA i : IF cuts[i] \in 1..(count - 1) THEN Max({0, length - stride}) ELSE 0)

CoveredRows(w) ==
  IF w.windows = 0 THEN 0
  ELSE Min({w.rows, IF w.stride >= w.length THEN w.windows * w.length
                    ELSE (w.windows - 1) * w.stride + w.length})

\* How many windows the overlapping ones are worth.
EffectiveSamples(w) ==
  IF w.length = 0 \/ w.stride = 0 \/ w.stride >= w.length THEN w.windows
  ELSE Max({1, (w.windows * w.stride) \div w.length})

WindowFindings(w) ==
  UNION {Found(w.length > 0 /\ (w.length - w.stride) * 2 > w.length, "WINDOW_OVERLAP_HIGH", "WARNING", "stride"),
         Found(Under(CoveredRows(w), w.rows, 90), "WINDOW_COVERAGE_LOW", "CRITICAL", "coverage"),
         {Finding("WINDOW_CLASS_TOO_FEW", "CRITICAL", l) : l \in {k \in DOMAIN w.labels : w.labels[k] \in 1..9}}}

---------------------------------------------------------------------------
(* An image folder instead of a dataset. *)

ImageImbalanced(counts) ==
  LET present == {counts[c] : c \in {k \in DOMAIN counts : counts[k] > 0}} IN
  /\ Cardinality({k \in DOMAIN counts : counts[k] > 0}) >= 2
  /\ Max(present) > 5 * Min(present)

ImageFolderFindings(report) ==
  LET total == SumOver(DOMAIN report.counts, LAMBDA c : report.counts[c]) + report.unreadable
      tooMany == Over(report.unreadable, total, 5) IN
  {Finding("IMG_TOO_FEW_SAMPLES", "CRITICAL", c) : c \in {k \in DOMAIN report.counts : report.counts[k] \in 1..29}}
  \union UNION {
    Found(tooMany, "IMG_UNREADABLE", "CRITICAL", "folder"),
    Found(~tooMany /\ report.unreadable > 0, "IMG_UNREADABLE_FEW", "WARNING", "folder"),
    Found(ImageImbalanced(report.counts), "IMG_IMBALANCED", "WARNING", "folder"),
    Found(report.sizes > 1, "IMG_MIXED_RESOLUTION", "WARNING", "folder"),
    Found(report.duplicates > 0, "IMG_DUPLICATE", "WARNING", "folder")}

\* Hundredths to whole, halves to the even side, as round does.
Rounded(hundredths) ==
  LET whole == hundredths \div 100 rest == hundredths % 100 IN
  IF rest > 50 \/ (rest = 50 /\ whole % 2 = 1) THEN whole + 1 ELSE whole

\* One class of n images, split by itself: each split gets one if there are three.
ClassSplit(n, ratio) ==
  LET wanted == Rounded(n * ratio[1])
      also   == wanted + Rounded(n * ratio[2])
      train  == Min({Max({wanted, 1}), Max({n - 2, 1})}) IN
  <<train, Min({Max({also, train + 1}), Max({n - 1, train + 1})})>>

---------------------------------------------------------------------------
(* The curve of a training. *)

\* The first epoch with the least validation loss.
BestEpoch(curve) ==
  CHOOSE i \in DOMAIN curve :
    /\ \A j \in DOMAIN curve : curve[i].validationLoss <= curve[j].validationLoss
    /\ \A j \in 1..(i - 1) : curve[j].validationLoss > curve[i].validationLoss

\* The training loop keeps the weights of the last improvement by more than
\* delta, and stops when that lies patience epochs back.
KeptEpoch(losses, delta) ==
  LET kept[n \in 0..Len(losses)] ==
        IF n = 0 THEN 0
        ELSE IF kept[n - 1] = 0 \/ losses[n] < losses[kept[n - 1]] - delta THEN n ELSE kept[n - 1] IN
  kept

EpochsRun(losses, rule) ==
  LET kept == KeptEpoch(losses, IF rule = {} THEN 0 ELSE Max({r.delta : r \in rule})) IN
  Min({Len(losses)} \union {n \in DOMAIN losses : \E r \in rule : n - kept[n] >= r.patience})

OnsetOfOverfitting(curve) ==
  {i \in DOMAIN curve : i > BestEpoch(curve)
                        /\ curve[i].validationLoss > curve[BestEpoch(curve)].validationLoss}

LearningFindings(policy, curve, baseline) ==
  LET first == curve[1] last == curve[Len(curve)] best == BestEpoch(curve) IN
  IF curve = <<>> THEN {Finding("LEARNING_NO_EPOCH", "CRITICAL", "curve")}
  ELSE UNION {
    Found(IF Len(curve) < 2 \/ first.trainLoss = 0 THEN policy.minDrop > 0
          ELSE Under(first.trainLoss - last.trainLoss, first.trainLoss, policy.minDrop),
          "LEARNING_LOSS_FLAT", "CRITICAL", "train_loss"),
    Found(baseline > 0 /\ curve[best].validationAccuracy - baseline < policy.minMargin,
          "LEARNING_NO_BETTER_THAN_BASELINE", "CRITICAL", "validation_accuracy"),
    Found(Len(curve) - best > policy.maxWasted, "LEARNING_WASTED_EPOCHS", "WARNING", "epochs")}

OverfittingFindings(policy, curve) ==
  LET last == curve[Len(curve)] best == curve[BestEpoch(curve)] IN
  IF curve = <<>> THEN {}
  ELSE UNION {
    Found(OnsetOfOverfitting(curve) # {}, "OVERFIT_ONSET", "WARNING", "validation_loss"),
    Found(best.validationLoss > 0
            /\ Over(last.validationLoss - best.validationLoss, best.validationLoss, policy.maxRise),
          "OVERFIT_LOSS_RISING", "CRITICAL", "validation_loss"),
    Found(last.trainAccuracy - last.validationAccuracy > policy.maxGap,
          "OVERFIT_GAP_WIDE", "CRITICAL", "generalization_gap")}

---------------------------------------------------------------------------
(* The confusion matrix: counts by actual label, then by predicted label. *)

Labels(matrix) == DOMAIN matrix

Support(matrix, l) == SumOver(Labels(matrix), LAMBDA p : matrix[l][p])

Predicted(matrix, l) == SumOver(Labels(matrix), LAMBDA a : matrix[a][l])

Samples(matrix) == SumOver(Labels(matrix), LAMBDA l : Support(matrix, l))

\* Percentages rounded down; nothing over nothing is 0.
Percent(part, whole) == IF whole = 0 THEN 0 ELSE (part * 100) \div whole

Recall(matrix, l) == Percent(matrix[l][l], Support(matrix, l))

Precision(matrix, l) == Percent(matrix[l][l], Predicted(matrix, l))

Accuracy(matrix) == Percent(SumOver(Labels(matrix), LAMBDA l : matrix[l][l]), Samples(matrix))

\* What always answering the most frequent label would get.
BaselineAccuracy(matrix) == Percent(Max({Support(matrix, l) : l \in Labels(matrix)}), Samples(matrix))

MacroRecall(matrix) ==
  LET present == {l \in Labels(matrix) : Support(matrix, l) > 0} IN
  IF present = {} THEN 0 ELSE SumOver(present, LAMBDA l : Recall(matrix, l)) \div Cardinality(present)

NeverPredicted(matrix) == {l \in Labels(matrix) : Support(matrix, l) > 0 /\ Predicted(matrix, l) = 0}

EvaluationFindings(policy, matrix) ==
  LET present == {l \in Labels(matrix) : Support(matrix, l) > 0} IN
  Found(Accuracy(matrix) - BaselineAccuracy(matrix) < policy.minMargin,
        "EVAL_NO_BETTER_THAN_BASELINE", "CRITICAL", "accuracy")
  \union {Finding("EVAL_CLASS_NEVER_PREDICTED", "CRITICAL", l) : l \in NeverPredicted(matrix)}
  \union {Finding("EVAL_RECALL_TOO_LOW", "CRITICAL", l) :
            l \in {k \in present \intersect policy.critical : Recall(matrix, k) < policy.minCriticalRecall}}
  \union {Finding("EVAL_RECALL_TOO_LOW", "WARNING", l) :
            l \in {k \in present \ policy.critical : Recall(matrix, k) < policy.minRecall}}
  \union {Finding("EVAL_PRECISION_RECALL_IMBALANCE", "WARNING", l) :
            l \in {k \in present : Predicted(matrix, k) > 0
                                   /\ Distance(Precision(matrix, k), Recall(matrix, k)) > policy.maxGap}}

---------------------------------------------------------------------------
(* How the splits were used, and the acceptance. *)

ProtocolFindings(policy, usage) ==
  UNION {Found(policy.disjoint /\ usage.overlapping > 0, "PROTOCOL_SPLIT_OVERLAP", "CRITICAL", "split"),
         Found(usage.validation < policy.minValidation, "PROTOCOL_VALIDATION_TOO_SMALL", "CRITICAL", "validation"),
         Found(usage.test < policy.minTest, "PROTOCOL_TEST_TOO_SMALL", "CRITICAL", "test"),
         Found(usage.validationSeen > policy.maxValidationSeen, "PROTOCOL_VALIDATION_OVERUSED", "WARNING", "validation"),
         Found(usage.testSeen > policy.maxTestSeen, "PROTOCOL_TEST_REUSED", "CRITICAL", "test")}

AcceptanceFindings(policy, gatesPassed, curve, matrix, usage, latency) ==
  UNION {Found(policy.requireGates /\ ~gatesPassed, "ACCEPT_GATES_NOT_PASSED", "CRITICAL", "data"),
         LearningFindings(policy.learning, curve, BaselineAccuracy(matrix)),
         OverfittingFindings(policy.overfitting, curve),
         ProtocolFindings(policy.protocol, usage),
         EvaluationFindings(policy.evaluation, matrix),
         Found(\E budget \in policy.latency : latency > budget, "ACCEPT_LATENCY_OVER_BUDGET", "CRITICAL", "latency")}

---------------------------------------------------------------------------
(* Against a rule without learning: every anomaly counted as one label. *)

Collapsed(matrix, normal) ==
  LET side(s) == IF s = "NORMAL" THEN {normal} \intersect Labels(matrix) ELSE Labels(matrix) \ {normal} IN
  [a \in {"NORMAL", "ANOMALY"} |-> [p \in {"NORMAL", "ANOMALY"} |->
     SumOver(side(a), LAMBDA x : SumOver(side(p), LAMBDA y : matrix[x][y]))]]

\* Of the anomalies, how many got their own type.
TypeAccuracy(matrix, normal) ==
  LET types == Labels(matrix) \ {normal} IN
  Percent(SumOver(types, LAMBDA l : matrix[l][l]), SumOver(types, LAMBDA l : Support(matrix, l)))

Compared(statistical, matrix, normal) ==
  LET model == Collapsed(matrix, normal) IN
  [statisticalRecall |-> Recall(statistical, "ANOMALY"), statisticalPrecision |-> Precision(statistical, "ANOMALY"),
   modelRecall |-> Recall(model, "ANOMALY"), modelPrecision |-> Precision(model, "ANOMALY"),
   typeAccuracy |-> TypeAccuracy(matrix, normal), types |-> Cardinality(Labels(matrix) \ {normal})]

JustificationFindings(c) ==
  UNION {Found(c.modelRecall - c.statisticalRecall < 5, "BASELINE_NOT_BEATEN",
               IF c.types <= 1 THEN "CRITICAL" ELSE "WARNING", "detector"),
         Found(c.types > 1 /\ c.typeAccuracy > 0, "BASELINE_CANNOT_TYPE", "INFO", "detector"),
         Found(c.statisticalPrecision < 50 /\ c.modelPrecision > c.statisticalPrecision + 10,
               "BASELINE_TOO_NOISY", "WARNING", "detector")}

---------------------------------------------------------------------------
(* A board of experiments: a sequence of trials, in the order they were made. *)

\* A trial of a label that is on the board already is refused.
WithTrial(board, trial) ==
  IF \E i \in DOMAIN board : board[i].label = trial.label THEN board ELSE Append(board, trial)

Differences(one, two) ==
  {k \in DOMAIN one \union DOMAIN two :
     ~(k \in DOMAIN one \intersect DOMAIN two /\ one[k] = two[k])}

\* Faster wins among equals.
BestTrial(board) ==
  CHOOSE i \in DOMAIN board : \A j \in DOMAIN board :
    \/ board[j].score < board[i].score
    \/ board[j].score = board[i].score /\ board[j].latency >= board[i].latency

GapToRunnerUp(board) ==
  IF Len(board) < 2 THEN 0
  ELSE board[BestTrial(board)].score - Max({board[i].score : i \in DOMAIN board \ {BestTrial(board)}})

ExperimentFindings(board) ==
  {Finding("EXP_TOO_FEW_EVALUATED", "CRITICAL", board[i].label) :
     i \in {j \in DOMAIN board : board[j].evaluated \in 1..59}}
  \union (IF Len(board) < 2 THEN {Finding("EXP_SINGLE_TRIAL", "WARNING", "board")}
          ELSE {Finding("EXP_MULTIPLE_KNOBS_CHANGED", "WARNING", board[i].label) :
                  i \in {j \in 2..Len(board) : Cardinality(Differences(board[j - 1].knobs, board[j].knobs)) > 1}}
            \union Found(Cardinality({board[i].seed : i \in DOMAIN board}) > 1
                           /\ \A i \in DOMAIN board : "seed" \notin DOMAIN board[i].knobs,
                         "EXP_SEEDS_DIFFER", "CRITICAL", "board")
            \union Found(Cardinality({board[i].data : i \in DOMAIN board}) > 1
                           /\ \A i \in DOMAIN board : "data" \notin DOMAIN board[i].knobs,
                         "EXP_DATA_DIFFERS", "CRITICAL", "board")
            \union Found(GapToRunnerUp(board) < 2, "EXP_WITHIN_NOISE", "WARNING", board[BestTrial(board)].label))
=============================================================================
