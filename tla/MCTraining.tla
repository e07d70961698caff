----------------------------- MODULE MCTraining -----------------------------
(***************************************************************************)
(* Two runs over one time series that differ in their channels, and        *)
(* perhaps in their seeds, and one over a folder of images.                *)
(***************************************************************************)
EXTENDS Training

Interchangeable == Permutations(Threads)

Series(id, channels, seed) ==
  [run |-> id, image |-> FALSE, data |-> "power", length |-> 4, features |-> 2, seed |-> seed, requireGates |-> TRUE,
   arch |-> [kind |-> "CNN1D", input |-> <<4, 2>>, classes |-> 2, channels |-> channels, kernel |-> 5]]

Pictures(id) ==
  [run |-> id, image |-> TRUE, data |-> "parts", seed |-> 42, requireGates |-> TRUE, classes |-> 2,
   spec |-> [width |-> 8, height |-> 8, channels |-> 3, layout |-> "CHANNEL_FIRST"],
   arch |-> [kind |-> "CNN2D", input |-> <<3, 8, 8>>, classes |-> 2, channels |-> <<32>>, kernel |-> 3,
             pooling |-> "AVERAGE"]]

MCRequests == {Series("r1", <<32, 64>>, 42), Series("r2", <<8>>, 42), Pictures("r2"),
               [Series("r2", <<8>>, 43) EXCEPT !.requireGates = FALSE]}

MCFolders == {[counts |-> [ok |-> 40, bad |-> n], unreadable |-> 1, sizes |-> 1, duplicates |-> 0] : n \in {30}}

Epoch(train, validation, accuracy) ==
  [trainLoss |-> train, validationLoss |-> validation, trainAccuracy |-> 90, validationAccuracy |-> accuracy]

MCOutcomes ==
  {[curve |-> <<Epoch(900, 800, 70), Epoch(400, 420, 88)>>,
    usage |-> [train |-> 200, validation |-> 60, test |-> 60, validationSeen |-> 2, testSeen |-> 0, overlapping |-> 0]]}

Matrix(a, b, c, d) == [ok |-> [ok |-> a, bad |-> b], bad |-> [ok |-> c, bad |-> d]]

MCMatrices == {Matrix(38, 2, 4, 16), Matrix(40, 0, 20, 0)}

MCPolicies ==
  {[requireGates |-> TRUE, latency |-> {50},
    learning |-> [minDrop |-> 20, minMargin |-> 2, maxWasted |-> 5],
    overfitting |-> [maxRise |-> 5, maxGap |-> 10],
    protocol |-> [disjoint |-> TRUE, minValidation |-> 50, minTest |-> 50, maxValidationSeen |-> 20, maxTestSeen |-> 1],
    evaluation |-> [minMargin |-> 3, minRecall |-> 50, critical |-> {}, minCriticalRecall |-> 70, maxGap |-> 50]]}

---------------------------------------------------------------------------
(* What the pure rules promise, over small inputs. *)

\* Every class of three images or more gives each split one, and no image goes
\* to two splits (_stratified_split).
ASSUME \A n \in 3..40, r \in {<<70, 15>>, <<50, 25>>, <<90, 5>>} :
  LET cuts == ClassSplit(n, r) IN 1 <= cuts[1] /\ cuts[1] < cuts[2] /\ cuts[2] < n

\* The windows are counted as the summary of them says, and with a stride no
\* longer than the window no covered row is missed (build_windows, WindowingSummary).
ASSUME \A rows \in 1..12, length \in 1..5, stride \in 1..5 :
  LET starts == WindowStarts(rows, length, stride)
      w == [rows |-> rows, length |-> length, stride |-> stride, windows |-> WindowCount(rows, length, stride)] IN
  stride <= length =>
    CoveredRows(w) = Cardinality(UNION {s..(s + length - 1) : s \in starts})

\* Without a minimal improvement the weights kept are those of the epoch the
\* curve calls best, whenever the training stops (PyTorchModelTrainer.train).
ASSUME \A losses \in [1..4 -> 1..3], patience \in 1..3 :
  LET rule == {[patience |-> patience, delta |-> 0]}
      ran  == SubSeq(losses, 1, EpochsRun(losses, rule)) IN
  KeptEpoch(losses, 0)[Len(ran)] = BestEpoch([i \in DOMAIN ran |-> [validationLoss |-> ran[i]]])

\* A model that types every anomaly right is never refused for the rule's sake
\* alone when it also finds more of them (BaselineJustificationPolicy).
ASSUME \A hit \in 0..4, rule \in 0..4 :
  LET c == Compared([NORMAL |-> [NORMAL |-> 4, ANOMALY |-> 0], ANOMALY |-> [NORMAL |-> 4 - rule, ANOMALY |-> rule]],
                    Matrix(4, 0, 4 - hit, hit), "ok") IN
  Blocking(JustificationFindings(c)) = {} <=> hit > rule

Trial(label, knobs, score) ==
  [label |-> label, knobs |-> knobs, score |-> score, seed |-> 1, data |-> "d", latency |-> 1, evaluated |-> 100]

\* A board in which every trial changes one knob is not reproached with more,
\* and no label appears twice on a board (ExperimentPolicy, ExperimentBoard).
ASSUME \A a, b \in [{"lr", "width"} -> {1, 2}], score \in {50, 60} :
  LET board == WithTrial(WithTrial(WithTrial(<<>>, Trial("one", a, 50)), Trial("two", b, score)), Trial("one", b, 9)) IN
  /\ Len(board) = 2
  /\ Finding("EXP_MULTIPLE_KNOBS_CHANGED", "WARNING", "two") \in ExperimentFindings(board)
       <=> a["lr"] # b["lr"] /\ a["width"] # b["width"]
  /\ Finding("EXP_WITHIN_NOISE", "WARNING", board[BestTrial(board)].label) \in ExperimentFindings(board) <=> score = 50
=============================================================================
