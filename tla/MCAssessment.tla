---------------------------- MODULE MCAssessment ----------------------------
(***************************************************************************)
(* A file in two versions: in the first some values are missing and some   *)
(* rows are repeated, the second is repaired.                              *)
(***************************************************************************)
EXTENDS Assessment

Requests == Permutations(Threads)

Roles == [time |-> "TIME_INDEX", volt |-> "FEATURE", kind |-> "LABEL"]

MCDatasets ==
  {[schema |-> {Roles}, spec |-> {[features |-> {"volt"}, label |-> l]}] : l \in {{}, {"kind"}}}
    \union {[schema |-> {Roles}, spec |-> {}],
   [schema |-> {[Roles EXCEPT !.volt = "METADATA"]}, spec |-> {}]}

Repaired ==
  [COMPLETENESS  |-> [volt |-> [total |-> 1000, missing |-> 5, longestRun |-> 2, concentration |-> 0,
                                repeated |-> 0, meanRun |-> 1]],
   VALIDITY      |-> [volt |-> [total |-> 1000, outOfRange |-> 0, z |-> 5, mad |-> 8, rate |-> 0,
                                madNormal |-> 2, madLabelled |-> 8]],
   LABEL_QUALITY |-> [labeled |-> 1000, violations |-> 2, conflicts |-> 0, violated |-> {"bad"}],
   BALANCE       |-> [ok |-> 800, bad |-> 200],
   NOISE         |-> [volt |-> [snr |-> 17, reversals |-> 100, highFrequency |-> 500]],
   UNIQUENESS    |-> [rows |-> 1000, exact |-> 2, near |-> 20, conflicting |-> 0]]

Raw ==
  [Repaired EXCEPT
     !.COMPLETENESS.volt = [total |-> 1000, missing |-> 300, longestRun |-> 80, concentration |-> 700,
                            repeated |-> 0, meanRun |-> 1],
     !.UNIQUENESS.exact = 120]

MCContents == <<Raw, Repaired>>

MCRules == {{"rule"}}

\* Two that differ between the versions of the file, and one that blocks.
MCRemedied == {"COMPLETENESS", "UNIQUENESS", "LABEL_QUALITY"}

Weights == [COMPLETENESS |-> 20, VALIDITY |-> 15, LABEL_QUALITY |-> 25, BALANCE |-> 15,
            NOISE |-> 10, UNIQUENESS |-> 15]

Default == [weights |-> Weights, minOverall |-> 80, minDimension |-> 50, required |-> Dimensions,
            blocking |-> {"LABEL_QUALITY", "COMPLETENESS"}]

MCGatePolicies == {Default, [Default EXCEPT !.required = {"COMPLETENESS", "UNIQUENESS"}]}

---------------------------------------------------------------------------
(* What the scores and the comparisons promise, over small inputs. *)

Counts == {[total |-> 100, missing |-> n, longestRun |-> n, concentration |-> c,
            repeated |-> 0, meanRun |-> 1] : n \in {0, 1, 2, 3, 9, 30, 100}, c \in {0, 600, 1000}}

\* More missing values never score better, and no critical finding leaves the
\* full score (CompletenessPolicy.evaluate, deduct).
ASSUME \A a, b \in Counts :
  LET one == Completeness([volt |-> a]) two == Completeness([volt |-> b]) IN
    /\ a.missing <= b.missing /\ a.concentration = b.concentration => one.score >= two.score
    /\ a.longestRun >= 10 /\ Blocking(one.findings) # {} => one.score < 100

\* What improved did not regress, and comparing the other way round swaps them
\* (QualityComparison).
ASSUME LET snapshots == [{"NOISE", "BALANCE"} -> {[score |-> n] : n \in {40, 60}}]
                          \union [{"NOISE"} -> {[score |-> n] : n \in {40, 60}}] IN
  \A before, after \in snapshots :
    /\ Improved(before, after) \intersect Regressed(before, after) = {}
    /\ Improved(before, after) = Regressed(after, before)

\* No strategy that only moves rows is safe with too few distinct samples, and
\* none brings information (RebalancingPolicy.inspect, RebalancingOutcome).
ASSUME \A s \in RebalancingStrategies, after \in BOOLEAN, n \in {0, 49, 50}, k \in {0, 100, 101, 200} :
  LET plan    == [strategy |-> s, afterSplit |-> after]
      outcome == [strategy |-> s, before |-> 100, after |-> 100 + k, duplicated |-> k, discarded |-> 0,
                  synthesized |-> 0, distinctMinority |-> n]
      found   == RebalancingFindings(plan, outcome) IN
    /\ InformationGain(outcome) = 0
    /\ SafeStrategies({<<plan, outcome, found>>}) = (IF after /\ (n # 49 \/ s = "NONE") THEN {s} ELSE {})
=============================================================================
