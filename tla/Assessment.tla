----------------------------- MODULE Assessment -----------------------------
(***************************************************************************)
(* The data quality context: one QualityAssessment                         *)
(* (domain/data_quality/assessment.py) under the use cases of              *)
(* application/data_quality.  A measuring use case is cut at the call of   *)
(* its engine, which reads the file as it is then; the result is recorded  *)
(* later.  The file is outside the program: somebody repairs it, and then  *)
(* records the repair as a remediation.  The aggregate does not know when  *)
(* a result it is brought was measured; two history variables do.          *)
(***************************************************************************)
EXTENDS QualityPolicies, TLC

CONSTANTS
  Threads,        \* request threads inside a use case
  Datasets,       \* the dataset as it may be when the assessment starts
  Contents,       \* what the engines see in the file, before and after repairs
  Rules,          \* the consistency rules callers name
  Remedied,       \* the dimensions callers record repairs of
  GatePolicies    \* the policies callers pass to the gate

ASSUME AssessmentAssumption ==
  /\ \A p \in GatePolicies : IsGatePolicy(p)
  /\ Contents # <<>>
  /\ Remedied \subseteq Dimensions

VARIABLES
  file,        \* the version of the file: how often it was repaired
  assessment,  \* a set with at most one record
  work,        \* per thread, the result on its way, and whether it is fresh:
               \*   no repair of its dimension was recorded since the file was read
  stale,       \* history: dimensions whose result is older than their last repair
  late         \* history: those of them measured while that repair was recorded

vars == <<file, assessment, work, stale, late>>

Idle == [op |-> "idle"]

The(option) == CHOOSE x \in option : TRUE

---------------------------------------------------------------------------
(* The target: a copy of what the dataset says when the assessment starts. *)

WithRole(schema, role) == {n \in DOMAIN schema : schema[n] = role}

FeatureFields(dataset) ==
  IF dataset.spec # {} THEN The(dataset.spec).features
  ELSE UNION {WithRole(s, "FEATURE") : s \in dataset.schema}

LabelField(dataset) ==
  IF dataset.spec # {} THEN The(dataset.spec).label
  ELSE UNION {WithRole(s, "LABEL") : s \in dataset.schema}

CanBeTarget(dataset) == dataset.schema # {} /\ FeatureFields(dataset) # {}

Target(dataset) == [features |-> FeatureFields(dataset), label |-> LabelField(dataset)]

HasLabel(a) == a.target.label # {}

---------------------------------------------------------------------------
(* The aggregate. *)

Judged(a) == a.status \in {"PASSED", "BLOCKED"}

\* Mutant: the first result after the repairs verifies them all.
RecordedDimensionForAll(a, dimension, result) ==
  [a EXCEPT !.results = Put(@, dimension, result), !.unverified = {}, !.status = "MEASURING"]

\* A dimension is verified again as soon as any result of it is recorded.
RecordedDimension(a, dimension, result) ==
  LET left == a.unverified \ {dimension} IN
  [a EXCEPT !.results = Put(@, dimension, result),
            !.unverified = left,
            !.status = IF a.status = "OPEN" \/ (a.status = "REMEDIATING" /\ left = {})
                       THEN "MEASURING" ELSE @]

CanRecordRemediation(a, dimension) == ~Judged(a) /\ dimension \in DOMAIN a.results

RecordedRemediation(a, dimension) ==
  [a EXCEPT !.unverified = @ \union {dimension},
            !.status = "REMEDIATING"]

ThroughGate(a, policy) ==
  LET certificate == Evaluate(policy, a.results, a.unverified) IN
  [a EXCEPT !.certificate = {certificate},
            !.status = IF IsReady(certificate) THEN "PASSED" ELSE "BLOCKED"]

Reopened(a) ==
  [a EXCEPT !.status = IF a.unverified = {} THEN "MEASURING" ELSE "REMEDIATING",
            !.certificate = {}]

---------------------------------------------------------------------------
(* Use cases in one step. *)

Init ==
  /\ file = 1
  /\ assessment = {}
  /\ work = [t \in Threads |-> Idle]
  /\ stale = {}
  /\ late = {}

\* Somebody edits the file the target points to.
Repair ==
  /\ file < Len(Contents)
  /\ file' = file + 1
  /\ UNCHANGED <<assessment, work, stale, late>>

StartQualityAssessment(t) ==
  \E dataset \in Datasets :
    /\ work[t] = Idle /\ assessment = {} /\ CanBeTarget(dataset)
    /\ assessment' = {[status |-> "OPEN", target |-> Target(dataset), results |-> <<>>,
                       unverified |-> {}, impact |-> {}, certificate |-> {}]}
    /\ UNCHANGED <<file, work, stale, late>>

RecordRemediation(t) ==
  \E a \in assessment, d \in Remedied :
    /\ work[t] = Idle /\ CanRecordRemediation(a, d)
    /\ assessment' = {RecordedRemediation(a, d)}
    /\ work' = [u \in Threads |->
         IF work[u].op = d THEN [work[u] EXCEPT !.fresh = FALSE] ELSE work[u]]
    /\ stale' = stale \union {d}
    /\ late' = late \ {d}
    /\ UNCHANGED file

EvaluateQualityGate(t) ==
  \E a \in assessment, policy \in GatePolicies :
    /\ work[t] = Idle /\ a.results # <<>>
    /\ assessment' = {ThroughGate(a, policy)}
    /\ UNCHANGED <<file, work, stale, late>>

ReopenAssessment(t) ==
  \E a \in assessment :
    /\ work[t] = Idle /\ Judged(a)
    /\ assessment' = {Reopened(a)}
    /\ UNCHANGED <<file, work, stale, late>>

---------------------------------------------------------------------------
(* Measuring: the engine reads the file, the policy makes a result of it. *)

Measures(t, dimension, Result_(_)) ==
  /\ work[t] = Idle /\ assessment # {}
  /\ work' = [work EXCEPT ![t] = [op |-> dimension, result |-> Result_(Contents[file][dimension]),
                                  fresh |-> TRUE]]
  /\ UNCHANGED <<file, assessment, stale, late>>

Labelled == \E a \in assessment : HasLabel(a)

MeasureCompleteness(t) == Measures(t, "COMPLETENESS", Completeness)

MeasureValidity(t) == Measures(t, "VALIDITY", Validity)

MeasureLabelQuality(t) ==
  \E rules \in Rules :
    Labelled /\ Measures(t, "LABEL_QUALITY", LAMBDA m : LabelQuality(m, rules))

MeasureBalance(t) == Labelled /\ Measures(t, "BALANCE", LAMBDA m : Balance(m, 15))

MeasureNoise(t) == Measures(t, "NOISE", Noise)

MeasureUniqueness(t) == Measures(t, "UNIQUENESS", Uniqueness)

\* What the file was like when it was read has become the result.
Told(t) ==
  /\ stale' = IF work[t].fresh THEN stale \ {work[t].op} ELSE stale \union {work[t].op}
  /\ late' = IF work[t].fresh THEN late \ {work[t].op} ELSE late \union {work[t].op}

\* Mutant: a result that comes after the judgement is recorded.
MeasuredLate(t) ==
  \E a \in assessment :
    /\ work[t].op \in Dimensions
    /\ assessment' = {RecordedDimension(a, work[t].op, work[t].result)}
    /\ work' = [work EXCEPT ![t] = Idle]
    /\ Told(t)
    /\ UNCHANGED file

\* A result already judged when it comes back is refused.
Measured(t) ==
  \E a \in assessment :
    /\ work[t].op \in Dimensions /\ ~Judged(a)
    /\ assessment' = {RecordedDimension(a, work[t].op, work[t].result)}
    /\ work' = [work EXCEPT ![t] = Idle]
    /\ Told(t)
    /\ UNCHANGED file

\* Four engines are asked again; what they see is not what was recorded.
ScoreQuality(t) ==
  /\ work[t] = Idle
  /\ \E a \in assessment : a.results # <<>>
  /\ LET seen == Contents[file] IN
       work' = [work EXCEPT ![t] =
         [op |-> "score", impact |-> EstimateTrainingImpact(seen["COMPLETENESS"], seen["UNIQUENESS"],
                                                           seen["BALANCE"], seen["LABEL_QUALITY"])]]
  /\ UNCHANGED <<file, assessment, stale, late>>

Scored(t) ==
  \E a \in assessment :
    /\ work[t].op = "score" /\ ~Judged(a)
    /\ assessment' = {[a EXCEPT !.impact = {work[t].impact}]}
    /\ work' = [work EXCEPT ![t] = Idle]
    /\ UNCHANGED <<file, stale, late>>

\* The engine raises, or the assessment refuses what it is brought.
Fails(t) ==
  /\ work[t] # Idle
  /\ work' = [work EXCEPT ![t] = Idle]
  /\ UNCHANGED <<file, assessment, stale, late>>

Next ==
  \/ Repair
  \/ \E t \in Threads :
       \/ StartQualityAssessment(t) \/ RecordRemediation(t)
       \/ EvaluateQualityGate(t) \/ ReopenAssessment(t)
       \/ MeasureCompleteness(t) \/ MeasureValidity(t) \/ MeasureLabelQuality(t)
       \/ MeasureBalance(t) \/ MeasureNoise(t) \/ MeasureUniqueness(t) \/ Measured(t)
       \/ ScoreQuality(t) \/ Scored(t) \/ Fails(t)

Spec == Init /\ [][Next]_vars

---------------------------------------------------------------------------
(* Properties *)

\* "조치를 기록하고 재측정하지 않으면 게이트를 통과할 수 없다" (assessment.py:7), as
\* far as the code keeps it: an assessment that passed rests on results that are
\* newer than every repair of what they measure, after any sequence of
\* measurements, repairs, judgements and reopenings.  The one exception is a
\* measurement that had read the file before the repair was recorded and came
\* back after it: record_dimension takes it for the proof (assessment.py:139).
RepairsAreProved ==
  \A a \in assessment : a.status = "PASSED" => stale \subseteq late

\* There is a certificate exactly while a judgement stands, and it is what a
\* policy makes of the results and the repairs the assessment holds now: what
\* was measured before and comes back later does not get under it
\* (record_dimension, pass_through_gate, reopen).
GateHolds ==
  \A a \in assessment :
    /\ Judged(a) <=> a.certificate # {}
    /\ \A c \in a.certificate : \E p \in GatePolicies : c = Evaluate(p, a.results, a.unverified)
=============================================================================
