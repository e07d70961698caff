--------------------------- MODULE AssessmentProofs ---------------------------
(***************************************************************************)
(* Theorems about Assessment, for every data set, file, rule and gate      *)
(* policy and any number of requests: what passed rests on results newer   *)
(* than the repairs, but for those a late measurement spoke for, and a     *)
(* certificate is about the results there are.                             *)
(*                                                                         *)
(* The properties are almost inductive.  What they lack is that an         *)
(* assessment has its six parts and one of five statuses, that PASSED and  *)
(* BLOCKED tell what the certificate says, and that a repair no result is  *)
(* newer than waits for its proof.                                         *)
(***************************************************************************)
EXTENDS Assessment, TLAPS

\* The parts of an assessment.
IsAssessment(a) ==
  /\ a = [status |-> a.status, target |-> a.target, results |-> a.results,
          unverified |-> a.unverified, impact |-> a.impact, certificate |-> a.certificate]
  /\ a.status \in {"OPEN", "MEASURING", "REMEDIATING", "PASSED", "BLOCKED"}

\* The two halves of what a step keeps of one assessment.
TellsUnverified(a) ==
  /\ a.unverified \subseteq DOMAIN a.results
  /\ a.status = "REMEDIATING" <=> ~Judged(a) /\ a.unverified # {}
  /\ a.status = "OPEN" <=> a.results = <<>>

RestsOnResults(a) ==
  /\ Judged(a) <=> a.certificate # {}
  /\ \A c \in a.certificate : \E p \in GatePolicies :
       /\ c = Evaluate(p, a.results, a.unverified)
       /\ a.status = "PASSED" <=> IsReady(c)

Kept(a) == IsAssessment(a) /\ TellsUnverified(a) /\ RestsOnResults(a)

\* What is older than its repair waits for its proof, unless it came late.
Waits(a) == stale \ late \subseteq a.unverified

AssessmentInv ==
  /\ \A a \in assessment : Kept(a) /\ Waits(a)
  /\ assessment = {} => stale = {}

---------------------------------------------------------------------------
(* The policy. *)

\* A gate that is passed left no reason: everything required was measured,
\* nothing waits for its proof and no blocking dimension has failed.
LEMMA ReadyLeavesNoReason ==
  ASSUME NEW policy, NEW results, NEW unverified,
         IsReady(Evaluate(policy, results, unverified))
  PROVE  /\ unverified = {}
         /\ policy.required \subseteq DOMAIN results
         /\ \A d \in policy.blocking \intersect DOMAIN results : Passes(results[d])
<1>1. Reasons(policy, results, unverified) = {}
  <2> DEFINE reasons  == Reasons(policy, results, unverified)
             warnings == UNION {Warnings(results[d].findings) : d \in DOMAIN results}
  <2> HIDE DEF reasons, warnings
  <2>1. Evaluate(policy, results, unverified).verdict
          = CASE reasons # {} -> "FAILED"
              [] reasons = {} /\ warnings # {} -> "PASSED_WITH_WARNINGS"
              [] OTHER -> "PASSED"
    BY DEF Evaluate, reasons, warnings
  <2>2. reasons = {}
    BY <2>1 DEF IsReady
  <2> QED
    BY <2>2 DEF reasons
<1> HIDE DEF Passes
<1>2. \A d \in unverified : <<"UNVERIFIED", d>> \in Reasons(policy, results, unverified)
  BY DEF Reasons
<1>3. \A d \in policy.required \ DOMAIN results : <<"NOT_MEASURED", d>> \in Reasons(policy, results, unverified)
  BY DEF Reasons
<1>4. \A d \in policy.blocking \intersect DOMAIN results :
        ~Passes(results[d]) => <<"BLOCKS", d>> \in Reasons(policy, results, unverified)
  BY DEF Reasons
<1> QED
  BY <1>1, <1>2, <1>3, <1>4

---------------------------------------------------------------------------
(* The aggregate: every method keeps what it is called with. *)

LEMMA RecordedDimensionKeeps ==
  ASSUME NEW a, Kept(a), ~Judged(a), NEW d, NEW result
  PROVE  /\ Kept(RecordedDimension(a, d, result))
         /\ RecordedDimension(a, d, result).unverified = a.unverified \ {d}
<1> DEFINE b == RecordedDimension(a, d, result)
           left == a.unverified \ {d}
           status == IF a.status = "OPEN" \/ (a.status = "REMEDIATING" /\ left = {})
                     THEN "MEASURING" ELSE a.status
<1>1. /\ b.results = Put(a.results, d, result) /\ b.unverified = left
      /\ b.certificate = a.certificate /\ b.status = status /\ IsAssessment(b)
  <2> DEFINE results == Put(a.results, d, result)
  <2>1. status \in {"OPEN", "MEASURING", "REMEDIATING", "PASSED", "BLOCKED"} /\ IsAssessment(a)
    BY DEF Kept, IsAssessment
  <2>2. b = [a EXCEPT !.results = results, !.unverified = left, !.status = status]
    BY DEF RecordedDimension
  <2> HIDE DEF results, left, status, b
  <2>3. b = [status |-> status, target |-> a.target, results |-> results,
             unverified |-> left, impact |-> a.impact, certificate |-> a.certificate]
    BY <2>1, <2>2 DEF IsAssessment
  <2> QED
    BY <2>1, <2>3 DEF IsAssessment, results
<1>2. DOMAIN b.results = DOMAIN a.results \union {d} /\ b.results # <<>>
  BY <1>1 DEF Put
<1>3. ~Judged(b)
  BY <1>1 DEF Judged
<1>4. TellsUnverified(b)
  <2> HIDE DEF b
  <2> QED
    BY <1>1, <1>2, <1>3 DEF Kept, TellsUnverified, IsAssessment, Judged
<1>5. RestsOnResults(b)
  <2> HIDE DEF b
  <2> QED
    BY <1>1, <1>3 DEF Kept, RestsOnResults
<1> QED
  BY <1>1, <1>4, <1>5 DEF Kept

LEMMA RecordedRemediationKeeps ==
  ASSUME NEW a, Kept(a), NEW d, CanRecordRemediation(a, d)
  PROVE  /\ Kept(RecordedRemediation(a, d))
         /\ RecordedRemediation(a, d).unverified = a.unverified \union {d}
<1> DEFINE b == RecordedRemediation(a, d)
<1>1. /\ b.results = a.results /\ b.unverified = a.unverified \union {d}
      /\ b.certificate = a.certificate /\ b.status = "REMEDIATING" /\ IsAssessment(b)
  <2> DEFINE waiting == a.unverified \union {d}
  <2>1. b = [a EXCEPT !.unverified = waiting, !.status = "REMEDIATING"] /\ IsAssessment(a)
    BY DEF RecordedRemediation, Kept
  <2> HIDE DEF b, waiting
  <2>2. b = [status |-> "REMEDIATING", target |-> a.target, results |-> a.results,
             unverified |-> waiting, impact |-> a.impact, certificate |-> a.certificate]
    BY <2>1 DEF IsAssessment
  <2> QED
    BY <2>2 DEF IsAssessment, waiting
<1> HIDE DEF b
<1>2. a.results # <<>> /\ d \in DOMAIN a.results /\ ~Judged(a)
  BY DEF CanRecordRemediation
<1> QED
  BY <1>1, <1>2 DEF Kept, TellsUnverified, RestsOnResults, Judged, b

LEMMA ThroughGateKeeps ==
  ASSUME NEW a, Kept(a), a.results # <<>>, NEW p \in GatePolicies
  PROVE  Kept(ThroughGate(a, p))
<1> DEFINE b == ThroughGate(a, p)
           c == Evaluate(p, a.results, a.unverified)
           status == IF IsReady(c) THEN "PASSED" ELSE "BLOCKED"
<1>1. /\ b.results = a.results /\ b.unverified = a.unverified /\ b.certificate = {c}
      /\ b.status = status /\ IsAssessment(b)
  <2>1. b = [a EXCEPT !.certificate = {c}, !.status = status] /\ IsAssessment(a)
    BY DEF ThroughGate, Kept
  <2>2. status \in {"PASSED", "BLOCKED"}
    OBVIOUS
  <2> HIDE DEF b, c, status
  <2>3. b = [status |-> status, target |-> a.target, results |-> a.results,
             unverified |-> a.unverified, impact |-> a.impact, certificate |-> {c}]
    BY <2>1 DEF IsAssessment
  <2> QED
    BY <2>2, <2>3 DEF IsAssessment
<1> HIDE DEF b, c
<1>2. Judged(b) /\ TellsUnverified(b)
  BY <1>1 DEF Kept, TellsUnverified, Judged
<1>3. RestsOnResults(b)
  BY <1>1, <1>2 DEF RestsOnResults, c
<1> QED
  BY <1>1, <1>2, <1>3 DEF Kept, b

LEMMA ReopenedKeeps ==
  ASSUME NEW a, Kept(a), Judged(a)
  PROVE  Kept(Reopened(a))
<1> DEFINE b == Reopened(a)
           status == IF a.unverified = {} THEN "MEASURING" ELSE "REMEDIATING"
<1>1. /\ b.results = a.results /\ b.unverified = a.unverified /\ b.certificate = {}
      /\ b.status = status /\ IsAssessment(b)
  <2>1. b = [a EXCEPT !.status = status, !.certificate = {}] /\ IsAssessment(a)
    BY DEF Reopened, Kept
  <2>2. status \in {"MEASURING", "REMEDIATING"}
    OBVIOUS
  <2> HIDE DEF b, status
  <2>3. b = [status |-> status, target |-> a.target, results |-> a.results,
             unverified |-> a.unverified, impact |-> a.impact, certificate |-> {}]
    BY <2>1 DEF IsAssessment
  <2> QED
    BY <2>2, <2>3 DEF IsAssessment
<1> HIDE DEF b
<1>2. a.results # <<>>
  BY DEF Kept, TellsUnverified, Judged
<1> QED
  BY <1>1, <1>2 DEF Kept, TellsUnverified, RestsOnResults, Judged, b

---------------------------------------------------------------------------
(* The use cases. *)

LEMMA AssessmentStep == AssessmentInv /\ [Next]_vars => AssessmentInv'
<1> SUFFICES ASSUME AssessmentInv, [Next]_vars PROVE AssessmentInv'
  OBVIOUS
<1>1. ASSUME UNCHANGED <<assessment, stale, late>> PROVE AssessmentInv'
  BY <1>1 DEF AssessmentInv, Waits
\* A step that makes one assessment of another.
<1>0. ASSUME NEW a \in assessment, NEW b, assessment' = {b}, Kept(a) => Kept(b),
             Waits(a) => stale' \ late' \subseteq b.unverified
      PROVE  AssessmentInv'
  <2>1. Kept(b) /\ stale' \ late' \subseteq b.unverified
    BY <1>0 DEF AssessmentInv
  <2>2. assessment' # {}
    BY <1>0
  <2> QED
    BY <1>0, <2>1, <2>2, Zenon DEF AssessmentInv, Waits
<1>2. CASE UNCHANGED vars
  BY <1>1, <1>2 DEF vars
<1>3. CASE Repair
  BY <1>1, <1>3 DEF Repair
<1>4. ASSUME NEW t \in Threads, StartQualityAssessment(t) PROVE AssessmentInv'
  <2>1. PICK dataset \in Datasets :
          assessment' = {[status |-> "OPEN", target |-> Target(dataset), results |-> <<>>,
                          unverified |-> {}, impact |-> {}, certificate |-> {}]}
    BY <1>4 DEF StartQualityAssessment
  <2>2. stale' = {} /\ late' = late
    BY <1>4 DEF StartQualityAssessment, AssessmentInv
  <2> QED
    BY <2>1, <2>2 DEF AssessmentInv, Waits, Kept, IsAssessment, TellsUnverified, RestsOnResults, Judged
<1>5. ASSUME NEW t \in Threads, RecordRemediation(t) PROVE AssessmentInv'
  <2>1. PICK a \in assessment, d \in Remedied :
          /\ CanRecordRemediation(a, d) /\ assessment' = {RecordedRemediation(a, d)}
          /\ stale' = stale \union {d} /\ late' = late \ {d}
    BY <1>5 DEF RecordRemediation
  <2>2. Kept(a) => /\ Kept(RecordedRemediation(a, d))
                   /\ RecordedRemediation(a, d).unverified = a.unverified \union {d}
    BY <2>1, RecordedRemediationKeeps
  <2>3. Waits(a) /\ Kept(a) => stale' \ late' \subseteq RecordedRemediation(a, d).unverified
    BY <2>1, <2>2 DEF Waits
  <2>4. Kept(a) /\ Waits(a)
    BY DEF AssessmentInv
  <2> HIDE DEF RecordedRemediation
  <2> QED
    BY <1>0, <2>1, <2>2, <2>3, <2>4
<1>6. ASSUME NEW t \in Threads, EvaluateQualityGate(t) PROVE AssessmentInv'
  <2>1. PICK a \in assessment, policy \in GatePolicies :
          /\ a.results # <<>> /\ assessment' = {ThroughGate(a, policy)}
          /\ UNCHANGED <<stale, late>>
    BY <1>6 DEF EvaluateQualityGate
  <2>2. Kept(a) => /\ Kept(ThroughGate(a, policy))
                   /\ ThroughGate(a, policy).unverified = a.unverified
    BY <2>1, ThroughGateKeeps DEF ThroughGate, Kept, IsAssessment
  <2>3. Kept(a) /\ Waits(a)
    BY DEF AssessmentInv
  <2> QED
    BY <1>0, <2>1, <2>2, <2>3 DEF Waits
<1>7. ASSUME NEW t \in Threads, ReopenAssessment(t) PROVE AssessmentInv'
  <2>1. PICK a \in assessment :
          Judged(a) /\ assessment' = {Reopened(a)} /\ UNCHANGED <<stale, late>>
    BY <1>7 DEF ReopenAssessment
  <2>2. Kept(a) => Kept(Reopened(a)) /\ Reopened(a).unverified = a.unverified
    BY <2>1, ReopenedKeeps DEF Reopened, Kept, IsAssessment
  <2>3. Kept(a) /\ Waits(a)
    BY DEF AssessmentInv
  <2> QED
    BY <1>0, <2>1, <2>2, <2>3 DEF Waits
<1>8. ASSUME NEW t \in Threads, Measured(t) PROVE AssessmentInv'
  <2> DEFINE d == work[t].op
             b(a) == RecordedDimension(a, d, work[t].result)
  <2>1. PICK a \in assessment : ~Judged(a) /\ assessment' = {b(a)} /\ Told(t)
    BY <1>8 DEF Measured
  <2>2. Kept(a) => Kept(b(a)) /\ b(a).unverified = a.unverified \ {d}
    BY <2>1, RecordedDimensionKeeps
  <2>3. stale' \ late' \subseteq (stale \ late) \ {d}
    BY <2>1 DEF Told
  <2>4. Kept(a) /\ Waits(a)
    BY DEF AssessmentInv
  <2>5. stale' \ late' \subseteq b(a).unverified
    BY <2>2, <2>3, <2>4 DEF Waits
  <2> HIDE DEF b
  <2> QED
    BY <1>0, <2>1, <2>2, <2>4, <2>5
<1>9. ASSUME NEW t \in Threads, Scored(t) PROVE AssessmentInv'
  <2>1. PICK a \in assessment : /\ ~Judged(a) /\ assessment' = {[a EXCEPT !.impact = {work[t].impact}]}
                                /\ UNCHANGED <<stale, late>>
    BY <1>9 DEF Scored
  <2> DEFINE b == [a EXCEPT !.impact = {work[t].impact}]
  <2>2. /\ b.results = a.results /\ b.unverified = a.unverified /\ b.certificate = a.certificate
        /\ b.status = a.status /\ IsAssessment(b)
    BY DEF AssessmentInv, Kept, IsAssessment
  <2> HIDE DEF b
  <2>3. Kept(a) /\ Waits(a)
    BY DEF AssessmentInv
  <2>4. Kept(b)
    BY <2>2, <2>3 DEF Kept, TellsUnverified, RestsOnResults, Judged
  <2>5. assessment' = {b}
    BY <2>1 DEF b
  <2> QED
    BY <1>0, <2>1, <2>2, <2>3, <2>4, <2>5 DEF Waits
<1>10. ASSUME NEW t \in Threads,
              \/ MeasureCompleteness(t) \/ MeasureValidity(t) \/ MeasureLabelQuality(t)
              \/ MeasureBalance(t) \/ MeasureNoise(t) \/ MeasureUniqueness(t) \/ ScoreQuality(t) \/ Fails(t)
       PROVE AssessmentInv'
  BY <1>1, <1>10 DEF MeasureCompleteness, MeasureValidity, MeasureLabelQuality, MeasureBalance, MeasureNoise,
       MeasureUniqueness, Measures, ScoreQuality, Fails
<1> QED
  BY <1>2, <1>3, <1>4, <1>5, <1>6, <1>7, <1>8, <1>9, <1>10 DEF Next

\* The inductive invariant holds in every behaviour.
THEOREM AssessmentInvariant == Spec => []AssessmentInv
<1>1. Init => AssessmentInv
  BY DEF Init, AssessmentInv
<1> QED
  BY <1>1, AssessmentStep, PTL DEF Spec

\* A gate that was passed rests on results newer than every repair, but for a
\* repair that a measurement already under way was taken to prove.
THEOREM PassedIsProved == Spec => []RepairsAreProved
<1>1. AssessmentInv => RepairsAreProved
  <2> SUFFICES ASSUME AssessmentInv, NEW a \in assessment, a.status = "PASSED"
               PROVE  stale \subseteq late
    BY DEF RepairsAreProved
  <2>1. RestsOnResults(a) /\ Waits(a)
    BY DEF AssessmentInv, Kept
  <2>2. PICK c \in a.certificate, p \in GatePolicies :
          c = Evaluate(p, a.results, a.unverified) /\ IsReady(c)
    BY <2>1 DEF RestsOnResults, Judged
  <2>3. a.unverified = {}
    BY <2>2, ReadyLeavesNoReason
  <2> QED
    BY <2>1, <2>3 DEF Waits
<1> QED
  BY <1>1, AssessmentInvariant, PTL

\* A certificate exists exactly while the assessment is judged, and is what a
\* policy makes of the results and repairs it holds now.
THEOREM GateRestsOnResults == Spec => []GateHolds
<1>1. AssessmentInv => GateHolds
  BY DEF AssessmentInv, Kept, RestsOnResults, GateHolds
<1> QED
  BY <1>1, AssessmentInvariant, PTL
=============================================================================
