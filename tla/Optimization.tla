---------------------------- MODULE Optimization ----------------------------
(***************************************************************************)
(* The optimization context: OptimizationRun objects                       *)
(* (domain/optimization/optimization_run.py) under the use cases of        *)
(* application/optimization, with the exporters' registry of runnable      *)
(* artifacts (infrastructure/optimization/runtime_registry.py).            *)
(*                                                                         *)
(* Exporting, checking and measuring take their time in a request's        *)
(* thread: the thread keeps the object it loaded, and puts the result into *)
(* it when it is done.  Artifacts go by model version and label, not by    *)
(* run: everyone who exports the same pair writes the same entry.          *)
(***************************************************************************)
EXTENDS OptimizationPolicies

CONSTANTS
  Threads,    \* request threads
  RunIds,     \* the ids callers name
  Baselines,  \* accepted or not, the trained models one can start from
  Targets,    \* labels callers convert to
  Measures,   \* what a benchmark and an evaluation may give
  Checks,     \* what a comparison of outputs may give
  SelectionPolicies, \* what a selection may be asked by
  MaxRuns,    \* bound: objects made
  MaxWeights  \* bound: trainings of one model version

ASSUME OptimizationAssumption ==
  /\ MaxRuns \in Nat /\ MaxWeights \in Nat
  /\ \A label \in Targets : Supports(label[1], label[2])
  /\ \A p \in SelectionPolicies : IsBudget(p.budget)

VARIABLES
  weights,    \* model version -> which training its weights come from
  artifacts,  \* <<version, label>> -> the weights in the runnable artifact
  runs,       \* the objects, in the order they were made
  repo,       \* run id -> the object saved last, a set with at most one number
  calls        \* per thread: the object in hand and what it waits for

optimizationVars == <<weights, artifacts, runs, repo, calls>>

NoCall == [op |-> "idle"]

Eager == <<"PYTORCH", "FP32">>

TrainedVersions == {b.version : b \in Baselines}

---------------------------------------------------------------------------
(* The aggregate. *)

Started(id, baseline) ==
  [id |-> id, of |-> baseline, status |-> "OPEN", baseline |-> {}, candidates |-> <<>>,
   rejections |-> {}, roofline |-> FALSE, certificate |-> {}]

Judged(run) == run.status \in {"SELECTED", "BLOCKED"}

Table(run) == <<Content(run.baseline)>> \o run.candidates

WithBaseline(run, c) ==
  [run EXCEPT !.baseline = {c}, !.status = IF @ = "OPEN" THEN "BENCHMARKED" ELSE @]

\* Mutant: a conversion that comes back after the judgement is taken in.
CanAddLate(run) == run.baseline # {}

CanAdd(run) == ~Judged(run) /\ run.baseline # {}

Added(run, c) == [run EXCEPT !.candidates = WithCandidate(@, c), !.status = "EXPLORING"]

Rejected(run, label) == [run EXCEPT !.rejections = @ \union {label}]

CanSelect(run) == run.baseline # {} /\ run.candidates # <<>>

Selected(run, policy) ==
  LET certificate == Evaluate(policy, Table(run)) IN
  [run EXCEPT !.certificate = {certificate},
              !.status = IF certificate.selected = {} THEN "BLOCKED" ELSE "SELECTED"]

Reopened(run) == [run EXCEPT !.status = "EXPLORING", !.certificate = {}]

---------------------------------------------------------------------------
(* The repository, and the threads. *)

Loaded(n) == \E id \in RunIds : n \in repo[id]

Save(n, run) == runs' = [runs EXCEPT ![n] = run] /\ repo' = [repo EXCEPT ![run.id] = {n}]

Unoccupied(t) == calls[t] = NoCall

Waits(t, what) == calls' = [calls EXCEPT ![t] = what]

Ends(t) == calls' = [calls EXCEPT ![t] = NoCall]

\* The exporter takes the weights the version has now and replaces the artifact.
Export(version, label) == artifacts' = Put(artifacts, <<version, label>>, weights[version])

Candidate(t, measure) ==
  [size |-> measure.size, p95 |-> measure.p95, activation |-> measure.activation, accuracy |-> measure.accuracy,
   macro |-> measure.macro, recall |-> measure.recall, equivalence |-> calls[t].equivalence,
   label |-> calls[t].label]

---------------------------------------------------------------------------
(* Actions. *)

OptimizationInit ==
  /\ weights = [v \in TrainedVersions |-> 1]
  /\ artifacts = <<>>
  /\ runs = <<>>
  /\ repo = [id \in RunIds |-> {}]
  /\ calls = [t \in Threads |-> NoCall]

\* Another training ends whose version has the same name.
Retrained(v) ==
  /\ weights[v] < MaxWeights
  /\ weights' = [weights EXCEPT ![v] = @ + 1]
  /\ UNCHANGED <<artifacts, runs, repo, calls>>

\* Nobody asks whether the id is taken.
StartOptimizationRun ==
  \E id \in RunIds, b \in Baselines, requireAccepted \in BOOLEAN :
    /\ Len(runs) < MaxRuns
    /\ requireAccepted => b.accepted
    /\ runs' = Append(runs, Started(id, b))
    /\ repo' = [repo EXCEPT ![id] = {Len(runs) + 1}]
    /\ UNCHANGED <<weights, artifacts, calls>>

BenchmarkBaseline(t) ==
  \E n \in DOMAIN runs :
    /\ Unoccupied(t) /\ Loaded(n)
    /\ Export(runs[n].of.version, Eager)
    /\ Waits(t, [op |-> "baseline", object |-> n, label |-> Eager, equivalence |-> {}])
    /\ UNCHANGED <<weights, runs, repo>>

Benchmarked(t) ==
  \E measure \in Measures :
    LET n == calls[t].object IN
    /\ calls[t].op = "baseline" /\ ~Judged(runs[n])
    /\ Save(n, WithBaseline(runs[n], Candidate(t, measure)))
    /\ Ends(t)
    /\ UNCHANGED <<weights, artifacts>>

ConvertModel(t) ==
  \E n \in DOMAIN runs, label \in Targets :
    /\ Unoccupied(t) /\ Loaded(n)
    /\ Converts(label[1], label[2], runs[n].of.kind, runs[n].of.trainSamples)
    /\ Export(runs[n].of.version, label)
    /\ Waits(t, [op |-> "check", object |-> n, label |-> label, equivalence |-> {}])
    /\ UNCHANGED <<weights, runs, repo>>

\* A conversion that fails is kept, unless the run is judged.
ConversionFails(t) ==
  \E n \in DOMAIN runs, label \in Targets :
    /\ Unoccupied(t) /\ Loaded(n) /\ ~Judged(runs[n])
    /\ Save(n, Rejected(runs[n], label))
    /\ UNCHANGED <<weights, artifacts, calls>>

\* The artifact of the moment is compared with the model of the moment: an
\* export made from other weights than the model has now will not agree.
Compared(t) ==
  \E check \in Checks :
    LET n == calls[t].object v == runs[n].of.version IN
    /\ calls[t].op = "check"
    /\ artifacts[<<v, calls[t].label>>] = weights[v] \/ check.agreement < 1000
    /\ Waits(t, [calls[t] EXCEPT !.op = "convert", !.equivalence = {check}])
    /\ UNCHANGED <<weights, artifacts, runs, repo>>

Converted(t) ==
  \E measure \in Measures :
    LET n == calls[t].object IN
    /\ calls[t].op = "convert" /\ CanAdd(runs[n])
    /\ Save(n, Added(runs[n], Candidate(t, measure)))
    /\ Ends(t)
    /\ UNCHANGED <<weights, artifacts>>

\* An engine raises, or the run refuses what it is brought.
Fails(t) ==
  /\ ~Unoccupied(t) /\ Ends(t)
  /\ UNCHANGED <<weights, artifacts, runs, repo>>

ProfileRoofline(t) ==
  \E n \in DOMAIN runs :
    /\ Unoccupied(t) /\ Loaded(n) /\ ~Judged(runs[n])
    /\ Save(n, [runs[n] EXCEPT !.roofline = TRUE])
    /\ UNCHANGED <<weights, artifacts, calls>>

\* A run that is judged already may be judged again.
SelectModel(t) ==
  \E n \in DOMAIN runs, policy \in SelectionPolicies :
    /\ Unoccupied(t) /\ Loaded(n) /\ CanSelect(runs[n])
    /\ Save(n, Selected(runs[n], policy))
    /\ UNCHANGED <<weights, artifacts, calls>>

ReopenOptimizationRun(t) ==
  \E n \in DOMAIN runs :
    /\ Unoccupied(t) /\ Loaded(n) /\ Judged(runs[n])
    /\ Save(n, Reopened(runs[n]))
    /\ UNCHANGED <<weights, artifacts, calls>>

OptimizationNext ==
  \/ \E v \in TrainedVersions : Retrained(v)
  \/ StartOptimizationRun
  \/ \E t \in Threads :
       \/ BenchmarkBaseline(t) \/ Benchmarked(t)
       \/ ConvertModel(t) \/ ConversionFails(t) \/ Compared(t) \/ Converted(t) \/ Fails(t)
       \/ ProfileRoofline(t) \/ SelectModel(t) \/ ReopenOptimizationRun(t)

OptimizationSpec == OptimizationInit /\ [][OptimizationNext]_optimizationVars

---------------------------------------------------------------------------
(* Properties *)

\* What the certificate of a run must be.
Certified(run) ==
  /\ Judged(run) <=> run.certificate # {}
  /\ \A i, j \in DOMAIN run.candidates : run.candidates[i].label = run.candidates[j].label => i = j
  /\ \A c \in run.certificate :
       /\ \E p \in SelectionPolicies : c = Evaluate(p, Table(run))
       /\ run.status = "SELECTED" <=> c.verdict = "PASSED"

\* A run has a certificate exactly while it is judged, and it is what some
\* policy makes of the very table the run holds: no conversion or measurement
\* that was under way gets in behind the judgement, and however often a label
\* was converted it is in the table once (OptimizationRun._guard_mutable,
\* add_candidate, select).
CertificateHolds == \A n \in DOMAIN runs : Certified(runs[n])
=============================================================================
