------------------------------ MODULE Training ------------------------------
(***************************************************************************)
(* The model context: TrainingRun objects (domain/model/training_run.py)   *)
(* under the use cases of application/model, with the trainer's registry   *)
(* of models (infrastructure/ml/torch_trainer.py).                         *)
(*                                                                         *)
(* A use case holds the object it loaded across the call of an engine and  *)
(* saves it afterwards, so objects and the repository's entries for run    *)
(* ids are kept apart: runs is every object made, repo says which object   *)
(* an id leads to.  Whether the dataset is READY and its assessment PASSED *)
(* is decided elsewhere and may change at any time, so a preparation finds *)
(* the gates open or shut, and the run keeps what it found.                *)
(***************************************************************************)
EXTENDS ModelPolicies, TLC

CONSTANTS
  Threads,      \* request threads and background tasks
  RunIds,       \* the ids callers name
  Requests,     \* what callers ask to prepare
  Folders,      \* reports on image folders
  Outcomes,     \* what a training can produce: losses and the use of the splits
  Matrices,     \* what an evaluation can produce
  FieldNames,   \* the split names callers give to an evaluation on field data
  Policies,     \* acceptance policies
  MaxRuns       \* bound: objects made

ASSUME TrainingAssumption ==
  /\ MaxRuns \in Nat
  /\ \A r \in Requests : r.run \in RunIds /\ r.image \in BOOLEAN /\ IsArchitecture(r.arch)
  /\ \A o \in Outcomes : o.curve # <<>>

VARIABLES
  runs,      \* the objects, in the order they were saved first
  repo,      \* run id -> the object saved last, a set with at most one number
  registry,  \* model version -> the object whose weights it holds
  work       \* per thread: the object in hand and what it waits for

vars == <<runs, repo, registry, work>>

Idle == [op |-> "idle"]

The(option) == CHOOSE x \in option : TRUE

---------------------------------------------------------------------------
(* The aggregate. *)

Judged(run) == run.status \in {"ACCEPTED", "REJECTED"}

Finished(run) == run.status = "COMPLETED" \/ Judged(run)

\* The gate of an image run: what the report on its folder amounts to.
GatesPassed(folder) == DeriveVerdict(ImageFolderFindings(folder)) # "FAILED"

FitsArchitecture(request) ==
  LET input == request.arch.input IN
  IF request.image
  THEN /\ request.arch.classes = request.classes /\ input = ImageShape(request.spec)
  ELSE /\ Len(input) > 1 => input[Len(input)] = request.features
       /\ input[1] = request.length

Prepared(request, gates) ==
  [id |-> request.run, request |-> request, gates |-> gates, status |-> "PREPARED",
   curve |-> <<>>, usage |-> {}, evaluations |-> <<>>, version |-> {}, certificate |-> {}]

\* The tensors made of the data must have the shape the architecture takes.
TensorsMatch(request) ==
  request.arch.input = IF request.image THEN ImageShape(request.spec) ELSE <<request.length, request.features>>

Completed(run, outcome, version) ==
  [run EXCEPT !.status = "COMPLETED", !.curve = outcome.curve, !.usage = {outcome.usage}, !.version = {version}]

Evaluated(run, split, result) ==
  [run EXCEPT !.evaluations = Put(@, split, result)]

CanAccept(run, split) ==
  run.status = "COMPLETED" /\ split \in DOMAIN run.evaluations /\ run.usage # {}

Certificate(run, policy, split) ==
  LET found == AcceptanceFindings(policy, run.gates, run.curve, run.evaluations[split].matrix,
                                  The(run.usage), run.evaluations[split].latency) IN
  [verdict |-> DeriveVerdict(found), blocking |-> Blocking(found), split |-> split]

Accepted(run, policy, split) ==
  LET certificate == Certificate(run, policy, split) IN
  [run EXCEPT !.certificate = {certificate},
              !.status = IF certificate.verdict = "FAILED" THEN "REJECTED" ELSE "ACCEPTED"]

Reopened(run) == [run EXCEPT !.status = "COMPLETED", !.certificate = {}]

\* Mutant: the seed is left out of the name.
VersionOfAnySeed(request) == <<request.data, request.arch.kind>>

\* The version names the data, the kind of model and the seed.
VersionOf(request) ==
  IF request.image THEN <<request.data, request.arch.kind, request.arch.pooling, request.seed>>
                   ELSE <<request.data, request.arch.kind, request.seed>>

---------------------------------------------------------------------------
(* The repository. *)

Change(n, run) == runs' = [runs EXCEPT ![n] = run]

Save(n) == repo' = [repo EXCEPT ![runs[n].id] = {n}]

Loaded(n) == \E id \in RunIds : n \in repo[id]

Free(t) == work[t] = Idle

Waits(t, what) == work' = [work EXCEPT ![t] = what]

Ends(t) == work' = [work EXCEPT ![t] = Idle]

---------------------------------------------------------------------------
(* Actions. *)

Init ==
  /\ runs = <<>>
  /\ repo = [id \in RunIds |-> {}]
  /\ registry = <<>>
  /\ work = [t \in Threads |-> Idle]

\* The id is free now; the tensors are made after that.
PrepareTrainingRun(t) ==
  \E request \in Requests, gates \in BOOLEAN :
    /\ Free(t) /\ ~request.image /\ repo[request.run] = {}
    /\ FitsArchitecture(request)
    /\ request.requireGates => gates
    /\ Waits(t, [op |-> "prepare", run |-> Prepared(request, gates)])
    /\ UNCHANGED <<runs, repo, registry>>

PrepareImageTrainingRun(t) ==
  \E request \in Requests, folder \in Folders :
    /\ Free(t) /\ request.image /\ repo[request.run] = {}
    /\ FitsArchitecture(request)
    /\ request.requireGates => GatesPassed(folder)
    /\ Waits(t, [op |-> "prepare", run |-> Prepared(request, GatesPassed(folder))])
    /\ UNCHANGED <<runs, repo, registry>>

\* Saving asks nothing: whatever the id led to by now is replaced.
Materialized(t) ==
  /\ work[t].op = "prepare" /\ Len(runs) < MaxRuns
  /\ TensorsMatch(work[t].run.request)
  /\ runs' = Append(runs, work[t].run)
  /\ repo' = [repo EXCEPT ![work[t].run.id] = {Len(runs) + 1}]
  /\ Ends(t)
  /\ UNCHANGED registry

\* Mutant: the status is not looked at.
ExecuteAnyRun(t) ==
  \E n \in DOMAIN runs :
    /\ Free(t) /\ Loaded(n)
    /\ Change(n, [runs[n] EXCEPT !.status = "RUNNING"])
    /\ Waits(t, [op |-> IF runs[n].request.image THEN "misled" ELSE "train", object |-> n])
    /\ UNCHANGED <<repo, registry>>

\* Starting is refused to whoever comes second.
ExecuteTrainingRun(t) ==
  \E n \in DOMAIN runs :
    /\ Free(t) /\ Loaded(n) /\ runs[n].status = "PREPARED"
    /\ Change(n, [runs[n] EXCEPT !.status = "RUNNING"])
    /\ Waits(t, [op |-> IF runs[n].request.image THEN "misled" ELSE "train", object |-> n])
    /\ UNCHANGED <<repo, registry>>

ExecuteImageTrainingRun(t) ==
  \E n \in DOMAIN runs :
    /\ Free(t) /\ Loaded(n) /\ runs[n].request.image /\ runs[n].status = "PREPARED"
    /\ Change(n, [runs[n] EXCEPT !.status = "RUNNING"])
    /\ Waits(t, [op |-> "train", object |-> n])
    /\ UNCHANGED <<repo, registry>>

Trained(t) ==
  \E outcome \in Outcomes :
    LET n == work[t].object version == VersionOf(runs[n].request) IN
    /\ work[t].op = "train"
    /\ registry' = Put(registry, version, n)
    /\ Change(n, Completed(runs[n], outcome, version))
    /\ Save(n) /\ Ends(t)

\* The trainer raises; for an image run begun as a time series it always does.
TrainingFails(t) ==
  /\ work[t].op \in {"train", "misled"}
  /\ Change(work[t].object, [runs[work[t].object] EXCEPT !.status = "FAILED"])
  /\ Save(work[t].object) /\ Ends(t)
  /\ UNCHANGED registry

\* Whatever the version holds now is what gets measured.
Evaluates(t, n, split) ==
  /\ Free(t) /\ Loaded(n) /\ runs[n].version # {}
  /\ Waits(t, [op |-> "evaluate", object |-> n, split |-> split, of |-> registry[The(runs[n].version)]])
  /\ UNCHANGED <<runs, repo, registry>>

EvaluateModel(t) == \E n \in DOMAIN runs : Evaluates(t, n, "test")

EvaluateModelOnField(t) ==
  \E n \in DOMAIN runs, name \in FieldNames : ~runs[n].request.image /\ Evaluates(t, n, name)

\* Mutant: a measurement that comes back late is recorded all the same.
MeasuredLate(t) ==
  \E matrix \in Matrices :
    LET n == work[t].object IN
    /\ work[t].op = "evaluate"
    /\ Change(n, Evaluated(runs[n], work[t].split, [matrix |-> matrix, of |-> work[t].of, latency |-> 0]))
    /\ Save(n) /\ Ends(t)
    /\ UNCHANGED registry

Measured(t) ==
  \E matrix \in Matrices :
    LET n == work[t].object IN
    /\ work[t].op = "evaluate" /\ runs[n].status = "COMPLETED"
    /\ Change(n, Evaluated(runs[n], work[t].split,
                           [matrix |-> matrix, of |-> work[t].of, latency |-> 0]))
    /\ Save(n) /\ Ends(t)
    /\ UNCHANGED registry

AcceptModel(t) ==
  \E n \in DOMAIN runs, policy \in Policies, split \in {"test"} \union FieldNames :
    /\ Free(t) /\ Loaded(n) /\ CanAccept(runs[n], split)
    /\ Change(n, Accepted(runs[n], policy, split))
    /\ UNCHANGED <<repo, registry, work>>

ReopenTrainingRun(t) ==
  \E n \in DOMAIN runs :
    /\ Free(t) /\ Loaded(n) /\ Judged(runs[n])
    /\ Change(n, Reopened(runs[n]))
    /\ UNCHANGED <<repo, registry, work>>

\* An engine raises, or the run refuses what it is brought.
Fails(t) ==
  /\ work[t].op \in {"prepare", "evaluate"}
  /\ Ends(t)
  /\ UNCHANGED <<runs, repo, registry>>

Next ==
  \E t \in Threads :
       \/ PrepareTrainingRun(t) \/ PrepareImageTrainingRun(t) \/ Materialized(t)
       \/ ExecuteTrainingRun(t) \/ ExecuteImageTrainingRun(t) \/ Trained(t) \/ TrainingFails(t)
       \/ EvaluateModel(t) \/ EvaluateModelOnField(t) \/ Measured(t)
       \/ AcceptModel(t) \/ ReopenTrainingRun(t) \/ Fails(t)

Spec == Init /\ [][Next]_vars

---------------------------------------------------------------------------
(* Properties *)

\* Starting once is enough to keep two background tasks from training the same
\* run, also while its id is being prepared again (TrainingRun.start, whose
\* check and assignment are one step here).
OneTrainer ==
  /\ \A t, u \in Threads :
       /\ work[t].op \in {"train", "misled"} => runs[work[t].object].status = "RUNNING"
       /\ t # u /\ work[t].op = "train" /\ work[u].op = "train" => work[t].object # work[u].object
  /\ \A n \in DOMAIN runs : runs[n].status = "RUNNING" =>
       \E t \in Threads : work[t].op \in {"train", "misled"} /\ work[t].object = n

\* A judgement is what a policy makes of the curve, the use of the splits and
\* the evaluation the run holds while it stands: an evaluation under way when
\* the run was judged does not get under it (TrainingRun.record_evaluation).
CertificateHolds ==
  \A n \in DOMAIN runs :
    /\ Judged(runs[n]) <=> runs[n].certificate # {}
    /\ \A c \in runs[n].certificate :
         /\ \E p \in Policies : c = Certificate(runs[n], p, c.split)
         /\ runs[n].status = "ACCEPTED" <=> c.verdict # "FAILED"

\* What was trained stays: no request changes the curve, the version or the
\* use of the splits of a finished run, or brings a failed one back.
TrainedStays ==
  [][\A n \in DOMAIN runs :
       /\ Finished(runs[n]) => /\ Finished(runs'[n])
                               /\ runs'[n].curve = runs[n].curve /\ runs'[n].usage = runs[n].usage
                               /\ runs'[n].version = runs[n].version
       /\ runs[n].status = "FAILED" => runs'[n].status = "FAILED"]_vars

\* The trainer keeps weights by version name, and two runs may share one: what
\* is measured for a run may come from another training, but never from one on
\* other data, of another kind or with another seed (torch_trainer.py, model_version).
MeasuredOnItsNamesake ==
  \A n \in DOMAIN runs : \A s \in DOMAIN runs[n].evaluations :
    LET mine == runs[n].request theirs == runs[runs[n].evaluations[s].of].request IN
    /\ theirs.data = mine.data /\ theirs.seed = mine.seed
    /\ theirs.arch.kind = mine.arch.kind /\ theirs.image = mine.image
=============================================================================
