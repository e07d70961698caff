------------------------------- MODULE Dataset -------------------------------
(***************************************************************************)
(* The data context: one Dataset (domain/data/dataset.py) under the use    *)
(* cases of application/data.  A use case that measures is cut at the call *)
(* of the measuring engine: what it read before the call is kept in work,  *)
(* and it changes the dataset after it.  The repository hands out the live *)
(* object, so a change made before a call that fails stays.                *)
(*                                                                         *)
(* Statistics of a normalisation stand for the plan whose train rows they  *)
(* were computed from.                                                     *)
(***************************************************************************)
EXTENDS DataPolicies, TLC

CONSTANTS
  Threads,            \* request threads that may be inside a use case at once
  Modality,           \* what the source holds
  Profiles, Schemas, Spaces, Plans,   \* what callers and engines bring
  Designs,            \* training specifications as callers write them
  Signals, TimeAxes, LabelCounts, Shifts, Partitions,   \* measurements
  Policies,           \* the policies of the inspections
  ReadinessPolicies   \* the policies a certification may name

ASSUME DatasetAssumption ==
  /\ Modality \in {"TIME_SERIES", "TABULAR", "IMAGE"}
  /\ \A s \in Schemas : IsSchema(s)
  /\ \A p \in ReadinessPolicies : p.required \subseteq Kinds /\ p.required # {} /\ p.maxWarnings \in Nat

VARIABLES
  ds,     \* the dataset in the repository, a set with at most one record
  work    \* what each thread has read before the call it is waiting for

vars == <<ds, work>>

Idle == [op |-> "idle"]

The(option) == CHOOSE x \in option : TRUE

---------------------------------------------------------------------------
(* The aggregate. *)

Registered ==
  [status |-> "REGISTERED", profile |-> {}, schema |-> {}, space |-> {}, spec |-> {},
   partition |-> {}, reports |-> <<>>, certificate |-> {}]

Mutable(d) == d.status \notin {"READY", "REJECTED"}

\* Mutant: an inspection that comes back after the judgement is taken in.
CanRecordLate(d, kind) == kind = "SCHEMA" \/ d.schema # {}

CanRecord(d, kind) == Mutable(d) /\ (kind = "SCHEMA" \/ d.schema # {})

\* A kind inspected again replaces what was found before.
Recorded(d, kind, findings) ==
  [d EXCEPT !.reports = Put(@, kind, findings),
            !.status = IF @ \in {"DECLARED", "PROFILED"} THEN "INSPECTED" ELSE @]

AttachedProfile(d, profile) ==
  [d EXCEPT !.profile = {profile},
            !.status = IF @ = "REGISTERED" THEN "PROFILED" ELSE @]

DeclaredSchema(d, schema) ==
  Recorded([d EXCEPT !.schema = {schema},
                     !.status = IF @ = "PROFILED" THEN "DECLARED" ELSE @],
           "SCHEMA", SchemaFindings(schema, The(d.profile).columns))

\* Mutant: a judged dataset takes another label space.
CanDefineLabelsLate(d, space) ==
  /\ d.schema # {}
  /\ space.field \in WithRole(The(d.schema), "LABEL")

CanDefineLabels(d, space) ==
  /\ Mutable(d) /\ d.schema # {}
  /\ space.field \in WithRole(The(d.schema), "LABEL")

CanDesign(d, spec) ==
  /\ Mutable(d)
  /\ d.schema = {spec.schema}
  /\ d.space # {} /\ spec.label = The(d.space).field

Designed(d, spec) ==
  Recorded([d EXCEPT !.spec = {spec}], "TRAINING_SPEC", SpecFindings(spec))

CanPartition(d, plan) ==
  /\ Mutable(d) /\ d.schema # {} /\ FitsSchema(plan, The(d.schema))

Partitioned(d, plan, m) ==
  Recorded([d EXCEPT !.partition = {[plan |-> plan, measured |-> m]}],
           "PARTITION", PartitionFindings(Policies.partition, plan, m))

CanCertify(d) == d.status \notin {"REGISTERED", "PROFILED"}

Certified(d, policy) ==
  LET certificate == Evaluate(policy, d.reports) IN
    [d EXCEPT !.certificate = {certificate},
              !.status = IF IsReady(certificate) THEN "READY" ELSE "REJECTED"]

CanReopen(d) == d.status \in {"READY", "REJECTED"}

Reopened(d) == [d EXCEPT !.status = "INSPECTED", !.certificate = {}]

---------------------------------------------------------------------------
(* Use cases without a call to an engine: one step each. *)

Init == ds = {} /\ work = [t \in Threads |-> Idle]

Free(t) == work[t] = Idle

\* What a step of a use case does to the dataset it loaded.
Change(d) == ds' = {d}

RegisterDataset(t) ==
  /\ Free(t) /\ ds = {}
  /\ Change(Registered)
  /\ UNCHANGED work

DeclareDataSchema(t) ==
  \E d \in ds, schema \in Schemas :
    /\ Free(t) /\ Mutable(d) /\ d.profile # {}
    /\ Change(DeclaredSchema(d, schema))
    /\ UNCHANGED work

\* The caller's own specification, with the statistics it brings.
DesignTrainingData(t) ==
  \E d \in ds, spec \in Designs :
    /\ Free(t) /\ IsTrainingSpec(spec) /\ CanDesign(d, spec)
    /\ Change(Designed(d, spec))
    /\ UNCHANGED work

CertifyDatasetReadiness(t) ==
  \E d \in ds, policy \in ReadinessPolicies :
    /\ Free(t) /\ CanCertify(d)
    /\ Change(Certified(d, policy))
    /\ UNCHANGED work

ReopenDataset(t) ==
  \E d \in ds :
    /\ Free(t) /\ CanReopen(d)
    /\ Change(Reopened(d))
    /\ UNCHANGED work

---------------------------------------------------------------------------
(* Use cases that measure: what is read before the call. *)

Waits(t, what) == work' = [work EXCEPT ![t] = what]

ProfileDataset(t) ==
  /\ Free(t) /\ ds # {}
  /\ Waits(t, [op |-> "profile"])
  /\ UNCHANGED ds

\* The definition is in force before anything is measured.
DefineLabelSpace(t) ==
  \E d \in ds, space \in Spaces :
    /\ Free(t) /\ CanDefineLabels(d, space)
    /\ Change([d EXCEPT !.space = {space}])
    /\ Waits(t, [op |-> "labels", space |-> space])

InspectTimeAxis(t) ==
  \E d \in ds :
    /\ Free(t) /\ \E s \in d.schema : WithRole(s, "TIME_INDEX") # {}
    /\ Waits(t, [op |-> "time"])
    /\ UNCHANGED ds

InspectSignalPlausibility(t) ==
  \E d \in ds :
    /\ Free(t) /\ d.schema # {}
    /\ Waits(t, [op |-> "signal"])
    /\ UNCHANGED ds

AnalyzeRepresentativeness(t) ==
  \E d \in ds :
    /\ Free(t) /\ d.schema # {}
    /\ Waits(t, [op |-> "representativeness"])
    /\ UNCHANGED ds

PartitionDataset(t) ==
  \E d \in ds, plan \in Plans :
    /\ Free(t) /\ \E s \in d.schema : FitsSchema(plan, s)
    /\ Waits(t, [op |-> "partition", plan |-> plan])
    /\ UNCHANGED ds

\* The statistics are to be computed from the train rows of today's partition.
FitTrainingData(t) ==
  \E d \in ds, spec \in Designs :
    /\ Free(t) /\ IsTrainingSpec(spec) /\ spec.method # "NONE"
    /\ d.partition # {} /\ d.schema # {}
    /\ Waits(t, [op |-> "fit", spec |-> [spec EXCEPT !.statistics = spec.features,
                                                     !.fittedTo = {The(d.partition).plan}]])
    /\ UNCHANGED ds

---------------------------------------------------------------------------
(* The same use cases after the call. *)

Answers(t, op) == work[t].op = op /\ work' = [work EXCEPT ![t] = Idle]

Profiled(t) ==
  \E d \in ds, profile \in Profiles :
    /\ Answers(t, "profile") /\ Mutable(d) /\ profile.rows > 0
    /\ Change(AttachedProfile(d, profile))

\* One inspection: kind, and the findings that can come out of it.
Inspects(t, op, kind, outcomes) ==
  /\ Answers(t, op)
  /\ \E d \in ds, findings \in outcomes :
       CanRecord(d, kind) /\ Change(Recorded(d, kind, findings))

LabelsMeasured(t) ==
  Inspects(t, "labels", "LABEL_SPACE",
           {LabelFindings(Policies.labels, work[t].space, m) : m \in LabelCounts})

TimeAxisMeasured(t) ==
  Inspects(t, "time", "TIME_AXIS", {TimeAxisFindings(Policies.time, m) : m \in TimeAxes})

SignalMeasured(t) ==
  Inspects(t, "signal", "SIGNAL_PLAUSIBILITY",
           IF Modality = "IMAGE" THEN {ImageFindings(Policies.images, m) : m \in Signals}
                                 ELSE {SensorFindings(Policies.sensors, m) : m \in Signals})

ShiftMeasured(t) ==
  Inspects(t, "representativeness", "REPRESENTATIVENESS",
           {RepresentativenessFindings(Policies.shift, m) : m \in Shifts})

PartitionMeasured(t) ==
  \E d \in ds, m \in Partitions :
    /\ Answers(t, "partition") /\ CanPartition(d, work[t].plan)
    /\ Change(Partitioned(d, work[t].plan, m))

Fitted(t) ==
  \E d \in ds :
    /\ Answers(t, "fit") /\ CanDesign(d, work[t].spec)
    /\ Change(Designed(d, work[t].spec))

\* The engine raises, or the dataset refuses what it is brought.
Fails(t) ==
  /\ work[t] # Idle
  /\ work' = [work EXCEPT ![t] = Idle]
  /\ UNCHANGED ds

Starts(t) ==
  \/ RegisterDataset(t) \/ DeclareDataSchema(t) \/ DesignTrainingData(t)
  \/ CertifyDatasetReadiness(t) \/ ReopenDataset(t)
  \/ ProfileDataset(t) \/ DefineLabelSpace(t) \/ InspectTimeAxis(t)
  \/ InspectSignalPlausibility(t) \/ AnalyzeRepresentativeness(t)
  \/ PartitionDataset(t) \/ FitTrainingData(t)

Ends(t) ==
  \/ Profiled(t) \/ LabelsMeasured(t) \/ TimeAxisMeasured(t) \/ SignalMeasured(t)
  \/ ShiftMeasured(t) \/ PartitionMeasured(t) \/ Fitted(t) \/ Fails(t)

Next == \E t \in Threads : Starts(t) \/ Ends(t)

Spec == Init /\ [][Next]_vars

---------------------------------------------------------------------------
(* Properties *)

\* A dataset that is READY really went through the path its policy asks for,
\* whichever requests overlapped: every inspection required is there, the label
\* space, the input contract and the partition that were inspected are there,
\* and nothing it keeps a report of was critical (ReadinessPolicy.evaluate over
\* Dataset._reports).
ReadyIsComplete ==
  \A d \in ds : d.status = "READY" =>
    /\ \E p \in ReadinessPolicies : p.required \subseteq DOMAIN d.reports
    /\ d.profile # {} /\ d.schema # {}
    /\ "LABEL_SPACE" \in DOMAIN d.reports => d.space # {}
    /\ "TRAINING_SPEC" \in DOMAIN d.reports => d.spec # {}
    /\ "PARTITION" \in DOMAIN d.reports => d.partition # {}
    /\ \A k \in DOMAIN d.reports : Blocking(d.reports[k]) = {}

\* There is a certificate exactly while a judgement stands, and it is what some
\* policy makes of the reports the dataset holds now: no late answer of an
\* engine gets under it (Dataset.certify, record_inspection, reopen).
CertificateIsCurrent ==
  \A d \in ds :
    /\ d.certificate # {} <=> d.status \in {"READY", "REJECTED"}
    /\ \A c \in d.certificate :
         /\ \E p \in ReadinessPolicies : c = Evaluate(p, d.reports)
         /\ d.status = IF IsReady(c) THEN "READY" ELSE "REJECTED"

\* "A READY dataset cannot be changed silently" (Dataset.reopen): whatever a
\* request that was under way brings, what was judged stays until a reopen.
JudgedStays ==
  [][\A d \in ds, e \in ds' :
       ~Mutable(d) => \A f \in {"profile", "schema", "space", "spec", "partition", "reports"} :
                         e[f] = d[f]]_vars
=============================================================================
