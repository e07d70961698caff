---------------------------- MODULE DatasetProofs ----------------------------
(***************************************************************************)
(* Theorems about Dataset, for any number of threads, whatever callers and *)
(* engines bring and whatever the policies.                                *)
(*                                                                         *)
(* What the properties lack to be inductive: a dataset has its eight       *)
(* parts, and there is one; beyond PROFILED it has a schema, and what has  *)
(* a schema was profiled; a report on the labels, the input contract or    *)
(* the partition is kept beside what it is about; and a thread that waits  *)
(* for its labels to be measured has left a label space behind.            *)
(***************************************************************************)
EXTENDS Dataset, TLAPS

---------------------------------------------------------------------------
(* What a policy makes of reports. *)

\* A certificate that is ready found every kind it asks for, and nothing
\* critical in any report.
LEMMA ReadyMeans ==
  ASSUME NEW policy, NEW reports, IsReady(Evaluate(policy, reports))
  PROVE  /\ policy.required \subseteq DOMAIN reports
         /\ \A k \in DOMAIN reports : Blocking(reports[k]) = {}
<1> DEFINE all == UNION {reports[k] : k \in DOMAIN reports}
           missing == policy.required \ DOMAIN reports
           noted == {Finding("READINESS_INSPECTION_MISSING", "CRITICAL", k) : k \in missing}
           many == Found(Cardinality(Warnings(all)) > policy.maxWarnings,
                         "READINESS_TOO_MANY_WARNINGS", "CRITICAL", "warnings")
           blocking == Blocking(all) \union noted \union many
<1>1. blocking = {}
  <2>1. Evaluate(policy, reports).verdict =
          IF blocking # {} \/ (blocking = {} /\ ~policy.allowWarnings /\ Warnings(all) # {}) THEN "FAILED"
          ELSE IF Warnings(all) # {} THEN "PASSED_WITH_WARNINGS" ELSE "PASSED"
    BY DEF Evaluate
  <2> HIDE DEF blocking, all
  <2> QED
    BY <2>1 DEF IsReady
<1>2. Blocking(all) = {} /\ noted = {}
  <2> HIDE DEF noted, many, all
  <2> QED
    BY <1>1
<1>3. policy.required \subseteq DOMAIN reports
  <2> HIDE DEF all
  <2> QED
    BY <1>2
<1>4. \A k \in DOMAIN reports : Blocking(reports[k]) = {}
  <2> HIDE DEF missing, noted
  <2> QED
    BY <1>2 DEF Blocking
<1> QED
  BY <1>3, <1>4

---------------------------------------------------------------------------
(* One dataset: what its methods keep. *)

IsDataset(d) ==
  d = [status |-> d.status, profile |-> d.profile, schema |-> d.schema, space |-> d.space, spec |-> d.spec,
       partition |-> d.partition, reports |-> d.reports, certificate |-> d.certificate]

Grounded(d) ==
  /\ d.status \notin {"REGISTERED", "PROFILED"} => d.schema # {}
  /\ d.schema # {} => d.profile # {}
  /\ "LABEL_SPACE" \in DOMAIN d.reports => d.space # {}
  /\ "TRAINING_SPEC" \in DOMAIN d.reports => d.spec # {}
  /\ "PARTITION" \in DOMAIN d.reports => d.partition # {}

Current(d) ==
  /\ d.certificate # {} <=> d.status \in {"READY", "REJECTED"}
  /\ \A c \in d.certificate :
       /\ \E p \in ReadinessPolicies : c = Evaluate(p, d.reports)
       /\ d.status = IF IsReady(c) THEN "READY" ELSE "REJECTED"

Kept(d) == IsDataset(d) /\ Grounded(d) /\ Current(d)

\* register.
LEMMA RegisteredKeeps == Kept(Registered)
BY DEF Registered, Kept, IsDataset, Grounded, Current

\* The parts of a dataset after a report was put in.
LEMMA RecordedFields ==
  ASSUME NEW d, IsDataset(d), NEW kind, NEW findings
  PROVE  LET q == Recorded(d, kind, findings)
         IN /\ IsDataset(q)
            /\ q.profile = d.profile /\ q.schema = d.schema /\ q.space = d.space /\ q.spec = d.spec
            /\ q.partition = d.partition /\ q.certificate = d.certificate
            /\ DOMAIN q.reports = DOMAIN d.reports \union {kind}
            /\ q.status = IF d.status \in {"DECLARED", "PROFILED"} THEN "INSPECTED" ELSE d.status
<1> DEFINE reports == Put(d.reports, kind, findings)
           status == IF d.status \in {"DECLARED", "PROFILED"} THEN "INSPECTED" ELSE d.status
           q == [d EXCEPT !.reports = reports, !.status = status]
<1>1. Recorded(d, kind, findings) = q
  BY DEF Recorded, IsDataset
<1>2. DOMAIN reports = DOMAIN d.reports \union {kind}
  BY DEF Put
<1> HIDE DEF reports, status
<1>3. q = [status |-> status, profile |-> d.profile, schema |-> d.schema, space |-> d.space, spec |-> d.spec,
           partition |-> d.partition, reports |-> reports, certificate |-> d.certificate]
  <2>1. d = [status |-> d.status, profile |-> d.profile, schema |-> d.schema, space |-> d.space, spec |-> d.spec,
           partition |-> d.partition, reports |-> d.reports, certificate |-> d.certificate]
    BY DEF IsDataset
  <2>2. q = [d EXCEPT !.reports = reports, !.status = status]
    OBVIOUS
  <2> HIDE DEF q
  <2> QED
    BY <2>1, <2>2
<1> HIDE DEF q
<1>4. IsDataset(q)
  BY <1>3 DEF IsDataset
<1> QED
  BY <1>1, <1>2, <1>3, <1>4 DEF status

\* attach_profile.
LEMMA ProfileKeeps ==
  ASSUME NEW d, Kept(d), Mutable(d), NEW profile
  PROVE  LET q == AttachedProfile(d, profile) IN Kept(q) /\ q.space = d.space
<1> DEFINE parts == {profile}
           status == IF d.status = "REGISTERED" THEN "PROFILED" ELSE d.status
           q == [d EXCEPT !.profile = parts, !.status = status]
<1>1. AttachedProfile(d, profile) = q
  BY DEF AttachedProfile, Kept, IsDataset
<1>2. parts # {}
  OBVIOUS
<1> HIDE DEF parts, status
<1>3. q = [status |-> status, profile |-> parts, schema |-> d.schema, space |-> d.space, spec |-> d.spec,
           partition |-> d.partition, reports |-> d.reports, certificate |-> d.certificate]
  <2>1. d = [status |-> d.status, profile |-> d.profile, schema |-> d.schema, space |-> d.space, spec |-> d.spec,
           partition |-> d.partition, reports |-> d.reports, certificate |-> d.certificate]
    BY DEF Kept, IsDataset
  <2>2. q = [d EXCEPT !.profile = parts, !.status = status]
    OBVIOUS
  <2> HIDE DEF q
  <2> QED
    BY <2>1, <2>2
<1> HIDE DEF q
<1>4. IsDataset(q)
  BY <1>3 DEF IsDataset
<1>5. Grounded(q) /\ Current(q)
  BY <1>2, <1>3 DEF Kept, Grounded, Current, Mutable, status
<1> QED
  BY <1>1, <1>3, <1>4, <1>5 DEF Kept

\* Putting in a report of which the subject is there keeps a dataset right.
LEMMA ReportKeeps ==
  ASSUME NEW d, IsDataset(d), Mutable(d), d.certificate = {}, d.schema # {}, d.profile # {},
         NEW kind, NEW findings,
         "LABEL_SPACE" \in DOMAIN d.reports \union {kind} => d.space # {},
         "TRAINING_SPEC" \in DOMAIN d.reports \union {kind} => d.spec # {},
         "PARTITION" \in DOMAIN d.reports \union {kind} => d.partition # {}
  PROVE  Kept(Recorded(d, kind, findings))
<1> DEFINE q == Recorded(d, kind, findings)
<1>1. /\ IsDataset(q)
      /\ q.profile = d.profile /\ q.schema = d.schema /\ q.space = d.space /\ q.spec = d.spec
      /\ q.partition = d.partition /\ q.certificate = d.certificate
      /\ DOMAIN q.reports = DOMAIN d.reports \union {kind}
      /\ q.status = IF d.status \in {"DECLARED", "PROFILED"} THEN "INSPECTED" ELSE d.status
  BY RecordedFields
<1> HIDE DEF q
<1>2. Grounded(q) /\ Current(q)
  BY <1>1 DEF Grounded, Current, Mutable
<1> QED
  BY <1>1, <1>2 DEF Kept, q

\* record_inspection.
LEMMA InspectionKeeps ==
  ASSUME NEW d, Kept(d), NEW kind \in {"LABEL_SPACE", "TIME_AXIS", "SIGNAL_PLAUSIBILITY", "REPRESENTATIVENESS"},
         NEW findings, CanRecord(d, kind), kind = "LABEL_SPACE" => d.space # {}
  PROVE  LET q == Recorded(d, kind, findings) IN Kept(q) /\ q.space = d.space
<1>1. /\ IsDataset(d) /\ Mutable(d) /\ d.certificate = {} /\ d.schema # {} /\ d.profile # {}
      /\ "LABEL_SPACE" \in DOMAIN d.reports \union {kind} => d.space # {}
      /\ "TRAINING_SPEC" \in DOMAIN d.reports \union {kind} => d.spec # {}
      /\ "PARTITION" \in DOMAIN d.reports \union {kind} => d.partition # {}
  BY DEF Kept, Grounded, Current, CanRecord, Mutable
<1> QED
  BY <1>1, ReportKeeps, RecordedFields

\* declare_schema.
LEMMA SchemaKeeps ==
  ASSUME NEW d, Kept(d), Mutable(d), d.profile # {}, NEW schema
  PROVE  LET q == DeclaredSchema(d, schema) IN Kept(q) /\ q.space = d.space
<1> DEFINE parts == {schema}
           status == IF d.status = "PROFILED" THEN "DECLARED" ELSE d.status
           e == [d EXCEPT !.schema = parts, !.status = status]
           findings == SchemaFindings(schema, The(d.profile).columns)
<1>1. DeclaredSchema(d, schema) = Recorded(e, "SCHEMA", findings)
  BY DEF DeclaredSchema, Kept, IsDataset
<1>2. parts # {}
  OBVIOUS
<1> HIDE DEF parts, status, findings
<1>3. e = [status |-> status, profile |-> d.profile, schema |-> parts, space |-> d.space, spec |-> d.spec,
           partition |-> d.partition, reports |-> d.reports, certificate |-> d.certificate]
  <2>1. d = [status |-> d.status, profile |-> d.profile, schema |-> d.schema, space |-> d.space, spec |-> d.spec,
           partition |-> d.partition, reports |-> d.reports, certificate |-> d.certificate]
    BY DEF Kept, IsDataset
  <2>2. e = [d EXCEPT !.schema = parts, !.status = status]
    OBVIOUS
  <2> HIDE DEF e
  <2> QED
    BY <2>1, <2>2
<1> HIDE DEF e
<1>4. /\ IsDataset(e) /\ Mutable(e) /\ e.certificate = {} /\ e.schema # {} /\ e.profile # {} /\ e.space = d.space
      /\ "LABEL_SPACE" \in DOMAIN e.reports \union {"SCHEMA"} => e.space # {}
      /\ "TRAINING_SPEC" \in DOMAIN e.reports \union {"SCHEMA"} => e.spec # {}
      /\ "PARTITION" \in DOMAIN e.reports \union {"SCHEMA"} => e.partition # {}
  BY <1>2, <1>3 DEF Kept, IsDataset, Grounded, Current, Mutable, status
<1>5. Kept(Recorded(e, "SCHEMA", findings)) /\ Recorded(e, "SCHEMA", findings).space = d.space
  BY <1>4, ReportKeeps, RecordedFields
<1> QED
  BY <1>1, <1>5

\* define_label_space.
LEMMA SpaceKeeps ==
  ASSUME NEW d, Kept(d), Mutable(d), NEW space
  PROVE  LET q == [d EXCEPT !.space = {space}] IN Kept(q) /\ q.space # {}
<1> DEFINE parts == {space}
           q == [d EXCEPT !.space = parts]
<1>1. parts # {}
  OBVIOUS
<1> HIDE DEF parts
<1>2. q = [status |-> d.status, profile |-> d.profile, schema |-> d.schema, space |-> parts, spec |-> d.spec,
           partition |-> d.partition, reports |-> d.reports, certificate |-> d.certificate]
  BY DEF Kept, IsDataset
<1> HIDE DEF q
<1>3. Kept(q) /\ q.space # {}
  BY <1>1, <1>2 DEF Kept, IsDataset, Grounded, Current
<1> QED
  BY <1>3 DEF q, parts

\* design_training_data.
LEMMA DesignKeeps ==
  ASSUME NEW d, Kept(d), NEW spec, CanDesign(d, spec)
  PROVE  LET q == Designed(d, spec) IN Kept(q) /\ q.space = d.space
<1> DEFINE parts == {spec}
           e == [d EXCEPT !.spec = parts]
<1>1. Designed(d, spec) = Recorded(e, "TRAINING_SPEC", SpecFindings(spec))
  BY DEF Designed
<1>2. parts # {}
  OBVIOUS
<1> HIDE DEF parts
<1>3. e = [status |-> d.status, profile |-> d.profile, schema |-> d.schema, space |-> d.space, spec |-> parts,
           partition |-> d.partition, reports |-> d.reports, certificate |-> d.certificate]
  BY DEF Kept, IsDataset
<1> HIDE DEF e
<1>4. /\ IsDataset(e) /\ Mutable(e) /\ e.certificate = {} /\ e.schema # {} /\ e.profile # {} /\ e.space = d.space
      /\ "LABEL_SPACE" \in DOMAIN e.reports \union {"TRAINING_SPEC"} => e.space # {}
      /\ "TRAINING_SPEC" \in DOMAIN e.reports \union {"TRAINING_SPEC"} => e.spec # {}
      /\ "PARTITION" \in DOMAIN e.reports \union {"TRAINING_SPEC"} => e.partition # {}
  BY <1>2, <1>3 DEF Kept, IsDataset, Grounded, Current, Mutable, CanDesign
<1>5. /\ Kept(Recorded(e, "TRAINING_SPEC", SpecFindings(spec)))
      /\ Recorded(e, "TRAINING_SPEC", SpecFindings(spec)).space = d.space
  BY <1>4, ReportKeeps, RecordedFields
<1> QED
  BY <1>1, <1>5

\* partition.
LEMMA PartitionKeeps ==
  ASSUME NEW d, Kept(d), NEW plan, CanPartition(d, plan), NEW m
  PROVE  LET q == Partitioned(d, plan, m) IN Kept(q) /\ q.space = d.space
<1> DEFINE parts == {[plan |-> plan, measured |-> m]}
           e == [d EXCEPT !.partition = parts]
           findings == PartitionFindings(Policies.partition, plan, m)
<1>1. Partitioned(d, plan, m) = Recorded(e, "PARTITION", findings)
  BY DEF Partitioned
<1>2. parts # {}
  OBVIOUS
<1> HIDE DEF parts, findings
<1>3. e = [status |-> d.status, profile |-> d.profile, schema |-> d.schema, space |-> d.space, spec |-> d.spec,
           partition |-> parts, reports |-> d.reports, certificate |-> d.certificate]
  BY DEF Kept, IsDataset
<1> HIDE DEF e
<1>4. /\ IsDataset(e) /\ Mutable(e) /\ e.certificate = {} /\ e.schema # {} /\ e.profile # {} /\ e.space = d.space
      /\ "LABEL_SPACE" \in DOMAIN e.reports \union {"PARTITION"} => e.space # {}
      /\ "TRAINING_SPEC" \in DOMAIN e.reports \union {"PARTITION"} => e.spec # {}
      /\ "PARTITION" \in DOMAIN e.reports \union {"PARTITION"} => e.partition # {}
  BY <1>2, <1>3 DEF Kept, IsDataset, Grounded, Current, Mutable, CanPartition
<1>5. Kept(Recorded(e, "PARTITION", findings)) /\ Recorded(e, "PARTITION", findings).space = d.space
  BY <1>4, ReportKeeps, RecordedFields
<1> QED
  BY <1>1, <1>5

\* What a judgement may not touch.
SameGrounds(d, q) ==
  /\ q.profile = d.profile /\ q.schema = d.schema /\ q.space = d.space /\ q.spec = d.spec
  /\ q.partition = d.partition /\ q.reports = d.reports

\* certify.
LEMMA CertifyKeeps ==
  ASSUME NEW d, Kept(d), NEW policy \in ReadinessPolicies, CanCertify(d)
  PROVE  LET q == Certified(d, policy) IN Kept(q) /\ SameGrounds(d, q)
<1> DEFINE c == Evaluate(policy, d.reports)
           certificate == {c}
           status == IF IsReady(c) THEN "READY" ELSE "REJECTED"
           q == [d EXCEPT !.certificate = certificate, !.status = status]
<1>1. Certified(d, policy) = q
  BY DEF Certified
<1> HIDE DEF c
<1>2. q = [status |-> status, profile |-> d.profile, schema |-> d.schema, space |-> d.space, spec |-> d.spec,
           partition |-> d.partition, reports |-> d.reports, certificate |-> certificate]
  <2>1. d = [status |-> d.status, profile |-> d.profile, schema |-> d.schema, space |-> d.space, spec |-> d.spec,
           partition |-> d.partition, reports |-> d.reports, certificate |-> d.certificate]
    BY DEF Kept, IsDataset
  <2>2. q = [d EXCEPT !.certificate = certificate, !.status = status]
    OBVIOUS
  <2> HIDE DEF q, status, certificate
  <2> QED
    BY <2>1, <2>2
<1> HIDE DEF q
<1>3. IsDataset(q) /\ SameGrounds(d, q)
  BY <1>2 DEF IsDataset, SameGrounds
<1>4. Grounded(q)
  BY <1>2 DEF Kept, Grounded, CanCertify
<1>5. Current(q)
  <2>1. q.certificate = {c} /\ q.status = status /\ q.reports = d.reports
    BY <1>2
  <2>2. c = Evaluate(policy, q.reports)
    BY <2>1 DEF c
  <2> QED
    BY <2>1, <2>2 DEF Current
<1> QED
  BY <1>1, <1>3, <1>4, <1>5 DEF Kept

\* reopen.
LEMMA ReopenKeeps ==
  ASSUME NEW d, Kept(d), CanReopen(d)
  PROVE  LET q == Reopened(d) IN Kept(q) /\ SameGrounds(d, q)
<1> DEFINE certificate == {}
           status == "INSPECTED"
           q == [d EXCEPT !.status = status, !.certificate = certificate]
<1>1. Reopened(d) = q
  BY DEF Reopened
<1>2. q = [status |-> "INSPECTED", profile |-> d.profile, schema |-> d.schema, space |-> d.space, spec |-> d.spec,
           partition |-> d.partition, reports |-> d.reports, certificate |-> {}]
  <2>1. q = [d EXCEPT !.status = status, !.certificate = certificate]
    OBVIOUS
  <2> HIDE DEF q, status, certificate
  <2> QED
    BY <2>1 DEF Kept, IsDataset, status, certificate
<1> HIDE DEF q
<1>3. IsDataset(q) /\ SameGrounds(d, q)
  BY <1>2 DEF IsDataset, SameGrounds
<1>4. Grounded(q) /\ Current(q)
  BY <1>2 DEF Kept, Grounded, Current, CanReopen
<1> QED
  BY <1>1, <1>3, <1>4 DEF Kept

---------------------------------------------------------------------------
(* The dataset and the threads. *)

\* There is one dataset at most, and it is right; a thread whose labels are
\* being measured has left a label space behind, which nobody takes away.
IInv ==
  /\ \A d, e \in ds : d = e
  /\ \A d \in ds : Kept(d)
  /\ work = [t \in Threads |-> work[t]]
  /\ \A t \in Threads : work[t].op = "labels" => ds # {} /\ \A d \in ds : d.space # {}

\* A judgement stays: whatever a step does to a dataset that was judged.
Stays == \A d \in ds, e \in ds' : ~Mutable(d) => SameGrounds(d, e)

\* A step that leaves another dataset: a right one, which has its label space
\* still, and every part when it was judged.
LEMMA ChangeKeeps ==
  ASSUME IInv, NEW d \in ds, NEW q, Kept(q), d.space # {} => q.space # {}, Change(q),
         Mutable(d) \/ SameGrounds(d, q),
         work' = [u \in Threads |-> work'[u]],
         \A u \in Threads : work'[u] = work[u] \/ work'[u].op # "labels" \/ q.space # {}
  PROVE  IInv' /\ Stays
<1>1. ds' = {q}
  BY DEF Change
<1>2. \A e, f \in ds' : e = f
  BY <1>1
<1>3. \A e \in ds' : Kept(e)
  BY <1>1
<1>4. \A u \in Threads : work'[u].op = "labels" => q.space # {}
  BY DEF IInv
<1>5. \A u \in Threads : work'[u].op = "labels" => ds' # {} /\ \A e \in ds' : e.space # {}
  BY <1>1, <1>4
<1>6. IInv'
  BY <1>2, <1>3, <1>5 DEF IInv, Kept, IsDataset, Grounded, Current
<1>7. Stays
  BY <1>1 DEF IInv, Stays
<1> QED
  BY <1>6, <1>7

\* The same, by a thread that waits for nobody.
LEMMA DirectChange ==
  ASSUME IInv, NEW d \in ds, NEW q, Kept(q), d.space # {} => q.space # {}, Change(q),
         Mutable(d) \/ SameGrounds(d, q), UNCHANGED work
  PROVE  IInv' /\ Stays
<1>1. work' = [u \in Threads |-> work'[u]] /\ \A u \in Threads : work'[u] = work[u]
  BY DEF IInv
<1> QED
  BY <1>1, ChangeKeeps

\* The same, by a thread that turns to something, or comes back from a call.
LEMMA CallChange ==
  ASSUME IInv, NEW d \in ds, NEW q, Kept(q), d.space # {} => q.space # {}, Change(q),
         Mutable(d) \/ SameGrounds(d, q),
         NEW t \in Threads, NEW job, Waits(t, job), job.op = "labels" => q.space # {}
  PROVE  IInv' /\ Stays
<1>1. /\ work' = [u \in Threads |-> work'[u]]
      /\ \A u \in Threads : work'[u] = work[u] \/ work'[u] = job
  BY DEF IInv, Waits
<1>2. \A u \in Threads : work'[u] = work[u] \/ work'[u].op # "labels" \/ q.space # {}
  BY <1>1
<1> QED
  BY <1>1, <1>2, ChangeKeeps

\* Steps that leave the dataset alone.
LEMMA ReadingKeeps ==
  ASSUME IInv, UNCHANGED ds, NEW t \in Threads, NEW job, job.op # "labels", Waits(t, job)
  PROVE  IInv' /\ Stays
<1>1. /\ work' = [u \in Threads |-> work'[u]]
      /\ \A u \in Threads : work'[u] = work[u] \/ work'[u] = job
  BY DEF IInv, Waits
<1>2. IInv'
  BY <1>1 DEF IInv, Kept, IsDataset, Grounded, Current
<1>3. Stays
  BY DEF IInv, Stays, SameGrounds
<1> QED
  BY <1>2, <1>3

\* An answer ends what the thread was waiting for.
LEMMA AnswerWaits ==
  ASSUME NEW t, NEW op, Answers(t, op)
  PROVE  work[t].op = op /\ Waits(t, Idle) /\ Idle.op = "idle"
BY DEF Answers, Waits, Idle

---------------------------------------------------------------------------
(* One step per use case. *)

\* Registering comes first, and no thread waits for labels before it.
LEMMA RegisterKeeps == ASSUME IInv, NEW t \in Threads, RegisterDataset(t) PROVE IInv' /\ Stays
<1>1. ds = {} /\ ds' = {Registered} /\ work' = work /\ Kept(Registered)
  BY RegisteredKeeps DEF RegisterDataset, Change
<1>2. \A e \in ds' : Kept(e)
  BY <1>1
<1>3. \A u \in Threads : work'[u].op # "labels"
  BY <1>1 DEF IInv
<1>4. work' = [u \in Threads |-> work'[u]]
  BY <1>1 DEF IInv
<1>5. \A e, f \in ds' : e = f
  BY <1>1
<1>6. IInv'
  BY <1>2, <1>3, <1>4, <1>5 DEF IInv, Kept, IsDataset, Grounded, Current
<1> QED
  BY <1>1, <1>6 DEF Stays

\* The use cases that call no engine.
LEMMA DirectKeeps ==
  ASSUME IInv, NEW t \in Threads,
         \/ DeclareDataSchema(t) \/ DesignTrainingData(t)
         \/ CertifyDatasetReadiness(t) \/ ReopenDataset(t)
  PROVE  IInv' /\ Stays
<1> USE DEF IInv
<1>1. CASE DeclareDataSchema(t)
  <2>1. PICK d \in ds, schema \in Schemas :
          Mutable(d) /\ d.profile # {} /\ Change(DeclaredSchema(d, schema)) /\ UNCHANGED work
    BY <1>1 DEF DeclareDataSchema
  <2> QED
    BY <2>1, SchemaKeeps, DirectChange
<1>2. CASE DesignTrainingData(t)
  <2>1. PICK d \in ds, spec \in Designs : CanDesign(d, spec) /\ Change(Designed(d, spec)) /\ UNCHANGED work
    BY <1>2 DEF DesignTrainingData
  <2> QED
    BY <2>1, DesignKeeps, DirectChange DEF CanDesign
<1>3. CASE CertifyDatasetReadiness(t)
  <2>1. PICK d \in ds, policy \in ReadinessPolicies :
          CanCertify(d) /\ Change(Certified(d, policy)) /\ UNCHANGED work
    BY <1>3 DEF CertifyDatasetReadiness
  <2> QED
    BY <2>1, CertifyKeeps, DirectChange DEF SameGrounds
<1>4. CASE ReopenDataset(t)
  <2>1. PICK d \in ds : CanReopen(d) /\ Change(Reopened(d)) /\ UNCHANGED work
    BY <1>4 DEF ReopenDataset
  <2> QED
    BY <2>1, ReopenKeeps, DirectChange DEF SameGrounds
<1> QED
  BY <1>1, <1>2, <1>3, <1>4

\* What is read before a call changes nothing, but for the label space.
LEMMA CallKeeps ==
  ASSUME IInv, NEW t \in Threads,
         \/ ProfileDataset(t) \/ DefineLabelSpace(t) \/ InspectTimeAxis(t)
         \/ InspectSignalPlausibility(t) \/ AnalyzeRepresentativeness(t)
         \/ PartitionDataset(t) \/ FitTrainingData(t)
  PROVE  IInv' /\ Stays
<1>1. CASE DefineLabelSpace(t)
  <2>1. PICK d \in ds, space \in Spaces :
          /\ CanDefineLabels(d, space) /\ Change([d EXCEPT !.space = {space}])
          /\ Waits(t, [op |-> "labels", space |-> space])
    BY <1>1 DEF DefineLabelSpace
  <2>2. Kept(d) /\ Mutable(d)
    BY <2>1 DEF IInv, CanDefineLabels
  <2> DEFINE q == [d EXCEPT !.space = {space}]
  <2>3. Kept(q) /\ q.space # {} /\ Change(q)
    BY <2>1, <2>2, SpaceKeeps
  <2> HIDE DEF q
  <2> QED
    BY <2>1, <2>2, <2>3, CallChange
<1>2. CASE ~DefineLabelSpace(t)
  <2>1. UNCHANGED ds /\ \E job : job.op # "labels" /\ Waits(t, job)
    <3>1. ProfileDataset(t) => UNCHANGED ds /\ \E job : job.op # "labels" /\ Waits(t, job)
      BY DEF ProfileDataset
    <3>2. InspectTimeAxis(t) => UNCHANGED ds /\ \E job : job.op # "labels" /\ Waits(t, job)
      BY DEF InspectTimeAxis
    <3>3. InspectSignalPlausibility(t) => UNCHANGED ds /\ \E job : job.op # "labels" /\ Waits(t, job)
      BY DEF InspectSignalPlausibility
    <3>4. AnalyzeRepresentativeness(t) => UNCHANGED ds /\ \E job : job.op # "labels" /\ Waits(t, job)
      BY DEF AnalyzeRepresentativeness
    <3>5. PartitionDataset(t) => UNCHANGED ds /\ \E job : job.op # "labels" /\ Waits(t, job)
      BY DEF PartitionDataset
    <3>6. FitTrainingData(t) => UNCHANGED ds /\ \E job : job.op # "labels" /\ Waits(t, job)
      BY DEF FitTrainingData
    <3> QED
      BY <1>2, <3>1, <3>2, <3>3, <3>4, <3>5, <3>6
  <2> QED
    BY <2>1, ReadingKeeps
<1> QED
  BY <1>1, <1>2

\* An inspection that comes back.
LEMMA InspectionComesBack ==
  ASSUME IInv, NEW t \in Threads, NEW op, NEW outcomes,
         NEW kind \in {"LABEL_SPACE", "TIME_AXIS", "SIGNAL_PLAUSIBILITY", "REPRESENTATIVENESS"},
         Inspects(t, op, kind, outcomes), kind = "LABEL_SPACE" => op = "labels"
  PROVE  IInv' /\ Stays
<1>1. PICK d \in ds, findings \in outcomes : CanRecord(d, kind) /\ Change(Recorded(d, kind, findings))
  BY DEF Inspects
<1>2. work[t].op = op /\ Waits(t, Idle) /\ Idle.op = "idle"
  BY AnswerWaits DEF Inspects
<1>3. Kept(d) /\ Mutable(d) /\ (kind = "LABEL_SPACE" => d.space # {})
  BY <1>1, <1>2 DEF IInv, CanRecord
<1> DEFINE q == Recorded(d, kind, findings)
<1>4. Kept(q) /\ q.space = d.space /\ Change(q)
  BY <1>1, <1>3, InspectionKeeps
<1> HIDE DEF q
<1> QED
  BY <1>2, <1>3, <1>4, CallChange

\* What comes back from an engine.
LEMMA AnswerKeeps ==
  ASSUME IInv, NEW t \in Threads, Ends(t)
  PROVE  IInv' /\ Stays
<1>1. CASE Profiled(t)
  <2>1. PICK d \in ds, profile \in Profiles :
          Answers(t, "profile") /\ Mutable(d) /\ Change(AttachedProfile(d, profile))
    BY <1>1 DEF Profiled
  <2>2. Waits(t, Idle) /\ Idle.op = "idle" /\ Kept(d)
    BY <2>1, AnswerWaits DEF IInv
  <2> DEFINE q == AttachedProfile(d, profile)
  <2>3. Kept(q) /\ q.space = d.space /\ Change(q)
    BY <2>1, <2>2, ProfileKeeps
  <2> HIDE DEF q
  <2> QED
    BY <2>1, <2>2, <2>3, CallChange
<1>2. CASE LabelsMeasured(t)
  BY <1>2, InspectionComesBack DEF LabelsMeasured
<1>3. CASE TimeAxisMeasured(t)
  BY <1>3, InspectionComesBack DEF TimeAxisMeasured
<1>4. CASE SignalMeasured(t)
  BY <1>4, InspectionComesBack DEF SignalMeasured
<1>5. CASE ShiftMeasured(t)
  BY <1>5, InspectionComesBack DEF ShiftMeasured
<1>6. CASE PartitionMeasured(t)
  <2>1. PICK d \in ds, m \in Partitions :
          /\ Answers(t, "partition") /\ CanPartition(d, work[t].plan)
          /\ Change(Partitioned(d, work[t].plan, m))
    BY <1>6 DEF PartitionMeasured
  <2>2. Waits(t, Idle) /\ Idle.op = "idle" /\ Kept(d) /\ Mutable(d)
    BY <2>1, AnswerWaits DEF IInv, CanPartition
  <2> DEFINE q == Partitioned(d, work[t].plan, m)
  <2>3. Kept(q) /\ q.space = d.space /\ Change(q)
    BY <2>1, <2>2, PartitionKeeps
  <2> HIDE DEF q
  <2> QED
    BY <2>2, <2>3, CallChange
<1>7. CASE Fitted(t)
  <2>1. PICK d \in ds :
          Answers(t, "fit") /\ CanDesign(d, work[t].spec) /\ Change(Designed(d, work[t].spec))
    BY <1>7 DEF Fitted
  <2>2. Waits(t, Idle) /\ Idle.op = "idle" /\ Kept(d) /\ Mutable(d)
    BY <2>1, AnswerWaits DEF IInv, CanDesign
  <2> DEFINE q == Designed(d, work[t].spec)
  <2>3. Kept(q) /\ q.space = d.space /\ Change(q)
    BY <2>1, <2>2, DesignKeeps
  <2> HIDE DEF q
  <2> QED
    BY <2>2, <2>3, CallChange
<1>8. CASE Fails(t)
  <2>1. UNCHANGED ds /\ Waits(t, Idle) /\ Idle.op # "labels"
    BY <1>8 DEF Fails, Waits, Idle
  <2> QED
    BY <2>1, ReadingKeeps
<1> QED
  BY <1>1, <1>2, <1>3, <1>4, <1>5, <1>6, <1>7, <1>8 DEF Ends

\* Every step keeps the invariant, and what was judged.
LEMMA NextKeeps == ASSUME IInv, Next PROVE IInv' /\ Stays
<1>1. PICK t \in Threads : Starts(t) \/ Ends(t)
  BY DEF Next
<1>2. CASE Starts(t)
  BY <1>2, RegisterKeeps, DirectKeeps, CallKeeps DEF Starts
<1> QED
  BY <1>1, <1>2, AnswerKeeps

\* Steps of nobody.
LEMMA StutterKeeps == ASSUME IInv, UNCHANGED vars PROVE IInv'
BY DEF vars, IInv, Kept, IsDataset, Grounded, Current

---------------------------------------------------------------------------
(* The theorems. *)

\* The inductive invariant: one dataset, which holds what its status and its
\* reports speak of, under any number of requests.
THEOREM DatasetInvariant == Spec => []IInv
<1>1. Init => IInv
  BY DEF Init, IInv, Idle
<1>2. IInv /\ [Next]_vars => IInv'
  BY NextKeeps, StutterKeeps
<1> QED
  BY <1>1, <1>2, PTL DEF Spec

\* A READY dataset has every inspection its policy asks for, has what was
\* inspected, and holds no critical finding (Dataset.certify,
\* ReadinessPolicy.evaluate).
THEOREM ReadyWentTheWay == Spec => []ReadyIsComplete
<1>1. IInv => ReadyIsComplete
  <2> SUFFICES ASSUME IInv, NEW d \in ds, d.status = "READY"
               PROVE  /\ \E p \in ReadinessPolicies : p.required \subseteq DOMAIN d.reports
                      /\ d.profile # {} /\ d.schema # {}
                      /\ "LABEL_SPACE" \in DOMAIN d.reports => d.space # {}
                      /\ "TRAINING_SPEC" \in DOMAIN d.reports => d.spec # {}
                      /\ "PARTITION" \in DOMAIN d.reports => d.partition # {}
                      /\ \A k \in DOMAIN d.reports : Blocking(d.reports[k]) = {}
    BY DEF ReadyIsComplete
  <2>1. Grounded(d) /\ Current(d)
    BY DEF IInv, Kept
  <2>2. PICK c \in d.certificate, p \in ReadinessPolicies : c = Evaluate(p, d.reports) /\ IsReady(c)
    BY <2>1 DEF Current
  <2>3. p.required \subseteq DOMAIN d.reports /\ \A k \in DOMAIN d.reports : Blocking(d.reports[k]) = {}
    BY <2>2, ReadyMeans
  <2> QED
    BY <2>1, <2>3 DEF Grounded
<1> QED
  BY <1>1, DatasetInvariant, PTL

\* A certificate stands exactly while a judgement does, and rests on the
\* reports there are now (Dataset.certify, record_inspection, reopen).
THEOREM CertificateRestsOnReports == Spec => []CertificateIsCurrent
<1>1. IInv => CertificateIsCurrent
  BY DEF IInv, Kept, Current, CertificateIsCurrent
<1> QED
  BY <1>1, DatasetInvariant, PTL

\* No request, however long it was under way, changes what was judged
\* (Dataset._guard_mutable).
THEOREM JudgementStays == Spec => JudgedStays
<1> DEFINE Untouched ==
      \A d \in ds, e \in ds' :
        ~Mutable(d) => \A f \in {"profile", "schema", "space", "spec", "partition", "reports"} : e[f] = d[f]
<1>1. ASSUME IInv, [Next]_vars PROVE [Untouched]_vars
  BY <1>1, NextKeeps DEF Stays, SameGrounds
<1> QED
  BY <1>1, DatasetInvariant, PTL DEF Spec, JudgedStays
=============================================================================
