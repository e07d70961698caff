----------------------------- MODULE Operations -----------------------------
(***************************************************************************)
(* The operations context at run time: deployments (domain/operations/     *)
(* deployment.py), the watches over them (watch.py), the log of inferences *)
(* and the use cases of application/operations, called by a pool of        *)
(* request threads.                                                        *)
(*                                                                         *)
(* The repositories hold objects that requests mutate in place, so both    *)
(* kinds of object have an identity: an index into deployments or watches. *)
(* deployed says which object an id names; shelf is the watch dictionary   *)
(* in its order, which find_by_deployment searches.  A request that        *)
(* touches the world in two places takes two steps, with what it holds in  *)
(* work: opening a watch after the deployment is stored, appending to the  *)
(* log after binding it, and recording what was read from the log.         *)
(*                                                                         *)
(* Left out: moments and notes, the history and the events (nothing reads  *)
(* them back), measured values inside a report (OperationsPolicies has     *)
(* what is computed from them), and retire and attach_ground_truth, which  *)
(* no use case calls.                                                      *)
(***************************************************************************)
EXTENDS OperationsPolicies

CONSTANTS
  Ids,            \* deployment ids
  Requests,       \* request threads
  Offered(_),     \* what artifact_from may give after so many versions
  Batches,        \* sequences of inference records devices send
  Windows,        \* windows somebody may ask about
  Drifts,         \* what the input drift measurer may answer
  Policies,       \* [latency, mix, drift, log, incident, minSamples]
  Timeout,        \* the measurer's time-out, if it has one
  WatchIdsOf(_),  \* the watch ids somebody may ask for with a deployment
  Blank,          \* a watch id of spaces
  MaxDeployments, MaxVersions, MaxRecords, MaxReports, MaxIncidents   \* bounds, over all objects

ASSUME OperationsAssumption ==
  /\ \A b \in Batches : \A i \in DOMAIN b : IsRecord(b[i])
  /\ \A w \in Windows :
       w \in [label : STRING, from : Int, to : Int, samples : Nat, device : SUBSET STRING] /\ IsWindow(w)
  /\ {MaxDeployments, MaxVersions, MaxRecords, MaxReports, MaxIncidents} \subseteq Nat

VARIABLES deployments, deployed, watches, shelf, bound, logs, work,
          asked   \* history: the watch ids that were asked for with each deployment

vars == <<deployments, deployed, watches, shelf, bound, logs, work, asked>>

Idle == [op |-> "idle"]

\* How many there are over all objects, for the bounds.
Count(objects, Length(_)) == Cardinality(UNION {{i} \X (1..Length(objects[i])) : i \in DOMAIN objects})

Versions == Count(deployments, LAMBDA d : Len(d.versions))

---------------------------------------------------------------------------
(* The aggregates. *)

Version(number, artifact, from) == [number |-> number, artifact |-> artifact, from |-> from]

Deploys(artifact) == [versions |-> <<Version(1, artifact, {})>>, status |-> "DEPLOYED"]

CurrentVersion(d) == Last(d.versions)

\* Mutant: only a retired deployment takes no release.
CanReleaseQuarantined(d) == d.status # "RETIRED"

CanRelease(d) == d.status \notin {"QUARANTINED", "RETIRED"}

Released(d, artifact) ==
  [d EXCEPT !.versions = Append(@, Version(CurrentVersion(d).number + 1, artifact, {})),
            !.status = "DEPLOYED"]

\* Stopping twice changes nothing.
Quarantined(d) == IF d.status = "RETIRED" THEN d ELSE [d EXCEPT !.status = "QUARANTINED"]

\* Not to the version that runs, and to one that was deployed; never back in number.
CanRollBack(d, to) ==
  /\ d.status # "RETIRED"
  /\ to # CurrentVersion(d).number
  /\ \E i \in DOMAIN d.versions : d.versions[i].number = to

\* Mutant: a rollback goes back in number too.
RolledBackInNumber(d, to) ==
  [d EXCEPT !.versions = Append(@, CHOOSE v \in ToSet(@) : v.number = to), !.status = "ROLLED_BACK"]

RolledBack(d, to) ==
  LET source == CHOOSE v \in ToSet(d.versions) : v.number = to
      from   == CurrentVersion(d).number
  IN [d EXCEPT !.versions = Append(@, Version(from + 1, source.artifact, {from})),
               !.status = "ROLLED_BACK"]

Resumed(d) == [d EXCEPT !.status = "DEPLOYED"]

OpensWatch(id, artifact) ==
  [deployment |-> id, p95 |-> artifact.p95, mix |-> artifact.mix, reports |-> <<>>, incidents |-> <<>>]

\* Mutant: whatever comes is recorded.
CanRecordAny(watch, report) == TRUE

\* Windows come in the order of time; the last one may be seen again.
CanRecord(watch, report) ==
  watch.reports = <<>> \/ report.window.from >= Last(watch.reports).window.from

\* Mutant: a report takes the place of the last one, whatever window it is of.
WithReportLatest(reports, report) ==
  IF reports = <<>> THEN <<report>> ELSE [reports EXCEPT ![Len(reports)] = report]

WithReport(reports, report) ==
  IF reports # <<>> /\ Last(reports).window.label = report.window.label
  THEN [reports EXCEPT ![Len(reports)] = report]
  ELSE Append(reports, report)

\* The id of an incident is made of the watch's id and the window's label.
WithIncident(incidents, report) ==
  IF DeriveVerdict(report.findings) = "PASSED" THEN incidents
  ELSE Append(incidents, [window |-> report.window.label, kind |-> IncidentKindOf(report.findings),
                          version |-> report.version, open |-> TRUE])

\* The first incident of the id is resolved, whatever its state.
Resolved(incidents, label) ==
  LET i == Min({k \in DOMAIN incidents : incidents[k].window = label}) IN [incidents EXCEPT ![i].open = FALSE]

Recorded(watch, report, opens) ==
  [watch EXCEPT !.reports = WithReport(@, report),
                !.incidents = IF opens THEN WithIncident(@, report) ELSE @]

---------------------------------------------------------------------------
(* The repositories. *)

Deployment(id) == deployments[deployed[id]]

\* A dictionary keeps the place of a key that is saved again.
Shelved(watchId, object) ==
  IF \E k \in DOMAIN shelf : shelf[k].id = watchId
  THEN [k \in DOMAIN shelf |-> IF shelf[k].id = watchId THEN [shelf[k] EXCEPT !.object = object] ELSE shelf[k]]
  ELSE Append(shelf, [id |-> watchId, object |-> object])

\* The place of the first watch over a deployment.
WatchFor(id) ==
  LET places == {k \in DOMAIN shelf : watches[shelf[k].object].deployment = id}
  IN IF places = {} THEN {} ELSE {Min(places)}

Free(t) == work[t] = Idle

Changes(id, d) ==
  /\ deployments' = [deployments EXCEPT ![deployed[id]] = d]
  /\ UNCHANGED <<deployed, watches, shelf, bound, logs, work, asked>>

Init ==
  /\ deployments = <<>> /\ deployed = [d \in Ids |-> 0]
  /\ watches = <<>> /\ shelf = <<>>
  /\ bound = {} /\ logs = [d \in Ids |-> <<>>]
  /\ work = [t \in Requests |-> Idle] /\ asked = [d \in Ids |-> {}]

---------------------------------------------------------------------------
(* Deploying. *)

\* An id that is taken is not refused: it gets a new object.  The release
\* check (ReleaseFindings) goes into the answer and stops nothing.
DeployModel(t, id, watchId, artifact, requireSelected) ==
  /\ Free(t) /\ Len(deployments) < MaxDeployments /\ Versions < MaxVersions
  /\ requireSelected => artifact.selected
  /\ deployments' = Append(deployments, Deploys(artifact))
  /\ deployed' = [deployed EXCEPT ![id] = Len(deployments) + 1]
  /\ work' = [work EXCEPT ![t] = [op |-> "deploy", id |-> id, watch |-> watchId, artifact |-> artifact]]
  /\ asked' = [asked EXCEPT ![id] = @ \union {watchId}]
  /\ UNCHANGED <<watches, shelf, bound, logs>>

\* Mutant: the watch is made and not saved.
OpenWatchUnsaved(t) ==
  /\ work[t].op = "deploy" /\ work[t].watch # Blank
  /\ watches' = Append(watches, OpensWatch(work[t].id, work[t].artifact))
  /\ work' = [work EXCEPT ![t] = Idle]
  /\ UNCHANGED <<deployments, deployed, shelf, bound, logs, asked>>

OpenWatch(t) ==
  /\ work[t].op = "deploy" /\ work[t].watch # Blank
  /\ watches' = Append(watches, OpensWatch(work[t].id, work[t].artifact))
  /\ shelf' = Shelved(work[t].watch, Len(watches) + 1)
  /\ work' = [work EXCEPT ![t] = Idle]
  /\ UNCHANGED <<deployments, deployed, bound, logs, asked>>

\* A blank id is refused only now, when the deployment is stored: it stays.
RefuseWatch(t) ==
  /\ work[t].op = "deploy" /\ work[t].watch = Blank
  /\ work' = [work EXCEPT ![t] = Idle]
  /\ UNCHANGED <<deployments, deployed, watches, shelf, bound, logs, asked>>

\* The watch keeps the baselines of the first version.
ReleaseVersion(id, artifact, requireSelected) ==
  /\ deployed[id] # 0 /\ Versions < MaxVersions
  /\ CanRelease(Deployment(id))
  /\ requireSelected => artifact.selected
  /\ Changes(id, Released(Deployment(id), artifact))

---------------------------------------------------------------------------
(* The log. *)

\* The route binds the store to the deployment of its path, before anything
\* is looked up; an unknown deployment is only then refused.
Bind(t, id, batch) ==
  /\ Free(t)
  /\ Count(logs, Len) + Len(batch) <= MaxRecords
  /\ bound' = {id}
  /\ work' = [work EXCEPT ![t] = IF deployed[id] = 0 THEN Idle ELSE [op |-> "ingest", id |-> id, batch |-> batch]]
  /\ UNCHANGED <<deployments, deployed, watches, shelf, logs, asked>>

\* The store appends to whatever it is bound to by then.
IngestInferenceLog(t) ==
  /\ work[t].op = "ingest"
  /\ \E id \in bound :
       logs' = [logs EXCEPT ![id] = SortSeq(@ \o work[t].batch, LAMBDA r, s : r.at < s.at)]
  /\ work' = [work EXCEPT ![t] = Idle]
  /\ UNCHANGED <<deployments, deployed, watches, shelf, bound, asked>>

---------------------------------------------------------------------------
(* Observing. *)

StartObserving(t, id, window) ==
  /\ Free(t) /\ deployed[id] # 0
  /\ \E k \in WatchFor(id) :
       /\ work' = [work EXCEPT ![t] =
            [op |-> "observe", id |-> id, deployment |-> deployed[id], watch |-> shelf[k],
             window |-> [window EXCEPT !.samples = Len(RecordsIn(logs[id], window))],
             records |-> RecordsIn(logs[id], window)]]
  /\ UNCHANGED <<deployments, deployed, watches, shelf, bound, logs, asked>>

\* The measurers read the log anew; the drift measurer reads a stream.
FindingsOf(job, watch, log, drift) ==
  LET now == RecordsIn(log, job.window)
      mix == MeasureMix(now)
  IN WindowFindings(Policies.minSamples, job.window) \union LogFindings(Policies.log, Summarize(job.records))
     \union IF job.records = <<>> THEN {}
            ELSE LatencyFindings(Policies.latency, job.window, MeasureLatency(now, Timeout), watch.p95)
                 \union MixFindings(Policies.mix, job.window, mix, watch.mix, {})
                 \union UNION {DriftFindings(Policies.drift, job.window, d) : d \in drift}

\* Several versions in one window: the report is about the current one.
VersionOf(job) ==
  LET versions == {job.records[i].version : i \in DOMAIN job.records}
  IN IF Cardinality(versions) = 1 THEN CHOOSE v \in versions : TRUE
     ELSE CurrentVersion(deployments[job.deployment]).number

\* The watch found at the start is the one that is saved; a window before
\* the last one is refused and nothing is kept.
ObserveHealth(t, drift, opens) ==
  /\ work[t].op = "observe"
  /\ LET job    == work[t]
         object == job.watch.object
         watch  == watches[object]
         report == [window |-> job.window, version |-> VersionOf(job),
                    findings |-> FindingsOf(job, watch, logs[job.id], drift)]
         next   == Recorded(watch, report, opens)
     IN IF CanRecord(watch, report)
        THEN /\ Len(next.reports) > Len(watch.reports) => Count(watches, LAMBDA w : Len(w.reports)) < MaxReports
             /\ opens => Count(watches, LAMBDA w : Len(w.incidents)) < MaxIncidents
             /\ watches' = [watches EXCEPT ![object] = next]
             /\ shelf' = Shelved(job.watch.id, object)
        ELSE UNCHANGED <<watches, shelf>>
  /\ work' = [work EXCEPT ![t] = Idle]
  /\ UNCHANGED <<deployments, deployed, bound, logs, asked>>

\* Nothing predicted in the window makes an empty mix, which is refused.
RebaselineWatch(id, window) ==
  /\ deployed[id] # 0
  /\ RecordsIn(logs[id], window) # <<>>
  /\ \E k \in WatchFor(id) :
       watches' = [watches EXCEPT ![shelf[k].object].mix = Shares(MeasureMix(RecordsIn(logs[id], window)))]
  /\ UNCHANGED <<deployments, deployed, shelf, bound, logs, work, asked>>

---------------------------------------------------------------------------
(* Responding. *)

\* Without a reason the last report has to give one.
QuarantineDeployment(id, reason) ==
  /\ deployed[id] # 0
  /\ reason \/ \E k \in WatchFor(id) :
                 LET reports == watches[shelf[k].object].reports
                 IN reports # <<>> /\ ShouldQuarantine(Policies.incident, Last(reports).findings)
  /\ Changes(id, Quarantined(Deployment(id)))

ResumeDeployment(id) ==
  /\ deployed[id] # 0 /\ Deployment(id).status = "QUARANTINED"
  /\ Changes(id, Resumed(Deployment(id)))

RollbackDeployment(id, to) ==
  /\ deployed[id] # 0 /\ CanRollBack(Deployment(id), to)
  /\ Versions < MaxVersions
  /\ Changes(id, RolledBack(Deployment(id), to))

ResolveIncident(k, label) ==
  /\ k \in DOMAIN shelf
  /\ \E i \in DOMAIN watches[shelf[k].object].incidents : watches[shelf[k].object].incidents[i].window = label
  /\ watches' = [watches EXCEPT ![shelf[k].object].incidents = Resolved(@, label)]
  /\ UNCHANGED <<deployments, deployed, shelf, bound, logs, work, asked>>

Next ==
  \/ \E t \in Requests, id \in Ids, artifact \in Offered(Versions), strict \in BOOLEAN :
       \E watchId \in WatchIdsOf(id) : DeployModel(t, id, watchId, artifact, strict)
  \/ \E t \in Requests : OpenWatch(t) \/ RefuseWatch(t)
  \/ \E id \in Ids, artifact \in Offered(Versions), strict \in BOOLEAN : ReleaseVersion(id, artifact, strict)
  \/ \E t \in Requests, id \in Ids, batch \in Batches : Bind(t, id, batch)
  \/ \E t \in Requests : IngestInferenceLog(t)
  \/ \E t \in Requests, id \in Ids, window \in Windows : StartObserving(t, id, window)
  \/ \E t \in Requests, drift \in Drifts, opens \in BOOLEAN : ObserveHealth(t, drift, opens)
  \/ \E id \in Ids, window \in Windows : RebaselineWatch(id, window)
  \/ \E id \in Ids, reason \in BOOLEAN : QuarantineDeployment(id, reason)
  \/ \E id \in Ids : ResumeDeployment(id)
  \/ \E id \in Ids, to \in 1..MaxVersions : RollbackDeployment(id, to)
  \/ \E k \in 1..Len(shelf), window \in Windows : ResolveIncident(k, window.label)

Spec == Init /\ [][Next]_vars

---------------------------------------------------------------------------
(* Properties. *)

\* The time line of every watch is in the order of time, whoever recorded its
\* windows and however long they took (watch.py, record: a window that comes
\* out of order makes the time line lie).
TimelineInOrder ==
  \A i \in DOMAIN watches :
    LET r == watches[i].reports IN
    \A a, b \in DOMAIN r : a < b => r[a].window.from <= r[b].window.from

\* An incident can be traced to its window: the time line still has a report
\* of that window, even after the window was seen again.
IncidentsOnTheTimeline ==
  \A i \in DOMAIN watches : \A k \in DOMAIN watches[i].incidents :
    \E j \in DOMAIN watches[i].reports : watches[i].reports[j].window.label = watches[i].incidents[k].window

\* A version number names one content for ever: numbers count the versions,
\* and a rollback brings back what an earlier number, not the one it
\* replaces, stood for (deployment.py: a rollback is a new deployment).
RollbackRestores ==
  \A i \in DOMAIN deployments :
    LET v == deployments[i].versions IN
    \A n \in DOMAIN v : /\ v[n].number = n
                        /\ \A from \in v[n].from : from = n - 1 /\ \E m \in 1..(n - 2) : v[m].artifact = v[n].artifact

\* A deployment is watched from the moment its request ends if one of the
\* watch ids asked for with it is of use (not blank) and its own (never asked
\* for with another deployment), whoever deploys, observes or deploys again
\* in between.  Nothing more is so: a blank id is refused after the
\* deployment was stored, and a watch is saved over another deployment's
\* watch of the same id, by its own request or by an observation that began
\* earlier, where deploy_model.py opens the watch "together with the
\* deployment".
WatchedUnderItsOwnId ==
  \A id \in Ids : \A w \in asked[id] \ {Blank} :
    (\A other \in Ids \ {id} : w \notin asked[other]) =>
      WatchFor(id) # {} \/ \E t \in Requests : work[t].op = "deploy" /\ work[t].id = id

\* A quarantined deployment gets no new model: until somebody resumes it, the
\* only version it takes is a rollback (deployment.py, second invariant).
QuarantineHolds ==
  [][\A i \in DOMAIN deployments :
       deployments[i].status = "QUARANTINED" =>
         \/ deployments'[i].versions = deployments[i].versions
         \/ deployments'[i].status = "ROLLED_BACK" /\ CurrentVersion(deployments'[i]).from # {}]_vars
=============================================================================
