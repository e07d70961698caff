--------------------------- MODULE FleetPolicies ---------------------------
(***************************************************************************)
(* The value objects and policies of the fleet context around the rollout  *)
(* (domain/fleet): health of the fleet, uplinks and keys of the lake,      *)
(* dataset builds, remote training, releases and channels, lineage,        *)
(* experiments, governance of the bucket, endpoints.                       *)
(*                                                                         *)
(* Money is in cents, sizes are in KiB, shares in percent.  A text that is *)
(* only asked whether it is blank is a set with one element or none, and   *)
(* so is any optional value.                                               *)
(***************************************************************************)
EXTENDS Inspection, FiniteSetsExt, SequencesExt

SumOf(f) == FoldSet(LAMBDA k, n : f[k] + n, 0, DOMAIN f)

\* The first key of the largest, and of the smallest value; `order` lists the keys.
Largest(f, order) ==
  LET keys == SelectSeq(order, LAMBDA k : \A j \in DOMAIN f : f[j] <= f[k])
  IN IF keys = <<>> THEN {} ELSE {Head(keys)}

Smallest(f, order) ==
  LET keys == SelectSeq(order, LAMBDA k : \A j \in DOMAIN f : f[k] <= f[j])
  IN IF keys = <<>> THEN {} ELSE {Head(keys)}

---------------------------------------------------------------------------
(* Devices and the fleet. *)

DeviceStatus == {"HEALTHY", "STALE", "UNREACHABLE", "QUARANTINED", "RETIRED"}

IsReachable(device) == device.status \in {"HEALTHY", "STALE"}

IsTrainableSource(device) == device.status \in {"HEALTHY", "STALE"}

\* FleetSummary; devices is a function from ids to devices.
Summary(devices) ==
  LET With(Test(_)) == Cardinality({d \in DOMAIN devices : Test(devices[d])})
      versions == UNION {devices[d].version : d \in DOMAIN devices}
      On(v) == With(LAMBDA x : x.version = {v})
  IN [total |-> Cardinality(DOMAIN devices), versions |-> Cardinality(versions),
      lost |-> With(LAMBDA x : x.status \in {"UNREACHABLE", "STALE"}),
      dominant |-> IF versions # {} THEN Max({On(v) : v \in versions})
                   ELSE With(LAMBDA x : x.version = {}),
      never |-> With(LAMBDA x : x.seen = 0)]

HealthFindings(policy, s) ==
  IF s.total = 0 THEN Found(TRUE, "FLEET_EMPTY", "WARNING", "fleet")
  ELSE Found(Over(s.lost, s.total, policy.maxStale), "FLEET_TOO_MANY_STALE", "WARNING", "reachability")
       \union Found(s.versions > policy.maxVersions, "FLEET_VERSION_SKEW", "CRITICAL", "version")
       \union Found(Under(s.dominant, s.total, policy.minDominant), "FLEET_ROLLOUT_STALLED", "WARNING", "rollout")
       \union Found(s.never > policy.maxNever, "FLEET_NEVER_REPORTED", "WARNING", "onboarding")

---------------------------------------------------------------------------
(* Uplinks, and the keys of the lake. *)

IsBatch(b) == b.records >= 0 /\ b.kib >= 0 /\ b.from <= b.to

UplinkFindings(policy, b, sentToday) ==
  {Finding("UPLINK_FORBIDDEN_FIELD", "CRITICAL", name) : name \in b.fields \cap policy.forbidden}
  \union Found(b.kib > policy.maxBatch, "UPLINK_BATCH_TOO_LARGE", "WARNING", b.device)
  \union Found(b.records < policy.minRecords, "UPLINK_TOO_CHATTY", "WARNING", b.device)
  \union Found(sentToday + b.kib > policy.budget, "UPLINK_OVER_DAILY_BUDGET", "CRITICAL", b.device)
  \union Found(policy.checksum /\ b.checksum = {}, "UPLINK_NO_CHECKSUM", "WARNING", b.device)

\* A key is its partitions in the order of the layout; a prefix stops at the
\* first partition the filters do not name.
KeyFor(order, values) == [i \in DOMAIN order |-> <<order[i], values[order[i]]>>]

PrefixFor(order, filters) ==
  LET named == {n \in 0..Len(order) : \A i \in 1..n : order[i] \in DOMAIN filters}
  IN [i \in 1..Max(named) |-> <<order[i], filters[order[i]]>>]

CanNarrow(order, filters) == order # <<>> /\ order[1] \in DOMAIN filters

KeyLayoutFindings(policy, order, stats) ==
  Found(policy.required \ ToSet(order) # {}, "LAKE_MISSING_PARTITION", "CRITICAL", "layout")
  \union Found(stats.objects > 0 /\ stats.kib < policy.minMean * stats.objects, "LAKE_SMALL_FILES", "WARNING", "objects")
  \union Found(stats.prefixes > 0 /\ stats.objects > policy.maxPerPrefix * stats.prefixes,
               "LAKE_PREFIX_TOO_WIDE", "WARNING", "prefix")
  \union Found(order # <<>> /\ order[1] \notin {"kind", "date"}, "LAKE_PARTITION_ORDER", "INFO", "order")

---------------------------------------------------------------------------
(* Dataset builds and remote training. *)

IsWindow(w) == w.from <= w.to

\* spec: devices (a sequence), excluded (device -> its reason), records and
\* labelled (device -> count), labels (label -> count), labelOrder.
IsBuildSpec(spec) == spec.devices # <<>>

BuildFindings(policy, spec) ==
  LET total == SumOf(spec.records)
      rarest == Smallest(spec.labels, spec.labelOrder)
      main == IF total = 0 THEN {} ELSE Largest(spec.records, spec.devices)
  IN Found(total < policy.minRecords, "BUILD_TOO_FEW_RECORDS", "CRITICAL", spec.id)
     \union Found(SumOf(spec.labelled) < policy.minLabelled, "BUILD_TOO_FEW_LABELS", "CRITICAL", spec.id)
     \union {Finding("BUILD_MINORITY_LABEL_STARVED", "CRITICAL", l) :
               l \in {k \in rarest : spec.labels[k] < policy.minPerLabel}}
     \union {Finding("BUILD_DEVICE_DOMINATED", "WARNING", d) :
               d \in {k \in main : Over(spec.records[k], total, policy.maxShare)}}
     \union Found(Len(spec.devices) < policy.minDevices, "BUILD_TOO_FEW_DEVICES", "WARNING", spec.id)
     \union Found(policy.reasons /\ \E d \in DOMAIN spec.excluded : spec.excluded[d] = {},
                  "BUILD_UNEXPLAINED_EXCLUSION", "CRITICAL", "excluded_devices")

CanBuild(findings) == DeriveVerdict(findings) # "FAILED"

RemoteJobStatus == {"PENDING", "RUNNING", "SUCCEEDED", "FAILED", "STOPPED"}

IsTerminal(status) == status \in {"SUCCEEDED", "FAILED", "STOPPED"}

IsCompute(c) == c.instance # {} /\ c.count >= 1 /\ c.seconds >= 60

IsTrainingJob(j) ==
  /\ j.dataset # {} /\ j.output # {}
  /\ j.status = "FAILED" => j.reason # {}
  /\ j.status = "SUCCEEDED" => j.artifact # {}

SubmissionFindings(policy, j) ==
  LET c == j.compute IN
  (IF policy.estimate /\ c.hourly = 0 THEN Found(TRUE, "TRAIN_NO_COST_ESTIMATE", "WARNING", j.id)
   ELSE Found(c.hourly * c.count * c.seconds > policy.maxCost * 3600, "TRAIN_OVER_BUDGET", "CRITICAL", j.id))
  \union Found(c.seconds > policy.maxSeconds, "TRAIN_RUNTIME_TOO_LONG", "WARNING", j.id)

ResultFindings(policy, j) ==
  CASE ~ IsTerminal(j.status) -> Found(TRUE, "TRAIN_STILL_RUNNING", "INFO", j.id)
    [] j.status \in {"FAILED", "STOPPED"} -> Found(TRUE, "TRAIN_FAILED", "CRITICAL", j.id)
    [] OTHER ->
         {Finding("TRAIN_METRIC_MISSING", "CRITICAL", n) : n \in DOMAIN policy.floors \ DOMAIN j.metrics}
         \union {Finding("TRAIN_METRIC_BELOW_FLOOR", "CRITICAL", n) :
                   n \in {k \in DOMAIN policy.floors \cap DOMAIN j.metrics : j.metrics[k] < policy.floors[k]}}

---------------------------------------------------------------------------
(* Releases, channels and lineage. *)

IsBundle(b) == b.kib > 0 /\ b.checksum # {} /\ Cardinality(b.labels) >= 2

ReleaseFindings(policy, b, devices) ==
  Found(b.kib > policy.maxKib, "RELEASE_TOO_LARGE", "CRITICAL", b.version)
  \union Found(b.kib * devices > 1024 * policy.maxFleetMib, "RELEASE_FLEET_TRANSFER_TOO_LARGE", "WARNING", b.version)
  \union Found(policy.preprocessing /\ ~ (b.fields # {} /\ b.normalization # {} /\ b.interval > 0),
               "RELEASE_NO_PREPROCESSING", "CRITICAL", "preprocessing")
  \union Found(policy.baseline /\ ~ (b.p95 > 0 /\ b.mix # {}), "RELEASE_NO_BASELINE", "CRITICAL", "baseline")
  \union Found(policy.lineage /\ b.build = {}, "RELEASE_NO_LINEAGE", "CRITICAL", "lineage")

CanPublish(findings) == DeriveVerdict(findings) # "FAILED"

\* Mutant: what the canary channel held is not archived.
WithPromotionForgetting(channels, version, channel) ==
  IF channel = "CANARY" THEN [channels EXCEPT !.canary = {version}]
  ELSE [canary |-> channels.canary \ {version}, stable |-> {version},
        archived |-> channels.archived \o SetToSeq(channels.stable)]

\* A channel holds one version or none; what it held before goes to the end
\* of the archive.
WithPromotion(channels, version, channel) ==
  IF channel = "CANARY"
  THEN [channels EXCEPT !.canary = {version}, !.archived = @ \o SetToSeq(channels.canary)]
  ELSE [canary |-> channels.canary \ {version}, stable |-> {version},
        archived |-> channels.archived \o SetToSeq(channels.stable)]

\* Links: a function from stages to the identifier there, or to none.
TraceOf(device, version, job, build, window) ==
  [device |-> device, release |-> version, training |-> job, dataset |-> build, source |-> window]

LineageFindings(policy, trace, sources) ==
  {Finding("LINEAGE_BROKEN", "CRITICAL", stage) :
     stage \in {s \in policy.stages : s \notin DOMAIN trace \/ trace[s] = {}}}
  \union (IF policy.needsSources /\ sources = {}
          THEN Found(TRUE, "LINEAGE_NO_SOURCE_DEVICES", "CRITICAL", "source_devices")
          ELSE {Finding("LINEAGE_SELF_EXCLUDED", "INFO", d) : d \in trace.device \ sources})

Closed(findings) == DeriveVerdict(findings) # "FAILED"

---------------------------------------------------------------------------
(* Experiments. *)

\* The parts a trial needs to be done again; each is empty if it is missing.
MissingFields(r) ==
  {name \in {"dataset", "code", "parameters", "metrics", "artifact"} : r[name] = {}}

\* records is a sequence of trials; metrics are pairs <<name, value>>.
BestBy(records, name) ==
  LET score(r) == {m[2] : m \in {x \in r.metrics : x[1] = name}}
      scored == SelectSeq(records, LAMBDA r : score(r) # {})
      best == SelectSeq(scored, LAMBDA r : \A s \in ToSet(scored) : Max(score(s)) <= Max(score(r)))
  IN IF best = <<>> THEN {} ELSE {Head(best)}

ReproducibilityFindings(experiment, records, lost) ==
  {Finding("EXPR_NOT_REPRODUCIBLE", "CRITICAL", r.trial) : r \in {x \in ToSet(records) : MissingFields(x) # {}}}
  \union Found(lost # {}, "EXPR_ARTIFACT_MISSING", "CRITICAL", experiment)
  \union Found(/\ Cardinality(UNION {r.dataset : r \in ToSet(records)}) > 1
               /\ \A r \in ToSet(records) : "data" \notin r.parameters,
               "EXPR_DATA_VERSION_MIXED", "CRITICAL", experiment)
  \union Found(Len(records) < 2, "EXPR_SINGLE_TRIAL", "WARNING", experiment)

---------------------------------------------------------------------------
(* Governance of the bucket, and endpoints. *)

IsStatement(s) == s.effect \in {"Allow", "Deny"} /\ s.actions # {} /\ s.resources # {}

GovernanceFindings(policy, g) ==
  LET allowed == {s \in g.statements : s.effect = "Allow"}
      public == {s \in allowed : s.anyone}
  IN Found(policy.versioning /\ ~ g.versioning, "GOV_NO_VERSIONING", "CRITICAL", "bucket")
     \union Found(policy.encryption /\ g.encryption = {}, "GOV_NO_ENCRYPTION", "CRITICAL", "bucket")
     \union Found(~ g.blocked, "GOV_PUBLIC_ACCESS_OPEN", "CRITICAL", "bucket")
     \union Found(g.days = {}, "GOV_NO_LIFECYCLE", "WARNING", "bucket")
     \union Found(\E n \in g.days : n > policy.maxDays, "GOV_RETENTION_TOO_LONG", "WARNING", "bucket")
     \union {Finding("GOV_PUBLIC_STATEMENT", "CRITICAL", s.sid) : s \in public}
     \union {Finding("GOV_OVERBROAD_ACTION", "WARNING", s.sid) : s \in {x \in allowed \ public : x.wildcard}}
     \union Found((\E k \in DOMAIN g.copies : g.copies[k] > 1) /\ ~ g.versioning,
                  "GOV_SILENT_OVERWRITE", "CRITICAL", "bucket")

IsEndpoint(spec) ==
  /\ spec.variants # {}
  /\ \A v \in spec.variants : v.count >= 1 /\ v.weight > 0
  /\ \A v, w \in spec.variants : v.name = w.name => v = w

MonthlyCost(spec) == MapThenSumSet(LAMBDA v : v.hourly * v.count * 24 * 30, spec.variants)

EndpointFindings(policy, spec, profile) ==
  LET instances == MapThenSumSet(LAMBDA v : v.count, spec.variants) IN
  Found(profile.roundTrip + profile.inference > profile.cycle, "EP_CYCLE_TIME_MISSED", "CRITICAL", spec.name)
  \union Found(profile.offline <= 0, "EP_NO_OFFLINE_FALLBACK", "CRITICAL", spec.name)
  \union Found(MonthlyCost(spec) > policy.maxMonthly, "EP_ALWAYS_ON_COST", "WARNING", spec.name)
  \union Found(profile.perHour > 0 /\ profile.perHour < 60 * instances, "EP_UNDERUSED", "WARNING", spec.name)
  \union Found(instances = 1, "EP_SINGLE_INSTANCE", "WARNING", spec.name)
=============================================================================
