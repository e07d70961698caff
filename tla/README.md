# Verification of on-device-ai-backend

TLA+ models, TLC runs and TLAPS proofs kept beside the backend (`src/src`) and
the device agent (`src/edge-agent`).  Line numbers are those of the repository's
files; `PROJECT.json` maps every definition to the lines it stands for and lists
the hazards with the properties that watch them.

## 1. The system

A FastAPI server in six bounded contexts (data, data quality, model,
optimization, operations, fleet), each with aggregates, policies, use cases,
ports and adapters, and a Python agent that runs on the device.  All routes are
plain functions: FastAPI runs them in a pool of threads.  The repositories are
dictionaries that hand out *live* objects, with no lock and no version number,
so two requests can work on one aggregate at once; a use case reads, changes,
`commit`s (save and publish the recorded events) and often calls a service
before or after that.  The concurrency and the partial failures of the system
come from there, and from the device, whose power and line can go at any moment.

| Component | State | Operations | Speaks to | Hard about it |
|---|---|---|---|---|
| Dataset (`domain/data`) | profile, schema, labels, input contract, partition, reports, certificate | declare, inspect, partition, certify, reopen | measuring engines, quality, training | answers that come after the judgement, parts replaced under their report |
| Quality assessment (`domain/data_quality`) | results per dimension, repairs, certificate | measure, remediate, judge, reopen | engines, the file that is repaired outside | what was repaired and not measured again |
| Training run (`domain/model`) | request, curve, version, evaluations, certificate | prepare, execute, evaluate, accept, reopen | dataset, assessment, trainer's registry | background tasks, two objects for one id, weights kept by name |
| Optimization run (`domain/optimization`) | baseline, candidates, certificate | start, convert, profile, select, reopen | training run, exporters' registry | conversions that end late, artifacts kept by label |
| Deployment, health watch, incidents (`domain/operations`) | versions, status, reports, incidents, log | deploy, release, observe, quarantine, roll back, resume | optimization run, device logs | order of windows, objects replaced under their watch |
| Alert gates (`alerting.py`) | last alert, dwell, budget | offer, close; a whole batch | agent, operations | one rule implemented twice |
| Fleet, channels, registry (`fleet.py`, `release.py`) | devices, channels, releases | register, report, mark, sweep, publish, promote | all fleet use cases | a status that several parties write |
| Dataset builds, remote training (`build_and_train.py`) | manifests, jobs | build, submit, poll, stop | SageMaker, S3, fleet | a job that goes on by itself, a check and a write apart |
| Rollout (`domain/fleet/rollout.py`) | waves, position, results, status, pending events | plan, start, record_wave, advance, complete, halt, resume, mark_rolled_back | use cases, event publisher | long sequences of legal calls; a method that changes state and then raises |
| Wave slicing (`release_and_rollout.py:455`) | none | cut a list of targets by a list of sizes | Rollout.plan | small numbers, zeros |
| Rollout use cases, OTA gateway | repositories; the jobs at the OTA service | plan, collect, advance, halt, roll back, apply | Rollout, Fleet, AWS IoT Jobs | commit first and announce later, answers used after others have moved, jobs that cannot be taken back |
| Uplink ingestion (`ingest_uplink.py`) | object store, daily counters, fleet, registry | check, put, count, report, upsert | agent, S3, DynamoDB | five steps without a transaction, several threads |
| Device agent and spool (`agent.py`, `store.py`, `preprocess.py`) | window, gate, spool file, state file, counters | sample, judge, alert, append, flush, crash, boot | the line | power cuts, lost and late answers, a full disk |
| Device slots (`slots.py`, `bundle.py`) | two slots, a pointer | stage, install, roll back | OTA, command line | power cuts between writes, check and use |
| Governance, endpoints, experiments, lineage | none of their own | read and judge | S3, SageMaker | rules only |
| HTTP, engines, sample data | none | | | none that a model checker reaches |

What makes each part right is stated by the properties of its module, in
section 3.

## 2. The modules

```
Inspection               findings, verdicts, thresholds (shared kernel)
  DataPolicies           <- Dataset         <- MCDataset
  QualityPolicies        <- Assessment      <- MCAssessment
  ModelPolicies          <- Training        <- MCTraining
  OptimizationPolicies   <- Optimization    <- MCOptimization
  OperationsPolicies     <- Operations      <- MCOperations
  Alerts                 <- DevicePipeline  <- MCDevicePipeline
  FleetPolicies          <- FleetRegistry   <- MCFleetRegistry
RolloutAggregate         <- Rollout         <- MCRollout
  (with WaveSizes)       <- FleetOta        <- MCFleetOta
StoreAndForward (abstract);  Uplink implements it  <- MCUplink
SlotStore                                   <- MCSlotStore

FleetOtaProofs       extends FleetOta, Rollout
EdgeProofs           extends Uplink, SlotStore
DeviceProofs         extends DevicePipeline
DatasetProofs        extends Dataset
AssessmentProofs     extends Assessment
TrainingProofs       extends Training
OperationsProofs     extends Operations, Optimization
FleetRegistryProofs  extends FleetRegistry
```

`Rollout`, `SlotStore`, `Optimization` and `DevicePipeline` give their `Init`,
`Next`, `Spec` and `vars` names of their own, so that one module can extend
several components.

### How the contexts are modelled

Each of the first seven pairs is made alike.  The *policies* module holds the
value objects and policies of a context: pure operators from a measurement and a
policy to a set of findings.  The component's module holds the aggregate's
objects and its use cases.

- **Findings.**  A finding is its code, its severity and its subject; messages
  and measured values are read by nobody.  A verdict is derived from findings
  (`Inspection`).
- **Numbers.**  Ratios are compared by cross multiplication, so nothing is
  hidden by rounding; where the code rounds into something it compares (scores,
  shares), the unit is named in the module's head.
- **None.**  A value that may be absent is a set with at most one element.
- **Threads.**  A use case that calls an engine or a service is two steps, and
  `work[t]` (`calls[t]` in `Optimization`) is what the thread read before the
  call: another thread may do anything in between.  A use case that calls nobody between its load and its
  save is one step, although Python could switch threads inside it; in
  particular the check and the assignment in `start()` are one step.
- **Objects and ids.**  `Training`, `Optimization` and `Operations` keep the
  objects ever made apart from the dictionary that says which object an id
  leads to, because the code lets an id be given again while a thread still
  holds the old object.
- **Outside.**  Engines, the training service, the file that somebody repairs
  and the devices are external: any answer of a small set may come.

What a policy should come to is assumed in the MC module, over bounded inputs,
so that TLC evaluates it with the run: scores fall as more is missing
(`MCAssessment`), improvement and regression mirror each other, a stratified
split gives each class a place in each split, the count of windows covers the
rows it says, the weights kept are those of the best epoch (`MCTraining`), the
selection does not depend on the order of the candidates and lies on the Pareto
front, quantization moves a weight by half a level at most (`MCOptimization`),
percentiles are in order, a rebaselined mix is calm, the onset is the first
long run (`MCOperations`), a batch of alerts may come in any order and loses
nothing by merging (`MCDevicePipeline`), `_slice_waves` is its closed form
(`MCFleetOta`).

**Dataset.**  One dataset: register, profile, declare schema, label space and
input contract, inspect signals, time axis and labels, design, fit, partition,
representativeness, certify, reopen.  The aggregate's `_guard_mutable` and its
rules on what has to be there first are guards; a change made before an engine
is called (a label space is in force before it is measured) stays if the engine
fails.

**Assessment.**  One assessment over a file that somebody repairs between
measurements.  A measurement reads the file when the engine is called and is
recorded when it returns.  Two histories go with it: `stale`, what was repaired
and has not been measured from the repaired file, and `late`, what a measurement
that had begun before the repair was taken to prove.

**Training.**  Runs over series and over image folders.  The dataset's and the
assessment's gates are found open or shut at preparation, and the run keeps
what it found.  The trainer keeps weights by version name, which is made of
data, architecture kind and seed, so two runs may share one.  The curve comes
whole, at the end of a training.

**Optimization.**  Runs of one model that may be trained again meanwhile; the
registry of artifacts by version and label.  The laboratories (structure,
quantization, roofline, resources, batches) change nothing and are operators.

**Operations.**  Deployments with their numbered versions and status; watches
with time lines, baselines and incidents; the inference log with the shared
"current deployment" that `bind` sets and `append` reads.  A deployment is stored
first and its watch opened in a second step, which is refused for a blank watch id
and replaces a watch of the same id.  `RebaselineWatch` is there, but changes
nothing in the instance, where the logged mix is the baseline's.

**Alerts, DevicePipeline.**  `Alerts` has both gates of `alerting.py`: the batch
and the streaming one with its dwell, cooldown and hourly budget.
`DevicePipeline` is the agent's loop, from the sample through window and model
(any label and confidence) to gate, spool and counters, with power cuts and
orderly stops between any two passes; what the gate *says* is kept apart from its
ledger, since only the former is put on records (`told`).  `GateMatchesBatch`
compares the two gates as the stream goes on.

**FleetPolicies, FleetRegistry.**  The fleet's devices, reports, sweeps and
marks; builds that choose devices first and write their manifest later; jobs
that the training service moves by itself; releases and channels.  Each build
keeps, as history, who had reported since it was isolated when the build looked
(`heard`) and who was isolated after that (`late`).

### The rollout, the line, the slots

**RolloutAggregate, Rollout.**  A rollout is a record; each method `m` is a
guard `CanM` (its early returns, negated) and the record it leaves.  A wave is
its set of devices, a result the function from the devices of its wave to their
outcomes; names, reasons, timestamps and the log, which no method reads back,
are left out.  Ratios are compared by cross multiplication with thresholds in
percent, so no rounding is hidden.  `advance` past the last wave completes the
rollout *and then raises*: the model keeps both (`Advanced`, `AdvanceRaises`),
with the event it leaves pending.  `Rollout` calls the methods in any order and
with any policy of a set, as the HTTP layer lets anybody do, and has `commit` as
a step of its own.

**WaveSizes.**  `_slice_waves` as a recursive function over what its loop
carries, and in closed form what it should come to: every target in one wave,
the size asked for while there are enough, the rest last.

**FleetOta.**  The use cases of `release_and_rollout.py` as threads run them,
cut at the calls to the gateway: plan | announce, collect | record,
advance | announce, cancel | mark, plan, announce.  Between two parts any other
thread may work on the same live rollout.  The OTA service is external: a job
makes executions, a cancelled job takes back those nobody has begun, an
announcement can be refused, and so can a cancellation.  A device takes up its
execution, and then installs, fails, refuses, times out or loses it (every word of
`OUTCOME_MAP`).  The gateway finds the jobs of a rollout by the prefix
`ota-{rollout}-`: `Namesakes` says which other ids a prefix takes in, and `Heard`
is the outcome of any execution it finds, in whatever order the service lists
them.  `origin` remembers which rollout is whose recovery.  Operators quarantine
devices and promote releases from outside.  Two simplifications: a rollout id is
used once (`Fresh`: callers choose ids, and reusing one replaces the rollout in
the dictionary; nothing in the code prevents it), and `Fleet.report` is one step.

**Uplink, StoreAndForward.**  One device's agent as a loop (`sampling`,
`flushing`, `waiting`, `persisting`, `stopped`), its spool and state file, the
line, and server threads, each in one of the stages of `IngestUplink.execute`:
check, put, count, report, upsert, answer.  The agent has one request under way
but stops waiting after ten seconds while the server goes on, so copies of a
batch can be in the server at once.  The agent stops when its source ends or it
is told to, after one last flush, in any boot, the last one included.  `Crash` may
come at any point; what is on disk stays.  Stamps begin again at each boot, because the source counts its
samples from zero and the epoch is a setting.  Every record weighs one unit of
the budget.  *StoreAndForward* is what the spool promises, on three variables:
records leave at the old end only, and only if the server has decided about
them or the disk is full.  `Uplink!BufferSpec` is the refinement.

**SlotStore.**  Two slots and a pointer.  A bundle arrives in the standby slot:
the model, then the manifest; it can break off after any write, the manifest
half written.  `activate` is three steps: read the manifest, check the model against it, replace
the pointer.  What a bundle must satisfy is reduced to "manifest and model belong
together"; `load_bundle`'s other rejections have the same effect.  Receiving and
activating are different processes without a lock, so they overlap freely; the
history `crossed` holds the slots that were pointed to by an activation during
which a bundle was on its way into the same slot.  The pointer file's rename is
taken to be atomic, as the code does.

## 3. The runs

| Run | Instance | What it shows |
|---|---|---|
| `rollout` | 3 devices, every list of up to 3 waves, the default and the laxest policy, 2 results, 6 events | `CanaryContains`: nobody outside the first wave is offered the version before the first wave has passed.  `ResultsFollowPlan`, `HaltExplained`, `ClosedIsClosed`, and `EventsTellTheRollout`: the events published or waiting for a commit name exactly the waves started, once and in order, and an end once, when it is reached. |
| `fleet_ota` | 2 devices, 2 rollouts, of which `r1`'s prefix takes in `r2` (`ro-1`, `ro-1-rollback`), whether `r2` is its recovery or planned by somebody; 2 threads on devices that run a version; one thread with every bad end of an execution; one thread on devices that run none, with one quarantine or promotion from outside | `CanaryContainsJobs`: the canary rule for the jobs at the service.  `OutcomesAreReal`: a recorded success or failure is what the device answered in some job the prefix takes in, and in the rollout's own job when the other names are its recoveries'.  `VersionWasInstalled`: what the fleet believes a device runs, it has answered for.  `AllSound`: the aggregate's invariant survives shared live objects and commits skipped by errors. |
| `uplink` | batches of 2, 2 server threads, disk of 4; *harsh*: budget 4, 4 samples, 2 boots, 1 loss, other reports of the device; *gentle*: ample budget, 5 samples in one boot that ends, 2 losses | `NoneSlipsThrough`, `BudgetOvershoot` (at most one batch per other request), `BufferSpec` (`Uplink` implements `StoreAndForward`), and `SpoolDrains`: a record stays on the disk for ever only when the agent rests (it has stopped, or its answers are no multiple of `uplink_every`) or the server refuses the head of the spool for ever. |
| `slots` | 3 versions, 4 moves of the pointer, receiving and activating in any order | `StartsForEver`: a device started once finds a whole bundle at every start, unless one was on its way into that slot while it was activated.  `SwitchLeavesWayBack`: every move leaves the bundle that ran whole in the other slot, with the same exception. |
| `dataset` | 2 threads; one sensor with time and label; two schemas, three plans, each measurement on both sides of what its judgement turns on | `ReadyIsComplete`, `CertificateIsCurrent`, `JudgedStays`: READY went the whole way of its policy, and nothing under way gets in behind a judgement. |
| `assessment` | 2 threads; the raw and the repaired file; two gate policies | `RepairsAreProved`: what passed rests on results newer than every repair, but for repairs a measurement already under way was taken to prove.  `GateHolds`: a certificate exists while a judgement stands and is what a policy makes of the results there are. |
| `training` | 2 threads, 2 ids, 2 objects; three requests for a series and one for images, of which some share a version name | `OneTrainer`, `TrainedStays`, `CertificateHolds`, `MeasuredOnItsNamesake`. |
| `optimization` | 2 threads, 1 run of either of two models, two labels, two results of a measurement, 2 trainings of the weights | `CertificateHolds`: a certificate is what a policy makes of the very table the run holds, each label once. |
| `operations` | 2 requests; two ids, the second asked for with a blank watch id or the first one's, each deployable again, 2 deployments, 4 versions of which the last two are rollbacks, 2 windows, 1 log record, 2 reports, 1 incident | `TimelineInOrder`, `IncidentsOnTheTimeline`, `RollbackRestores`, `QuarantineHolds`, and `WatchedUnderItsOwnId`: a deployment goes unwatched only for a blank or a shared watch id. |
| `device` | 6 samples over 2 boots, windows of 2, an hour of 3 samples; two labels that call with a confidence each, one that does not, one answer that is not confident; rules with and without dwell and cooldown, a model without alarm labels | `GateMatchesBatch`: of the judgements it is offered, the stream announces what the batch would, in time, label, confidence and number, and its closing bundle stands for as many at the same time.  `HeldBackIsInTheLedger`: what is confirmed is announced on a record of its own or held back in the gate's ledger.  `CountsAddUp`: counts are those of the last orderly end and this boot's own; a first boot always ends with its report. |
| `fleet_registry` | 2 devices, 2 versions, 1 build, 1 job, times up to 2, 6 calls | `NoOtherWayIn`: an isolated device is in a manifest only because it reported since, or was isolated after the build looked.  `NothingForgotten`, `FinishIsFinal`. |

One run is violated: what the repository says and the code does not do.

| Run | Property | In short |
|---|---|---|
| `uplink_overwrites` | `StoredStays` | "not one is thrown away" (edge-agent/README.md:119), but the agent sends no part number, so two batches that start in one hour have one key and the second replaces the first. |

**Why the bounds suffice.**  Three waves are the least with a wave that is
neither first nor last; two results are the least that can be out of order.  Two
threads are the least in which one request overtakes another; two rollouts the
least in which one recovers another or has a name that begins with the other's; two objects the least in which an id is
given again under a thread that holds the first (`optimization` has one: its
objects share nothing that the property reads, and several candidates in one
table say more).  Disk 4 with batches of 2 makes
the spool overflow while its head is on its way; two boots give the stamps a
second life; two server threads hold a batch and its retry.  Three versions are
the least with a rollback that has somewhere to go and something to skip; two
windows the least that can come in the wrong order.  An hour of three samples in
six lets the budget fill, bundle, and start again.  Every action of every module
fires within these bounds.

Deadlock checking is off where the bounds, a final status or an agent that is
not started again really end a behaviour.  Symmetry is used over threads,
devices and ids in runs without liveness only.

**Fairness** is assumed in `uplink` only (`FairSpec`): the agent's loop goes on
while it runs (`AgentSteps`; nobody need start it again), a request that is sent reaches
the server unless the line loses it, and a server thread finishes what it began
(`Serve(s)`).  Losses are not fair, they are bounded by `maxLost`: "when the
line comes back".  `GiveUp`, `LoseRequest`, `Crash` and `Stop` get no fairness:
an agent may stop for good, with records on its disk, and `SpoolDrains` says so.
The other contexts promise nothing in time: every step of theirs is a request
somebody may or may not make.

### Where the code does less than its words

Besides `StoredStays`, the models meet these sentences that the code does not
keep.  No run violates them: each property states exactly what the code leaves of
the promise, with the exception named in the property.

| Sentence | What the code does | Property |
|---|---|---|
| A repair is confirmed by measuring again only (assessment.py:5-8, :163-166) | A measurement that had read the file before the repair was recorded and returns after it clears `unverified` (:139), so a gate can be passed over a repair nobody measured. | `RepairsAreProved`, exception `late` |
| The data of a quarantined device is not trained on (device.py:40, docs/curriculum/6-4.md:67) | A report makes it HEALTHY (fleet.py:191); a device isolated after the build looked stays in the manifest (build_and_train.py:116). | `NoOtherWayIn`, exceptions `heard`, `late` |
| A deployment is watched from the moment it is deployed (deploy_model.py:92, watch.py:64) | The deployment is committed, then `WatchId.of` raises for a blank id (identifier.py:17-22); a watch is saved over another deployment's of the same id. | `WatchedUnderItsOwnId`, for ids neither blank nor shared |
| The same signals give the same result as `AlertGate` (alerting.py:374, edge-agent/README.md:41-44) | The closing bundle has the label and confidence of the last alert *emitted* (:517-521), the batch's those of the last one *held back* (:264-265); one signal alone was observed for 1 second (:480), or 3600 (:206).  Judgements that are not confident never reach the device's gate (agent.py:165-171) but do reach the backend's (pipeline_runner.py:129-142), so the streaks differ. | `GateMatchesBatch`: the signals the device offers, and not the closing bundle's label and confidence |
| Over the budget nothing is thrown away, it is put off to the next bundle (alerting.py:485) | The bundle of an hour that is over goes into the ledger, but `offer` returns the new alert (:498-507), so the agent announces the bundle on no record; nor the closing one (agent.py:195-198); and no one reads the ledger. | `HeldBackIsInTheLedger` |
| The state survives a power loss, and the next boot goes on from it (agent.py:15, :65-66) | Counts are written at an orderly stop only, so a boot that is cut loses its own; and a report after a restart may raise, because counts go back further than the windows of the boot (agent.py:290-291). | `CountsAddUp`: what is left of the counts, and reports of the first boot |
| When the line comes back, it is sent (store.py:4) | An agent whose source ends flushes once and leaves the rest on the disk (agent.py:190-196); between boots and between multiples of `uplink_every` it does not try; the head of the spool can be refused for ever. | `SpoolDrains`, exceptions `Resting`, `Blocked` |

### What else reading showed

Behaviour that a maintainer would want to know of, and that the models keep, but
that contradicts no sentence of the repository, or needs no model to be seen.

*Rollouts.*  `advance` asks for *a* result and inspects the last one, so after
one good wave later ones can be passed uncollected (rollout.py:479).  A wave
collected twice is counted twice in `coverage` (rollout.py:363).  A wave
committed before a rollback may be announced after the rollback's cancel, and
installed (release_and_rollout.py:343).  Jobs the service refuses to cancel
stay, and the rollback is committed as if they were gone
(iot_ota_gateway.py:111).  The gateway finds jobs by a prefix of their name
(:124-143), so a collect or a cancel of `ro-1` also reaches the jobs of
`ro-1-rollback`.  For a recovery that names itself so, `record_wave` refuses the
mistaken answer, because `ro-1` is rolled back by then (rollout.py:421); but a
rollout planned independently under such a name has its answers recorded for the
other one, and asking again to roll back `ro-1` cancels the queued jobs of its
recovery before `mark_rolled_back` raises.  The broken rollout is committed as
rolled back before the recovery is planned; if the plan raises, nothing
recovers it (:345).  A recovery for a version nobody reports goes to every
reachable device (:341).  `previous_version` may be the version itself (:140).
The rest of the targets becomes one last wave, of one device or of many (:465).
Promoting the current canary archives it while it is current (fleet.py:263).

*Fleet and training.*  The label distribution of a build counts devices the build
leaves out (build_and_train.py:105); the same build id replaces the manifest;
every poll of a finished job publishes its end again (:206).  A removed
endpoint leaves its model behind (sagemaker_endpoint.py:102).

*Line and device.*  A batch over the budget is answered 202 and the device
deletes it (store.py:185).  The number of dropped records is forgotten at a
restart while the number of answers is not (agent.py:319).  The last batch of a
registry row is the last to be *written* (ingest_uplink.py:112).  With the
agent's defaults one batch is sent per `uplink_every` answers, so a backlog
shrinks by `batch_size - uplink_every` records each time, and never when the
two are equal (agent.py:186).  A window compares only its first and last
segment.  A rollback of the slots activates whatever whole bundle is in the
other slot, also one that never ran (slots.py:104); receiving destroys the
previous version with its first byte (slots.py:80); what `activate` verified
can be overwritten before the pointer moves (`crossed` in `slots`).  After a
restart the alert gate starts empty.

*Contexts.*  Statistics may be fitted on a partition that has since been
replaced.  Two runs with one version name share weights
(torch_trainer.py:308).  Using the test split again is not counted
(protocol.py:145).  Starting an optimization run under a used id replaces it,
and a selection can be repeated without a reopen.  `bind` and `append` share one
"current deployment", so records of two devices can land in one log
(inference_log_store.py:37).  The release check never blocks
(deploy_model.py:79).  Deploying under a used id replaces a quarantined
deployment and its watch (deploy_model.py:82).  A window
seen again can open a second incident with the id of the first (watch.py:180).

## 4. The proofs

TLAPS checks these for every value of the constants, any number of threads,
objects and calls.

**Rollout** (`FleetOtaProofs`).  `RolloutInvariant`: `RolloutSpec => []RolloutIInv`;
from it `RolloutTypes`, `RolloutResultsFollowPlan`, `RolloutHaltExplained`,
`RolloutCanaryContains`, `RolloutEventsTell` and, as an action property,
`RolloutClosedIsClosed`.  `CanaryContains` is not inductive: it does not say why
a rollout past its first wave must have a result of it.  `Sound` adds what the
methods rely on: the waves are disjoint, not empty and not shrinking
(`PlanHolds`); the position is inside the plan while the rollout is open
(`PositionHolds`); results are about started waves in the plan's order
(`ResultsHold`), so the *last* result that `advance` inspects is about the first
wave when the position is 0; and then the policy that let it pass is the witness
(`CanaryHolds`).  The argument is laid out per method, first for the record
(`StartedKeeps`, `RecordedKeeps`, `AdvancedKeeps`, ...), so that any module that
uses the aggregate can cite it, then per action.  `EventsTellTheRollout` is
stated by the places of the events in `Told`, what was published followed by
what is pending, and is inductive beside `Sound`: a method adds an event at the
end only; the wave it names is new because the waves of a plan are disjoint and
not empty, and comes last because the position only grows; and `commit` moves
events from pending to published and leaves `Told` as it is.

**Rollout use cases** (`FleetOtaProofs`).  `OtaInvariant`; from it `OtaTypes`,
`RolloutsStaySound`, `CanaryBeforeJobs`, `RecordedIsReal` and
`HeldVersionsAreInstalled`.  What the properties lack is how jobs come about:
a device has a job only in a wave that has been started (`JobsAreOffered`), so
the canary rule for jobs follows from the one for the aggregate; a wave is
announced by one thread and before any device has a job of it (`AnnouncedOnce`),
so an announcement takes back no answer; a recovery is planned under an id that
nobody uses and no other recovery was given (`RecoveriesAreNew`); and what a
thread has heard was answered in a job the prefix takes in (`HeardIsReal`): in the
rollout's own while it is not rolled back and the other names are those of its
recoveries, because a recovery has jobs only after its rollout is rolled back
(`RecoveriesFollow`).  SUCCEEDED and FAILED stay, and a rolled-back rollout records
nothing, so what is recorded is real.  Nothing is assumed of the names but that an
id's prefix takes in its own jobs.  `AllSound` is the `...Keeps` lemmas of
the aggregate applied to a live record between other requests' calls, and
needs nothing of who committed what.

**Wave slicing** (`FleetOtaProofs`).  `SlicesAsAsked`: the loop of `_slice_waves`
comes to its closed form for any number of targets and any list of sizes, so every
target is in one wave.  The loop's state after k turns is what remains and the
waves that stand for the first k sizes; the induction over turns is that of the
alert gates, below.

**Uplink** (`EdgeProofs`).  `UplinkInvariant`; from it `UplinkTypes`,
`NothingSlipsThrough`, `OvershootIsBounded`, and `SpoolIsBuffer`: every step of
`Uplink` is a step of `StoreAndForward` or a stutter.  A request carries records
that were made, no more than a batch, and at least one until it is answered; the
records of a request that is past the store, or whose answer is a success, have
been decided about, so an agent that hears a success may drop its batch, also
when the batch is the second copy of one that was counted before.  For the
budget: of the requests that may still be charged to a day, one has seen room
for itself and for a batch of every other.  Of the installation it is assumed
that its numbers are numbers and that the server's threads are finitely many and
at least one.

**Slots** (`EdgeProofs`): `SlotInvariant`, `SlotTypes`, `SlotStartsForEver`,
`SlotSwitchLeavesWayBack`, with receiving and activating in any order.  The
strengthening says that what is being received goes where the pointer does not
point and that the manifest an activation has read is the one on the disk, each
unless the slot was crossed.

**Dataset** (`DatasetProofs`).  `DatasetInvariant`; from it `ReadyWentTheWay`,
`CertificateRestsOnReports` and, as an action property, `JudgementStays`.  A
policy asks for reports and never for what the reports are about; so the
invariant says that beyond PROFILED there is a schema and with a schema a
profile, that a report on labels, input contract or partition is kept only
beside its subject, and that a thread that waits for its labels to be measured
has left a label space behind.  An answer that comes after the judgement finds
`_guard_mutable` shut.

**Fleet** (`FleetRegistryProofs`): `IsolatedGetsInTwoWays`, `NeverEndsTwice`,
`NoVersionForgotten`.  A sweep rewrites the status of an isolated device only
into one that isolates as well, so whoever is isolated and has not reported since
has a status that keeps it out of a build that looks (`IsolationHolds`); a device
in a build's choice that is isolated when the manifest is written was therefore
heard of before the choice or isolated after it.  For the jobs the strengthening
ties what was told to the state the job is in; for the channels, the archive holds
what was pushed out.

**Assessment** (`AssessmentProofs`): `AssessmentInvariant`; from it
`PassedIsProved` and `GateRestsOnResults`.  What is stale and was not cleared by a
late measurement is among what the record calls unverified, and the gate lets
nothing unverified through; a judgement is taken away by whatever may change its
grounds, and nothing is measured or repaired under one.

**Training** (`TrainingProofs`): `NoneTrainsTwice`, `JudgementsHold`,
`MeasuredOnNamesakes`, `TrainingIsFinal`.  Three invariants: what a run in each
status holds, that a thread inside `train` holds a RUNNING object nobody else
trains, and that the registry leads a version name to a run whose name it is,
from which two runs with one name agree in data, kind and seed.

**Operations** (`OperationsProofs`): `NumbersStandForContents`,
`NothingReleasedInQuarantine`, `TimelineStaysInOrder`, `IncidentsStayTraced`,
`WatchedOnceAsked`.  Observations are recorded after a call, into a time line that
others have extended: the order holds because `record` compares with what is
there then, and an incident stays traced because the report that replaces
another one has its label.  `WatchedOnceAsked` assumes nothing of the watch ids:
an id that only one deployment was asked for with leads, once it leads anywhere, to
a watch of that deployment, whoever saves there.

**Optimization** (`OperationsProofs`).  `RunsInvariant` and `CertificatesHold`.
The table keeps its labels apart, since a candidate measured again takes the
place of the first; `select` is the one writer of the certificate and of the two
statuses that say there is one, and every method that changes the table raises
while it is there.  A conversion that ends late meets that guard.  `select`
itself may be repeated, and judges the table it finds.

**Device** (`DeviceProofs`).  `PipelineInvariant`; from it `DeviceCountsAddUp`,
`StreamMatchesBatch` and `HeldBackStaysInTheLedger`.  Its four parts are the
loop (`LoopInv`: bundle, builder, spool and index are what the code lets them be),
what was put on records (`ToldInv`: as many alerts as were confirmed and are
neither merged nor waiting, and `Paced`), the gate (`GateInv`) and the counts
(`CountsInv`: each sum with its parts, and in a first boot no more judgements than
windows tried, so that its report is built).

*The gate.*  The batch sorts its judgements, folds
them into alerts and folds the alerts again under the budget; the stream is a
state.  The invariant is `Agrees`: after the judgements so far the state *is*
the result of the two folds, field by field, but for the bundle of the hour that
still runs.  Its steps are what one judgement more adds to each fold
(`CandidatesMore`, `SpentByMore`, `MergedMore`) and what `offer` does to each
field of the gate (`OfferAgrees`); closing the gate adds a bundle of the batch's
time and number (`ClosedMatches`).  That the clock of a boot only goes forward (`Ordered`) makes the
sorting leave the judgements where they are (`InOrderStays`), and the pace follows
from how many alerts fall in the hour that runs and the one before it (`Paced`).
`BatchLosesNone` says the same of the batch by itself, for judgements that come
at different times: some stream leads to each such batch (`StreamExists`).

The community modules compute a fold by a function defined by itself on the sets
of places, of which the provers know nothing until it is shown that such a
function exists.  That is an induction over places; it is done without the
library's induction theorems, as membership: `UpTo` says that a set of places
that holds the first, and each place after one it holds, holds them all, and
`FoldExists` and `FoldRuns` give from it the run of values that a fold from the
left goes through.

Assumed: the named ASSUMEs of the modules (`RolloutAssumption`, `OtaAssumption`,
`UplinkAssumption`, `OperationsAssumption`, `PipelineAssumption`, ...: constants
are of their kind, an hourly budget is a whole number as `AlertRule` declares
it, alerting.py:52), which TLC evaluates on the runs.  No theorem has a hypothesis
of its own but those about operators.

**Only model-checked**: `SpoolDrains`, the one liveness property (`ENABLED` is
out of the prover's reach), and the assumptions about the pure policies, which are
evaluated over bounded inputs.

## 5. Not modelled

- *Engines*: pandas, torch and onnx code is a function of its input; what it
  counts (windows, splits, percentiles, structural sizes) is in the policies,
  what it computes numerically is any value.
- *HTTP*: routes and schemas have no state; what they choose (the default part
  number, 202 for a refusal, 422 for a raised rule, the pool of threads) is in
  the models.  The container only wires, sample data is data.
- *Wording*: messages, `render`, `describe`, history and logs are left out
  everywhere; nothing reads them back.
- *Switches inside a use case* that calls nobody, see section 2.
- *The registry row* of a device is written in `Uplink` but nothing is claimed
  of it: no decision in the repository reads it.
- *Events* of the contexts other than the rollout's and the end of a job: they
  are recorded with the change and nobody subscribes.
- *Power cuts inside a spool line*: `append` leaves half a line and
  `take_batch` then raises at every flush (store.py:58); a line is written whole
  or not at all in `Uplink`.

## 6. What is left

1. *Uplink*: the half-written line; several devices into one lake.
2. *Composition*: the certificates of one context as the gates of the next in
   one module, instead of gates found open or shut.
3. *Proofs*: every safety and action property that the passing runs check is
   proved.  What a fold computes can be reasoned about as in `DeviceProofs`, so
   the assumptions about the policies could become theorems next; the
   composition would bring new invariants.
