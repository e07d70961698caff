---------------------------- MODULE FleetRegistry ----------------------------
(***************************************************************************)
(* The fleet aggregate and what is built from it: devices that report and  *)
(* are swept, marked and isolated; datasets built from their uplinks;      *)
(* training jobs run by the remote service; releases published and         *)
(* promoted (domain/fleet/fleet.py, application/fleet/ingest_uplink.py,    *)
(* build_and_train.py, release_and_rollout.py).                            *)
(*                                                                         *)
(* Requests are served by a pool of threads.  A build chooses its devices  *)
(* and writes its manifest afterwards, and a stop asks the service twice,  *)
(* so another request may come in between; everything else a request does  *)
(* to the fleet is one step.  The training service is external: it moves   *)
(* its jobs through the states STATUS_MAP knows.                           *)
(***************************************************************************)
EXTENDS FleetPolicies

CONSTANTS
  Device,       \* the devices the fleet was created with
  Version,      \* the versions bundles carry
  Build, Job,   \* the ids requests give to builds and jobs
  Bundles,      \* the bundles offered for publishing
  Specs,        \* what is counted for a build, see Counts
  Computes,     \* the machines jobs are submitted for
  Policies,     \* the policies, one for each kind of request
  MaxTime,      \* bound: moments reports and sweeps can name
  MaxCalls      \* bound: requests that change something, in all

ASSUME RegistryAssumption ==
  /\ MaxTime \in Nat /\ MaxCalls \in Nat
  /\ \A b \in Bundles : IsBundle(b) /\ b.version \in Version /\ b.build \subseteq Build
  /\ \A c \in Computes : IsCompute(c)

VARIABLES
  devices,    \* the devices of the aggregate
  channels,   \* what is current on a channel, and what was
  lineage,    \* published version -> the build and the job it names
  building,   \* builds that are checked and about to be written
  store,      \* the manifests written
  remote,     \* the service: job -> its raw status
  finished,   \* TrainingJobFinished events: <<job, status>>
  calls       \* bound

\* History variables: what was ever current, which devices somebody isolated
\* and nobody marked otherwise since, and which of them have reported since.
VARIABLES everCurrent, isolated, heard

vars == <<devices, channels, lineage, building, store, remote, finished, calls, everCurrent, isolated, heard>>
fleetVars == <<devices, channels, lineage, everCurrent, isolated, heard>>
trainVars == <<building, store, remote, finished>>

Time == 1..MaxTime

Isolating == {"QUARANTINED", "RETIRED"}

RawStatus == {"InProgress", "Completed", "Failed", "Stopping", "Stopped"}

Init ==
  /\ devices = [d \in Device |-> [status |-> "HEALTHY", version |-> {}, seen |-> 0]]
  /\ channels = [canary |-> {}, stable |-> {}, archived |-> <<>>]
  /\ lineage = <<>>
  /\ building = {} /\ store = {} /\ remote = <<>> /\ finished = {}
  /\ calls = 0 /\ everCurrent = {} /\ isolated = {} /\ heard = {}

Called == calls < MaxCalls /\ calls' = calls + 1

---------------------------------------------------------------------------
(* Devices. *)

\* Fleet.report: a device that says something is HEALTHY, whatever it was.
CanReport(d, at) == devices[d].seen <= at

Reported(d, at, version) ==
  [status |-> "HEALTHY", seen |-> at,
   version |-> IF version = {} THEN devices[d].version ELSE version]

Report(d) ==
  /\ Called
  /\ \E at \in Time, version \in {{}} \union {{v} : v \in DOMAIN lineage} :
       /\ CanReport(d, at)
       /\ devices' = [devices EXCEPT ![d] = Reported(d, at, version)]
  /\ heard' = heard \union ({d} \cap isolated)
  /\ UNCHANGED <<channels, lineage, everCurrent, isolated>> /\ UNCHANGED trainVars

\* Builds under way remember, for the properties, who was isolated too late
\* for them.
Mark(d) ==
  /\ Called
  /\ \E status \in DeviceStatus :
       /\ devices' = [devices EXCEPT ![d].status = status]
       /\ isolated' = IF status \in Isolating THEN isolated \union {d} ELSE isolated \ {d}
       /\ building' = IF status \in Isolating THEN {[m EXCEPT !.late = @ \union {d}] : m \in building} ELSE building
  /\ heard' = heard \ {d}
  /\ UNCHANGED <<channels, lineage, everCurrent, store, remote, finished>>

\* Mutant: the sweep looks at the clock alone.
SweptAll(device, staleAfter, unreachableAfter) ==
  [device EXCEPT !.status = IF device.seen < unreachableAfter THEN "UNREACHABLE" ELSE "HEALTHY"]

\* A device that was isolated, or never reported, is left alone.
Swept(device, staleAfter, unreachableAfter) ==
  IF device.status \in Isolating \/ device.seen = 0 THEN device
  ELSE [device EXCEPT !.status =
          CASE device.seen < unreachableAfter -> "UNREACHABLE"
            [] device.seen >= unreachableAfter /\ device.seen < staleAfter -> "STALE"
            [] OTHER -> "HEALTHY"]

SweepStale ==
  /\ Called
  /\ \E staleAfter, unreachableAfter \in Time :
       devices' = [d \in Device |-> Swept(devices[d], staleAfter, unreachableAfter)]
  /\ UNCHANGED <<channels, lineage, everCurrent, isolated, heard>> /\ UNCHANGED trainVars

---------------------------------------------------------------------------
(* Releases. *)

Publish ==
  /\ Called
  /\ \E b \in Bundles, job \in {{}} \union {{j} : j \in Job} :
       /\ CanPublish(ReleaseFindings(Policies.release, b, Cardinality(Device)))
       /\ b.version \notin DOMAIN lineage
       /\ lineage' = Put(lineage, b.version, [build |-> b.build, job |-> job])
  /\ UNCHANGED <<devices, channels, everCurrent, isolated, heard>> /\ UNCHANGED trainVars

CanPromote(version, channel) ==
  /\ version \in DOMAIN lineage
  /\ channel = "STABLE" => channels.canary = {version}

Promote ==
  /\ Called
  /\ \E version \in Version, channel \in {"CANARY", "STABLE"} :
       /\ CanPromote(version, channel)
       /\ channels' = WithPromotion(channels, version, channel)
       /\ everCurrent' = everCurrent \union {version}
  /\ UNCHANGED <<devices, lineage, isolated, heard>> /\ UNCHANGED trainVars

---------------------------------------------------------------------------
(* Builds and jobs. *)

\* BuildTrainingDataset.execute up to the store: the devices that may be used
\* are looked up, the rest is excluded with its status for a reason.
ChooseDevices ==
  /\ Called
  /\ \E id \in Build, counts \in Specs, candidates \in SUBSET Device \ {{}} :
       LET included == {d \in candidates : IsTrainableSource(devices[d])}
           spec == [id |-> id, devices |-> SetToSeq(included),
                    excluded |-> [d \in candidates \ included |-> {devices[d].status}],
                    records |-> [d \in included |-> counts.records],
                    labelled |-> [d \in included |-> counts.labelled],
                    labels |-> counts.labels, labelOrder |-> counts.labelOrder]
       IN /\ IsBuildSpec(spec)
          /\ CanBuild(BuildFindings(Policies.build, spec))
          /\ building' = building \union {[id |-> id, devices |-> included, heard |-> heard, late |-> {}, isolated |-> {}]}
  /\ UNCHANGED fleetVars /\ UNCHANGED <<store, remote, finished>>

\* The manifest is written, whatever became of its devices; one that had the
\* id before is replaced.
WriteManifest ==
  /\ \E m \in building :
       /\ store' = {n \in store : n.id # m.id} \union {[m EXCEPT !.isolated = isolated]}
       /\ building' = building \ {m}
  /\ UNCHANGED fleetVars /\ UNCHANGED <<remote, finished, calls>>

\* SubmitTrainingJob.execute: not over the budget, and the service knows no
\* job of that name.
Submit ==
  /\ Called
  /\ \E id \in Job, compute \in Computes :
       LET planned == [id |-> id, dataset |-> {"uri"}, output |-> {"uri"}, compute |-> compute,
                       status |-> "PENDING", reason |-> {}, artifact |-> {}, metrics |-> <<>>]
       IN /\ IsTrainingJob(planned)
          /\ Blocking(SubmissionFindings(Policies.training, planned)) = {}
          /\ id \notin DOMAIN remote
          /\ remote' = Put(remote, id, "InProgress")
  /\ UNCHANGED fleetVars /\ UNCHANGED <<building, store, finished>>

\* Mutant: a job that is stopping counts as stopped.
StatusOfHasty(raw) ==
  CASE raw = "InProgress" -> "RUNNING"
    [] raw = "Completed" -> "SUCCEEDED"
    [] raw = "Failed" -> "FAILED"
    [] OTHER -> "STOPPED"

StatusOf(raw) ==
  CASE raw \in {"InProgress", "Stopping"} -> "RUNNING"
    [] raw = "Completed" -> "SUCCEEDED"
    [] raw = "Failed" -> "FAILED"
    [] raw = "Stopped" -> "STOPPED"
    [] OTHER -> "PENDING"

\* PollTrainingJob.execute: every poll of a job that is over tells so again.
Poll ==
  /\ \E id \in DOMAIN remote :
       /\ IsTerminal(StatusOf(remote[id]))
       /\ finished' = finished \union {<<id, StatusOf(remote[id])>>}
  /\ UNCHANGED fleetVars /\ UNCHANGED <<building, store, remote, calls>>

\* gateway.stop; that the service refuses is no error.
Stop ==
  /\ Called
  /\ \E id \in DOMAIN remote :
       remote' = [remote EXCEPT ![id] = IF @ = "InProgress" THEN "Stopping" ELSE @]
  /\ UNCHANGED fleetVars /\ UNCHANGED <<building, store, finished>>

\* The service: a job ends one way or another; one that is stopping may
\* still complete or fail first.
JobEnds ==
  /\ \E id \in DOMAIN remote :
       \/ /\ remote[id] \in {"InProgress", "Stopping"}
          /\ \E raw \in {"Completed", "Failed"} : remote' = [remote EXCEPT ![id] = raw]
       \/ /\ remote[id] = "Stopping"
          /\ remote' = [remote EXCEPT ![id] = "Stopped"]
  /\ UNCHANGED fleetVars /\ UNCHANGED <<building, store, finished, calls>>

Next ==
  \/ \E d \in Device : Report(d) \/ Mark(d)
  \/ SweepStale \/ Publish \/ Promote
  \/ ChooseDevices \/ WriteManifest \/ Submit \/ Poll \/ Stop \/ JobEnds

Spec == Init /\ [][Next]_vars

---------------------------------------------------------------------------
(* Properties. *)

\* A device that is isolated when a manifest is written is in it for one of
\* two reasons only: it had reported after it was isolated, before the build
\* looked (a report makes it HEALTHY, fleet.py:191), or it was isolated after
\* the build had looked.  No sweep, publication, promotion or other build
\* lets it in.  Both reasons are against device.py:40, the data of such a
\* device is not used for training, which the code does not keep.
NoOtherWayIn == \A m \in store : m.devices \cap m.isolated \subseteq m.heard \union m.late

\* Every version that ever was on a channel is on one or in the archive, and
\* nothing else is there (ModelChannels, fleet.py:263), the one that promotes
\* itself again included.
NothingForgotten ==
  everCurrent = channels.canary \union channels.stable \union ToSet(channels.archived)

\* However often a job is polled, and whatever races with its stop, it is
\* never told to have ended in two ways (TrainingJobFinished): a job that is
\* stopping counts as running (STATUS_MAP), as it may still complete.
FinishIsFinal == \A e, f \in finished : e[1] = f[1] => e[2] = f[2]

---------------------------------------------------------------------------
(* The inductive invariant of FleetRegistryProofs: who is isolated and has *)
(* not reported since still has the status that isolates.                  *)
IsolationHolds ==
  /\ \A d \in isolated \ heard : devices[d].status \in Isolating
  /\ \A m \in building : m.devices \cap isolated \subseteq m.heard \union m.late
  /\ NoOtherWayIn
=============================================================================
