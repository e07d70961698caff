------------------------------ MODULE FleetOta ------------------------------
(***************************************************************************)
(* Rollouts end to end: the use cases of                                   *)
(* application/fleet/release_and_rollout.py as the HTTP threads run them,  *)
(* the OTA service behind the gateway, and the devices that install.       *)
(*                                                                         *)
(* The handlers are plain functions, so FastAPI runs them in a pool of     *)
(* threads over repositories that hand out live objects.  A use case is    *)
(* cut where it calls out: before the gateway is read, before a job is     *)
(* announced and after jobs are cancelled, another thread may come in.     *)
(* What a use case does to its aggregate between two calls is one step.    *)
(*                                                                         *)
(* The fleet is kept to each device's status and version, its channels to  *)
(* what is stable; all versions are published.  The service is external    *)
(* and modelled as the gateway uses it: a job makes executions, a          *)
(* cancelled job takes back those nobody has begun.                        *)
(*                                                                         *)
(* A job is named "ota-{rollout}-{version}", and the gateway finds the     *)
(* jobs of a rollout by the prefix "ota-{rollout}-": those of "ro-1" are   *)
(* also those of "ro-1-rollback".  Which names begin with which is         *)
(* Namesakes.                                                              *)
(***************************************************************************)
EXTENDS RolloutAggregate, WaveSizes

CONSTANTS
  RolloutId,    \* the ids requests name rollouts by
  Namesakes,    \* of an id: the rollouts whose jobs its prefix takes in
  WaveLists,    \* the wave_sizes requests carry
  Policies,     \* the policies requests carry
  Statuses,     \* the statuses MarkDevice and the sweep put on devices
  Thread,       \* bound: requests at work at once
  MaxResults,   \* bound: results kept of one rollout
  Settings      \* the worlds a behaviour may start in, see Setting

(* What the service says of a device's execution; "none": it has none.     *)
Execution ==
  {"none", "QUEUED", "IN_PROGRESS", "SUCCEEDED", "FAILED", "REJECTED", "TIMED_OUT",
   "REMOVED", "CANCELED"}

(* The words an execution ends with when nothing gets installed.           *)
BadEnds == {"FAILED", "REJECTED", "TIMED_OUT", "REMOVED"}

(* A world: the version every device starts with, "none" for none; bound:  *)
(* the status changes and promotions still to come from outside; bound:    *)
(* how many requests may be under way at once; how installing may go wrong.*)
Setting ==
  [first : Version \cup {"none"}, marks : Nat, atOnce : Nat, ends : SUBSET BadEnds]

DeviceStatus == {"HEALTHY", "STALE", "UNREACHABLE", "QUARANTINED", "RETIRED"}

ASSUME OtaAssumption ==
  /\ Settings \subseteq Setting
  /\ Statuses \subseteq DeviceStatus
  /\ "none" \notin Version \cup RolloutId
  /\ Namesakes \in [RolloutId -> SUBSET RolloutId]
  /\ \A id \in RolloutId : id \in Namesakes[id]
  /\ WaveLists \subseteq Seq(Nat)
  /\ Policies \subseteq RolloutPolicy
  /\ MaxResults \in Nat

VARIABLES
  devices,    \* the fleet aggregate's devices: status and version
  stable,     \* the version on the stable channel
  rollouts,   \* the rollout repository
  exec,       \* the service: each rollout's execution for each device
  threads,    \* the requests being served
  setting,    \* the world, with the marks it has left
  origin      \* history: the rollout a recovery takes back, "none" for others

vars == <<devices, stable, rollouts, exec, threads, setting, origin>>

Idle == [op |-> "idle"]

(* A wave is committed and is about to be announced.                       *)
Announcing(id, wave) == [op |-> "announce", id |-> id, wave |-> wave]

Recording(id, outcomes) == [op |-> "record", id |-> id, outcomes |-> outcomes]

Recovering(id, new, target, affected) ==
  [op |-> "recover", id |-> id, new |-> new, target |-> target, affected |-> affected]

First == setting.first

Init ==
  /\ setting \in Settings
  /\ devices = [d \in Device |-> [status |-> "HEALTHY", version |-> First]]
  /\ stable = "none"
  /\ rollouts = <<>>
  /\ exec = [id \in RolloutId |-> [d \in Device |-> "none"]]
  /\ threads = [t \in Thread |-> Idle]
  /\ origin = [id \in RolloutId |-> "none"]

Known == DOMAIN rollouts

(* The ids no request has named yet: callers name a rollout once.          *)
Fresh ==
  RolloutId \ (Known \cup {threads[t].new : t \in {u \in Thread : threads[u].op = "recover"}})

Reachable == {d \in Device : devices[d].status \in {"HEALTHY", "STALE"}}

(* FleetSummary.dominant_version; a tie goes by registration order, which  *)
(* is not modelled.                                                        *)
Dominant ==
  LET On(v) == Cardinality({d \in Device : devices[d].version = v})
      real == {v \in Version : On(v) > 0}
  IN  IF real = {} THEN {"none"}
      ELSE {v \in real : \A w \in real : On(w) <= On(v)}

Previous == IF stable # "none" THEN {stable} ELSE Dominant

(* The ways the targets can be cut into waves, at most one wave more than  *)
(* the list has sizes; their order comes from the request's group_order.   *)
Cuts(targets, list) ==
  LET sizes == SlicedSizes(Cardinality(targets), list)
  IN  {waves \in UNION {[1 .. n -> SUBSET targets] : n \in 0 .. Len(list) + 1} :
         /\ Len(waves) = Len(sizes)
         /\ \A k \in DOMAIN waves : Cardinality(waves[k]) = sizes[k]
         /\ Targets(waves) = targets}

Saved(id, r) == [i \in Known \cup {id} |-> IF i = id THEN r ELSE rollouts[i]]

(* A thread is free, and the world lets one more request in.               *)
Free(t) ==
  /\ threads[t] = Idle
  /\ Cardinality({u \in Thread : threads[u] # Idle}) < setting.atOnce

Becomes(t, request) == threads' = [threads EXCEPT ![t] = request]

-----------------------------------------------------------------------------
(* The use cases                                                           *)

(* PlanRollout.execute up to its commit; ids are fresh, see the README.    *)
PlanRollout(t) ==
  /\ Free(t)
  /\ Reachable # {}
  /\ \E id \in Fresh, version \in Version, previous \in Previous,
        list \in WaveLists, policy \in Policies :
       \E waves \in Cuts(Reachable, list) :
         /\ CanPlan(waves, policy)
         /\ rollouts' = Saved(id, Pulled(Started(Planned(version, previous, waves))))
         /\ Becomes(t, Announcing(id, waves[1]))
  /\ UNCHANGED <<devices, stable, exec, setting, origin>>

(* Mutant: the job names every target of the rollout. *)
AnnounceAll(t) ==
  /\ threads[t].op = "announce"
  /\ exec' = [exec EXCEPT ![threads[t].id] =
       [d \in Device |->
          IF d \in Targets(rollouts[threads[t].id].waves) THEN "QUEUED" ELSE @[d]]]
  /\ Becomes(t, Idle)
  /\ UNCHANGED <<devices, stable, rollouts, setting, origin>>

(* OtaGateway.announce: a job for the devices of the wave.                 *)
Announce(t) ==
  /\ threads[t].op = "announce"
  /\ exec' = [exec EXCEPT ![threads[t].id] =
       [d \in Device |-> IF d \in threads[t].wave THEN "QUEUED" ELSE @[d]]]
  /\ Becomes(t, Idle)
  /\ UNCHANGED <<devices, stable, rollouts, setting, origin>>

(* The service refuses (all waves of a rollout share one job id): the      *)
(* request fails after its commit.                                         *)
AnnounceFails(t) ==
  /\ threads[t].op = "announce"
  /\ Becomes(t, Idle)
  /\ UNCHANGED <<devices, stable, rollouts, exec, setting, origin>>

(* Mutants: what nobody has answered counts as done; the service's words   *)
(* are taken for the domain's.                                             *)
OutcomeUntranslated(execution) == execution
OutcomeOptimist(execution) ==
  IF execution \in {"QUEUED", "IN_PROGRESS", "SUCCEEDED"} THEN "SUCCEEDED" ELSE "FAILED"

(* OUTCOME_MAP.                                                            *)
OutcomeOf(execution) ==
  CASE execution \in {"QUEUED", "IN_PROGRESS"} -> "PENDING"
    [] execution = "SUCCEEDED" -> "SUCCEEDED"
    [] execution \in {"FAILED", "REJECTED"} -> "FAILED"
    [] execution = "TIMED_OUT" -> "UNREACHABLE"
    [] execution \in {"REMOVED", "CANCELED"} -> "SKIPPED"

(* _outcome_of: the first execution the service lists for the device whose *)
(* job has the rollout's prefix, in whatever order it lists them; PENDING  *)
(* when it lists none or the call fails.                                   *)
Heard(id, d) ==
  {OutcomeOf(exec[i][d]) : i \in {j \in Namesakes[id] : exec[j][d] # "none"}}
    \cup {"PENDING"}

(* CollectWave.execute up to the gateway's answer.                         *)
Collect(t) ==
  /\ Free(t)
  /\ \E id \in Known :
       /\ HasCurrentWave(rollouts[id])
       /\ Len(rollouts[id].results) < MaxResults
       /\ \E outcomes \in [CurrentWave(rollouts[id]) -> UNION {Heard(id, d) : d \in Device}] :
            /\ \A d \in CurrentWave(rollouts[id]) : outcomes[d] \in Heard(id, d)
            /\ Becomes(t, Recording(id, outcomes))
  /\ UNCHANGED <<devices, stable, rollouts, exec, setting, origin>>

(* The rest of it, on the rollout as it is by then: a wave that has been   *)
(* left meanwhile has other devices, and record_wave raises.               *)
Record(t) ==
  /\ threads[t].op = "record"
  /\ LET id == threads[t].id
         outcomes == threads[t].outcomes
     IN  \/ /\ CanRecord(rollouts[id], outcomes)
            /\ \E policy \in Policies :
                 rollouts' = Saved(id, Pulled(Recorded(rollouts[id], outcomes, policy)))
         \/ /\ ~ CanRecord(rollouts[id], outcomes)
            /\ UNCHANGED rollouts
  /\ Becomes(t, Idle)
  /\ UNCHANGED <<devices, stable, exec, setting, origin>>

(* AdvanceRollout.execute up to its commit.  Past the last wave advance    *)
(* raises, and what it did stays uncommitted, its event with it.           *)
AdvanceRollout(t) ==
  /\ Free(t)
  /\ \E id \in Known, policy \in Policies :
       LET next == Advanced(rollouts[id])
       IN  /\ CanAdvance(rollouts[id], policy)
           /\ \/ /\ AdvanceRaises(rollouts[id])
                 /\ rollouts' = Saved(id, next)
                 /\ UNCHANGED threads
              \/ /\ ~ AdvanceRaises(rollouts[id])
                 /\ rollouts' = Saved(id, Pulled(next))
                 /\ Becomes(t, Announcing(id, CurrentWave(next)))
  /\ UNCHANGED <<devices, stable, exec, setting, origin>>

HaltRollout(t) ==
  /\ Free(t)
  /\ \E id \in Known :
       /\ CanHalt(rollouts[id])
       /\ rollouts' = Saved(id, Pulled(Halted(rollouts[id])))
  /\ UNCHANGED <<devices, stable, exec, threads, setting, origin>>

(* RollbackRollout.execute: who is taken back, and to what, is decided     *)
(* first; then the jobs with the rollout's prefix are cancelled: those the *)
(* service lists, none if it does not answer, less those it refuses to.    *)
Rollback(t) ==
  /\ Free(t)
  /\ \E id \in Known, new \in Fresh, asked \in Version \cup {"none"} :
       LET target == IF asked # "none" THEN asked ELSE rollouts[id].previous
           received == {d \in Reachable : devices[d].version = rollouts[id].version}
           affected == IF received # {} THEN received ELSE Reachable
       IN  /\ target # "none"
           /\ Becomes(t, Recovering(id, new, target, affected))
           /\ \E cancelled \in SUBSET (Namesakes[id] \cap Known) :
                exec' = [i \in RolloutId |-> [d \in Device |->
                  IF i \in cancelled /\ exec[i][d] = "QUEUED" THEN "CANCELED"
                  ELSE exec[i][d]]]
  /\ UNCHANGED <<devices, stable, rollouts, setting, origin>>

(* Then the old rollout is marked and committed, and only after that the   *)
(* recovery is planned: a plan that raises leaves a rollout that is rolled *)
(* back and nothing that rolls it back.                                    *)
Recover(t) ==
  LET request == threads[t]
      old == rollouts[request.id]
      marked == Pulled(RolledBack(old))
  IN  /\ request.op = "recover"
      /\ \/ /\ ~ CanRollBack(old)
            /\ Becomes(t, Idle)
            /\ UNCHANGED <<rollouts, origin>>
         \/ /\ CanRollBack(old)
            /\ \E list \in WaveLists, policy \in Policies :
                 \E waves \in Cuts(request.affected, list) :
                   \/ /\ ~ CanPlan(waves, policy)
                      /\ rollouts' = Saved(request.id, marked)
                      /\ Becomes(t, Idle)
                      /\ UNCHANGED origin
                   \/ /\ CanPlan(waves, policy)
                      /\ rollouts' =
                           [i \in Known \cup {request.new} |->
                              IF i = request.new
                              THEN Pulled(Started(Planned(request.target, old.version, waves)))
                              ELSE IF i = request.id THEN marked ELSE rollouts[i]]
                      /\ Becomes(t, Announcing(request.new, waves[1]))
                      /\ origin' = [origin EXCEPT ![request.new] = request.id]
      /\ UNCHANGED <<devices, stable, exec, setting>>

(* Mutant: every device a result names is reported. *)
ApplyAll(t) ==
  /\ Free(t)
  /\ \E id \in Known :
       devices' = [d \in Device |->
         IF \E i \in DOMAIN rollouts[id].results : d \in DOMAIN rollouts[id].results[i]
         THEN [status |-> "HEALTHY", version |-> rollouts[id].version]
         ELSE devices[d]]
  /\ UNCHANGED <<stable, rollouts, exec, threads, setting, origin>>

(* ApplyRolloutOutcomes.execute: each recorded success is reported to the  *)
(* fleet, which makes the device HEALTHY whatever it was.  A report that   *)
(* comes too early for one device raises, and the ones before it stay.     *)
Apply(t) ==
  /\ Free(t)
  /\ \E id \in Known :
       LET results == rollouts[id].results
           told == {d \in Device : \E i \in DOMAIN results :
                      d \in DOMAIN results[i] /\ results[i][d] = "SUCCEEDED"}
       IN  \E some \in SUBSET told :
             devices' = [d \in Device |->
               IF d \in some THEN [status |-> "HEALTHY", version |-> rollouts[id].version]
               ELSE devices[d]]
  /\ UNCHANGED <<stable, rollouts, exec, threads, setting, origin>>

-----------------------------------------------------------------------------
(* The outside                                                             *)

(* MarkDevice, or the sweep, which leaves quarantined and retired devices. *)
Mark ==
  /\ setting.marks > 0
  /\ setting' = [setting EXCEPT !.marks = @ - 1]
  /\ \E d \in Device, status \in Statuses :
       devices' = [devices EXCEPT ![d].status = status]
  /\ UNCHANGED <<stable, rollouts, exec, threads, origin>>

(* PromoteRelease to canary and then to stable.                            *)
Promote ==
  /\ setting.marks > 0
  /\ setting' = [setting EXCEPT !.marks = @ - 1]
  /\ \E version \in Version : stable' = version
  /\ UNCHANGED <<devices, rollouts, exec, threads, origin>>

(* A device takes up its execution, which can no longer be cancelled.      *)
Begin(d) ==
  /\ \E id \in Known :
       /\ exec[id][d] = "QUEUED"
       /\ exec' = [exec EXCEPT ![id][d] = "IN_PROGRESS"]
  /\ UNCHANGED <<devices, stable, rollouts, threads, setting, origin>>

Install(d) ==
  /\ \E id \in Known :
       /\ exec[id][d] = "IN_PROGRESS"
       /\ exec' = [exec EXCEPT ![id][d] = "SUCCEEDED"]
  /\ UNCHANGED <<devices, stable, rollouts, threads, setting, origin>>

(* It fails, it is refused, it times out, or it is taken away.             *)
NotInstalled(d) ==
  /\ \E id \in Known, outcome \in setting.ends :
       /\ exec[id][d] \in {"QUEUED", "IN_PROGRESS"}
       /\ exec' = [exec EXCEPT ![id][d] = outcome]
  /\ UNCHANGED <<devices, stable, rollouts, threads, setting, origin>>

UseCase(t) ==
  \/ PlanRollout(t) \/ Announce(t) \/ AnnounceFails(t) \/ Collect(t) \/ Record(t)
  \/ AdvanceRollout(t) \/ HaltRollout(t) \/ Rollback(t) \/ Recover(t) \/ Apply(t)

Next ==
  \/ \E t \in Thread : UseCase(t)
  \/ Mark \/ Promote
  \/ \E d \in Device : Begin(d) \/ Install(d) \/ NotInstalled(d)

Spec == Init /\ [][Next]_vars

-----------------------------------------------------------------------------
Request ==
  {Idle}
    \cup {Announcing(id, wave) : id \in RolloutId, wave \in SUBSET Device}
    \cup {Recording(id, outcomes) : id \in RolloutId, outcomes \in WaveResult}
    \cup {Recovering(id, new, target, affected) :
            id \in RolloutId, new \in RolloutId, target \in Version,
            affected \in SUBSET Device}

(* Types; a request names a rollout that is there.                         *)
TypeOK ==
  /\ setting \in Setting
  /\ devices \in [Device -> [status : DeviceStatus, version : Version \cup {First}]]
  /\ stable \in Version \cup {"none"}
  /\ \A id \in Known : id \in RolloutId /\ rollouts[id] \in RolloutRecord
  /\ exec \in [RolloutId -> [Device -> Execution]]
  /\ threads \in [Thread -> Request]
  /\ origin \in [RolloutId -> RolloutId \cup {"none"}]
  /\ \A t \in Thread : threads[t] # Idle => threads[t].id \in Known

(* Every rollout of the repository keeps the aggregate's invariant, with   *)
(* all threads on live objects and commits skipped by errors.              *)
AllSound == \A id \in Known : Sound(rollouts[id], Policies)

(* The canary rule where it counts: the service holds a job execution for  *)
(* a device outside the first wave only if the first wave has reported a   *)
(* result some policy in use lets through, whatever threads were between   *)
(* advance, commit and announce.                                           *)
CanaryContainsJobs ==
  \A id \in Known, d \in Device :
    exec[id][d] # "none" =>
      \/ d \in rollouts[id].waves[1]
      \/ CanaryPassed(rollouts[id], Policies)

(* What the service must have said for an outcome to be recorded.          *)
Says(outcome) == {e \in Execution \ {"none"} : OutcomeOf(e) = outcome}

(* The names the prefix of a rollout also takes in are its own recoveries, *)
(* as the repository names them ("ro-1", "ro-1-rollback").                 *)
NamesOwnOnly(id) == \A i \in (Namesakes[id] \ {id}) \cap Known : origin[i] = id

(* The device has answered so in a job the rollout's prefix takes in; in   *)
(* the rollout's own job when the other names are those of its recoveries. *)
Answered(id, d, outcome) ==
  /\ \E i \in Namesakes[id] : exec[i][d] \in Says(outcome)
  /\ NamesOwnOnly(id) => exec[id][d] \in Says(outcome)

(* What a rollout records as done or failed, the device has answered.  It  *)
(* is rolled back before its recovery has jobs, so a late answer about the *)
(* recovery is refused and not recorded for the version that failed; only  *)
(* a rollout planned under such a name is mistaken for it (CollectWave,    *)
(* IotJobsOtaGateway._outcome_of).                                         *)
OutcomesAreReal ==
  \A id \in Known : \A k \in DOMAIN rollouts[id].results :
    LET result == rollouts[id].results[k]
    IN  \A d \in DOMAIN result :
          result[d] \in {"SUCCEEDED", "FAILED"} => Answered(id, d, result[d])

(* "버전은 디바이스가 말하는 것을 믿는다": a version the fleet holds for a     *)
(* device is that of a rollout the device has answered for, never one it   *)
(* was only sent; it has installed it unless another rollout was planned   *)
(* under a name that begins with that rollout's (Fleet.report under        *)
(* ApplyRolloutOutcomes).                                                  *)
VersionWasInstalled ==
  \A d \in Device :
    devices[d].version # First =>
      \E id \in Known :
        rollouts[id].version = devices[d].version /\ Answered(id, d, "SUCCEEDED")
=============================================================================
