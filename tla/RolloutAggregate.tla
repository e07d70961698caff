-------------------------- MODULE RolloutAggregate --------------------------
(***************************************************************************)
(* The Rollout aggregate root (domain/fleet/rollout.py) as operators on a  *)
(* record: for each method a predicate Can<Method>, its early returns      *)
(* negated, and the record it leaves behind.  Rollout.tla runs one         *)
(* aggregate under every caller; FleetOta.tla runs several of them under   *)
(* the use cases and the HTTP threads.                                     *)
(*                                                                         *)
(* A wave is its set of devices, a wave result the function from the       *)
(* devices of its wave to their outcomes.  Ratios are compared by cross    *)
(* multiplication with thresholds in percent.  Names, reasons, timestamps  *)
(* and the history log are left out: no method reads them back.  "none" is *)
(* the code's empty string.                                                *)
(***************************************************************************)
EXTENDS Integers, Sequences, FiniteSets

CONSTANTS
  Device,    \* the devices of the fleet
  Version    \* the version names releases are published under

DeviceOutcome == {"PENDING", "SUCCEEDED", "FAILED", "UNREACHABLE", "SKIPPED"}

RolloutStatus == {"PLANNED", "RUNNING", "HALTED", "COMPLETED", "ROLLED_BACK"}

WaveResult == UNION {[w -> DeviceOutcome] : w \in SUBSET Device}

(* RolloutPolicy: three thresholds in percent and the canary rule.  Every  *)
(* request carries its own policy.                                         *)
RolloutPolicy ==
  [maxFailure : Nat, minReported : Nat, maxUnreachable : Nat,
   canaryFirst : BOOLEAN, minCanary : Nat]

Event ==
  [type : {"RolloutPlanned", "WaveStarted", "RolloutHalted",
           "RolloutCompleted", "RolloutRolledBack"},
   wave : SUBSET Device]

RolloutRecord ==
  [version : Version, previous : Version \cup {"none"},
   waves : Seq(SUBSET Device), results : Seq(WaveResult),
   status : RolloutStatus, current : Nat,
   haltReason : {"none", "failures", "operator"},
   pending : Seq(Event)]

-----------------------------------------------------------------------------
(* WaveResult and RolloutPolicy.inspect                                    *)

Count(result, outcome) == Cardinality({d \in DOMAIN result : result[d] = outcome})

Reported(result) == Cardinality({d \in DOMAIN result : result[d] # "PENDING"})

Attempted(result) == Count(result, "SUCCEEDED") + Count(result, "FAILED")

WaveSize(result) == Cardinality(DOMAIN result)

Inspect(policy, result) ==
  {code \in {"OTA_FAILURE_RATE", "OTA_TOO_MANY_UNREACHABLE", "OTA_NOT_ENOUGH_REPORTED"} :
     \/ /\ code = "OTA_FAILURE_RATE"
        /\ 100 * Count(result, "FAILED") > policy.maxFailure * Attempted(result)
     \/ /\ code = "OTA_TOO_MANY_UNREACHABLE"
        /\ 100 * Count(result, "UNREACHABLE") > policy.maxUnreachable * WaveSize(result)
     \/ /\ code = "OTA_NOT_ENOUGH_REPORTED"
        /\ 100 * Reported(result) < policy.minReported * WaveSize(result)}

(* Too many unreachable devices is a WARNING, the other two are CRITICAL.  *)
Blocks(policy, result) ==
  Inspect(policy, result) \ {"OTA_TOO_MANY_UNREACHABLE"} # {}

ShouldHalt(policy, result) == "OTA_FAILURE_RATE" \in Inspect(policy, result)

-----------------------------------------------------------------------------
(* Rollout.plan                                                            *)

Targets(waves) == UNION {waves[i] : i \in DOMAIN waves}

CanaryLimit(policy, waves) ==
  LET tenth == Cardinality(Targets(waves)) \div 10
  IN  IF policy.minCanary > tenth THEN policy.minCanary ELSE tenth

CanPlan(waves, policy) ==
  /\ waves # <<>>
  /\ \A i \in DOMAIN waves : waves[i] # {}
  /\ \A i, j \in DOMAIN waves :
       i < j => Cardinality(waves[i]) <= Cardinality(waves[j])
  /\ policy.canaryFirst => Cardinality(waves[1]) <= CanaryLimit(policy, waves)
  /\ \A i, j \in DOMAIN waves : i # j => waves[i] \cap waves[j] = {}

RecordEvent(r, type, wave) ==
  [r EXCEPT !.pending = Append(@, [type |-> type, wave |-> wave])]

Planned(version, previous, waves) ==
  [version |-> version, previous |-> previous, waves |-> waves,
   results |-> <<>>, status |-> "PLANNED", current |-> 0, haltReason |-> "none",
   pending |-> <<[type |-> "RolloutPlanned", wave |-> {}]>>]

-----------------------------------------------------------------------------
(* Queries                                                                 *)

HasCurrentWave(r) == r.current < Len(r.waves)

CurrentWave(r) == r.waves[r.current + 1]

WaveOrNone(r) == IF HasCurrentWave(r) THEN CurrentWave(r) ELSE {}

-----------------------------------------------------------------------------
(* Methods                                                                 *)

CanStart(r) == r.status = "PLANNED"

Started(r) == RecordEvent([r EXCEPT !.status = "RUNNING"], "WaveStarted", r.waves[1])

(* Mutant: a result is taken in every status. *)
CanRecordAnyTime(r, outcomes) ==
  HasCurrentWave(r) /\ DOMAIN outcomes \subseteq CurrentWave(r)

CanRecord(r, outcomes) ==
  /\ r.status = "RUNNING"
  /\ HasCurrentWave(r)
  /\ DOMAIN outcomes \subseteq CurrentWave(r)

(* A device the caller says nothing about is PENDING.                      *)
Filled(r, outcomes) ==
  [d \in CurrentWave(r) |-> IF d \in DOMAIN outcomes THEN outcomes[d] ELSE "PENDING"]

(* Mutant: the newest result is kept first. *)
RecordedNewestFirst(r, outcomes, policy) ==
  [r EXCEPT !.results = <<Filled(r, outcomes)>> \o @]

Recorded(r, outcomes, policy) ==
  LET result == Filled(r, outcomes)
      kept == [r EXCEPT !.results = Append(@, result)]
  IN  IF ShouldHalt(policy, result)
      THEN RecordEvent([kept EXCEPT !.status = "HALTED", !.haltReason = "failures"],
                       "RolloutHalted", CurrentWave(r))
      ELSE kept

(* Mutants: the status, or the verdict on the last result, is not asked. *)
CanAdvanceAnyTime(r, policy) ==
  r.results # <<>> /\ ~ Blocks(policy, r.results[Len(r.results)])
CanAdvanceUnchecked(r, policy) == r.status = "RUNNING"

CanAdvance(r, policy) ==
  /\ r.status = "RUNNING"
  /\ r.results # <<>>
  /\ ~ Blocks(policy, r.results[Len(r.results)])

(* Mutant: the event names the wave that is left. *)
AdvancedNamingOld(r) ==
  RecordEvent([r EXCEPT !.current = @ + 1], "WaveStarted", CurrentWave(r))

(* advance: past the last wave the rollout is completed first and the      *)
(* exception raised afterwards, so the caller sees an error although the   *)
(* aggregate has moved (AdvanceRaises).                                    *)
Advanced(r) ==
  LET next == [r EXCEPT !.current = @ + 1]
  IN  IF HasCurrentWave(next)
      THEN RecordEvent(next, "WaveStarted", CurrentWave(next))
      ELSE RecordEvent([next EXCEPT !.status = "COMPLETED"], "RolloutCompleted", {})

AdvanceRaises(r) == ~ HasCurrentWave([r EXCEPT !.current = @ + 1])

CanComplete(r) == r.status = "RUNNING"

Completed(r) == RecordEvent([r EXCEPT !.status = "COMPLETED"], "RolloutCompleted", {})

CanHalt(r) == r.status = "RUNNING"

Halted(r) ==
  RecordEvent([r EXCEPT !.status = "HALTED", !.haltReason = "operator"],
              "RolloutHalted", WaveOrNone(r))

CanResume(r) == r.status = "HALTED"

(* Mutant: the reason outlives the halt. *)
ResumedWithReason(r) == [r EXCEPT !.status = "RUNNING"]

Resumed(r) == [r EXCEPT !.status = "RUNNING", !.haltReason = "none"]

CanRollBack(r) == r.status \in {"RUNNING", "HALTED", "COMPLETED"}

RolledBack(r) ==
  RecordEvent([r EXCEPT !.status = "ROLLED_BACK"], "RolloutRolledBack", {})

(* EventRecorder.pull_events: the caller takes the events, once.           *)
Pulled(r) == [r EXCEPT !.pending = <<>>]

(* The devices whose wave has been started: those the new version has been *)
(* offered to.                                                             *)
StartedWaves(r) ==
  IF r.status = "PLANNED" THEN <<>>
  ELSE SubSeq(r.waves, 1, IF HasCurrentWave(r) THEN r.current + 1 ELSE Len(r.waves))

Exposed(r) == Targets(StartedWaves(r))

-----------------------------------------------------------------------------
(* The inductive invariant of one aggregate, in named parts; `policies`    *)
(* are the policies requests carry.                                        *)

PlanHolds(r) ==
  /\ r.waves # <<>>
  /\ \A i \in DOMAIN r.waves : r.waves[i] # {}
  /\ \A i, j \in DOMAIN r.waves : i # j => r.waves[i] \cap r.waves[j] = {}

PositionHolds(r) ==
  /\ r.current <= Len(r.waves)
  /\ r.status \in {"PLANNED", "RUNNING", "HALTED"} => HasCurrentWave(r)
  /\ r.status = "PLANNED" => r.results = <<>> /\ r.current = 0

(* Results are about started waves, in the order of the plan.              *)
ResultsHold(r) ==
  /\ \A i \in DOMAIN r.results :
       \E k \in DOMAIN r.waves : k <= r.current + 1 /\ DOMAIN r.results[i] = r.waves[k]
  /\ \A i, j \in DOMAIN r.results : \A k, l \in DOMAIN r.waves :
       (/\ i < j
        /\ DOMAIN r.results[i] = r.waves[k]
        /\ DOMAIN r.results[j] = r.waves[l]) => k <= l

(* The rollout has left the first wave only behind a result of it that     *)
(* some policy lets through.                                               *)
CanaryPassed(r, policies) ==
  \E i \in DOMAIN r.results, policy \in policies :
    DOMAIN r.results[i] = r.waves[1] /\ ~ Blocks(policy, r.results[i])

CanaryHolds(r, policies) == r.current > 0 => CanaryPassed(r, policies)

(* A halt has its reason, and one the code chose has its evidence.         *)
HaltHolds(r, policies) ==
  /\ r.status \in {"PLANNED", "RUNNING", "COMPLETED"} => r.haltReason = "none"
  /\ r.status = "HALTED" => r.haltReason # "none"
  /\ (r.status = "HALTED" /\ r.haltReason = "failures") =>
       /\ r.results # <<>>
       /\ DOMAIN r.results[Len(r.results)] = CurrentWave(r)
       /\ \E policy \in policies : ShouldHalt(policy, r.results[Len(r.results)])

Sound(r, policies) ==
  /\ PlanHolds(r)
  /\ PositionHolds(r)
  /\ ResultsHold(r)
  /\ CanaryHolds(r, policies)
  /\ HaltHolds(r, policies)
=============================================================================
