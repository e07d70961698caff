------------------------------ MODULE Rollout ------------------------------
(***************************************************************************)
(* One rollout under every sequence of method calls its callers can make.  *)
(* The callers choose the plan, the policy each call carries (the HTTP     *)
(* body does) and the outcomes the gateway collects.  After a call they    *)
(* may or may not reach `commit`, which takes the pending events and       *)
(* publishes them (application/fleet/support.py).                          *)
(***************************************************************************)
EXTENDS RolloutAggregate

CONSTANTS
  WavePlans,   \* the lists of waves callers ask for
  PoliciesInUse,    \* the policies requests carry
  MaxRecorded,  \* bound: wave results recorded
  MaxEvents    \* bound: events recorded (a halt and a resume can alternate)

ASSUME RolloutAssumption ==
  /\ WavePlans \subseteq Seq(SUBSET Device)
  /\ PoliciesInUse \subseteq RolloutPolicy
  /\ "none" \notin Version
  /\ MaxRecorded \in Nat
  /\ MaxEvents \in Nat

VARIABLES
  rollout,    \* the aggregate
  published   \* the events handed to the publisher, in order

rolloutVars == <<rollout, published>>

RolloutInit ==
  /\ \E waves \in WavePlans, policy \in PoliciesInUse,
        version \in Version, previous \in Version \cup {"none"} :
       /\ CanPlan(waves, policy)
       /\ rollout = Planned(version, previous, waves)
  /\ published = <<>>

Start ==
  /\ CanStart(rollout)
  /\ rollout' = Started(rollout)
  /\ UNCHANGED published

RecordWave ==
  /\ Len(rollout.results) < MaxRecorded
  /\ HasCurrentWave(rollout)
  /\ \E heard \in SUBSET CurrentWave(rollout), policy \in PoliciesInUse :
       \E outcomes \in [heard -> DeviceOutcome \ {"PENDING"}] :
         /\ CanRecord(rollout, outcomes)
         /\ rollout' = Recorded(rollout, outcomes, policy)
  /\ UNCHANGED published

Advance ==
  /\ \E policy \in PoliciesInUse : CanAdvance(rollout, policy)
  /\ rollout' = Advanced(rollout)
  /\ UNCHANGED published

Complete ==
  /\ CanComplete(rollout)
  /\ rollout' = Completed(rollout)
  /\ UNCHANGED published

Halt ==
  /\ Len(published) + Len(rollout.pending) < MaxEvents
  /\ CanHalt(rollout)
  /\ rollout' = Halted(rollout)
  /\ UNCHANGED published

Resume ==
  /\ CanResume(rollout)
  /\ rollout' = Resumed(rollout)
  /\ UNCHANGED published

MarkRolledBack ==
  /\ CanRollBack(rollout)
  /\ rollout' = RolledBack(rollout)
  /\ UNCHANGED published

Commit ==
  /\ rollout.pending # <<>>
  /\ published' = published \o rollout.pending
  /\ rollout' = Pulled(rollout)

RolloutNext ==
  \/ Start \/ RecordWave \/ Advance \/ Complete
  \/ Halt \/ Resume \/ MarkRolledBack \/ Commit

RolloutSpec == RolloutInit /\ [][RolloutNext]_rolloutVars

-----------------------------------------------------------------------------
(* The record has its type, and the position never runs past the end of    *)
(* the plan.                                                               *)
RolloutTypeOK ==
  /\ rollout \in RolloutRecord
  /\ rollout.current <= Len(rollout.waves)
  /\ published \in Seq(Event)

(* A canary that has not been seen to pass contains the rollout: a device  *)
(* outside the first wave is offered the new version only after the first  *)
(* wave has reported a result some policy in use lets through.             *)
(* (advance, and plan's "그만큼만 겪는다")                                  *)
CanaryContains ==
  Exposed(rollout) \subseteq rollout.waves[1] \/ CanaryPassed(rollout, PoliciesInUse)

(* "단계는 순서대로만 진행한다": the results kept are about waves of the    *)
(* plan in the order of the plan, and never about a wave that has not been *)
(* started (record_wave, advance).                                         *)
ResultsFollowPlan == ResultsHold(rollout)

(* A rollout that stopped by itself can always show why: the last result   *)
(* kept is about the wave it stopped in and some policy in use finds its   *)
(* failure rate too high.  Whatever goes on running carries no reason.     *)
HaltExplained == HaltHolds(rollout, PoliciesInUse)

(* What the outside has been told, or will be by the next commit.          *)
Told == published \o rollout.pending

Places(told, type) == {i \in DOMAIN told : told[i].type = type}

(* The WaveStarted events name the waves started and no other, each once   *)
(* and in the order they were started.                                     *)
TellsWaves(told, started) ==
  LET places == Places(told, "WaveStarted")
  IN  /\ \A i \in places : \E k \in DOMAIN started : told[i].wave = started[k]
      /\ \A k \in DOMAIN started : \E i \in places : told[i].wave = started[k]
      /\ \A i, j \in places : \A k, l \in DOMAIN started :
           (i < j /\ told[i].wave = started[k] /\ told[j].wave = started[l]) => k < l

(* The end is told once, and only an end that happened is told.            *)
TellsEnd(told, status) ==
  LET completed == Places(told, "RolloutCompleted")
      undone == Places(told, "RolloutRolledBack")
  IN  /\ \A i, j \in completed : i = j
      /\ \A i, j \in undone : i = j
      /\ status = "COMPLETED" => completed # {}
      /\ completed # {} => status \in {"COMPLETED", "ROLLED_BACK"}
      /\ undone # {} <=> status = "ROLLED_BACK"

(* What has been published, followed by what waits for the next commit,    *)
(* agrees with the aggregate, whatever is left uncommitted when a call     *)
(* raises: the WaveStarted events name exactly the waves started, once and *)
(* in order, and a completion or a rollback is there once, by the time it  *)
(* is reached and never before.  That a commit follows is not claimed.     *)
EventsTellTheRollout ==
  /\ TellsWaves(Told, StartedWaves(rollout))
  /\ TellsEnd(Told, rollout.status)

(* A closed rollout stays closed: once completed or rolled back, no result *)
(* is written, no device is newly offered the version, and the only way on *)
(* is a rollback.                                                          *)
ClosedIsClosed ==
  [][rollout.status \in {"COMPLETED", "ROLLED_BACK"} =>
       /\ rollout'.results = rollout.results
       /\ Exposed(rollout') = Exposed(rollout)
       /\ rollout'.status \in {rollout.status, "ROLLED_BACK"}]_rolloutVars

(* The inductive invariant: the type, every part of Sound, and the events  *)
(* beside the waves and the status they tell of.                           *)
RolloutIInv ==
  /\ RolloutTypeOK
  /\ Sound(rollout, PoliciesInUse)
  /\ EventsTellTheRollout
=============================================================================
