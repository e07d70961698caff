--------------------------- MODULE FleetOtaProofs ---------------------------
(***************************************************************************)
(* One rollout under any sequence of calls, and rollouts end to end, for   *)
(* every fleet, every set of rollouts, plans, policies and wave lists, any *)
(* number of threads and whatever the bounds.                              *)
(*                                                                         *)
(* First the methods of the aggregate.  The "Fields" lemmas say what a     *)
(* method leaves in each field; the "Keep" lemmas, which open no method,   *)
(* that it keeps an aggregate sound.  Then one rollout under any sequence  *)
(* of calls: RolloutIInv is inductive, and the safety properties of        *)
(* Rollout.tla that the aggregate's fields decide follow from it.          *)
(*                                                                         *)
(* Last the use cases: IInv is inductive under those of FleetOta.tla.  The *)
(* run's properties are not.  What carries them is how jobs come about: a  *)
(* device has a job only in a wave that has been started, a wave is        *)
(* announced by one thread and before anybody has taken it up, so an       *)
(* announcement never takes back an answer; and an answer, once given,     *)
(* stays, so what a thread has heard is still true when it is recorded.    *)
(* The gateway may have answered with the job of another rollout, whose    *)
(* name begins the same; where that is a recovery, the rollout it recovers *)
(* is rolled back before the recovery has jobs, and takes no result.       *)
(*                                                                         *)
(* At the end, that the loop of _slice_waves cuts as the request asks.     *)
(***************************************************************************)
EXTENDS FleetOta, Rollout, SequenceTheorems, WellFoundedInduction, TLAPS

EventType == {"RolloutPlanned", "WaveStarted", "RolloutHalted",
              "RolloutCompleted", "RolloutRolledBack"}

-----------------------------------------------------------------------------
(* A non-empty list of waves has a first wave, a set of devices.           *)
LEMMA FirstWave ==
  ASSUME NEW waves \in Seq(SUBSET Device), waves # <<>>
  PROVE  /\ Len(waves) \in Nat \ {0}
         /\ 1 \in DOMAIN waves
         /\ waves[1] \in SUBSET Device
<1>1. Len(waves) \in Nat \ {0} /\ DOMAIN waves = 1 .. Len(waves)
  BY EmptySeq, LenProperties
<1>2. QED
  BY <1>1, ElementOfSeq

(* What recording an event does to an aggregate: nothing but one more      *)
(* pending event.                                                          *)
LEMMA RecordEventFields ==
  ASSUME NEW r \in RolloutRecord, NEW type \in EventType, NEW wave \in SUBSET Device
  PROVE  /\ RecordEvent(r, type, wave) \in RolloutRecord
         /\ RecordEvent(r, type, wave).waves = r.waves
         /\ RecordEvent(r, type, wave).results = r.results
         /\ RecordEvent(r, type, wave).status = r.status
         /\ RecordEvent(r, type, wave).current = r.current
         /\ RecordEvent(r, type, wave).haltReason = r.haltReason
<1>1. [type |-> type, wave |-> wave] \in Event
  BY DEF Event, EventType
<1>2. Append(r.pending, [type |-> type, wave |-> wave]) \in Seq(Event)
  BY <1>1, AppendProperties DEF RolloutRecord
<1>3. QED
  BY <1>2 DEF RecordEvent, RolloutRecord

(* start moves the status and nothing the invariant reads.                 *)
LEMMA StartedFields ==
  ASSUME NEW r \in RolloutRecord, r.waves # <<>>
  PROVE  /\ Started(r) \in RolloutRecord
         /\ Started(r).waves = r.waves
         /\ Started(r).results = r.results
         /\ Started(r).status = "RUNNING"
         /\ Started(r).current = r.current
         /\ Started(r).haltReason = r.haltReason
<1> DEFINE s == [r EXCEPT !.status = "RUNNING"]
<1>1. r.waves[1] \in SUBSET Device
  <2>1. r.waves \in Seq(SUBSET Device)
    BY DEF RolloutRecord
  <2>2. QED  BY <2>1, FirstWave
<1>2. /\ s \in RolloutRecord
      /\ s.waves = r.waves /\ s.results = r.results /\ s.status = "RUNNING"
      /\ s.current = r.current /\ s.haltReason = r.haltReason
  BY DEF RolloutRecord, RolloutStatus
<1>3. Started(r) = RecordEvent(s, "WaveStarted", r.waves[1])
  BY DEF Started
<1> HIDE DEF s
<1>4. QED
  BY <1>1, <1>2, <1>3, RecordEventFields DEF EventType

(* record_wave appends the wave's result, and halts exactly when it must.  *)
LEMMA RecordedFields ==
  ASSUME NEW r \in RolloutRecord, NEW policy, NEW outcomes,
         \E heard \in SUBSET CurrentWave(r) : outcomes \in [heard -> DeviceOutcome],
         HasCurrentWave(r)
  PROVE  LET s == Recorded(r, outcomes, policy)
         IN  /\ s \in RolloutRecord
             /\ s.waves = r.waves
             /\ s.results = Append(r.results, Filled(r, outcomes))
             /\ s.current = r.current
             /\ IF ShouldHalt(policy, Filled(r, outcomes))
                THEN s.status = "HALTED" /\ s.haltReason = "failures"
                ELSE s.status = r.status /\ s.haltReason = r.haltReason
             /\ Filled(r, outcomes) \in WaveResult
             /\ DOMAIN Filled(r, outcomes) = CurrentWave(r)
<1> DEFINE result == Filled(r, outcomes)
           kept == [r EXCEPT !.results = Append(@, result)]
           halted == [kept EXCEPT !.status = "HALTED", !.haltReason = "failures"]
<1>1. CurrentWave(r) \in SUBSET Device
  <2>1. r.waves \in Seq(SUBSET Device) /\ r.current \in Nat
    BY DEF RolloutRecord
  <2>2. r.current + 1 \in 1 .. Len(r.waves)
    BY <2>1, LenProperties DEF HasCurrentWave
  <2>3. QED  BY <2>1, <2>2, ElementOfSeq DEF CurrentWave
<1>2. result \in [CurrentWave(r) -> DeviceOutcome]
  BY DEF Filled, DeviceOutcome
<1>3. result \in WaveResult /\ DOMAIN result = CurrentWave(r)
  BY <1>1, <1>2 DEF WaveResult
<1> HIDE DEF result
<1>4. Append(r.results, result) \in Seq(WaveResult)
  BY <1>3, AppendProperties DEF RolloutRecord
<1>5. /\ kept \in RolloutRecord
      /\ kept.waves = r.waves /\ kept.results = Append(r.results, result)
      /\ kept.status = r.status /\ kept.current = r.current
      /\ kept.haltReason = r.haltReason
  BY <1>4 DEF RolloutRecord
<1>6. /\ halted \in RolloutRecord
      /\ halted.waves = r.waves /\ halted.results = Append(r.results, result)
      /\ halted.status = "HALTED" /\ halted.current = r.current
      /\ halted.haltReason = "failures"
  <2> HIDE DEF kept
  <2>1. QED  BY <1>5 DEF RolloutRecord, RolloutStatus
<1>7. Recorded(r, outcomes, policy) =
        IF ShouldHalt(policy, result)
        THEN RecordEvent(halted, "RolloutHalted", CurrentWave(r)) ELSE kept
  BY DEF Recorded, result
<1> HIDE DEF kept, halted
<1>8. CASE ShouldHalt(policy, result)
  BY <1>1, <1>3, <1>6, <1>7, <1>8, RecordEventFields DEF EventType, result
<1>9. CASE ~ ShouldHalt(policy, result)
  BY <1>3, <1>5, <1>7, <1>9 DEF result
<1>10. QED  BY <1>8, <1>9

(* advance moves to the next wave, or completes past the last one.         *)
LEMMA AdvancedFields ==
  ASSUME NEW r \in RolloutRecord, HasCurrentWave(r)
  PROVE  LET s == Advanced(r)
         IN  /\ s \in RolloutRecord
             /\ s.waves = r.waves
             /\ s.results = r.results
             /\ s.current = r.current + 1
             /\ s.current <= Len(s.waves)
             /\ s.haltReason = r.haltReason
             /\ IF s.current < Len(s.waves)
                THEN s.status = r.status ELSE s.status = "COMPLETED"
<1> DEFINE next == [r EXCEPT !.current = @ + 1]
           done == [next EXCEPT !.status = "COMPLETED"]
<1>1. /\ next \in RolloutRecord
      /\ next.waves = r.waves /\ next.results = r.results
      /\ next.status = r.status /\ next.current = r.current + 1
      /\ next.haltReason = r.haltReason
  <2>1. r.current \in Nat
    BY DEF RolloutRecord
  <2>2. r.current + 1 \in Nat
    BY <2>1
  <2>3. QED  BY <2>2 DEF RolloutRecord
<1>2. /\ done \in RolloutRecord
      /\ done.waves = r.waves /\ done.results = r.results
      /\ done.status = "COMPLETED" /\ done.current = r.current + 1
      /\ done.haltReason = r.haltReason
  <2> HIDE DEF next
  <2>1. QED  BY <1>1 DEF RolloutRecord, RolloutStatus
<1>3. Advanced(r) = IF HasCurrentWave(next)
                    THEN RecordEvent(next, "WaveStarted", CurrentWave(next))
                    ELSE RecordEvent(done, "RolloutCompleted", {})
  BY DEF Advanced
<1> HIDE DEF next, done
<1>4. r.waves \in Seq(SUBSET Device) /\ r.current \in Nat /\ Len(r.waves) \in Nat
  BY LenProperties DEF RolloutRecord
<1>5. r.current + 1 <= Len(r.waves)
  BY <1>4 DEF HasCurrentWave
<1>6. CASE HasCurrentWave(next)
  <2>1. r.current + 1 < Len(r.waves)
    BY <1>1, <1>6 DEF HasCurrentWave
  <2>2. CurrentWave(next) \in SUBSET Device
    <3>1. r.current + 2 \in 1 .. Len(r.waves)
      BY <1>4, <2>1
    <3>2. CurrentWave(next) = r.waves[r.current + 2]
      BY <1>1, <1>4 DEF CurrentWave
    <3>3. QED  BY <1>4, <3>1, <3>2, ElementOfSeq
  <2>3. QED
    BY <1>1, <1>3, <1>5, <1>6, <2>1, <2>2, RecordEventFields DEF EventType
<1>7. CASE ~ HasCurrentWave(next)
  <2>1. ~ (r.current + 1 < Len(r.waves))
    BY <1>1, <1>7 DEF HasCurrentWave
  <2>2. {} \in SUBSET Device
    OBVIOUS
  <2>3. QED
    BY <1>2, <1>3, <1>5, <1>7, <2>1, <2>2, RecordEventFields DEF EventType
<1>8. QED  BY <1>6, <1>7

(* complete and mark_rolled_back move the status only.                     *)
LEMMA ClosingFields ==
  ASSUME NEW r \in RolloutRecord
  PROVE  /\ Completed(r) \in RolloutRecord
         /\ Completed(r).waves = r.waves
         /\ Completed(r).results = r.results
         /\ Completed(r).status = "COMPLETED"
         /\ Completed(r).current = r.current
         /\ Completed(r).haltReason = r.haltReason
         /\ RolledBack(r) \in RolloutRecord
         /\ RolledBack(r).waves = r.waves
         /\ RolledBack(r).results = r.results
         /\ RolledBack(r).status = "ROLLED_BACK"
         /\ RolledBack(r).current = r.current
         /\ RolledBack(r).haltReason = r.haltReason
<1> DEFINE done == [r EXCEPT !.status = "COMPLETED"]
           undone == [r EXCEPT !.status = "ROLLED_BACK"]
<1>1. /\ done \in RolloutRecord
      /\ done.waves = r.waves /\ done.results = r.results
      /\ done.status = "COMPLETED" /\ done.current = r.current
      /\ done.haltReason = r.haltReason
  BY DEF RolloutRecord, RolloutStatus
<1>2. /\ undone \in RolloutRecord
      /\ undone.waves = r.waves /\ undone.results = r.results
      /\ undone.status = "ROLLED_BACK" /\ undone.current = r.current
      /\ undone.haltReason = r.haltReason
  BY DEF RolloutRecord, RolloutStatus
<1>3. /\ Completed(r) = RecordEvent(done, "RolloutCompleted", {})
      /\ RolledBack(r) = RecordEvent(undone, "RolloutRolledBack", {})
  BY DEF Completed, RolledBack
<1> HIDE DEF done, undone
<1>4. {} \in SUBSET Device
  OBVIOUS
<1>5. QED
  BY <1>1, <1>2, <1>3, <1>4, RecordEventFields DEF EventType

(* halt and resume move the status and the reason together.                *)
LEMMA PausingFields ==
  ASSUME NEW r \in RolloutRecord
  PROVE  /\ Halted(r) \in RolloutRecord
         /\ Halted(r).waves = r.waves
         /\ Halted(r).results = r.results
         /\ Halted(r).status = "HALTED"
         /\ Halted(r).current = r.current
         /\ Halted(r).haltReason = "operator"
         /\ Resumed(r) \in RolloutRecord
         /\ Resumed(r).waves = r.waves
         /\ Resumed(r).results = r.results
         /\ Resumed(r).status = "RUNNING"
         /\ Resumed(r).current = r.current
         /\ Resumed(r).haltReason = "none"
<1> DEFINE stopped == [r EXCEPT !.status = "HALTED", !.haltReason = "operator"]
<1>1. /\ stopped \in RolloutRecord
      /\ stopped.waves = r.waves /\ stopped.results = r.results
      /\ stopped.status = "HALTED" /\ stopped.current = r.current
      /\ stopped.haltReason = "operator"
  BY DEF RolloutRecord, RolloutStatus
<1>2. WaveOrNone(r) \in SUBSET Device
  <2>1. CASE HasCurrentWave(r)
    <3>1. r.waves \in Seq(SUBSET Device) /\ r.current \in Nat
      BY DEF RolloutRecord
    <3>2. r.current + 1 \in 1 .. Len(r.waves)
      BY <2>1, <3>1, LenProperties DEF HasCurrentWave
    <3>3. QED  BY <2>1, <3>1, <3>2, ElementOfSeq DEF WaveOrNone, CurrentWave
  <2>2. CASE ~ HasCurrentWave(r)
    BY <2>2 DEF WaveOrNone
  <2>3. QED  BY <2>1, <2>2
<1>3. Halted(r) = RecordEvent(stopped, "RolloutHalted", WaveOrNone(r))
  BY DEF Halted
<1>4. /\ Resumed(r) \in RolloutRecord
      /\ Resumed(r).waves = r.waves /\ Resumed(r).results = r.results
      /\ Resumed(r).status = "RUNNING" /\ Resumed(r).current = r.current
      /\ Resumed(r).haltReason = "none"
  BY DEF Resumed, RolloutRecord, RolloutStatus
<1> HIDE DEF stopped
<1>5. /\ Halted(r) \in RolloutRecord
      /\ Halted(r).waves = r.waves /\ Halted(r).results = r.results
      /\ Halted(r).status = "HALTED" /\ Halted(r).current = r.current
      /\ Halted(r).haltReason = "operator"
  BY <1>1, <1>2, <1>3, RecordEventFields DEF EventType
<1>6. QED
  BY <1>4, <1>5

(* pull_events empties the pending events only.                            *)
LEMMA PulledFields ==
  ASSUME NEW r \in RolloutRecord
  PROVE  /\ Pulled(r) \in RolloutRecord
         /\ Pulled(r).waves = r.waves
         /\ Pulled(r).results = r.results
         /\ Pulled(r).status = r.status
         /\ Pulled(r).current = r.current
         /\ Pulled(r).haltReason = r.haltReason
  BY EmptySeq DEF Pulled, RolloutRecord

-----------------------------------------------------------------------------
(* plan leaves a sound aggregate behind.                                   *)
LEMMA PlannedKeeps ==
  ASSUME NEW version \in Version, NEW previous \in Version \cup {"none"},
         NEW waves \in Seq(SUBSET Device), NEW policies, NEW policy,
         CanPlan(waves, policy)
  PROVE  /\ Planned(version, previous, waves) \in RolloutRecord
         /\ Sound(Planned(version, previous, waves), policies)
<1> DEFINE r == Planned(version, previous, waves)
<1>1. [type |-> "RolloutPlanned", wave |-> {}] \in Event
  BY DEF Event
<1>2. <<[type |-> "RolloutPlanned", wave |-> {}]>> \in Seq(Event)
  BY <1>1
<1>3. /\ r \in RolloutRecord
      /\ r.waves = waves /\ r.results = <<>> /\ r.status = "PLANNED"
      /\ r.current = 0 /\ r.haltReason = "none"
  BY <1>2 DEF Planned, RolloutRecord, RolloutStatus
<1> HIDE DEF r
<1>4. PlanHolds(r)
  BY <1>3 DEF PlanHolds, CanPlan
<1>5. PositionHolds(r)
  BY <1>3, FirstWave DEF PositionHolds, HasCurrentWave, CanPlan
<1>6. ResultsHold(r)
  BY <1>3 DEF ResultsHold
<1>7. CanaryHolds(r, policies) /\ HaltHolds(r, policies)
  BY <1>3 DEF CanaryHolds, HaltHolds
<1>8. QED
  BY <1>3, <1>4, <1>5, <1>6, <1>7 DEF Sound, r

(* A method that keeps waves, results and position, and leaves the status  *)
(* open only where a wave is left, can upset nothing but the halt.         *)
LEMMA StatusOnlyKeeps ==
  ASSUME NEW r \in RolloutRecord, NEW s \in RolloutRecord, NEW policies,
         Sound(r, policies),
         s.waves = r.waves, s.results = r.results, s.current = r.current,
         s.status # "PLANNED",
         s.status \in {"RUNNING", "HALTED"} => HasCurrentWave(r),
         HaltHolds(s, policies)
  PROVE  Sound(s, policies)
<1>1. PlanHolds(s)
  BY DEF Sound, PlanHolds
<1>2. PositionHolds(s)
  BY DEF Sound, PositionHolds, HasCurrentWave
<1>3. ResultsHold(s)
  BY DEF Sound, ResultsHold
<1>4. CanaryHolds(s, policies)
  BY DEF Sound, CanaryHolds, CanaryPassed
<1>5. QED
  BY <1>1, <1>2, <1>3, <1>4 DEF Sound

(* start leaves a sound aggregate sound: the plan and the position stay.   *)
LEMMA StartedKeeps ==
  ASSUME NEW r \in RolloutRecord, NEW policies, Sound(r, policies), CanStart(r)
  PROVE  Started(r) \in RolloutRecord /\ Sound(Started(r), policies)
<1>1. r.waves # <<>> /\ HasCurrentWave(r) /\ r.haltReason = "none"
  BY DEF Sound, PlanHolds, PositionHolds, HaltHolds, CanStart
<1>2. HaltHolds(Started(r), policies)
  BY <1>1, StartedFields DEF HaltHolds
<1>3. QED
  BY <1>1, <1>2, StartedFields, StatusOnlyKeeps

(* Completing a running rollout, or rolling one back, keeps it sound.      *)
LEMMA ClosingKeeps ==
  ASSUME NEW r \in RolloutRecord, NEW policies, Sound(r, policies)
  PROVE  /\ CanComplete(r) => Completed(r) \in RolloutRecord /\ Sound(Completed(r), policies)
         /\ CanRollBack(r) => RolledBack(r) \in RolloutRecord /\ Sound(RolledBack(r), policies)
<1>1. ASSUME CanComplete(r)
      PROVE  Completed(r) \in RolloutRecord /\ Sound(Completed(r), policies)
  <2>1. HaltHolds(Completed(r), policies)
    BY <1>1, ClosingFields DEF Sound, HaltHolds, CanComplete
  <2>2. QED  BY <2>1, ClosingFields, StatusOnlyKeeps
<1>2. RolledBack(r) \in RolloutRecord /\ Sound(RolledBack(r), policies)
  <2>1. HaltHolds(RolledBack(r), policies)
    BY ClosingFields DEF HaltHolds
  <2>2. QED  BY <2>1, ClosingFields, StatusOnlyKeeps
<1>3. QED  BY <1>1, <1>2

(* Halting by hand writes a reason and resuming clears it: both keep the   *)
(* aggregate sound.                                                        *)
LEMMA PausingKeeps ==
  ASSUME NEW r \in RolloutRecord, NEW policies, Sound(r, policies)
  PROVE  /\ CanHalt(r) => Halted(r) \in RolloutRecord /\ Sound(Halted(r), policies)
         /\ CanResume(r) => Resumed(r) \in RolloutRecord /\ Sound(Resumed(r), policies)
<1>1. ASSUME CanHalt(r)
      PROVE  Halted(r) \in RolloutRecord /\ Sound(Halted(r), policies)
  <2>1. HasCurrentWave(r)
    BY <1>1 DEF CanHalt, Sound, PositionHolds
  <2>2. HaltHolds(Halted(r), policies)
    BY PausingFields DEF HaltHolds
  <2>3. QED  BY <2>1, <2>2, PausingFields, StatusOnlyKeeps
<1>2. ASSUME CanResume(r)
      PROVE  Resumed(r) \in RolloutRecord /\ Sound(Resumed(r), policies)
  <2>1. HasCurrentWave(r)
    BY <1>2 DEF CanResume, Sound, PositionHolds
  <2>2. HaltHolds(Resumed(r), policies)
    BY PausingFields DEF HaltHolds
  <2>3. QED  BY <2>1, <2>2, PausingFields, StatusOnlyKeeps
<1>3. QED  BY <1>1, <1>2

(* Taking the pending events touches nothing the invariant reads.          *)
LEMMA PulledKeeps ==
  ASSUME NEW r \in RolloutRecord, NEW policies, Sound(r, policies)
  PROVE  Pulled(r) \in RolloutRecord /\ Sound(Pulled(r), policies)
<1>1. Pulled(r) \in RolloutRecord
  BY PulledFields
<1>2. PlanHolds(Pulled(r)) /\ PositionHolds(Pulled(r))
  BY PulledFields DEF Sound, PlanHolds, PositionHolds, HasCurrentWave
<1>3. ResultsHold(Pulled(r))
  BY PulledFields DEF Sound, ResultsHold
<1>4. CanaryHolds(Pulled(r), policies)
  BY PulledFields DEF Sound, CanaryHolds, CanaryPassed
<1>5. HaltHolds(Pulled(r), policies)
  BY PulledFields DEF Sound, HaltHolds, CurrentWave
<1>6. QED
  BY <1>1, <1>2, <1>3, <1>4, <1>5 DEF Sound

(* Waves are non-empty and disjoint, so a wave is at one place of the plan. *)
LEMMA WavesDiffer ==
  ASSUME NEW r \in RolloutRecord, PlanHolds(r),
         NEW k \in DOMAIN r.waves, NEW l \in DOMAIN r.waves,
         r.waves[k] = r.waves[l]
  PROVE  k = l
  BY DEF PlanHolds

(* A new result is about the current wave: it comes last in plan order.    *)
LEMMA RecordedKeeps ==
  ASSUME NEW r \in RolloutRecord, NEW policies, NEW policy \in policies, NEW outcomes,
         \E heard \in SUBSET CurrentWave(r) : outcomes \in [heard -> DeviceOutcome],
         Sound(r, policies), CanRecord(r, outcomes)
  PROVE  /\ Recorded(r, outcomes, policy) \in RolloutRecord
         /\ Sound(Recorded(r, outcomes, policy), policies)
<1> DEFINE s == Recorded(r, outcomes, policy)
           result == Filled(r, outcomes)
           n == Len(r.results)
<1>1. HasCurrentWave(r) /\ r.status = "RUNNING" /\ r.haltReason = "none"
  BY DEF CanRecord, Sound, HaltHolds
<1>2. /\ s \in RolloutRecord
      /\ s.waves = r.waves
      /\ s.results = Append(r.results, result)
      /\ s.current = r.current
      /\ IF ShouldHalt(policy, result)
         THEN s.status = "HALTED" /\ s.haltReason = "failures"
         ELSE s.status = r.status /\ s.haltReason = r.haltReason
      /\ result \in WaveResult
      /\ DOMAIN result = CurrentWave(r)
  BY <1>1, RecordedFields
<1> HIDE DEF s, result
<1>3. r.waves \in Seq(SUBSET Device) /\ r.results \in Seq(WaveResult) /\ r.current \in Nat
  BY DEF RolloutRecord
<1>4. /\ n \in Nat /\ DOMAIN r.results = 1 .. n
      /\ Len(s.results) = n + 1 /\ DOMAIN s.results = 1 .. n + 1
      /\ \A i \in 1 .. n : s.results[i] = r.results[i]
      /\ s.results[n + 1] = result
      /\ s.results # <<>>
  <2>1. s.results \in Seq(WaveResult)
    BY <1>2, <1>3, AppendProperties
  <2>2. QED
    BY <1>2, <1>3, <2>1, AppendProperties, LenProperties
<1> HIDE DEF n
<1>5. r.current + 1 \in DOMAIN r.waves /\ CurrentWave(r) = r.waves[r.current + 1]
  BY <1>1, <1>3, LenProperties DEF HasCurrentWave, CurrentWave
<1>6. PlanHolds(s)
  BY <1>2 DEF Sound, PlanHolds
<1>7. PositionHolds(s)
  BY <1>1, <1>2 DEF Sound, PositionHolds, HasCurrentWave
<1>8. ResultsHold(s)
  <2>1. ASSUME NEW i \in DOMAIN s.results
        PROVE  \E k \in DOMAIN s.waves : k <= s.current + 1 /\ DOMAIN s.results[i] = s.waves[k]
    <3>1. CASE i = n + 1
      BY <1>2, <1>3, <1>4, <1>5, <3>1
    <3>2. CASE i \in 1 .. n
      BY <1>2, <1>4, <3>2 DEF Sound, ResultsHold
    <3>3. QED  BY <1>4, <3>1, <3>2
  <2>2. ASSUME NEW i \in DOMAIN s.results, NEW j \in DOMAIN s.results,
               NEW k \in DOMAIN s.waves, NEW l \in DOMAIN s.waves,
               i < j, DOMAIN s.results[i] = s.waves[k], DOMAIN s.results[j] = s.waves[l]
        PROVE  k <= l
    <3>1. i \in 1 .. n
      BY <1>4, <2>2
    <3>2. CASE j \in 1 .. n
      BY <1>2, <1>4, <2>2, <3>1, <3>2 DEF Sound, ResultsHold
    <3>3. CASE j = n + 1
      <4>1. l = r.current + 1
        BY <1>2, <1>4, <1>5, <2>2, <3>3, WavesDiffer DEF Sound
      <4>2. PICK m \in DOMAIN r.waves : m <= r.current + 1 /\ DOMAIN r.results[i] = r.waves[m]
        BY <1>4, <3>1 DEF Sound, ResultsHold
      <4>3. k = m
        BY <1>2, <1>4, <2>2, <3>1, <4>2, WavesDiffer DEF Sound
      <4>4. QED  BY <4>1, <4>2, <4>3
    <3>4. QED  BY <1>4, <3>2, <3>3
  <2>3. QED  BY <2>1, <2>2 DEF ResultsHold
<1>9. CanaryHolds(s, policies)
  <2>1. SUFFICES ASSUME s.current > 0 PROVE CanaryPassed(s, policies)
    BY DEF CanaryHolds
  <2>2. PICK i \in DOMAIN r.results, p \in policies :
          DOMAIN r.results[i] = r.waves[1] /\ ~ Blocks(p, r.results[i])
    BY <1>2, <2>1 DEF Sound, CanaryHolds, CanaryPassed
  <2>3. i \in DOMAIN s.results /\ s.results[i] = r.results[i]
    BY <1>4
  <2>4. QED  BY <1>2, <2>2, <2>3 DEF CanaryPassed
<1>10. HaltHolds(s, policies)
  <2>1. CASE ShouldHalt(policy, result)
    <3>1. s.results[Len(s.results)] = result
      BY <1>4
    <3>2. CurrentWave(s) = CurrentWave(r)
      BY <1>2 DEF CurrentWave
    <3>3. QED  BY <1>2, <1>4, <2>1, <3>1, <3>2 DEF HaltHolds
  <2>2. CASE ~ ShouldHalt(policy, result)
    BY <1>1, <1>2, <2>2 DEF HaltHolds
  <2>3. QED  BY <2>1, <2>2
<1>11. QED
  BY <1>2, <1>6, <1>7, <1>8, <1>9, <1>10 DEF Sound, s

(* Leaving a wave: the result that lets the rollout leave the first wave   *)
(* is about the first wave, because none about a later one exists yet.     *)
LEMMA AdvancedKeeps ==
  ASSUME NEW r \in RolloutRecord, NEW policies, NEW policy \in policies,
         Sound(r, policies), CanAdvance(r, policy)
  PROVE  Advanced(r) \in RolloutRecord /\ Sound(Advanced(r), policies)
<1> DEFINE s == Advanced(r)
<1>1. HasCurrentWave(r) /\ r.status = "RUNNING" /\ r.haltReason = "none" /\ r.results # <<>>
  BY DEF CanAdvance, Sound, PositionHolds, HaltHolds
<1>2. /\ s \in RolloutRecord
      /\ s.waves = r.waves
      /\ s.results = r.results
      /\ s.current = r.current + 1
      /\ s.current <= Len(s.waves)
      /\ s.haltReason = r.haltReason
      /\ IF s.current < Len(s.waves)
         THEN s.status = r.status ELSE s.status = "COMPLETED"
  BY <1>1, AdvancedFields
<1> HIDE DEF s
<1>3. r.waves \in Seq(SUBSET Device) /\ r.results \in Seq(WaveResult) /\ r.current \in Nat
  BY DEF RolloutRecord
<1>4. PlanHolds(s)
  BY <1>2 DEF Sound, PlanHolds
<1>5. PositionHolds(s)
  BY <1>1, <1>2 DEF PositionHolds, HasCurrentWave
<1>6. ResultsHold(s)
  <2>1. ASSUME NEW i \in DOMAIN s.results
        PROVE  \E k \in DOMAIN s.waves : k <= s.current + 1 /\ DOMAIN s.results[i] = s.waves[k]
    <3>1. PICK k \in DOMAIN r.waves : k <= r.current + 1 /\ DOMAIN r.results[i] = r.waves[k]
      BY <1>2 DEF Sound, ResultsHold
    <3>2. k <= s.current + 1
      BY <1>2, <1>3, <3>1, LenProperties
    <3>3. QED  BY <1>2, <3>1, <3>2
  <2>2. QED  BY <1>2, <2>1 DEF Sound, ResultsHold
<1>7. CanaryPassed(s, policies)
  <2>1. CASE r.current = 0
    <3> DEFINE n == Len(r.results)
    <3>1. n \in DOMAIN r.results
      BY <1>1, <1>3, EmptySeq, LenProperties
    <3>2. PICK k \in DOMAIN r.waves : k <= 1 /\ DOMAIN r.results[n] = r.waves[k]
      BY <2>1, <3>1 DEF Sound, ResultsHold
    <3>3. k = 1
      BY <1>3, <3>2, LenProperties
    <3>4. ~ Blocks(policy, r.results[n])
      BY DEF CanAdvance
    <3>5. QED  BY <1>2, <3>1, <3>2, <3>3, <3>4 DEF CanaryPassed
  <2>2. CASE r.current > 0
    BY <1>2, <2>2 DEF Sound, CanaryHolds, CanaryPassed
  <2>3. QED  BY <1>3, <2>1, <2>2
<1>8. HaltHolds(s, policies)
  BY <1>1, <1>2 DEF HaltHolds
<1>9. QED
  BY <1>2, <1>4, <1>5, <1>6, <1>7, <1>8 DEF Sound, CanaryHolds, s

-----------------------------------------------------------------------------
(* An event as RecordEvent writes it.                                      *)
EventOf(type, wave) == [type |-> type, wave |-> wave]

(* Telling one event more adds its place to those of its type, and moves   *)
(* no other.                                                               *)
LEMMA OneEventMore ==
  ASSUME NEW told \in Seq(Event), NEW e \in Event
  PROVE  /\ Len(told) \in Nat
         /\ \A type : Places(told, type) \subseteq 1 .. Len(told)
         /\ \A i \in 1 .. Len(told) : Append(told, e)[i] = told[i]
         /\ Append(told, e)[Len(told) + 1] = e
         /\ \A type : Places(Append(told, e), type) =
              IF e.type = type THEN Places(told, type) \cup {Len(told) + 1}
              ELSE Places(told, type)
<1>1. /\ Len(told) \in Nat
      /\ DOMAIN told = 1 .. Len(told)
      /\ Append(told, e) \in Seq(Event)
      /\ Len(Append(told, e)) = Len(told) + 1
      /\ \A i \in 1 .. Len(told) : Append(told, e)[i] = told[i]
      /\ Append(told, e)[Len(told) + 1] = e
  BY LenProperties, AppendProperties
<1>2. DOMAIN Append(told, e) = 1 .. Len(told) + 1
  BY <1>1, LenProperties
<1>3. ASSUME NEW type
      PROVE  Places(Append(told, e), type) =
               IF e.type = type THEN Places(told, type) \cup {Len(told) + 1}
               ELSE Places(told, type)
  BY <1>1, <1>2 DEF Places
<1>4. \A type : Places(told, type) \subseteq 1 .. Len(told)
  BY <1>1 DEF Places
<1>5. QED
  BY <1>1, <1>3, <1>4

(* An event that starts no wave tells nothing new of the waves.            *)
LEMMA TellsWavesStays ==
  ASSUME NEW told \in Seq(Event), NEW e \in Event, NEW started,
         e.type # "WaveStarted", TellsWaves(told, started)
  PROVE  TellsWaves(Append(told, e), started)
<1> DEFINE longer == Append(told, e)
           places == Places(told, "WaveStarted")
<1>1. Places(longer, "WaveStarted") = places /\ \A i \in places : longer[i] = told[i]
  BY OneEventMore
<1>2. /\ \A i \in places : \E k \in DOMAIN started : told[i].wave = started[k]
      /\ \A k \in DOMAIN started : \E i \in places : told[i].wave = started[k]
      /\ \A i, j \in places : \A k, l \in DOMAIN started :
           (i < j /\ told[i].wave = started[k] /\ told[j].wave = started[l]) => k < l
  BY DEF TellsWaves
<1> HIDE DEF longer, places
<1>3. \A i \in places : \E k \in DOMAIN started : longer[i].wave = started[k]
  BY <1>1, <1>2
<1>4. \A k \in DOMAIN started : \E i \in places : longer[i].wave = started[k]
  BY <1>1, <1>2
<1>5. \A i, j \in places : \A k, l \in DOMAIN started :
        (i < j /\ longer[i].wave = started[k] /\ longer[j].wave = started[l]) => k < l
  BY <1>1, <1>2
<1>6. TellsWaves(longer, started)
  BY <1>1, <1>3, <1>4, <1>5, Zenon DEF TellsWaves
<1>7. QED
  BY <1>6 DEF longer

(* Starting one wave more, and telling of it, keeps the two in step: it is *)
(* the last one told, and no wave started before is the same.              *)
LEMMA TellsWavesGrows ==
  ASSUME NEW told \in Seq(Event), NEW e \in Event,
         NEW started \in Seq(SUBSET Device), NEW longer \in Seq(SUBSET Device),
         e.type = "WaveStarted", TellsWaves(told, started),
         Len(longer) = Len(started) + 1,
         \A k \in 1 .. Len(started) : longer[k] = started[k],
         longer[Len(longer)] = e.wave,
         \A k \in 1 .. Len(started) : started[k] # e.wave
  PROVE  TellsWaves(Append(told, e), longer)
<1> DEFINE says == Append(told, e)
           places == Places(told, "WaveStarted")
           n == Len(told)
           m == Len(started)
<1>1. /\ n \in Nat /\ places \subseteq 1 .. n
      /\ Places(says, "WaveStarted") = places \cup {n + 1}
      /\ says[n + 1] = e
      /\ \A i \in places : says[i] = told[i]
  BY OneEventMore
<1>2. m \in Nat /\ DOMAIN started = 1 .. m /\ DOMAIN longer = 1 .. m + 1
  BY LenProperties
<1>3. /\ \A i \in places : \E k \in 1 .. m : told[i].wave = started[k]
      /\ \A k \in 1 .. m : \E i \in places : told[i].wave = started[k]
      /\ \A i, j \in places : \A k, l \in 1 .. m :
           (i < j /\ told[i].wave = started[k] /\ told[j].wave = started[l]) => k < l
  BY <1>2 DEF TellsWaves
<1>4. /\ \A k \in 1 .. m : longer[k] = started[k] /\ started[k] # e.wave
      /\ longer[m + 1] = e.wave
  OBVIOUS
<1> HIDE DEF says, places, n, m
<1>5. \A i \in places \cup {n + 1} : \E k \in DOMAIN longer : says[i].wave = longer[k]
  <2>1. ASSUME NEW i \in places PROVE \E k \in DOMAIN longer : says[i].wave = longer[k]
    <3>1. PICK k \in 1 .. m : told[i].wave = started[k]
      BY <1>3
    <3>2. k \in DOMAIN longer
      BY <1>2
    <3>3. QED  BY <1>1, <1>4, <3>1, <3>2
  <2>2. m + 1 \in DOMAIN longer
    BY <1>2
  <2>3. QED  BY <1>1, <1>4, <2>1, <2>2
<1>6. \A k \in DOMAIN longer : \E i \in places \cup {n + 1} : says[i].wave = longer[k]
  <2>1. ASSUME NEW k \in 1 .. m PROVE \E i \in places : says[i].wave = longer[k]
    BY <1>1, <1>3, <1>4
  <2>2. QED  BY <1>1, <1>2, <1>4, <2>1
<1>7. ASSUME NEW i \in places \cup {n + 1}, NEW j \in places \cup {n + 1},
             NEW k \in DOMAIN longer, NEW l \in DOMAIN longer,
             i < j, says[i].wave = longer[k], says[j].wave = longer[l]
      PROVE  k < l
  <2>1. i \in places
    BY <1>1, <1>7
  <2>2. k \in 1 .. m
    <3>1. PICK x \in 1 .. m : told[i].wave = started[x]
      BY <1>3, <2>1
    <3>2. longer[k] # e.wave
      BY <1>1, <1>4, <1>7, <2>1, <3>1
    <3>3. QED  BY <1>2, <1>4, <3>2
  <2>3. CASE j \in places
    <3>1. PICK x \in 1 .. m : told[j].wave = started[x]
      BY <1>3, <2>3
    <3>2. longer[l] # e.wave
      BY <1>1, <1>4, <1>7, <2>3, <3>1
    <3>3. l \in 1 .. m
      BY <1>2, <1>4, <3>2
    <3>4. QED
      BY <1>1, <1>3, <1>4, <1>7, <2>1, <2>2, <2>3, <3>3
  <2>4. CASE j = n + 1
    <3>1. l \notin 1 .. m
      BY <1>1, <1>4, <1>7, <2>4
    <3>2. QED  BY <1>2, <2>2, <3>1
  <2>5. QED  BY <2>3, <2>4
<1>8. QED
  BY <1>1, <1>5, <1>6, <1>7 DEF TellsWaves, says

(* An event that tells of no end leaves what is told of the end alone,     *)
(* where the status keeps to the same side of it.                          *)
LEMMA TellsEndStays ==
  ASSUME NEW told \in Seq(Event), NEW e \in Event, NEW status, NEW next,
         e.type \notin {"RolloutCompleted", "RolloutRolledBack"},
         TellsEnd(told, status),
         next = status \/ {status, next} \cap {"COMPLETED", "ROLLED_BACK"} = {}
  PROVE  TellsEnd(Append(told, e), next)
<1>1. /\ Places(Append(told, e), "RolloutCompleted") = Places(told, "RolloutCompleted")
      /\ Places(Append(told, e), "RolloutRolledBack") = Places(told, "RolloutRolledBack")
  BY OneEventMore
<1>2. QED
  BY <1>1 DEF TellsEnd

(* A completion is told the first time it is reached.                      *)
LEMMA TellsEndCompletes ==
  ASSUME NEW told \in Seq(Event), NEW e \in Event, NEW status,
         e.type = "RolloutCompleted", TellsEnd(told, status),
         status \notin {"COMPLETED", "ROLLED_BACK"}
  PROVE  TellsEnd(Append(told, e), "COMPLETED")
<1>1. /\ Places(Append(told, e), "RolloutCompleted")
           = Places(told, "RolloutCompleted") \cup {Len(told) + 1}
      /\ Places(Append(told, e), "RolloutRolledBack") = Places(told, "RolloutRolledBack")
  BY OneEventMore
<1>2. Places(told, "RolloutCompleted") = {} /\ Places(told, "RolloutRolledBack") = {}
  BY DEF TellsEnd
<1>3. QED
  BY <1>1, <1>2 DEF TellsEnd

(* A rollback is told once, and a completion told before it stays told.    *)
LEMMA TellsEndRollsBack ==
  ASSUME NEW told \in Seq(Event), NEW e \in Event, NEW status,
         e.type = "RolloutRolledBack", TellsEnd(told, status),
         status # "ROLLED_BACK"
  PROVE  TellsEnd(Append(told, e), "ROLLED_BACK")
<1>1. /\ Places(Append(told, e), "RolloutCompleted") = Places(told, "RolloutCompleted")
      /\ Places(Append(told, e), "RolloutRolledBack")
           = Places(told, "RolloutRolledBack") \cup {Len(told) + 1}
  BY OneEventMore
<1>2. Places(told, "RolloutRolledBack") = {}
  BY DEF TellsEnd
<1>3. QED
  BY <1>1, <1>2 DEF TellsEnd

(* What is pending is told after what is published, in the order recorded. *)
LEMMA ToldGrows ==
  ASSUME NEW sent \in Seq(Event), NEW waiting \in Seq(Event), NEW e \in Event
  PROVE  /\ sent \o waiting \in Seq(Event)
         /\ sent \o Append(waiting, e) = Append(sent \o waiting, e)
<1>1. Append(waiting, e) = waiting \o <<e>> /\ <<e>> \in Seq(Event)
  BY AppendIsConcat
<1>2. sent \o waiting \in Seq(Event)
  BY ConcatProperties
<1>3. Append(sent \o waiting, e) = (sent \o waiting) \o <<e>>
  BY <1>2, AppendIsConcat
<1>4. (sent \o waiting) \o <<e>> = sent \o (waiting \o <<e>>)
  BY <1>1, ConcatAssociative
<1>5. QED
  BY <1>1, <1>2, <1>3, <1>4

(* The events a method records, each the last of what is pending.          *)
LEMMA MethodsRecord ==
  ASSUME NEW r \in RolloutRecord
  PROVE  /\ Started(r).pending = Append(r.pending, EventOf("WaveStarted", r.waves[1]))
         /\ Completed(r).pending = Append(r.pending, EventOf("RolloutCompleted", {}))
         /\ Halted(r).pending = Append(r.pending, EventOf("RolloutHalted", WaveOrNone(r)))
         /\ Resumed(r).pending = r.pending
         /\ RolledBack(r).pending = Append(r.pending, EventOf("RolloutRolledBack", {}))
         /\ Pulled(r).pending = <<>>
  BY DEF RolloutRecord, Started, Completed, Halted, Resumed, RolledBack, Pulled,
         RecordEvent, EventOf

(* record_wave records a halt of its own and nothing else.                 *)
LEMMA RecordedRecords ==
  ASSUME NEW r \in RolloutRecord, NEW policy, NEW outcomes
  PROVE  Recorded(r, outcomes, policy).pending =
           IF ShouldHalt(policy, Filled(r, outcomes))
           THEN Append(r.pending, EventOf("RolloutHalted", CurrentWave(r)))
           ELSE r.pending
<1> DEFINE result == Filled(r, outcomes)
           kept == [r EXCEPT !.results = Append(@, result)]
           halted == [kept EXCEPT !.status = "HALTED", !.haltReason = "failures"]
<1>1. kept.pending = r.pending /\ DOMAIN kept = DOMAIN r
  BY DEF RolloutRecord
<1>2. halted.pending = r.pending /\ "pending" \in DOMAIN halted
  <2> HIDE DEF kept
  <2>1. QED  BY <1>1 DEF RolloutRecord
<1>3. Recorded(r, outcomes, policy) =
        IF ShouldHalt(policy, result)
        THEN RecordEvent(halted, "RolloutHalted", CurrentWave(r)) ELSE kept
  BY DEF Recorded
<1> HIDE DEF result, kept, halted
<1>4. RecordEvent(halted, "RolloutHalted", CurrentWave(r)).pending
        = Append(r.pending, EventOf("RolloutHalted", CurrentWave(r)))
  BY <1>2 DEF RecordEvent, EventOf
<1>5. QED
  BY <1>1, <1>3, <1>4 DEF result

(* advance records the wave it starts, or past the last one the completion. *)
LEMMA AdvancedRecords ==
  ASSUME NEW r \in RolloutRecord
  PROVE  Advanced(r).pending =
           IF r.current + 1 < Len(r.waves)
           THEN Append(r.pending, EventOf("WaveStarted", r.waves[r.current + 2]))
           ELSE Append(r.pending, EventOf("RolloutCompleted", {}))
<1> DEFINE next == [r EXCEPT !.current = @ + 1]
           done == [next EXCEPT !.status = "COMPLETED"]
<1>1. /\ next.pending = r.pending /\ DOMAIN next = DOMAIN r
      /\ next.waves = r.waves /\ next.current = r.current + 1
  BY DEF RolloutRecord
<1>2. done.pending = r.pending /\ "pending" \in DOMAIN done /\ "pending" \in DOMAIN next
  <2> HIDE DEF next
  <2>1. QED  BY <1>1 DEF RolloutRecord
<1>3. Advanced(r) = IF HasCurrentWave(next)
                    THEN RecordEvent(next, "WaveStarted", CurrentWave(next))
                    ELSE RecordEvent(done, "RolloutCompleted", {})
  BY DEF Advanced
<1> HIDE DEF next, done
<1>4. r.current \in Nat
  BY DEF RolloutRecord
<1>5. /\ HasCurrentWave(next) <=> r.current + 1 < Len(r.waves)
      /\ CurrentWave(next) = r.waves[r.current + 2]
  BY <1>1, <1>4 DEF HasCurrentWave, CurrentWave
<1>6. /\ RecordEvent(next, "WaveStarted", CurrentWave(next)).pending
           = Append(r.pending, EventOf("WaveStarted", CurrentWave(next)))
      /\ RecordEvent(done, "RolloutCompleted", {}).pending
           = Append(r.pending, EventOf("RolloutCompleted", {}))
  BY <1>1, <1>2 DEF RecordEvent, EventOf
<1>7. QED
  BY <1>3, <1>5, <1>6

(* The waves started so far are the first ones of the plan.                *)
LEMMA StartedAreFirst ==
  ASSUME NEW r \in RolloutRecord, Sound(r, PoliciesInUse)
  PROVE  /\ StartedWaves(r) \in Seq(SUBSET Device)
         /\ Len(StartedWaves(r)) =
              IF r.status = "PLANNED" THEN 0
              ELSE IF HasCurrentWave(r) THEN r.current + 1 ELSE Len(r.waves)
         /\ Len(StartedWaves(r)) <= Len(r.waves)
         /\ \A k \in 1 .. Len(StartedWaves(r)) : StartedWaves(r)[k] = r.waves[k]
<1>1. /\ r.waves \in Seq(SUBSET Device) /\ r.current \in Nat /\ Len(r.waves) \in Nat
      /\ \A k \in 1 .. Len(r.waves) : r.waves[k] \in SUBSET Device
  BY LenProperties, ElementOfSeq DEF RolloutRecord
<1> DEFINE n == IF HasCurrentWave(r) THEN r.current + 1 ELSE Len(r.waves)
<1>2. n \in 0 .. Len(r.waves)
  BY <1>1 DEF HasCurrentWave
<1>3. CASE r.status = "PLANNED"
  BY <1>1, <1>3, EmptySeq DEF StartedWaves
<1>4. CASE r.status # "PLANNED"
  <2>1. StartedWaves(r) = SubSeq(r.waves, 1, n)
    BY <1>4 DEF StartedWaves
  <2> HIDE DEF n
  <2>2. /\ SubSeq(r.waves, 1, n) \in Seq(SUBSET Device)
        /\ Len(SubSeq(r.waves, 1, n)) = n
        /\ \A k \in 1 .. n : SubSeq(r.waves, 1, n)[k] = r.waves[k]
    <3>1. \A k \in 1 .. n : r.waves[k] \in SUBSET Device
      BY <1>1, <1>2
    <3>2. 1 \in Int /\ n \in Int
      BY <1>2
    <3>3. /\ SubSeq(r.waves, 1, n) \in Seq(SUBSET Device)
          /\ Len(SubSeq(r.waves, 1, n)) = IF 1 <= n THEN n - 1 + 1 ELSE 0
          /\ \A k \in 1 .. n - 1 + 1 : SubSeq(r.waves, 1, n)[k] = r.waves[1 + k - 1]
      BY <3>1, <3>2, SubSeqProperties
    <3>4. QED  BY <1>2, <3>3
  <2>3. QED  BY <1>2, <1>4, <2>1, <2>2 DEF n
<1>5. QED  BY <1>3, <1>4

(* The events keep telling the rollout when it starts no wave and ends     *)
(* nothing: no event, or one about neither.                                *)
LEMMA TellsSame ==
  ASSUME EventsTellTheRollout, rollout \in RolloutRecord, published \in Seq(Event),
         StartedWaves(rollout') = StartedWaves(rollout),
         \/ rollout'.status = rollout.status
         \/ {rollout.status, rollout'.status} \cap {"COMPLETED", "ROLLED_BACK"} = {},
         \/ Told' = Told
         \/ \E e \in Event : /\ Told' = Append(Told, e)
                             /\ e.type \notin {"WaveStarted", "RolloutCompleted",
                                               "RolloutRolledBack"}
  PROVE  EventsTellTheRollout'
<1>1. Told \in Seq(Event)
  BY ConcatProperties DEF Told, RolloutRecord
<1>2. TellsWaves(Told, StartedWaves(rollout)) /\ TellsEnd(Told, rollout.status)
  BY DEF EventsTellTheRollout
<1>3. CASE Told' = Told
  <2>1. TellsEnd(Told, rollout'.status)
    BY <1>2 DEF TellsEnd
  <2>2. QED  BY <1>2, <1>3, <2>1 DEF EventsTellTheRollout
<1>4. CASE \E e \in Event : /\ Told' = Append(Told, e)
                            /\ e.type \notin {"WaveStarted", "RolloutCompleted",
                                              "RolloutRolledBack"}
  <2>1. PICK e \in Event : /\ Told' = Append(Told, e)
                           /\ e.type \notin {"WaveStarted", "RolloutCompleted",
                                             "RolloutRolledBack"}
    BY <1>4
  <2>2. TellsWaves(Told', StartedWaves(rollout'))
    BY <1>1, <1>2, <2>1, TellsWavesStays
  <2>3. TellsEnd(Told', rollout'.status)
    BY <1>1, <1>2, <2>1, TellsEndStays
  <2>4. QED  BY <2>2, <2>3 DEF EventsTellTheRollout
<1>5. QED  BY <1>3, <1>4

(* What a method records goes to the end of what the outside is told.      *)
LEMMA ToldByRecording ==
  ASSUME NEW e \in Event, rollout \in RolloutRecord, published \in Seq(Event),
         published' = published, rollout'.pending = Append(rollout.pending, e)
  PROVE  Told' = Append(Told, e)
<1>1. rollout.pending \in Seq(Event)
  BY DEF RolloutRecord
<1>2. QED  BY <1>1, ToldGrows DEF Told

(* The plan is told as a plan and nothing else (Rollout.plan).             *)
LEMMA PlanTells == ASSUME RolloutInit PROVE EventsTellTheRollout
<1>1. /\ rollout.pending = <<[type |-> "RolloutPlanned", wave |-> {}]>>
      /\ rollout.status = "PLANNED" /\ published = <<>>
  <2>1. PICK waves \in WavePlans, policy \in PoliciesInUse,
             version \in Version, previous \in Version \cup {"none"} :
          rollout = Planned(version, previous, waves)
    BY DEF RolloutInit
  <2>2. QED  BY <2>1 DEF RolloutInit, Planned
<1>2. <<[type |-> "RolloutPlanned", wave |-> {}]>> \in Seq(Event)
  <2>1. [type |-> "RolloutPlanned", wave |-> {}] \in Event
    BY DEF Event
  <2>2. QED  BY <2>1
<1>3. Told = <<[type |-> "RolloutPlanned", wave |-> {}]>>
  BY <1>1, <1>2, ConcatEmptySeq DEF Told
<1>4. \A type \in {"WaveStarted", "RolloutCompleted", "RolloutRolledBack"} :
        Places(Told, type) = {}
  BY <1>3 DEF Places
<1>5. StartedWaves(rollout) = <<>>
  BY <1>1 DEF StartedWaves
<1>6. TellsWaves(Told, <<>>)
  BY <1>4 DEF TellsWaves
<1>7. TellsEnd(Told, "PLANNED")
  BY <1>4 DEF TellsEnd
<1>8. QED
  BY <1>1, <1>5, <1>6, <1>7 DEF EventsTellTheRollout

(* Starting the wave after those started so far, with the event that names *)
(* it (start, advance).                                                    *)
LEMMA TellsNextWave ==
  ASSUME EventsTellTheRollout, published \in Seq(Event),
         rollout \in RolloutRecord, Sound(rollout, PoliciesInUse),
         rollout' \in RolloutRecord, Sound(rollout', PoliciesInUse),
         published' = published, rollout'.waves = rollout.waves,
         {rollout.status, rollout'.status} \cap {"COMPLETED", "ROLLED_BACK"} = {},
         Len(StartedWaves(rollout')) = Len(StartedWaves(rollout)) + 1,
         rollout'.pending =
           Append(rollout.pending,
                  EventOf("WaveStarted", rollout.waves[Len(StartedWaves(rollout'))]))
  PROVE  EventsTellTheRollout'
<1> DEFINE old == StartedWaves(rollout)
           new == StartedWaves(rollout')
           n == Len(old)
           e == EventOf("WaveStarted", rollout.waves[n + 1])
<1>1. /\ old \in Seq(SUBSET Device) /\ n \in Nat
      /\ \A k \in 1 .. n : old[k] = rollout.waves[k]
  BY StartedAreFirst, LenProperties
<1>2. /\ new \in Seq(SUBSET Device) /\ Len(new) = n + 1 /\ n + 1 <= Len(rollout.waves)
      /\ \A k \in 1 .. n + 1 : new[k] = rollout.waves[k]
  BY StartedAreFirst
<1>3. /\ rollout.waves \in Seq(SUBSET Device) /\ Len(rollout.waves) \in Nat
      /\ DOMAIN rollout.waves = 1 .. Len(rollout.waves)
  BY LenProperties DEF RolloutRecord
<1>4. rollout.waves[n + 1] \in SUBSET Device
  BY <1>1, <1>2, <1>3, ElementOfSeq
<1>5. /\ e \in Event /\ e.type = "WaveStarted" /\ e.wave = rollout.waves[n + 1]
      /\ e.type \notin {"RolloutCompleted", "RolloutRolledBack"}
  BY <1>4 DEF EventOf, Event
<1>6. rollout'.pending = Append(rollout.pending, e)
  BY <1>2
<1>7. \A k \in 1 .. n : old[k] # rollout.waves[n + 1]
  <2>1. PlanHolds(rollout)
    BY DEF Sound
  <2>2. \A k \in 1 .. n : k \in DOMAIN rollout.waves /\ n + 1 \in DOMAIN rollout.waves
    BY <1>1, <1>2, <1>3
  <2>3. QED  BY <1>1, <2>1, <2>2, WavesDiffer
<1> HIDE DEF old, new, n, e
<1>8. Told' = Append(Told, e)
  BY <1>5, <1>6, ToldByRecording
<1>9. Told \in Seq(Event)
  BY ConcatProperties DEF Told, RolloutRecord
<1>10. TellsWaves(Told, old) /\ TellsEnd(Told, rollout.status)
  BY DEF EventsTellTheRollout, old
<1>11. TellsWaves(Append(Told, e), new)
  <2>1. /\ Len(new) = Len(old) + 1
        /\ \A k \in 1 .. Len(old) : new[k] = old[k]
        /\ new[Len(new)] = e.wave
        /\ \A k \in 1 .. Len(old) : old[k] # e.wave
    BY <1>1, <1>2, <1>5, <1>7 DEF n
  <2>2. QED  BY <1>1, <1>2, <1>5, <1>9, <1>10, <2>1, TellsWavesGrows
<1>12. TellsEnd(Append(Told, e), rollout'.status)
  BY <1>5, <1>9, <1>10, TellsEndStays
<1>13. QED
  BY <1>8, <1>11, <1>12 DEF EventsTellTheRollout, new

(* Ending a rollout, with the event that says so, starts no wave.          *)
LEMMA TellsTheEnd ==
  ASSUME EventsTellTheRollout, published \in Seq(Event), rollout \in RolloutRecord,
         published' = published, NEW type,
         rollout'.pending = Append(rollout.pending, EventOf(type, {})),
         StartedWaves(rollout') = StartedWaves(rollout),
         \/ /\ type = "RolloutCompleted" /\ rollout'.status = "COMPLETED"
            /\ rollout.status \notin {"COMPLETED", "ROLLED_BACK"}
         \/ /\ type = "RolloutRolledBack" /\ rollout'.status = "ROLLED_BACK"
            /\ rollout.status # "ROLLED_BACK"
  PROVE  EventsTellTheRollout'
<1> DEFINE e == EventOf(type, {})
<1>1. e \in Event /\ e.type = type /\ type # "WaveStarted"
  BY DEF EventOf, Event
<1>2. rollout'.pending = Append(rollout.pending, e)
  OBVIOUS
<1> HIDE DEF e
<1>3. Told' = Append(Told, e)
  BY <1>1, <1>2, ToldByRecording
<1>4. Told \in Seq(Event)
  BY ConcatProperties DEF Told, RolloutRecord
<1>5. TellsWaves(Told, StartedWaves(rollout)) /\ TellsEnd(Told, rollout.status)
  BY DEF EventsTellTheRollout
<1>6. TellsWaves(Told', StartedWaves(rollout'))
  BY <1>1, <1>3, <1>4, <1>5, TellsWavesStays
<1>7. TellsEnd(Told', rollout'.status)
  <2>1. CASE type = "RolloutCompleted"
    BY <1>1, <1>3, <1>4, <1>5, <2>1, TellsEndCompletes
  <2>2. CASE type = "RolloutRolledBack"
    BY <1>1, <1>3, <1>4, <1>5, <2>2, TellsEndRollsBack
  <2>3. QED  BY <2>1, <2>2
<1>8. QED
  BY <1>6, <1>7 DEF EventsTellTheRollout

(* A wave already started stays so while plan and position do.             *)
LEMMA SameWavesStarted ==
  ASSUME NEW r, NEW s, r.status = "PLANNED" <=> s.status = "PLANNED",
         s.waves = r.waves, s.current = r.current
  PROVE  StartedWaves(s) = StartedWaves(r)
  BY DEF StartedWaves, HasCurrentWave

(* Every call records what it does to waves and status, one step per       *)
(* method.                                                                 *)
LEMMA CallsTell ==
  ASSUME EventsTellTheRollout, published \in Seq(Event), RolloutNext,
         rollout \in RolloutRecord, Sound(rollout, PoliciesInUse),
         rollout' \in RolloutRecord, Sound(rollout', PoliciesInUse)
  PROVE  EventsTellTheRollout'
<1>1. /\ rollout.waves \in Seq(SUBSET Device) /\ Len(rollout.waves) \in Nat
      /\ rollout.current \in Nat /\ rollout.pending \in Seq(Event)
      /\ rollout.waves # <<>>
      /\ rollout.status \in {"PLANNED", "RUNNING", "HALTED"} => HasCurrentWave(rollout)
      /\ rollout.status = "PLANNED" => rollout.current = 0
  BY LenProperties DEF RolloutRecord, Sound, PlanHolds, PositionHolds
<1>2. CASE Start
  <2>1. rollout' = Started(rollout) /\ published' = published /\ rollout.status = "PLANNED"
    BY <1>2 DEF Start, CanStart
  <2>2. /\ rollout'.waves = rollout.waves /\ rollout'.status = "RUNNING"
        /\ rollout'.current = rollout.current
        /\ rollout'.pending = Append(rollout.pending, EventOf("WaveStarted", rollout.waves[1]))
    BY <1>1, <2>1, StartedFields, MethodsRecord
  <2>3. HasCurrentWave(rollout')
    BY <1>1, <2>1, <2>2 DEF HasCurrentWave
  <2>4. Len(StartedWaves(rollout)) = 0 /\ Len(StartedWaves(rollout')) = 1
    <3>1. rollout.current = 0 /\ rollout'.current = 0 /\ rollout'.status # "PLANNED"
      BY <1>1, <2>1, <2>2
    <3>2. Len(StartedWaves(rollout)) = 0
      BY <2>1, StartedAreFirst
    <3>3. Len(StartedWaves(rollout')) = rollout'.current + 1
      BY <2>3, <3>1, StartedAreFirst
    <3>4. QED  BY <3>1, <3>2, <3>3
  <2>5. QED  BY <2>1, <2>2, <2>4, TellsNextWave
<1>3. CASE RecordWave
  <2>1. PICK heard \in SUBSET CurrentWave(rollout), policy \in PoliciesInUse :
          \E outcomes \in [heard -> DeviceOutcome \ {"PENDING"}] :
            /\ CanRecord(rollout, outcomes)
            /\ rollout' = Recorded(rollout, outcomes, policy)
    BY <1>3 DEF RecordWave
  <2>2. PICK outcomes \in [heard -> DeviceOutcome \ {"PENDING"}] :
          /\ CanRecord(rollout, outcomes)
          /\ rollout' = Recorded(rollout, outcomes, policy)
    BY <2>1
  <2>3. outcomes \in [heard -> DeviceOutcome] /\ published' = published
    BY <1>3 DEF RecordWave
  <2>4. rollout.status = "RUNNING" /\ HasCurrentWave(rollout)
    BY <2>2 DEF CanRecord
  <2>5. /\ rollout'.waves = rollout.waves /\ rollout'.current = rollout.current
        /\ rollout'.status \in {"RUNNING", "HALTED"}
    BY <2>2, <2>3, <2>4, RecordedFields
  <2>6. StartedWaves(rollout') = StartedWaves(rollout)
    BY <2>4, <2>5, SameWavesStarted
  <2>7. \/ rollout'.pending = rollout.pending
        \/ rollout'.pending = Append(rollout.pending,
                                     EventOf("RolloutHalted", CurrentWave(rollout)))
    BY <2>2, RecordedRecords
  <2>8. CASE rollout'.pending = rollout.pending
    <3>1. Told' = Told
      BY <2>3, <2>8 DEF Told
    <3>2. QED  BY <2>4, <2>5, <2>6, <3>1, TellsSame
  <2>9. CASE rollout'.pending = Append(rollout.pending,
                                       EventOf("RolloutHalted", CurrentWave(rollout)))
    <3> DEFINE e == EventOf("RolloutHalted", CurrentWave(rollout))
    <3>1. CurrentWave(rollout) \in SUBSET Device
      <4>1. rollout.current + 1 \in 1 .. Len(rollout.waves)
        BY <1>1, <2>4 DEF HasCurrentWave
      <4>2. QED  BY <1>1, <4>1, ElementOfSeq DEF CurrentWave
    <3>2. e \in Event /\ e.type = "RolloutHalted"
      BY <3>1 DEF EventOf, Event
    <3>3. Told' = Append(Told, e)
      BY <2>3, <2>9, <3>2, ToldByRecording
    <3> HIDE DEF e
    <3>4. QED  BY <2>4, <2>5, <2>6, <3>2, <3>3, TellsSame
  <2>10. QED  BY <2>7, <2>8, <2>9
<1>4. CASE Advance
  <2>1. /\ rollout' = Advanced(rollout) /\ published' = published
        /\ rollout.status = "RUNNING" /\ HasCurrentWave(rollout)
    BY <1>1, <1>4 DEF Advance, CanAdvance
  <2>2. /\ rollout'.waves = rollout.waves /\ rollout'.current = rollout.current + 1
        /\ rollout'.status = IF rollout.current + 1 < Len(rollout.waves)
                             THEN "RUNNING" ELSE "COMPLETED"
    BY <2>1, AdvancedFields
  <2>3. Len(StartedWaves(rollout)) = rollout.current + 1
    BY <2>1, StartedAreFirst
  <2>4. CASE rollout.current + 1 < Len(rollout.waves)
    <3>1. HasCurrentWave(rollout')
      BY <2>2, <2>4 DEF HasCurrentWave
    <3>2. Len(StartedWaves(rollout')) = rollout.current + 2
      BY <1>1, <2>2, <2>4, <3>1, StartedAreFirst
    <3>3. rollout'.pending = Append(rollout.pending,
                               EventOf("WaveStarted", rollout.waves[rollout.current + 2]))
      BY <2>1, <2>4, AdvancedRecords
    <3>4. QED  BY <1>1, <2>1, <2>2, <2>3, <2>4, <3>2, <3>3, TellsNextWave
  <2>5. CASE ~ (rollout.current + 1 < Len(rollout.waves))
    <3>1. rollout.current + 1 = Len(rollout.waves)
      BY <1>1, <2>1, <2>5 DEF HasCurrentWave
    <3>2. StartedWaves(rollout) = SubSeq(rollout.waves, 1, rollout.current + 1)
      BY <2>1 DEF StartedWaves
    <3>3. StartedWaves(rollout') = SubSeq(rollout.waves, 1, Len(rollout.waves))
      <4>1. ~ HasCurrentWave(rollout')
        BY <2>2, <2>5 DEF HasCurrentWave
      <4>2. QED  BY <2>2, <2>5, <4>1 DEF StartedWaves
    <3>4. rollout'.pending = Append(rollout.pending, EventOf("RolloutCompleted", {}))
      BY <2>1, <2>5, AdvancedRecords
    <3>5. QED  BY <2>1, <2>2, <2>5, <3>1, <3>2, <3>3, <3>4, TellsTheEnd
  <2>6. QED  BY <2>4, <2>5
<1>5. CASE Complete
  <2>1. rollout' = Completed(rollout) /\ published' = published /\ rollout.status = "RUNNING"
    BY <1>5 DEF Complete, CanComplete
  <2>2. /\ rollout'.waves = rollout.waves /\ rollout'.current = rollout.current
        /\ rollout'.status = "COMPLETED"
        /\ rollout'.pending = Append(rollout.pending, EventOf("RolloutCompleted", {}))
    BY <2>1, ClosingFields, MethodsRecord
  <2>3. StartedWaves(rollout') = StartedWaves(rollout)
    BY <2>1, <2>2, SameWavesStarted
  <2>4. QED  BY <2>1, <2>2, <2>3, TellsTheEnd
<1>6. CASE Halt
  <2>1. rollout' = Halted(rollout) /\ published' = published /\ rollout.status = "RUNNING"
    BY <1>6 DEF Halt, CanHalt
  <2>2. /\ rollout'.waves = rollout.waves /\ rollout'.current = rollout.current
        /\ rollout'.status = "HALTED"
        /\ rollout'.pending = Append(rollout.pending,
                                     EventOf("RolloutHalted", WaveOrNone(rollout)))
    BY <2>1, PausingFields, MethodsRecord
  <2>3. StartedWaves(rollout') = StartedWaves(rollout)
    BY <2>1, <2>2, SameWavesStarted
  <2> DEFINE e == EventOf("RolloutHalted", WaveOrNone(rollout))
  <2>4. WaveOrNone(rollout) \in SUBSET Device
    <3>1. rollout.current + 1 \in 1 .. Len(rollout.waves)
      BY <1>1, <2>1 DEF HasCurrentWave
    <3>2. QED  BY <1>1, <2>1, <3>1, ElementOfSeq DEF WaveOrNone, CurrentWave
  <2>5. e \in Event /\ e.type = "RolloutHalted"
    BY <2>4 DEF EventOf, Event
  <2>6. Told' = Append(Told, e)
    BY <2>1, <2>2, <2>5, ToldByRecording
  <2> HIDE DEF e
  <2>7. QED  BY <2>1, <2>2, <2>3, <2>5, <2>6, TellsSame
<1>7. CASE Resume
  <2>1. rollout' = Resumed(rollout) /\ published' = published /\ rollout.status = "HALTED"
    BY <1>7 DEF Resume, CanResume
  <2>2. /\ rollout'.waves = rollout.waves /\ rollout'.current = rollout.current
        /\ rollout'.status = "RUNNING" /\ rollout'.pending = rollout.pending
    BY <2>1, PausingFields, MethodsRecord
  <2>3. StartedWaves(rollout') = StartedWaves(rollout) /\ Told' = Told
    BY <2>1, <2>2, SameWavesStarted DEF Told
  <2>4. QED  BY <2>1, <2>2, <2>3, TellsSame
<1>8. CASE MarkRolledBack
  <2>1. /\ rollout' = RolledBack(rollout) /\ published' = published
        /\ rollout.status \in {"RUNNING", "HALTED", "COMPLETED"}
    BY <1>8 DEF MarkRolledBack, CanRollBack
  <2>2. /\ rollout'.waves = rollout.waves /\ rollout'.current = rollout.current
        /\ rollout'.status = "ROLLED_BACK"
        /\ rollout'.pending = Append(rollout.pending, EventOf("RolloutRolledBack", {}))
    BY <2>1, ClosingFields, MethodsRecord
  <2>3. StartedWaves(rollout') = StartedWaves(rollout)
    BY <2>1, <2>2, SameWavesStarted
  <2>4. QED  BY <2>1, <2>2, <2>3, TellsTheEnd
<1>9. CASE Commit
  <2>1. rollout' = Pulled(rollout) /\ published' = published \o rollout.pending
    BY <1>9 DEF Commit
  <2>2. /\ rollout'.waves = rollout.waves /\ rollout'.current = rollout.current
        /\ rollout'.status = rollout.status /\ rollout'.pending = <<>>
    BY <2>1, PulledFields, MethodsRecord
  <2>3. StartedWaves(rollout') = StartedWaves(rollout)
    BY <2>2, SameWavesStarted
  <2>4. Told' = Told
    <3>1. published \o rollout.pending \in Seq(Event)
      BY <1>1, ConcatProperties
    <3>2. QED  BY <2>1, <2>2, <3>1, ConcatEmptySeq DEF Told
  <2>5. QED  BY <2>2, <2>3, <2>4, TellsSame
<1>10. QED
  BY <1>2, <1>3, <1>4, <1>5, <1>6, <1>7, <1>8, <1>9 DEF RolloutNext

-----------------------------------------------------------------------------
(* Whatever plan accepts is a typed, sound rollout (Rollout.plan).         *)
LEMMA RolloutInitEstablishes == ASSUME RolloutInit PROVE RolloutIInv
<1>1. PICK waves \in WavePlans, policy \in PoliciesInUse,
           version \in Version, previous \in Version \cup {"none"} :
        /\ CanPlan(waves, policy)
        /\ rollout = Planned(version, previous, waves)
  BY DEF RolloutInit
<1>2. waves \in Seq(SUBSET Device)
  BY RolloutAssumption
<1>3. rollout \in RolloutRecord /\ Sound(rollout, PoliciesInUse)
  BY <1>1, <1>2, PlannedKeeps
<1>4. published \in Seq(Event)
  BY EmptySeq DEF RolloutInit
<1>5. rollout.current <= Len(rollout.waves)
  BY <1>3 DEF Sound, PositionHolds
<1>6. EventsTellTheRollout
  BY PlanTells
<1>7. QED
  BY <1>3, <1>4, <1>5, <1>6 DEF RolloutIInv, RolloutTypeOK

(* A call that leaves a sound rollout and typed events that tell it behind *)
(* keeps RolloutIInv.                                                      *)
LEMMA RolloutSoundIsEnough ==
  ASSUME rollout' \in RolloutRecord, Sound(rollout', PoliciesInUse),
         published' \in Seq(Event), EventsTellTheRollout'
  PROVE  RolloutIInv'
<1>1. rollout'.current <= Len(rollout'.waves)
  BY DEF Sound, PositionHolds
<1>2. QED
  BY <1>1 DEF RolloutIInv, RolloutTypeOK, Sound, PlanHolds, PositionHolds, ResultsHold,
              CanaryHolds, CanaryPassed, HaltHolds, HasCurrentWave, CurrentWave

(* Every call keeps the invariant, one step per method.                    *)
LEMMA RolloutNextKeeps == ASSUME RolloutIInv, [RolloutNext]_rolloutVars PROVE RolloutIInv'
<1>1. /\ rollout \in RolloutRecord /\ Sound(rollout, PoliciesInUse)
      /\ published \in Seq(Event) /\ EventsTellTheRollout
  BY DEF RolloutIInv, RolloutTypeOK
<1> USE <1>1
<1>2. ASSUME UNCHANGED rolloutVars PROVE RolloutIInv'
  <2>1. EventsTellTheRollout'
    BY <1>2 DEF rolloutVars, EventsTellTheRollout, Told
  <2>2. QED  BY <1>2, <2>1, RolloutSoundIsEnough DEF rolloutVars
<1>3. SUFFICES ASSUME RolloutNext
               PROVE  /\ rollout' \in RolloutRecord /\ Sound(rollout', PoliciesInUse)
                      /\ published' \in Seq(Event)
  BY <1>2, CallsTell, RolloutSoundIsEnough
<1>4. CASE Start
  <2>1. rollout' = Started(rollout) /\ published' = published /\ CanStart(rollout)
    BY <1>4 DEF Start
  <2>2. rollout' \in RolloutRecord /\ Sound(rollout', PoliciesInUse)
    BY <2>1, StartedKeeps
  <2>3. QED  BY <2>1, <2>2
<1>5. CASE RecordWave
  <2>1. PICK heard \in SUBSET CurrentWave(rollout), policy \in PoliciesInUse :
          \E outcomes \in [heard -> DeviceOutcome \ {"PENDING"}] :
            /\ CanRecord(rollout, outcomes)
            /\ rollout' = Recorded(rollout, outcomes, policy)
    BY <1>5 DEF RecordWave
  <2>2. PICK outcomes \in [heard -> DeviceOutcome \ {"PENDING"}] :
          /\ CanRecord(rollout, outcomes)
          /\ rollout' = Recorded(rollout, outcomes, policy)
    BY <2>1
  <2>3. outcomes \in [heard -> DeviceOutcome]
    OBVIOUS
  <2>4. rollout' \in RolloutRecord /\ Sound(rollout', PoliciesInUse)
    BY <2>2, <2>3, RecordedKeeps
  <2>5. QED  BY <1>5, <2>4 DEF RecordWave
<1>6. CASE Advance
  <2>1. PICK policy \in PoliciesInUse : CanAdvance(rollout, policy)
    BY <1>6 DEF Advance
  <2>2. rollout' \in RolloutRecord /\ Sound(rollout', PoliciesInUse)
    BY <1>6, <2>1, AdvancedKeeps DEF Advance
  <2>3. QED  BY <1>6, <2>2 DEF Advance
<1>7. CASE Complete
  <2>1. rollout' \in RolloutRecord /\ Sound(rollout', PoliciesInUse)
    BY <1>7, ClosingKeeps DEF Complete
  <2>2. QED  BY <1>7, <2>1 DEF Complete
<1>8. CASE Halt
  <2>1. rollout' \in RolloutRecord /\ Sound(rollout', PoliciesInUse)
    BY <1>8, PausingKeeps DEF Halt
  <2>2. QED  BY <1>8, <2>1 DEF Halt
<1>9. CASE Resume
  <2>1. rollout' \in RolloutRecord /\ Sound(rollout', PoliciesInUse)
    BY <1>9, PausingKeeps DEF Resume
  <2>2. QED  BY <1>9, <2>1 DEF Resume
<1>10. CASE MarkRolledBack
  <2>1. rollout' \in RolloutRecord /\ Sound(rollout', PoliciesInUse)
    BY <1>10, ClosingKeeps DEF MarkRolledBack
  <2>2. QED  BY <1>10, <2>1 DEF MarkRolledBack
<1>11. CASE Commit
  <2>1. rollout' \in RolloutRecord /\ Sound(rollout', PoliciesInUse)
    BY <1>11, PulledKeeps DEF Commit
  <2>2. rollout.pending \in Seq(Event)
    BY DEF RolloutRecord
  <2>3. published' \in Seq(Event)
    BY <1>11, <2>2, ConcatProperties DEF Commit
  <2>4. QED  BY <2>1, <2>3
<1>12. QED
  BY <1>3, <1>4, <1>5, <1>6, <1>7, <1>8, <1>9, <1>10, <1>11 DEF RolloutNext

(* The inductive invariant holds throughout.                               *)
THEOREM RolloutInvariant == RolloutSpec => []RolloutIInv
<1>1. RolloutInit => RolloutIInv
  BY RolloutInitEstablishes
<1>2. RolloutIInv /\ [RolloutNext]_rolloutVars => RolloutIInv'
  BY RolloutNextKeeps
<1>3. QED
  BY <1>1, <1>2, PTL DEF RolloutSpec

-----------------------------------------------------------------------------
(* The record keeps its type and the position stays within the plan.       *)
THEOREM RolloutTypes == RolloutSpec => []RolloutTypeOK
<1>1. RolloutIInv => RolloutTypeOK
  BY DEF RolloutIInv
<1>2. QED
  BY <1>1, RolloutInvariant, PTL

(* Results are about started waves and in plan order, whatever sequence of *)
(* calls and whatever outcomes (record_wave, advance).                     *)
THEOREM RolloutResultsFollowPlan == RolloutSpec => []ResultsFollowPlan
<1>1. RolloutIInv => ResultsFollowPlan
  BY DEF RolloutIInv, Sound, ResultsFollowPlan
<1>2. QED
  BY <1>1, RolloutInvariant, PTL

(* What is published, with what still waits for a commit, tells the waves  *)
(* and the end of the rollout as they happened, whichever calls raise or   *)
(* never reach commit (EventRecorder, advance, application/fleet/support.py). *)
THEOREM RolloutEventsTell == RolloutSpec => []EventsTellTheRollout
<1>1. RolloutIInv => EventsTellTheRollout
  BY DEF RolloutIInv
<1>2. QED
  BY <1>1, RolloutInvariant, PTL

(* A halt by the code has its evidence, and no reason outlives its halt    *)
(* (record_wave, halt, resume).                                            *)
THEOREM RolloutHaltExplained == RolloutSpec => []HaltExplained
<1>1. RolloutIInv => HaltExplained
  BY DEF RolloutIInv, Sound, HaltExplained
<1>2. QED
  BY <1>1, RolloutInvariant, PTL

(* While the rollout is in its first wave it has exposed that wave only.   *)
LEMMA FirstWaveExposed ==
  ASSUME NEW r \in RolloutRecord, Sound(r, PoliciesInUse), r.current = 0
  PROVE  Exposed(r) \subseteq r.waves[1]
<1>1. r.waves \in Seq(SUBSET Device) /\ Len(r.waves) \in Nat
  BY LenProperties DEF RolloutRecord
<1>2. CASE r.status = "PLANNED"
  BY <1>2 DEF Exposed, StartedWaves, Targets
<1>3. CASE r.status # "PLANNED"
  <2>1. r.waves # <<>>
    BY DEF Sound, PlanHolds
  <2>2. Len(r.waves) >= 1 /\ HasCurrentWave(r)
    BY <1>1, <2>1, EmptySeq DEF HasCurrentWave
  <2>3. StartedWaves(r) = SubSeq(r.waves, 1, 1)
    BY <1>3, <2>2 DEF StartedWaves
  <2>4. /\ Len(SubSeq(r.waves, 1, 1)) = 1
        /\ SubSeq(r.waves, 1, 1)[1] = r.waves[1]
        /\ SubSeq(r.waves, 1, 1) \in Seq(SUBSET Device)
    BY <1>1, <2>2, SubSeqProperties
  <2>5. DOMAIN SubSeq(r.waves, 1, 1) = {1}
    BY <2>4, LenProperties
  <2>6. QED  BY <2>3, <2>4, <2>5 DEF Exposed, Targets
<1>4. QED  BY <1>2, <1>3

(* The canary rule for any fleet, any plan and any mix of policies: no     *)
(* device outside the first wave is offered the new version before the     *)
(* first wave reported a result that a policy in use lets through.         *)
THEOREM RolloutCanaryContains == RolloutSpec => []CanaryContains
<1>1. ASSUME RolloutIInv PROVE CanaryContains
  <2>1. rollout \in RolloutRecord /\ Sound(rollout, PoliciesInUse)
    BY <1>1 DEF RolloutIInv, RolloutTypeOK
  <2>2. rollout.current \in Nat
    BY <2>1 DEF RolloutRecord
  <2>3. CASE rollout.current = 0
    BY <2>1, <2>3, FirstWaveExposed DEF CanaryContains
  <2>4. CASE rollout.current > 0
    BY <2>1, <2>4 DEF Sound, CanaryHolds, CanaryContains
  <2>5. QED  BY <2>2, <2>3, <2>4
<1>2. QED
  BY <1>1, RolloutInvariant, PTL

(* A method that keeps plan and position of a rollout already started      *)
(* exposes nobody new.                                                     *)
LEMMA SameExposure ==
  ASSUME NEW r, NEW s, r.status # "PLANNED", s.status # "PLANNED",
         s.waves = r.waves, s.current = r.current
  PROVE  Exposed(s) = Exposed(r)
  BY DEF Exposed, StartedWaves, HasCurrentWave

(* A completed or rolled back rollout is not written to again and offers   *)
(* the version to no further device, whichever call arrives late.          *)
THEOREM RolloutClosedIsClosed == RolloutSpec => ClosedIsClosed
<1> DEFINE Stays ==
      rollout.status \in {"COMPLETED", "ROLLED_BACK"} =>
        /\ rollout'.results = rollout.results
        /\ Exposed(rollout') = Exposed(rollout)
        /\ rollout'.status \in {rollout.status, "ROLLED_BACK"}
<1>1. ASSUME RolloutIInv, RolloutNext PROVE Stays
  <2> SUFFICES ASSUME rollout.status \in {"COMPLETED", "ROLLED_BACK"}
               PROVE  /\ rollout'.results = rollout.results
                      /\ Exposed(rollout') = Exposed(rollout)
                      /\ rollout'.status \in {rollout.status, "ROLLED_BACK"}
    OBVIOUS
  <2>1. rollout \in RolloutRecord
    BY <1>1 DEF RolloutIInv, RolloutTypeOK
  <2>2. MarkRolledBack \/ Commit
    BY <1>1 DEF RolloutNext, Start, CanStart, RecordWave, CanRecord, Advance, CanAdvance,
                Complete, CanComplete, Halt, CanHalt, Resume, CanResume
  <2>3. /\ rollout'.results = rollout.results
        /\ rollout'.waves = rollout.waves
        /\ rollout'.current = rollout.current
        /\ rollout'.status \in {rollout.status, "ROLLED_BACK"}
    BY <2>1, <2>2, ClosingFields, PulledFields DEF MarkRolledBack, Commit
  <2>4. QED  BY <2>3, SameExposure
<1>2. ASSUME RolloutIInv, [RolloutNext]_rolloutVars PROVE [Stays]_rolloutVars
  BY <1>1, <1>2
<1>3. QED
  BY <1>2, RolloutInvariant, PTL DEF RolloutSpec, ClosedIsClosed

-----------------------------------------------------------------------------

(* The outcomes a device has to have answered for, and the words it        *)
(* answers with.                                                           *)
Done == {"SUCCEEDED", "FAILED"}
Answer == {"SUCCEEDED", "FAILED", "REJECTED"}

(* The wave of a device has been started.                                  *)
Offered(r, d) == \E k \in DOMAIN r.waves : k <= r.current + 1 /\ d \in r.waves[k]

JobsAreOffered ==
  \A id \in RolloutId, d \in Device :
    exec[id][d] # "none" => id \in Known /\ Offered(rollouts[id], d)

Announces(t) == threads[t].op = "announce"

(* A request is about a wave of the plan that has been started and that    *)
(* has no job yet.                                                         *)
IsAnnounceable(id, wave) ==
  /\ \E k \in DOMAIN rollouts[id].waves :
       k <= rollouts[id].current + 1 /\ wave = rollouts[id].waves[k]
  /\ \A d \in wave : exec[id][d] = "none"

AnnouncedOnce ==
  /\ \A t \in Thread : Announces(t) => IsAnnounceable(threads[t].id, threads[t].wave)
  /\ \A t, u \in Thread :
       (/\ Announces(t) /\ Announces(u)
        /\ threads[t].id = threads[u].id /\ threads[t].wave = threads[u].wave) => t = u

Recovers(t) == threads[t].op = "recover"

RecoveriesAreNew ==
  /\ \A t \in Thread : Recovers(t) => threads[t].new \notin Known
  /\ \A t, u \in Thread :
       (Recovers(t) /\ Recovers(u) /\ threads[t].new = threads[u].new) => t = u

IsReal(id, result) ==
  \A d \in DOMAIN result : result[d] \in Done => Answered(id, d, result[d])

(* What a thread has heard: of a rollout that has been rolled back it may  *)
(* be the answer to its recovery.                                          *)
IsHeard(id, result) ==
  \A d \in DOMAIN result : result[d] \in Done =>
    /\ \E i \in Namesakes[id] : exec[i][d] \in Says(result[d])
    /\ (NamesOwnOnly(id) /\ rollouts[id].status # "ROLLED_BACK") =>
         exec[id][d] \in Says(result[d])

HeardIsReal ==
  \A t \in Thread : threads[t].op = "record" => IsHeard(threads[t].id, threads[t].outcomes)

(* A recovery is in the repository, behind a rollout that is rolled back.  *)
RecoveriesFollow ==
  \A i \in RolloutId : origin[i] # "none" =>
    i \in Known /\ origin[i] \in Known /\ rollouts[origin[i]].status = "ROLLED_BACK"

IInv ==
  /\ TypeOK
  /\ AllSound
  /\ JobsAreOffered
  /\ AnnouncedOnce
  /\ RecoveriesAreNew
  /\ RecoveriesFollow
  /\ HeardIsReal
  /\ OutcomesAreReal
  /\ VersionWasInstalled

-----------------------------------------------------------------------------
(* The requests                                                            *)

(* What is known of a request by the use case it belongs to.               *)
LEMMA RequestForms ==
  ASSUME NEW q \in Request
  PROVE  /\ q.op \in {"idle", "announce", "record", "recover"}
         /\ q.op = "idle" <=> q = Idle
         /\ q.op = "announce" => q.id \in RolloutId /\ q.wave \in SUBSET Device
         /\ q.op = "record" => q.id \in RolloutId /\ q.outcomes \in WaveResult
         /\ q.op = "recover" =>
              /\ q.id \in RolloutId /\ q.new \in RolloutId
              /\ q.target \in Version /\ q.affected \in SUBSET Device
<1>1. CASE q = Idle
  BY <1>1 DEF Idle
<1>2. ASSUME NEW id \in RolloutId, NEW wave \in SUBSET Device, q = Announcing(id, wave)
      PROVE  q.op = "announce" /\ q.id = id /\ q.wave = wave /\ q # Idle
  BY <1>2 DEF Announcing, Idle
<1>3. ASSUME NEW id \in RolloutId, NEW outcomes \in WaveResult, q = Recording(id, outcomes)
      PROVE  q.op = "record" /\ q.id = id /\ q.outcomes = outcomes /\ q # Idle
  BY <1>3 DEF Recording, Idle
<1>4. ASSUME NEW id \in RolloutId, NEW new \in RolloutId, NEW target \in Version,
             NEW affected \in SUBSET Device, q = Recovering(id, new, target, affected)
      PROVE  /\ q.op = "recover" /\ q.id = id /\ q.new = new /\ q.target = target
             /\ q.affected = affected /\ q # Idle
  BY <1>4 DEF Recovering, Idle
<1>5. \/ q = Idle
      \/ \E id \in RolloutId, wave \in SUBSET Device : q = Announcing(id, wave)
      \/ \E id \in RolloutId, outcomes \in WaveResult : q = Recording(id, outcomes)
      \/ \E id \in RolloutId, new \in RolloutId, target \in Version,
            affected \in SUBSET Device : q = Recovering(id, new, target, affected)
  BY DEF Request
<1>6. CASE \E id \in RolloutId, wave \in SUBSET Device : q = Announcing(id, wave)
  BY <1>2, <1>6
<1>7. CASE \E id \in RolloutId, outcomes \in WaveResult : q = Recording(id, outcomes)
  BY <1>3, <1>7
<1>8. CASE \E id \in RolloutId, new \in RolloutId, target \in Version,
              affected \in SUBSET Device : q = Recovering(id, new, target, affected)
  BY <1>4, <1>8
<1>9. QED  BY <1>1, <1>5, <1>6, <1>7, <1>8

(* The requests the use cases make are requests, with these fields.        *)
LEMMA RequestsMade ==
  /\ Idle \in Request /\ Idle.op = "idle"
  /\ \A id \in RolloutId, wave \in SUBSET Device :
       LET q == Announcing(id, wave)
       IN  q \in Request /\ q.op = "announce" /\ q.id = id /\ q.wave = wave
  /\ \A id \in RolloutId, outcomes \in WaveResult :
       LET q == Recording(id, outcomes)
       IN  q \in Request /\ q.op = "record" /\ q.id = id /\ q.outcomes = outcomes
  /\ \A id \in RolloutId, new \in RolloutId, target \in Version, affected \in SUBSET Device :
       LET q == Recovering(id, new, target, affected)
       IN  q \in Request /\ q.op = "recover" /\ q.id = id /\ q.new = new
<1>1. Idle \in Request /\ Idle.op = "idle"
  BY DEF Request, Idle
<1>2. ASSUME NEW id \in RolloutId, NEW wave \in SUBSET Device
      PROVE  LET q == Announcing(id, wave)
             IN  q \in Request /\ q.op = "announce" /\ q.id = id /\ q.wave = wave
  <2>1. Announcing(id, wave) \in Request
    BY DEF Request
  <2>2. QED  BY <2>1 DEF Announcing
<1>3. ASSUME NEW id \in RolloutId, NEW outcomes \in WaveResult
      PROVE  LET q == Recording(id, outcomes)
             IN  q \in Request /\ q.op = "record" /\ q.id = id /\ q.outcomes = outcomes
  <2>1. Recording(id, outcomes) \in Request
    BY DEF Request
  <2>2. QED  BY <2>1 DEF Recording
<1>4. ASSUME NEW id \in RolloutId, NEW new \in RolloutId, NEW target \in Version,
             NEW affected \in SUBSET Device
      PROVE  LET q == Recovering(id, new, target, affected)
             IN  q \in Request /\ q.op = "recover" /\ q.id = id /\ q.new = new
  <2>1. Recovering(id, new, target, affected) \in Request
    BY DEF Request
  <2>2. QED  BY <2>1 DEF Recovering
<1>5. QED  BY <1>1, <1>2, <1>3, <1>4

-----------------------------------------------------------------------------
(* What a step may do to the repository, the jobs and one request          *)

(* A rollout goes on: its plan and version stay, it does not go back, and  *)
(* once rolled back it stays so.                                           *)
Later(r, s) ==
  /\ s.waves = r.waves /\ s.version = r.version /\ r.current <= s.current
  /\ r.status = "ROLLED_BACK" => s.status = "ROLLED_BACK"

(* A recovery comes with its rollout rolled back.                          *)
OriginsMove ==
  /\ origin' \in [RolloutId -> RolloutId \cup {"none"}]
  /\ \A i \in RolloutId :
       \/ origin'[i] = origin[i]
       \/ /\ i \in Known' \ Known /\ origin'[i] \in Known'
          /\ rollouts'[origin'[i]].status = "ROLLED_BACK"

RolloutsMove ==
  /\ Known \subseteq Known'
  /\ \A id \in Known' :
       /\ id \in RolloutId
       /\ rollouts'[id] \in RolloutRecord
       /\ Sound(rollouts'[id], Policies)
  /\ \A id \in Known : Later(rollouts[id], rollouts'[id])
  /\ OriginsMove

(* No job appears that is not offered, and an answer stays.                *)
JobsMove ==
  /\ exec' \in [RolloutId -> [Device -> Execution]]
  /\ \A id \in RolloutId, d \in Device :
       /\ exec[id][d] \in Answer => exec'[id][d] = exec[id][d]
       /\ exec'[id][d] # "none" =>
            exec[id][d] # "none" \/ (id \in Known' /\ Offered(rollouts'[id], d))

(* The request a thread goes on to.                                        *)
Serves(t, q) ==
  /\ threads' = [threads EXCEPT ![t] = q]
  /\ q \in Request
  /\ q # Idle => q.id \in Known'
  /\ q.op = "announce" =>
       /\ IsAnnounceable(q.id, q.wave)'
       /\ \A u \in Thread \ {t} :
            Announces(u) => threads[u].id # q.id \/ threads[u].wave # q.wave
  /\ q.op = "recover" =>
       /\ q.new \notin Known'
       /\ \A u \in Thread \ {t} : Recovers(u) => threads[u].new # q.new
  /\ q.op = "record" => IsHeard(q.id, q.outcomes)'

(* The requests of the other threads are not disturbed.                    *)
OthersStay(t) ==
  \A u \in Thread \ {t} :
    /\ Announces(u) => \A d \in threads[u].wave : exec'[threads[u].id][d] = "none"
    /\ Recovers(u) => threads[u].new \notin Known'

ResultsAreReal ==
  \A id \in Known : \A i \in DOMAIN rollouts[id].results :
    IsReal(id, rollouts[id].results[i])

(* OutcomesAreReal, told with the name its parts have here.                *)
LEMMA RealOutcomes == OutcomesAreReal <=> ResultsAreReal
  BY DEF OutcomesAreReal, ResultsAreReal, IsReal, Done

(* The words for a done outcome are answers.                               *)
LEMMA SaysAnswers ==
  ASSUME NEW outcome \in Done
  PROVE  Says(outcome) \subseteq Answer
  BY DEF Done, Says, Answer, OutcomeOf, Execution

(* What a device has answered stays answered: its word stays, and no new   *)
(* rollout can make more names a rollout's own.                            *)
LEMMA AnswersStay ==
  ASSUME IInv, RolloutsMove, JobsMove, NEW id \in Known, NEW d \in Device,
         NEW outcome \in Done
  PROVE  /\ (\E i \in Namesakes[id] : exec[i][d] \in Says(outcome)) =>
              \E i \in Namesakes[id] : exec'[i][d] \in Says(outcome)
         /\ exec[id][d] \in Says(outcome) => exec'[id][d] \in Says(outcome)
         /\ NamesOwnOnly(id)' => NamesOwnOnly(id)
<1>1. id \in RolloutId /\ Namesakes[id] \subseteq RolloutId
  BY OtaAssumption DEF IInv, TypeOK
<1>2. \A i \in RolloutId : exec[i][d] \in Says(outcome) => exec'[i][d] = exec[i][d]
  BY SaysAnswers DEF JobsMove
<1>3. \A i \in Known : i \in RolloutId /\ i \in Known' /\ origin'[i] = origin[i]
  BY DEF RolloutsMove, OriginsMove, IInv, TypeOK
<1>4. NamesOwnOnly(id)' => NamesOwnOnly(id)
  BY <1>3 DEF NamesOwnOnly
<1>5. QED  BY <1>1, <1>2, <1>4

LEMMA AnsweredStays ==
  ASSUME IInv, RolloutsMove, JobsMove, NEW id \in Known, NEW d \in Device,
         NEW outcome \in Done, Answered(id, d, outcome)
  PROVE  Answered(id, d, outcome)'
  BY AnswersStay DEF Answered

(* So what is real stays real, and what was heard stays as good.           *)
LEMMA RealStays ==
  ASSUME IInv, RolloutsMove, JobsMove, NEW id \in Known, NEW result \in WaveResult,
         IsReal(id, result)
  PROVE  IsReal(id, result)'
<1>1. DOMAIN result \subseteq Device
  BY DEF WaveResult
<1>2. ASSUME NEW d \in DOMAIN result, result[d] \in Done
      PROVE  Answered(id, d, result[d])'
  <2>1. PICK outcome \in Done : outcome = result[d]
    BY <1>2
  <2>2. Answered(id, d, outcome)
    BY <1>2, <2>1 DEF IsReal
  <2>3. d \in Device
    BY <1>1
  <2>4. Answered(id, d, outcome)'
    BY <2>2, <2>3, AnsweredStays
  <2>5. QED  BY <2>1, <2>4
<1>3. QED  BY <1>2 DEF IsReal

LEMMA HeardStays ==
  ASSUME IInv, RolloutsMove, JobsMove, NEW id \in Known, NEW result \in WaveResult,
         IsHeard(id, result)
  PROVE  IsHeard(id, result)'
<1>1. DOMAIN result \subseteq Device
  BY DEF WaveResult
<1>2. rollouts[id].status = "ROLLED_BACK" => rollouts'[id].status = "ROLLED_BACK"
  BY DEF RolloutsMove, Later
<1>3. ASSUME NEW d \in DOMAIN result, result[d] \in Done
      PROVE  /\ \E i \in Namesakes[id] : exec'[i][d] \in Says(result[d])
             /\ (NamesOwnOnly(id)' /\ rollouts'[id].status # "ROLLED_BACK") =>
                  exec'[id][d] \in Says(result[d])
  <2>1. PICK outcome \in Done : outcome = result[d]
    BY <1>3
  <2>2. /\ \E i \in Namesakes[id] : exec[i][d] \in Says(outcome)
        /\ (NamesOwnOnly(id) /\ rollouts[id].status # "ROLLED_BACK") =>
             exec[id][d] \in Says(outcome)
    BY <1>3, <2>1 DEF IsHeard
  <2>3. d \in Device
    BY <1>1
  <2>4. /\ \E i \in Namesakes[id] : exec'[i][d] \in Says(outcome)
        /\ exec[id][d] \in Says(outcome) => exec'[id][d] \in Says(outcome)
        /\ NamesOwnOnly(id)' => NamesOwnOnly(id)
    BY <2>2, <2>3, AnswersStay
  <2>5. QED  BY <1>2, <2>1, <2>2, <2>4
<1>4. QED  BY <1>3 DEF IsHeard, Says

(* The results of a rollout in the repository are results.                 *)
LEMMA ResultsAreResults ==
  ASSUME NEW r \in RolloutRecord, NEW k \in DOMAIN r.results
  PROVE  r.results[k] \in WaveResult
<1>1. r.results \in Seq(WaveResult)
  BY DEF RolloutRecord
<1>2. QED  BY <1>1, LenProperties, ElementOfSeq

(* A step of that kind keeps the invariant.                                *)
LEMMA StepKeeps ==
  ASSUME IInv, NEW t \in Thread, NEW q,
         RolloutsMove, JobsMove, Serves(t, q), OthersStay(t),
         ResultsAreReal',
         UNCHANGED <<devices, stable, setting>>
  PROVE  IInv'
<1>1. TypeOK'
  <2>1. ASSUME NEW u \in Thread, threads'[u] # Idle PROVE threads'[u].id \in Known'
    BY <2>1 DEF IInv, TypeOK, Serves, RolloutsMove
  <2>2. threads' \in [Thread -> Request]
    BY DEF IInv, TypeOK, Serves
  <2>3. QED
    BY <2>1, <2>2 DEF IInv, TypeOK, RolloutsMove, OriginsMove, JobsMove, First
<1>2. AllSound'
  BY DEF RolloutsMove, AllSound
<1>3. JobsAreOffered'
  <2>1. ASSUME NEW id \in RolloutId, NEW d \in Device, exec[id][d] # "none"
        PROVE  id \in Known' /\ Offered(rollouts'[id], d)
    <3>1. id \in Known /\ Offered(rollouts[id], d)
      BY <2>1 DEF IInv, JobsAreOffered
    <3>2. id \in Known' /\ Later(rollouts[id], rollouts'[id])
      BY <3>1 DEF RolloutsMove
    <3>3. rollouts[id].current \in Nat /\ rollouts'[id].current \in Nat
      BY <3>1, <3>2 DEF IInv, TypeOK, RolloutsMove, RolloutRecord
    <3>4. rollouts[id].waves \in Seq(SUBSET Device)
      BY <3>1 DEF IInv, TypeOK, RolloutRecord
    <3>5. QED  BY <3>1, <3>2, <3>3, <3>4 DEF Offered, Later
  <2>2. QED  BY <2>1 DEF JobsAreOffered, JobsMove
<1>4. AnnouncedOnce'
  <2>1. ASSUME NEW u \in Thread, Announces(u)'
        PROVE  IsAnnounceable(threads[u].id, threads[u].wave)'
    <3>1. CASE u = t
      BY <2>1, <3>1 DEF Serves, Announces, IInv, TypeOK
    <3>2. CASE u # t
      <4>1. threads'[u] = threads[u] /\ Announces(u)
        BY <2>1, <3>2 DEF Serves, Announces, IInv, TypeOK
      <4> DEFINE id == threads[u].id
                 r == rollouts[id]
      <4>2. id \in Known
        BY <4>1, RequestForms DEF IInv, TypeOK, Announces, Idle
      <4>3. Later(r, rollouts'[id]) /\ id \in Known'
        BY <4>2 DEF RolloutsMove
      <4>4. r.current \in Nat /\ rollouts'[id].current \in Nat /\ r.waves \in Seq(SUBSET Device)
        BY <4>2, <4>3 DEF IInv, TypeOK, RolloutsMove, RolloutRecord
      <4>5. IsAnnounceable(id, threads[u].wave)
        BY <4>1 DEF IInv, AnnouncedOnce
      <4>6. PICK k \in DOMAIN r.waves : k <= r.current + 1 /\ threads[u].wave = r.waves[k]
        BY <4>5 DEF IsAnnounceable
      <4>7. /\ k \in DOMAIN rollouts'[id].waves
            /\ k <= rollouts'[id].current + 1
            /\ threads[u].wave = rollouts'[id].waves[k]
        BY <4>3, <4>4, <4>6 DEF Later
      <4>8. \A d \in threads[u].wave : exec'[id][d] = "none"
        BY <3>2, <4>1 DEF OthersStay
      <4>9. QED  BY <4>1, <4>7, <4>8 DEF IsAnnounceable
    <3>3. QED  BY <3>1, <3>2
  <2>2. ASSUME NEW u \in Thread, NEW v \in Thread, Announces(u)', Announces(v)',
               threads'[u].id = threads'[v].id, threads'[u].wave = threads'[v].wave
        PROVE  u = v
    BY <2>2 DEF IInv, TypeOK, AnnouncedOnce, Serves, Announces
  <2>3. QED  BY <2>1, <2>2 DEF AnnouncedOnce
<1>5. RecoveriesAreNew'
  <2>1. ASSUME NEW u \in Thread, Recovers(u)' PROVE threads'[u].new \notin Known'
    BY <2>1 DEF IInv, TypeOK, Serves, OthersStay, Recovers
  <2>2. ASSUME NEW u \in Thread, NEW v \in Thread, Recovers(u)', Recovers(v)',
               threads'[u].new = threads'[v].new
        PROVE  u = v
    BY <2>2 DEF IInv, TypeOK, RecoveriesAreNew, Serves, Recovers
  <2>3. QED  BY <2>1, <2>2 DEF RecoveriesAreNew
<1>6. HeardIsReal'
  <2>1. ASSUME NEW u \in Thread, threads'[u].op = "record"
        PROVE  IsHeard(threads[u].id, threads[u].outcomes)'
    <3>1. CASE u = t
      BY <2>1, <3>1 DEF Serves, IInv, TypeOK
    <3>2. CASE u # t
      <4>1. threads'[u] = threads[u]
        BY <3>2 DEF Serves, IInv, TypeOK
      <4>2. threads[u].id \in Known /\ threads[u].outcomes \in WaveResult
        BY <2>1, <4>1, RequestForms DEF IInv, TypeOK, Idle
      <4>3. IsHeard(threads[u].id, threads[u].outcomes)
        BY <2>1, <4>1 DEF IInv, HeardIsReal
      <4>4. PICK id \in Known, result \in WaveResult :
              id = threads[u].id /\ result = threads[u].outcomes
        BY <4>2
      <4>5. IsHeard(id, result)'
        BY <4>3, <4>4, HeardStays
      <4>6. threads'[u].id = id /\ threads'[u].outcomes = result
        BY <4>1, <4>4
      <4>7. QED  BY <4>5, <4>6 DEF IsHeard
    <3>3. QED  BY <3>1, <3>2
  <2>2. QED  BY <2>1 DEF HeardIsReal
<1>7. OutcomesAreReal'
  <2>1. OutcomesAreReal' <=> ResultsAreReal'
    BY RealOutcomes, PTL
  <2>2. QED  BY <2>1
<1>8. VersionWasInstalled'
  <2>1. ASSUME NEW d \in Device, devices'[d].version # First'
        PROVE  \E id \in Known' : /\ rollouts'[id].version = devices'[d].version
                                  /\ Answered(id, d, "SUCCEEDED")'
    <3>1. devices'[d].version = devices[d].version /\ devices[d].version # First
      BY <2>1 DEF First
    <3>2. PICK id \in Known : /\ rollouts[id].version = devices[d].version
                              /\ Answered(id, d, "SUCCEEDED")
      BY <3>1 DEF IInv, VersionWasInstalled
    <3>3. id \in Known' /\ rollouts'[id].version = rollouts[id].version
      BY DEF RolloutsMove, Later
    <3>4. PICK outcome \in Done : outcome = "SUCCEEDED"
      BY DEF Done
    <3>5. Answered(id, d, outcome)'
      BY <3>2, <3>4, AnsweredStays
    <3>6. QED  BY <3>1, <3>2, <3>3, <3>4, <3>5
  <2>2. QED  BY <2>1 DEF VersionWasInstalled
<1>9. RecoveriesFollow'
  <2>1. ASSUME NEW i \in RolloutId, origin'[i] # "none"
        PROVE  /\ i \in Known' /\ origin'[i] \in Known'
               /\ rollouts'[origin'[i]].status = "ROLLED_BACK"
    <3>1. CASE origin'[i] = origin[i]
      <4>1. i \in Known /\ origin[i] \in Known /\ rollouts[origin[i]].status = "ROLLED_BACK"
        BY <2>1, <3>1 DEF IInv, RecoveriesFollow
      <4>2. QED  BY <3>1, <4>1 DEF RolloutsMove, Later
    <3>2. CASE origin'[i] # origin[i]
      BY <3>2 DEF RolloutsMove, OriginsMove
    <3>3. QED  BY <3>1, <3>2
  <2>2. QED  BY <2>1 DEF RecoveriesFollow
<1>10. QED
  BY <1>1, <1>2, <1>3, <1>4, <1>5, <1>6, <1>7, <1>8, <1>9 DEF IInv

-----------------------------------------------------------------------------
(* What the use cases do to a rollout                                      *)

(* The methods keep the version a rollout is about.                        *)
LEMMA VersionStays ==
  ASSUME NEW r \in RolloutRecord, NEW outcomes, NEW policy
  PROVE  /\ Started(r).version = r.version
         /\ Recorded(r, outcomes, policy).version = r.version
         /\ Advanced(r).version = r.version
         /\ Halted(r).version = r.version
         /\ RolledBack(r).version = r.version
         /\ Pulled(r).version = r.version
  BY DEF RolloutRecord, Started, Recorded, Advanced, Halted, RolledBack, Pulled, RecordEvent

(* The type of a plan, with a name of its own for the provers' sake.       *)
WaveSeq == Seq(SUBSET Device)

(* A cut that can be planned is a sequence of waves with a first one.      *)
LEMMA CutsAreWaves ==
  ASSUME NEW targets \in SUBSET Device, NEW list \in WaveLists,
         NEW waves \in Cuts(targets, list), NEW policy, CanPlan(waves, policy)
  PROVE  waves \in WaveSeq /\ 1 \in DOMAIN waves /\ waves[1] \in SUBSET Device
<1>1. PICK n \in 0 .. Len(list) + 1 : waves \in [1 .. n -> SUBSET targets]
  BY DEF Cuts
<1>2. Len(list) \in Nat
  BY OtaAssumption, LenProperties
<1>3. n \in Nat /\ waves \in [1 .. n -> SUBSET Device]
  BY <1>1, <1>2
<1>4. waves \in Seq(SUBSET Device)
  BY <1>3
<1>5. QED
  BY <1>4, FirstWave DEF CanPlan, WaveSeq

(* A new rollout, started: its first wave is the current one.              *)
LEMMA PlanFields ==
  ASSUME NEW version \in Version, NEW previous \in Version \cup {"none"},
         NEW waves \in WaveSeq, NEW policy, CanPlan(waves, policy),
         NEW s, s = Pulled(Started(Planned(version, previous, waves)))
  PROVE  /\ s \in RolloutRecord /\ Sound(s, Policies)
         /\ s.waves = waves /\ s.results = <<>> /\ s.current = 0
         /\ s.version = version
<1> DEFINE r == Planned(version, previous, waves)
<1>1. r \in RolloutRecord /\ Sound(r, Policies)
  BY PlannedKeeps DEF WaveSeq
<1>2. /\ r.waves = waves /\ r.results = <<>> /\ r.current = 0 /\ r.version = version
      /\ r.status = "PLANNED" /\ waves # <<>>
  BY DEF Planned, CanPlan
<1> HIDE DEF r
<1>3. Started(r) \in RolloutRecord /\ Sound(Started(r), Policies)
  BY <1>1, <1>2, StartedKeeps DEF CanStart
<1>4. QED
  BY <1>1, <1>2, <1>3, StartedFields, PulledFields, PulledKeeps, VersionStays DEF r

(* Recording, advancing, halting and rolling back: the rollout goes on,    *)
(* sound, and its results are the old ones but for the one recorded.       *)
LEMMA CallsMoveOn ==
  ASSUME NEW r \in RolloutRecord, Sound(r, Policies), NEW policy \in Policies,
         NEW outcomes \in WaveResult
  PROVE  /\ CanRecord(r, outcomes) =>
              LET s == Pulled(Recorded(r, outcomes, policy))
              IN  /\ s \in RolloutRecord /\ Sound(s, Policies) /\ Later(r, s)
                  /\ s.results = Append(r.results, Filled(r, outcomes))
         /\ CanAdvance(r, policy) =>
              /\ HasCurrentWave(r)
              /\ \A s \in {Advanced(r), Pulled(Advanced(r))} :
                   /\ s \in RolloutRecord /\ Sound(s, Policies) /\ Later(r, s)
                   /\ s.results = r.results /\ s.current = r.current + 1
         /\ CanHalt(r) =>
              LET s == Pulled(Halted(r))
              IN  /\ s \in RolloutRecord /\ Sound(s, Policies) /\ Later(r, s)
                  /\ s.results = r.results
         /\ CanRollBack(r) =>
              LET s == Pulled(RolledBack(r))
              IN  /\ s \in RolloutRecord /\ Sound(s, Policies) /\ Later(r, s)
                  /\ s.results = r.results
<1>0. r.current \in Nat
  BY DEF RolloutRecord
<1>1. ASSUME CanRecord(r, outcomes)
      PROVE  LET s == Pulled(Recorded(r, outcomes, policy))
             IN  /\ s \in RolloutRecord /\ Sound(s, Policies) /\ Later(r, s)
                 /\ s.results = Append(r.results, Filled(r, outcomes))
  <2>1. HasCurrentWave(r) /\ \E heard \in SUBSET CurrentWave(r) : outcomes \in [heard -> DeviceOutcome]
    BY <1>1 DEF CanRecord, WaveResult
  <2> DEFINE s == Recorded(r, outcomes, policy)
  <2>2. s \in RolloutRecord /\ Sound(s, Policies)
    BY <1>1, <2>1, RecordedKeeps
  <2>3. /\ s.waves = r.waves /\ s.results = Append(r.results, Filled(r, outcomes))
        /\ s.current = r.current
    BY <2>1, RecordedFields
  <2>4. s.version = r.version
    BY VersionStays
  <2> HIDE DEF s
  <2>5. /\ Pulled(s) \in RolloutRecord /\ Sound(Pulled(s), Policies) /\ Later(r, Pulled(s))
        /\ Pulled(s).results = Append(r.results, Filled(r, outcomes))
    BY <1>0, <1>1, <2>2, <2>3, <2>4, PulledFields, PulledKeeps, VersionStays
       DEF Later, CanRecord
  <2>6. QED  BY <2>5 DEF s
<1>2. ASSUME CanAdvance(r, policy)
      PROVE  /\ HasCurrentWave(r)
             /\ \A s \in {Advanced(r), Pulled(Advanced(r))} :
                  /\ s \in RolloutRecord /\ Sound(s, Policies) /\ Later(r, s)
                  /\ s.results = r.results /\ s.current = r.current + 1
  <2>1. HasCurrentWave(r)
    BY <1>2 DEF CanAdvance, Sound, PositionHolds
  <2> DEFINE s == Advanced(r)
  <2>2. s \in RolloutRecord /\ Sound(s, Policies)
    BY <1>2, AdvancedKeeps
  <2>3. s.waves = r.waves /\ s.results = r.results /\ s.current = r.current + 1
    BY <2>1, AdvancedFields
  <2>4. s.version = r.version
    BY VersionStays
  <2> HIDE DEF s
  <2>5. /\ Pulled(s) \in RolloutRecord /\ Sound(Pulled(s), Policies)
        /\ Later(r, s) /\ Later(r, Pulled(s))
        /\ Pulled(s).results = r.results /\ Pulled(s).current = r.current + 1
    BY <1>0, <1>2, <2>2, <2>3, <2>4, PulledFields, PulledKeeps, VersionStays
       DEF Later, CanAdvance
  <2>6. QED  BY <2>1, <2>2, <2>3, <2>5 DEF s
<1>3. ASSUME CanHalt(r)
      PROVE  LET s == Pulled(Halted(r))
             IN  /\ s \in RolloutRecord /\ Sound(s, Policies) /\ Later(r, s)
                 /\ s.results = r.results
  <2>1. Halted(r) \in RolloutRecord /\ Sound(Halted(r), Policies)
    BY <1>3, PausingKeeps
  <2>2. QED
    BY <1>0, <1>3, <2>1, PausingFields, PulledFields, PulledKeeps, VersionStays
       DEF Later, CanHalt
<1>4. ASSUME CanRollBack(r)
      PROVE  LET s == Pulled(RolledBack(r))
             IN  /\ s \in RolloutRecord /\ Sound(s, Policies) /\ Later(r, s)
                 /\ s.results = r.results
  <2>1. RolledBack(r) \in RolloutRecord /\ Sound(RolledBack(r), Policies)
    BY <1>4, ClosingKeeps
  <2>2. QED
    BY <1>0, <2>1, ClosingFields, PulledFields, PulledKeeps, VersionStays DEF Later
<1>5. QED  BY <1>1, <1>2, <1>3, <1>4

(* Saving one rollout, new or gone on.                                     *)
LEMMA SavedMoves ==
  ASSUME IInv, NEW id \in RolloutId, NEW s \in RolloutRecord, Sound(s, Policies),
         rollouts' = Saved(id, s), UNCHANGED origin,
         id \in Known => Later(rollouts[id], s)
  PROVE  /\ RolloutsMove
         /\ Known' = Known \cup {id}
         /\ rollouts'[id] = s
         /\ \A i \in Known \ {id} : rollouts'[i] = rollouts[i]
<1>1. /\ Known' = Known \cup {id}
      /\ rollouts'[id] = s
      /\ \A i \in Known \ {id} : rollouts'[i] = rollouts[i]
  BY DEF Saved, Known
<1>2. \A i \in Known : i \in RolloutId /\ rollouts[i] \in RolloutRecord /\ Sound(rollouts[i], Policies)
  BY DEF IInv, TypeOK, AllSound
<1>3. \A i \in Known : rollouts[i].current \in Nat
  BY <1>2 DEF RolloutRecord
<1>4. OriginsMove
  BY DEF OriginsMove, IInv, TypeOK
<1>5. QED  BY <1>1, <1>2, <1>3, <1>4 DEF RolloutsMove, Later

(* Saving it leaves the recorded outcomes real when its own are.           *)
LEMMA SavedIsReal ==
  ASSUME IInv, RolloutsMove, JobsMove, NEW id \in RolloutId, NEW s,
         Known' = Known \cup {id}, rollouts'[id] = s,
         \A i \in Known \ {id} : rollouts'[i] = rollouts[i],
         s.results = <<>> \/ id \in Known,
         \A k \in DOMAIN s.results : s.results[k] \in WaveResult /\ IsReal(id, s.results[k])
  PROVE  ResultsAreReal'
<1>1. ASSUME NEW i \in Known', NEW k \in DOMAIN rollouts'[i].results
      PROVE  IsReal(i, rollouts[i].results[k])'
  <2>1. CASE i = id
    <3>1. id \in Known /\ rollouts'[i].results[k] = s.results[k]
      BY <1>1, <2>1, EmptySeq
    <3>2. PICK result \in WaveResult : result = s.results[k] /\ IsReal(id, result)
      BY <1>1, <2>1
    <3>3. IsReal(id, result)'
      BY <3>1, <3>2, RealStays
    <3>4. rollouts'[i].results[k] = result
      BY <3>1, <3>2
    <3>5. QED  BY <2>1, <3>3, <3>4 DEF IsReal
  <2>2. CASE i # id
    <3>1. i \in Known /\ rollouts'[i] = rollouts[i]
      BY <2>2
    <3>2. IsReal(i, rollouts[i].results[k])
      BY <1>1, <3>1, RealOutcomes DEF IInv, ResultsAreReal
    <3>3. rollouts[i] \in RolloutRecord
      BY <3>1 DEF IInv, TypeOK
    <3>4. PICK result \in WaveResult : result = rollouts[i].results[k]
      BY <1>1, <3>1, <3>3, ResultsAreResults
    <3>5. IsReal(i, result)'
      BY <3>1, <3>2, <3>4, RealStays
    <3>6. rollouts'[i].results[k] = result
      BY <3>1, <3>4
    <3>7. QED  BY <3>5, <3>6 DEF IsReal
  <2>3. QED  BY <2>1, <2>2
<1>2. QED  BY <1>1 DEF ResultsAreReal

(* A step that leaves the jobs and the repository's ids alone disturbs no  *)
(* other request.                                                          *)
LEMMA JobsStay ==
  ASSUME IInv, UNCHANGED exec, NEW t \in Thread
  PROVE  /\ JobsMove
         /\ (\A u \in Thread \ {t} : Recovers(u) => threads[u].new \notin Known') => OthersStay(t)
  BY DEF IInv, TypeOK, JobsMove, OthersStay, AnnouncedOnce, IsAnnounceable

(* Going idle is always in order.                                          *)
LEMMA IdleServes ==
  ASSUME NEW t, Becomes(t, Idle)
  PROVE  Serves(t, Idle)
  BY RequestsMade DEF Becomes, Serves

(* Reading the jobs of a rollout nobody has saved: there are none.         *)
LEMMA UnknownHasNoJobs ==
  ASSUME IInv, NEW id \in RolloutId, id \notin Known, NEW d \in Device
  PROVE  exec[id][d] = "none"
  BY DEF IInv, JobsAreOffered

(* Answers only come to be: what was recorded stays real.                  *)
LEMMA JobsMoveKeepsReal ==
  ASSUME IInv, RolloutsMove, JobsMove, UNCHANGED rollouts
  PROVE  ResultsAreReal'
<1>1. ASSUME NEW id \in Known, NEW k \in DOMAIN rollouts[id].results
      PROVE  IsReal(id, rollouts[id].results[k])'
  <2>1. IsReal(id, rollouts[id].results[k])
    BY RealOutcomes DEF IInv, ResultsAreReal
  <2>2. rollouts[id] \in RolloutRecord
    BY DEF IInv, TypeOK
  <2>3. PICK result \in WaveResult : result = rollouts[id].results[k]
    BY <2>2, ResultsAreResults
  <2>4. IsReal(id, result)'
    BY <2>1, <2>3, RealStays
  <2>5. rollouts'[id].results[k] = result
    BY <2>3
  <2>6. QED  BY <2>4, <2>5 DEF IsReal
<1>2. QED  BY <1>1 DEF ResultsAreReal, Known

(* Where the repository stays as it is, so does all that is said of it.    *)
LEMMA RepositoryStays ==
  ASSUME IInv, UNCHANGED <<rollouts, origin>>
  PROVE  RolloutsMove
<1>1. OriginsMove
  BY DEF OriginsMove, IInv, TypeOK
<1>2. QED
  BY <1>1 DEF IInv, TypeOK, AllSound, RolloutsMove, Later, Known, RolloutRecord

-----------------------------------------------------------------------------
(* The use cases, one lemma each                                           *)

(* A new rollout has no jobs, and its first wave is the one announced.     *)
LEMMA PlanKeeps ==
  ASSUME IInv, NEW t \in Thread, PlanRollout(t)
  PROVE  IInv'
<1>1. PICK id \in Fresh, version \in Version, previous \in Previous,
           list \in WaveLists, policy \in Policies :
        \E waves \in Cuts(Reachable, list) :
          /\ CanPlan(waves, policy)
          /\ rollouts' = Saved(id, Pulled(Started(Planned(version, previous, waves))))
          /\ Becomes(t, Announcing(id, waves[1]))
  BY DEF PlanRollout
<1>2. PICK waves \in Cuts(Reachable, list) :
        /\ CanPlan(waves, policy)
        /\ rollouts' = Saved(id, Pulled(Started(Planned(version, previous, waves))))
        /\ Becomes(t, Announcing(id, waves[1]))
  BY <1>1
<1>3. id \in RolloutId /\ id \notin Known /\ \A u \in Thread : Recovers(u) => threads[u].new # id
  BY DEF Fresh, Recovers
<1>4. previous \in Version \cup {"none"}
  BY DEF Previous, Dominant, IInv, TypeOK
<1>5. waves \in WaveSeq /\ 1 \in DOMAIN waves /\ waves[1] \in SUBSET Device
  <2>1. Reachable \in SUBSET Device
    BY DEF Reachable
  <2>2. QED  BY <1>2, <2>1, CutsAreWaves
<1>6. PICK s \in RolloutRecord :
        /\ rollouts' = Saved(id, s)
        /\ Sound(s, Policies)
        /\ s.waves = waves /\ s.results = <<>> /\ s.current = 0
  <2> DEFINE s == Pulled(Started(Planned(version, previous, waves)))
  <2>1. /\ s \in RolloutRecord /\ Sound(s, Policies)
        /\ s.waves = waves /\ s.results = <<>> /\ s.current = 0
    BY <1>2, <1>4, <1>5, PlanFields
  <2>2. QED  BY <1>2, <2>1
<1> DEFINE q == Announcing(id, waves[1])
<1>7. UNCHANGED <<devices, stable, exec, setting, origin>>
  BY DEF PlanRollout
<1>8. /\ RolloutsMove /\ Known' = Known \cup {id} /\ rollouts'[id] = s
      /\ \A i \in Known \ {id} : rollouts'[i] = rollouts[i]
  BY <1>3, <1>6, <1>7, SavedMoves
<1>9. JobsMove /\ OthersStay(t)
  <2>1. \A u \in Thread \ {t} : Recovers(u) => threads[u].new \notin Known'
    BY <1>3, <1>8 DEF IInv, RecoveriesAreNew
  <2>2. QED  BY <1>7, <2>1, JobsStay
<1>10. ResultsAreReal'
  BY <1>3, <1>6, <1>8, <1>9, EmptySeq, SavedIsReal
<1>11. Serves(t, q)
  <2>1. q \in Request /\ q.op = "announce" /\ q.id = id /\ q.wave = waves[1]
    BY <1>3, <1>5, RequestsMade
  <2> HIDE DEF q
  <2>2. IsAnnounceable(q.id, q.wave)'
    <3>1. \A d \in waves[1] : exec'[id][d] = "none"
      BY <1>3, <1>5, <1>7, UnknownHasNoJobs
    <3>2. 1 <= rollouts'[id].current + 1 /\ waves[1] = rollouts'[id].waves[1]
      BY <1>6, <1>8
    <3>3. QED  BY <1>5, <1>6, <1>8, <2>1, <3>1, <3>2 DEF IsAnnounceable
  <2>3. \A u \in Thread : Announces(u) => threads[u].id # id
    BY <1>3, RequestForms DEF IInv, TypeOK, Announces, Idle
  <2>4. threads' = [threads EXCEPT ![t] = q]
    BY <1>2 DEF Becomes, q
  <2>5. QED  BY <1>8, <2>1, <2>2, <2>3, <2>4 DEF Serves
<1>12. QED
  BY <1>7, <1>8, <1>9, <1>10, <1>11, StepKeeps

(* The wave had no jobs, so announcing it takes back no answer.            *)
LEMMA AnnounceKeeps ==
  ASSUME IInv, NEW t \in Thread, Announce(t) \/ AnnounceFails(t)
  PROVE  IInv'
<1> DEFINE id == threads[t].id
           wave == threads[t].wave
           r == rollouts[id]
<1>1. Announces(t) /\ Becomes(t, Idle)
  BY DEF Announce, AnnounceFails, Announces
<1>2. UNCHANGED <<devices, stable, rollouts, setting, origin>>
  BY DEF Announce, AnnounceFails
<1>3. id \in RolloutId /\ id \in Known /\ r \in RolloutRecord /\ PlanHolds(r)
  BY <1>1, RequestForms DEF IInv, TypeOK, AllSound, Sound, Announces, Idle
<1>4. PICK k \in DOMAIN r.waves : k <= r.current + 1 /\ wave = r.waves[k]
  BY <1>1 DEF IInv, AnnouncedOnce, IsAnnounceable
<1>5. \A d \in wave : exec[id][d] = "none"
  BY <1>1 DEF IInv, AnnouncedOnce, IsAnnounceable
<1>6. RolloutsMove
  BY <1>2, RepositoryStays
<1>7. exec \in [RolloutId -> [Device -> Execution]]
  BY DEF IInv, TypeOK
<1>8. JobsMove /\ OthersStay(t)
  <2>1. CASE AnnounceFails(t)
    BY <1>2, <2>1, JobsStay DEF AnnounceFails, IInv, RecoveriesAreNew, Known
  <2>2. CASE Announce(t)
    <3>1. exec' = [exec EXCEPT ![id] = [d \in Device |-> IF d \in wave THEN "QUEUED" ELSE @[d]]]
      BY <2>2 DEF Announce
    <3>2. exec' \in [RolloutId -> [Device -> Execution]]
      BY <1>3, <1>7, <3>1 DEF Execution
    <3>3. ASSUME NEW i \in RolloutId, NEW d \in Device
          PROVE  exec'[i][d] = IF i = id /\ d \in wave THEN "QUEUED" ELSE exec[i][d]
      BY <1>3, <1>7, <3>1
    <3>4. ASSUME NEW i \in RolloutId, NEW d \in Device
          PROVE  /\ exec[i][d] \in Answer => exec'[i][d] = exec[i][d]
                 /\ exec'[i][d] # "none" =>
                      exec[i][d] # "none" \/ (i \in Known' /\ Offered(rollouts'[i], d))
      BY <1>2, <1>3, <1>4, <1>5, <3>3 DEF Answer, Offered, Known
    <3>5. ASSUME NEW u \in Thread \ {t}, Announces(u), NEW d \in threads[u].wave
          PROVE  exec'[threads[u].id][d] = "none"
      <4>1. threads[u].id \in RolloutId /\ threads[u].wave \in SUBSET Device
        BY <3>5, RequestForms DEF IInv, TypeOK, Announces
      <4>2. IsAnnounceable(threads[u].id, threads[u].wave)
        BY <3>5 DEF IInv, AnnouncedOnce
      <4>3. exec[threads[u].id][d] = "none"
        BY <4>2 DEF IsAnnounceable
      <4>4. CASE threads[u].id = id
        <5>1. PICK l \in DOMAIN r.waves : threads[u].wave = r.waves[l]
          BY <4>2, <4>4 DEF IsAnnounceable
        <5>2. threads[u].wave # wave
          BY <1>1, <3>5, <4>4 DEF IInv, AnnouncedOnce
        <5>3. d \notin wave
          BY <1>3, <1>4, <5>1, <5>2 DEF PlanHolds
        <5>4. QED  BY <3>3, <4>1, <4>3, <5>3
      <4>5. CASE threads[u].id # id
        BY <3>3, <4>1, <4>3, <4>5
      <4>6. QED  BY <4>4, <4>5
    <3>6. \A u \in Thread \ {t} : Recovers(u) => threads[u].new \notin Known'
      BY <1>2 DEF IInv, RecoveriesAreNew, Known
    <3>7. QED  BY <3>2, <3>4, <3>5, <3>6 DEF JobsMove, OthersStay
  <2>3. QED  BY <2>1, <2>2
<1>9. ResultsAreReal'
  BY <1>2, <1>6, <1>8, JobsMoveKeepsReal
<1>10. QED
  BY <1>1, <1>2, <1>6, <1>8, <1>9, IdleServes, StepKeeps

(* What the gateway hears is what some job with the prefix came to; while  *)
(* the rollout is not rolled back it has no recovery that could answer.    *)
LEMMA HeardAnswers ==
  ASSUME IInv, NEW id \in Known, NEW d \in Device, NEW outcome \in Heard(id, d)
  PROVE  /\ outcome \in DeviceOutcome
         /\ outcome \in Done =>
              /\ \E i \in Namesakes[id] : exec[i][d] \in Says(outcome)
              /\ (NamesOwnOnly(id) /\ rollouts[id].status # "ROLLED_BACK") =>
                   exec[id][d] \in Says(outcome)
<1>1. /\ id \in RolloutId /\ Namesakes[id] \subseteq RolloutId
      /\ \A i \in RolloutId : exec[i][d] \in Execution
  BY OtaAssumption DEF IInv, TypeOK
<1>2. CASE outcome = "PENDING"
  BY <1>2 DEF DeviceOutcome, Done
<1>3. CASE \E i \in Namesakes[id] : exec[i][d] # "none" /\ outcome = OutcomeOf(exec[i][d])
  <2>1. PICK i \in Namesakes[id] : exec[i][d] # "none" /\ outcome = OutcomeOf(exec[i][d])
    BY <1>3
  <2>2. exec[i][d] \in Execution \ {"none"}
    BY <1>1, <2>1
  <2>3. outcome \in DeviceOutcome
    BY <2>1, <2>2 DEF OutcomeOf, Execution, DeviceOutcome
  <2>4. exec[i][d] \in Says(outcome)
    BY <2>1, <2>2 DEF Says
  <2>5. ASSUME NamesOwnOnly(id), rollouts[id].status # "ROLLED_BACK"
        PROVE  i = id
    <3>1. i \in Known
      BY <1>1, <2>1 DEF IInv, JobsAreOffered
    <3>2. SUFFICES ASSUME i # id PROVE FALSE
      OBVIOUS
    <3>3. origin[i] = id
      BY <2>1, <2>5, <3>1, <3>2 DEF NamesOwnOnly
    <3>4. id # "none"
      BY <1>1, OtaAssumption
    <3>5. QED  BY <1>1, <2>1, <2>5, <3>3, <3>4 DEF IInv, RecoveriesFollow
  <2>6. QED  BY <2>1, <2>3, <2>4, <2>5
<1>4. QED  BY <1>2, <1>3 DEF Heard

(* What is collected of the current wave has been heard.                   *)
LEMMA CollectKeeps ==
  ASSUME IInv, NEW t \in Thread, Collect(t)
  PROVE  IInv'
<1>1. PICK id \in Known :
        /\ HasCurrentWave(rollouts[id])
        /\ \E outcomes \in [CurrentWave(rollouts[id]) -> UNION {Heard(id, d) : d \in Device}] :
             /\ \A d \in CurrentWave(rollouts[id]) : outcomes[d] \in Heard(id, d)
             /\ Becomes(t, Recording(id, outcomes))
  BY DEF Collect
<1> DEFINE r == rollouts[id]
<1>2. UNCHANGED <<devices, stable, rollouts, exec, setting, origin>>
  BY DEF Collect
<1>3. id \in RolloutId /\ r \in RolloutRecord
  BY DEF IInv, TypeOK
<1>4. CurrentWave(r) \in SUBSET Device
  <2>1. r.waves \in Seq(SUBSET Device) /\ r.current \in Nat
    BY <1>3 DEF RolloutRecord
  <2>2. r.current + 1 \in 1 .. Len(r.waves)
    BY <1>1, <2>1, LenProperties DEF HasCurrentWave
  <2>3. QED  BY <2>1, <2>2, ElementOfSeq DEF CurrentWave
<1>5. PICK outcomes \in [CurrentWave(r) -> UNION {Heard(id, d) : d \in Device}] :
        /\ \A d \in CurrentWave(r) : outcomes[d] \in Heard(id, d)
        /\ Becomes(t, Recording(id, outcomes))
  BY <1>1
<1>6. outcomes \in WaveResult
  <2>1. \A d \in CurrentWave(r) : outcomes[d] \in DeviceOutcome
    BY <1>4, <1>5, HeardAnswers
  <2>2. outcomes \in [CurrentWave(r) -> DeviceOutcome]
    BY <2>1
  <2>3. QED  BY <1>4, <2>2 DEF WaveResult
<1>7. IsHeard(id, outcomes)
  BY <1>4, <1>5, HeardAnswers DEF IsHeard
<1> DEFINE q == Recording(id, outcomes)
<1>8. q \in Request /\ q.op = "record" /\ q.id = id /\ q.outcomes = outcomes
  BY <1>3, <1>6, RequestsMade
<1>9. threads' = [threads EXCEPT ![t] = q]
  BY <1>5 DEF Becomes
<1> HIDE DEF q
<1>10. RolloutsMove
  BY <1>2, RepositoryStays
<1>11. JobsMove /\ OthersStay(t)
  BY <1>2, JobsStay DEF IInv, RecoveriesAreNew, Known
<1>12. Serves(t, q)
  <2>1. IsHeard(id, outcomes)'
    BY <1>6, <1>7, <1>10, <1>11, HeardStays
  <2>2. IsHeard(q.id, q.outcomes)'
    BY <1>8, <2>1 DEF IsHeard
  <2>3. q.id \in Known'
    BY <1>2, <1>8 DEF Known
  <2>4. QED  BY <1>8, <1>9, <2>2, <2>3 DEF Serves
<1>13. ResultsAreReal'
  BY <1>2, <1>10, <1>11, JobsMoveKeepsReal
<1>14. QED
  BY <1>2, <1>10, <1>11, <1>12, <1>13, StepKeeps

(* A step that saves one rollout that has gone on, with results as real as *)
(* before, and leaves its thread idle.                                     *)
LEMMA SavingKeeps ==
  ASSUME IInv, NEW t \in Thread, NEW id \in Known, NEW s \in RolloutRecord,
         Sound(s, Policies), Later(rollouts[id], s),
         \A i \in DOMAIN s.results : IsReal(id, s.results[i]),
         rollouts' = Saved(id, s), Becomes(t, Idle),
         UNCHANGED <<devices, stable, exec, setting, origin>>
  PROVE  IInv'
<1>1. id \in RolloutId
  BY DEF IInv, TypeOK
<1>2. /\ RolloutsMove /\ Known' = Known \cup {id} /\ rollouts'[id] = s
      /\ \A i \in Known \ {id} : rollouts'[i] = rollouts[i]
  BY <1>1, SavedMoves
<1>3. JobsMove /\ OthersStay(t)
  BY <1>2, JobsStay DEF IInv, RecoveriesAreNew
<1>4. ResultsAreReal'
  BY <1>1, <1>2, <1>3, ResultsAreResults, SavedIsReal
<1>5. QED
  BY <1>2, <1>3, <1>4, IdleServes, StepKeeps

(* What is recorded of a rollout in the repository is real.                *)
LEMMA OwnResultsAreReal ==
  ASSUME IInv, NEW id \in Known
  PROVE  \A i \in DOMAIN rollouts[id].results : IsReal(id, rollouts[id].results[i])
  BY RealOutcomes DEF IInv, ResultsAreReal

(* A late answer is recorded only about the wave it was asked for, and is  *)
(* still true; a device it says nothing of is PENDING.                     *)
LEMMA RecordKeeps ==
  ASSUME IInv, NEW t \in Thread, Record(t)
  PROVE  IInv'
<1> DEFINE id == threads[t].id
           outcomes == threads[t].outcomes
           r == rollouts[id]
<1>1. /\ threads[t].op = "record"
      /\ Becomes(t, Idle)
      /\ UNCHANGED <<devices, stable, exec, setting, origin>>
      /\ \/ /\ CanRecord(r, outcomes)
            /\ \E policy \in Policies :
                 rollouts' = Saved(id, Pulled(Recorded(r, outcomes, policy)))
         \/ UNCHANGED rollouts
  BY DEF Record
<1>2. id \in Known /\ outcomes \in WaveResult
  BY <1>1, RequestForms DEF IInv, TypeOK, Idle
<1>3. r \in RolloutRecord /\ Sound(r, Policies)
  BY <1>2 DEF IInv, TypeOK, AllSound
<1>4. IsHeard(id, outcomes)
  BY <1>1 DEF IInv, HeardIsReal
<1>5. \A i \in DOMAIN r.results : IsReal(id, r.results[i])
  BY <1>2, OwnResultsAreReal
<1>6. CASE CanRecord(r, outcomes) /\ \E policy \in Policies :
             rollouts' = Saved(id, Pulled(Recorded(r, outcomes, policy)))
  <2>1. PICK policy \in Policies : rollouts' = Saved(id, Pulled(Recorded(r, outcomes, policy)))
    BY <1>6
  <2> DEFINE s == Pulled(Recorded(r, outcomes, policy))
             result == Filled(r, outcomes)
  <2>2. /\ s \in RolloutRecord /\ Sound(s, Policies) /\ Later(r, s)
        /\ s.results = Append(r.results, result)
    BY <1>2, <1>3, <1>6, CallsMoveOn
  <2> HIDE DEF s
  <2>3. IsReal(id, result)
    <3>1. r.status # "ROLLED_BACK"
      BY <1>6 DEF CanRecord
    <3>2. \A d \in DOMAIN result :
            result[d] \in Done => d \in DOMAIN outcomes /\ result[d] = outcomes[d]
      BY DEF Filled, Done
    <3> HIDE DEF result
    <3>3. QED  BY <1>4, <3>1, <3>2 DEF IsReal, IsHeard, Answered
  <2> HIDE DEF result
  <2>4. ASSUME NEW i \in DOMAIN s.results PROVE IsReal(id, s.results[i])
    <3> DEFINE n == Len(r.results)
    <3>1. r.results \in Seq(WaveResult) /\ s.results \in Seq(WaveResult)
      BY <1>3, <2>2 DEF RolloutRecord
    <3>2. n \in Nat /\ DOMAIN r.results = 1 .. n /\ DOMAIN s.results = 1 .. n + 1
      BY <2>2, <3>1, LenProperties
    <3>3. \A j \in 1 .. n : s.results[j] = r.results[j]
      BY <2>2, <3>1
    <3>4. s.results[n + 1] = result
      BY <2>2, <3>1
    <3> HIDE DEF n
    <3>5. QED  BY <1>5, <2>3, <3>2, <3>3, <3>4
  <2>5. rollouts' = Saved(id, s)
    BY <2>1 DEF s
  <2>6. QED
    BY <1>1, <1>2, <2>2, <2>4, <2>5, SavingKeeps
<1>7. CASE UNCHANGED rollouts
  <2>1. RolloutsMove
    BY <1>1, <1>7, RepositoryStays
  <2>2. JobsMove /\ OthersStay(t)
    BY <1>1, <1>7, JobsStay DEF IInv, RecoveriesAreNew, Known
  <2>3. ResultsAreReal'
    BY <1>7, <2>1, <2>2, JobsMoveKeepsReal
  <2>4. QED
    BY <1>1, <2>1, <2>2, <2>3, IdleServes, StepKeeps
<1>8. QED  BY <1>1, <1>6, <1>7

(* A free thread stays idle when its use case calls nobody.                *)
LEMMA FreeStaysIdle ==
  ASSUME IInv, NEW t \in Thread, Free(t), UNCHANGED threads
  PROVE  Becomes(t, Idle)
  BY DEF IInv, TypeOK, Free, Becomes

(* Halting calls nobody and touches no job.                                *)
LEMMA HaltKeeps ==
  ASSUME IInv, NEW t \in Thread, HaltRollout(t)
  PROVE  IInv'
<1>1. PICK id \in Known :
        CanHalt(rollouts[id]) /\ rollouts' = Saved(id, Pulled(Halted(rollouts[id])))
  BY DEF HaltRollout
<1> DEFINE r == rollouts[id]
           s == Pulled(Halted(r))
<1>2. r \in RolloutRecord /\ Sound(r, Policies)
  BY DEF IInv, TypeOK, AllSound
<1>3. s \in RolloutRecord /\ Sound(s, Policies) /\ Later(r, s) /\ s.results = r.results
  <2>1. r.current \in Nat
    BY <1>2 DEF RolloutRecord
  <2>2. Halted(r) \in RolloutRecord /\ Sound(Halted(r), Policies)
    BY <1>1, <1>2, PausingKeeps
  <2>3. QED
    BY <1>1, <1>2, <2>1, <2>2, PausingFields, PulledFields, PulledKeeps, VersionStays
       DEF Later, CanHalt
<1> HIDE DEF s
<1>4. rollouts' = Saved(id, s)
  BY <1>1 DEF s
<1>5. Becomes(t, Idle) /\ UNCHANGED <<devices, stable, exec, setting, origin>>
  BY FreeStaysIdle DEF HaltRollout
<1>6. QED
  BY <1>3, <1>4, <1>5, OwnResultsAreReal, SavingKeeps

(* The next wave has not been started, so nobody of it has a job, and no   *)
(* other thread is about to announce it.                                   *)
LEMMA AdvanceKeeps ==
  ASSUME IInv, NEW t \in Thread, AdvanceRollout(t)
  PROVE  IInv'
<1>1. PICK id \in Known, policy \in Policies :
        /\ CanAdvance(rollouts[id], policy)
        /\ \/ /\ rollouts' = Saved(id, Advanced(rollouts[id]))
              /\ UNCHANGED threads
           \/ /\ ~ AdvanceRaises(rollouts[id])
              /\ rollouts' = Saved(id, Pulled(Advanced(rollouts[id])))
              /\ Becomes(t, Announcing(id, CurrentWave(Advanced(rollouts[id]))))
  BY DEF AdvanceRollout
<1> DEFINE r == rollouts[id]
<1>2. r \in RolloutRecord /\ Sound(r, Policies) /\ id \in RolloutId
  BY DEF IInv, TypeOK, AllSound
<1>3. UNCHANGED <<devices, stable, exec, setting, origin>> /\ Free(t)
  BY DEF AdvanceRollout
<1>4. /\ HasCurrentWave(r)
      /\ \A s \in {Advanced(r), Pulled(Advanced(r))} :
           /\ s \in RolloutRecord /\ Sound(s, Policies) /\ Later(r, s)
           /\ s.results = r.results /\ s.current = r.current + 1
  <2>1. <<>> \in [{} -> DeviceOutcome]
    OBVIOUS
  <2>2. <<>> \in WaveResult
    BY <2>1 DEF WaveResult
  <2>3. QED  BY <1>1, <1>2, <2>2, CallsMoveOn
<1>5. CASE rollouts' = Saved(id, Advanced(r)) /\ UNCHANGED threads
  <2>1. Becomes(t, Idle)
    BY <1>3, <1>5, FreeStaysIdle
  <2>2. QED
    BY <1>3, <1>4, <1>5, <2>1, OwnResultsAreReal, SavingKeeps
<1>6. CASE /\ ~ AdvanceRaises(r)
           /\ rollouts' = Saved(id, Pulled(Advanced(r)))
           /\ Becomes(t, Announcing(id, CurrentWave(Advanced(r))))
  <2>1. PICK wave : wave = CurrentWave(Advanced(r))
    OBVIOUS
  <2> DEFINE s == Pulled(Advanced(r))
             q == Announcing(id, wave)
  <2>2. s \in RolloutRecord /\ Sound(s, Policies) /\ Later(r, s) /\ s.results = r.results
    BY <1>4
  <2>3. s.current = r.current + 1 /\ s.waves = r.waves
    BY <1>4 DEF Later
  <2>4. r.waves \in Seq(SUBSET Device) /\ r.current \in Nat
    BY <1>2 DEF RolloutRecord
  <2>5. r.current + 2 \in DOMAIN r.waves /\ wave = r.waves[r.current + 2]
    <3>1. Advanced(r).current = r.current + 1 /\ Advanced(r).waves = r.waves
      BY <1>4 DEF Later
    <3>2. r.current + 1 < Len(r.waves)
      BY <1>2, <1>6 DEF AdvanceRaises, HasCurrentWave, RolloutRecord
    <3>3. QED  BY <2>1, <2>4, <3>1, <3>2, LenProperties DEF CurrentWave
  <2>6. wave \in SUBSET Device
    BY <2>4, <2>5, LenProperties, ElementOfSeq
  <2> HIDE DEF s
  <2>7. rollouts' = Saved(id, s)
    BY <1>6 DEF s
  <2>8. /\ RolloutsMove /\ Known' = Known \cup {id} /\ rollouts'[id] = s
        /\ \A i \in Known \ {id} : rollouts'[i] = rollouts[i]
    BY <1>2, <1>3, <2>2, <2>7, SavedMoves
  <2>9. JobsMove /\ OthersStay(t)
    BY <1>3, <2>8, JobsStay DEF IInv, RecoveriesAreNew
  <2>10. ResultsAreReal'
    BY <1>2, <2>2, <2>8, <2>9, OwnResultsAreReal, ResultsAreResults, SavedIsReal
  <2>11. \A d \in wave : exec[id][d] = "none"
    <3>1. SUFFICES ASSUME NEW d \in wave, exec[id][d] # "none" PROVE FALSE
      OBVIOUS
    <3>2. PICK k \in DOMAIN r.waves : k <= r.current + 1 /\ d \in r.waves[k]
      BY <1>2, <2>6, <3>1 DEF IInv, JobsAreOffered, Offered
    <3>3. k # r.current + 2
      BY <2>4, <3>2, LenProperties
    <3>4. QED  BY <1>2, <2>5, <3>2, <3>3 DEF Sound, PlanHolds
  <2>12. ASSUME NEW u \in Thread, Announces(u), threads[u].id = id
         PROVE  threads[u].wave # wave
    <3>1. PICK k \in DOMAIN r.waves : k <= r.current + 1 /\ threads[u].wave = r.waves[k]
      BY <2>12 DEF IInv, AnnouncedOnce, IsAnnounceable
    <3>2. k # r.current + 2
      BY <2>4, <3>1, LenProperties
    <3>3. QED  BY <1>2, <2>5, <3>1, <3>2, WavesDiffer DEF Sound
  <2>13. Serves(t, q)
    <3>1. q \in Request /\ q.op = "announce" /\ q.id = id /\ q.wave = wave
      BY <1>2, <2>6, RequestsMade
    <3>2. threads' = [threads EXCEPT ![t] = q]
      BY <1>6, <2>1 DEF Becomes
    <3> HIDE DEF q
    <3>3. IsAnnounceable(q.id, q.wave)'
      <4>1. /\ r.current + 2 \in DOMAIN rollouts'[id].waves
            /\ r.current + 2 <= rollouts'[id].current + 1
            /\ wave = rollouts'[id].waves[r.current + 2]
        BY <2>3, <2>4, <2>5, <2>8
      <4>2. \A d \in wave : exec'[id][d] = "none"
        BY <1>3, <2>11
      <4>3. QED  BY <3>1, <4>1, <4>2 DEF IsAnnounceable
    <3>4. QED  BY <2>8, <2>12, <3>1, <3>2, <3>3 DEF Serves
  <2>14. QED
    BY <1>3, <2>8, <2>9, <2>10, <2>13, StepKeeps
<1>7. QED  BY <1>1, <1>5, <1>6

(* The jobs nobody has begun of these rollouts are taken back.             *)
Cancels(cancelled) ==
  exec' = [i \in RolloutId |-> [d \in Device |->
    IF i \in cancelled /\ exec[i][d] = "QUEUED" THEN "CANCELED" ELSE exec[i][d]]]

(* Cancelling takes back jobs nobody has begun, never an answer.           *)
LEMMA RollbackKeeps ==
  ASSUME IInv, NEW t \in Thread, Rollback(t)
  PROVE  IInv'
<1>1. PICK id \in Known, new \in Fresh, target \in Version, affected \in SUBSET Device :
        /\ Becomes(t, Recovering(id, new, target, affected))
        /\ \E cancelled \in SUBSET (Namesakes[id] \cap Known) : Cancels(cancelled)
  <2>1. PICK id \in Known, new \in Fresh, asked \in Version \cup {"none"} :
          LET target == IF asked # "none" THEN asked ELSE rollouts[id].previous
              received == {d \in Reachable : devices[d].version = rollouts[id].version}
              affected == IF received # {} THEN received ELSE Reachable
          IN  /\ target # "none"
              /\ Becomes(t, Recovering(id, new, target, affected))
              /\ \E cancelled \in SUBSET (Namesakes[id] \cap Known) : Cancels(cancelled)
    BY DEF Rollback, Cancels
  <2> DEFINE target == IF asked # "none" THEN asked ELSE rollouts[id].previous
             received == {d \in Reachable : devices[d].version = rollouts[id].version}
             affected == IF received # {} THEN received ELSE Reachable
  <2>2. rollouts[id].previous \in Version \cup {"none"}
    BY DEF IInv, TypeOK, RolloutRecord
  <2>3. target \in Version
    BY <2>1, <2>2
  <2>4. affected \in SUBSET Device
    BY DEF Reachable
  <2> HIDE DEF target, affected
  <2>5. /\ Becomes(t, Recovering(id, new, target, affected))
        /\ \E cancelled \in SUBSET (Namesakes[id] \cap Known) : Cancels(cancelled)
    BY <2>1 DEF target, affected
  <2>6. QED  BY <2>3, <2>4, <2>5
<1> DEFINE q == Recovering(id, new, target, affected)
<1>2. UNCHANGED <<devices, stable, rollouts, setting, origin>>
  BY DEF Rollback
<1>3. /\ id \in RolloutId
      /\ new \in RolloutId /\ new \notin Known
      /\ \A u \in Thread : Recovers(u) => threads[u].new # new
      /\ exec \in [RolloutId -> [Device -> Execution]]
  BY DEF IInv, TypeOK, Fresh, Recovers
<1>4. q \in Request /\ q.op = "recover" /\ q.id = id /\ q.new = new
  BY <1>1, <1>3, RequestsMade
<1>5. threads' = [threads EXCEPT ![t] = q]
  BY <1>1 DEF Becomes
<1> HIDE DEF q
<1>6. Serves(t, q)
  BY <1>2, <1>3, <1>4, <1>5 DEF Serves, Known
<1>7. RolloutsMove
  BY <1>2, RepositoryStays
<1>8. ASSUME NEW i \in RolloutId, NEW d \in Device
      PROVE  \/ exec'[i][d] = exec[i][d]
             \/ exec[i][d] = "QUEUED" /\ exec'[i][d] = "CANCELED"
  BY <1>1 DEF Cancels
<1>9. JobsMove
  <2>1. exec' \in [RolloutId -> [Device -> Execution]]
    BY <1>1, <1>3 DEF Cancels, Execution
  <2>2. QED  BY <1>8, <2>1 DEF JobsMove, Answer
<1>10. OthersStay(t)
  <2>1. ASSUME NEW u \in Thread \ {t}, Announces(u), NEW d \in threads[u].wave
        PROVE  exec'[threads[u].id][d] = "none"
    <3>1. threads[u].id \in RolloutId /\ threads[u].wave \in SUBSET Device
      BY <2>1, RequestForms DEF IInv, TypeOK, Announces
    <3>2. exec[threads[u].id][d] = "none"
      BY <2>1 DEF IInv, AnnouncedOnce, IsAnnounceable
    <3>3. QED  BY <1>8, <3>1, <3>2
  <2>2. QED  BY <1>2, <2>1 DEF OthersStay, IInv, RecoveriesAreNew, Known
<1>11. ResultsAreReal'
  BY <1>2, <1>7, <1>9, JobsMoveKeepsReal
<1>12. QED
  BY <1>2, <1>6, <1>7, <1>9, <1>10, <1>11, StepKeeps

(* The old rollout is marked, and the recovery, when it can be planned, is *)
(* a rollout of its own under an id nobody else will use.                  *)
LEMMA RecoverKeeps ==
  ASSUME IInv, NEW t \in Thread, Recover(t)
  PROVE  IInv'
<1> DEFINE id == threads[t].id
           new == threads[t].new
           old == rollouts[id]
           marked == Pulled(RolledBack(old))
<1>1. /\ Recovers(t)
      /\ UNCHANGED <<devices, stable, exec, setting>>
      /\ \/ Becomes(t, Idle) /\ UNCHANGED <<rollouts, origin>>
         \/ /\ CanRollBack(old)
            /\ \E list \in WaveLists, policy \in Policies :
                 \E waves \in Cuts(threads[t].affected, list) :
                   \/ /\ rollouts' = Saved(id, marked)
                      /\ Becomes(t, Idle)
                      /\ UNCHANGED origin
                   \/ /\ CanPlan(waves, policy)
                      /\ rollouts' =
                           [i \in Known \cup {new} |->
                              IF i = new
                              THEN Pulled(Started(Planned(threads[t].target, old.version, waves)))
                              ELSE IF i = id THEN marked ELSE rollouts[i]]
                      /\ Becomes(t, Announcing(new, waves[1]))
                      /\ origin' = [origin EXCEPT ![new] = id]
  BY DEF Recover, Recovers
<1>2. /\ id \in Known /\ id \in RolloutId /\ new \in RolloutId /\ new \notin Known
      /\ threads[t].target \in Version /\ threads[t].affected \in SUBSET Device
  BY <1>1, RequestForms DEF IInv, TypeOK, Recovers, RecoveriesAreNew, Idle
<1>3. old \in RolloutRecord /\ Sound(old, Policies)
  BY <1>2 DEF IInv, TypeOK, AllSound
<1>4. CASE Becomes(t, Idle) /\ UNCHANGED <<rollouts, origin>>
  <2>1. RolloutsMove
    BY <1>4, RepositoryStays
  <2>2. JobsMove /\ OthersStay(t)
    BY <1>1, <1>4, JobsStay DEF IInv, RecoveriesAreNew, Known
  <2>3. ResultsAreReal'
    BY <1>4, <2>1, <2>2, JobsMoveKeepsReal
  <2>4. QED
    BY <1>1, <1>4, <2>1, <2>2, <2>3, IdleServes, StepKeeps
<1>5. ASSUME CanRollBack(old)
      PROVE  /\ marked \in RolloutRecord /\ Sound(marked, Policies) /\ Later(old, marked)
             /\ marked.results = old.results /\ marked.status = "ROLLED_BACK"
  <2>1. old.current \in Nat
    BY <1>3 DEF RolloutRecord
  <2>2. RolledBack(old) \in RolloutRecord /\ Sound(RolledBack(old), Policies)
    BY <1>3, <1>5, ClosingKeeps
  <2>3. QED
    BY <1>3, <2>1, <2>2, ClosingFields, PulledFields, PulledKeeps, VersionStays DEF Later
<1>6. CASE /\ CanRollBack(old) /\ rollouts' = Saved(id, marked) /\ Becomes(t, Idle)
           /\ UNCHANGED origin
  BY <1>1, <1>2, <1>5, <1>6, OwnResultsAreReal, SavingKeeps
<1>7. ASSUME CanRollBack(old), NEW list \in WaveLists, NEW policy \in Policies,
             NEW waves \in Cuts(threads[t].affected, list), CanPlan(waves, policy),
             rollouts' =
               [i \in Known \cup {new} |->
                  IF i = new
                  THEN Pulled(Started(Planned(threads[t].target, old.version, waves)))
                  ELSE IF i = id THEN marked ELSE rollouts[i]],
             Becomes(t, Announcing(new, waves[1])),
             origin' = [origin EXCEPT ![new] = id]
      PROVE  IInv'
  <2>1. waves \in WaveSeq /\ 1 \in DOMAIN waves /\ waves[1] \in SUBSET Device
    BY <1>2, <1>7, CutsAreWaves
  <2>2. old.version \in Version \cup {"none"}
    BY <1>3 DEF RolloutRecord
  <2>3. PICK s : s = Pulled(Started(Planned(threads[t].target, old.version, waves)))
    OBVIOUS
  <2>4. /\ s \in RolloutRecord /\ Sound(s, Policies)
        /\ s.waves = waves /\ s.results = <<>> /\ s.current = 0
    <3>1. PICK target, version : target = threads[t].target /\ version = old.version
      OBVIOUS
    <3>2. /\ target \in Version /\ version \in Version \cup {"none"}
          /\ s = Pulled(Started(Planned(target, version, waves))) /\ CanPlan(waves, policy)
      BY <1>2, <1>7, <2>2, <2>3, <3>1
    <3> HIDE <1>1, <1>2, <1>7, <2>3, <3>1
    <3>3. QED  BY <2>1, <3>2, PlanFields
  <2> HIDE DEF marked
  <2>5. /\ Known' = Known \cup {new}
        /\ rollouts'[new] = s
        /\ rollouts'[id] = marked
        /\ \A i \in Known \ {id} : rollouts'[i] = rollouts[i]
    BY <1>2, <1>7, <2>3 DEF Known
  <2>6. RolloutsMove
    <3>1. \A i \in Known : /\ i \in RolloutId /\ rollouts[i] \in RolloutRecord
                           /\ Sound(rollouts[i], Policies) /\ rollouts[i].current \in Nat
      BY DEF IInv, TypeOK, AllSound, RolloutRecord
    <3>2. OriginsMove
      <4>1. origin \in [RolloutId -> RolloutId \cup {"none"}]
        BY DEF IInv, TypeOK
      <4>2. /\ origin' \in [RolloutId -> RolloutId \cup {"none"}]
            /\ origin'[new] = id
            /\ \A i \in RolloutId \ {new} : origin'[i] = origin[i]
        BY <1>2, <1>7, <4>1
      <4>3. rollouts'[id].status = "ROLLED_BACK"
        BY <1>5, <1>7, <2>5
      <4>4. QED  BY <1>2, <2>5, <4>2, <4>3 DEF OriginsMove
    <3>3. QED  BY <1>2, <1>5, <1>7, <2>4, <2>5, <3>1, <3>2 DEF RolloutsMove, Later
  <2>7. JobsMove /\ OthersStay(t)
    <3>1. \A u \in Thread \ {t} : Recovers(u) => threads[u].new \notin Known'
      BY <1>1, <2>5 DEF IInv, RecoveriesAreNew
    <3>2. QED  BY <1>1, <3>1, JobsStay
  <2>8. ResultsAreReal'
    <3>1. ASSUME NEW i \in Known', NEW j \in DOMAIN rollouts'[i].results
          PROVE  IsReal(i, rollouts[i].results[j])'
      <4>1. i # new
        BY <2>4, <2>5, <3>1, EmptySeq
      <4>2. i \in Known /\ rollouts'[i].results = rollouts[i].results
        BY <1>5, <1>7, <2>5, <4>1
      <4>3. IsReal(i, rollouts[i].results[j])
        BY <3>1, <4>2, OwnResultsAreReal
      <4>4. rollouts[i] \in RolloutRecord
        BY <4>2 DEF IInv, TypeOK
      <4>5. PICK result \in WaveResult : result = rollouts[i].results[j]
        BY <3>1, <4>2, <4>4, ResultsAreResults
      <4>6. IsReal(i, result)'
        BY <2>6, <2>7, <4>2, <4>3, <4>5, RealStays
      <4>7. rollouts'[i].results[j] = result
        BY <4>2, <4>5
      <4>8. QED  BY <4>6, <4>7 DEF IsReal
    <3>2. QED  BY <3>1 DEF ResultsAreReal
  <2>9. PICK q : q = Announcing(new, waves[1])
    OBVIOUS
  <2>10. PICK c : c = new
    OBVIOUS
  <2>11. Serves(t, q)
    <3>1. q \in Request /\ q.op = "announce" /\ q.id = c /\ q.wave = waves[1]
      BY <1>2, <2>1, <2>9, <2>10, RequestsMade
    <3>2. threads' = [threads EXCEPT ![t] = q]
      <4>1. Becomes(t, q)
        BY <1>7, <2>9, Zenon
      <4>2. QED  BY <4>1 DEF Becomes
    <3>3. IsAnnounceable(q.id, q.wave)'
      <4>1. \A d \in waves[1] : exec'[c][d] = "none"
        BY <1>1, <1>2, <2>1, <2>10, UnknownHasNoJobs
      <4>2. /\ 1 \in DOMAIN rollouts'[c].waves
            /\ 1 <= rollouts'[c].current + 1
            /\ waves[1] = rollouts'[c].waves[1]
        BY <2>1, <2>4, <2>5, <2>10
      <4>3. QED  BY <3>1, <4>1, <4>2 DEF IsAnnounceable
    <3>4. \A u \in Thread : Announces(u) => threads[u].id # c
      BY <1>2, <2>10, RequestForms DEF IInv, TypeOK, Announces, Idle
    <3>5. c \in Known'
      BY <2>5, <2>10
    <3>6. QED  BY <3>1, <3>2, <3>3, <3>4, <3>5 DEF Serves
  <2>12. UNCHANGED <<devices, stable, setting>>
    BY <1>1
  <2> HIDE <1>1, <1>7
  <2>13. QED
    BY <2>6, <2>7, <2>8, <2>11, <2>12, StepKeeps
<1>8. CASE /\ CanRollBack(old)
           /\ \E list \in WaveLists, policy \in Policies :
                \E waves \in Cuts(threads[t].affected, list) :
                  /\ CanPlan(waves, policy)
                  /\ rollouts' =
                       [i \in Known \cup {new} |->
                          IF i = new
                          THEN Pulled(Started(Planned(threads[t].target, old.version, waves)))
                          ELSE IF i = id THEN marked ELSE rollouts[i]]
                  /\ Becomes(t, Announcing(new, waves[1]))
                  /\ origin' = [origin EXCEPT ![new] = id]
  BY <1>7, <1>8, Zenon
<1>9. QED  BY <1>1, <1>4, <1>6, <1>8, Zenon

-----------------------------------------------------------------------------
(* The fleet, the outside and the devices                                  *)

(* A step that leaves rollouts, jobs and requests alone need only keep the *)
(* types and what the fleet says of its devices.                           *)
LEMMA FleetStepKeeps ==
  ASSUME IInv, UNCHANGED <<rollouts, exec, threads, origin>>, First' = First,
         setting' \in Setting, stable' \in Version \cup {"none"},
         devices' \in [Device -> [status : DeviceStatus, version : Version \cup {First}]],
         \A d \in Device :
           \/ devices'[d].version = devices[d].version
           \/ \E id \in Known : /\ rollouts[id].version = devices'[d].version
                                /\ Answered(id, d, "SUCCEEDED")
  PROVE  IInv'
<1>1. TypeOK' /\ AllSound'
  BY DEF IInv, TypeOK, AllSound, Known
<1>2. JobsAreOffered' /\ AnnouncedOnce' /\ RecoveriesAreNew' /\ RecoveriesFollow'
  BY DEF IInv, JobsAreOffered, AnnouncedOnce, RecoveriesAreNew, RecoveriesFollow, Known,
         Announces, Recovers, IsAnnounceable
<1>3. HeardIsReal' /\ OutcomesAreReal'
  BY DEF IInv, HeardIsReal, OutcomesAreReal, IsHeard, Answered, NamesOwnOnly, Known
<1>4. VersionWasInstalled'
  BY DEF IInv, VersionWasInstalled, Answered, NamesOwnOnly, Known
<1>5. QED  BY <1>1, <1>2, <1>3, <1>4 DEF IInv

(* Only devices whose success was recorded are told of, and a recorded     *)
(* success is one (ApplyRolloutOutcomes).                                  *)
LEMMA ApplyKeeps ==
  ASSUME IInv, NEW t \in Thread, Apply(t)
  PROVE  IInv'
<1>1. PICK id \in Known, some \in SUBSET Device :
        /\ some \subseteq {d \in Device : \E i \in DOMAIN rollouts[id].results :
                             /\ d \in DOMAIN rollouts[id].results[i]
                             /\ rollouts[id].results[i][d] = "SUCCEEDED"}
        /\ devices' = [d \in Device |->
             IF d \in some THEN [status |-> "HEALTHY", version |-> rollouts[id].version]
             ELSE devices[d]]
  BY DEF Apply
<1>2. UNCHANGED <<stable, rollouts, exec, threads, setting, origin>>
  BY DEF Apply
<1>3. rollouts[id].version \in Version
  BY DEF IInv, TypeOK, RolloutRecord
<1>4. devices' \in [Device -> [status : DeviceStatus, version : Version \cup {First}]]
  BY <1>1, <1>3 DEF IInv, TypeOK, DeviceStatus
<1>5. ASSUME NEW d \in Device
      PROVE  \/ devices'[d].version = devices[d].version
             \/ \E i \in Known : /\ rollouts[i].version = devices'[d].version
                                 /\ Answered(i, d, "SUCCEEDED")
  <2>1. CASE d \in some
    <3>1. PICK i \in DOMAIN rollouts[id].results :
            d \in DOMAIN rollouts[id].results[i] /\ rollouts[id].results[i][d] = "SUCCEEDED"
      BY <1>1, <2>1
    <3>2. Answered(id, d, "SUCCEEDED")
      BY <3>1, OwnResultsAreReal DEF IsReal, Done
    <3>3. devices'[d].version = rollouts[id].version
      BY <1>1, <2>1
    <3>4. QED  BY <3>2, <3>3
  <2>2. CASE d \notin some
    BY <1>1, <2>2
  <2>3. QED  BY <2>1, <2>2
<1>6. First' = First /\ setting' \in Setting /\ stable' \in Version \cup {"none"}
  BY <1>2 DEF IInv, TypeOK, First
<1>7. QED
  BY <1>2, <1>4, <1>5, <1>6, FleetStepKeeps

(* Marking a device and promoting a release touch no version.              *)
LEMMA OutsideKeeps ==
  ASSUME IInv, Mark \/ Promote
  PROVE  IInv'
<1>1. /\ setting.marks > 0 /\ setting' = [setting EXCEPT !.marks = @ - 1]
      /\ UNCHANGED <<rollouts, exec, threads, origin>>
  BY DEF Mark, Promote
<1>2. setting' \in Setting /\ First' = First
  <2>1. setting \in Setting
    BY DEF IInv, TypeOK
  <2>2. PICK left \in Nat : left = setting.marks - 1
    BY <1>1, <2>1 DEF Setting
  <2>3. setting' = [setting EXCEPT !.marks = left]
    BY <1>1, <2>2
  <2>4. QED  BY <2>1, <2>3, Zenon DEF Setting, First
<1>3. CASE Mark
  <2>1. PICK d \in Device, status \in Statuses :
          devices' = [devices EXCEPT ![d].status = status]
    BY <1>3 DEF Mark
  <2>2. status \in DeviceStatus
    BY OtaAssumption
  <2>3. /\ devices' \in [Device -> [status : DeviceStatus, version : Version \cup {First}]]
        /\ \A e \in Device : devices'[e].version = devices[e].version
    BY <2>1, <2>2 DEF IInv, TypeOK
  <2>4. stable' \in Version \cup {"none"}
    BY <1>3 DEF Mark, IInv, TypeOK
  <2>5. QED  BY <1>1, <1>2, <2>3, <2>4, FleetStepKeeps
<1>4. CASE Promote
  <2>1. stable' \in Version \cup {"none"} /\ UNCHANGED devices
    BY <1>4 DEF Promote
  <2>2. devices' \in [Device -> [status : DeviceStatus, version : Version \cup {First}]]
    BY <2>1 DEF IInv, TypeOK
  <2>3. QED  BY <1>1, <1>2, <2>1, <2>2, FleetStepKeeps
<1>5. QED  BY <1>3, <1>4

(* A job is taken up and comes to an end, once.                            *)
LEMMA DeviceKeeps ==
  ASSUME IInv, NEW d \in Device, Begin(d) \/ Install(d) \/ NotInstalled(d)
  PROVE  IInv'
<1>1. PICK id \in Known, word \in Execution \ {"none"} :
        /\ exec[id][d] \in {"QUEUED", "IN_PROGRESS"}
        /\ exec' = [exec EXCEPT ![id][d] = word]
  BY DEF Begin, Install, NotInstalled, IInv, TypeOK, Setting, BadEnds, Execution
<1>2. UNCHANGED <<devices, stable, rollouts, threads, setting, origin>>
  BY DEF Begin, Install, NotInstalled
<1>3. id \in RolloutId /\ exec \in [RolloutId -> [Device -> Execution]]
  BY DEF IInv, TypeOK
<1>4. ASSUME NEW i \in RolloutId, NEW e \in Device
      PROVE  exec'[i][e] = IF i = id /\ e = d THEN word ELSE exec[i][e]
  BY <1>1, <1>3
<1>5. exec' \in [RolloutId -> [Device -> Execution]]
  BY <1>1, <1>3
<1>6. JobsMove
  BY <1>1, <1>4, <1>5 DEF JobsMove, Answer
<1>7. RolloutsMove
  BY <1>2, RepositoryStays
<1>8. TypeOK'
  BY <1>2, <1>5 DEF IInv, TypeOK, Known, First
<1>9. AllSound' /\ RecoveriesAreNew' /\ RecoveriesFollow'
  BY <1>2 DEF IInv, AllSound, RecoveriesAreNew, RecoveriesFollow, Known, Recovers
<1>10. JobsAreOffered'
  BY <1>1, <1>2, <1>4 DEF IInv, JobsAreOffered, Known
<1>11. AnnouncedOnce'
  <2>1. ASSUME NEW t \in Thread, Announces(t)
        PROVE  IsAnnounceable(threads[t].id, threads[t].wave)'
    <3>1. threads[t].id \in RolloutId /\ threads[t].wave \in SUBSET Device
      BY <2>1, RequestForms DEF IInv, TypeOK, Announces
    <3>2. IsAnnounceable(threads[t].id, threads[t].wave)
      BY <2>1 DEF IInv, AnnouncedOnce
    <3>3. \A e \in threads[t].wave : exec'[threads[t].id][e] = "none"
      BY <1>1, <1>4, <3>1, <3>2 DEF IsAnnounceable
    <3>4. QED  BY <1>2, <3>2, <3>3 DEF IsAnnounceable
  <2>2. QED  BY <1>2, <2>1 DEF IInv, AnnouncedOnce, Announces
<1>12. HeardIsReal'
  <2>1. ASSUME NEW t \in Thread, threads[t].op = "record"
        PROVE  IsHeard(threads[t].id, threads[t].outcomes)'
    <3>1. threads[t].id \in Known /\ threads[t].outcomes \in WaveResult
      BY <2>1, RequestForms DEF IInv, TypeOK, Idle
    <3>2. PICK i \in Known, result \in WaveResult :
            i = threads[t].id /\ result = threads[t].outcomes
      BY <3>1
    <3>3. IsHeard(i, result)
      BY <2>1, <3>2 DEF IInv, HeardIsReal
    <3>4. IsHeard(i, result)'
      BY <1>6, <1>7, <3>3, HeardStays
    <3>5. threads'[t].id = i /\ threads'[t].outcomes = result
      BY <1>2, <3>2
    <3>6. QED  BY <3>4, <3>5 DEF IsHeard
  <2>2. QED  BY <1>2, <2>1 DEF HeardIsReal
<1>13. OutcomesAreReal'
  <2>1. ResultsAreReal'
    BY <1>2, <1>6, <1>7, JobsMoveKeepsReal
  <2>2. OutcomesAreReal' <=> ResultsAreReal'
    BY RealOutcomes, PTL
  <2>3. QED  BY <2>1, <2>2
<1>14. VersionWasInstalled'
  <2>1. ASSUME NEW e \in Device, devices[e].version # First
        PROVE  \E i \in Known : /\ rollouts[i].version = devices[e].version
                                /\ Answered(i, e, "SUCCEEDED")'
    <3>1. PICK i \in Known : /\ rollouts[i].version = devices[e].version
                             /\ Answered(i, e, "SUCCEEDED")
      BY <2>1 DEF IInv, VersionWasInstalled
    <3>2. PICK outcome \in Done : outcome = "SUCCEEDED"
      BY DEF Done
    <3>3. Answered(i, e, outcome)'
      BY <1>6, <1>7, <3>1, <3>2, AnsweredStays
    <3>4. QED  BY <3>1, <3>2, <3>3
  <2>2. QED  BY <1>2, <2>1 DEF VersionWasInstalled, Known, First
<1>15. QED
  BY <1>8, <1>9, <1>10, <1>11, <1>12, <1>13, <1>14 DEF IInv

-----------------------------------------------------------------------------
(* At the start there are no rollouts, no jobs and no requests.            *)
LEMMA InitEstablishes == ASSUME Init PROVE IInv
<1>1. Known = {}
  BY DEF Init, Known
<1>2. TypeOK
  <2>1. setting \in Setting /\ First \in Version \cup {"none"}
    BY OtaAssumption DEF Init, First, Setting
  <2>2. devices \in [Device -> [status : DeviceStatus, version : Version \cup {First}]]
    BY DEF Init, DeviceStatus
  <2>3. exec \in [RolloutId -> [Device -> Execution]]
    BY DEF Init, Execution
  <2>4. threads \in [Thread -> Request] /\ \A t \in Thread : threads[t] = Idle
    BY RequestsMade DEF Init
  <2>5. stable \in Version \cup {"none"} /\ origin \in [RolloutId -> RolloutId \cup {"none"}]
    BY DEF Init
  <2>6. QED  BY <1>1, <2>1, <2>2, <2>3, <2>4, <2>5 DEF TypeOK
<1>3. AllSound /\ OutcomesAreReal
  BY <1>1 DEF AllSound, OutcomesAreReal
<1>4. JobsAreOffered
  BY DEF Init, JobsAreOffered
<1>5. AnnouncedOnce /\ RecoveriesAreNew /\ RecoveriesFollow /\ HeardIsReal
  BY DEF Init, Idle, AnnouncedOnce, RecoveriesAreNew, RecoveriesFollow, HeardIsReal,
         Announces, Recovers
<1>6. VersionWasInstalled
  BY DEF Init, VersionWasInstalled, First
<1>7. QED
  BY <1>2, <1>3, <1>4, <1>5, <1>6 DEF IInv

(* Every step keeps the invariant, one lemma per use case.                 *)
LEMMA NextKeeps == ASSUME IInv, [Next]_vars PROVE IInv'
<1>1. ASSUME NEW t \in Thread, UseCase(t) PROVE IInv'
  BY <1>1, PlanKeeps, AnnounceKeeps, CollectKeeps, RecordKeeps, AdvanceKeeps, HaltKeeps,
     RollbackKeeps, RecoverKeeps, ApplyKeeps DEF UseCase
<1>2. CASE Mark \/ Promote
  BY <1>2, OutsideKeeps
<1>3. ASSUME NEW d \in Device, Begin(d) \/ Install(d) \/ NotInstalled(d) PROVE IInv'
  BY <1>3, DeviceKeeps
<1>4. CASE UNCHANGED vars
  <2>1. /\ UNCHANGED <<rollouts, exec, threads, origin>> /\ First' = First
        /\ setting' \in Setting /\ stable' \in Version \cup {"none"}
        /\ UNCHANGED devices
        /\ devices' \in [Device -> [status : DeviceStatus, version : Version \cup {First}]]
    BY <1>4 DEF vars, First, IInv, TypeOK
  <2>2. QED  BY <2>1, FleetStepKeeps
<1>5. QED
  BY <1>1, <1>2, <1>3, <1>4 DEF Next

(* The use cases, the service and the devices keep IInv in every           *)
(* interleaving of any number of requests                                  *)
(* (application/fleet/release_and_rollout.py).                             *)
THEOREM OtaInvariant == Spec => []IInv
<1>1. Init => IInv
  BY InitEstablishes
<1>2. IInv /\ [Next]_vars => IInv'
  BY NextKeeps
<1>3. QED  BY <1>1, <1>2, PTL DEF Spec

(* Every variable keeps its type, and a request is about a rollout the     *)
(* repository holds.                                                       *)
THEOREM OtaTypes == Spec => []TypeOK
<1>1. IInv => TypeOK
  BY DEF IInv
<1>2. QED  BY <1>1, OtaInvariant, PTL

(* Every rollout of the repository keeps the aggregate's invariant, also   *)
(* where a use case fails after it has changed the live object.            *)
THEOREM RolloutsStaySound == Spec => []AllSound
<1>1. IInv => AllSound
  BY DEF IInv
<1>2. QED  BY <1>1, OtaInvariant, PTL

(* A device outside the first wave has a job only once the first wave has  *)
(* reported a result some policy lets through (Rollout.advance, read       *)
(* through the gateway).                                                   *)
THEOREM CanaryBeforeJobs == Spec => []CanaryContainsJobs
<1>1. ASSUME IInv PROVE CanaryContainsJobs
  <2>1. SUFFICES ASSUME NEW id \in Known, NEW d \in Device, exec[id][d] # "none",
                        d \notin rollouts[id].waves[1]
                 PROVE  CanaryPassed(rollouts[id], Policies)
    BY DEF CanaryContainsJobs
  <2> DEFINE r == rollouts[id]
  <2>2. id \in RolloutId /\ r \in RolloutRecord /\ Sound(r, Policies)
    BY <1>1 DEF IInv, TypeOK, AllSound
  <2>3. PICK k \in DOMAIN r.waves : k <= r.current + 1 /\ d \in r.waves[k]
    BY <1>1, <2>1, <2>2 DEF IInv, JobsAreOffered, Offered
  <2>4. r.waves \in Seq(SUBSET Device) /\ r.current \in Nat
    BY <2>2 DEF RolloutRecord
  <2>5. r.current > 0
    BY <2>1, <2>3, <2>4, LenProperties
  <2>6. QED  BY <2>2, <2>5 DEF Sound, CanaryHolds
<1>2. IInv => CanaryContainsJobs
  BY <1>1
<1>3. QED  BY <1>2, OtaInvariant, PTL

(* What a rollout records as done or failed the device has answered in a   *)
(* job with the rollout's prefix, and in the rollout's own job where the   *)
(* names with that prefix are its recoveries (CollectWave), however late   *)
(* the answer is written.                                                  *)
THEOREM RecordedIsReal == Spec => []OutcomesAreReal
<1>1. IInv => OutcomesAreReal
  BY DEF IInv
<1>2. QED  BY <1>1, OtaInvariant, PTL

(* A version the fleet holds for a device is that of a rollout the device  *)
(* has answered for (Fleet.report under ApplyRolloutOutcomes).             *)
THEOREM HeldVersionsAreInstalled == Spec => []VersionWasInstalled
<1>1. IInv => VersionWasInstalled
  BY DEF IInv
<1>2. QED  BY <1>1, OtaInvariant, PTL

-----------------------------------------------------------------------------
(* Wave slicing.  The loop and the reference are functions defined by      *)
(* themselves on the places of a list.  That such a function exists is an  *)
(* induction over places, done as membership of a set that holds each      *)
(* place after the one before; then the loop is followed turn by turn.     *)

(* A set of places that holds the first, and each place after one it       *)
(* holds, holds them all: induction over the places of a list.             *)
LEMMA UpTo ==
  ASSUME NEW n \in Nat, NEW S, 0 \in S, \A k \in 1..n : k - 1 \in S => k \in S
  PROVE  0..n \subseteq S
<1> DEFINE out == (0..n) \ S
           Less == {p \in Nat \X Nat : p[1] < p[2]}
<1> SUFFICES ASSUME out # {} PROVE FALSE
  OBVIOUS
<1>1. IsWellFoundedOn(Less, Nat)
  BY NatLessThanWellFounded DEF OpToRel
<1>2. out \subseteq Nat
  OBVIOUS
<1>3. PICK m \in out : \A k \in out : <<k, m>> \notin Less
  <2> HIDE DEF Less, out
  <2> QED
    BY <1>1, <1>2, WFMin, Zenon
<1>4. m \in 1..n /\ m - 1 \in 0..n
  OBVIOUS
<1>5. <<m - 1, m>> \in Less
  <2> DEFINE p == <<m - 1, m>>
  <2>1. p \in Nat \X Nat /\ p[1] = m - 1 /\ p[2] = m
    BY <1>4
  <2> QED
    BY <1>4, <2>1
<1>6. m - 1 \notin out
  BY <1>3, <1>5, Zenon
<1> QED
  BY <1>3, <1>4, <1>6

(* A function that goes from one place to the next by a given step.        *)
StepsBy(f, m, V, base, step) ==
  /\ f \in [0..m -> V]
  /\ f[0] = base
  /\ \A k \in 1..m : f[k] = step[k][f[k - 1]]

(* There is one for every step.                                            *)
LEMMA StepsExist ==
  ASSUME NEW m \in Nat, NEW V, NEW base \in V, NEW step \in [1..m -> [V -> V]]
  PROVE  \E f : StepsBy(f, m, V, base, step)
<1> DEFINE S == {k \in 0..m : \E f : StepsBy(f, k, V, base, step)}
<1>1. 0 \in S
  <2> DEFINE f == [k \in 0..0 |-> base]
  <2>1. StepsBy(f, 0, V, base, step)
    BY DEF StepsBy
  <2> QED
    BY <2>1
<1>2. ASSUME NEW k \in 1..m, k - 1 \in S PROVE k \in S
  <2>1. PICK f : StepsBy(f, k - 1, V, base, step)
    BY <1>2
  <2> DEFINE g == [j \in 0..k |-> IF j = k THEN step[k][f[k - 1]] ELSE f[j]]
  <2>2. \A j \in 0..k : j # k => j \in 0..(k - 1)
    OBVIOUS
  <2>3. f \in [0..(k - 1) -> V] /\ f[0] = base
        /\ \A j \in 1..(k - 1) : f[j] = step[j][f[j - 1]]
    BY <2>1 DEF StepsBy
  <2>4. step[k][f[k - 1]] \in V
    BY <2>3
  <2>5. g \in [0..k -> V]
    BY <2>2, <2>3, <2>4
  <2>6. g[0] = base /\ g[k] = step[k][f[k - 1]] /\ \A j \in 0..(k - 1) : g[j] = f[j]
    BY <2>3
  <2> HIDE DEF g
  <2>7. \A j \in 1..k : g[j] = step[j][g[j - 1]]
    BY <2>3, <2>6
  <2>8. StepsBy(g, k, V, base, step)
    BY <2>5, <2>6, <2>7 DEF StepsBy
  <2> QED
    BY <2>8
<1>3. 0..m \subseteq S
  <2> HIDE DEF S
  <2> QED
    BY <1>1, <1>2, UpTo
<1> QED
  BY <1>3

(* One turn of the loop over wave_sizes.                                   *)
TakeOf(list, k, remaining) == IF k = Len(list) \/ list[k] > remaining THEN remaining ELSE list[k]
Turn(list, k, cut) ==
  IF cut.remaining = 0 THEN cut
  ELSE [remaining |-> cut.remaining - TakeOf(list, k, cut.remaining),
        waves |-> Append(cut.waves, TakeOf(list, k, cut.remaining))]

(* What the loop has cut after each turn.                                  *)
Looped(n, list, loop) ==
  /\ loop[0] = [remaining |-> n, waves |-> <<>>]
  /\ \A k \in 1..Len(list) : loop[k] = Turn(list, k, loop[k - 1])
  /\ SlicedSizes(n, list) =
       IF loop[Len(list)].remaining = 0 THEN loop[Len(list)].waves
       ELSE Append(loop[Len(list)].waves, loop[Len(list)].remaining)

(* The waves come of turns of the loop, one for each size.                 *)
LEMMA SlicedByTurns ==
  ASSUME NEW n \in Nat, NEW list \in Seq(Nat)
  PROVE  \E loop : Looped(n, list, loop)
<1> DEFINE m == Len(list)
           V == [remaining : Nat, waves : Seq(Nat)]
           base == [remaining |-> n, waves |-> <<>>]
           step == [k \in 1..m |-> [v \in V |-> Turn(list, k, v)]]
           Body(f) == [k \in 0..m |-> IF k = 0 THEN base
                       ELSE IF f[k - 1].remaining = 0 THEN f[k - 1]
                       ELSE [remaining |-> f[k - 1].remaining - TakeOf(list, k, f[k - 1].remaining),
                             waves |-> Append(f[k - 1].waves, TakeOf(list, k, f[k - 1].remaining))]]
           it == CHOOSE f : f = Body(f)
<1>1. m \in Nat /\ \A k \in 1..m : list[k] \in Nat
  OBVIOUS
<1>2. base \in V
  OBVIOUS
<1>3. ASSUME NEW k \in 1..m, NEW v \in V PROVE Turn(list, k, v) \in V
  <2>1. v.remaining \in Nat /\ v.waves \in Seq(Nat)
    OBVIOUS
  <2>2. TakeOf(list, k, v.remaining) \in Nat /\ v.remaining - TakeOf(list, k, v.remaining) \in Nat
    BY <1>1, <2>1 DEF TakeOf
  <2>3. Append(v.waves, TakeOf(list, k, v.remaining)) \in Seq(Nat)
    BY <2>1, <2>2
  <2> QED
    BY <2>1, <2>2, <2>3 DEF Turn
<1>4. step \in [1..m -> [V -> V]]
  BY <1>3
<1>5. \A k \in 1..m, v \in V : step[k][v] = Turn(list, k, v)
  OBVIOUS
<1> HIDE DEF m, step
<1>6. PICK f : StepsBy(f, m, V, base, step)
  <2> HIDE DEF V, base
  <2> QED
    BY <1>1, <1>2, <1>4, StepsExist
<1>7. /\ f \in [0..m -> V] /\ f[0] = base
      /\ \A k \in 1..m : f[k] = Turn(list, k, f[k - 1])
  <2>1. f \in [0..m -> V] /\ f[0] = base /\ \A k \in 1..m : f[k] = step[k][f[k - 1]]
    BY <1>6 DEF StepsBy
  <2> HIDE DEF V, base
  <2>2. \A k \in 1..m : f[k - 1] \in V
    BY <1>1, <2>1
  <2> QED
    BY <1>5, <2>1, <2>2
<1>8. f = Body(f)
  <2>1. \A k \in 0..m : k = 0 \/ k \in 1..m
    BY <1>1
  <2> HIDE DEF V, base
  <2>2. f = [k \in 0..m |-> f[k]]
    BY <1>7
  <2>3. \A k \in 0..m : f[k] = IF k = 0 THEN base ELSE Turn(list, k, f[k - 1])
    BY <1>7, <2>1
  <2> QED
    BY <2>2, <2>3, Zenon DEF Turn
<1>9. it = Body(it)
  <2> HIDE DEF Body
  <2> QED
    BY <1>8
<1>10. /\ it[0] = base
       /\ \A k \in 1..m : it[k] = Turn(list, k, it[k - 1])
  <2>1. 0 \in 0..m /\ \A k \in 1..m : k \in 0..m /\ k # 0
    BY <1>1
  <2> HIDE DEF it, base
  <2> QED
    BY <1>9, <2>1, Zenon DEF Turn
<1>11. SlicedSizes(n, list) = IF it[m].remaining = 0 THEN it[m].waves
                              ELSE Append(it[m].waves, it[m].remaining)
  BY Zenon DEF SlicedSizes, TakeOf, m
<1> QED
  BY <1>10, <1>11, Zenon DEF Looped, m, base

(* How many targets the first sizes ask for.                               *)
Asked(n, list, sum) ==
  /\ sum \in [0..Len(list) -> Nat] /\ sum[0] = 0
  /\ \A k \in 1..Len(list) : sum[k] = sum[k - 1] + list[k]
  /\ \A k \in 0..Len(list) :
       TakenBy(n, list, k) = IF k = Len(list) \/ sum[k] > n THEN n ELSE sum[k]

(* Such sums exist, and the reference is made of them.                     *)
LEMMA TakenBySums ==
  ASSUME NEW n \in Nat, NEW list \in Seq(Nat)
  PROVE  \E sum : Asked(n, list, sum)
<1> DEFINE m == Len(list)
           step == [k \in 1..m |-> [v \in Nat |-> v + list[k]]]
           Body(f) == [k \in 0..m |-> IF k = 0 THEN 0 ELSE f[k - 1] + list[k]]
           it == CHOOSE f : f = Body(f)
<1>1. m \in Nat /\ \A k \in 1..m : list[k] \in Nat
  OBVIOUS
<1>2. step \in [1..m -> [Nat -> Nat]] /\ \A k \in 1..m, v \in Nat : step[k][v] = v + list[k]
  BY <1>1
<1> HIDE DEF m, step
<1>3. PICK f : StepsBy(f, m, Nat, 0, step)
  BY <1>1, <1>2, StepsExist
<1>4. /\ f \in [0..m -> Nat] /\ f[0] = 0
      /\ \A k \in 1..m : f[k] = f[k - 1] + list[k]
  <2>1. f \in [0..m -> Nat] /\ f[0] = 0 /\ \A k \in 1..m : f[k] = step[k][f[k - 1]]
    BY <1>3 DEF StepsBy
  <2>2. \A k \in 1..m : f[k - 1] \in Nat
    BY <1>1, <2>1
  <2> QED
    BY <1>2, <2>1, <2>2
<1>5. f = Body(f)
  <2>1. \A k \in 0..m : k = 0 \/ k \in 1..m
    BY <1>1
  <2> QED
    BY <1>4, <2>1
<1>6. it = Body(it)
  <2> HIDE DEF Body
  <2> QED
    BY <1>5
<1>7. it[0] = 0 /\ \A k \in 1..m : it[k] = it[k - 1] + list[k]
  <2>1. 0 \in 0..m /\ \A k \in 1..m : k \in 0..m /\ k # 0
    BY <1>1
  <2> HIDE DEF it
  <2> QED
    BY <1>6, <2>1, Zenon
<1>8. it \in [0..m -> Nat]
  <2> DEFINE S == {k \in 0..m : it[k] \in Nat}
  <2> HIDE DEF it
  <2>1. 0 \in S
    BY <1>1, <1>7
  <2>2. ASSUME NEW k \in 1..m, k - 1 \in S PROVE k \in S
    BY <1>1, <1>7, <2>2
  <2>3. 0..m \subseteq S
    <3> HIDE DEF S
    <3> QED
      BY <1>1, <2>1, <2>2, UpTo
  <2>4. \A k \in 0..m : it[k] \in Nat
    BY <2>3
  <2>5. it = [k \in 0..m |-> it[k]]
    BY <1>6, Zenon
  <2> QED
    BY <2>4, <2>5
<1>9. \A k : TakenBy(n, list, k) = IF k >= m \/ it[k] > n THEN n ELSE it[k]
  BY Zenon DEF TakenBy, m
<1>10. \A k \in 0..m : k >= m <=> k = m
  BY <1>1
<1> HIDE DEF it
<1>11. \A k \in 0..m : TakenBy(n, list, k) = IF k = m \/ it[k] > n THEN n ELSE it[k]
  BY <1>9, <1>10, Zenon
<1> QED
  BY <1>7, <1>8, <1>11, Zenon DEF Asked, m

(* What the sizes take of the targets grows from none to all.              *)
LEMMA TakenGrows ==
  ASSUME NEW n \in Nat, NEW list \in Seq(Nat), list # <<>>
  PROVE  LET T(k) == TakenBy(n, list, k)
             m == Len(list)
         IN /\ T(0) = 0 /\ T(m) = n
            /\ \A k \in 0..m : T(k) \in 0..n
            /\ \A k \in 1..m : T(k) = T(k - 1) + TakeOf(list, k, n - T(k - 1))
                               /\ T(k - 1) <= T(k)
<1> DEFINE m == Len(list)
           T(k) == TakenBy(n, list, k)
<1>1. m \in Nat /\ m # 0 /\ \A k \in 1..m : list[k] \in Nat
  OBVIOUS
<1>2. PICK sum : Asked(n, list, sum)
  BY TakenBySums
<1>3. /\ sum \in [0..m -> Nat] /\ sum[0] = 0
      /\ \A k \in 1..m : sum[k] = sum[k - 1] + list[k]
      /\ \A k \in 0..m : T(k) = IF k = m \/ sum[k] > n THEN n ELSE sum[k]
  BY <1>2 DEF Asked
<1> HIDE DEF m, T
<1>4. T(0) = 0 /\ T(m) = n
  BY <1>1, <1>3
<1>5. ASSUME NEW k \in 0..m PROVE T(k) \in 0..n
  <2>1. sum[k] \in Nat /\ T(k) = IF k = m \/ sum[k] > n THEN n ELSE sum[k]
    BY <1>3
  <2> QED
    BY <2>1
<1>6. ASSUME NEW k \in 1..m
      PROVE  T(k) = T(k - 1) + TakeOf(list, k, n - T(k - 1)) /\ T(k - 1) <= T(k)
  <2>1. /\ k \in 0..m /\ k - 1 \in 0..m /\ k - 1 # m /\ list[k] \in Nat
        /\ sum[k] = sum[k - 1] + list[k] /\ sum[k - 1] \in Nat
    BY <1>1, <1>3
  <2>2. /\ T(k) = IF k = m \/ sum[k] > n THEN n ELSE sum[k]
        /\ T(k - 1) = IF sum[k - 1] > n THEN n ELSE sum[k - 1]
    BY <1>3, <2>1
  <2>3. TakeOf(list, k, n - T(k - 1))
          = IF k = m \/ list[k] > n - T(k - 1) THEN n - T(k - 1) ELSE list[k]
    BY DEF TakeOf, m
  <2> DEFINE t == T(k) p == T(k - 1) l == list[k] s == sum[k] q == sum[k - 1] e == k = m
             c == TakeOf(list, k, n - T(k - 1))
  <2>4. t = (IF e \/ s > n THEN n ELSE s) /\ p = (IF q > n THEN n ELSE q) /\ s = q + l
        /\ l \in Nat /\ q \in Nat /\ c = IF e \/ l > n - p THEN n - p ELSE l
    BY <2>1, <2>2, <2>3
  <2>5. e \in BOOLEAN
    OBVIOUS
  <2> HIDE DEF t, p, l, s, q, e, c
  <2>6. t = p + c /\ p <= t
    BY <2>4, <2>5
  <2> QED
    BY <2>6, Zenon DEF t, p, c
<1> QED
  BY <1>4, <1>5, <1>6, Zenon DEF m, T

(* The waves that stand for the first k sizes.                             *)
Cut(n, list, k) ==
  [j \in {i \in 1..k : TakenBy(n, list, i - 1) < n} |-> TakenBy(n, list, j) - TakenBy(n, list, j - 1)]

(* However many targets there are and whatever sizes are asked for, each   *)
(* wave has the size asked for while there are enough targets, and the     *)
(* last has the rest: all of them in one wave (_slice_waves).              *)
THEOREM SlicesAsAsked ==
  ASSUME NEW n \in Nat, NEW list \in Seq(Nat)
  PROVE  SlicedSizes(n, list) = SizesAsAsked(n, list)
<1> DEFINE m == Len(list)
           T(k) == TakenBy(n, list, k)
<1>1. PICK loop : Looped(n, list, loop)
  BY SlicedByTurns
<1>2. /\ loop[0] = [remaining |-> n, waves |-> <<>>]
      /\ \A k \in 1..m : loop[k] = Turn(list, k, loop[k - 1])
      /\ SlicedSizes(n, list) = IF loop[m].remaining = 0 THEN loop[m].waves
                                ELSE Append(loop[m].waves, loop[m].remaining)
  BY <1>1, Zenon DEF Looped
<1>3. CASE list = <<>>
  <2>1. m = 0 /\ loop[m].remaining = n /\ loop[m].waves = <<>>
    BY <1>2, <1>3
  <2>2. Append(<<>>, n) = <<n>>
    OBVIOUS
  <2>3. SlicedSizes(n, list) = IF n = 0 THEN <<>> ELSE <<n>>
    BY <1>2, <2>1, <2>2, Zenon
  <2> QED
    BY <1>3, <2>3, Zenon DEF SizesAsAsked
<1>4. CASE list # <<>>
  <2>1. /\ T(0) = 0 /\ T(m) = n
        /\ \A k \in 0..m : T(k) \in 0..n
        /\ \A k \in 1..m : T(k) = T(k - 1) + TakeOf(list, k, n - T(k - 1)) /\ T(k - 1) <= T(k)
    BY <1>4, TakenGrows
  <2>2. m \in Nat /\ m # 0 /\ DOMAIN list = 1..m /\ \A k \in 1..m : k - 1 \in 0..m /\ k \in 0..m
    BY <1>4
  <2> DEFINE S == {k \in 0..m : /\ loop[k] = [remaining |-> n - T(k), waves |-> Cut(n, list, k)]
                                /\ T(k) < n => \A j \in 0..k : T(j) < n}
  <2>3. 0 \in S
    <3>1. Cut(n, list, 0) = <<>>
      <4>1. {i \in 1..0 : TakenBy(n, list, i - 1) < n} = {}
        OBVIOUS
      <4> QED
        BY <4>1 DEF Cut
    <3> HIDE DEF m, T
    <3>2. n - T(0) = n /\ \A j \in 0..0 : j = 0
      BY <2>1
    <3> QED
      BY <1>2, <2>2, <3>1, <3>2
  <2>4. ASSUME NEW k \in 1..m, k - 1 \in S PROVE k \in S
    <3>1. /\ loop[k - 1] = [remaining |-> n - T(k - 1), waves |-> Cut(n, list, k - 1)]
          /\ T(k - 1) < n => \A j \in 0..(k - 1) : T(j) < n
      BY <2>4
    <3>2. /\ T(k) = T(k - 1) + TakeOf(list, k, n - T(k - 1)) /\ T(k - 1) <= T(k)
          /\ T(k) \in 0..n /\ T(k - 1) \in 0..n /\ loop[k] = Turn(list, k, loop[k - 1])
      BY <1>2, <2>1, <2>2
    <3>3. T(k) < n => \A j \in 0..k : T(j) < n
      <4>1. \A j \in 0..k : j = k \/ j \in 0..(k - 1)
        BY <2>2
      <4> HIDE DEF T
      <4> QED
        BY <3>1, <3>2, <4>1
    <3>4. loop[k - 1].remaining = n - T(k - 1) /\ loop[k - 1].waves = Cut(n, list, k - 1)
      BY <3>1
    <3>5. CASE T(k - 1) = n
      <4>1. {i \in 1..k : T(i - 1) < n} = {i \in 1..(k - 1) : T(i - 1) < n}
        <5>1. \A i \in 1..k : i = k \/ i \in 1..(k - 1)
          BY <2>2
        <5>2. \A i \in 1..(k - 1) : i \in 1..k
          BY <2>2
        <5>3. ~(T(k - 1) < n)
          BY <3>2, <3>5
        <5> HIDE DEF T, m
        <5> QED
          BY <5>1, <5>2, <5>3
      <4>2. Cut(n, list, k) = Cut(n, list, k - 1)
        BY <4>1, Zenon DEF Cut
      <4>3. T(k) = T(k - 1) /\ n - T(k - 1) = 0
        <5> HIDE DEF T
        <5> QED
          BY <3>2, <3>5
      <4>4. loop[k] = loop[k - 1]
        BY <3>2, <3>4, <4>3, Zenon DEF Turn
      <4>5. loop[k] = [remaining |-> n - T(k), waves |-> Cut(n, list, k)]
        BY <3>1, <4>2, <4>3, <4>4, Zenon
      <4> QED
        BY <2>2, <3>3, <4>5
    <3>6. CASE T(k - 1) # n
      <4> DEFINE r == n - T(k - 1)
                 take == TakeOf(list, k, r)
      <4>1. T(k - 1) < n /\ r # 0 /\ take = T(k) - T(k - 1) /\ r - take = n - T(k)
        <5> HIDE DEF T
        <5>1. T(k) \in 0..n /\ T(k - 1) \in 0..n /\ T(k) = T(k - 1) + take
          BY <3>2
        <5>2. take \in Int
          <6>1. list[k] \in Nat
            BY <2>2
          <6> QED
            BY <5>1, <6>1 DEF TakeOf
        <5> HIDE DEF take
        <5> QED
          BY <3>6, <5>1, <5>2
      <4>2. \A j \in 0..(k - 1) : T(j) < n
        BY <3>1, <4>1
      <4>3. \A i \in 1..k : T(i - 1) < n
        <5>1. \A i \in 1..k : i - 1 \in 0..(k - 1)
          BY <2>2
        <5> HIDE DEF T
        <5> QED
          BY <4>2, <5>1
      <4>4. /\ Cut(n, list, k) = [j \in 1..k |-> T(j) - T(j - 1)]
            /\ Cut(n, list, k - 1) = [j \in 1..(k - 1) |-> T(j) - T(j - 1)]
        <5>1. {i \in 1..k : T(i - 1) < n} = 1..k
          <6> HIDE DEF T
          <6> QED
            BY <4>3
        <5>2. {i \in 1..(k - 1) : T(i - 1) < n} = 1..(k - 1)
          <6>1. \A i \in 1..(k - 1) : i \in 1..k
            BY <2>2
          <6> HIDE DEF T
          <6> QED
            BY <4>3, <6>1
        <5> QED
          BY <5>1, <5>2, Zenon DEF Cut
      <4>5. Append(Cut(n, list, k - 1), T(k) - T(k - 1)) = Cut(n, list, k)
        <5> DEFINE d(j) == T(j) - T(j - 1)
                   was == [j \in 1..(k - 1) |-> d(j)]
                   is == [j \in 1..k |-> d(j)]
        <5>1. \A j \in 1..k : d(j) \in Int
          <6>1. \A j \in 1..k : j \in 0..m /\ j - 1 \in 0..m
            BY <2>2
          <6>2. \A j \in 0..m : T(j) \in Int
            BY <2>1
          <6> HIDE DEF T
          <6> QED
            BY <6>1, <6>2
        <5> HIDE DEF d
        <5>2. k \in Nat /\ k - 1 \in Nat
          BY <2>2
        <5>3. was \in Seq(Int) /\ Len(was) = k - 1
          BY <5>1, <5>2
        <5>4. is \in Seq(Int) /\ Len(is) = k
          BY <5>1, <5>2
        <5>5. Append(was, d(k)) = is
          BY <5>1, <5>2, <5>3, <5>4
        <5> QED
          BY <4>4, <5>5, Zenon DEF d, was, is
      <4>6. loop[k] = [remaining |-> n - T(k), waves |-> Cut(n, list, k)]
        <5>1. loop[k] = [remaining |-> r - take, waves |-> Append(Cut(n, list, k - 1), take)]
          BY <3>2, <3>4, <4>1, Zenon DEF Turn
        <5> QED
          BY <4>1, <4>5, <5>1, Zenon
      <4> QED
        BY <2>2, <3>3, <4>6
    <3> QED
      BY <3>5, <3>6
  <2>5. m \in S
    <3>1. 0..m \subseteq S
      <4> HIDE DEF S, m
      <4> QED
        BY <2>2, <2>3, <2>4, UpTo
    <3>2. m \in 0..m
      BY <2>2
    <3> HIDE DEF S, m
    <3> QED
      BY <3>1, <3>2
  <2>6. SlicedSizes(n, list) = Cut(n, list, m)
    <3>1. loop[m] = [remaining |-> n - T(m), waves |-> Cut(n, list, m)] /\ n - T(m) = 0
      BY <2>1, <2>5
    <3>2. loop[m].remaining = 0 /\ loop[m].waves = Cut(n, list, m)
      BY <3>1
    <3> QED
      BY <1>2, <3>2, Zenon
  <2>7. SizesAsAsked(n, list) = Cut(n, list, m)
    BY <1>4, <2>2, Zenon DEF SizesAsAsked, Cut
  <2> QED
    BY <2>6, <2>7
<1> QED
  BY <1>3, <1>4
=============================================================================
