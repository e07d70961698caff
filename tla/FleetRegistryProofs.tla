------------------------- MODULE FleetRegistryProofs -------------------------
(***************************************************************************)
(* Theorems about FleetRegistry, for every fleet, every offer of bundles,  *)
(* machines and policies, and every bound: an isolated device gets into a  *)
(* manifest in two ways only, channels forget no version, and a training   *)
(* job is never told to have ended in two ways.                            *)
(*                                                                         *)
(* Each theorem has its own inductive invariant, for each is about its own *)
(* part of the state; what they share is that the devices stay typed.      *)
(***************************************************************************)
EXTENDS FleetRegistry, FiniteSetTheorems, TLAPS

---------------------------------------------------------------------------
(* Isolation. *)

\* A build between its look at the devices and its manifest.
IsBuilding(m) ==
  m = [id |-> m.id, devices |-> m.devices, heard |-> m.heard, late |-> m.late, isolated |-> m.isolated]

DevicesOK ==
  /\ devices \in [Device -> [status : DeviceStatus, version : SUBSET Version, seen : 0..MaxTime]]
  /\ DOMAIN lineage \subseteq Version
  /\ isolated \subseteq Device
  /\ \A m \in building : IsBuilding(m)

IsolationInv == DevicesOK /\ IsolationHolds

\* A build stays one when a field is written.
LEMMA BuildingKept ==
  ASSUME NEW m, IsBuilding(m), NEW x
  PROVE  /\ IsBuilding([m EXCEPT !.late = x])
         /\ [m EXCEPT !.late = x] =
              [id |-> m.id, devices |-> m.devices, heard |-> m.heard, late |-> x, isolated |-> m.isolated]
         /\ [m EXCEPT !.isolated = x] =
              [id |-> m.id, devices |-> m.devices, heard |-> m.heard, late |-> m.late, isolated |-> x]
<1>1. PICK a, b, c, e, f : m = [id |-> a, devices |-> b, heard |-> c, late |-> e, isolated |-> f]
  BY DEF IsBuilding
<1>2. IsBuilding([id |-> a, devices |-> b, heard |-> c, late |-> x, isolated |-> f])
  BY DEF IsBuilding
<1> QED
  BY <1>1, <1>2

LEMMA IsolationInit == Init => IsolationInv
<1> SUFFICES ASSUME Init PROVE IsolationInv
  OBVIOUS
<1>1. DOMAIN lineage = {}
  BY DEF Init
<1>2. devices \in [Device -> [status : DeviceStatus, version : SUBSET Version, seen : 0..MaxTime]]
  BY RegistryAssumption DEF Init, DeviceStatus
<1>3. IsolationHolds
  BY DEF Init, IsolationHolds, NoOtherWayIn
<1> QED
  BY <1>1, <1>2, <1>3 DEF Init, IsolationInv, DevicesOK

\* Publishing adds a version that some bundle carries.
LEMMA PublishKeepsDevices ==
  ASSUME DevicesOK, Publish PROVE DevicesOK'
<1>1. PICK b \in Bundles, job \in {{}} \union {{j} : j \in Job} :
        lineage' = Put(lineage, b.version, [build |-> b.build, job |-> job])
  BY DEF Publish
<1>2. b.version \in Version
  BY RegistryAssumption
<1>3. DOMAIN lineage' = {b.version} \cup DOMAIN lineage
  BY <1>1 DEF Put
<1> QED
  BY <1>2, <1>3 DEF DevicesOK, Publish, trainVars

\* A sweep changes no status of an isolated device.
LEMMA SweepKeeps ==
  ASSUME IsolationInv, SweepStale PROVE IsolationInv'
<1>1. PICK s, u \in Time : devices' = [d \in Device |-> Swept(devices[d], s, u)]
  BY DEF SweepStale
<1>2. ASSUME NEW d \in Device
      PROVE  /\ Swept(devices[d], s, u) \in [status : DeviceStatus, version : SUBSET Version, seen : 0..MaxTime]
             /\ devices[d].status \in Isolating => Swept(devices[d], s, u) = devices[d]
  <2>1. devices[d] \in [status : DeviceStatus, version : SUBSET Version, seen : 0..MaxTime]
    BY DEF IsolationInv, DevicesOK
  <2>2. CASE devices[d].status \in Isolating \/ devices[d].seen = 0
    BY <2>1, <2>2 DEF Swept, Isolating
  <2>3. CASE ~(devices[d].status \in Isolating \/ devices[d].seen = 0)
    <3>1. \E status \in DeviceStatus : Swept(devices[d], s, u) = [devices[d] EXCEPT !.status = status]
      BY <2>3 DEF Swept, DeviceStatus, Isolating
    <3> QED
      BY <2>1, <2>3, <3>1
  <2> QED
    BY <2>2, <2>3
<1>3. DevicesOK'
  BY <1>1, <1>2 DEF SweepStale, IsolationInv, DevicesOK, trainVars
<1>4. \A d \in Device : devices[d].status \in Isolating => devices'[d] = devices[d]
  BY <1>1, <1>2
<1>5. UNCHANGED <<isolated, heard, building, store>>
  BY DEF SweepStale, trainVars
<1> QED
  BY <1>3, <1>4, <1>5 DEF IsolationInv, IsolationHolds, DevicesOK, NoOtherWayIn

LEMMA IsolationStep == IsolationInv /\ [Next]_vars => IsolationInv'
<1> SUFFICES ASSUME IsolationInv, [Next]_vars PROVE IsolationInv'
  OBVIOUS
<1> USE DEF IsolationInv
<1>1. ASSUME NEW d \in Device, Report(d) PROVE IsolationInv'
  <2>1. PICK at \in Time, version \in {{}} \union {{v} : v \in DOMAIN lineage} :
          devices' = [devices EXCEPT ![d] = Reported(d, at, version)]
    BY <1>1 DEF Report
  <2>2. Reported(d, at, version) \in [status : DeviceStatus, version : SUBSET Version, seen : 0..MaxTime]
    <3>1. version \subseteq Version /\ devices[d].version \subseteq Version
      BY DEF DevicesOK
    <3> QED
      BY <3>1, RegistryAssumption DEF Reported, DeviceStatus, Time
  <2>3. /\ heard' = heard \union ({d} \cap isolated)
        /\ UNCHANGED <<lineage, isolated, building, store>>
    BY <1>1 DEF Report, trainVars
  <2> QED
    BY <2>1, <2>2, <2>3 DEF DevicesOK, IsolationHolds, NoOtherWayIn
<1>2. ASSUME NEW d \in Device, Mark(d) PROVE IsolationInv'
  <2>1. PICK status \in DeviceStatus :
          /\ devices' = [devices EXCEPT ![d].status = status]
          /\ isolated' = IF status \in Isolating THEN isolated \union {d} ELSE isolated \ {d}
          /\ building' = IF status \in Isolating THEN {[m EXCEPT !.late = @ \union {d}] : m \in building} ELSE building
    BY <1>2 DEF Mark
  <2>2. heard' = heard \ {d} /\ UNCHANGED <<lineage, store>>
    BY <1>2 DEF Mark
  <2>3. DevicesOK'
    <3>1. \A m \in building : IsBuilding([m EXCEPT !.late = @ \union {d}])
      BY BuildingKept DEF DevicesOK
    <3> QED
      BY <2>1, <2>2, <3>1 DEF DevicesOK
  <2>4. \A e \in isolated' \ heard' : devices'[e].status \in Isolating
    BY <2>1, <2>2 DEF DevicesOK, IsolationHolds
  <2>5. \A m \in building' : m.devices \cap isolated' \subseteq m.heard \union m.late
    <3>1. CASE status \in Isolating
      <4>1. building' = {[m EXCEPT !.late = @ \union {d}] : m \in building} /\ isolated' = isolated \union {d}
        BY <2>1, <3>1
      <4>2. SUFFICES ASSUME NEW m \in building, NEW n, n = [m EXCEPT !.late = @ \union {d}]
                     PROVE  n.devices \cap isolated' \subseteq n.heard \union n.late
        BY <4>1
      <4>3. n.devices = m.devices /\ n.heard = m.heard /\ n.late = m.late \union {d}
        BY <4>2, BuildingKept DEF DevicesOK
      <4> QED
        BY <4>1, <4>3 DEF IsolationHolds
    <3>2. CASE status \notin Isolating
      BY <2>1, <3>2 DEF IsolationHolds
    <3> QED
      BY <3>1, <3>2
  <2> QED
    BY <2>2, <2>3, <2>4, <2>5 DEF IsolationHolds, NoOtherWayIn
<1>3. CASE SweepStale
  BY <1>3, SweepKeeps
<1>4. CASE Publish
  BY <1>4, PublishKeepsDevices DEF Publish, trainVars, IsolationHolds, NoOtherWayIn
<1>5. CASE Promote
  BY <1>5 DEF Promote, trainVars, DevicesOK, IsolationHolds, NoOtherWayIn
<1>6. CASE ChooseDevices
  <2>1. PICK id \in Build, candidates \in SUBSET Device \ {{}} :
          building' = building \union
            {[id |-> id, devices |-> {d \in candidates : IsTrainableSource(devices[d])}, heard |-> heard,
              late |-> {}, isolated |-> {}]}
    BY <1>6 DEF ChooseDevices
  <2>2. {d \in candidates : IsTrainableSource(devices[d])} \cap isolated \subseteq heard
    BY DEF IsolationHolds, IsTrainableSource, Isolating
  <2>3. UNCHANGED <<devices, lineage, isolated, heard, store>>
    BY <1>6 DEF ChooseDevices, fleetVars
  <2>4. IsBuilding([id |-> id, devices |-> {d \in candidates : IsTrainableSource(devices[d])}, heard |-> heard,
                     late |-> {}, isolated |-> {}])
    BY DEF IsBuilding
  <2>5. DevicesOK'
    BY <2>1, <2>3, <2>4 DEF DevicesOK
  <2> QED
    BY <2>1, <2>2, <2>3, <2>5 DEF IsolationHolds, NoOtherWayIn
<1>7. CASE WriteManifest
  <2>1. PICK m \in building :
          /\ store' = {n \in store : n.id # m.id} \union {[m EXCEPT !.isolated = isolated]}
          /\ building' = building \ {m}
    BY <1>7 DEF WriteManifest
  <2> DEFINE w == [m EXCEPT !.isolated = isolated]
  <2>2. w.devices = m.devices /\ w.heard = m.heard /\ w.late = m.late /\ w.isolated = isolated
    BY BuildingKept DEF DevicesOK
  <2>3. w.devices \cap w.isolated \subseteq w.heard \union w.late
    BY <2>2 DEF IsolationHolds
  <2>4. UNCHANGED <<devices, lineage, isolated, heard>>
    BY <1>7 DEF WriteManifest, fleetVars
  <2> HIDE DEF w
  <2> QED
    BY <2>1, <2>3, <2>4 DEF DevicesOK, IsolationHolds, NoOtherWayIn, w
<1>8. CASE Submit \/ Poll \/ Stop \/ JobEnds
  BY <1>8 DEF Submit, Poll, Stop, JobEnds, fleetVars, DevicesOK, IsolationHolds, NoOtherWayIn
<1>9. CASE UNCHANGED vars
  BY <1>9 DEF vars, DevicesOK, IsolationHolds, NoOtherWayIn
<1> QED
  BY <1>1, <1>2, <1>3, <1>4, <1>5, <1>6, <1>7, <1>8, <1>9 DEF Next

\* A device that is isolated when a manifest is written is in it only if it
\* had reported since it was isolated when the build looked, or was isolated
\* after that (BuildTrainingDataset, Fleet.sweep_stale).
THEOREM IsolatedGetsInTwoWays == Spec => []NoOtherWayIn
<1>1. IsolationInv => NoOtherWayIn
  BY DEF IsolationInv, IsolationHolds
<1> QED
  BY <1>1, IsolationInit, IsolationStep, PTL DEF Spec

---------------------------------------------------------------------------
(* The end of a job. *)

\* What was told is still what the service says, and the service says it for
\* ever.
FinishInv ==
  /\ remote \in [DOMAIN remote -> RawStatus]
  /\ \A e \in finished :
       /\ e[1] \in DOMAIN remote
       /\ IsTerminal(StatusOf(remote[e[1]]))
       /\ e[2] = StatusOf(remote[e[1]])

\* A status that is the end of a job is not one the service leaves.
LEMMA EndIsEnd ==
  ASSUME NEW raw \in RawStatus, IsTerminal(StatusOf(raw))
  PROVE  raw \notin {"InProgress", "Stopping"}
BY DEF RawStatus, IsTerminal, StatusOf

LEMMA FinishStep == FinishInv /\ [Next]_vars => FinishInv'
<1> SUFFICES ASSUME FinishInv, [Next]_vars PROVE FinishInv'
  OBVIOUS
<1>1. CASE Submit
  <2>1. PICK id \in Job : id \notin DOMAIN remote /\ remote' = Put(remote, id, "InProgress")
    BY <1>1 DEF Submit
  <2>2. /\ DOMAIN remote' = DOMAIN remote \union {id}
        /\ \A j \in DOMAIN remote : remote'[j] = remote[j]
        /\ remote'[id] = "InProgress"
        /\ remote' = [j \in DOMAIN remote' |-> remote'[j]]
    BY <2>1 DEF Put
  <2>3. remote' \in [DOMAIN remote' -> RawStatus]
    BY <2>2 DEF FinishInv, RawStatus
  <2>4. finished' = finished
    BY <1>1 DEF Submit
  <2> QED
    BY <2>2, <2>3, <2>4 DEF FinishInv
<1>2. CASE Poll
  <2>1. PICK id \in DOMAIN remote :
          /\ IsTerminal(StatusOf(remote[id]))
          /\ finished' = finished \union {<<id, StatusOf(remote[id])>>}
    BY <1>2 DEF Poll
  <2>2. remote' = remote
    BY <1>2 DEF Poll
  <2> QED
    BY <2>1, <2>2 DEF FinishInv
<1>3. ASSUME NEW id \in DOMAIN remote, NEW raw \in RawStatus,
             remote[id] \in {"InProgress", "Stopping"},
             remote' = [remote EXCEPT ![id] = raw], finished' = finished
      PROVE  FinishInv'
  <2>1. \A e \in finished : e[1] # id
    BY <1>3, EndIsEnd DEF FinishInv
  <2>2. remote' \in [DOMAIN remote' -> RawStatus] /\ DOMAIN remote' = DOMAIN remote
    BY <1>3 DEF FinishInv
  <2>3. \A e \in finished : remote'[e[1]] = remote[e[1]]
    BY <1>3, <2>1 DEF FinishInv
  <2> QED
    BY <1>3, <2>2, <2>3 DEF FinishInv
<1>4. CASE Stop
  <2>1. PICK id \in DOMAIN remote :
          remote' = [remote EXCEPT ![id] = IF @ = "InProgress" THEN "Stopping" ELSE @]
    BY <1>4 DEF Stop
  <2>2. finished' = finished
    BY <1>4 DEF Stop
  <2>3. CASE remote[id] = "InProgress"
    <3>1. remote' = [remote EXCEPT ![id] = "Stopping"]
      BY <2>1, <2>3
    <3> QED
      BY <1>3, <2>2, <2>3, <3>1 DEF RawStatus
  <2>4. CASE remote[id] # "InProgress"
    <3>1. remote' = remote
      BY <2>1, <2>4 DEF FinishInv
    <3> QED
      BY <2>2, <3>1 DEF FinishInv
  <2> QED
    BY <2>3, <2>4
<1>5. CASE JobEnds
  <2>1. PICK id \in DOMAIN remote, raw \in RawStatus :
          remote[id] \in {"InProgress", "Stopping"} /\ remote' = [remote EXCEPT ![id] = raw]
    BY <1>5 DEF JobEnds, RawStatus
  <2> QED
    BY <1>3, <1>5, <2>1 DEF JobEnds
<1>6. CASE UNCHANGED <<remote, finished>>
  BY <1>6 DEF FinishInv
<1>7. UNCHANGED <<remote, finished>> \/ Submit \/ Poll \/ Stop \/ JobEnds
  BY DEF Next, vars, Report, Mark, SweepStale, Publish, Promote, ChooseDevices, WriteManifest, trainVars
<1> QED
  BY <1>1, <1>2, <1>4, <1>5, <1>6, <1>7

\* However often a job is polled and whatever races with its stop, it is never
\* told to have ended in two ways (PollTrainingJob, STATUS_MAP).
THEOREM NeverEndsTwice == Spec => []FinishIsFinal
<1>1. Init => FinishInv
  BY DEF Init, FinishInv
<1>2. FinishInv => FinishIsFinal
  BY DEF FinishInv, FinishIsFinal
<1> QED
  BY <1>1, <1>2, FinishStep, PTL DEF Spec

---------------------------------------------------------------------------
(* The channels. *)

\* A channel holds one version or none.
OneOrNone(channel) == channel = {} \/ \E v \in Version : channel = {v}

ChannelsInv ==
  /\ channels = [canary |-> channels.canary, stable |-> channels.stable, archived |-> channels.archived]
  /\ OneOrNone(channels.canary) /\ OneOrNone(channels.stable)
  /\ channels.archived \in Seq(Version)
  /\ NothingForgotten

\* The sequence of a set of one or none has the elements of the set.
LEMMA SmallSetToSeq ==
  ASSUME NEW S, OneOrNone(S)
  PROVE  SetToSeq(S) \in Seq(Version) /\ ToSet(SetToSeq(S)) = S
<1>1. CASE S = {}
  <2>1. Cardinality(S) = 0
    BY <1>1, FS_EmptySet
  <2>2. \E f \in [1..0 -> S] : IsInjective(f)
    <3>1. [i \in 1..0 |-> i] \in [1..0 -> S] /\ IsInjective([i \in 1..0 |-> i])
      BY DEF IsInjective
    <3> QED
      BY <3>1
  <2>3. SetToSeq(S) \in [1..0 -> S]
    BY <2>1, <2>2 DEF SetToSeq
  <2>4. SetToSeq(S) \in Seq(Version)
    BY <1>1, <2>3
  <2>5. DOMAIN SetToSeq(S) = {}
    BY <2>3
  <2> QED
    BY <1>1, <2>4, <2>5 DEF ToSet
<1>2. CASE \E v \in Version : S = {v}
  <2>1. PICK v \in Version : S = {v}
    BY <1>2
  <2>2. Cardinality(S) = 1
    BY <2>1, FS_Singleton
  <2>3. \E f \in [1..1 -> S] : IsInjective(f)
    <3>1. [i \in 1..1 |-> v] \in [1..1 -> S] /\ IsInjective([i \in 1..1 |-> v])
      BY <2>1 DEF IsInjective
    <3> QED
      BY <3>1
  <2>4. SetToSeq(S) \in [1..1 -> S]
    BY <2>2, <2>3 DEF SetToSeq
  <2>5. SetToSeq(S) = <<v>>
    BY <2>1, <2>4
  <2>6. <<v>> \in Seq(Version) /\ ToSet(<<v>>) = {v}
    BY <2>1 DEF ToSet
  <2> QED
    BY <2>1, <2>5, <2>6
<1> QED
  BY <1>1, <1>2 DEF OneOrNone

\* The elements of two sequences one after the other.
LEMMA ToSetOfBoth ==
  ASSUME NEW s \in Seq(Version), NEW t \in Seq(Version)
  PROVE  s \o t \in Seq(Version) /\ ToSet(s \o t) = ToSet(s) \union ToSet(t)
<1>1. /\ s \o t \in Seq(Version) /\ Len(s \o t) = Len(s) + Len(t)
      /\ \A i \in 1..(Len(s) + Len(t)) : (s \o t)[i] = IF i <= Len(s) THEN s[i] ELSE t[i - Len(s)]
  OBVIOUS
<1>2. ToSet(s \o t) \subseteq ToSet(s) \union ToSet(t)
  BY <1>1 DEF ToSet
<1>3. ASSUME NEW i \in DOMAIN s PROVE s[i] \in ToSet(s \o t)
  BY <1>1 DEF ToSet
<1>4. ASSUME NEW i \in DOMAIN t PROVE t[i] \in ToSet(s \o t)
  <2>1. Len(s) + i \in DOMAIN (s \o t) /\ (s \o t)[Len(s) + i] = t[i]
    BY <1>1
  <2> QED
    BY <2>1 DEF ToSet
<1> QED
  BY <1>1, <1>2, <1>3, <1>4 DEF ToSet

LEMMA ChannelsStep == ChannelsInv /\ [Next]_vars => ChannelsInv'
<1> SUFFICES ASSUME ChannelsInv, [Next]_vars PROVE ChannelsInv'
  OBVIOUS
<1>1. CASE Promote
  <2>1. PICK version \in Version, channel \in {"CANARY", "STABLE"} :
          /\ CanPromote(version, channel)
          /\ channels' = WithPromotion(channels, version, channel)
          /\ everCurrent' = everCurrent \union {version}
    BY <1>1 DEF Promote
  <2>2. CASE channel = "CANARY"
    <3> DEFINE old == SetToSeq(channels.canary)
    <3>1. old \in Seq(Version) /\ ToSet(old) = channels.canary
      BY SmallSetToSeq DEF ChannelsInv
    <3>2. channels' = [canary |-> {version}, stable |-> channels.stable, archived |-> channels.archived \o old]
      BY <2>1, <2>2 DEF WithPromotion, ChannelsInv
    <3>3. /\ channels.archived \o old \in Seq(Version)
          /\ ToSet(channels.archived \o old) = ToSet(channels.archived) \union channels.canary
      BY <3>1, ToSetOfBoth DEF ChannelsInv
    <3> HIDE DEF old
    <3> QED
      BY <2>1, <3>2, <3>3 DEF ChannelsInv, OneOrNone, NothingForgotten
  <2>3. CASE channel = "STABLE"
    <3> DEFINE old == SetToSeq(channels.stable)
    <3>1. old \in Seq(Version) /\ ToSet(old) = channels.stable
      BY SmallSetToSeq DEF ChannelsInv
    <3>2. channels' = [canary |-> channels.canary \ {version}, stable |-> {version},
                       archived |-> channels.archived \o old]
      BY <2>1, <2>3 DEF WithPromotion
    <3>3. channels.canary = {version}
      BY <2>1, <2>3 DEF CanPromote
    <3>4. /\ channels.archived \o old \in Seq(Version)
          /\ ToSet(channels.archived \o old) = ToSet(channels.archived) \union channels.stable
      BY <3>1, ToSetOfBoth DEF ChannelsInv
    <3> HIDE DEF old
    <3> QED
      BY <2>1, <3>2, <3>3, <3>4 DEF ChannelsInv, OneOrNone, NothingForgotten
  <2> QED
    BY <2>1, <2>2, <2>3
<1>2. CASE UNCHANGED <<channels, everCurrent>>
  BY <1>2 DEF ChannelsInv, NothingForgotten
<1>3. UNCHANGED <<channels, everCurrent>> \/ Promote
  BY DEF Next, vars, Report, Mark, SweepStale, Publish, ChooseDevices, WriteManifest, Submit, Poll, Stop,
         JobEnds, fleetVars
<1> QED
  BY <1>1, <1>2, <1>3

\* Every version that was ever current on a channel is on one or archived
\* (Fleet.promote, ModelChannels).
THEOREM NoVersionForgotten == Spec => []NothingForgotten
<1>1. Init => ChannelsInv
  <2>1. ToSet(<<>>) = {}
    BY DEF ToSet
  <2> QED
    BY <2>1 DEF Init, ChannelsInv, OneOrNone, NothingForgotten
<1>2. ChannelsInv => NothingForgotten
  BY DEF ChannelsInv
<1> QED
  BY <1>1, <1>2, ChannelsStep, PTL DEF Spec
=============================================================================
