--------------------------- MODULE OperationsProofs ---------------------------
(***************************************************************************)
(* Theorems about Operations, for any number of deployments, requests,     *)
(* versions, windows and incidents; and about Optimization, whose runs are *)
(* lists of the same kind.                                                 *)
(***************************************************************************)
EXTENDS Operations, Optimization, WellFoundedInduction, TLAPS

---------------------------------------------------------------------------
(* Sequences of elements of any kind: the library's theorems ask for the   *)
(* set the elements come from, and a list of objects has none.             *)

IsSeq(s) == \E S : s \in Seq(S)

\* The places of a sequence are the numbers up to its length.
LEMMA SeqFacts ==
  ASSUME NEW s, IsSeq(s)
  PROVE  Len(s) \in Nat /\ DOMAIN s = 1..Len(s)
BY DEF IsSeq

\* The list with nothing in it is a sequence.
LEMMA EmptyIsSeq == IsSeq(<<>>) /\ DOMAIN <<>> = {} /\ Len(<<>>) = 0
<1>1. <<>> \in Seq({})
  OBVIOUS
<1> QED
  BY <1>1 DEF IsSeq

\* So is the list of one thing.
LEMMA OneIsSeq == ASSUME NEW e PROVE IsSeq(<<e>>) /\ DOMAIN <<e>> = 1..1 /\ <<e>>[1] = e /\ Len(<<e>>) = 1
<1>1. <<e>> \in Seq({e})
  OBVIOUS
<1>2. IsSeq(<<e>>)
  BY <1>1 DEF IsSeq
<1> QED
  BY <1>2

\* Adding at the end leaves what stands before.
LEMMA AppendFacts ==
  ASSUME NEW s, IsSeq(s), NEW e
  PROVE  /\ IsSeq(Append(s, e)) /\ Len(Append(s, e)) = Len(s) + 1 /\ Append(s, e) # <<>>
         /\ DOMAIN Append(s, e) = 1..(Len(s) + 1)
         /\ \A i \in 1..Len(s) : Append(s, e)[i] = s[i]
         /\ Append(s, e)[Len(s) + 1] = e
<1>1. PICK S : s \in Seq(S)
  BY DEF IsSeq
<1>2. s \in Seq(S \union {e})
  BY <1>1
<1>3. Append(s, e) \in Seq(S \union {e}) /\ Len(Append(s, e)) = Len(s) + 1
  BY <1>2
<1>4. /\ DOMAIN Append(s, e) = 1..(Len(s) + 1)
      /\ \A i \in 1..Len(s) : Append(s, e)[i] = s[i]
      /\ Append(s, e)[Len(s) + 1] = e
  BY <1>2, <1>3
<1>5. Append(s, e) # <<>>
  BY <1>3, EmptyIsSeq, SeqFacts
<1> QED
  BY <1>3, <1>4, <1>5 DEF IsSeq

\* Replacing at one place leaves the other places.
LEMMA ExceptFacts ==
  ASSUME NEW s, IsSeq(s), NEW n, NEW e
  PROVE  /\ IsSeq([s EXCEPT ![n] = e]) /\ Len([s EXCEPT ![n] = e]) = Len(s)
         /\ DOMAIN [s EXCEPT ![n] = e] = 1..Len(s)
         /\ \A i \in 1..Len(s) : [s EXCEPT ![n] = e][i] = IF i = n THEN e ELSE s[i]
<1>1. PICK S : s \in Seq(S)
  BY DEF IsSeq
<1>2. s \in [1..Len(s) -> S \union {e}] /\ Len(s) \in Nat
  BY <1>1
<1> DEFINE t == [s EXCEPT ![n] = e]
<1>3. /\ t \in [1..Len(s) -> S \union {e}] /\ Len(s) \in Nat
      /\ \A i \in 1..Len(s) : t[i] = IF i = n THEN e ELSE s[i]
  BY <1>2
<1> HIDE DEF t
<1>4. t \in Seq(S \union {e}) /\ Len(t) = Len(s)
  BY <1>3
<1>5. IsSeq(t)
  BY <1>4 DEF IsSeq
<1>6. /\ IsSeq(t) /\ Len(t) = Len(s) /\ DOMAIN t = 1..Len(s)
      /\ \A i \in 1..Len(s) : t[i] = IF i = n THEN e ELSE s[i]
  BY <1>3, <1>4, <1>5
<1> QED
  BY <1>6, Zenon DEF t

\* A function on a beginning of the numbers is a sequence.
LEMMA FunctionIsSeq ==
  ASSUME NEW n \in Nat, NEW s, s = [k \in 1..n |-> s[k]]
  PROVE  IsSeq(s) /\ Len(s) = n
<1> DEFINE S == {s[k] : k \in 1..n}
<1>1. s \in [1..n -> S]
  OBVIOUS
<1> HIDE DEF S
<1>2. s \in Seq(S) /\ Len(s) = n
  BY <1>1
<1> QED
  BY <1>2 DEF IsSeq

\* A set of places has a least one.
LEMMA LeastIsIn ==
  ASSUME NEW n \in Nat, NEW S \in SUBSET (1..n), S # {}
  PROVE  Min(S) \in S
<1>1. PICK m \in S : \A k \in S : m <= k
  <2> DEFINE Less == {p \in Nat \X Nat : p[1] < p[2]}
  <2>1. IsWellFoundedOn(Less, Nat)
    BY NatLessThanWellFounded DEF OpToRel
  <2>2. S \subseteq Nat
    OBVIOUS
  <2>3. PICK m \in S : \A k \in S : <<k, m>> \notin Less
    <3> HIDE DEF Less
    <3> QED
      BY <2>1, <2>2, WFMin, Zenon
  <2>4. ASSUME NEW k \in S, k < m PROVE <<k, m>> \in Less
    <3> DEFINE p == <<k, m>>
    <3>1. p \in Nat \X Nat /\ p[1] = k /\ p[2] = m
      BY <2>2
    <3> QED
      BY <2>4, <3>1
  <2>5. \A k \in S : ~(k < m)
    BY <2>3, <2>4, Zenon
  <2>6. \A k \in S : m <= k
    <3> HIDE DEF Less
    <3> QED
      BY <2>2, <2>5
  <2> QED
    BY <2>6
<1> QED
  BY <1>1 DEF Min

---------------------------------------------------------------------------
(* Versions: what the methods of a deployment keep. *)

\* The number of a version is its place, and a rollback comes after what it
\* leaves and brings back what stood before that.
Numbered(v) ==
  \A n \in DOMAIN v : /\ v[n].number = n
                      /\ \A from \in v[n].from : from = n - 1 /\ \E m \in 1..(n - 2) : v[m].artifact = v[n].artifact

IsDeployment(d) ==
  /\ d = [versions |-> d.versions, status |-> d.status]
  /\ IsSeq(d.versions) /\ d.versions # <<>> /\ Numbered(d.versions)

\* A version that is added at the end and is rightly numbered.
LEMMA AppendNumbered ==
  ASSUME NEW v, IsSeq(v), Numbered(v), NEW artifact, NEW from,
         \A f \in from : f = Len(v) /\ \E m \in 1..(Len(v) - 1) : v[m].artifact = artifact
  PROVE  Numbered(Append(v, Version(Len(v) + 1, artifact, from)))
<1> DEFINE e == Version(Len(v) + 1, artifact, from)
           w == Append(v, e)
<1>1. /\ Len(v) \in Nat /\ DOMAIN v = 1..Len(v) /\ DOMAIN w = 1..(Len(v) + 1)
      /\ \A i \in 1..Len(v) : w[i] = v[i]
      /\ w[Len(v) + 1] = e
  BY SeqFacts, AppendFacts
<1>2. e.number = Len(v) + 1 /\ e.artifact = artifact /\ e.from = from
  BY DEF Version
<1> HIDE DEF e, w
<1>3. ASSUME NEW n \in 1..Len(v)
      PROVE  /\ w[n].number = n
             /\ \A f \in w[n].from : f = n - 1 /\ \E m \in 1..(n - 2) : w[m].artifact = w[n].artifact
  <2>1. \A m \in 1..(n - 2) : w[m] = v[m]
    BY <1>1
  <2> QED
    BY <1>1, <2>1 DEF Numbered
<1>4. /\ w[Len(v) + 1].number = Len(v) + 1
      /\ \A f \in w[Len(v) + 1].from :
           f = (Len(v) + 1) - 1 /\ \E m \in 1..((Len(v) + 1) - 2) : w[m].artifact = w[Len(v) + 1].artifact
  <2>1. \A m \in 1..(Len(v) - 1) : w[m] = v[m]
    BY <1>1
  <2> QED
    BY <1>1, <1>2, <2>1
<1>5. Numbered(w)
  BY <1>1, <1>3, <1>4 DEF Numbered
<1> QED
  BY <1>5 DEF w, e

\* The version that runs is the last one.
LEMMA CurrentIsLast ==
  ASSUME NEW d, IsDeployment(d)
  PROVE  /\ Len(d.versions) \in Nat \ {0}
         /\ CurrentVersion(d) = d.versions[Len(d.versions)]
         /\ CurrentVersion(d).number = Len(d.versions)
<1>1. Len(d.versions) \in Nat /\ DOMAIN d.versions = 1..Len(d.versions)
  BY SeqFacts DEF IsDeployment
<1>2. Len(d.versions) # 0
  BY DEF IsDeployment, IsSeq
<1> QED
  BY <1>1, <1>2 DEF CurrentVersion, Last, IsDeployment, Numbered

LEMMA DeploysKeeps == ASSUME NEW artifact PROVE IsDeployment(Deploys(artifact))
<1> DEFINE e == Version(1, artifact, {})
<1>1. IsSeq(<<e>>) /\ DOMAIN <<e>> = 1..1 /\ <<e>>[1] = e /\ <<e>> # <<>>
  BY OneIsSeq, EmptyIsSeq
<1>2. e.number = 1 /\ e.from = {}
  BY DEF Version
<1> HIDE DEF e
<1>3. Numbered(<<e>>)
  BY <1>1, <1>2 DEF Numbered
<1>4. Deploys(artifact) = [versions |-> <<e>>, status |-> "DEPLOYED"]
  BY DEF Deploys, e
<1> QED
  BY <1>1, <1>3, <1>4 DEF IsDeployment

\* A deployment with one more version, and another status.
LEMMA OneMoreKeeps ==
  ASSUME NEW d, IsDeployment(d), NEW e, NEW status, Numbered(Append(d.versions, e))
  PROVE  LET more == [d EXCEPT !.versions = Append(d.versions, e), !.status = status]
         IN /\ IsDeployment(more) /\ more.status = status
            /\ CurrentVersion(more) = e
<1> DEFINE v == Append(d.versions, e)
           more == [d EXCEPT !.versions = v, !.status = status]
<1>1. /\ IsSeq(v) /\ v # <<>> /\ Len(v) = Len(d.versions) + 1 /\ v[Len(d.versions) + 1] = e
  BY AppendFacts DEF IsDeployment
<1> HIDE DEF v
<1>2. more = [versions |-> v, status |-> status]
  <2>1. d = [versions |-> d.versions, status |-> d.status]
    BY DEF IsDeployment
  <2> HIDE DEF v
  <2>2. more = [d EXCEPT !.versions = v, !.status = status]
    OBVIOUS
  <2> HIDE DEF more
  <2> QED
    BY <2>1, <2>2
<1> HIDE DEF more
<1>3. Numbered(v)
  BY DEF v
<1>4. IsDeployment(more) /\ more.status = status /\ CurrentVersion(more) = e
  BY <1>1, <1>2, <1>3 DEF IsDeployment, CurrentVersion, Last
<1> QED
  BY <1>4 DEF more, v

LEMMA ReleasedKeeps ==
  ASSUME NEW d, IsDeployment(d), NEW artifact
  PROVE  IsDeployment(Released(d, artifact))
<1> DEFINE e == Version(Len(d.versions) + 1, artifact, {})
<1>1. Released(d, artifact) = [d EXCEPT !.versions = Append(d.versions, e), !.status = "DEPLOYED"]
  BY CurrentIsLast DEF Released
<1>2. Numbered(Append(d.versions, Version(Len(d.versions) + 1, artifact, {})))
  BY AppendNumbered DEF IsDeployment
<1> HIDE DEF e
<1>3. IsDeployment([d EXCEPT !.versions = Append(d.versions, e), !.status = "DEPLOYED"])
  BY <1>2, OneMoreKeeps DEF e
<1> QED
  BY <1>1, <1>3

LEMMA RolledBackKeeps ==
  ASSUME NEW d, IsDeployment(d), NEW to, CanRollBack(d, to)
  PROVE  /\ IsDeployment(RolledBack(d, to)) /\ RolledBack(d, to).status = "ROLLED_BACK"
         /\ CurrentVersion(RolledBack(d, to)).from # {}
<1> DEFINE v == d.versions
           source == CHOOSE x \in ToSet(v) : x.number = to
           n == Len(v)
           e == Version(n + 1, source.artifact, {n})
<1>1. /\ n \in Nat \ {0} /\ CurrentVersion(d).number = n /\ DOMAIN v = 1..n
      /\ \A i \in 1..n : v[i].number = i
  BY CurrentIsLast, SeqFacts DEF IsDeployment, Numbered
<1>2. to \in 1..(n - 1)
  BY <1>1 DEF CanRollBack
<1>3. source = v[to]
  <2>1. v[to] \in ToSet(v) /\ v[to].number = to
    BY <1>1, <1>2 DEF ToSet
  <2>2. source \in ToSet(v) /\ source.number = to
    BY <2>1
  <2>3. PICK i \in 1..n : source = v[i]
    BY <2>2, <1>1 DEF ToSet
  <2> QED
    BY <2>2, <2>3, <1>1
<1>4. Numbered(Append(v, e))
  BY <1>1, <1>2, <1>3, AppendNumbered DEF IsDeployment
<1>5. RolledBack(d, to) = [d EXCEPT !.versions = Append(d.versions, e), !.status = "ROLLED_BACK"]
  BY <1>1 DEF RolledBack
<1>6. e.from # {}
  BY DEF Version
<1> HIDE DEF e
<1> DEFINE more == [d EXCEPT !.versions = Append(d.versions, e), !.status = "ROLLED_BACK"]
<1>7. IsDeployment(more) /\ more.status = "ROLLED_BACK" /\ CurrentVersion(more) = e
  BY <1>4, OneMoreKeeps
<1> HIDE DEF more
<1> QED
  BY <1>5, <1>6, <1>7 DEF more

\* Stopping and resuming touch no version.
LEMMA StatusKeeps ==
  ASSUME NEW d, IsDeployment(d)
  PROVE  /\ IsDeployment(Quarantined(d)) /\ Quarantined(d).versions = d.versions
         /\ IsDeployment(Resumed(d)) /\ Resumed(d).versions = d.versions
<1>1. ASSUME NEW status
      PROVE  /\ IsDeployment([d EXCEPT !.status = status])
             /\ [d EXCEPT !.status = status].versions = d.versions
  <2>1. [d EXCEPT !.status = status] = [versions |-> d.versions, status |-> status]
    BY DEF IsDeployment
  <2> QED
    BY <2>1 DEF IsDeployment
<1> QED
  BY <1>1 DEF Quarantined, Resumed

---------------------------------------------------------------------------
(* The deployments. *)

\* Every object is a sound deployment, and an id names an object or nothing.
DeploymentsInv ==
  /\ IsSeq(deployments)
  /\ \A i \in 1..Len(deployments) : IsDeployment(deployments[i])
  /\ deployed \in [Ids -> 0..Len(deployments)]

\* What an operation on one deployment leaves.
LEMMA ChangesKeeps ==
  ASSUME DeploymentsInv, NEW id \in Ids, deployed[id] # 0, NEW d, IsDeployment(d), Changes(id, d)
  PROVE  /\ DeploymentsInv' /\ DOMAIN deployments' = 1..Len(deployments)
         /\ deployed[id] \in 1..Len(deployments)
         /\ \A i \in 1..Len(deployments) : deployments'[i] = IF i = deployed[id] THEN d ELSE deployments[i]
<1> DEFINE n == deployed[id]
           more == [deployments EXCEPT ![n] = d]
<1>1. n \in 1..Len(deployments) /\ Len(deployments) \in Nat
  BY SeqFacts DEF DeploymentsInv
<1>2. deployments' = more /\ deployed' = deployed
  BY DEF Changes
<1> HIDE DEF n
<1>3. /\ IsSeq(more) /\ Len(more) = Len(deployments) /\ DOMAIN more = 1..Len(deployments)
      /\ \A i \in 1..Len(deployments) : more[i] = IF i = n THEN d ELSE deployments[i]
  BY ExceptFacts DEF DeploymentsInv
<1> HIDE DEF more
<1>4. DeploymentsInv'
  BY <1>1, <1>2, <1>3 DEF DeploymentsInv
<1> QED
  BY <1>1, <1>2, <1>3, <1>4 DEF n

\* What deploying leaves.
LEMMA DeployingKeeps ==
  ASSUME DeploymentsInv, NEW id \in Ids, NEW artifact,
         deployments' = Append(deployments, Deploys(artifact)),
         deployed' = [deployed EXCEPT ![id] = Len(deployments) + 1]
  PROVE  DeploymentsInv' /\ \A i \in DOMAIN deployments : deployments'[i] = deployments[i]
<1> DEFINE d == Deploys(artifact)
<1>1. IsDeployment(d)
  BY DeploysKeeps
<1> HIDE DEF d
<1>2. deployments' = Append(deployments, d)
  BY DEF d
<1>3. /\ IsSeq(deployments') /\ Len(deployments') = Len(deployments) + 1
      /\ \A i \in 1..Len(deployments) : deployments'[i] = deployments[i]
      /\ deployments'[Len(deployments) + 1] = d
  BY <1>2, AppendFacts DEF DeploymentsInv
<1>4. Len(deployments) \in Nat /\ DOMAIN deployments = 1..Len(deployments)
  BY SeqFacts DEF DeploymentsInv
<1>5. deployed' \in [Ids -> 0..Len(deployments')]
  BY <1>3, <1>4 DEF DeploymentsInv
<1>6. \A i \in 1..Len(deployments') : IsDeployment(deployments'[i])
  BY <1>1, <1>3, <1>4 DEF DeploymentsInv
<1> QED
  BY <1>3, <1>4, <1>5, <1>6 DEF DeploymentsInv

\* What one step may do to the versions of a deployment in quarantine.
QuarantineStep ==
  \A i \in DOMAIN deployments :
    deployments[i].status = "QUARANTINED" =>
      \/ deployments'[i].versions = deployments[i].versions
      \/ deployments'[i].status = "ROLLED_BACK" /\ CurrentVersion(deployments'[i]).from # {}

LEMMA DeploymentsStep ==
  ASSUME DeploymentsInv, [Next]_vars
  PROVE  DeploymentsInv' /\ QuarantineStep
<1>1. DOMAIN deployments = 1..Len(deployments)
  BY SeqFacts DEF DeploymentsInv
<1>2. ASSUME UNCHANGED <<deployments, deployed>>
      PROVE  DeploymentsInv' /\ QuarantineStep
  BY <1>2 DEF DeploymentsInv, QuarantineStep
<1>3. CASE UNCHANGED vars
  BY <1>2, <1>3 DEF vars
<1>4. ASSUME NEW t \in Requests, NEW id \in Ids, NEW watchId, NEW artifact, NEW strict,
             DeployModel(t, id, watchId, artifact, strict)
      PROVE  DeploymentsInv' /\ QuarantineStep
  BY <1>4, DeployingKeeps DEF DeployModel, QuarantineStep
<1>5. ASSUME NEW id \in Ids, NEW artifact, NEW strict, ReleaseVersion(id, artifact, strict)
      PROVE  DeploymentsInv' /\ QuarantineStep
  <2>1. /\ deployed[id] # 0 /\ Deployment(id).status # "QUARANTINED"
        /\ Changes(id, Released(Deployment(id), artifact))
    BY <1>5 DEF ReleaseVersion, CanRelease
  <2>2. IsDeployment(Deployment(id))
    BY <2>1 DEF DeploymentsInv, Deployment
  <2>3. IsDeployment(Released(Deployment(id), artifact))
    BY <2>2, ReleasedKeeps
  <2> QED
    BY <1>1, <2>1, <2>3, ChangesKeeps DEF QuarantineStep, Deployment
<1>6. ASSUME NEW id \in Ids, NEW reason, QuarantineDeployment(id, reason)
      PROVE  DeploymentsInv' /\ QuarantineStep
  <2>1. deployed[id] # 0 /\ Changes(id, Quarantined(Deployment(id)))
    BY <1>6 DEF QuarantineDeployment
  <2>2. IsDeployment(Deployment(id))
    BY <2>1 DEF DeploymentsInv, Deployment
  <2>3. /\ IsDeployment(Quarantined(Deployment(id)))
        /\ Quarantined(Deployment(id)).versions = Deployment(id).versions
    BY <2>2, StatusKeeps
  <2> QED
    BY <1>1, <2>1, <2>3, ChangesKeeps DEF QuarantineStep, Deployment
<1>7. ASSUME NEW id \in Ids, ResumeDeployment(id)
      PROVE  DeploymentsInv' /\ QuarantineStep
  <2>1. deployed[id] # 0 /\ Changes(id, Resumed(Deployment(id)))
    BY <1>7 DEF ResumeDeployment
  <2>2. IsDeployment(Deployment(id))
    BY <2>1 DEF DeploymentsInv, Deployment
  <2>3. /\ IsDeployment(Resumed(Deployment(id)))
        /\ Resumed(Deployment(id)).versions = Deployment(id).versions
    BY <2>2, StatusKeeps
  <2> QED
    BY <1>1, <2>1, <2>3, ChangesKeeps DEF QuarantineStep, Deployment
<1>8. ASSUME NEW id \in Ids, NEW to, RollbackDeployment(id, to)
      PROVE  DeploymentsInv' /\ QuarantineStep
  <2>1. /\ deployed[id] # 0 /\ CanRollBack(Deployment(id), to)
        /\ Changes(id, RolledBack(Deployment(id), to))
    BY <1>8 DEF RollbackDeployment
  <2>2. IsDeployment(Deployment(id))
    BY <2>1 DEF DeploymentsInv, Deployment
  <2>3. /\ IsDeployment(RolledBack(Deployment(id), to))
        /\ RolledBack(Deployment(id), to).status = "ROLLED_BACK"
        /\ CurrentVersion(RolledBack(Deployment(id), to)).from # {}
    BY <2>1, <2>2, RolledBackKeeps
  <2> QED
    BY <1>1, <2>1, <2>3, ChangesKeeps DEF QuarantineStep
<1>9. ASSUME NEW t \in Requests, OpenWatch(t) \/ RefuseWatch(t) \/ IngestInferenceLog(t)
      PROVE  DeploymentsInv' /\ QuarantineStep
  BY <1>2, <1>9 DEF OpenWatch, RefuseWatch, IngestInferenceLog
<1>10. ASSUME NEW t \in Requests, NEW id \in Ids, NEW batch, NEW window,
              Bind(t, id, batch) \/ StartObserving(t, id, window) \/ RebaselineWatch(id, window)
       PROVE  DeploymentsInv' /\ QuarantineStep
  BY <1>2, <1>10 DEF Bind, StartObserving, RebaselineWatch
<1>11. ASSUME NEW t \in Requests, NEW drift, NEW opens, ObserveHealth(t, drift, opens)
       PROVE  DeploymentsInv' /\ QuarantineStep
  BY <1>2, <1>11 DEF ObserveHealth
<1>12. ASSUME NEW id \in Ids, NEW window, RebaselineWatch(id, window)
       PROVE  DeploymentsInv' /\ QuarantineStep
  BY <1>2, <1>12 DEF RebaselineWatch
<1>13. ASSUME NEW k, NEW label, ResolveIncident(k, label)
       PROVE  DeploymentsInv' /\ QuarantineStep
  BY <1>2, <1>13 DEF ResolveIncident
<1> QED
  BY <1>3, <1>4, <1>5, <1>6, <1>7, <1>8, <1>9, <1>10, <1>11, <1>12, <1>13 DEF Next

LEMMA DeploymentsInit == Init => DeploymentsInv
BY EmptyIsSeq DEF Init, DeploymentsInv

\* Every deployment there is was made and changed by its methods alone.
THEOREM DeploymentsInvariant == Spec => []DeploymentsInv
BY DeploymentsInit, DeploymentsStep, PTL DEF Spec

\* A version number of a deployment stands for one content, and a rollback
\* brings back what an earlier number stood for (Deployment.rollback_to).
THEOREM NumbersStandForContents == Spec => []RollbackRestores
<1>1. DeploymentsInv => RollbackRestores
  BY SeqFacts DEF DeploymentsInv, RollbackRestores, IsDeployment, Numbered
<1> QED
  BY <1>1, DeploymentsInvariant, PTL

\* A deployment in quarantine takes no version but a rollback, whichever
\* requests are under way (Deployment.release, Deployment.quarantine).
THEOREM NothingReleasedInQuarantine == Spec => QuarantineHolds
<1>1. DeploymentsInv /\ [Next]_vars => [QuarantineStep]_vars
  BY DeploymentsStep
<1>2. Spec => [][QuarantineStep]_vars
  BY <1>1, DeploymentsInvariant, PTL DEF Spec
<1> QED
  BY <1>2 DEF QuarantineHolds, QuarantineStep

---------------------------------------------------------------------------
(* The watches: time lines and incidents. *)

IsTimeline(r) ==
  /\ IsSeq(r)
  /\ \A k \in 1..Len(r) : r[k].window.from \in Int
  /\ \A a, b \in 1..Len(r) : a < b => r[a].window.from <= r[b].window.from

IsIncident(c) == c = [window |-> c.window, kind |-> c.kind, version |-> c.version, open |-> c.open]

Traced(incidents, reports) ==
  /\ IsSeq(incidents)
  /\ \A k \in 1..Len(incidents) :
       /\ IsIncident(incidents[k])
       /\ \E j \in 1..Len(reports) : reports[j].window.label = incidents[k].window

IsWatch(w) ==
  /\ w = [deployment |-> w.deployment, p95 |-> w.p95, mix |-> w.mix, reports |-> w.reports, incidents |-> w.incidents]
  /\ IsTimeline(w.reports) /\ Traced(w.incidents, w.reports)

\* What HealthWatch.record leaves of a time line.
LEMMA RecordingKeeps ==
  ASSUME NEW watch, IsTimeline(watch.reports), NEW report, report.window.from \in Int, CanRecord(watch, report)
  PROVE  LET more == WithReport(watch.reports, report)
         IN /\ IsTimeline(more)
            /\ \E j \in 1..Len(more) : more[j].window.label = report.window.label
            /\ \A i \in 1..Len(watch.reports) :
                 \E j \in 1..Len(more) : more[j].window.label = watch.reports[i].window.label
<1> DEFINE r == watch.reports
           n == Len(r)
           more == WithReport(r, report)
<1>1. n \in Nat /\ DOMAIN r = 1..n /\ IsSeq(r)
  BY SeqFacts DEF IsTimeline
<1>2. r # <<>> => n # 0 /\ Last(r) = r[n]
  BY DEF Last, IsTimeline, IsSeq
<1>3. r # <<>> => r[n].window.from <= report.window.from
  BY <1>1, <1>2 DEF CanRecord, IsTimeline
<1>4. n # 0 => r # <<>>
  BY EmptyIsSeq
<1>5. CASE r # <<>> /\ r[n].window.label = report.window.label
  <2> DEFINE w == [r EXCEPT ![n] = report]
  <2>1. more = w
    BY <1>2, <1>5 DEF WithReport
  <2>2. IsSeq(w) /\ Len(w) = n /\ \A i \in 1..n : w[i] = IF i = n THEN report ELSE r[i]
    BY <1>1, ExceptFacts
  <2> HIDE DEF w
  <2>6. /\ \A i \in 1..n : r[i].window.from \in Int
        /\ \A a, b \in 1..n : a < b => r[a].window.from <= r[b].window.from
    BY DEF IsTimeline
  <2>7. ASSUME NEW a \in 1..n, NEW b \in 1..n, a < b PROVE w[a].window.from <= w[b].window.from
    <3>1. n \in 1..n /\ a # n /\ r[a].window.from <= r[n].window.from
      BY <1>1, <2>6, <2>7
    <3>2. w[a] = r[a] /\ w[b] \in {report, r[b]}
      BY <2>2, <3>1
    <3>3. r[n].window.from <= report.window.from
      BY <1>3, <1>5
    <3>4. /\ r[a].window.from \in Int /\ r[n].window.from \in Int
          /\ r[a].window.from <= r[b].window.from
      BY <2>6, <2>7, <3>1
    <3>5. r[a].window.from <= report.window.from
      BY <3>1, <3>3, <3>4
    <3> QED
      BY <3>2, <3>4, <3>5, Zenon
  <2>3. IsTimeline(w)
    BY <2>2, <2>6, <2>7 DEF IsTimeline
  <2>4. \A i \in 1..n : w[i].window.label = r[i].window.label
    BY <1>5, <2>2
  <2>5. w[n].window.label = report.window.label /\ n \in 1..n
    BY <1>1, <1>2, <1>5, <2>2
  <2> QED
    BY <2>1, <2>2, <2>3, <2>4, <2>5
<1>6. CASE ~(r # <<>> /\ r[n].window.label = report.window.label)
  <2> DEFINE w == Append(r, report)
  <2>1. more = w
    BY <1>2, <1>6 DEF WithReport
  <2>2. IsSeq(w) /\ Len(w) = n + 1 /\ (\A i \in 1..n : w[i] = r[i]) /\ w[n + 1] = report
    BY <1>1, AppendFacts
  <2> HIDE DEF w
  <2>3. \A i \in 1..n : w[i].window.from \in Int /\ w[i].window.from <= report.window.from
    <3>1. \A i \in 1..n : r[i].window.from \in Int /\ r[i].window.from <= r[n].window.from
      BY <1>1 DEF IsTimeline
    <3>2. n # 0 => r[n].window.from <= report.window.from
      BY <1>3, <1>4
    <3> QED
      BY <1>1, <2>2, <3>1, <3>2
  <2>4. \A a, b \in 1..n : a < b => w[a].window.from <= w[b].window.from
    BY <2>2 DEF IsTimeline
  <2>5. IsTimeline(w)
    BY <1>1, <2>2, <2>3, <2>4 DEF IsTimeline
  <2> QED
    BY <1>1, <2>1, <2>2, <2>5
<1> QED
  BY <1>5, <1>6

\* A record of a watch with one or two fields replaced is a watch.
LEMMA RecordedKeeps ==
  ASSUME NEW w, IsWatch(w), NEW report, report.window.from \in Int, CanRecord(w, report), NEW opens
  PROVE  IsWatch(Recorded(w, report, opens)) /\ Recorded(w, report, opens).deployment = w.deployment
<1> DEFINE r == WithReport(w.reports, report)
           c == IF opens THEN WithIncident(w.incidents, report) ELSE w.incidents
           more == [w EXCEPT !.reports = r, !.incidents = c]
<1>1. Recorded(w, report, opens) = more
  BY DEF Recorded
<1>2. /\ IsTimeline(r)
      /\ \E j \in 1..Len(r) : r[j].window.label = report.window.label
      /\ \A i \in 1..Len(w.reports) : \E j \in 1..Len(r) : r[j].window.label = w.reports[i].window.label
  BY RecordingKeeps DEF IsWatch
<1> HIDE DEF r
<1>3. Traced(w.incidents, r)
  BY <1>2 DEF IsWatch, Traced
<1>4. Traced(WithIncident(w.incidents, report), r)
  <2> DEFINE e == [window |-> report.window.label, kind |-> IncidentKindOf(report.findings),
                   version |-> report.version, open |-> TRUE]
             v == Append(w.incidents, e)
  <2>1. WithIncident(w.incidents, report) \in {w.incidents, v}
    BY DEF WithIncident
  <2>2. IsIncident(e) /\ e.window = report.window.label
    BY DEF IsIncident
  <2> HIDE DEF e
  <2>3. /\ IsSeq(v) /\ Len(v) = Len(w.incidents) + 1 /\ Len(w.incidents) \in Nat
        /\ (\A i \in 1..Len(w.incidents) : v[i] = w.incidents[i]) /\ v[Len(w.incidents) + 1] = e
    BY <1>3, AppendFacts, SeqFacts DEF Traced
  <2> HIDE DEF v
  <2>4. Traced(v, r)
    BY <1>2, <1>3, <2>2, <2>3 DEF Traced
  <2> QED
    BY <1>3, <2>1, <2>4
<1>5. Traced(c, r)
  BY <1>3, <1>4
<1> HIDE DEF c
<1>6. more = [deployment |-> w.deployment, p95 |-> w.p95, mix |-> w.mix, reports |-> r, incidents |-> c]
  <2>1. w = [deployment |-> w.deployment, p95 |-> w.p95, mix |-> w.mix, reports |-> w.reports, incidents |-> w.incidents]
    BY DEF IsWatch
  <2>2. more = [w EXCEPT !.reports = r, !.incidents = c]
    OBVIOUS
  <2> HIDE DEF more
  <2> QED
    BY <2>1, <2>2
<1> HIDE DEF more
<1>7. IsWatch(more) /\ more.deployment = w.deployment
  BY <1>2, <1>5, <1>6 DEF IsWatch
<1> QED
  BY <1>1, <1>7

\* What set_baseline and the resolution of an incident leave.
LEMMA TouchedKeeps ==
  ASSUME NEW w, IsWatch(w), NEW mix, NEW label
  PROVE  /\ IsWatch([w EXCEPT !.mix = mix]) /\ [w EXCEPT !.mix = mix].deployment = w.deployment
         /\ IsWatch([w EXCEPT !.incidents = Resolved(w.incidents, label)])
         /\ [w EXCEPT !.incidents = Resolved(w.incidents, label)].deployment = w.deployment
<1>1. w = [deployment |-> w.deployment, p95 |-> w.p95, mix |-> w.mix, reports |-> w.reports, incidents |-> w.incidents]
  BY DEF IsWatch
<1>2. ASSUME NEW m, NEW c, Traced(c, w.reports)
      PROVE  /\ IsWatch([w EXCEPT !.mix = m]) /\ [w EXCEPT !.mix = m].deployment = w.deployment
             /\ IsWatch([w EXCEPT !.incidents = c]) /\ [w EXCEPT !.incidents = c].deployment = w.deployment
  <2>1. [w EXCEPT !.mix = m] =
          [deployment |-> w.deployment, p95 |-> w.p95, mix |-> m, reports |-> w.reports, incidents |-> w.incidents]
    BY <1>1
  <2>2. [w EXCEPT !.incidents = c] =
          [deployment |-> w.deployment, p95 |-> w.p95, mix |-> w.mix, reports |-> w.reports, incidents |-> c]
    BY <1>1
  <2> QED
    BY <1>2, <2>1, <2>2 DEF IsWatch
<1> DEFINE i == Min({k \in DOMAIN w.incidents : w.incidents[k].window = label})
           s == w.incidents
           e == [s[i] EXCEPT !.open = FALSE]
           c == [s EXCEPT ![i] = e]
<1>3. Resolved(w.incidents, label) = c
  BY DEF Resolved
<1>4. IsSeq(w.incidents) /\ Len(w.incidents) \in Nat /\ Traced(w.incidents, w.reports)
  BY SeqFacts DEF IsWatch, Traced
<1> HIDE DEF i
<1>5. i \in 1..Len(w.incidents) => IsIncident(e) /\ e.window = w.incidents[i].window
  <2> DEFINE b == w.incidents[i]
  <2> SUFFICES ASSUME i \in 1..Len(w.incidents) PROVE IsIncident(e) /\ e.window = b.window
    OBVIOUS
  <2>1. b = [window |-> b.window, kind |-> b.kind, version |-> b.version, open |-> b.open]
    BY <1>4 DEF Traced, IsIncident
  <2>2. e = [b EXCEPT !.open = FALSE]
    OBVIOUS
  <2> HIDE DEF b, e
  <2>3. e = [window |-> b.window, kind |-> b.kind, version |-> b.version, open |-> FALSE]
    BY <2>1, <2>2
  <2> QED
    BY <2>3 DEF IsIncident
<1>8. IsSeq(s) /\ Len(s) = Len(w.incidents) /\ \A k \in 1..Len(s) : s[k] = w.incidents[k]
  BY <1>4
<1> HIDE DEF e, s
<1>6. IsSeq(c) /\ Len(c) = Len(s) /\ \A k \in 1..Len(s) : c[k] = IF k = i THEN e ELSE s[k]
  BY <1>8, ExceptFacts
<1> HIDE DEF c
<1>7. Traced(c, w.reports)
  BY <1>4, <1>5, <1>6, <1>8 DEF Traced
<1> QED
  BY <1>2, <1>3, <1>7

\* Every watch is sound, and whoever observes does so over a window.
WatchesInv ==
  /\ IsSeq(watches)
  /\ \A i \in 1..Len(watches) : IsWatch(watches[i])
  /\ work = [t \in Requests |-> work[t]]
  /\ \A t \in Requests : work[t].op = "observe" => work[t].window.from \in Int

LEMMA OpenedIsWatch ==
  ASSUME NEW id, NEW artifact
  PROVE  IsWatch(OpensWatch(id, artifact)) /\ OpensWatch(id, artifact).deployment = id
<1>1. IsTimeline(<<>>) /\ Traced(<<>>, <<>>)
  BY EmptyIsSeq DEF IsTimeline, Traced
<1> QED
  BY <1>1 DEF OpensWatch, IsWatch

\* A watch that is replaced by another over the same deployment.
LEMMA ReplacingKeeps ==
  ASSUME WatchesInv, NEW n, NEW w, watches' = [watches EXCEPT ![n] = w],
         n \in 1..Len(watches) => IsWatch(w) /\ w.deployment = watches[n].deployment
  PROVE  /\ IsSeq(watches') /\ Len(watches') = Len(watches)
         /\ \A i \in 1..Len(watches) :
              IsWatch(watches'[i]) /\ watches'[i].deployment = watches[i].deployment
<1>1. IsSeq(watches)
  BY DEF WatchesInv
<1>2. /\ IsSeq(watches') /\ Len(watches') = Len(watches)
      /\ \A i \in 1..Len(watches) : watches'[i] = IF i = n THEN w ELSE watches[i]
  BY <1>1, ExceptFacts
<1> QED
  BY <1>2 DEF WatchesInv

\* What a step does to the list of watches: it grows or keeps who is watched.
WatchesKept ==
  /\ Len(watches) \in Nat /\ Len(watches') \in Nat /\ Len(watches) <= Len(watches')
  /\ \A i \in 1..Len(watches) : watches'[i].deployment = watches[i].deployment

\* The windows anybody asks about have a beginning.
LEMMA WindowFacts ==
  ASSUME NEW window \in Windows, NEW n
  PROVE  [window EXCEPT !.samples = n].from \in Int
<1>1. window \in [label : STRING, from : Int, to : Int, samples : Nat, device : SUBSET STRING]
  BY OperationsAssumption
<1> QED
  BY <1>1

LEMMA WatchesStep ==
  ASSUME WatchesInv, [Next]_vars
  PROVE  WatchesInv' /\ WatchesKept
<1>1. IsSeq(watches) /\ Len(watches) \in Nat /\ DOMAIN watches = 1..Len(watches)
  BY SeqFacts DEF WatchesInv
<1>2. ASSUME UNCHANGED watches,
             \/ UNCHANGED work
             \/ \E t \in Requests : \E job :
                  work' = [work EXCEPT ![t] = job] /\ (job.op = "observe" => job.window.from \in Int)
      PROVE  WatchesInv' /\ WatchesKept
  <2>1. WatchesKept
    BY <1>1, <1>2 DEF WatchesKept
  <2>2. CASE UNCHANGED work
    BY <1>2, <2>1, <2>2 DEF WatchesInv
  <2>3. ASSUME NEW t \in Requests, NEW job, work' = [work EXCEPT ![t] = job], job.op = "observe" => job.window.from \in Int
        PROVE  /\ work' = [u \in Requests |-> work'[u]]
               /\ \A u \in Requests : work'[u].op = "observe" => work'[u].window.from \in Int
    <3>1. work = [u \in Requests |-> work[u]]
      BY DEF WatchesInv
    <3>2. work' = [u \in Requests |-> IF u = t THEN job ELSE work[u]]
      BY <2>3, <3>1
    <3>3. work' = [u \in Requests |-> work'[u]]
      BY <3>2
    <3> QED
      BY <2>3, <3>2, <3>3 DEF WatchesInv
  <2> QED
    BY <1>2, <2>1, <2>2, <2>3 DEF WatchesInv
<1>3. CASE UNCHANGED vars
  BY <1>2, <1>3 DEF vars
<1>4. Idle.op # "observe"
  BY DEF Idle
<1>5. ASSUME NEW t \in Requests, NEW id, NEW watchId, NEW artifact, NEW strict,
             DeployModel(t, id, watchId, artifact, strict)
      PROVE  WatchesInv' /\ WatchesKept
  <2> DEFINE job == [op |-> "deploy", id |-> id, watch |-> watchId, artifact |-> artifact]
  <2>1. work' = [work EXCEPT ![t] = job] /\ job.op # "observe" /\ UNCHANGED watches
    BY <1>5 DEF DeployModel
  <2> HIDE DEF job
  <2> QED
    BY <1>2, <2>1
<1>6. ASSUME NEW t \in Requests, OpenWatch(t)
      PROVE  WatchesInv' /\ WatchesKept
  <2> DEFINE w == OpensWatch(work[t].id, work[t].artifact)
  <2>1. IsWatch(w)
    BY OpenedIsWatch
  <2>2. watches' = Append(watches, w) /\ work' = [work EXCEPT ![t] = Idle]
    BY <1>6 DEF OpenWatch
  <2> HIDE DEF w
  <2>3. /\ IsSeq(watches') /\ Len(watches') = Len(watches) + 1
        /\ \A i \in 1..Len(watches) : watches'[i] = watches[i]
        /\ watches'[Len(watches) + 1] = w
    BY <1>1, <2>2, AppendFacts
  <2>4. /\ work' = [u \in Requests |-> work'[u]]
        /\ \A u \in Requests : work'[u].op = "observe" => work'[u].window.from \in Int
    BY <1>4, <2>2 DEF WatchesInv
  <2>5. \A i \in 1..Len(watches') : IsWatch(watches'[i])
    BY <1>1, <2>1, <2>3 DEF WatchesInv
  <2> QED
    BY <1>1, <2>3, <2>4, <2>5 DEF WatchesInv, WatchesKept
<1>7. ASSUME NEW d, NEW id, Changes(id, d)
      PROVE  WatchesInv' /\ WatchesKept
  BY <1>2, <1>7 DEF Changes
<1>8. ASSUME NEW id, NEW artifact, NEW strict, NEW reason, NEW to,
             \/ ReleaseVersion(id, artifact, strict) \/ QuarantineDeployment(id, reason)
             \/ ResumeDeployment(id) \/ RollbackDeployment(id, to)
      PROVE  \E d : Changes(id, d)
  BY <1>8 DEF ReleaseVersion, QuarantineDeployment, ResumeDeployment, RollbackDeployment
<1>9. ASSUME NEW t \in Requests, NEW id, NEW batch, Bind(t, id, batch)
      PROVE  WatchesInv' /\ WatchesKept
  <2> DEFINE job == IF deployed[id] = 0 THEN Idle ELSE [op |-> "ingest", id |-> id, batch |-> batch]
  <2>1. work' = [work EXCEPT ![t] = job] /\ UNCHANGED watches
    BY <1>9 DEF Bind
  <2>2. job.op # "observe"
    BY DEF Idle
  <2> HIDE DEF job
  <2> QED
    BY <1>2, <2>1, <2>2
<1>10. ASSUME NEW t \in Requests, IngestInferenceLog(t)
       PROVE  WatchesInv' /\ WatchesKept
  <2>1. work' = [work EXCEPT ![t] = Idle] /\ UNCHANGED watches
    BY <1>10, Zenon DEF IngestInferenceLog
  <2> QED
    BY <1>2, <1>4, <2>1
<1>11. ASSUME NEW t \in Requests, NEW id, NEW window \in Windows, StartObserving(t, id, window)
       PROVE  WatchesInv' /\ WatchesKept
  <2>1. PICK k \in WatchFor(id) :
          work' = [work EXCEPT ![t] =
            [op |-> "observe", id |-> id, deployment |-> deployed[id], watch |-> shelf[k],
             window |-> [window EXCEPT !.samples = Len(RecordsIn(logs[id], window))],
             records |-> RecordsIn(logs[id], window)]]
    BY <1>11, Zenon DEF StartObserving
  <2> DEFINE size == Len(RecordsIn(logs[id], window))
             seen == [window EXCEPT !.samples = size]
             job  == [op |-> "observe", id |-> id, deployment |-> deployed[id], watch |-> shelf[k],
                      window |-> seen, records |-> RecordsIn(logs[id], window)]
  <2>2. work' = [work EXCEPT ![t] = job]
    BY <2>1, Zenon
  <2> HIDE DEF size
  <2>3. seen.from \in Int
    BY WindowFacts
  <2> HIDE DEF seen
  <2>4. job.window = seen
    OBVIOUS
  <2> HIDE DEF job
  <2>5. UNCHANGED watches
    BY <1>11 DEF StartObserving
  <2> QED
    BY <1>2, <2>2, <2>3, <2>4, <2>5
<1>12. ASSUME NEW t \in Requests, NEW drift, NEW opens, ObserveHealth(t, drift, opens)
       PROVE  WatchesInv' /\ WatchesKept
  <2> DEFINE object == work[t].watch.object
             report == [window |-> work[t].window, version |-> VersionOf(work[t]),
                        findings |-> FindingsOf(work[t], watches[object], logs[work[t].id], drift)]
             w == Recorded(watches[object], report, opens)
  <2>1. work[t].op = "observe" /\ work' = [work EXCEPT ![t] = Idle]
    BY <1>12 DEF ObserveHealth
  <2>2. \/ UNCHANGED watches
        \/ CanRecord(watches[object], report) /\ watches' = [watches EXCEPT ![object] = w]
    BY <1>12, Zenon DEF ObserveHealth
  <2>3. report.window.from \in Int
    BY <2>1 DEF WatchesInv
  <2> HIDE DEF object, report
  <2>4. ASSUME CanRecord(watches[object], report), object \in 1..Len(watches)
        PROVE  IsWatch(w) /\ w.deployment = watches[object].deployment
    <3>1. IsWatch(watches[object])
      BY <2>4 DEF WatchesInv
    <3> QED
      BY <2>3, <2>4, <3>1, RecordedKeeps
  <2> HIDE DEF w
  <2>5. /\ work' = [u \in Requests |-> work'[u]]
        /\ \A u \in Requests : work'[u].op = "observe" => work'[u].window.from \in Int
    BY <1>4, <2>1 DEF WatchesInv
  <2>6. CASE UNCHANGED watches
    BY <1>1, <2>5, <2>6 DEF WatchesInv, WatchesKept
  <2>7. CASE CanRecord(watches[object], report) /\ watches' = [watches EXCEPT ![object] = w]
    <3>1. /\ IsSeq(watches') /\ Len(watches') = Len(watches)
          /\ \A i \in 1..Len(watches) :
               IsWatch(watches'[i]) /\ watches'[i].deployment = watches[i].deployment
      BY <2>4, <2>7, ReplacingKeeps, Zenon
    <3> QED
      BY <1>1, <2>5, <3>1 DEF WatchesInv, WatchesKept
  <2> QED
    BY <2>2, <2>6, <2>7
<1>13. ASSUME NEW id, NEW window, RebaselineWatch(id, window)
       PROVE  WatchesInv' /\ WatchesKept
  <2> DEFINE mix == Shares(MeasureMix(RecordsIn(logs[id], window)))
  <2>1. PICK k \in WatchFor(id) : watches' = [watches EXCEPT ![shelf[k].object].mix = mix]
    BY <1>13, Zenon DEF RebaselineWatch
  <2> DEFINE n == shelf[k].object
             w == [watches[n] EXCEPT !.mix = mix]
  <2>2. watches' = [watches EXCEPT ![n] = w]
    BY <2>1, Zenon
  <2> HIDE DEF n, mix
  <2>3. n \in 1..Len(watches) => IsWatch(w) /\ w.deployment = watches[n].deployment
    BY TouchedKeeps DEF WatchesInv
  <2> HIDE DEF w
  <2>4. /\ IsSeq(watches') /\ Len(watches') = Len(watches)
        /\ \A i \in 1..Len(watches) :
             IsWatch(watches'[i]) /\ watches'[i].deployment = watches[i].deployment
    BY <2>2, <2>3, ReplacingKeeps, Zenon
  <2>5. UNCHANGED work
    BY <1>13 DEF RebaselineWatch
  <2> QED
    BY <1>1, <2>4, <2>5 DEF WatchesInv, WatchesKept
<1>14. ASSUME NEW k, NEW label, ResolveIncident(k, label)
       PROVE  WatchesInv' /\ WatchesKept
  <2> DEFINE n == shelf[k].object
             c == Resolved(watches[n].incidents, label)
             w == [watches[n] EXCEPT !.incidents = c]
  <2>1. watches' = [watches EXCEPT ![n] = w] /\ UNCHANGED work
    BY <1>14, Zenon DEF ResolveIncident
  <2> HIDE DEF n
  <2>2. n \in 1..Len(watches) => IsWatch(w) /\ w.deployment = watches[n].deployment
    BY TouchedKeeps DEF WatchesInv
  <2> HIDE DEF w
  <2>3. /\ IsSeq(watches') /\ Len(watches') = Len(watches)
        /\ \A i \in 1..Len(watches) :
             IsWatch(watches'[i]) /\ watches'[i].deployment = watches[i].deployment
    BY <2>1, <2>2, ReplacingKeeps, Zenon
  <2> QED
    BY <1>1, <2>1, <2>3 DEF WatchesInv, WatchesKept
<1>15. ASSUME NEW t \in Requests, RefuseWatch(t)
       PROVE  WatchesInv' /\ WatchesKept
  BY <1>2, <1>4, <1>15 DEF RefuseWatch
<1> QED
  BY <1>3, <1>5, <1>6, <1>7, <1>8, <1>9, <1>10, <1>11, <1>12, <1>13, <1>14, <1>15 DEF Next

LEMMA WatchesInit == Init => WatchesInv
BY EmptyIsSeq DEF Init, WatchesInv, Idle

\* So was every watch.
THEOREM WatchesInvariant == Spec => []WatchesInv
BY WatchesInit, WatchesStep, PTL DEF Spec

\* Whoever records his window last, and however long it took him, the time
\* line of a watch stays in the order of time (HealthWatch.record).
THEOREM TimelineStaysInOrder == Spec => []TimelineInOrder
<1>1. WatchesInv => TimelineInOrder
  BY SeqFacts DEF WatchesInv, TimelineInOrder, IsWatch, IsTimeline
<1> QED
  BY <1>1, WatchesInvariant, PTL

\* The window of an incident stays on the time line (HealthWatch.record
\* replaces a report by one of the same window only).
THEOREM IncidentsStayTraced == Spec => []IncidentsOnTheTimeline
<1>1. WatchesInv => IncidentsOnTheTimeline
  BY SeqFacts DEF WatchesInv, IncidentsOnTheTimeline, IsWatch, IsTimeline, Traced
<1> QED
  BY <1>1, WatchesInvariant, PTL

---------------------------------------------------------------------------
(* Who is watched. *)

\* An entry of the dictionary, given the watches and what was asked for: its
\* id was asked for with the deployment its watch is over.
Entry(e, ws, ids) ==
  /\ e = [id |-> e.id, object |-> e.object]
  /\ e.object \in 1..Len(ws) /\ ws[e.object].deployment \in Ids
  /\ e.id \in ids[ws[e.object].deployment]

Entries(s, ws, ids) == IsSeq(s) /\ \A k \in 1..Len(s) : Entry(s[k], ws, ids)

HasId(s, w) == \E k \in 1..Len(s) : s[k].id = w

Deploying(id, w) == \E t \in Requests : work[t].op = "deploy" /\ work[t].id = id /\ work[t].watch = w

ShelfInv ==
  /\ Entries(shelf, watches, asked)
  /\ \A t \in Requests :
       /\ work[t].op = "observe" => Entry(work[t].watch, watches, asked)
       /\ work[t].op = "deploy" => work[t].id \in Ids /\ work[t].watch \in asked[work[t].id]
  /\ \A id \in Ids : \A w \in asked[id] \ {Blank} : HasId(shelf, w) \/ Deploying(id, w)
  /\ asked = [id \in Ids |-> asked[id]]

\* Saving a watch takes no id off the dictionary: the entry it replaces, if
\* it replaces one, has its id.
LEMMA ShelvedKeeps ==
  ASSUME NEW ws, NEW ids, Entries(shelf, ws, ids), NEW watchId, NEW object,
         Entry([id |-> watchId, object |-> object], ws, ids)
  PROVE  LET more == Shelved(watchId, object)
         IN Entries(more, ws, ids) /\ HasId(more, watchId) /\ \A w : HasId(shelf, w) => HasId(more, w)
<1> DEFINE more == Shelved(watchId, object)
           e == [id |-> watchId, object |-> object]
           n == Len(shelf)
<1>1. n \in Nat /\ DOMAIN shelf = 1..n /\ IsSeq(shelf)
  BY SeqFacts DEF Entries
<1>2. e.id = watchId /\ e.object = object
  OBVIOUS
<1>3. CASE \E k \in DOMAIN shelf : shelf[k].id = watchId
  <2> DEFINE w == [k \in 1..n |-> IF shelf[k].id = watchId THEN e ELSE shelf[k]]
  <2>1. \A k \in 1..n : shelf[k].id = watchId => [shelf[k] EXCEPT !.object = object] = e
    <3> SUFFICES ASSUME NEW k \in 1..n, shelf[k].id = watchId
                 PROVE  [shelf[k] EXCEPT !.object = object] = e
      OBVIOUS
    <3> DEFINE b == shelf[k]
    <3>1. b = [id |-> b.id, object |-> b.object] /\ b.id = watchId
      BY DEF Entries, Entry
    <3> HIDE DEF b
    <3>2. [b EXCEPT !.object = object] = e
      BY <3>1
    <3> QED
      BY <3>2 DEF b
  <2>2. more = [k \in 1..n |-> IF shelf[k].id = watchId THEN [shelf[k] EXCEPT !.object = object] ELSE shelf[k]]
    BY <1>1, <1>3, Zenon DEF Shelved
  <2>3. more = w
    BY <2>1, <2>2
  <2>4. \A k \in 1..n : w[k] = IF shelf[k].id = watchId THEN e ELSE shelf[k]
    OBVIOUS
  <2>5. w = [k \in 1..n |-> w[k]]
    OBVIOUS
  <2> HIDE DEF w, e
  <2>6. IsSeq(w) /\ Len(w) = n
    BY <1>1, <2>5, FunctionIsSeq
  <2>7. Entry(e, ws, ids)
    BY DEF e
  <2>8. Entries(w, ws, ids)
    BY <2>4, <2>6, <2>7 DEF Entries
  <2>9. \A k \in 1..n : w[k].id = shelf[k].id
    BY <1>2, <2>4 DEF e
  <2>10. HasId(w, watchId)
    BY <1>1, <1>3, <2>6, <2>9 DEF HasId
  <2> QED
    BY <2>3, <2>6, <2>8, <2>9, <2>10 DEF HasId
<1>4. CASE ~\E k \in DOMAIN shelf : shelf[k].id = watchId
  <2> DEFINE w == Append(shelf, e)
  <2>1. more = w
    BY <1>4, Zenon DEF Shelved
  <2> HIDE DEF e
  <2>2. IsSeq(w) /\ Len(w) = n + 1 /\ (\A k \in 1..n : w[k] = shelf[k]) /\ w[n + 1] = e
    BY <1>1, AppendFacts
  <2> HIDE DEF w
  <2>3. Entry(e, ws, ids)
    BY DEF e
  <2>4. Entries(w, ws, ids)
    BY <1>1, <2>2, <2>3 DEF Entries
  <2>5. HasId(w, watchId)
    BY <1>1, <1>2, <2>2 DEF HasId, e
  <2>6. \A x : HasId(shelf, x) => HasId(w, x)
    BY <1>1, <2>2 DEF HasId
  <2> QED
    BY <2>1, <2>4, <2>5, <2>6
<1> QED
  BY <1>3, <1>4

\* Watches that come and change, and ids that are asked for, leave the
\* entries there are.
LEMMA EntriesStay ==
  ASSUME WatchesKept, NEW ids, \A id \in Ids : asked[id] \subseteq ids[id], NEW e, Entry(e, watches, asked)
  PROVE  Entry(e, watches', ids)
BY DEF Entry, WatchesKept

LEMMA ShelfStep ==
  ASSUME WatchesInv, ShelfInv, [Next]_vars
  PROVE  ShelfInv'
<1>1. WatchesKept
  BY WatchesStep
<1>2. work = [t \in Requests |-> work[t]] /\ asked = [id \in Ids |-> asked[id]]
  BY DEF WatchesInv, ShelfInv
<1>3. Idle.op = "idle"
  BY DEF Idle
<1>4. ASSUME \A id \in Ids : asked[id] \subseteq asked'[id]
      PROVE  /\ Entries(shelf, watches', asked')
             /\ \A e : Entry(e, watches, asked) => Entry(e, watches', asked')
             /\ \A t \in Requests : work[t].op = "observe" => Entry(work[t].watch, watches', asked')
  BY <1>1, <1>4, EntriesStay DEF ShelfInv, Entries
\* No deploying begins, and the one that ends, if one does, is on the
\* dictionary now or was blank.
<1>5. ASSUME UNCHANGED asked,
             \/ UNCHANGED work
             \/ \E t \in Requests : \E job :
                  /\ work' = [work EXCEPT ![t] = job] /\ job.op # "deploy"
                  /\ work[t].op = "deploy" => work[t].watch = Blank \/ HasId(shelf', work[t].watch)
                  /\ job.op = "observe" => Entry(job.watch, watches, asked),
             Entries(shelf', watches', asked'),
             \A w : HasId(shelf, w) => HasId(shelf', w)
      PROVE  ShelfInv'
  <2>1. /\ \A t \in Requests :
             /\ work'[t].op = "observe" => Entry(work'[t].watch, watches', asked')
             /\ work'[t].op = "deploy" => work'[t] = work[t]
             /\ work[t].op = "deploy" =>
                  work'[t] = work[t] \/ work[t].watch = Blank \/ HasId(shelf', work[t].watch)
    <3>1. CASE UNCHANGED work
      BY <1>4, <1>5, <3>1
    <3>2. ASSUME NEW t \in Requests, NEW job, work' = [work EXCEPT ![t] = job], job.op # "deploy",
                 work[t].op = "deploy" => work[t].watch = Blank \/ HasId(shelf', work[t].watch),
                 job.op = "observe" => Entry(job.watch, watches, asked)
          PROVE  \A u \in Requests :
                   /\ work'[u].op = "observe" => Entry(work'[u].watch, watches', asked')
                   /\ work'[u].op = "deploy" => work'[u] = work[u]
                   /\ work[u].op = "deploy" =>
                        work'[u] = work[u] \/ work[u].watch = Blank \/ HasId(shelf', work[u].watch)
      <4>1. \A u \in Requests : work'[u] = IF u = t THEN job ELSE work[u]
        BY <1>2, <3>2
      <4>2. job.op = "observe" => Entry(job.watch, watches', asked')
        BY <1>4, <1>5, <3>2
      <4>3. \A u \in Requests : work[u].op = "observe" => Entry(work[u].watch, watches', asked')
        BY <1>4, <1>5
      <4> QED
        BY <3>2, <4>1, <4>2, <4>3
    <3> QED
      BY <1>5, <3>1, <3>2
  <2>2. \A t \in Requests :
          work'[t].op = "deploy" => work'[t].id \in Ids /\ work'[t].watch \in asked'[work'[t].id]
    BY <1>5, <2>1 DEF ShelfInv
  <2>3. \A id : \A w : w # Blank /\ Deploying(id, w) => Deploying(id, w)' \/ HasId(shelf', w)
    BY <2>1 DEF Deploying
  <2>4. \A id \in Ids : \A w \in asked'[id] \ {Blank} : HasId(shelf', w) \/ Deploying(id, w)'
    BY <1>5, <2>3 DEF ShelfInv
  <2> QED
    BY <1>2, <1>5, <2>1, <2>2, <2>4 DEF ShelfInv
<1>6. ASSUME UNCHANGED <<asked, shelf>>,
             \/ UNCHANGED work
             \/ \E t \in Requests : \E job :
                  /\ work' = [work EXCEPT ![t] = job] /\ job.op # "deploy"
                  /\ work[t].op = "deploy" => work[t].watch = Blank
                  /\ job.op = "observe" => Entry(job.watch, watches, asked)
      PROVE  ShelfInv'
  BY <1>4, <1>5, <1>6
<1>7. CASE UNCHANGED vars
  BY <1>6, <1>7 DEF vars
<1>8. ASSUME NEW t \in Requests, NEW id \in Ids, NEW watchId, NEW artifact, NEW strict,
             DeployModel(t, id, watchId, artifact, strict)
      PROVE  ShelfInv'
  <2> DEFINE job == [op |-> "deploy", id |-> id, watch |-> watchId, artifact |-> artifact]
  <2>1. /\ work' = [work EXCEPT ![t] = job] /\ work[t].op # "deploy"
        /\ asked' = [asked EXCEPT ![id] = @ \union {watchId}] /\ UNCHANGED shelf
    BY <1>3, <1>8 DEF DeployModel, Free
  <2>2. job.op = "deploy" /\ job.id = id /\ job.watch = watchId
    OBVIOUS
  <2> HIDE DEF job
  <2>3. \A u \in Requests : work'[u] = IF u = t THEN job ELSE work[u]
    BY <1>2, <2>1
  <2>4. /\ asked' = [i \in Ids |-> asked'[i]]
        /\ \A i \in Ids : asked'[i] = IF i = id THEN asked[i] \union {watchId} ELSE asked[i]
    BY <1>2, <2>1
  <2>5. /\ Entries(shelf', watches', asked')
        /\ \A u \in Requests : work[u].op = "observe" => Entry(work[u].watch, watches', asked')
    BY <1>4, <2>1, <2>4
  <2>6. \A u \in Requests :
          /\ work'[u].op = "observe" => Entry(work'[u].watch, watches', asked')
          /\ work'[u].op = "deploy" => work'[u].id \in Ids /\ work'[u].watch \in asked'[work'[u].id]
    BY <2>2, <2>3, <2>4, <2>5 DEF ShelfInv
  <2>7. \A i : \A w : Deploying(i, w) => Deploying(i, w)'
    BY <2>1, <2>3 DEF Deploying
  <2>8. Deploying(id, watchId)'
    BY <2>2, <2>3 DEF Deploying
  <2>9. \A i \in Ids : \A w \in asked'[i] \ {Blank} : HasId(shelf', w) \/ Deploying(i, w)'
    BY <2>1, <2>4, <2>7, <2>8 DEF ShelfInv
  <2> QED
    BY <2>4, <2>5, <2>6, <2>9 DEF ShelfInv
<1>9. ASSUME NEW t \in Requests, OpenWatch(t)
      PROVE  ShelfInv'
  <2> DEFINE w == OpensWatch(work[t].id, work[t].artifact)
             n == Len(watches) + 1
             e == [id |-> work[t].watch, object |-> n]
  <2>1. /\ watches' = Append(watches, w) /\ work' = [work EXCEPT ![t] = Idle] /\ UNCHANGED asked
        /\ shelf' = Shelved(work[t].watch, n) /\ work[t].op = "deploy"
    BY <1>9 DEF OpenWatch
  <2>2. w.deployment = work[t].id
    BY OpenedIsWatch
  <2> HIDE DEF w
  <2>3. Len(watches') = n /\ watches'[n] = w /\ n \in 1..n
    BY <2>1, AppendFacts, SeqFacts DEF WatchesInv
  <2>4. work[t].id \in Ids /\ work[t].watch \in asked'[work[t].id]
    BY <2>1 DEF ShelfInv
  <2>5. e.id = work[t].watch /\ e.object = n /\ e = [id |-> e.id, object |-> e.object]
    OBVIOUS
  <2> HIDE DEF n
  <2>6. Entry(e, watches', asked')
    BY <2>2, <2>3, <2>4, <2>5 DEF Entry
  <2>7. Entries(shelf, watches', asked')
    BY <1>4, <2>1
  <2>8. /\ Entries(shelf', watches', asked') /\ HasId(shelf', work[t].watch)
        /\ \A x : HasId(shelf, x) => HasId(shelf', x)
    BY <2>1, <2>6, <2>7, ShelvedKeeps
  <2> QED
    BY <1>3, <1>5, <2>1, <2>8
<1>10. ASSUME NEW t \in Requests, RefuseWatch(t)
       PROVE  ShelfInv'
  BY <1>3, <1>6, <1>10 DEF RefuseWatch
<1>11. ASSUME NEW d, NEW id, Changes(id, d)
       PROVE  ShelfInv'
  BY <1>6, <1>11 DEF Changes
<1>12. ASSUME NEW id, NEW artifact, NEW strict, NEW reason, NEW to,
              \/ ReleaseVersion(id, artifact, strict) \/ QuarantineDeployment(id, reason)
              \/ ResumeDeployment(id) \/ RollbackDeployment(id, to)
       PROVE  \E d : Changes(id, d)
  BY <1>12 DEF ReleaseVersion, QuarantineDeployment, ResumeDeployment, RollbackDeployment
<1>13. ASSUME NEW t \in Requests, NEW id, NEW batch, Bind(t, id, batch)
       PROVE  ShelfInv'
  <2> DEFINE job == IF deployed[id] = 0 THEN Idle ELSE [op |-> "ingest", id |-> id, batch |-> batch]
  <2>1. work' = [work EXCEPT ![t] = job] /\ work[t].op # "deploy" /\ UNCHANGED <<asked, shelf>>
    BY <1>3, <1>13 DEF Bind, Free
  <2>2. job.op \notin {"deploy", "observe"}
    BY DEF Idle
  <2> HIDE DEF job
  <2> QED
    BY <1>6, <2>1, <2>2
<1>14. ASSUME NEW t \in Requests, IngestInferenceLog(t)
       PROVE  ShelfInv'
  <2>1. work' = [work EXCEPT ![t] = Idle] /\ work[t].op # "deploy" /\ UNCHANGED <<asked, shelf>>
    BY <1>14, Zenon DEF IngestInferenceLog
  <2> QED
    BY <1>3, <1>6, <2>1
<1>15. ASSUME NEW t \in Requests, NEW id, NEW window, StartObserving(t, id, window)
       PROVE  ShelfInv'
  <2>1. PICK k \in WatchFor(id) :
          work' = [work EXCEPT ![t] =
            [op |-> "observe", id |-> id, deployment |-> deployed[id], watch |-> shelf[k],
             window |-> [window EXCEPT !.samples = Len(RecordsIn(logs[id], window))],
             records |-> RecordsIn(logs[id], window)]]
    BY <1>15, Zenon DEF StartObserving
  <2> DEFINE seen == [window EXCEPT !.samples = Len(RecordsIn(logs[id], window))]
             records == RecordsIn(logs[id], window)
             job == [op |-> "observe", id |-> id, deployment |-> deployed[id], watch |-> shelf[k],
                     window |-> seen, records |-> records]
  <2>2. work' = [work EXCEPT ![t] = job]
    BY <2>1, Zenon
  <2> HIDE DEF seen, records
  <2>3. job.op = "observe" /\ job.watch = shelf[k]
    OBVIOUS
  <2> HIDE DEF job
  <2>4. work[t].op # "deploy" /\ UNCHANGED <<asked, shelf>>
    BY <1>3, <1>15 DEF StartObserving, Free
  <2>5. k \in 1..Len(shelf)
    <3>1. IsSeq(shelf)
      BY DEF ShelfInv, Entries
    <3>2. DOMAIN shelf = 1..Len(shelf) /\ Len(shelf) \in Nat
      BY <3>1, SeqFacts
    <3> DEFINE places == {j \in DOMAIN shelf : watches[shelf[j].object].deployment = id}
    <3>3. WatchFor(id) = IF places = {} THEN {} ELSE {Min(places)}
      BY DEF WatchFor
    <3>4. places # {} /\ k = Min(places)
      BY <3>3
    <3>5. Min(places) \in places
      BY <3>2, <3>4, LeastIsIn
    <3> QED
      BY <3>2, <3>4, <3>5
  <2>6. Entry(job.watch, watches, asked)
    BY <2>3, <2>5 DEF ShelfInv, Entries
  <2> QED
    BY <1>6, <2>2, <2>3, <2>4, <2>6
<1>16. ASSUME NEW t \in Requests, NEW drift, NEW opens, ObserveHealth(t, drift, opens)
       PROVE  ShelfInv'
  <2> DEFINE e == work[t].watch
  <2>1. work' = [work EXCEPT ![t] = Idle] /\ work[t].op = "observe" /\ UNCHANGED asked
    BY <1>16 DEF ObserveHealth
  <2>2. shelf' = shelf \/ shelf' = Shelved(e.id, e.object)
    BY <1>16, Zenon DEF ObserveHealth
  <2>3. Entry(e, watches', asked') /\ Entries(shelf, watches', asked')
    BY <1>4, <2>1
  <2> HIDE DEF e
  <2>4. Entry([id |-> e.id, object |-> e.object], watches', asked')
    BY <2>3 DEF Entry
  <2>5. Entries(shelf', watches', asked') /\ \A w : HasId(shelf, w) => HasId(shelf', w)
    BY <2>2, <2>3, <2>4, ShelvedKeeps
  <2> QED
    BY <1>3, <1>5, <2>1, <2>5
<1>17. ASSUME NEW id, NEW window, RebaselineWatch(id, window)
       PROVE  ShelfInv'
  BY <1>6, <1>17, Zenon DEF RebaselineWatch
<1>18. ASSUME NEW k, NEW label, ResolveIncident(k, label)
       PROVE  ShelfInv'
  BY <1>6, <1>18, Zenon DEF ResolveIncident
<1> QED
  BY <1>7, <1>8, <1>9, <1>10, <1>11, <1>12, <1>13, <1>14, <1>15, <1>16, <1>17, <1>18 DEF Next

LEMMA ShelfInit == Init => ShelfInv
BY EmptyIsSeq DEF Init, ShelfInv, Entries, Idle

\* A watch id that was asked for, is not blank and was never asked for with
\* another deployment leads to a watch of its deployment from the moment the
\* request ends, whatever is deployed and observed afterwards (DeployModel
\* .execute saves the deployment first and the watch, if its id is any good,
\* second).  Of a deployment that was only ever given a blank or a shared id
\* the theorem says nothing, and the code promises nothing.
THEOREM WatchedOnceAsked == Spec => []WatchedUnderItsOwnId
<1>1. Init => ShelfInv
  BY ShelfInit
<1>2. WatchesInv /\ ShelfInv /\ [Next]_vars => ShelfInv'
  BY ShelfStep
<1>3. ShelfInv => WatchedUnderItsOwnId
  <2> SUFFICES ASSUME ShelfInv, NEW id \in Ids, NEW w \in asked[id] \ {Blank},
                      \A other \in Ids \ {id} : w \notin asked[other]
               PROVE  WatchFor(id) # {} \/ \E t \in Requests : work[t].op = "deploy" /\ work[t].id = id
    BY DEF WatchedUnderItsOwnId
  <2>1. CASE HasId(shelf, w)
    <3>1. IsSeq(shelf)
      BY DEF ShelfInv, Entries
    <3>2. PICK k \in 1..Len(shelf) : shelf[k].id = w
      BY <2>1 DEF HasId
    <3>3. watches[shelf[k].object].deployment = id
      BY <3>2 DEF ShelfInv, Entries, Entry
    <3> QED
      BY <3>1, <3>2, <3>3, SeqFacts DEF WatchFor
  <2> QED
    BY <2>1 DEF ShelfInv, Deploying
<1> QED
  BY <1>1, <1>2, <1>3, WatchesInvariant, PTL DEF Spec

---------------------------------------------------------------------------
(* Optimization runs: the certificate beside the table. *)

\* A run as its methods leave it: a record of its fields, with a list of
\* candidates, and a certificate that is what it must be.
IsRun(run) ==
  /\ run = [id |-> run.id, of |-> run.of, status |-> run.status, baseline |-> run.baseline,
            candidates |-> run.candidates, rejections |-> run.rejections,
            roofline |-> run.roofline, certificate |-> run.certificate]
  /\ IsSeq(run.candidates)
  /\ Certified(run)

\* The table has a label once (TradeoffTable.add).
DistinctLabels(candidates) ==
  \A i, j \in DOMAIN candidates : candidates[i].label = candidates[j].label => i = j

\* A certificate selects a candidate exactly when its verdict is PASSED.
LEMMA EvaluateVerdict ==
  ASSUME NEW policy, NEW table
  PROVE  Evaluate(policy, table).verdict = "PASSED" <=> Evaluate(policy, table).selected # {}
<1> DEFINE accepted == SelectSeq(table, LAMBDA c : Blocking(CheckCandidate(policy, c, Head(table))) = {})
           verdicts == [i \in DOMAIN table |-> CheckCandidate(policy, table[i], Head(table))]
<1>1. Evaluate(policy, table) =
        [selected |-> IF accepted = <<>> THEN {} ELSE {Pick(policy, accepted)},
         verdict  |-> IF accepted = <<>> THEN "FAILED" ELSE "PASSED",
         verdicts |-> verdicts]
  BY DEF Evaluate
<1> HIDE DEF accepted, verdicts
<1> QED
  BY <1>1

\* A candidate replaces the one of its label, or comes last.
LEMMA WithCandidateKeeps ==
  ASSUME NEW candidates, IsSeq(candidates), DistinctLabels(candidates), NEW c
  PROVE  IsSeq(WithCandidate(candidates, c)) /\ DistinctLabels(WithCandidate(candidates, c))
<1>1. Len(candidates) \in Nat /\ DOMAIN candidates = 1..Len(candidates)
  BY SeqFacts
<1>2. CASE \E i \in DOMAIN candidates : candidates[i].label = c.label
  <2> DEFINE s == [i \in DOMAIN candidates |-> IF candidates[i].label = c.label THEN c ELSE candidates[i]]
  <2>1. s = [k \in 1..Len(candidates) |-> s[k]]
    BY <1>1
  <2>2. \A i \in DOMAIN candidates : s[i].label = candidates[i].label
    OBVIOUS
  <2>3. DOMAIN s = DOMAIN candidates
    OBVIOUS
  <2>4. WithCandidate(candidates, c) = s
    BY <1>2 DEF WithCandidate
  <2> HIDE DEF s
  <2>5. IsSeq(s)
    BY <1>1, <2>1, FunctionIsSeq
  <2>6. DistinctLabels(s)
    BY <2>2, <2>3 DEF DistinctLabels
  <2> QED
    BY <2>4, <2>5, <2>6
<1>3. CASE ~ \E i \in DOMAIN candidates : candidates[i].label = c.label
  <2> DEFINE s == Append(candidates, c)
  <2>1. /\ IsSeq(s) /\ DOMAIN s = 1..(Len(candidates) + 1)
        /\ \A i \in 1..Len(candidates) : s[i] = candidates[i]
        /\ s[Len(candidates) + 1] = c
    BY AppendFacts
  <2>2. WithCandidate(candidates, c) = s
    BY <1>3 DEF WithCandidate
  <2> HIDE DEF s
  <2>3. \A i \in 1..Len(candidates) : candidates[i].label # c.label
    BY <1>1, <1>3
  <2>4. DistinctLabels(s)
    BY <1>1, <2>1, <2>3 DEF DistinctLabels
  <2> QED
    BY <2>1, <2>2, <2>4
<1> QED
  BY <1>2, <1>3

\* start_optimization_run: nothing is judged, nothing is in the table.
LEMMA StartedIsRun == ASSUME NEW id, NEW baseline PROVE IsRun(Started(id, baseline))
  BY EmptyIsSeq DEF IsRun, Started, Certified, Judged

\* A method that leaves an unjudged run unjudged keeps it one, if the table
\* keeps its labels apart.
LEMMA UnjudgedIsRun ==
  ASSUME NEW run, ~Judged(run), run.certificate = {},
         run = [id |-> run.id, of |-> run.of, status |-> run.status, baseline |-> run.baseline,
                candidates |-> run.candidates, rejections |-> run.rejections,
                roofline |-> run.roofline, certificate |-> run.certificate],
         IsSeq(run.candidates), DistinctLabels(run.candidates)
  PROVE  IsRun(run)
  BY DEF IsRun, Certified, DistinctLabels

\* Bringing a measurement, a failed conversion or a roofline to a run that is
\* not judged.
LEMMA MeasuringKeeps ==
  ASSUME NEW run, IsRun(run), ~Judged(run), NEW c, NEW label
  PROVE  /\ IsRun(WithBaseline(run, c))
         /\ IsRun(Added(run, c))
         /\ IsRun(Rejected(run, label))
         /\ IsRun([run EXCEPT !.roofline = TRUE])
<1>1. /\ run = [id |-> run.id, of |-> run.of, status |-> run.status, baseline |-> run.baseline,
                candidates |-> run.candidates, rejections |-> run.rejections,
                roofline |-> run.roofline, certificate |-> run.certificate]
      /\ IsSeq(run.candidates) /\ DistinctLabels(run.candidates)
      /\ run.certificate = {}
      /\ run.status \notin {"SELECTED", "BLOCKED"}
  BY DEF IsRun, Certified, DistinctLabels, Judged
<1>2. IsRun(WithBaseline(run, c))
  <2> DEFINE status == IF run.status = "OPEN" THEN "BENCHMARKED" ELSE run.status
             after == [id |-> run.id, of |-> run.of, status |-> status, baseline |-> {c},
                       candidates |-> run.candidates, rejections |-> run.rejections,
                       roofline |-> run.roofline, certificate |-> {}]
  <2>1. status \notin {"SELECTED", "BLOCKED"}
    BY <1>1
  <2>2. WithBaseline(run, c) = [run EXCEPT !.baseline = {c}, !.status = status]
    BY <1>1 DEF WithBaseline
  <2> HIDE DEF status
  <2>3. WithBaseline(run, c) = after
    BY <1>1, <2>2
  <2>4. IsRun(after)
    BY <1>1, <2>1, UnjudgedIsRun DEF Judged
  <2> QED
    BY <2>3, <2>4
<1>3. IsRun(Added(run, c))
  <2> DEFINE table == WithCandidate(run.candidates, c)
             after == [id |-> run.id, of |-> run.of, status |-> "EXPLORING", baseline |-> run.baseline,
                       candidates |-> table, rejections |-> run.rejections,
                       roofline |-> run.roofline, certificate |-> {}]
  <2>1. IsSeq(table) /\ DistinctLabels(table)
    BY <1>1, WithCandidateKeeps
  <2>2. Added(run, c) = [run EXCEPT !.candidates = table, !.status = "EXPLORING"]
    BY <1>1 DEF Added
  <2> HIDE DEF table
  <2>3. Added(run, c) = after
    BY <1>1, <2>2
  <2>4. IsRun(after)
    BY <2>1, UnjudgedIsRun DEF Judged
  <2> QED
    BY <2>3, <2>4
<1>4. IsRun(Rejected(run, label))
  <2> DEFINE after == [id |-> run.id, of |-> run.of, status |-> run.status, baseline |-> run.baseline,
                       candidates |-> run.candidates, rejections |-> run.rejections \union {label},
                       roofline |-> run.roofline, certificate |-> {}]
  <2>1. Rejected(run, label) = after
    BY <1>1 DEF Rejected
  <2>2. IsRun(after)
    BY <1>1, UnjudgedIsRun DEF Judged
  <2> QED
    BY <2>1, <2>2
<1>5. IsRun([run EXCEPT !.roofline = TRUE])
  <2> DEFINE after == [id |-> run.id, of |-> run.of, status |-> run.status, baseline |-> run.baseline,
                       candidates |-> run.candidates, rejections |-> run.rejections,
                       roofline |-> TRUE, certificate |-> {}]
  <2>1. ASSUME NEW b
        PROVE  [run EXCEPT !.roofline = b] =
                 [id |-> run.id, of |-> run.of, status |-> run.status, baseline |-> run.baseline,
                  candidates |-> run.candidates, rejections |-> run.rejections,
                  roofline |-> b, certificate |-> {}]
    BY <1>1
  <2>2. IsRun(after)
    BY <1>1, UnjudgedIsRun DEF Judged
  <2> QED
    BY <2>1, <2>2
<1> QED
  BY <1>2, <1>3, <1>4, <1>5

\* select judges the table it finds, whether the run was judged before or not.
LEMMA SelectedKeeps ==
  ASSUME NEW run, IsRun(run), NEW policy \in SelectionPolicies
  PROVE  IsRun(Selected(run, policy))
<1> DEFINE certificate == Evaluate(policy, Table(run))
           status == IF certificate.selected = {} THEN "BLOCKED" ELSE "SELECTED"
           after == [id |-> run.id, of |-> run.of, status |-> status, baseline |-> run.baseline,
                     candidates |-> run.candidates, rejections |-> run.rejections,
                     roofline |-> run.roofline, certificate |-> {certificate}]
<1>1. /\ run = [id |-> run.id, of |-> run.of, status |-> run.status, baseline |-> run.baseline,
                candidates |-> run.candidates, rejections |-> run.rejections,
                roofline |-> run.roofline, certificate |-> run.certificate]
      /\ IsSeq(run.candidates) /\ DistinctLabels(run.candidates)
  BY DEF IsRun, Certified, DistinctLabels
<1>2. certificate.verdict = "PASSED" <=> certificate.selected # {}
  BY EvaluateVerdict
<1>3. Selected(run, policy) = [run EXCEPT !.certificate = {certificate}, !.status = status]
  BY DEF Selected
<1>4. certificate = Evaluate(policy, Table(run))
  OBVIOUS
<1>5. /\ status \in {"SELECTED", "BLOCKED"}
      /\ status = "SELECTED" <=> certificate.selected # {}
  OBVIOUS
<1> HIDE DEF certificate, status
<1>6. Selected(run, policy) = after
  BY <1>1, <1>3
<1>7. Table(after) = Table(run)
  BY DEF Table
<1>8. Certified(after)
  <2>1. Judged(after)
    BY <1>5 DEF Judged
  <2>2. \A c \in after.certificate : \E p \in SelectionPolicies : c = Evaluate(p, Table(after))
    BY <1>4, <1>7
  <2>3. \A c \in after.certificate : after.status = "SELECTED" <=> c.verdict = "PASSED"
    BY <1>2, <1>5
  <2>4. after.certificate # {} /\ after.candidates = run.candidates
    OBVIOUS
  <2> HIDE DEF after
  <2> QED
    BY <1>1, <2>1, <2>2, <2>3, <2>4 DEF Certified, DistinctLabels
<1> QED
  BY <1>1, <1>6, <1>8 DEF IsRun

\* reopen takes the certificate away with the judgement.
LEMMA ReopenedKeeps == ASSUME NEW run, IsRun(run) PROVE IsRun(Reopened(run))
<1> DEFINE after == [id |-> run.id, of |-> run.of, status |-> "EXPLORING", baseline |-> run.baseline,
                     candidates |-> run.candidates, rejections |-> run.rejections,
                     roofline |-> run.roofline, certificate |-> {}]
<1>1. /\ run = [id |-> run.id, of |-> run.of, status |-> run.status, baseline |-> run.baseline,
                candidates |-> run.candidates, rejections |-> run.rejections,
                roofline |-> run.roofline, certificate |-> run.certificate]
      /\ IsSeq(run.candidates) /\ DistinctLabels(run.candidates)
  BY DEF IsRun, Certified, DistinctLabels
<1>2. Reopened(run) = [run EXCEPT !.status = "EXPLORING", !.certificate = {}]
  BY DEF Reopened
<1>3. Reopened(run) = after
  BY <1>1, <1>2
<1>4. IsRun(after)
  BY <1>1, UnjudgedIsRun DEF Judged
<1> QED
  BY <1>3, <1>4

\* The objects made so far are runs.
RunsInv == IsSeq(runs) /\ \A n \in DOMAIN runs : IsRun(runs[n])

\* No object is made yet.
LEMMA RunsInit == OptimizationInit => RunsInv
  BY EmptyIsSeq DEF OptimizationInit, RunsInv

\* Saving a run in place of what it was keeps the others.
LEMMA SavingKeeps ==
  ASSUME RunsInv, NEW n, NEW run, Save(n, run), n \in DOMAIN runs => IsRun(run)
  PROVE  RunsInv'
<1>1. runs' = [runs EXCEPT ![n] = run] /\ Len(runs) \in Nat /\ DOMAIN runs = 1..Len(runs)
  BY SeqFacts DEF Save, RunsInv
<1>2. /\ IsSeq(runs') /\ DOMAIN runs' = 1..Len(runs)
      /\ \A i \in 1..Len(runs) : runs'[i] = IF i = n THEN run ELSE runs[i]
  BY <1>1, ExceptFacts DEF RunsInv
<1>3. \A i \in 1..Len(runs) : IsRun(runs'[i])
  BY <1>1, <1>2 DEF RunsInv
<1> QED
  BY <1>2, <1>3 DEF RunsInv

\* Every use case leaves runs, one step per action that saves one.
LEMMA RunsStep == ASSUME RunsInv, [OptimizationNext]_optimizationVars PROVE RunsInv'
<1>1. \A n \in DOMAIN runs : IsRun(runs[n])
  BY DEF RunsInv
<1>2. ASSUME UNCHANGED runs PROVE RunsInv'
  BY <1>2 DEF RunsInv
<1>3. CASE StartOptimizationRun
  <2>1. PICK id \in RunIds, b \in Baselines : runs' = Append(runs, Started(id, b))
    BY <1>3 DEF StartOptimizationRun
  <2>2. /\ Len(runs) \in Nat /\ DOMAIN runs = 1..Len(runs)
        /\ IsSeq(runs') /\ DOMAIN runs' = 1..(Len(runs) + 1)
        /\ \A i \in 1..Len(runs) : runs'[i] = runs[i]
        /\ runs'[Len(runs) + 1] = Started(id, b)
    BY <2>1, SeqFacts, AppendFacts DEF RunsInv
  <2>3. \A i \in 1..(Len(runs) + 1) : IsRun(runs'[i])
    BY <1>1, <2>2, StartedIsRun
  <2> QED
    BY <2>2, <2>3 DEF RunsInv
<1>4. ASSUME NEW t \in Threads, Benchmarked(t) PROVE RunsInv'
  <2>1. PICK measure \in Measures :
          /\ ~Judged(runs[calls[t].object])
          /\ Save(calls[t].object, WithBaseline(runs[calls[t].object], Candidate(t, measure)))
    BY <1>4 DEF Benchmarked
  <2> QED
    BY <1>1, <2>1, MeasuringKeeps, SavingKeeps
<1>5. ASSUME NEW t \in Threads, ConversionFails(t) PROVE RunsInv'
  <2>1. PICK n \in DOMAIN runs, label \in Targets :
          ~Judged(runs[n]) /\ Save(n, Rejected(runs[n], label))
    BY <1>5 DEF ConversionFails
  <2> QED
    BY <1>1, <2>1, MeasuringKeeps, SavingKeeps
<1>6. ASSUME NEW t \in Threads, Converted(t) PROVE RunsInv'
  <2>1. PICK measure \in Measures :
          /\ ~Judged(runs[calls[t].object])
          /\ Save(calls[t].object, Added(runs[calls[t].object], Candidate(t, measure)))
    BY <1>6 DEF Converted, CanAdd
  <2> QED
    BY <1>1, <2>1, MeasuringKeeps, SavingKeeps
<1>7. ASSUME NEW t \in Threads, ProfileRoofline(t) PROVE RunsInv'
  <2>1. PICK n \in DOMAIN runs :
          ~Judged(runs[n]) /\ Save(n, [runs[n] EXCEPT !.roofline = TRUE])
    BY <1>7 DEF ProfileRoofline
  <2> QED
    BY <1>1, <2>1, MeasuringKeeps, SavingKeeps
<1>8. ASSUME NEW t \in Threads, SelectModel(t) PROVE RunsInv'
  <2>1. PICK n \in DOMAIN runs, policy \in SelectionPolicies : Save(n, Selected(runs[n], policy))
    BY <1>8 DEF SelectModel
  <2> QED
    BY <1>1, <2>1, SelectedKeeps, SavingKeeps
<1>9. ASSUME NEW t \in Threads, ReopenOptimizationRun(t) PROVE RunsInv'
  <2>1. PICK n \in DOMAIN runs : Save(n, Reopened(runs[n]))
    BY <1>9 DEF ReopenOptimizationRun
  <2> QED
    BY <1>1, <2>1, ReopenedKeeps, SavingKeeps
<1>10. ASSUME NEW t \in Threads,
              \/ BenchmarkBaseline(t) \/ ConvertModel(t) \/ Compared(t) \/ Fails(t)
       PROVE  RunsInv'
  BY <1>2, <1>10 DEF BenchmarkBaseline, ConvertModel, Compared, Fails
<1>11. ASSUME NEW v \in TrainedVersions, Retrained(v) PROVE RunsInv'
  BY <1>2, <1>11 DEF Retrained
<1>12. ASSUME UNCHANGED optimizationVars PROVE RunsInv'
  BY <1>2, <1>12 DEF optimizationVars
<1> QED
  BY <1>3, <1>4, <1>5, <1>6, <1>7, <1>8, <1>9, <1>10, <1>11, <1>12 DEF OptimizationNext

\* The inductive invariant of the optimization runs.
THEOREM RunsInvariant == OptimizationSpec => []RunsInv
  BY RunsInit, RunsStep, PTL DEF OptimizationSpec

\* However conversions, measurements, selections and reopenings of several
\* requests interleave, a certificate is what a policy makes of the very table
\* its run holds, with every label in it once (add_candidate, select, reopen).
THEOREM CertificatesHold == OptimizationSpec => []CertificateHolds
<1>1. RunsInv => CertificateHolds
  BY DEF RunsInv, IsRun, CertificateHolds
<1> QED
  BY <1>1, RunsInvariant, PTL
=============================================================================
