---------------------------- MODULE TrainingProofs ----------------------------
(***************************************************************************)
(* Theorems about Training, for any number of threads, runs and requests.  *)
(*                                                                         *)
(* What the properties lack to be inductive: runs have their nine parts;   *)
(* the name a run gave its weights is in the registry and leads to a run   *)
(* with that name; threads that train hold different runs, all RUNNING;    *)
(* and a thread that evaluates has weights of a namesake in hand.          *)
(***************************************************************************)
EXTENDS Training, TLAPS

---------------------------------------------------------------------------
(* Sequences of elements of any kind: the library's theorems ask for the   *)
(* set the elements come from, and a list of objects has none.             *)

IsSeq(s) == \E S : s \in Seq(S)

\* The places of a sequence are the numbers up to its length.
LEMMA SeqFacts ==
  ASSUME NEW s, IsSeq(s)
  PROVE  Len(s) \in Nat /\ DOMAIN s = 1..Len(s)
BY DEF IsSeq

\* The list with nothing in it is a sequence.
LEMMA EmptyIsSeq == IsSeq(<<>>) /\ DOMAIN <<>> = {} /\ Len(<<>>) = 0
<1>1. <<>> \in Seq({})
  OBVIOUS
<1> QED
  BY <1>1 DEF IsSeq

\* Adding at the end leaves what stands before.
LEMMA AppendFacts ==
  ASSUME NEW s, IsSeq(s), NEW e
  PROVE  /\ IsSeq(Append(s, e)) /\ Len(Append(s, e)) = Len(s) + 1 /\ Append(s, e) # <<>>
         /\ DOMAIN Append(s, e) = 1..(Len(s) + 1)
         /\ \A i \in 1..Len(s) : Append(s, e)[i] = s[i]
         /\ Append(s, e)[Len(s) + 1] = e
<1>1. PICK S : s \in Seq(S)
  BY DEF IsSeq
<1>2. s \in Seq(S \union {e})
  BY <1>1
<1>3. Append(s, e) \in Seq(S \union {e}) /\ Len(Append(s, e)) = Len(s) + 1
  BY <1>2
<1>4. /\ DOMAIN Append(s, e) = 1..(Len(s) + 1)
      /\ \A i \in 1..Len(s) : Append(s, e)[i] = s[i]
      /\ Append(s, e)[Len(s) + 1] = e
  BY <1>2, <1>3
<1>5. Append(s, e) # <<>>
  BY <1>3, EmptyIsSeq, SeqFacts
<1> QED
  BY <1>3, <1>4, <1>5 DEF IsSeq

\* Replacing at one place leaves the other places.
LEMMA ExceptFacts ==
  ASSUME NEW s, IsSeq(s), NEW n, NEW e
  PROVE  /\ IsSeq([s EXCEPT ![n] = e]) /\ Len([s EXCEPT ![n] = e]) = Len(s)
         /\ DOMAIN [s EXCEPT ![n] = e] = 1..Len(s)
         /\ \A i \in 1..Len(s) : [s EXCEPT ![n] = e][i] = IF i = n THEN e ELSE s[i]
<1>1. PICK S : s \in Seq(S)
  BY DEF IsSeq
<1>2. s \in [1..Len(s) -> S \union {e}] /\ Len(s) \in Nat
  BY <1>1
<1> DEFINE t == [s EXCEPT ![n] = e]
<1>3. /\ t \in [1..Len(s) -> S \union {e}] /\ Len(s) \in Nat
      /\ \A i \in 1..Len(s) : t[i] = IF i = n THEN e ELSE s[i]
  BY <1>2
<1> HIDE DEF t
<1>4. t \in Seq(S \union {e}) /\ Len(t) = Len(s)
  BY <1>3
<1>5. IsSeq(t)
  BY <1>4 DEF IsSeq
<1>6. /\ IsSeq(t) /\ Len(t) = Len(s) /\ DOMAIN t = 1..Len(s)
      /\ \A i \in 1..Len(s) : t[i] = IF i = n THEN e ELSE s[i]
  BY <1>3, <1>4, <1>5
<1> QED
  BY <1>6, Zenon DEF t

---------------------------------------------------------------------------
(* One run: what its methods keep. *)

IsRun(r) ==
  r = [id |-> r.id, request |-> r.request, gates |-> r.gates, status |-> r.status, curve |-> r.curve,
       usage |-> r.usage, evaluations |-> r.evaluations, version |-> r.version, certificate |-> r.certificate]

Certified(r) ==
  /\ Judged(r) <=> r.certificate # {}
  /\ \A c \in r.certificate :
       /\ \E p \in Policies : c = Certificate(r, p, c.split)
       /\ r.status = "ACCEPTED" <=> c.verdict # "FAILED"

Kept(r) ==
  IsRun(r) /\ Certified(r) /\ r.version \subseteq {VersionOf(r.request)} /\ r.request \in Requests

\* What a method may not touch once the run is trained.
SameTraining(r, q) == q.curve = r.curve /\ q.usage = r.usage /\ q.version = r.version

LEMMA PreparedKeeps ==
  ASSUME NEW request \in Requests, NEW gates
  PROVE  LET r == Prepared(request, gates)
         IN Kept(r) /\ r.status = "PREPARED" /\ r.evaluations = <<>> /\ r.version = {}
BY DEF Prepared, Kept, IsRun, Certified, Judged

\* start and fail.
LEMMA StatusKeeps ==
  ASSUME NEW r, Kept(r), ~Judged(r), NEW status \in {"RUNNING", "FAILED"}
  PROVE  LET q == [r EXCEPT !.status = status]
         IN /\ Kept(q) /\ q.status = status /\ q.request = r.request
            /\ q.evaluations = r.evaluations /\ q.version = r.version
<1> DEFINE q == [r EXCEPT !.status = status]
<1>1. q = [id |-> r.id, request |-> r.request, gates |-> r.gates, status |-> status, curve |-> r.curve,
           usage |-> r.usage, evaluations |-> r.evaluations, version |-> r.version, certificate |-> r.certificate]
  BY DEF Kept, IsRun
<1> HIDE DEF q
<1>2. IsRun(q)
  BY <1>1 DEF IsRun
<1>3. Certified(q)
  BY <1>1 DEF Kept, Certified, Judged
<1>4. Kept(q) /\ q.status = status /\ q.request = r.request /\ q.evaluations = r.evaluations /\ q.version = r.version
  BY <1>1, <1>2, <1>3 DEF Kept
<1> QED
  BY <1>4 DEF q

\* complete.
LEMMA CompletedKeeps ==
  ASSUME NEW r, Kept(r), ~Judged(r), NEW outcome
  PROVE  LET q == Completed(r, outcome, VersionOf(r.request))
         IN /\ Kept(q) /\ q.status = "COMPLETED" /\ q.request = r.request /\ q.evaluations = r.evaluations
            /\ q.version = {VersionOf(r.request)}
<1> DEFINE v == {VersionOf(r.request)}
           curve == outcome.curve
           usage == {outcome.usage}
           status == "COMPLETED"
           q == [r EXCEPT !.status = status, !.curve = curve, !.usage = usage, !.version = v]
<1>1. Completed(r, outcome, VersionOf(r.request)) = q
  BY DEF Completed
<1> HIDE DEF v, curve, usage
<1>2. q = [id |-> r.id, request |-> r.request, gates |-> r.gates, status |-> "COMPLETED", curve |-> curve,
           usage |-> usage, evaluations |-> r.evaluations, version |-> v, certificate |-> r.certificate]
  <2>1. r = [id |-> r.id, request |-> r.request, gates |-> r.gates, status |-> r.status, curve |-> r.curve,
           usage |-> r.usage, evaluations |-> r.evaluations, version |-> r.version, certificate |-> r.certificate]
    BY DEF Kept, IsRun
  <2>2. q = [r EXCEPT !.status = status, !.curve = curve, !.usage = usage, !.version = v]
    OBVIOUS
  <2> HIDE DEF q, status
  <2> QED
    BY <2>1, <2>2 DEF status
<1> HIDE DEF q
<1>3. IsRun(q)
  BY <1>2 DEF IsRun
<1>4. Certified(q)
  BY <1>2 DEF Kept, Certified, Judged
<1>5. Kept(q)
  BY <1>2, <1>3, <1>4 DEF Kept, v
<1> QED
  BY <1>1, <1>2, <1>5 DEF v

\* record_evaluation.
LEMMA EvaluatedKeeps ==
  ASSUME NEW r, Kept(r), ~Judged(r), NEW split, NEW result
  PROVE  LET q == Evaluated(r, split, result)
         IN /\ Kept(q) /\ q.status = r.status /\ q.request = r.request /\ SameTraining(r, q)
            /\ \A s \in DOMAIN q.evaluations :
                 q.evaluations[s] = result \/ (s \in DOMAIN r.evaluations /\ q.evaluations[s] = r.evaluations[s])
<1> DEFINE e == Put(r.evaluations, split, result)
           q == [r EXCEPT !.evaluations = e]
<1>1. Evaluated(r, split, result) = q
  BY DEF Evaluated
<1>2. \A s \in DOMAIN e : e[s] = result \/ (s \in DOMAIN r.evaluations /\ e[s] = r.evaluations[s])
  BY DEF Put
<1> HIDE DEF e
<1>3. q = [id |-> r.id, request |-> r.request, gates |-> r.gates, status |-> r.status, curve |-> r.curve,
           usage |-> r.usage, evaluations |-> e, version |-> r.version, certificate |-> r.certificate]
  BY DEF Kept, IsRun
<1> HIDE DEF q
<1>4. IsRun(q)
  BY <1>3 DEF IsRun
<1>5. Certified(q)
  BY <1>3 DEF Kept, Certified, Judged
<1> QED
  BY <1>1, <1>2, <1>3, <1>4, <1>5 DEF Kept, SameTraining

\* accept: the certificate is about the run it goes into.
LEMMA AcceptedKeeps ==
  ASSUME NEW r, Kept(r), NEW policy \in Policies, NEW split
  PROVE  LET q == Accepted(r, policy, split)
         IN /\ Kept(q) /\ Judged(q) /\ q.request = r.request /\ q.evaluations = r.evaluations /\ SameTraining(r, q)
<1> DEFINE c == Certificate(r, policy, split)
           certificate == {c}
           status == IF c.verdict = "FAILED" THEN "REJECTED" ELSE "ACCEPTED"
           q == [r EXCEPT !.certificate = certificate, !.status = status]
<1>1. Accepted(r, policy, split) = q
  BY DEF Accepted
<1>2. c.split = split
  BY DEF Certificate
<1> HIDE DEF c
<1>3. q = [id |-> r.id, request |-> r.request, gates |-> r.gates, status |-> status, curve |-> r.curve,
           usage |-> r.usage, evaluations |-> r.evaluations, version |-> r.version, certificate |-> certificate]
  <2>1. r = [id |-> r.id, request |-> r.request, gates |-> r.gates, status |-> r.status, curve |-> r.curve,
           usage |-> r.usage, evaluations |-> r.evaluations, version |-> r.version, certificate |-> r.certificate]
    BY DEF Kept, IsRun
  <2>2. q = [r EXCEPT !.certificate = certificate, !.status = status]
    OBVIOUS
  <2> HIDE DEF q, status, certificate
  <2> QED
    BY <2>1, <2>2
<1> HIDE DEF q
<1>4. IsRun(q)
  BY <1>3 DEF IsRun
<1>5. Judged(q) /\ (q.status = "ACCEPTED" <=> c.verdict # "FAILED") /\ q.certificate = {c}
  BY <1>3 DEF Judged
<1>6. Certificate(q, policy, split) = c
  BY <1>3 DEF Certificate, c
<1>7. Certified(q)
  BY <1>2, <1>5, <1>6 DEF Certified
<1> QED
  BY <1>1, <1>3, <1>4, <1>5, <1>7 DEF Kept, SameTraining

\* reopen.
LEMMA ReopenedKeeps ==
  ASSUME NEW r, Kept(r)
  PROVE  LET q == Reopened(r)
         IN /\ Kept(q) /\ q.status = "COMPLETED" /\ q.request = r.request
            /\ q.evaluations = r.evaluations /\ SameTraining(r, q)
<1> DEFINE certificate == {}
           status == "COMPLETED"
           q == [r EXCEPT !.status = status, !.certificate = certificate]
<1>1. Reopened(r) = q
  BY DEF Reopened
<1>2. q = [id |-> r.id, request |-> r.request, gates |-> r.gates, status |-> "COMPLETED", curve |-> r.curve,
           usage |-> r.usage, evaluations |-> r.evaluations, version |-> r.version, certificate |-> {}]
  <2>1. r = [id |-> r.id, request |-> r.request, gates |-> r.gates, status |-> r.status, curve |-> r.curve,
           usage |-> r.usage, evaluations |-> r.evaluations, version |-> r.version, certificate |-> r.certificate]
    BY DEF Kept, IsRun
  <2>2. q = [r EXCEPT !.status = status, !.certificate = certificate]
    OBVIOUS
  <2> HIDE DEF q, status, certificate
  <2> QED
    BY <2>1, <2>2 DEF status, certificate
<1> HIDE DEF q
<1>3. IsRun(q) /\ Certified(q)
  BY <1>2 DEF IsRun, Certified, Judged
<1> QED
  BY <1>1, <1>2, <1>3 DEF Kept, SameTraining

---------------------------------------------------------------------------
(* All runs and all threads. *)

Trainer(t) == work[t].op \in {"train", "misled"}

SameName(p, q) == VersionOf(p) = VersionOf(q)

RunsInv == IsSeq(runs) /\ \A n \in 1..Len(runs) : Kept(runs[n])

\* Nobody prepares anything but new runs, and nobody trains a run that is not RUNNING or that another trains.
TrainersInv ==
  /\ work = [t \in Threads |-> work[t]]
  /\ \A t \in Threads : work[t].op = "prepare" =>
       \E request \in Requests, gates \in BOOLEAN : work[t].run = Prepared(request, gates)
  /\ \A t \in Threads : Trainer(t) =>
       work[t].object \in 1..Len(runs) /\ runs[work[t].object].status = "RUNNING"
  /\ \A t, u \in Threads : t # u /\ Trainer(t) /\ Trainer(u) => work[t].object # work[u].object
  /\ \A n \in 1..Len(runs) : runs[n].status = "RUNNING" => \E t \in Threads : Trainer(t) /\ work[t].object = n

NamesInv ==
  /\ \A n \in 1..Len(runs) : \A s \in DOMAIN runs[n].evaluations :
       LET of == runs[n].evaluations[s].of
       IN of \in 1..Len(runs) /\ SameName(runs[of].request, runs[n].request)
  /\ \A n \in 1..Len(runs) : runs[n].version # {} => VersionOf(runs[n].request) \in DOMAIN registry
  /\ \A v \in DOMAIN registry : registry[v] \in 1..Len(runs) /\ VersionOf(runs[registry[v]].request) = v
  /\ \A t \in Threads : work[t].op = "evaluate" =>
       /\ work[t].object \in 1..Len(runs) /\ work[t].of \in 1..Len(runs)
       /\ SameName(runs[work[t].of].request, runs[work[t].object].request)

\* The step property of one run.
Stays(r, q) ==
  /\ Finished(r) => Finished(q) /\ SameTraining(r, q)
  /\ r.status = "FAILED" => q.status = "FAILED"

\* What a step does to the list of runs: it adds, or it replaces one.
LEMMA ChangeFacts ==
  ASSUME RunsInv, NEW n \in 1..Len(runs), NEW q, Change(n, q), Kept(q)
  PROVE  /\ RunsInv' /\ Len(runs') = Len(runs)
         /\ \A i \in 1..Len(runs) : runs'[i] = IF i = n THEN q ELSE runs[i]
<1>1. /\ IsSeq(runs') /\ Len(runs') = Len(runs)
      /\ \A i \in 1..Len(runs) : runs'[i] = IF i = n THEN q ELSE runs[i]
  <2> DEFINE w == [runs EXCEPT ![n] = q]
  <2>1. IsSeq(w) /\ Len(w) = Len(runs) /\ \A i \in 1..Len(runs) : w[i] = IF i = n THEN q ELSE runs[i]
    BY ExceptFacts DEF RunsInv
  <2>2. runs' = w
    BY DEF Change
  <2> HIDE DEF w
  <2> QED
    BY <2>1, <2>2
<1> QED
  BY <1>1 DEF RunsInv

LEMMA AddingFacts ==
  ASSUME RunsInv, NEW q, runs' = Append(runs, q), Kept(q)
  PROVE  /\ RunsInv' /\ Len(runs') = Len(runs) + 1 /\ runs'[Len(runs) + 1] = q
         /\ \A i \in 1..Len(runs) : runs'[i] = runs[i]
<1>1. /\ IsSeq(runs') /\ Len(runs') = Len(runs) + 1 /\ runs'[Len(runs) + 1] = q
      /\ \A i \in 1..Len(runs) : runs'[i] = runs[i]
  BY AppendFacts DEF RunsInv
<1>2. Len(runs) \in Nat
  BY SeqFacts DEF RunsInv
<1> QED
  BY <1>1, <1>2 DEF RunsInv

---------------------------------------------------------------------------
(* Steps that leave the threads' training alone. *)

\* A thread that trains nothing turns to something that is no training.
LEMMA OthersTrain ==
  ASSUME TrainersInv, NEW t \in Threads, NEW job, Waits(t, job),
         ~Trainer(t), job.op \notin {"train", "misled"},
         job.op = "prepare" => \E request \in Requests, gates \in BOOLEAN : job.run = Prepared(request, gates),
         Len(runs') \in Nat, Len(runs) \in Nat, Len(runs) <= Len(runs'),
         \A i \in 1..Len(runs) : (runs'[i].status = "RUNNING") <=> (runs[i].status = "RUNNING"),
         \A i \in (Len(runs) + 1)..Len(runs') : runs'[i].status # "RUNNING"
  PROVE  TrainersInv'
<1>1. /\ work' = [u \in Threads |-> work'[u]]
      /\ \A u \in Threads : work'[u] = IF u = t THEN job ELSE work[u]
  <2>1. work = [u \in Threads |-> work[u]]
    BY DEF TrainersInv
  <2>2. work' = [u \in Threads |-> IF u = t THEN job ELSE work[u]]
    BY <2>1 DEF Waits
  <2> QED
    BY <2>2
<1>2. \A u \in Threads : Trainer(u)' <=> Trainer(u)
  BY <1>1 DEF Trainer
<1>3. \A u \in Threads : Trainer(u) => work'[u] = work[u]
  BY <1>1
<1>4. \A u \in Threads : work'[u].op = "prepare" => \E request \in Requests, gates \in BOOLEAN : work'[u].run = Prepared(request, gates)
  BY <1>1 DEF TrainersInv
<1>5. \A u \in Threads : Trainer(u)' =>
        work'[u].object \in 1..Len(runs') /\ runs'[work'[u].object].status = "RUNNING"
  BY <1>2, <1>3 DEF TrainersInv
<1>6. \A u, v \in Threads : u # v /\ Trainer(u)' /\ Trainer(v)' => work'[u].object # work'[v].object
  BY <1>2, <1>3 DEF TrainersInv
<1>7. \A n \in 1..Len(runs') : runs'[n].status = "RUNNING" => \E u \in Threads : Trainer(u)' /\ work'[u].object = n
  <2> SUFFICES ASSUME NEW n \in 1..Len(runs'), runs'[n].status = "RUNNING"
               PROVE  \E u \in Threads : Trainer(u)' /\ work'[u].object = n
    OBVIOUS
  <2>1. n \in 1..Len(runs) /\ runs[n].status = "RUNNING"
    OBVIOUS
  <2>2. PICK u \in Threads : Trainer(u) /\ work[u].object = n
    BY <2>1 DEF TrainersInv
  <2> QED
    BY <1>2, <1>3, <2>2
<1> QED
  BY <1>1, <1>4, <1>5, <1>6, <1>7 DEF TrainersInv

\* A thread that trains is done with it.
LEMMA DoneTraining ==
  ASSUME RunsInv, TrainersInv, NEW t \in Threads, Ends(t), Trainer(t),
         NEW q, Change(work[t].object, q), Kept(q), q.status # "RUNNING"
  PROVE  TrainersInv'
<1> DEFINE n == work[t].object
<1>1. n \in 1..Len(runs)
  BY DEF TrainersInv
<1>2. Len(runs') = Len(runs) /\ \A i \in 1..Len(runs) : runs'[i] = IF i = n THEN q ELSE runs[i]
  BY <1>1, ChangeFacts
<1>3. /\ work' = [u \in Threads |-> work'[u]]
      /\ \A u \in Threads : work'[u] = IF u = t THEN Idle ELSE work[u]
  <2>1. work = [u \in Threads |-> work[u]]
    BY DEF TrainersInv
  <2>2. work' = [u \in Threads |-> IF u = t THEN Idle ELSE work[u]]
    BY <2>1 DEF Ends
  <2> QED
    BY <2>2
<1>4. Idle.op = "idle"
  BY DEF Idle
<1>5. \A u \in Threads : Trainer(u)' <=> Trainer(u) /\ u # t
  BY <1>3, <1>4 DEF Trainer
<1>6. \A u \in Threads : work'[u].op = "prepare" => \E request \in Requests, gates \in BOOLEAN : work'[u].run = Prepared(request, gates)
  BY <1>3, <1>4 DEF TrainersInv
<1>7. \A u \in Threads : Trainer(u)' =>
        work'[u].object \in 1..Len(runs') /\ runs'[work'[u].object].status = "RUNNING"
  BY <1>2, <1>3, <1>5 DEF TrainersInv
<1>8. \A u, v \in Threads : u # v /\ Trainer(u)' /\ Trainer(v)' => work'[u].object # work'[v].object
  BY <1>3, <1>5 DEF TrainersInv
<1>9. \A i \in 1..Len(runs') : runs'[i].status = "RUNNING" => \E u \in Threads : Trainer(u)' /\ work'[u].object = i
  <2> SUFFICES ASSUME NEW i \in 1..Len(runs'), runs'[i].status = "RUNNING"
               PROVE  \E u \in Threads : Trainer(u)' /\ work'[u].object = i
    OBVIOUS
  <2>1. i \in 1..Len(runs) /\ i # n /\ runs[i].status = "RUNNING"
    BY <1>2
  <2>2. PICK u \in Threads : Trainer(u) /\ work[u].object = i
    BY <2>1 DEF TrainersInv
  <2> QED
    BY <1>3, <1>5, <2>1, <2>2
<1> QED
  BY <1>3, <1>6, <1>7, <1>8, <1>9 DEF TrainersInv

---------------------------------------------------------------------------
(* Names. *)

\* Requests stay, versions are only given to what is in the registry, and
\* measurements come from threads that evaluate.
LEMMA NamesKept ==
  ASSUME RunsInv, NamesInv, Len(runs') \in Nat, Len(runs) <= Len(runs'),
         \A i \in 1..Len(runs) : runs'[i].request = runs[i].request,
         \A i \in 1..Len(runs') :
           /\ runs'[i].version # {} =>
                \/ i \in 1..Len(runs) /\ runs[i].version # {}
                \/ VersionOf(runs'[i].request) \in DOMAIN registry'
           /\ \A s \in DOMAIN runs'[i].evaluations :
                \/ i \in 1..Len(runs) /\ s \in DOMAIN runs[i].evaluations
                   /\ runs'[i].evaluations[s] = runs[i].evaluations[s]
                \/ \E t \in Threads : work[t].op = "evaluate" /\ work[t].object = i
                                      /\ runs'[i].evaluations[s].of = work[t].of,
         DOMAIN registry \subseteq DOMAIN registry',
         \A v \in DOMAIN registry' :
           \/ v \in DOMAIN registry /\ registry'[v] = registry[v]
           \/ registry'[v] \in 1..Len(runs) /\ VersionOf(runs[registry'[v]].request) = v,
         \A t \in Threads : work'[t].op = "evaluate" =>
           \/ work'[t] = work[t]
           \/ /\ work'[t].object \in 1..Len(runs) /\ work'[t].of \in 1..Len(runs)
              /\ SameName(runs[work'[t].of].request, runs[work'[t].object].request)
  PROVE  NamesInv'
<1>0. Len(runs) \in Nat
  BY SeqFacts DEF RunsInv
<1>1. ASSUME NEW n \in 1..Len(runs'), NEW s \in DOMAIN runs'[n].evaluations
      PROVE  LET of == runs'[n].evaluations[s].of
             IN of \in 1..Len(runs') /\ SameName(runs'[of].request, runs'[n].request)
  <2> DEFINE of == runs'[n].evaluations[s].of
  <2>1. n \in 1..Len(runs) /\ of \in 1..Len(runs) /\ SameName(runs[of].request, runs[n].request)
    <3>1. CASE n \in 1..Len(runs) /\ s \in DOMAIN runs[n].evaluations /\ runs'[n].evaluations[s] = runs[n].evaluations[s]
      BY <3>1 DEF NamesInv
    <3>2. CASE \E t \in Threads : work[t].op = "evaluate" /\ work[t].object = n /\ runs'[n].evaluations[s].of = work[t].of
      BY <3>2 DEF NamesInv
    <3> QED
      BY <3>1, <3>2
  <2> QED
    BY <1>0, <2>1
<1>2. ASSUME NEW n \in 1..Len(runs'), runs'[n].version # {}
      PROVE  VersionOf(runs'[n].request) \in DOMAIN registry'
  BY <1>2 DEF NamesInv
<1>3. ASSUME NEW v \in DOMAIN registry'
      PROVE  registry'[v] \in 1..Len(runs') /\ VersionOf(runs'[registry'[v]].request) = v
  <2>1. registry'[v] \in 1..Len(runs) /\ VersionOf(runs[registry'[v]].request) = v
    BY DEF NamesInv
  <2> QED
    BY <1>0, <2>1
<1>4. ASSUME NEW t \in Threads, work'[t].op = "evaluate"
      PROVE  /\ work'[t].object \in 1..Len(runs') /\ work'[t].of \in 1..Len(runs')
             /\ SameName(runs'[work'[t].of].request, runs'[work'[t].object].request)
  <2>1. /\ work'[t].object \in 1..Len(runs) /\ work'[t].of \in 1..Len(runs)
        /\ SameName(runs[work'[t].of].request, runs[work'[t].object].request)
    BY <1>4 DEF NamesInv
  <2> QED
    BY <1>0, <2>1
<1> QED
  BY <1>1, <1>2, <1>3, <1>4 DEF NamesInv

---------------------------------------------------------------------------
(* The actions. *)

TrainingInv == RunsInv /\ TrainersInv /\ NamesInv

AllStay == \A n \in DOMAIN runs : Stays(runs[n], runs'[n])

\* A thread waits for something else, and nothing happens to the runs.
LEMMA Waiting ==
  ASSUME TrainingInv, NEW t \in Threads, NEW job, Waits(t, job), UNCHANGED <<runs, registry>>,
         ~Trainer(t), job.op \notin {"train", "misled"},
         job.op = "prepare" => \E request \in Requests, gates \in BOOLEAN : job.run = Prepared(request, gates),
         job.op = "evaluate" =>
           /\ job.object \in 1..Len(runs) /\ job.of \in 1..Len(runs)
           /\ SameName(runs[job.of].request, runs[job.object].request)
  PROVE  TrainingInv' /\ AllStay
<1>1. RunsInv /\ TrainersInv /\ NamesInv /\ Len(runs) \in Nat
  BY SeqFacts DEF TrainingInv, RunsInv
<1>2. RunsInv'
  BY <1>1 DEF RunsInv
<1>3. TrainersInv'
  BY <1>1, OthersTrain
<1>4. \A u \in Threads : work'[u] = IF u = t THEN job ELSE work[u]
  BY <1>1 DEF Waits, TrainersInv
<1>5. NamesInv'
  BY <1>1, <1>4 DEF NamesInv
<1>6. AllStay
  BY DEF AllStay, Stays, SameTraining
<1> QED
  BY <1>2, <1>3, <1>5, <1>6 DEF TrainingInv

\* One run is replaced; no version is new and no measurement.
LEMMA Replacing ==
  ASSUME TrainingInv, NEW n \in 1..Len(runs), NEW q, Change(n, q), UNCHANGED registry,
         Kept(q), Stays(runs[n], q), q.request = runs[n].request,
         q.version # {} => runs[n].version # {},
         q.evaluations = runs[n].evaluations,
         \A t \in Threads : work'[t].op = "evaluate" => work'[t] = work[t]
  PROVE  RunsInv' /\ NamesInv' /\ AllStay
<1>1. RunsInv /\ NamesInv /\ Len(runs) \in Nat /\ DOMAIN runs = 1..Len(runs)
  BY SeqFacts DEF TrainingInv, RunsInv
<1>2. /\ RunsInv' /\ Len(runs') = Len(runs)
      /\ \A i \in 1..Len(runs) : runs'[i] = IF i = n THEN q ELSE runs[i]
  BY <1>1, ChangeFacts
<1>3. AllStay
  BY <1>1, <1>2 DEF AllStay, Stays, SameTraining
<1>4. NamesInv'
  <2>1. \A i \in 1..Len(runs) : runs'[i].request = runs[i].request
    BY <1>2
  <2>2. \A i \in 1..Len(runs') :
          /\ runs'[i].version # {} => runs[i].version # {}
          /\ runs'[i].evaluations = runs[i].evaluations
    BY <1>2
  <2>3. /\ Len(runs') \in Nat /\ Len(runs) <= Len(runs') /\ DOMAIN registry \subseteq DOMAIN registry'
        /\ \A v \in DOMAIN registry' : v \in DOMAIN registry /\ registry'[v] = registry[v]
    BY <1>1, <1>2
  <2>4. \A i \in 1..Len(runs') :
          /\ runs'[i].version # {} => i \in 1..Len(runs) /\ runs[i].version # {}
          /\ \A s \in DOMAIN runs'[i].evaluations :
               /\ i \in 1..Len(runs) /\ s \in DOMAIN runs[i].evaluations
               /\ runs'[i].evaluations[s] = runs[i].evaluations[s]
    BY <1>2, <2>2
  <2> QED
    BY <1>1, <2>1, <2>3, <2>4, NamesKept
<1> QED
  BY <1>2, <1>3, <1>4

LEMMA PreparingStep ==
  ASSUME TrainingInv, NEW t \in Threads, PrepareTrainingRun(t) \/ PrepareImageTrainingRun(t)
  PROVE  TrainingInv' /\ AllStay
<1>1. PICK request \in Requests, gates \in BOOLEAN : Waits(t, [op |-> "prepare", run |-> Prepared(request, gates)])
  BY DEF PrepareTrainingRun, PrepareImageTrainingRun, GatesPassed
<1>2. Free(t) /\ UNCHANGED <<runs, registry>>
  BY DEF PrepareTrainingRun, PrepareImageTrainingRun
<1> DEFINE job == [op |-> "prepare", run |-> Prepared(request, gates)]
<1>3. job.op = "prepare" /\ job.run = Prepared(request, gates) /\ Waits(t, job)
  BY <1>1
<1> HIDE DEF job
<1>4. ~Trainer(t)
  BY <1>2 DEF Free, Trainer, Idle
<1> QED
  BY <1>2, <1>3, <1>4, Waiting

LEMMA MaterializedStep ==
  ASSUME TrainingInv, NEW t \in Threads, Materialized(t)
  PROVE  TrainingInv' /\ AllStay
<1> DEFINE q == work[t].run
<1>1. /\ work[t].op = "prepare" /\ runs' = Append(runs, q) /\ Ends(t) /\ UNCHANGED registry
      /\ RunsInv /\ TrainersInv /\ NamesInv /\ Len(runs) \in Nat /\ DOMAIN runs = 1..Len(runs)
  BY SeqFacts DEF Materialized, TrainingInv, RunsInv
<1>2. Kept(q) /\ q.status = "PREPARED" /\ q.evaluations = <<>> /\ q.version = {}
  BY <1>1, PreparedKeeps DEF TrainersInv
<1> HIDE DEF q
<1>3. /\ RunsInv' /\ Len(runs') = Len(runs) + 1 /\ runs'[Len(runs) + 1] = q
      /\ \A i \in 1..Len(runs) : runs'[i] = runs[i]
  BY <1>1, <1>2, AddingFacts
<1>4. Idle.op = "idle" /\ Waits(t, Idle) /\ ~Trainer(t)
  BY <1>1 DEF Idle, Waits, Ends, Trainer
<1>5. \A i \in (Len(runs) + 1)..Len(runs') : i = Len(runs) + 1
  BY <1>1, <1>3
<1>6. TrainersInv'
  <2>1. \A i \in (Len(runs) + 1)..Len(runs') : runs'[i].status # "RUNNING"
    BY <1>2, <1>3, <1>5
  <2>2. Len(runs') \in Nat /\ Len(runs) <= Len(runs')
    BY <1>1, <1>3
  <2> QED
    BY <1>1, <1>3, <1>4, <2>1, <2>2, OthersTrain
<1>7. \A i \in 1..Len(runs') : i \in 1..Len(runs) \/ runs'[i] = q
  BY <1>1, <1>3
<1>8. NamesInv'
  <2>1. \A u \in Threads : work'[u] = IF u = t THEN Idle ELSE work[u]
    BY <1>1 DEF Ends, TrainersInv
  <2>2. \A i \in 1..Len(runs') :
          /\ runs'[i].version # {} => i \in 1..Len(runs) /\ runs[i].version # {}
          /\ \A s \in DOMAIN runs'[i].evaluations :
               /\ i \in 1..Len(runs) /\ s \in DOMAIN runs[i].evaluations
               /\ runs'[i].evaluations[s] = runs[i].evaluations[s]
    <3> SUFFICES ASSUME NEW i \in 1..Len(runs')
                 PROVE  /\ runs'[i].version # {} => i \in 1..Len(runs) /\ runs[i].version # {}
                        /\ \A s \in DOMAIN runs'[i].evaluations :
                             /\ i \in 1..Len(runs) /\ s \in DOMAIN runs[i].evaluations
                             /\ runs'[i].evaluations[s] = runs[i].evaluations[s]
      OBVIOUS
    <3>1. CASE i \in 1..Len(runs)
      BY <1>3, <3>1
    <3>2. CASE runs'[i] = q
      BY <1>2, <3>2, EmptyIsSeq
    <3> QED
      BY <1>7, <3>1, <3>2
  <2>3. \A u \in Threads : work'[u].op = "evaluate" => work'[u] = work[u]
    BY <1>4, <2>1
  <2>4. \A v \in DOMAIN registry' : v \in DOMAIN registry /\ registry'[v] = registry[v]
    BY <1>1
  <2>5. /\ Len(runs') \in Nat /\ Len(runs) <= Len(runs') /\ DOMAIN registry \subseteq DOMAIN registry'
        /\ \A i \in 1..Len(runs) : runs'[i].request = runs[i].request
    BY <1>1, <1>3
  <2> QED
    BY <1>1, <2>2, <2>3, <2>4, <2>5, NamesKept
<1>9. AllStay
  BY <1>1, <1>3 DEF AllStay, Stays, SameTraining
<1> QED
  BY <1>3, <1>6, <1>8, <1>9 DEF TrainingInv

LEMMA ExecutingStep ==
  ASSUME TrainingInv, NEW t \in Threads, ExecuteTrainingRun(t) \/ ExecuteImageTrainingRun(t)
  PROVE  TrainingInv' /\ AllStay
<1>1. PICK n \in DOMAIN runs, op \in {"train", "misled"} :
        /\ runs[n].status = "PREPARED"
        /\ Change(n, [runs[n] EXCEPT !.status = "RUNNING"])
        /\ Waits(t, [op |-> op, object |-> n])
  BY DEF ExecuteTrainingRun, ExecuteImageTrainingRun
<1>2. Free(t) /\ UNCHANGED registry
  BY DEF ExecuteTrainingRun, ExecuteImageTrainingRun
<1> DEFINE q == [runs[n] EXCEPT !.status = "RUNNING"]
           job == [op |-> op, object |-> n]
<1>3. RunsInv /\ TrainersInv /\ NamesInv /\ Len(runs) \in Nat /\ DOMAIN runs = 1..Len(runs)
  BY SeqFacts DEF TrainingInv, RunsInv
<1>4. Kept(runs[n]) /\ ~Judged(runs[n])
  BY <1>1, <1>3 DEF RunsInv, Judged
<1>5. /\ Kept(q) /\ q.status = "RUNNING" /\ q.request = runs[n].request
      /\ q.evaluations = runs[n].evaluations /\ q.version = runs[n].version
  BY <1>4, StatusKeeps
<1>6. Change(n, q) /\ Waits(t, job) /\ job.op = op /\ job.object = n
  BY <1>1
<1> HIDE DEF q, job
<1>7. /\ Len(runs') = Len(runs)
      /\ \A i \in 1..Len(runs) : runs'[i] = IF i = n THEN q ELSE runs[i]
  BY <1>3, <1>5, <1>6, ChangeFacts
<1>8. /\ work' = [u \in Threads |-> work'[u]]
      /\ \A u \in Threads : work'[u] = IF u = t THEN job ELSE work[u]
  <2>1. work = [u \in Threads |-> work[u]]
    BY <1>3 DEF TrainersInv
  <2>2. work' = [u \in Threads |-> IF u = t THEN job ELSE work[u]]
    BY <1>6, <2>1 DEF Waits
  <2> QED
    BY <2>2
<1>9. ~Trainer(t)
  BY <1>2 DEF Free, Trainer, Idle
<1>10. \A u \in Threads : Trainer(u)' <=> Trainer(u) \/ u = t
  BY <1>6, <1>8 DEF Trainer
<1>11. \A u \in Threads : Trainer(u) => work'[u] = work[u] /\ work[u].object # n
  BY <1>1, <1>3, <1>8, <1>9 DEF TrainersInv
<1>12. RunsInv' /\ NamesInv' /\ AllStay
  <2>1. Stays(runs[n], q)
    BY <1>1 DEF Stays, Finished, Judged
  <2>2. \A u \in Threads : work'[u].op = "evaluate" => work'[u] = work[u]
    BY <1>6, <1>8
  <2> QED
    BY <1>2, <1>3, <1>5, <1>6, <2>1, <2>2, Replacing
<1>13. TrainersInv'
  <2>1. \A u \in Threads : work'[u].op = "prepare" => \E request \in Requests, gates \in BOOLEAN : work'[u].run = Prepared(request, gates)
    BY <1>3, <1>6, <1>8 DEF TrainersInv
  <2>2. \A u \in Threads : Trainer(u)' =>
          work'[u].object \in 1..Len(runs') /\ runs'[work'[u].object].status = "RUNNING"
    <3>1. ASSUME NEW u \in Threads, Trainer(u)
          PROVE  work'[u].object \in 1..Len(runs') /\ runs'[work'[u].object].status = "RUNNING"
      BY <1>3, <1>7, <1>11, <3>1 DEF TrainersInv
    <3>2. work'[t].object \in 1..Len(runs') /\ runs'[work'[t].object].status = "RUNNING"
      BY <1>3, <1>5, <1>6, <1>7, <1>8
    <3> QED
      BY <1>10, <3>1, <3>2
  <2>3. \A u, v \in Threads : u # v /\ Trainer(u)' /\ Trainer(v)' => work'[u].object # work'[v].object
    <3>1. \A u, v \in Threads : u # v /\ Trainer(u) /\ Trainer(v) => work[u].object # work[v].object
      BY <1>3 DEF TrainersInv
    <3>2. work'[t].object = n
      BY <1>6, <1>8
    <3> QED
      BY <1>10, <1>11, <3>1, <3>2
  <2>4. \A i \in 1..Len(runs') : runs'[i].status = "RUNNING" => \E u \in Threads : Trainer(u)' /\ work'[u].object = i
    <3> SUFFICES ASSUME NEW i \in 1..Len(runs'), runs'[i].status = "RUNNING"
                 PROVE  \E u \in Threads : Trainer(u)' /\ work'[u].object = i
      OBVIOUS
    <3>1. CASE i = n
      BY <1>6, <1>8, <1>10, <3>1
    <3>2. CASE i # n
      <4>1. PICK u \in Threads : Trainer(u) /\ work[u].object = i
        BY <1>3, <1>7, <3>2 DEF TrainersInv
      <4> QED
        BY <1>10, <1>11, <4>1
    <3> QED
      BY <3>1, <3>2
  <2> QED
    BY <1>8, <2>1, <2>2, <2>3, <2>4 DEF TrainersInv
<1> QED
  BY <1>12, <1>13 DEF TrainingInv

LEMMA TrainedStepHolds ==
  ASSUME TrainingInv, NEW t \in Threads, Trained(t)
  PROVE  TrainingInv' /\ AllStay
<1> DEFINE n == work[t].object
           r == runs[n]
           version == VersionOf(r.request)
<1>1. PICK outcome \in Outcomes :
        /\ work[t].op = "train" /\ registry' = Put(registry, version, n)
        /\ Change(n, Completed(r, outcome, version)) /\ Ends(t)
  BY DEF Trained
<1> DEFINE q == Completed(r, outcome, version)
<1>2. RunsInv /\ TrainersInv /\ NamesInv /\ Len(runs) \in Nat /\ DOMAIN runs = 1..Len(runs)
  BY SeqFacts DEF TrainingInv, RunsInv
<1>3. Trainer(t) /\ n \in 1..Len(runs) /\ r.status = "RUNNING"
  BY <1>1, <1>2 DEF Trainer, TrainersInv
<1>4. Kept(r) /\ ~Judged(r)
  BY <1>2, <1>3 DEF RunsInv, Judged
<1>5. /\ Kept(q) /\ q.status = "COMPLETED" /\ q.request = r.request /\ q.evaluations = r.evaluations
      /\ q.version = {version}
  BY <1>4, CompletedKeeps
<1>6. Change(n, q)
  BY <1>1
<1> HIDE DEF q
<1>7. TrainersInv'
  BY <1>1, <1>2, <1>3, <1>5, <1>6, DoneTraining
<1> HIDE DEF n
<1>8. /\ RunsInv' /\ Len(runs') = Len(runs)
      /\ \A i \in 1..Len(runs) : runs'[i] = IF i = n THEN q ELSE runs[i]
  BY <1>2, <1>3, <1>5, <1>6, ChangeFacts
<1>9. NamesInv'
  <2>1. /\ DOMAIN registry' = DOMAIN registry \union {version}
        /\ \A v \in DOMAIN registry' : registry'[v] = IF v = version THEN n ELSE registry[v]
    <3> HIDE DEF version
    <3> QED
      BY <1>1 DEF Put
  <2>2. \A u \in Threads : work'[u].op = "evaluate" => work'[u] = work[u]
    BY <1>1, <1>2 DEF Ends, TrainersInv, Idle
  <2>3. /\ Len(runs') \in Nat /\ Len(runs) <= Len(runs') /\ DOMAIN registry \subseteq DOMAIN registry'
        /\ \A i \in 1..Len(runs) : runs'[i].request = runs[i].request
    BY <1>2, <1>3, <1>5, <1>8, <2>1
  <2>4. \A i \in 1..Len(runs') :
          runs'[i].version # {} => \/ i \in 1..Len(runs) /\ runs[i].version # {}
                                   \/ VersionOf(runs'[i].request) \in DOMAIN registry'
    BY <1>5, <1>8, <2>1
  <2>5. \A i \in 1..Len(runs') : \A s \in DOMAIN runs'[i].evaluations :
          /\ i \in 1..Len(runs) /\ s \in DOMAIN runs[i].evaluations
          /\ runs'[i].evaluations[s] = runs[i].evaluations[s]
    BY <1>5, <1>8
  <2>6. \A v \in DOMAIN registry' :
          \/ v \in DOMAIN registry /\ registry'[v] = registry[v]
          \/ registry'[v] \in 1..Len(runs) /\ VersionOf(runs[registry'[v]].request) = v
    BY <1>3, <2>1
  <2> QED
    BY <1>2, <2>2, <2>3, <2>4, <2>5, <2>6, NamesKept
<1>10. AllStay
  BY <1>2, <1>3, <1>5, <1>8 DEF AllStay, Stays, SameTraining, Finished, Judged
<1> QED
  BY <1>7, <1>8, <1>9, <1>10 DEF TrainingInv

LEMMA FailingStep ==
  ASSUME TrainingInv, NEW t \in Threads, TrainingFails(t)
  PROVE  TrainingInv' /\ AllStay
<1> DEFINE n == work[t].object
           r == runs[n]
           q == [r EXCEPT !.status = "FAILED"]
<1>1. Trainer(t) /\ Change(n, q) /\ Ends(t) /\ UNCHANGED registry
  BY DEF TrainingFails, Trainer
<1>2. RunsInv /\ TrainersInv /\ NamesInv
  BY DEF TrainingInv
<1>3. n \in 1..Len(runs) /\ r.status = "RUNNING"
  BY <1>1, <1>2 DEF TrainersInv
<1>4. Kept(r) /\ ~Judged(r)
  BY <1>2, <1>3 DEF RunsInv, Judged
<1>5. /\ Kept(q) /\ q.status = "FAILED" /\ q.request = r.request
      /\ q.evaluations = r.evaluations /\ q.version = r.version
  BY <1>4, StatusKeeps
<1> HIDE DEF q
<1>6. TrainersInv'
  BY <1>1, <1>2, <1>3, <1>5, DoneTraining
<1>7. Stays(r, q)
  BY <1>3, <1>5 DEF Stays, Finished, Judged
<1>8. \A u \in Threads : work'[u].op = "evaluate" => work'[u] = work[u]
  BY <1>1, <1>2 DEF Ends, TrainersInv, Idle
<1> HIDE DEF n
<1>9. RunsInv' /\ NamesInv' /\ AllStay
  BY <1>1, <1>3, <1>5, <1>7, <1>8, Replacing
<1> QED
  BY <1>6, <1>9 DEF TrainingInv

LEMMA EvaluatingStep ==
  ASSUME TrainingInv, NEW t \in Threads, NEW n \in DOMAIN runs, NEW split, Evaluates(t, n, split)
  PROVE  TrainingInv' /\ AllStay
<1> DEFINE v == The(runs[n].version)
           job == [op |-> "evaluate", object |-> n, split |-> split, of |-> registry[v]]
<1>1. Free(t) /\ runs[n].version # {} /\ Waits(t, job) /\ UNCHANGED <<runs, registry>>
  BY DEF Evaluates
<1>2. job.op = "evaluate" /\ job.object = n /\ job.of = registry[v]
  OBVIOUS
<1> HIDE DEF job
<1>3. RunsInv /\ NamesInv /\ n \in 1..Len(runs)
  BY SeqFacts DEF TrainingInv, RunsInv
<1>4. v = VersionOf(runs[n].request)
  <2>1. v \in runs[n].version
    BY <1>1 DEF The
  <2> QED
    BY <1>3, <2>1 DEF RunsInv, Kept
<1> HIDE DEF v
<1>5. registry[v] \in 1..Len(runs) /\ VersionOf(runs[registry[v]].request) = v
  BY <1>1, <1>3, <1>4 DEF NamesInv
<1>6. ~Trainer(t)
  BY <1>1 DEF Free, Trainer, Idle
<1>7. SameName(runs[job.of].request, runs[job.object].request)
  BY <1>2, <1>4, <1>5 DEF SameName
<1> QED
  BY <1>1, <1>2, <1>3, <1>5, <1>6, <1>7, Waiting

LEMMA MeasuredStep ==
  ASSUME TrainingInv, NEW t \in Threads, Measured(t)
  PROVE  TrainingInv' /\ AllStay
<1> DEFINE n == work[t].object
           r == runs[n]
<1>1. PICK matrix \in Matrices :
        /\ work[t].op = "evaluate" /\ r.status = "COMPLETED" /\ Ends(t) /\ UNCHANGED registry
        /\ Change(n, Evaluated(r, work[t].split, [matrix |-> matrix, of |-> work[t].of, latency |-> 0]))
  BY DEF Measured
<1> DEFINE result == [matrix |-> matrix, of |-> work[t].of, latency |-> 0]
           q == Evaluated(r, work[t].split, result)
<1>2. RunsInv /\ TrainersInv /\ NamesInv /\ Len(runs) \in Nat /\ DOMAIN runs = 1..Len(runs)
  BY SeqFacts DEF TrainingInv, RunsInv
<1>3. n \in 1..Len(runs)
  BY <1>1, <1>2 DEF NamesInv
<1>4. Kept(r) /\ ~Judged(r)
  BY <1>1, <1>2, <1>3 DEF RunsInv, Judged
<1>5. Change(n, q) /\ result.of = work[t].of
  BY <1>1
<1> HIDE DEF result
<1>6. /\ Kept(q) /\ q.status = r.status /\ q.request = r.request /\ SameTraining(r, q)
      /\ \A s \in DOMAIN q.evaluations :
           q.evaluations[s] = result \/ (s \in DOMAIN r.evaluations /\ q.evaluations[s] = r.evaluations[s])
  BY <1>4, EvaluatedKeeps
<1> HIDE DEF q
<1>7. /\ RunsInv' /\ Len(runs') = Len(runs)
      /\ \A i \in 1..Len(runs) : runs'[i] = IF i = n THEN q ELSE runs[i]
  BY <1>2, <1>3, <1>5, <1>6, ChangeFacts
<1>8. Idle.op = "idle" /\ Waits(t, Idle) /\ ~Trainer(t)
  BY <1>1 DEF Idle, Waits, Ends, Trainer
<1>9. TrainersInv'
  <2>1. \A i \in 1..Len(runs) : (runs'[i].status = "RUNNING") <=> (runs[i].status = "RUNNING")
    BY <1>6, <1>7
  <2>2. (Len(runs) + 1)..Len(runs') = {}
    BY <1>2, <1>7
  <2> QED
    BY <1>2, <1>7, <1>8, <2>1, <2>2, OthersTrain
<1>10. NamesInv'
  <2>1. \A u \in Threads : work'[u].op = "evaluate" => work'[u] = work[u]
    BY <1>1, <1>2 DEF Ends, TrainersInv, Idle
  <2>2. /\ Len(runs') \in Nat /\ Len(runs) <= Len(runs') /\ DOMAIN registry \subseteq DOMAIN registry'
        /\ \A i \in 1..Len(runs) : runs'[i].request = runs[i].request
        /\ \A v \in DOMAIN registry' : v \in DOMAIN registry /\ registry'[v] = registry[v]
    BY <1>1, <1>2, <1>6, <1>7
  <2>3. \A i \in 1..Len(runs') : runs'[i].version # {} => i \in 1..Len(runs) /\ runs[i].version # {}
    BY <1>6, <1>7 DEF SameTraining
  <2>4. \A i \in 1..Len(runs') : \A s \in DOMAIN runs'[i].evaluations :
          \/ i \in 1..Len(runs) /\ s \in DOMAIN runs[i].evaluations
             /\ runs'[i].evaluations[s] = runs[i].evaluations[s]
          \/ \E u \in Threads : work[u].op = "evaluate" /\ work[u].object = i
                                /\ runs'[i].evaluations[s].of = work[u].of
    BY <1>1, <1>5, <1>6, <1>7
  <2> QED
    BY <1>2, <2>1, <2>2, <2>3, <2>4, NamesKept
<1>11. AllStay
  BY <1>1, <1>2, <1>6, <1>7 DEF AllStay, Stays, SameTraining, Finished
<1> QED
  BY <1>7, <1>9, <1>10, <1>11 DEF TrainingInv

\* A judged run, or one that may be judged, gets another judgement or none.
LEMMA Judging ==
  ASSUME TrainingInv, NEW n \in DOMAIN runs, NEW q, Change(n, q), UNCHANGED <<registry, work>>,
         Kept(q), Finished(runs[n]), Finished(q), q.request = runs[n].request,
         q.evaluations = runs[n].evaluations, SameTraining(runs[n], q)
  PROVE  TrainingInv' /\ AllStay
<1>1. RunsInv /\ TrainersInv /\ NamesInv /\ n \in 1..Len(runs)
  BY SeqFacts DEF TrainingInv, RunsInv
<1>2. RunsInv' /\ NamesInv' /\ AllStay
  <2>1. Stays(runs[n], q)
    BY DEF Stays, Finished, Judged
  <2>2. \A t \in Threads : work'[t].op = "evaluate" => work'[t] = work[t]
    OBVIOUS
  <2> QED
    BY <1>1, <2>1, <2>2, Replacing DEF SameTraining
<1>3. /\ Len(runs') = Len(runs)
      /\ \A i \in 1..Len(runs) : runs'[i] = IF i = n THEN q ELSE runs[i]
  BY <1>1, ChangeFacts
<1>4. \A i \in 1..Len(runs) : (runs'[i].status = "RUNNING") <=> (runs[i].status = "RUNNING")
  BY <1>3 DEF Finished, Judged
<1>5. TrainersInv'
  BY <1>1, <1>3, <1>4 DEF TrainersInv, Trainer
<1> QED
  BY <1>2, <1>5 DEF TrainingInv

LEMMA JudgingStep ==
  ASSUME TrainingInv, NEW t \in Threads, AcceptModel(t) \/ ReopenTrainingRun(t)
  PROVE  TrainingInv' /\ AllStay
<1>1. RunsInv /\ DOMAIN runs = 1..Len(runs) /\ UNCHANGED <<registry, work>>
  BY SeqFacts DEF TrainingInv, RunsInv, AcceptModel, ReopenTrainingRun
<1>2. ASSUME NEW n \in DOMAIN runs, NEW policy \in Policies, NEW split,
             runs[n].status = "COMPLETED", Change(n, Accepted(runs[n], policy, split))
      PROVE  TrainingInv' /\ AllStay
  <2> DEFINE q == Accepted(runs[n], policy, split)
  <2>1. /\ Kept(q) /\ Judged(q) /\ q.request = runs[n].request
        /\ q.evaluations = runs[n].evaluations /\ SameTraining(runs[n], q)
    BY <1>1, AcceptedKeeps DEF RunsInv
  <2>2. Change(n, q)
    BY <1>2
  <2> HIDE DEF q
  <2> QED
    BY <1>1, <1>2, <2>1, <2>2, Judging DEF Finished
<1>3. ASSUME NEW n \in DOMAIN runs, Judged(runs[n]), Change(n, Reopened(runs[n]))
      PROVE  TrainingInv' /\ AllStay
  <2> DEFINE q == Reopened(runs[n])
  <2>1. /\ Kept(q) /\ q.status = "COMPLETED" /\ q.request = runs[n].request
        /\ q.evaluations = runs[n].evaluations /\ SameTraining(runs[n], q)
    BY <1>1, ReopenedKeeps DEF RunsInv
  <2>2. Change(n, q)
    BY <1>3
  <2> HIDE DEF q
  <2> QED
    BY <1>1, <1>3, <2>1, <2>2, Judging DEF Finished
<1> QED
  BY <1>2, <1>3 DEF AcceptModel, ReopenTrainingRun, CanAccept

LEMMA TrainingStep ==
  ASSUME TrainingInv, [Next]_vars
  PROVE  TrainingInv' /\ AllStay
<1>1. CASE UNCHANGED vars
  BY <1>1 DEF vars, TrainingInv, RunsInv, TrainersInv, NamesInv, Trainer, AllStay, Stays, SameTraining
<1>2. ASSUME NEW t \in Threads, EvaluateModel(t) \/ EvaluateModelOnField(t)
      PROVE  TrainingInv' /\ AllStay
  BY <1>2, EvaluatingStep DEF EvaluateModel, EvaluateModelOnField
<1>3. ASSUME NEW t \in Threads, Fails(t)
      PROVE  TrainingInv' /\ AllStay
  <2>1. Idle.op = "idle" /\ Waits(t, Idle) /\ ~Trainer(t) /\ UNCHANGED <<runs, registry>>
    BY <1>3 DEF Fails, Idle, Waits, Ends, Trainer
  <2> QED
    BY <2>1, Waiting
<1> QED
  BY <1>1, <1>2, <1>3, PreparingStep, MaterializedStep, ExecutingStep, TrainedStepHolds, FailingStep,
     MeasuredStep, JudgingStep DEF Next

LEMMA TrainingInit == Init => TrainingInv
BY EmptyIsSeq DEF Init, TrainingInv, RunsInv, TrainersInv, NamesInv, Trainer, Idle

\* Runs are made and changed by their methods alone, threads that train hold
\* different runs, and names lead to namesakes.
THEOREM TrainingInvariant == Spec => []TrainingInv
BY TrainingInit, TrainingStep, PTL DEF Spec

\* No two threads train one run, and a run that says RUNNING is being trained
\* (TrainingRun.start).
THEOREM NoneTrainsTwice == Spec => []OneTrainer
<1>1. TrainingInv => OneTrainer
  BY SeqFacts DEF TrainingInv, RunsInv, TrainersInv, Trainer, OneTrainer
<1> QED
  BY <1>1, TrainingInvariant, PTL

\* A judgement is about what the run holds (TrainingRun.accept,
\* TrainingRun.record_evaluation).
THEOREM JudgementsHold == Spec => []CertificateHolds
<1>1. TrainingInv => CertificateHolds
  BY SeqFacts DEF TrainingInv, RunsInv, Kept, Certified, CertificateHolds
<1> QED
  BY <1>1, TrainingInvariant, PTL

\* Names lead to trainings on the same data, of the same kind and with the
\* same seed (TorchTrainer.train).
THEOREM MeasuredOnNamesakes == Spec => []MeasuredOnItsNamesake
<1>1. ASSUME NEW p, NEW q, p.image \in BOOLEAN, q.image \in BOOLEAN, SameName(p, q)
      PROVE  p.data = q.data /\ p.seed = q.seed /\ p.arch.kind = q.arch.kind /\ p.image = q.image
  BY <1>1 DEF SameName, VersionOf
<1>2. TrainingInv => MeasuredOnItsNamesake
  <2> SUFFICES ASSUME TrainingInv, NEW n \in DOMAIN runs, NEW s \in DOMAIN runs[n].evaluations
               PROVE  LET mine == runs[n].request theirs == runs[runs[n].evaluations[s].of].request
                      IN /\ theirs.data = mine.data /\ theirs.seed = mine.seed
                         /\ theirs.arch.kind = mine.arch.kind /\ theirs.image = mine.image
    BY DEF MeasuredOnItsNamesake
  <2> DEFINE of == runs[n].evaluations[s].of
  <2>1. n \in 1..Len(runs) /\ of \in 1..Len(runs) /\ SameName(runs[of].request, runs[n].request)
    BY SeqFacts DEF TrainingInv, RunsInv, NamesInv
  <2>2. runs[n].request \in Requests /\ runs[of].request \in Requests
    BY <2>1 DEF TrainingInv, RunsInv, Kept
  <2>3. runs[n].request.image \in BOOLEAN /\ runs[of].request.image \in BOOLEAN
    BY <2>2, TrainingAssumption
  <2> QED
    BY <1>1, <2>1, <2>3
<1> QED
  BY <1>2, TrainingInvariant, PTL

\* What was trained stays (TrainingRun.complete, TrainingRun.reopen).
THEOREM TrainingIsFinal == Spec => TrainedStays
<1> DEFINE Step == \A n \in DOMAIN runs :
             /\ Finished(runs[n]) => /\ Finished(runs'[n])
                                     /\ runs'[n].curve = runs[n].curve /\ runs'[n].usage = runs[n].usage
                                     /\ runs'[n].version = runs[n].version
             /\ runs[n].status = "FAILED" => runs'[n].status = "FAILED"
<1>1. ASSUME TrainingInv, [Next]_vars PROVE Step
  BY <1>1, TrainingStep DEF AllStay, Stays, SameTraining
<1>2. TrainingInv /\ [Next]_vars => [Step]_vars
  BY <1>1
<1>3. Spec => [][Step]_vars
  <2> HIDE DEF Step
  <2> QED
    BY <1>2, TrainingInvariant, PTL DEF Spec
<1> QED
  BY <1>3 DEF TrainedStays
=============================================================================
