------------------------------ MODULE EdgeProofs ------------------------------
(***************************************************************************)
(* Theorems about what runs on a device: its way up (Uplink), for every    *)
(* installation, number of requests and size of batch, and its slots       *)
(* (SlotStore), for every set of versions.                                 *)
(*                                                                         *)
(* What the properties of the way up lack to be inductive: a request       *)
(* carries records that were made, no more than a batch, and at least one  *)
(* until it is answered; the records of a request that is past the store,  *)
(* or whose answer is a success, have been decided about; and of the       *)
(* requests that may still be charged to a day, one has seen room for      *)
(* itself and for a batch of every other.                                  *)
(***************************************************************************)
EXTENDS Uplink, SlotStore, SequenceTheorems, FiniteSetTheorems, TLAPS

---------------------------------------------------------------------------
(* The installation *)

\* What an installation is set to are numbers.
LEMMA SettingFacts ==
  ASSUME setting \in Settings
  PROVE  /\ UplinkEvery \in Nat \ {0} /\ PerHour \in Nat \ {0} /\ PerDay \in Nat \ {0}
         /\ Budget \in Nat /\ MaxSamples \in Nat /\ MaxBoots \in Nat /\ MaxLost \in Nat
         /\ OtherStamps \subseteq Nat
BY UplinkAssumption DEF UplinkEvery, PerHour, PerDay, Budget, MaxSamples, MaxBoots, MaxLost, OtherStamps

\* A record has a number and a stamp.
LEMMA RecordFacts == \A r \in Record : r.id \in Nat /\ r.at \in Nat
BY DEF Record

---------------------------------------------------------------------------
(* The spool's operations *)

\* take_batch shows the beginning of the spool and takes nothing away.
LEMMA TakeBatchFacts ==
  ASSUME NEW r \in Seq(Record)
  PROVE  /\ TakeBatch(r) \in Seq(Record)
         /\ Len(TakeBatch(r)) \in 0..Len(r) /\ Len(TakeBatch(r)) <= BatchSize
         /\ r # <<>> => TakeBatch(r) # <<>>
         /\ \A i \in 1..Len(TakeBatch(r)) : TakeBatch(r)[i] = r[i]
<1> DEFINE n == IF Len(r) < BatchSize THEN Len(r) ELSE BatchSize
<1>1. /\ n \in 0..Len(r) /\ n <= BatchSize /\ (Len(r) # 0 => n # 0)
      /\ \A i \in 1..n : r[i] \in Record
  BY UplinkAssumption
<1> HIDE DEF n
<1>2. /\ SubSeq(r, 1, n) \in Seq(Record) /\ Len(SubSeq(r, 1, n)) = n
      /\ \A i \in 1..n : SubSeq(r, 1, n)[i] = r[i]
  BY <1>1, SubSeqProperties
<1>3. TakeBatch(r) = SubSeq(r, 1, n)
  BY DEF TakeBatch, n
<1>4. r # <<>> => Len(r) # 0
  BY EmptySeq
<1> QED
  BY <1>1, <1>2, <1>3, <1>4

\* commit drops the oldest records and leaves the others in order.
LEMMA CommittedFacts ==
  ASSUME NEW r \in Seq(Record), NEW n \in 0..Len(r)
  PROVE  /\ Committed(r, n) \in Seq(Record) /\ Len(Committed(r, n)) = Len(r) - n
         /\ \A i \in 1..(Len(r) - n) : Committed(r, n)[i] = r[n + i]
<1>1. \A i \in n + 1 .. Len(r) : r[i] \in Record
  OBVIOUS
<1>2. /\ SubSeq(r, n + 1, Len(r)) \in Seq(Record)
      /\ Len(SubSeq(r, n + 1, Len(r))) = IF n + 1 <= Len(r) THEN Len(r) - (n + 1) + 1 ELSE 0
      /\ \A i \in 1 .. Len(r) - (n + 1) + 1 : SubSeq(r, n + 1, Len(r))[i] = r[n + 1 + i - 1]
  BY <1>1, SubSeqProperties
<1>3. /\ Len(r) - (n + 1) + 1 = Len(r) - n /\ (n + 1 <= Len(r) \/ Len(r) - n = 0)
      /\ \A i \in 1..(Len(r) - n) : n + 1 + i - 1 = n + i
  OBVIOUS
<1> QED
  BY <1>2, <1>3 DEF Committed

\* A full disk loses its oldest records, and never the newest.
LEMMA EnforcedFacts ==
  ASSUME NEW r \in Seq(Record)
  PROVE  \E k \in 0..Len(r) :
           /\ Enforced(r) = Committed(r, k)
           /\ r # <<>> => k < Len(r)
<1>1. CASE Len(r) <= Capacity
  <2>1. Committed(r, 0) = r
    BY SubSeqFull DEF Committed
  <2>2. r # <<>> => 0 < Len(r)
    BY EmptySeq
  <2> QED
    BY <1>1, <2>1, <2>2 DEF Enforced
<1>2. CASE ~(Len(r) <= Capacity)
  <2>1. Len(r) \div 2 \in 0..Len(r) /\ Len(r) \div 2 < Len(r)
    BY <1>2, UplinkAssumption
  <2> QED
    BY <1>2, <2>1 DEF Enforced, Committed
<1> QED
  BY <1>1, <1>2

\* What is left and what has gone make up what there was.
LEMMA CommittedIds ==
  ASSUME NEW r \in Seq(Record), NEW n \in 0..Len(r)
  PROVE  /\ Ids(Committed(r, n)) \subseteq Ids(r)
         /\ \A b \in Seq(Record) : (Len(b) = n /\ \A i \in 1..n : b[i] = r[i])
              => /\ Ids(b) \subseteq Ids(r)
                 /\ Ids(r) \subseteq Ids(b) \cup Ids(Committed(r, n))
<1> DEFINE c == Committed(r, n)
<1>1. /\ c \in Seq(Record) /\ Len(c) = Len(r) - n /\ n \in Nat /\ Len(r) \in Nat
      /\ \A i \in 1..Len(c) : c[i] = r[n + i]
  BY CommittedFacts
<1> HIDE DEF c
<1>2. \A i \in 1..Len(c) : n + i \in 1..Len(r)
  BY <1>1
<1>3. Ids(c) \subseteq Ids(r)
  <2>1. DOMAIN c = 1..Len(c) /\ DOMAIN r = 1..Len(r)
    BY <1>1
  <2>2. \A i \in DOMAIN c : n + i \in DOMAIN r /\ c[i] = r[n + i]
    BY <1>1, <1>2, <2>1, Zenon
  <2> QED
    BY <2>2, Zenon DEF Ids
<1>4. ASSUME NEW b \in Seq(Record), Len(b) = n, \A i \in 1..n : b[i] = r[i]
      PROVE  Ids(b) \subseteq Ids(r) /\ Ids(r) \subseteq Ids(b) \cup Ids(c)
  <2>1. Ids(b) \subseteq Ids(r)
    BY <1>1, <1>4 DEF Ids
  <2>2. ASSUME NEW j \in 1..Len(r) PROVE r[j].id \in Ids(b) \cup Ids(c)
    <3>1. CASE j <= n
      <4>1. j \in DOMAIN b /\ b[j] = r[j]
        BY <1>1, <1>4, <3>1
      <4> QED
        BY <4>1 DEF Ids
    <3>2. CASE ~(j <= n)
      <4>1. j - n \in 1..Len(c) /\ c[j - n] = r[j]
        BY <1>1, <3>2
      <4> QED
        BY <1>1, <4>1 DEF Ids
    <3> QED
      BY <3>1, <3>2
  <2>3. DOMAIN r = 1..Len(r)
    BY <1>1
  <2> QED
    BY <2>1, <2>2, <2>3, Zenon DEF Ids
<1>5. \A b \in Seq(Record) : (Len(b) = n /\ \A i \in 1..n : b[i] = r[i])
        => Ids(b) \subseteq Ids(r) /\ Ids(r) \subseteq Ids(b) \cup Ids(c)
  BY <1>4
<1> QED
  BY <1>3, <1>5, Zenon DEF c

\* A record that is kept is the newest one.
LEMMA AppendIds ==
  ASSUME NEW r \in Seq(Record), NEW e \in Record
  PROVE  /\ Append(r, e) \in Seq(Record) /\ Append(r, e) # <<>>
         /\ Len(Append(r, e)) = Len(r) + 1
         /\ Ids(Append(r, e)) = Ids(r) \cup {e.id}
<1> DEFINE g == Append(r, e)
<1>1. /\ g \in Seq(Record) /\ g # <<>> /\ Len(g) = Len(r) + 1
      /\ (\A i \in 1..Len(r) : g[i] = r[i]) /\ g[Len(r) + 1] = e
  BY AppendProperties
<1> HIDE DEF g
<1>2. /\ DOMAIN g = DOMAIN r \cup {Len(r) + 1} /\ DOMAIN r = 1..Len(r)
  BY <1>1
<1>3. Ids(g) = Ids(r) \cup {e.id}
  BY <1>1, <1>2, Zenon DEF Ids
<1> QED
  BY <1>1, <1>3 DEF g

---------------------------------------------------------------------------
(* The requests in the server *)

\* Records that were made, so far and at the times a boot knows.
WereMade(records, made, top) ==
  \A i \in DOMAIN records : records[i].id \in 1..made /\ records[i].at \in 0..top

\* What a commit leaves was made, as the rest was.
LEMMA CommittedMade ==
  ASSUME NEW r \in Seq(Record), NEW n \in 0..Len(r), NEW made, NEW top, WereMade(r, made, top)
  PROVE  WereMade(Committed(r, n), made, top)
<1> DEFINE c == Committed(r, n)
<1>1. /\ c \in Seq(Record) /\ Len(c) = Len(r) - n /\ n \in Nat /\ Len(r) \in Nat
      /\ \A i \in 1..Len(c) : c[i] = r[n + i]
  BY CommittedFacts
<1> HIDE DEF c
<1>2. /\ \A i \in 1..Len(c) : n + i \in 1..Len(r)
      /\ DOMAIN c = 1..Len(c) /\ DOMAIN r = 1..Len(r)
  BY <1>1
<1>3. WereMade(c, made, top)
  BY <1>1, <1>2, Zenon DEF WereMade
<1> QED
  BY <1>3 DEF c

\* A record that a commit drops is one of those at the head.
LEMMA CommittedLeaves ==
  ASSUME NEW r \in Seq(Record), NEW n \in 0..Len(r), NEW decided,
         \A i \in 1..n : r[i].id \in decided
  PROVE  Ids(r) \subseteq Ids(Committed(r, n)) \cup decided
<1> DEFINE c == Committed(r, n)
<1>1. /\ c \in Seq(Record) /\ Len(c) = Len(r) - n /\ n \in Nat /\ Len(r) \in Nat
      /\ \A i \in 1..Len(c) : c[i] = r[n + i]
  BY CommittedFacts
<1> HIDE DEF c
<1>2. ASSUME NEW i \in 1..Len(r) PROVE r[i].id \in Ids(c) \cup decided
  <2>1. CASE i <= n
    BY <1>1, <2>1
  <2>2. CASE ~(i <= n)
    <3>1. i - n \in 1..Len(c) /\ c[i - n] = r[i]
      BY <1>1, <2>2
    <3> QED
      BY <1>1, <3>1 DEF Ids
  <2> QED
    BY <2>1, <2>2
<1>3. DOMAIN r = 1..Len(r)
  BY <1>1
<1>4. Ids(r) \subseteq Ids(c) \cup decided
  BY <1>2, <1>3, Zenon DEF Ids
<1> QED
  BY <1>4 DEF c

\* A request of the agent's, or a report of another use case.
Sound(h, made, decided, top) ==
  /\ h \in Handler
  /\ WereMade(h.batch, made, top)
  /\ Len(h.batch) <= BatchSize
  /\ (h.stage \in {"received", "accepted", "stored", "reporting"} \/ h.heard)
       => h.batch # <<>>
  /\ (h.stage \in {"stored", "reporting", "upserting"} \/ h.ok)
       => Ids(h.batch) \subseteq decided

\* More records, and more decisions, leave a request sound.
LEMMA SoundStays ==
  ASSUME NEW h, NEW made \in Nat, NEW more \in Nat, made <= more, NEW top,
         NEW decided, NEW later, decided \subseteq later, Sound(h, made, decided, top)
  PROVE  Sound(h, more, later, top)
<1>1. \A n \in 1..made : n \in 1..more
  OBVIOUS
<1>2. WereMade(h.batch, more, top)
  BY <1>1 DEF Sound, WereMade
<1> QED
  BY <1>2 DEF Sound

\* The records a request shows have numbers that were given.
LEMMA MadeIds ==
  ASSUME NEW r, NEW made, NEW top, WereMade(r, made, top)
  PROVE  Ids(r) \subseteq 1..made
BY DEF Ids, WereMade

\* The ends of a batch that is not empty.
LEMMA BatchEnds ==
  ASSUME NEW h, NEW made, NEW top, NEW decided, Sound(h, made, decided, top), h.batch # <<>>
  PROVE  /\ Len(h.batch) \in 1..BatchSize
         /\ h.batch[1].at \in 0..top
         /\ Last(h.batch).at \in 0..top
<1>1. h.batch \in Seq(Record) /\ Len(h.batch) <= BatchSize /\ BatchSize \in Nat
  BY UplinkAssumption DEF Sound, Handler
<1>2. Len(h.batch) \in 1..BatchSize
  BY <1>1, EmptySeq
<1>3. 1 \in DOMAIN h.batch /\ Len(h.batch) \in DOMAIN h.batch
  BY <1>1, <1>2
<1> QED
  BY <1>2, <1>3 DEF Sound, WereMade, Last

\* A request that has got no further than it was, and only that.
LEMMA StageSound ==
  ASSUME NEW h, NEW made, NEW top, NEW decided, Sound(h, made, decided, top),
         NEW stage \in Stage,
         stage \in {"received", "accepted", "stored", "reporting"} => h.batch # <<>>,
         stage \in {"stored", "reporting", "upserting"} => Ids(h.batch) \subseteq decided
  PROVE  Sound([h EXCEPT !.stage = stage], made, decided, top)
<1> DEFINE g == [h EXCEPT !.stage = stage]
<1>1. /\ g \in Handler /\ g.stage = stage /\ g.batch = h.batch /\ g.ok = h.ok
      /\ g.heard = h.heard
  BY DEF Sound, Handler
<1> HIDE DEF g
<1>2. Sound(g, made, decided, top)
  BY <1>1 DEF Sound
<1> QED
  BY <1>2 DEF g

\* Nobody waits for the answer any more.
LEMMA UnheardSound ==
  ASSUME NEW h, NEW made, NEW top, NEW decided, Sound(h, made, decided, top)
  PROVE  Sound([h EXCEPT !.heard = FALSE], made, decided, top)
<1> DEFINE g == [h EXCEPT !.heard = FALSE]
<1>1. /\ g \in Handler /\ g.stage = h.stage /\ g.batch = h.batch /\ g.ok = h.ok
      /\ g.heard = FALSE
  BY DEF Sound, Handler
<1> HIDE DEF g
<1>2. Sound(g, made, decided, top)
  BY <1>1 DEF Sound
<1> QED
  BY <1>2 DEF g

\* A thread that serves nobody.
LEMMA FreeSound ==
  ASSUME NEW made, NEW top, NEW decided
  PROVE  Sound(Free, made, decided, top)
<1>1. <<>> \in Seq(Record) /\ Len(<<>>) = 0 /\ DOMAIN <<>> = {}
  BY EmptySeq
<1>2. Free \in Handler
  BY <1>1 DEF Free, Handler, Stage
<1> QED
  BY <1>1, <1>2, UplinkAssumption DEF Free, Sound, WereMade, Ids

---------------------------------------------------------------------------
(* The day's charge.  A request that has been accepted will be charged to  *)
(* the day its batch starts in; until then it is under way.                *)

UnderWay(hs, per, d) ==
  {s \in Slot : hs[s].stage \in {"accepted", "stored"} /\ hs[s].batch[1].at \div per = d}

Weight(h) == Len(h.batch)

\* One of the requests under way has seen room for itself and for a batch of
\* every other.
HasRoom(flying, hs, charged, limit) ==
  \E s \in flying :
    charged + Weight(hs[s]) + (Cardinality(flying) - 1) * BatchSize <= limit

Excess == (Cardinality(Slot) - 1) * BatchSize

Covered(flying, hs, charged, limit) == flying # {} => HasRoom(flying, hs, charged, limit)

\* Counting requests.
LEMMA FlyingFacts ==
  ASSUME NEW flying \in SUBSET Slot
  PROVE  /\ IsFiniteSet(flying)
         /\ Cardinality(flying) \in 0..Cardinality(Slot) /\ Cardinality(Slot) \in Nat \ {0}
         /\ flying # {} => Cardinality(flying) # 0
         /\ \A s \in flying : /\ Cardinality(flying \ {s}) = Cardinality(flying) - 1
                              /\ flying \ {s} # {} => Cardinality(flying) >= 2
<1>1. IsFiniteSet(Slot) /\ Slot # {}
  BY UplinkAssumption
<1>2. /\ IsFiniteSet(flying) /\ Cardinality(flying) <= Cardinality(Slot)
  BY <1>1, FS_Subset
<1>3. /\ Cardinality(flying) \in Nat /\ Cardinality(Slot) \in Nat
      /\ flying # {} => Cardinality(flying) # 0
      /\ Cardinality(Slot) # 0
  BY <1>1, <1>2, FS_CardinalityType, FS_EmptySet
<1>4. ASSUME NEW s \in flying
      PROVE  /\ Cardinality(flying \ {s}) = Cardinality(flying) - 1
             /\ flying \ {s} # {} => Cardinality(flying) >= 2
  <2>1. /\ IsFiniteSet(flying \ {s}) /\ Cardinality(flying \ {s}) = Cardinality(flying) - 1
    BY <1>2, FS_RemoveElement
  <2>2. /\ flying \ {s} # {} => Cardinality(flying \ {s}) # 0
        /\ Cardinality(flying \ {s}) \in Nat
    BY <2>1, FS_EmptySet, FS_CardinalityType
  <2> QED
    BY <1>3, <2>1, <2>2
<1> QED
  BY <1>2, <1>3, <1>4

\* Fewer batches weigh less.
LEMMA BatchesWeigh ==
  /\ BatchSize \in Nat \ {0}
  /\ \A m, n \in Int : m <= n => m * BatchSize <= n * BatchSize
  /\ \A n \in Int : n * BatchSize \in Int /\ n * BatchSize = (n - 1) * BatchSize + BatchSize
<1>1. BatchSize \in Nat \ {0}
  BY UplinkAssumption
<1> QED
  BY <1>1

\* A request that reads the counter and finds room speaks for all.
LEMMA TakeOffCovered ==
  ASSUME NEW flying \in SUBSET Slot, NEW hs, NEW s \in flying, NEW charged \in Nat,
         NEW budget \in Nat, Weight(hs[s]) \in Nat, charged + Weight(hs[s]) <= budget
  PROVE  HasRoom(flying, hs, charged, budget + Excess)
<1>1. Cardinality(flying) - 1 <= Cardinality(Slot) - 1 /\ Cardinality(flying) \in Int /\ Cardinality(Slot) \in Int
  BY FlyingFacts
<1>2. (Cardinality(flying) - 1) * BatchSize <= Excess
  BY <1>1, BatchesWeigh DEF Excess
<1> DEFINE m == (Cardinality(flying) - 1) * BatchSize
<1>3. m \in Int /\ Excess \in Int /\ m <= Excess
  BY <1>1, <1>2, BatchesWeigh DEF Excess
<1> HIDE DEF m
<1>4. charged + Weight(hs[s]) + m <= budget + Excess
  BY <1>3
<1> QED
  BY <1>4 DEF HasRoom, m

\* A request that is charged leaves room for the others, and what is charged
\* then is within the limit.
LEMMA LandingCovered ==
  ASSUME NEW flying \in SUBSET Slot, NEW hs, NEW gs, NEW s \in flying, NEW charged \in Nat,
         NEW limit \in Int, HasRoom(flying, hs, charged, limit),
         \A t \in flying : Weight(hs[t]) \in 1..BatchSize /\ Weight(gs[t]) = Weight(hs[t])
  PROVE  /\ charged + Weight(hs[s]) <= limit
         /\ Covered(flying \ {s}, gs, charged + Weight(hs[s]), limit)
<1> DEFINE n == Cardinality(flying)
<1>1. PICK w \in flying : charged + Weight(hs[w]) + (n - 1) * BatchSize <= limit
  BY DEF HasRoom
<1>2. n \in Nat \ {0} /\ (flying \ {s} # {} => n >= 2) /\ Cardinality(flying \ {s}) = n - 1
  BY FlyingFacts
<1> HIDE DEF n
<1> DEFINE p == (n - 1) * BatchSize
           q == (n - 2) * BatchSize
<1>3. /\ p \in Int /\ q \in Int /\ p = q + BatchSize /\ BatchSize \in Nat
      /\ n >= 2 => q >= 0
      /\ p >= 0
  <2>1. n - 1 \in Int /\ n - 2 \in Int /\ n - 1 - 1 = n - 2 /\ 0 * BatchSize = 0 /\ 0 <= n - 1
    BY <1>2, BatchesWeigh
  <2>2. p \in Int /\ q \in Int /\ p = q + BatchSize /\ BatchSize \in Nat
    BY <2>1, BatchesWeigh
  <2>3. p >= 0 * BatchSize
    BY <2>1, BatchesWeigh
  <2>4. n >= 2 => q >= 0 * BatchSize
    BY <1>2, <2>1, BatchesWeigh
  <2> HIDE DEF p, q
  <2> QED
    BY <2>1, <2>2, <2>3, <2>4
<1>4. charged + Weight(hs[w]) + p <= limit
  BY <1>1
<1> HIDE DEF p
<1>5. /\ Weight(hs[s]) \in 1..BatchSize /\ Weight(hs[w]) \in 1..BatchSize
  OBVIOUS
<1>6. w # s => n >= 2
  BY <1>2
<1> HIDE DEF q
<1>7. charged + Weight(hs[s]) <= limit
  <2>1. PICK a \in 1..BatchSize, b \in 1..BatchSize :
          a = Weight(hs[s]) /\ b = Weight(hs[w]) /\ (w = s => a = b)
    BY <1>5
  <2>2. CASE w = s
    BY <1>3, <1>4, <2>1, <2>2
  <2>3. CASE w # s
    <3>1. charged + b + q + BatchSize <= limit /\ q >= 0
      BY <1>3, <1>4, <1>6, <2>1, <2>3
    <3> QED
      BY <1>3, <2>1, <3>1
  <2> QED
    BY <2>2, <2>3
<1>8. ASSUME flying \ {s} # {}
      PROVE  HasRoom(flying \ {s}, gs, charged + Weight(hs[s]), limit)
  <2>1. PICK v \in flying \ {s} : w # s => v = w
    BY <1>8
  <2>2. /\ Weight(hs[v]) \in 1..BatchSize /\ Weight(gs[v]) = Weight(hs[v])
    OBVIOUS
  <2>3. charged + Weight(hs[s]) + Weight(gs[v]) + q <= limit
    <3>1. PICK a \in 1..BatchSize, b \in 1..BatchSize, c \in 1..BatchSize :
            /\ a = Weight(hs[s]) /\ b = Weight(hs[w]) /\ c = Weight(gs[v])
            /\ b \in {a, c}
      BY <1>5, <2>1, <2>2
    <3>2. charged + b + q + BatchSize <= limit
      BY <1>3, <1>4, <3>1
    <3>3. CASE b = a
      BY <1>3, <3>1, <3>2, <3>3
    <3>4. CASE b = c
      BY <1>3, <3>1, <3>2, <3>4
    <3> QED
      BY <3>1, <3>3, <3>4
  <2>4. Cardinality(flying \ {s}) - 1 = n - 2
    BY <1>2
  <2>5. charged + Weight(hs[s]) + Weight(gs[v]) + (Cardinality(flying \ {s}) - 1) * BatchSize <= limit
    BY <2>3, <2>4 DEF q
  <2> QED
    BY <2>5 DEF HasRoom
<1> QED
  BY <1>7, <1>8 DEF Covered

---------------------------------------------------------------------------
(* The inductive invariant *)

Decided == log.stored \cup log.refused

AgentState ==
  [pc : {"sampling", "flushing", "waiting", "persisting", "stopped"}, closing : BOOLEAN,
   clock : Nat, answered : Nat, dropped : Int, slot : Slot \cup {"none"}]

LogState ==
  [made : Nat, stored : SUBSET Nat, refused : SUBSET Nat, dropped : SUBSET Nat,
   boots : Nat, lost : Nat]

StateOK ==
  /\ setting \in Settings
  /\ agent \in AgentState /\ agent.clock <= MaxSamples
  /\ log \in LogState
  /\ bytes \in [{DayOf(at) : at \in Stamps} -> Nat]

BatchesOK ==
  /\ WereMade(spool, log.made, MaxSamples)
  /\ \A s \in Slot : Sound(handlers[s], log.made, Decided, MaxSamples)

ChargeOK ==
  \A d \in DOMAIN bytes :
    Covered(UnderWay(handlers, PerDay, d), handlers, bytes[d], Budget + Excess)

IInv ==
  TypeOK /\ StateOK /\ BatchesOK /\ NoneSlipsThrough /\ ChargeOK /\ BudgetOvershoot

\* The installation stays what it is.
LEMMA SameSetting ==
  ASSUME setting' = setting
  PROVE  /\ Budget' = Budget /\ MaxSamples' = MaxSamples /\ PerDay' = PerDay
         /\ Stamps' = Stamps /\ \A at : DayOf(at)' = DayOf(at)
BY DEF Budget, MaxSamples, PerDay, Stamps, DayOf

\* A device that has just been installed.
LEMMA InitEstablishes == Init => IInv
<1> SUFFICES ASSUME Init PROVE IInv
  OBVIOUS
<1>1. /\ MaxSamples \in Nat /\ Budget \in Nat
  BY SettingFacts DEF Init
<1>2. <<>> \in Seq(Record) /\ DOMAIN <<>> = {} /\ Ids(<<>>) = {}
  BY EmptySeq DEF Ids
<1>3. \A s \in Slot : handlers[s] = Free
  BY DEF Init
<1>4. TypeOK
  <2>1. \A s \in Slot : Free \in Handler /\ ~ Free.heard
    BY FreeSound DEF Sound, Free
  <2>2. handlers \in [Slot -> Handler]
    BY <2>1 DEF Init
  <2> QED
    BY <1>2, <1>3, <2>1, <2>2 DEF Init, TypeOK, FreshAgent
<1>5. StateOK
  BY <1>1 DEF Init, StateOK, FreshAgent, AgentState, LogState
<1>6. BatchesOK
  BY <1>2, <1>3, FreeSound DEF Init, BatchesOK, WereMade
<1>7. NoneSlipsThrough
  <2>1. 1..0 = {}
    OBVIOUS
  <2>2. log.made = 0 /\ spool = <<>> /\ log.stored = {} /\ log.refused = {} /\ log.dropped = {}
    BY DEF Init
  <2> QED
    BY <1>2, <2>1, <2>2 DEF NoneSlipsThrough
<1>8. \A d : UnderWay(handlers, PerDay, d) = {}
  BY <1>3 DEF UnderWay, Free
<1>9. ChargeOK
  BY <1>8 DEF ChargeOK, Covered
<1>10. BudgetOvershoot
  <2>1. Cardinality(Slot) - 1 \in Nat
    BY FlyingFacts
  <2>2. 0 * BatchSize = 0 /\ 0 * BatchSize <= (Cardinality(Slot) - 1) * BatchSize
    BY <2>1, BatchesWeigh
  <2>3. \A d \in DOMAIN bytes : bytes[d] = 0
    BY DEF Init
  <2> DEFINE x == (Cardinality(Slot) - 1) * BatchSize
  <2>4. x \in Int /\ x >= 0
    BY <2>1, <2>2, BatchesWeigh
  <2> HIDE DEF x
  <2>5. 0 <= Budget + x
    BY <1>1, <2>4
  <2> QED
    BY <2>3, <2>5 DEF BudgetOvershoot, x
<1> QED
  BY <1>4, <1>5, <1>6, <1>7, <1>9, <1>10 DEF IInv

\* A step that charges nothing, and after which the same requests are under
\* way with the same batches.
LEMMA ChargeStays ==
  ASSUME IInv, setting' = setting, bytes' = bytes,
         \A s \in Slot :
           LET h == handlers[s]
               g == handlers'[s]
           IN  /\ h.stage \in {"accepted", "stored"} <=> g.stage \in {"accepted", "stored"}
               /\ h.stage \in {"accepted", "stored"} => g.batch = h.batch
  PROVE  ChargeOK' /\ BudgetOvershoot'
<1>1. ASSUME NEW d PROVE UnderWay(handlers', PerDay, d) = UnderWay(handlers, PerDay, d)
  BY DEF UnderWay
<1>2. ASSUME NEW d, NEW s \in UnderWay(handlers, PerDay, d) PROVE Weight(handlers'[s]) = Weight(handlers[s])
  BY DEF UnderWay, Weight
<1>3. ASSUME NEW d \in DOMAIN bytes
      PROVE  Covered(UnderWay(handlers', PerDay, d), handlers', bytes[d], Budget + Excess)
  BY <1>1, <1>2 DEF IInv, ChargeOK, Covered, HasRoom
<1>4. ChargeOK'
  BY <1>3, SameSetting DEF ChargeOK
<1>5. BudgetOvershoot'
  BY SameSetting DEF BudgetOvershoot, IInv
<1> QED
  BY <1>4, <1>5

\* A step of the server: the agent notices nothing, and what it decides it
\* decides about records that were made.
LEMMA ServerKeeps ==
  ASSUME IInv, NEW s \in Slot, NEW h, handlers' = [handlers EXCEPT ![s] = h],
         UNCHANGED <<agentVars, setting>>,
         h.heard => handlers[s].heard /\ h.batch = handlers[s].batch,
         log' \in LogState, log'.made = log.made, log'.dropped = log.dropped,
         Decided \subseteq Decided', Decided' \subseteq Decided \cup 1..log.made,
         bytes' \in [DOMAIN bytes -> Nat],
         Sound(h, log.made, Decided', MaxSamples)
  PROVE  TypeOK' /\ StateOK' /\ BatchesOK' /\ NoneSlipsThrough'
<1>1. /\ spool' = spool /\ agent' = agent /\ saved' = saved /\ setting' = setting
  BY DEF agentVars
<1>2. /\ handlers \in [Slot -> Handler] /\ handlers' \in [Slot -> Handler]
      /\ handlers'[s] = h /\ \A t \in Slot \ {s} : handlers'[t] = handlers[t]
  BY DEF IInv, TypeOK, Sound
<1>3. ASSUME NEW t \in Slot, handlers'[t].heard
      PROVE  agent.pc = "waiting" /\ agent.slot = t /\ handlers'[t].batch = TakeBatch(spool)
  BY <1>2, <1>3 DEF IInv, TypeOK
<1>4. TypeOK'
  BY <1>1, <1>2, <1>3 DEF IInv, TypeOK, TakeBatch
<1>5. StateOK'
  BY <1>1, SameSetting DEF IInv, StateOK
<1>6. \A t \in Slot : Sound(handlers'[t], log.made, Decided', MaxSamples)
  <2>1. log.made \in Nat
    BY DEF IInv, StateOK, LogState
  <2>2. \A t \in Slot \ {s} : Sound(handlers[t], log.made, Decided', MaxSamples)
    BY <2>1, SoundStays DEF IInv, BatchesOK
  <2> QED
    BY <1>2, <2>2
<1>7. BatchesOK'
  BY <1>1, <1>6, SameSetting DEF IInv, BatchesOK
<1>8. NoneSlipsThrough'
  BY <1>1 DEF IInv, NoneSlipsThrough, Decided, Ids
<1> QED
  BY <1>4, <1>5, <1>7, <1>8

---------------------------------------------------------------------------
(* The server's steps *)

\* What a request looks like that is in the server.
LEMMA RequestFacts ==
  ASSUME IInv, NEW s \in Slot
  PROVE  /\ handlers[s] \in Handler /\ handlers \in [Slot -> Handler]
         /\ Sound(handlers[s], log.made, Decided, MaxSamples)
         /\ Ids(handlers[s].batch) \subseteq 1..log.made
         /\ log \in LogState /\ log.made \in Nat
         /\ bytes \in [DOMAIN bytes -> Nat]
         /\ Decided \subseteq Nat /\ 1..log.made \subseteq Nat
BY MadeIds DEF IInv, TypeOK, StateOK, BatchesOK, Sound, LogState, Decided

\* A step of one request that decides nothing and charges nothing.
LEMMA QuietKeeps ==
  ASSUME IInv, NEW s \in Slot, NEW h, handlers' = [handlers EXCEPT ![s] = h],
         UNCHANGED <<agentVars, setting, bytes, log>>,
         Sound(h, log.made, Decided, MaxSamples),
         h.heard => handlers[s].heard /\ h.batch = handlers[s].batch,
         handlers[s].stage \in {"accepted", "stored"} <=> h.stage \in {"accepted", "stored"},
         handlers[s].stage \in {"accepted", "stored"} => h.batch = handlers[s].batch
  PROVE  IInv'
<1>1. TypeOK' /\ StateOK' /\ BatchesOK' /\ NoneSlipsThrough'
  BY RequestFacts, ServerKeeps DEF Decided
<1>2. handlers'[s] = h /\ \A t \in Slot \ {s} : handlers'[t] = handlers[t]
  BY RequestFacts
<1>3. ChargeOK' /\ BudgetOvershoot'
  BY <1>2, ChargeStays
<1> QED
  BY <1>1, <1>3 DEF IInv

\* The policy is asked: the request that finds room speaks for its day.
LEMMA CheckKeeps == ASSUME IInv, NEW s \in Slot, Check(s) PROVE IInv'
<1> DEFINE batch == handlers[s].batch
           To(stage) == [handlers EXCEPT ![s] = [handlers[s] EXCEPT !.stage = stage]]
<1>1. /\ handlers[s].stage = "received" /\ batch # <<>>
      /\ UNCHANGED <<agentVars, cloudVars>>
  BY RequestFacts DEF Check, Sound
<1>2. UNCHANGED <<agentVars, setting, bytes>>
  BY <1>1 DEF cloudVars
<1>3. CASE handlers' = To("answering") /\ UNCHANGED log
  <2> DEFINE h == [handlers[s] EXCEPT !.stage = "answering"]
  <2>1. /\ h.stage = "answering" /\ h.batch = batch /\ h.heard = handlers[s].heard
    BY RequestFacts DEF Handler
  <2>2. Sound(h, log.made, Decided, MaxSamples)
    BY RequestFacts, StageSound DEF Stage
  <2>3. handlers' = [handlers EXCEPT ![s] = h]
    BY <1>3
  <2> HIDE DEF h
  <2> QED
    BY <1>1, <1>2, <1>3, <2>1, <2>2, <2>3, QuietKeeps
<1>4. CASE Accepts(batch) /\ handlers' = To("accepted") /\ UNCHANGED log
  <2> DEFINE h == [handlers[s] EXCEPT !.stage = "accepted"]
  <2>1. /\ h.stage = "accepted" /\ h.batch = batch /\ h.heard = handlers[s].heard
    BY RequestFacts DEF Handler
  <2>2. Sound(h, log.made, Decided, MaxSamples)
    BY <1>1, RequestFacts, StageSound DEF Stage
  <2>3. handlers' = [handlers EXCEPT ![s] = h]
    BY <1>4
  <2> HIDE DEF h
  <2>4. TypeOK' /\ StateOK' /\ BatchesOK' /\ NoneSlipsThrough'
    BY <1>2, <1>4, <2>1, <2>2, <2>3, RequestFacts, ServerKeeps DEF Decided
  <2>5. handlers'[s] = h /\ \A t \in Slot \ {s} : handlers'[t] = handlers[t]
    BY <2>3, RequestFacts
  <2>6. /\ Weight(h) \in Nat /\ batch[1].at \in 0..MaxSamples
    BY <1>1, <2>1, RequestFacts, BatchEnds DEF Weight
  <2>7. ASSUME NEW d \in DOMAIN bytes
        PROVE  Covered(UnderWay(handlers', PerDay, d), handlers', bytes[d], Budget + Excess)
    <3>1. CASE batch[1].at \div PerDay = d
      <4>1. s \in UnderWay(handlers', PerDay, d)
        BY <2>1, <2>5, <3>1 DEF UnderWay
      <4>2. bytes[d] + Weight(handlers'[s]) <= Budget
        BY <1>4, <2>1, <2>5, <3>1 DEF Accepts, DayOf, Weight
      <4>3. bytes[d] \in Nat /\ Budget \in Nat /\ Weight(handlers'[s]) \in Nat
        BY <2>5, <2>6, RequestFacts, SettingFacts DEF IInv, StateOK
      <4>4. UnderWay(handlers', PerDay, d) \in SUBSET Slot
        BY DEF UnderWay
      <4> QED
        BY <4>1, <4>2, <4>3, <4>4, TakeOffCovered DEF Covered
    <3>2. CASE batch[1].at \div PerDay # d
      <4>1. UnderWay(handlers', PerDay, d) = UnderWay(handlers, PerDay, d)
        BY <1>1, <2>1, <2>5, <3>2 DEF UnderWay
      <4>2. \A t \in UnderWay(handlers, PerDay, d) : handlers'[t] = handlers[t]
        BY <1>1, <2>5 DEF UnderWay
      <4> QED
        BY <4>1, <4>2 DEF IInv, ChargeOK, Covered, HasRoom
    <3> QED
      BY <3>1, <3>2
  <2>8. ChargeOK'
    BY <1>2, <2>7, SameSetting DEF ChargeOK
  <2>9. BudgetOvershoot'
    BY <1>2, SameSetting DEF IInv, BudgetOvershoot
  <2> QED
    BY <2>4, <2>8, <2>9 DEF IInv
<1>5. CASE handlers' = To("reporting") /\ log' = [log EXCEPT !.refused = @ \cup Ids(batch)]
  <2> DEFINE h == [handlers[s] EXCEPT !.stage = "reporting"]
  <2>1. /\ h.stage = "reporting" /\ h.batch = batch /\ h.heard = handlers[s].heard
    BY RequestFacts DEF Handler
  <2>2. /\ log' \in LogState /\ log'.made = log.made /\ log'.dropped = log.dropped
        /\ Decided' = Decided \cup Ids(batch)
    BY <1>5, RequestFacts DEF LogState, Decided
  <2>3. Sound(h, log.made, Decided', MaxSamples)
    <3>1. Sound(handlers[s], log.made, Decided', MaxSamples)
      BY <2>2, RequestFacts, SoundStays
    <3> QED
      BY <1>1, <2>2, <3>1, StageSound DEF Stage
  <2>4. handlers' = [handlers EXCEPT ![s] = h]
    BY <1>5
  <2> HIDE DEF h
  <2>5. TypeOK' /\ StateOK' /\ BatchesOK' /\ NoneSlipsThrough'
    BY <1>2, <2>1, <2>2, <2>3, <2>4, RequestFacts, ServerKeeps
  <2>6. handlers'[s] = h /\ \A t \in Slot \ {s} : handlers'[t] = handlers[t]
    BY <2>4, RequestFacts
  <2>7. ChargeOK' /\ BudgetOvershoot'
    BY <1>1, <1>2, <2>1, <2>6, ChargeStays
  <2> QED
    BY <2>5, <2>7 DEF IInv
<1> QED
  <2>1. \A stage : [handlers EXCEPT ![s].stage = stage] = To(stage)
    OBVIOUS
  <2> QED
    BY <1>3, <1>4, <1>5, <2>1 DEF Check

\* The object is written: the batch is decided about, and still to be charged.
LEMMA PutKeeps == ASSUME IInv, NEW s \in Slot, Put(s) PROVE IInv'
<1> DEFINE batch == handlers[s].batch
           h == [handlers[s] EXCEPT !.stage = "stored"]
<1>1. /\ handlers[s].stage = "accepted" /\ batch # <<>>
      /\ handlers' = [handlers EXCEPT ![s] = h]
      /\ log' = [log EXCEPT !.stored = @ \cup Ids(batch)]
      /\ UNCHANGED <<agentVars, setting, bytes>>
  BY RequestFacts DEF Put, Sound
<1>2. /\ h.stage = "stored" /\ h.batch = batch /\ h.heard = handlers[s].heard
  BY RequestFacts DEF Handler
<1>3. /\ log' \in LogState /\ log'.made = log.made /\ log'.dropped = log.dropped
      /\ Decided' = Decided \cup Ids(batch)
  BY <1>1, RequestFacts DEF LogState, Decided
<1>4. Sound(h, log.made, Decided', MaxSamples)
  <2>1. Sound(handlers[s], log.made, Decided', MaxSamples)
    BY <1>3, RequestFacts, SoundStays
  <2> QED
    BY <1>1, <1>3, <2>1, StageSound DEF Stage
<1> HIDE DEF h
<1>5. TypeOK' /\ StateOK' /\ BatchesOK' /\ NoneSlipsThrough'
  BY <1>1, <1>2, <1>3, <1>4, RequestFacts, ServerKeeps
<1>6. handlers'[s] = h /\ \A t \in Slot \ {s} : handlers'[t] = handlers[t]
  BY <1>1, RequestFacts
<1>7. ChargeOK' /\ BudgetOvershoot'
  BY <1>1, <1>2, <1>6, ChargeStays
<1> QED
  BY <1>5, <1>7 DEF IInv

\* The counter is raised: what the day is charged stays within what was seen.
LEMMA CountKeeps == ASSUME IInv, NEW s \in Slot, Count(s) PROVE IInv'
<1> DEFINE batch == handlers[s].batch
           h == [handlers[s] EXCEPT !.stage = "reporting"]
           day == batch[1].at \div PerDay
<1>1. /\ handlers[s].stage = "stored" /\ batch # <<>> /\ Ids(batch) \subseteq Decided
      /\ handlers' = [handlers EXCEPT ![s] = h]
      /\ bytes' = [bytes EXCEPT ![day] = @ + Weight(handlers[s])]
      /\ UNCHANGED <<agentVars, setting, log>>
  BY RequestFacts DEF Count, Sound, DayOf, Weight
<1>2. /\ h.stage = "reporting" /\ h.batch = batch /\ h.heard = handlers[s].heard
  BY RequestFacts DEF Handler
<1>3. Sound(h, log.made, Decided, MaxSamples)
  BY <1>1, RequestFacts, StageSound DEF Stage
<1> HIDE DEF h
<1>4. ASSUME NEW t \in Slot, handlers[t].stage \in {"accepted", "stored"}
      PROVE  Weight(handlers[t]) \in 1..BatchSize
  BY <1>4, RequestFacts, BatchEnds DEF Weight, Sound
<1>5. bytes' \in [DOMAIN bytes -> Nat]
  <2>1. Weight(handlers[s]) \in Nat
    BY <1>1, <1>4
  <2>2. /\ \A d \in DOMAIN bytes : bytes[d] \in Nat
        /\ bytes' = [d \in DOMAIN bytes |-> IF d = day THEN bytes[d] + Weight(handlers[s]) ELSE bytes[d]]
    BY <1>1, RequestFacts
  <2> HIDE DEF day
  <2>3. \A d \in DOMAIN bytes : bytes[d] + Weight(handlers[s]) \in Nat
    BY <2>1, <2>2
  <2> QED
    BY <2>2, <2>3, Zenon
<1>6. TypeOK' /\ StateOK' /\ BatchesOK' /\ NoneSlipsThrough'
  BY <1>1, <1>2, <1>3, <1>5, RequestFacts, ServerKeeps DEF Decided
<1>7. handlers'[s] = h /\ \A t \in Slot \ {s} : handlers'[t] = handlers[t]
  BY <1>1, RequestFacts
<1>8. \A t \in Slot \ {s} : Weight(handlers'[t]) = Weight(handlers[t])
  BY <1>7
<1>9. ASSUME NEW d \in DOMAIN bytes
      PROVE  /\ Covered(UnderWay(handlers', PerDay, d), handlers', bytes'[d], Budget + Excess)
             /\ bytes'[d] <= Budget + Excess
  <2> DEFINE flying == UnderWay(handlers, PerDay, d)
  <2>1. flying \in SUBSET Slot /\ \A t \in flying : Weight(handlers[t]) \in 1..BatchSize
    BY <1>4 DEF UnderWay
  <2>2. bytes[d] \in Nat /\ bytes[d] <= Budget + Excess
    BY RequestFacts DEF IInv, BudgetOvershoot, Excess
  <2>3. Covered(flying, handlers, bytes[d], Budget + Excess)
    BY DEF IInv, ChargeOK
  <2>4. Budget + Excess \in Int
    <3>1. Cardinality(Slot) - 1 \in Int /\ Budget \in Nat
      BY FlyingFacts, SettingFacts DEF IInv, StateOK
    <3>2. Excess \in Int
      BY <3>1, BatchesWeigh DEF Excess
    <3> QED
      BY <3>1, <3>2
  <2>5. CASE d = day
    <3>1. s \in flying /\ bytes'[d] = bytes[d] + Weight(handlers[s])
      BY <1>1, <1>5, <2>5 DEF UnderWay
    <3>2. UnderWay(handlers', PerDay, d) = flying \ {s}
      BY <1>2, <1>7 DEF UnderWay
    <3>3. \A t \in flying \ {s} : Weight(handlers'[t]) = Weight(handlers[t])
      BY <1>8, <2>1
    <3>4. HasRoom(flying, handlers, bytes[d], Budget + Excess)
      BY <2>3, <3>1 DEF Covered
    <3>5. Weight(handlers'[s]) = Weight(handlers[s])
      BY <1>2, <1>7 DEF Weight
    <3>6. \A t \in flying : /\ Weight(handlers[t]) \in 1..BatchSize
                            /\ Weight(handlers'[t]) = Weight(handlers[t])
      BY <2>1, <3>3, <3>5
    <3> HIDE DEF flying
    <3>7. /\ bytes[d] + Weight(handlers[s]) <= Budget + Excess
          /\ Covered(flying \ {s}, handlers', bytes[d] + Weight(handlers[s]), Budget + Excess)
      BY <2>1, <2>2, <2>4, <3>1, <3>4, <3>6, LandingCovered
    <3> QED
      BY <3>1, <3>2, <3>7
  <2>6. CASE d # day
    <3>1. bytes'[d] = bytes[d]
      BY <1>1, <1>5, <2>6
    <3>2. UnderWay(handlers', PerDay, d) = flying /\ s \notin flying
      BY <1>2, <1>7, <2>6 DEF UnderWay
    <3>3. \A t \in flying : handlers'[t] = handlers[t]
      BY <1>7, <2>1, <3>2
    <3> QED
      BY <2>2, <2>3, <3>1, <3>2, <3>3 DEF Covered, HasRoom
  <2> QED
    BY <2>5, <2>6
<1>10. DOMAIN bytes' = DOMAIN bytes /\ setting' = setting
  BY <1>1, <1>5
<1>11. ChargeOK'
  BY <1>9, <1>10, SameSetting DEF ChargeOK
<1>12. BudgetOvershoot'
  BY <1>9, <1>10, SameSetting DEF BudgetOvershoot, Excess
<1> QED
  BY <1>6, <1>11, <1>12 DEF IInv

\* The device is reported with the end of the batch, or that is too old.
LEMMA ReportKeeps == ASSUME IInv, NEW s \in Slot, Report(s) PROVE IInv'
<1> DEFINE at == Last(handlers[s].batch).at
<1>1. /\ handlers[s].stage = "reporting" /\ handlers[s].batch # <<>>
      /\ Ids(handlers[s].batch) \subseteq Decided
      /\ UNCHANGED <<agentVars, setting, bytes, log>>
  BY RequestFacts DEF Report, Sound
<1>2. at \in Nat
  <2>1. MaxSamples \in Nat
    BY SettingFacts DEF IInv, StateOK
  <2> QED
    BY <1>1, <2>1, RequestFacts, BatchEnds
<1> HIDE DEF at
<1>3. CASE handlers' = [handlers EXCEPT ![s].stage = "upserting", ![s].seen = at]
  <2> DEFINE h == [handlers[s] EXCEPT !.stage = "upserting", !.seen = at]
  <2>1. /\ h \in Handler /\ h.stage = "upserting" /\ h.batch = handlers[s].batch
        /\ h.heard = handlers[s].heard /\ h.ok = handlers[s].ok
    BY <1>2, RequestFacts DEF Handler, Stage
  <2>2. handlers' = [handlers EXCEPT ![s] = h]
    BY <1>3, RequestFacts
  <2> HIDE DEF h
  <2>3. Sound(h, log.made, Decided, MaxSamples)
    BY <1>1, <2>1, RequestFacts DEF Sound
  <2> QED
    BY <1>1, <2>1, <2>2, <2>3, QuietKeeps
<1>4. CASE handlers' = [handlers EXCEPT ![s].stage = "answering"]
  <2> DEFINE h == [handlers[s] EXCEPT !.stage = "answering"]
  <2>1. /\ h.stage = "answering" /\ h.batch = handlers[s].batch /\ h.heard = handlers[s].heard
    BY RequestFacts DEF Handler
  <2>2. Sound(h, log.made, Decided, MaxSamples)
    BY RequestFacts, StageSound DEF Stage
  <2>3. handlers' = [handlers EXCEPT ![s] = h]
    BY <1>4
  <2> HIDE DEF h
  <2> QED
    BY <1>1, <2>1, <2>2, <2>3, QuietKeeps
<1> QED
  BY <1>3, <1>4 DEF Report, at

\* The registry's row is written: only now the answer is a success.
LEMMA UpsertKeeps == ASSUME IInv, NEW s \in Slot, Upsert(s) PROVE IInv'
<1> DEFINE h == [handlers[s] EXCEPT !.stage = "answering", !.ok = TRUE]
<1>1. /\ handlers[s].stage = "upserting" /\ Ids(handlers[s].batch) \subseteq Decided
      /\ UNCHANGED <<agentVars, setting, bytes, log>>
      /\ handlers' = [handlers EXCEPT ![s] = h]
  BY RequestFacts DEF Upsert, Sound
<1>2. /\ h \in Handler /\ h.stage = "answering" /\ h.batch = handlers[s].batch
      /\ h.heard = handlers[s].heard
  BY RequestFacts DEF Handler, Stage
<1> HIDE DEF h
<1>3. Sound(h, log.made, Decided, MaxSamples)
  BY <1>1, <1>2, RequestFacts DEF Sound
<1> QED
  BY <1>1, <1>2, <1>3, QuietKeeps

\* A thread is done with a request nobody waits for.
LEMMA ForgetKeeps == ASSUME IInv, NEW s \in Slot, Forget(s) PROVE IInv'
<1>1. /\ handlers[s].stage = "answering" /\ handlers' = [handlers EXCEPT ![s] = Free]
      /\ UNCHANGED <<agentVars, setting, bytes, log>>
  BY DEF Forget, cloudVars
<1>2. Free.heard = FALSE /\ Free.stage = "free"
  BY DEF Free
<1> QED
  BY <1>1, <1>2, FreeSound, QuietKeeps

\* Another use case reports the device.
LEMMA ReportElsewhereKeeps == ASSUME IInv, NEW s \in Slot, ReportElsewhere(s) PROVE IInv'
<1>1. PICK at \in OtherStamps :
        handlers' = [handlers EXCEPT ![s] = [Free EXCEPT !.stage = "upserting", !.seen = at]]
  BY DEF ReportElsewhere
<1> DEFINE h == [Free EXCEPT !.stage = "upserting", !.seen = at]
<1>2. /\ handlers[s].stage = "free" /\ UNCHANGED <<agentVars, setting, bytes, log>>
  BY DEF ReportElsewhere, Free
<1>3. at \in Nat
  BY SettingFacts DEF IInv, StateOK
<1>4. <<>> \in Seq(Record) /\ Len(<<>>) = 0 /\ DOMAIN <<>> = {}
  BY EmptySeq
<1>5. /\ h \in Handler /\ h.stage = "upserting" /\ h.batch = <<>> /\ h.heard = FALSE
      /\ h.ok = FALSE
  BY <1>3, <1>4 DEF Free, Handler, Stage
<1>6. handlers' = [handlers EXCEPT ![s] = h]
  BY <1>1
<1> HIDE DEF h
<1>7. Sound(h, log.made, Decided, MaxSamples)
  BY <1>4, <1>5, UplinkAssumption DEF Sound, WereMade, Ids
<1> QED
  BY <1>2, <1>5, <1>6, <1>7, QuietKeeps

---------------------------------------------------------------------------
(* The agent's steps *)

\* A step of the agent that leaves the spool and the requests alone.
LEMMA AgentKeeps ==
  ASSUME IInv, Withheld \/ Stop \/ FlushNothing \/ LoseRequest \/ Persist \/ Boot
  PROVE  IInv'
<1>1. /\ UNCHANGED <<spool, handlers, setting, bytes>>
      /\ agent.pc # "waiting"
  BY DEF Withheld, Stop, FlushNothing, LoseRequest, Persist, Boot, cloudVars
<1>2. /\ agent \in AgentState /\ agent.clock <= MaxSamples /\ log \in LogState /\ saved \in Nat
      /\ MaxSamples \in Nat
  BY SettingFacts DEF IInv, StateOK, TypeOK
<1>3. /\ agent' \in AgentState /\ agent'.clock <= MaxSamples
  <2>1. CASE Boot
    BY <1>2, <2>1 DEF Boot, FreshAgent, AgentState
  <2>2. CASE ~Boot
    BY <1>2, <2>2 DEF Withheld, Stop, FlushNothing, LoseRequest, Persist, AfterFlush, AgentState
  <2> QED
    BY <2>1, <2>2
<1>4. /\ log' \in LogState /\ log'.made = log.made /\ log'.stored = log.stored
      /\ log'.refused = log.refused /\ log'.dropped = log.dropped
  BY <1>2 DEF Withheld, Stop, FlushNothing, LoseRequest, Persist, Boot, LogState
<1>5. saved' \in Nat
  BY <1>2 DEF Withheld, Stop, FlushNothing, LoseRequest, Persist, Boot, AgentState
<1>6. \A s \in Slot : ~ handlers[s].heard
  BY <1>1 DEF IInv, TypeOK
<1>7. TypeOK'
  BY <1>1, <1>3, <1>5, <1>6 DEF IInv, TypeOK, AgentState
<1>8. StateOK'
  BY <1>1, <1>3, <1>4, SameSetting DEF IInv, StateOK
<1>9. BatchesOK' /\ NoneSlipsThrough'
  BY <1>1, <1>4, SameSetting DEF IInv, BatchesOK, NoneSlipsThrough, Decided, Ids
<1>10. ChargeOK' /\ BudgetOvershoot'
  BY <1>1, ChargeStays
<1> QED
  BY <1>7, <1>8, <1>9, <1>10 DEF IInv

\* A record is made and kept; what a full disk loses is known to be lost.
LEMMA AnsweredKeeps == ASSUME IInv, Answered PROVE IInv'
<1> DEFINE record == [id |-> log.made + 1, at |-> agent.clock + 1]
           grown == Append(spool, record)
<1>1. /\ UNCHANGED <<saved, handlers, setting, bytes>>
      /\ agent.pc = "sampling" /\ agent.clock < MaxSamples
      /\ spool' = Enforced(grown)
      /\ agent' = [agent EXCEPT
              !.clock = @ + 1,
              !.answered = @ + 1,
              !.dropped = @ + Len(grown) - Len(Enforced(grown)),
              !.pc = IF FlushDue(agent.answered + 1) THEN "flushing" ELSE @]
      /\ log' = [log EXCEPT
              !.made = @ + 1,
              !.dropped = @ \cup (Ids(grown) \ Ids(Enforced(grown)))]
  BY DEF Answered, cloudVars
<1>2. /\ agent \in AgentState /\ agent.clock \in Nat /\ log \in LogState /\ log.made \in Nat
      /\ spool \in Seq(Record) /\ MaxSamples \in Nat /\ WereMade(spool, log.made, MaxSamples)
  BY SettingFacts DEF IInv, TypeOK, StateOK, BatchesOK, AgentState, LogState
<1>3. record \in Record /\ record.id = log.made + 1 /\ record.at \in 0..MaxSamples
  BY <1>1, <1>2 DEF Record
<1> HIDE DEF record
<1>4. /\ grown \in Seq(Record) /\ Len(grown) = Len(spool) + 1
      /\ Ids(grown) = Ids(spool) \cup {log.made + 1}
      /\ WereMade(grown, log.made + 1, MaxSamples)
  <2>1. /\ grown \in Seq(Record) /\ Len(grown) = Len(spool) + 1
        /\ Ids(grown) = Ids(spool) \cup {log.made + 1}
    BY <1>2, <1>3, AppendIds
  <2>2. /\ grown[Len(spool) + 1] = record /\ \A i \in 1..Len(spool) : grown[i] = spool[i]
    BY <1>2, <1>3, AppendProperties
  <2>3. DOMAIN grown = DOMAIN spool \cup {Len(spool) + 1} /\ DOMAIN spool = 1..Len(spool)
    BY <1>2, <2>1
  <2> HIDE DEF grown
  <2>4. log.made + 1 \in 1..(log.made + 1) /\ \A n \in 1..log.made : n \in 1..(log.made + 1)
    BY <1>2
  <2> QED
    BY <1>2, <1>3, <2>1, <2>2, <2>3, <2>4, Zenon DEF WereMade
<1> HIDE DEF grown
<1>5. PICK k \in 0..Len(grown) : Enforced(grown) = Committed(grown, k)
  BY <1>4, EnforcedFacts
<1>6. /\ spool' \in Seq(Record) /\ Len(spool') \in Nat /\ Len(grown) \in Nat
      /\ Ids(spool') \subseteq Ids(grown)
      /\ WereMade(spool', log.made + 1, MaxSamples)
  BY <1>1, <1>4, <1>5, CommittedFacts, CommittedIds, CommittedMade
<1>7. agent' \in AgentState /\ agent'.clock <= MaxSamples /\ agent'.pc # "waiting"
  <2>1. agent.dropped \in Int
    BY <1>2 DEF AgentState
  <2>2. PICK n \in Int : n = agent.dropped + Len(grown) - Len(spool')
    BY <1>6, <2>1
  <2>3. PICK c \in Nat, m \in Nat : c = agent.clock + 1 /\ m = agent.answered + 1
    BY <1>2 DEF AgentState
  <2>4. PICK pc \in {"sampling", "flushing"} :
          agent' = [agent EXCEPT !.clock = c, !.answered = m, !.dropped = n, !.pc = pc]
    BY <1>1, <2>2, <2>3
  <2>5. agent \in AgentState
    BY <1>2
  <2>6. agent' \in AgentState /\ agent'.clock = c /\ agent'.pc = pc
    BY <2>4, <2>5 DEF AgentState
  <2> QED
    BY <1>1, <1>2, <2>3, <2>6
<1>8. /\ log'.made = log.made + 1 /\ log'.stored = log.stored /\ log'.refused = log.refused
      /\ log'.dropped = log.dropped \cup (Ids(grown) \ Ids(spool'))
  BY <1>1, <1>2 DEF LogState
<1>9. 1..(log.made + 1) = 1..log.made \cup {log.made + 1} /\ 1..(log.made + 1) \subseteq Nat
  BY <1>2
<1>10. NoneSlipsThrough'
  BY <1>4, <1>6, <1>8, <1>9 DEF IInv, NoneSlipsThrough
<1>11. log' \in LogState
  <2>1. Ids(grown) \subseteq Nat
    BY <1>2, <1>4, <1>9, MadeIds
  <2>2. log.dropped \in SUBSET Nat
    BY <1>2 DEF LogState
  <2>3. PICK gone \in SUBSET Nat : gone = log.dropped \cup (Ids(grown) \ Ids(spool'))
    BY <2>1, <2>2, Zenon
  <2>4. PICK m \in Nat : m = log.made + 1
    BY <1>2
  <2>5. log' = [log EXCEPT !.made = m, !.dropped = gone] /\ log \in LogState
    BY <1>1, <1>2, <2>3, <2>4
  <2> QED
    BY <2>5 DEF LogState
<1>12. \A s \in Slot : ~ handlers[s].heard
  BY <1>1 DEF IInv, TypeOK
<1>13. TypeOK'
  BY <1>1, <1>6, <1>7, <1>12 DEF IInv, TypeOK, AgentState
<1>14. StateOK'
  BY <1>1, <1>7, <1>11, SameSetting DEF IInv, StateOK
<1>15. BatchesOK'
  <2>1. \A s \in Slot : Sound(handlers[s], log.made + 1, Decided, MaxSamples)
    BY <1>2, SoundStays DEF IInv, BatchesOK
  <2> QED
    BY <1>1, <1>6, <1>8, <2>1, SameSetting DEF BatchesOK, Decided
<1>16. ChargeOK' /\ BudgetOvershoot'
  BY <1>1, ChargeStays
<1> QED
  BY <1>10, <1>13, <1>14, <1>15, <1>16 DEF IInv

\* A step of the agent that changes who waits for what, and the spool at most
\* by the records that have been decided about.
LEMMA WaitingKeeps ==
  ASSUME IInv, UNCHANGED <<saved, setting, bytes>>,
         handlers' \in [Slot -> Handler],
         agent' \in AgentState, agent'.clock = agent.clock,
         log' \in LogState, log'.made = log.made, log'.stored = log.stored,
         log'.refused = log.refused, log'.dropped = log.dropped,
         NEW n \in 0..Len(spool), spool' = Committed(spool, n),
         \A i \in 1..n : spool[i].id \in Decided,
         \A s \in Slot : Sound(handlers'[s], log.made, Decided, MaxSamples),
         \A s \in Slot : handlers'[s].heard =>
           /\ agent'.pc = "waiting" /\ agent'.slot = s
           /\ handlers'[s].batch = TakeBatch(spool) /\ n = 0,
         \A s \in Slot :
           LET h == handlers[s]
               g == handlers'[s]
           IN  /\ h.stage \in {"accepted", "stored"} <=> g.stage \in {"accepted", "stored"}
               /\ h.stage \in {"accepted", "stored"} => g.batch = h.batch
  PROVE  IInv'
<1>1. /\ spool \in Seq(Record) /\ Len(spool) \in Nat /\ DOMAIN spool = 1..Len(spool)
      /\ WereMade(spool, log.made, MaxSamples)
  BY DEF IInv, TypeOK, BatchesOK
<1>2. /\ spool' \in Seq(Record) /\ Ids(spool') \subseteq Ids(spool)
  BY <1>1, CommittedFacts, CommittedIds
<1>3. WereMade(spool', log.made, MaxSamples)
  BY <1>1, CommittedMade
<1>4. n = 0 => spool' = spool
  <2>1. \A S : \A q \in Seq(S) : SubSeq(q, 1, Len(q)) = q
    BY SubSeqFull
  <2> QED
    BY <1>1, <2>1 DEF Committed
<1>5. TypeOK'
  <2>1. \A s \in Slot : handlers'[s].heard => handlers'[s].batch = TakeBatch(spool')
    BY <1>4
  <2> QED
    BY <1>2, <2>1 DEF IInv, TypeOK, AgentState, TakeBatch
<1>6. StateOK'
  BY SameSetting DEF IInv, StateOK
<1>7. BatchesOK'
  BY <1>3, SameSetting DEF BatchesOK, Decided
<1>8. Ids(spool) \subseteq Ids(spool') \cup Decided
  BY <1>1, CommittedLeaves
<1>9. NoneSlipsThrough'
  BY <1>2, <1>8 DEF IInv, NoneSlipsThrough, Decided
<1>10. ChargeOK' /\ BudgetOvershoot'
  BY ChargeStays
<1> QED
  BY <1>5, <1>6, <1>7, <1>9, <1>10 DEF IInv

\* Nothing is taken from the spool.
LEMMA SpoolStays ==
  ASSUME IInv
  PROVE  /\ 0 \in 0..Len(spool) /\ spool = Committed(spool, 0) /\ 1..0 = {}
         /\ spool \in Seq(Record)
         /\ agent \in AgentState /\ log \in LogState
<1>1. spool \in Seq(Record) /\ Len(spool) \in Nat
  BY DEF IInv, TypeOK
<1>2. \A S : \A q \in Seq(S) : SubSeq(q, 1, Len(q)) = q
  BY SubSeqFull
<1>3. spool = Committed(spool, 0)
  BY <1>1, <1>2 DEF Committed
<1> QED
  BY <1>1, <1>3 DEF IInv, StateOK

\* The head of the spool goes into a request, and the agent waits.
LEMMA SendKeeps == ASSUME IInv, NEW s \in Slot, Send(s) PROVE IInv'
<1> DEFINE b == TakeBatch(spool)
           h == [Free EXCEPT !.stage = "received", !.batch = b, !.heard = TRUE]
<1>1. /\ agent.pc = "flushing" /\ spool # <<>> /\ handlers[s] = Free
      /\ handlers' = [handlers EXCEPT ![s] = h]
      /\ agent' = [agent EXCEPT !.pc = "waiting", !.slot = s]
      /\ UNCHANGED <<spool, saved, setting, bytes, log>>
  BY DEF Send, cloudVars
<1>2. /\ b \in Seq(Record) /\ b # <<>> /\ Len(b) <= BatchSize
      /\ \A i \in 1..Len(b) : i \in 1..Len(spool) /\ b[i] = spool[i]
  <2>1. spool \in Seq(Record)
    BY SpoolStays
  <2>2. /\ b \in Seq(Record) /\ b # <<>> /\ Len(b) <= BatchSize /\ Len(b) \in 0..Len(spool)
        /\ \A i \in 1..Len(b) : b[i] = spool[i]
    BY <1>1, <2>1, TakeBatchFacts
  <2> HIDE DEF b
  <2>3. \A i \in 1..Len(b) : i \in 1..Len(spool)
    BY <2>1, <2>2
  <2> QED
    BY <2>2, <2>3
<1> HIDE DEF b
<1>3. /\ h \in Handler /\ h.stage = "received" /\ h.batch = b /\ h.heard = TRUE /\ h.ok = FALSE
  BY <1>2 DEF Free, Handler, Stage
<1> HIDE DEF h
<1>4. WereMade(b, log.made, MaxSamples)
  <2>1. WereMade(spool, log.made, MaxSamples) /\ DOMAIN spool = 1..Len(spool) /\ DOMAIN b = 1..Len(b)
    BY <1>2, SpoolStays DEF IInv, BatchesOK
  <2> QED
    BY <1>2, <2>1, Zenon DEF WereMade
<1>5. Sound(h, log.made, Decided, MaxSamples)
  BY <1>2, <1>3, <1>4 DEF Sound
<1>6. /\ handlers' \in [Slot -> Handler] /\ handlers'[s] = h
      /\ \A t \in Slot \ {s} : handlers'[t] = handlers[t] /\ ~ handlers[t].heard
  BY <1>1, <1>3 DEF IInv, TypeOK
<1>7. /\ agent' \in AgentState /\ agent'.clock = agent.clock /\ agent'.pc = "waiting"
      /\ agent'.slot = s
  BY <1>1, SpoolStays DEF AgentState
<1>8. \A t \in Slot : Sound(handlers'[t], log.made, Decided, MaxSamples)
  BY <1>5, <1>6 DEF IInv, BatchesOK
<1>9. \A t \in Slot : handlers'[t].heard =>
        agent'.pc = "waiting" /\ agent'.slot = t /\ handlers'[t].batch = TakeBatch(spool)
  BY <1>3, <1>6, <1>7 DEF b
<1>10. handlers[s].stage = "free"
  BY <1>1 DEF Free
<1> QED
  BY <1>1, <1>3, <1>6, <1>7, <1>8, <1>9, <1>10, SpoolStays, WaitingKeeps

\* The agent gives up on the request, or loses its power; the request goes on.
LEMMA LeavingKeeps == ASSUME IInv, GiveUp \/ Crash PROVE IInv'
<1> DEFINE Left(s) == [handlers[s] EXCEPT !.heard = FALSE]
<1>1. \A s \in Slot :
        /\ handlers[s] \in Handler /\ Sound(handlers[s], log.made, Decided, MaxSamples)
        /\ handlers[s].heard => agent.slot = s
  BY RequestFacts DEF IInv, TypeOK
<1>2. ASSUME NEW s \in Slot
      PROVE  /\ Left(s) \in Handler /\ Sound(Left(s), log.made, Decided, MaxSamples)
             /\ Left(s).stage = handlers[s].stage /\ Left(s).batch = handlers[s].batch
             /\ ~ Left(s).heard
  <2>1. Sound(Left(s), log.made, Decided, MaxSamples)
    BY <1>1, UnheardSound
  <2> QED
    BY <1>1, <2>1 DEF Handler, Sound
<1>3. /\ handlers' \in [Slot -> Handler]
      /\ \A s \in Slot : /\ handlers'[s] \in {handlers[s], Left(s)}
                         /\ ~ handlers'[s].heard
  <2>1. CASE GiveUp
    <3>1. handlers' = [handlers EXCEPT ![agent.slot] = [handlers[agent.slot] EXCEPT !.heard = FALSE]]
      BY <2>1 DEF GiveUp
    <3>2. \A s \in Slot : handlers'[s] = IF s = agent.slot THEN Left(s) ELSE handlers[s]
      BY <3>1, RequestFacts
    <3>3. \A s \in Slot : handlers'[s] \in {handlers[s], Left(s)} /\ ~ handlers'[s].heard
      <4> HIDE DEF Left
      <4> QED
        BY <1>1, <1>2, <3>2
    <3>4. handlers' = [s \in Slot |-> handlers'[s]]
      BY <3>1, RequestFacts DEF IInv, TypeOK
    <3>5. \A s \in Slot : handlers'[s] \in Handler
      <4> HIDE DEF Left
      <4> QED
        BY <1>1, <1>2, <3>2
    <3> QED
      BY <3>3, <3>4, <3>5
  <2>2. CASE Crash
    <3>1. handlers' = [s \in Slot |-> IF handlers[s].heard THEN Left(s) ELSE handlers[s]]
      BY <2>2 DEF Crash
    <3> HIDE DEF Left
    <3> QED
      BY <1>1, <1>2, <3>1
  <2> QED
    BY <2>1, <2>2
<1> HIDE DEF Left
<1>4. \A s \in Slot : /\ Sound(handlers'[s], log.made, Decided, MaxSamples)
                      /\ handlers'[s].stage = handlers[s].stage /\ handlers'[s].batch = handlers[s].batch
  BY <1>1, <1>2, <1>3
<1>5. /\ UNCHANGED <<spool, saved, setting, bytes>>
  BY DEF GiveUp, Crash, cloudVars
<1>6. /\ agent' \in AgentState /\ agent'.clock = agent.clock
  BY SpoolStays DEF GiveUp, Crash, AfterFlush, AgentState
<1>7. /\ log' \in LogState /\ log'.made = log.made /\ log'.stored = log.stored
      /\ log'.refused = log.refused /\ log'.dropped = log.dropped
  BY SpoolStays DEF GiveUp, Crash, LogState
<1> QED
  BY <1>3, <1>4, <1>5, <1>6, <1>7, SpoolStays, WaitingKeeps

\* The answer: the batch goes only when it has been decided about.
LEMMA HearKeeps == ASSUME IInv, NEW s \in Slot, Hear(s) PROVE IInv'
<1> DEFINE b == handlers[s].batch
<1>1. /\ handlers[s].stage = "answering" /\ handlers[s].heard
      /\ spool' = IF handlers[s].ok THEN Committed(spool, Len(b)) ELSE spool
      /\ agent' = [agent EXCEPT !.pc = AfterFlush, !.slot = "none"]
      /\ handlers' = [handlers EXCEPT ![s] = Free]
      /\ UNCHANGED <<saved, setting, bytes, log>>
  BY DEF Hear, cloudVars
<1>2. b = TakeBatch(spool) /\ agent.slot = s
  BY <1>1 DEF IInv, TypeOK
<1>3. /\ b \in Seq(Record) /\ Len(b) \in 0..Len(spool)
      /\ \A i \in 1..Len(b) : b[i] = spool[i]
  BY <1>2, SpoolStays, TakeBatchFacts
<1>4. handlers[s].ok => Ids(b) \subseteq Decided
  BY RequestFacts DEF Sound
<1> HIDE DEF b
<1>5. PICK n \in 0..Len(spool) :
        /\ spool' = Committed(spool, n)
        /\ \A i \in 1..n : spool[i].id \in Decided
  <2>1. CASE handlers[s].ok
    <3>1. \A i \in 1..Len(b) : b[i].id \in Ids(b)
      <4>1. DOMAIN b = 1..Len(b)
        BY <1>3
      <4> QED
        BY <4>1 DEF Ids
    <3> QED
      BY <1>1, <1>3, <1>4, <2>1, <3>1
  <2>2. CASE ~ handlers[s].ok
    BY <1>1, <2>2, SpoolStays
  <2> QED
    BY <2>1, <2>2
<1>6. /\ agent' \in AgentState /\ agent'.clock = agent.clock
  BY <1>1, SpoolStays DEF AfterFlush, AgentState
<1>7. Free \in Handler /\ Sound(Free, log.made, Decided, MaxSamples) /\ ~ Free.heard /\ Free.stage = "free"
  BY FreeSound DEF Sound, Free
<1>8. /\ handlers' \in [Slot -> Handler] /\ handlers'[s] = Free
      /\ \A t \in Slot \ {s} : handlers'[t] = handlers[t] /\ ~ handlers[t].heard
  BY <1>1, <1>2, <1>7 DEF IInv, TypeOK
<1>9. \A t \in Slot : Sound(handlers'[t], log.made, Decided, MaxSamples) /\ ~ handlers'[t].heard
  BY <1>7, <1>8 DEF IInv, BatchesOK
<1> QED
  BY <1>1, <1>5, <1>6, <1>7, <1>8, <1>9, SpoolStays, WaitingKeeps

\* Every step keeps the invariant.
LEMMA NextKeeps == ASSUME IInv, [Next]_vars PROVE IInv'
<1>1. CASE UNCHANGED vars
  BY <1>1 DEF vars, IInv, TypeOK, StateOK, BatchesOK, NoneSlipsThrough, ChargeOK,
     BudgetOvershoot, Decided, Budget, MaxSamples, PerDay, Stamps, DayOf, TakeBatch, Ids
<1>2. CASE Next
  BY <1>2, AgentKeeps, AnsweredKeeps, SendKeeps, LeavingKeeps, HearKeeps, CheckKeeps, PutKeeps,
     CountKeeps, ReportKeeps, UpsertKeeps, ForgetKeeps, ReportElsewhereKeeps DEF Next, Serve
<1> QED
  BY <1>1, <1>2

\* The inductive invariant of the way up.
THEOREM UplinkInvariant == Spec => []IInv
<1>1. Init => IInv
  BY InitEstablishes
<1>2. IInv /\ [Next]_vars => IInv'
  BY NextKeeps
<1> QED
  BY <1>1, <1>2, PTL DEF Spec

\* A waiting agent has its request in the server and shows it the head of the
\* spool as it still is (take_batch, send).
THEOREM UplinkTypes == Spec => []TypeOK
<1>1. IInv => TypeOK
  BY DEF IInv
<1> QED
  BY <1>1, UplinkInvariant, PTL

\* Every record made is on disk, stored, refused or dropped for space,
\* whatever is lost, late, repeated or cut off (take_batch, send, commit).
THEOREM NothingSlipsThrough == Spec => []NoneSlipsThrough
<1>1. IInv => NoneSlipsThrough
  BY DEF IInv
<1> QED
  BY <1>1, UplinkInvariant, PTL

\* A day is charged at most one batch above its budget for every other
\* request that can be in the server (uplink_bytes_today, record_uplink).
THEOREM OvershootIsBounded == Spec => []BudgetOvershoot
<1>1. IInv => BudgetOvershoot
  BY DEF IInv
<1> QED
  BY <1>1, UplinkInvariant, PTL

---------------------------------------------------------------------------
(* The spool is the buffer it promises to be: the refinement of            *)
(* StoreAndForward, step by step.                                          *)

QueueOf(records) == [i \in DOMAIN records |-> records[i].id]

\* The numbers of the records stand where the records stand.
LEMMA QueueFacts ==
  ASSUME NEW r \in Seq(Record)
  PROVE  /\ QueueOf(r) \in Seq(Nat) /\ Len(QueueOf(r)) = Len(r)
         /\ \A i \in 1..Len(r) : QueueOf(r)[i] = r[i].id
<1>1. /\ Len(r) \in Nat /\ DOMAIN r = 1..Len(r) /\ \A i \in 1..Len(r) : r[i].id \in Nat
  BY RecordFacts
<1>2. QueueOf(r) = [i \in 1..Len(r) |-> r[i].id]
  BY <1>1 DEF QueueOf
<1> QED
  BY <1>1, <1>2, IsASeq, LenProperties

\* Queues of the same length with the same numbers are the same.
LEMMA SameQueue ==
  ASSUME NEW q \in Seq(Nat), NEW p \in Seq(Nat), Len(q) = Len(p),
         \A i \in 1..Len(q) : q[i] = p[i]
  PROVE  q = p
BY SeqEqual

\* Looking at numbers only commutes with committing records.
LEMMA QueueCommitted ==
  ASSUME NEW r \in Seq(Record), NEW n \in 0..Len(r)
  PROVE  QueueOf(Committed(r, n)) = SubSeq(QueueOf(r), n + 1, Len(r))
<1> DEFINE c == Committed(r, n)
           q == QueueOf(r)
           d == SubSeq(q, n + 1, Len(r))
<1>1. /\ c \in Seq(Record) /\ Len(c) = Len(r) - n /\ n \in Nat /\ Len(r) \in Nat
      /\ \A i \in 1..Len(c) : c[i] = r[n + i]
  BY CommittedFacts
<1>2. /\ q \in Seq(Nat) /\ Len(q) = Len(r) /\ \A i \in 1..Len(r) : q[i] = r[i].id
  BY QueueFacts
<1> HIDE DEF c, q
<1>3. \A i \in n + 1 .. Len(r) : q[i] \in Nat
  BY <1>1, <1>2
<1>4. /\ d \in Seq(Nat)
      /\ Len(d) = IF n + 1 <= Len(r) THEN Len(r) - (n + 1) + 1 ELSE 0
      /\ \A i \in 1 .. Len(r) - (n + 1) + 1 : d[i] = q[n + 1 + i - 1]
  BY <1>1, <1>3, SubSeqProperties
<1>5. /\ Len(r) - (n + 1) + 1 = Len(c) /\ (n + 1 <= Len(r) \/ Len(c) = 0)
      /\ \A i \in 1..Len(c) : n + 1 + i - 1 = n + i /\ n + i \in 1..Len(r)
  BY <1>1
<1> HIDE DEF d
<1>6. /\ Len(d) = Len(c) /\ \A i \in 1..Len(c) : d[i] = r[n + i].id
  BY <1>2, <1>4, <1>5
<1>7. /\ QueueOf(c) \in Seq(Nat) /\ Len(QueueOf(c)) = Len(c)
      /\ \A i \in 1..Len(c) : QueueOf(c)[i] = r[n + i].id
  BY <1>1, QueueFacts
<1>8. QueueOf(c) = d
  BY <1>4, <1>6, <1>7, SameQueue
<1> QED
  BY <1>8 DEF c, q, d

\* And with keeping one more.
LEMMA QueueAppend ==
  ASSUME NEW r \in Seq(Record), NEW e \in Record
  PROVE  QueueOf(Append(r, e)) = Append(QueueOf(r), e.id)
<1> DEFINE g == Append(r, e)
           q == QueueOf(r)
           d == Append(q, e.id)
<1>1. /\ g \in Seq(Record) /\ Len(g) = Len(r) + 1 /\ Len(r) \in Nat
      /\ (\A i \in 1..Len(r) : g[i] = r[i]) /\ g[Len(r) + 1] = e
  BY AppendProperties
<1>2. /\ q \in Seq(Nat) /\ Len(q) = Len(r) /\ \A i \in 1..Len(r) : q[i] = r[i].id
  BY QueueFacts
<1> HIDE DEF g, q
<1>3. /\ d \in Seq(Nat) /\ Len(d) = Len(r) + 1
      /\ (\A i \in 1..Len(r) : d[i] = q[i]) /\ d[Len(r) + 1] = e.id
  BY <1>2, RecordFacts, AppendProperties
<1> HIDE DEF d
<1>4. /\ QueueOf(g) \in Seq(Nat) /\ Len(QueueOf(g)) = Len(g)
      /\ \A i \in 1..Len(g) : QueueOf(g)[i] = g[i].id
  BY <1>1, QueueFacts
<1>5. \A i \in 1..Len(g) : i \in 1..Len(r) \/ i = Len(r) + 1
  BY <1>1
<1>6. \A i \in 1..Len(g) : QueueOf(g)[i] = d[i]
  <2> TAKE i \in 1..Len(g)
  <2>1. CASE i \in 1..Len(r)
    BY <1>1, <1>2, <1>3, <1>4, <2>1, Zenon
  <2>2. CASE i = Len(r) + 1
    BY <1>1, <1>3, <1>4, <2>2, Zenon
  <2> QED
    BY <1>5, <2>1, <2>2
<1>7. QueueOf(g) = d
  BY <1>1, <1>3, <1>4, <1>6, SameQueue
<1> QED
  BY <1>7 DEF g, q, d

\* An answered window keeps a record.
LEMMA AnsweredIsKeep == ASSUME IInv, Answered PROVE Buffer!Keep
<1> DEFINE record == [id |-> log.made + 1, at |-> agent.clock + 1]
           grown == Append(spool, record)
           q == QueueOf(spool)
<1>1. /\ spool' = Enforced(grown)
      /\ log' = [log EXCEPT
              !.made = @ + 1,
              !.dropped = @ \cup (Ids(grown) \ Ids(Enforced(grown)))]
  BY DEF Answered
<1>2. /\ spool \in Seq(Record) /\ log \in LogState /\ log.made \in Nat
      /\ record \in Record /\ record.id = log.made + 1
  BY DEF IInv, TypeOK, StateOK, AgentState, LogState, Record
<1>3. /\ log'.made = log.made + 1 /\ log'.stored = log.stored /\ log'.refused = log.refused
  BY <1>1, <1>2 DEF LogState
<1> HIDE DEF record
<1>4. /\ grown \in Seq(Record) /\ grown # <<>>
      /\ QueueOf(grown) = Append(q, log.made + 1) /\ Len(QueueOf(grown)) = Len(grown)
  BY <1>2, AppendProperties, QueueAppend, QueueFacts
<1> HIDE DEF grown
<1>5. QueueOf(spool') = IF Len(grown) <= Capacity THEN QueueOf(grown)
                        ELSE SubSeq(QueueOf(grown), Len(grown) \div 2 + 1, Len(grown))
  <2>1. CASE Len(grown) <= Capacity
    BY <1>1, <2>1 DEF Enforced
  <2>2. CASE ~(Len(grown) <= Capacity)
    <3>1. Len(grown) \div 2 \in 0..Len(grown)
      BY <1>4
    <3>2. spool' = Committed(grown, Len(grown) \div 2)
      BY <1>1, <2>2 DEF Enforced, Committed
    <3> QED
      BY <1>4, <2>2, <3>1, <3>2, QueueCommitted
  <2> QED
    BY <2>1, <2>2
<1> HIDE DEF q
<1>6. q = [i \in DOMAIN spool |-> spool[i].id]
  BY DEF q, QueueOf
<1>7. QueueOf(spool') = [i \in DOMAIN spool' |-> spool'[i].id]
  BY DEF QueueOf
<1> QED
  BY <1>3, <1>4, <1>5, <1>6, <1>7 DEF Buffer!Keep

\* A refusal and a write to the lake are decisions.
LEMMA ServerDecides ==
  ASSUME IInv, NEW s \in Slot, Check(s) \/ Put(s)
  PROVE  Buffer!Next \/ UNCHANGED Buffer!vars
<1> DEFINE ids == Ids(handlers[s].batch)
<1>1. spool' = spool
  BY DEF Check, Put, agentVars
<1>2. /\ ids \in SUBSET (1..log.made) /\ log \in LogState
  BY RequestFacts
<1> HIDE DEF ids
<1>3. CASE log' = log
  BY <1>1, <1>3 DEF Buffer!vars
<1>4. CASE log' = [log EXCEPT !.refused = @ \cup ids]
  <2>1. /\ log'.made = log.made /\ log'.stored = log.stored /\ log'.refused = log.refused \cup ids
    BY <1>2, <1>4 DEF LogState
  <2> QED
    BY <1>1, <1>2, <2>1 DEF Buffer!Next, Buffer!Decide
<1>5. CASE log' = [log EXCEPT !.stored = @ \cup ids]
  <2>1. /\ log'.made = log.made /\ log'.refused = log.refused /\ log'.stored = log.stored \cup ids
    BY <1>2, <1>5 DEF LogState
  <2> QED
    BY <1>1, <1>2, <2>1 DEF Buffer!Next, Buffer!Decide
<1> QED
  BY <1>3, <1>4, <1>5 DEF Check, Put, ids

\* An answer that is a success forwards the batch.
LEMMA HearForwards ==
  ASSUME IInv, NEW s \in Slot, Hear(s)
  PROVE  Buffer!Next \/ UNCHANGED Buffer!vars
<1> DEFINE b == handlers[s].batch
           q == QueueOf(spool)
<1>1. /\ handlers[s].heard /\ log' = log
      /\ spool' = IF handlers[s].ok THEN Committed(spool, Len(b)) ELSE spool
  BY DEF Hear
<1>2. b = TakeBatch(spool) /\ b # <<>> /\ (handlers[s].ok => Ids(b) \subseteq Decided)
  BY <1>1, RequestFacts DEF IInv, TypeOK, Sound
<1>3. /\ b \in Seq(Record) /\ Len(b) \in 0..Len(spool) /\ Len(b) <= BatchSize
      /\ \A i \in 1..Len(b) : b[i] = spool[i]
  BY <1>2, SpoolStays, TakeBatchFacts
<1> HIDE DEF b
<1>4. CASE ~ handlers[s].ok
  BY <1>1, <1>4 DEF Buffer!vars
<1>5. CASE handlers[s].ok
  <2>1. Len(b) \in 1..BatchSize
    BY <1>2, <1>3, EmptySeq, UplinkAssumption
  <2>2. /\ q \in Seq(Nat) /\ Len(q) = Len(spool) /\ \A i \in 1..Len(spool) : q[i] = spool[i].id
    BY SpoolStays, QueueFacts
  <2> HIDE DEF q
  <2>3. ASSUME NEW i \in 1..Len(b) PROVE q[i] \in Decided
    <3>1. i \in DOMAIN b /\ i \in 1..Len(spool)
      BY <1>3
    <3>2. b[i].id \in Ids(b)
      BY <3>1 DEF Ids
    <3> QED
      BY <1>2, <1>3, <1>5, <2>2, <3>1, <3>2
  <2>4. QueueOf(spool') = SubSeq(q, Len(b) + 1, Len(q))
    BY <1>1, <1>3, <1>5, <2>2, SpoolStays, QueueCommitted DEF q
  <2>5. /\ q = [i \in DOMAIN spool |-> spool[i].id]
        /\ QueueOf(spool') = [i \in DOMAIN spool' |-> spool'[i].id]
    BY DEF q, QueueOf
  <2>6. Len(b) <= Len(q)
    BY <1>3, <2>2
  <2>7. Buffer!Forward
    BY <1>1, <2>1, <2>3, <2>4, <2>5, <2>6 DEF Buffer!Forward, Decided
  <2> QED
    BY <2>7 DEF Buffer!Next
<1> QED
  BY <1>4, <1>5

\* Everything else the buffer does not notice.
LEMMA OthersUnnoticed ==
  ASSUME IInv,
         \/ Withheld \/ Stop \/ FlushNothing \/ LoseRequest \/ GiveUp \/ Persist \/ Crash \/ Boot
         \/ \E s \in Slot : \/ Send(s) \/ Count(s) \/ Report(s) \/ Upsert(s) \/ Forget(s)
                            \/ ReportElsewhere(s)
  PROVE  UNCHANGED Buffer!vars
<1>1. spool' = spool
  BY DEF Withheld, Stop, FlushNothing, LoseRequest, GiveUp, Persist, Crash, Boot, Send, Count,
     Report, Upsert, Forget, ReportElsewhere, agentVars
<1>2. /\ log'.made = log.made /\ log'.stored = log.stored /\ log'.refused = log.refused
  BY SpoolStays DEF Withheld, Stop, FlushNothing, LoseRequest, GiveUp, Persist, Crash, Boot, Send,
     Count, Report, Upsert, Forget, ReportElsewhere, LogState
<1> QED
  BY <1>1, <1>2 DEF Buffer!vars

\* The spool on disk is a first-in first-out buffer from which records go at
\* the old end only, decided about or for want of space (store.py).
THEOREM SpoolIsBuffer == Spec => BufferSpec
<1>1. Init => Buffer!Init
  <2> SUFFICES ASSUME Init PROVE Buffer!Init
    OBVIOUS
  <2>1. spool = <<>> /\ log.made = 0 /\ log.stored = {} /\ log.refused = {}
    BY DEF Init
  <2>2. <<>> \in Seq(Record) /\ Len(<<>>) = 0
    BY EmptySeq
  <2>3. QueueOf(spool) \in Seq(Nat) /\ Len(QueueOf(spool)) = 0
    BY <2>1, <2>2, QueueFacts
  <2>4. QueueOf(spool) = <<>>
    BY <2>3, EmptySeq
  <2> QED
    BY <2>1, <2>4 DEF Buffer!Init, QueueOf
<1>2. IInv /\ [Next]_vars => [Buffer!Next]_Buffer!vars
  <2> SUFFICES ASSUME IInv, [Next]_vars PROVE [Buffer!Next]_Buffer!vars
    OBVIOUS
  <2>1. CASE UNCHANGED vars
    BY <2>1 DEF vars, Buffer!vars
  <2>2. CASE Next
    <3>1. CASE Answered
      BY <3>1, AnsweredIsKeep DEF Buffer!Next
    <3>2. CASE \E s \in Slot : Check(s) \/ Put(s)
      BY <3>2, ServerDecides
    <3>3. CASE \E s \in Slot : Hear(s)
      BY <3>3, HearForwards
    <3>4. CASE \/ Withheld \/ Stop \/ FlushNothing \/ LoseRequest \/ GiveUp \/ Persist \/ Crash
               \/ Boot
               \/ \E s \in Slot : \/ Send(s) \/ Count(s) \/ Report(s) \/ Upsert(s) \/ Forget(s)
                                  \/ ReportElsewhere(s)
      BY <3>4, OthersUnnoticed
    <3> QED
      BY <2>2, <3>1, <3>2, <3>3, <3>4 DEF Next, Serve
  <2> QED
    BY <2>1, <2>2
<1> QED
  BY <1>1, <1>2, UplinkInvariant, PTL DEF Spec, BufferSpec, Buffer!Spec

---------------------------------------------------------------------------
(* The slots.  Receiving and activating are different processes, and their *)
(* steps come in any order: a device that has been started once can start  *)
(* again, and moving the pointer leaves a way back, as long as no bundle   *)
(* is on its way into the slot that is being activated.                    *)

(* The empty slots of a new device satisfy the invariant.                  *)
LEMMA SlotInitEstablishes == ASSUME SlotInit PROVE SlotIInv
<1>1. /\ disk \in [Slots -> [model : Content, manifest : Content]]
      /\ pointer = "none" /\ receiving = Nothing /\ moving = Still
      /\ crossed = {} /\ moves = 0
  BY DEF SlotInit, Content
<1>2. Nothing.slot = "none" /\ Still.step = "none"
  BY DEF Nothing, Still
<1> QED
  BY <1>1, <1>2 DEF SlotIInv, SlotTypeOK, StartsForEver

(* Writing into the slot that is being received leaves the others alone.   *)
LEMMA ReceivingKeeps ==
  ASSUME SlotIInv,
         StageSlot \/ BeginModel \/ WriteModel \/ WriteManifest \/ BreakOff
  PROVE  SlotIInv'
<1> USE SlotAssumption DEF SlotIInv, SlotTypeOK, StartsForEver, Content,
           Nothing, Still, Slots, Whole
<1>1. CASE StageSlot
  <2>1. PICK version \in Version :
          receiving' = [slot |-> Standby, version |-> version, step |-> "first"]
    BY <1>1 DEF StageSlot, Receive
  <2>2. /\ Standby \in Slots /\ Standby # pointer
        /\ moving' = IF moving.slot = Standby THEN [moving EXCEPT !.crossed = TRUE] ELSE moving
        /\ UNCHANGED <<disk, pointer, crossed, moves>>
    BY <1>1 DEF StageSlot, Receive, Standby
  <2>3. CASE moving.slot = Standby
    <3>1. moving \in [slot : Slots, declared : Version, step : {"model", "pointer"}, crossed : BOOLEAN]
      BY <2>2, <2>3
    <3>2. /\ moving' \in [slot : Slots, declared : Version, step : {"model", "pointer"}, crossed : BOOLEAN]
          /\ moving'.slot = Standby /\ moving'.crossed = TRUE
          /\ moving'.step = moving.step /\ moving'.declared = moving.declared
      BY <2>2, <2>3, <3>1
    <3>3. /\ receiving' \in [slot : Slots, version : Version, step : {"first", "model", "manifest"}]
          /\ receiving'.slot = Standby
      BY <2>1, <2>2
    <3>4. /\ SlotTypeOK' /\ StartsForEver'
      BY <2>2, <3>2, <3>3
    <3> QED
      BY <2>2, <3>2, <3>3, <3>4
  <2>4. CASE moving.slot # Standby
    BY <2>1, <2>2, <2>4
  <2> QED
    BY <2>3, <2>4
<1>2. CASE BeginModel
  BY <1>2 DEF BeginModel
<1>3. CASE WriteModel
  BY <1>3 DEF WriteModel
<1>4. CASE WriteManifest
  BY <1>4 DEF WriteManifest
<1>5. CASE BreakOff
  BY <1>5 DEF BreakOff
<1> QED
  BY <1>1, <1>2, <1>3, <1>4, <1>5

(* The pointer moves to a slot that is whole, or was crossed.              *)
LEMMA ActivatingKeeps ==
  ASSUME SlotIInv, Install \/ Rollback \/ Verify \/ Switch \/ GiveUpSwitch
  PROVE  SlotIInv'
<1> USE SlotAssumption DEF SlotIInv, SlotTypeOK, StartsForEver, Content,
           Nothing, Still, Slots, Whole
<1>1. ASSUME NEW slot \in Slots, ReadManifest(slot)
      PROVE  SlotIInv'
  BY <1>1 DEF ReadManifest
<1>2. CASE Install
  BY <1>1, <1>2 DEF Install
<1>3. CASE Rollback
  BY <1>1, <1>3 DEF Rollback, Standby
<1>4. CASE Verify
  BY <1>4 DEF Verify
<1>5. CASE Switch
  <2>1. /\ moving # Still /\ moving.slot \in Slots /\ pointer' = moving.slot
        /\ ~ moving.crossed => Whole(moving.slot)
        /\ crossed' = IF moving.crossed THEN crossed \cup {moving.slot}
                                        ELSE crossed \ {moving.slot}
        /\ moving' = Still /\ moves' = moves + 1 /\ UNCHANGED <<disk, receiving>>
    BY <1>5 DEF Switch, Moved
  <2>2. moves' \in Nat /\ moves' > 0
    BY <2>1
  <2>3. receiving # Nothing => (receiving.slot = moving.slot => moving.crossed)
    OBVIOUS
  <2>4. CASE moving.crossed
    BY <2>1, <2>2, <2>4
  <2>5. CASE ~ moving.crossed
    BY <2>1, <2>2, <2>3, <2>5
  <2> QED
    BY <2>4, <2>5
<1>6. CASE GiveUpSwitch
  BY <1>6 DEF GiveUpSwitch
<1> QED
  BY <1>2, <1>3, <1>4, <1>5, <1>6

(* Every step keeps the invariant.                                         *)
LEMMA SlotNextKeeps ==
  ASSUME SlotIInv, [SlotNext]_slotVars
  PROVE  SlotIInv'
<1>1. CASE SlotNext
  BY <1>1, ReceivingKeeps, ActivatingKeeps DEF SlotNext
<1>2. CASE UNCHANGED slotVars
  BY <1>2 DEF slotVars, SlotIInv, SlotTypeOK, StartsForEver, Whole
<1> QED
  BY <1>1, <1>2

(* The inductive invariant of the slots, with receiving and activating in  *)
(* any order: types, a verified slot stays whole and what is received does *)
(* not go where the pointer points, but for a crossing.                    *)
THEOREM SlotInvariant == SlotSpec => []SlotIInv
<1>1. SlotInit => SlotIInv
  BY SlotInitEstablishes
<1>2. SlotIInv /\ [SlotNext]_slotVars => SlotIInv'
  BY SlotNextKeeps
<1> QED
  BY <1>1, <1>2, PTL DEF SlotSpec

(* The contents of the slots; a slot that activate has verified is whole   *)
(* until the pointer is moved or that is given up, unless a bundle was on  *)
(* its way into it (activate).                                             *)
THEOREM SlotTypes == SlotSpec => []SlotTypeOK
<1>1. SlotIInv => SlotTypeOK
  BY DEF SlotIInv
<1> QED
  BY <1>1, SlotInvariant, PTL

(* Once a bundle has been activated, the pointer names a whole bundle at   *)
(* every later moment, unless one was on its way into that slot while it   *)
(* was activated (activate, stage_slot).                                   *)
THEOREM SlotStartsForEver == SlotSpec => []StartsForEver
<1>1. SlotIInv => StartsForEver
  BY DEF SlotIInv
<1> QED
  BY <1>1, SlotInvariant, PTL

(* When the pointer moves, the bundle it named before is whole in the      *)
(* other slot, unless that one was crossed (install, rollback).            *)
THEOREM SlotSwitchLeavesWayBack == SlotSpec => SwitchLeavesWayBack
<1>1. SlotIInv /\ [SlotNext]_slotVars =>
        [(pointer' # pointer /\ pointer # "none")
           => (HasPrevious' \/ pointer \in crossed)]_slotVars
  <2> SUFFICES ASSUME SlotIInv, SlotNext, pointer' # pointer, pointer # "none",
                      pointer \notin crossed
               PROVE  HasPrevious'
    BY DEF slotVars
  <2>1. Switch
    BY DEF SlotNext, StageSlot, Receive, BeginModel, WriteModel, WriteManifest, BreakOff,
           Install, Rollback, ReadManifest, Verify, GiveUpSwitch
  <2>2. Whole(pointer) /\ pointer \in Slots /\ moving.slot \in Slots /\ pointer' = moving.slot
    BY <2>1 DEF SlotIInv, SlotTypeOK, StartsForEver, Switch, Still
  <2>3. Standby' = pointer /\ disk' = disk
    BY <2>1, <2>2 DEF Switch, Moved, Standby, Slots
  <2> QED
    BY <2>2, <2>3 DEF HasPrevious, Whole
<1> QED
  BY <1>1, SlotInvariant, PTL DEF SlotSpec, SwitchLeavesWayBack
=============================================================================
