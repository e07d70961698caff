---------------------------- MODULE DeviceProofs ----------------------------
(***************************************************************************)
(* Theorems about DevicePipeline, for every bundle, any number of samples  *)
(* and boots, and any width of window and size of spool: the counts are    *)
(* those saved and this boot's own, the alert gate of the stream agrees    *)
(* with that of a batch as far as the code makes them agree, and every     *)
(* confirmed judgement is announced or in the ledger.                      *)
(*                                                                         *)
(* The two gates are compared judgement by judgement.  The batch is a fold *)
(* and a fold after it; the stream is a state.  Agrees says what the state *)
(* is after the same judgements: the fold's, field by field, but for the   *)
(* bundle of the hour that still runs.  An offer keeps it, and closing the *)
(* gate adds that bundle.  ToldOf says beside it what the caller was told.  *)
(***************************************************************************)
EXTENDS DevicePipeline, FiniteSetTheorems, WellFoundedInduction, TLAPS

------------------------------------------------------------------------------
(* Folds.  What a fold computes is a function from sets of places, chosen by *)
(* what it must satisfy.  Induction over places is membership of a set that *)
(* holds each place after the one before; so such a function exists, and at  *)
(* the first places it is what one step after the other gives.               *)

\* A set of places that holds the first, and each place after one it holds,
\* holds them all: induction over the places of a sequence.
LEMMA UpTo ==
  ASSUME NEW n \in Nat, NEW S, 0 \in S, \A k \in 1..n : k - 1 \in S => k \in S
  PROVE  0..n \subseteq S
<1> DEFINE out == (0..n) \ S
           Less == {p \in Nat \X Nat : p[1] < p[2]}
<1> SUFFICES ASSUME out # {} PROVE FALSE
  OBVIOUS
<1>1. IsWellFoundedOn(Less, Nat)
  BY NatLessThanWellFounded DEF OpToRel
<1>2. out \subseteq Nat
  OBVIOUS
<1>3. PICK m \in out : \A k \in out : <<k, m>> \notin Less
  <2> HIDE DEF Less, out
  <2> QED
    BY <1>1, <1>2, WFMin, Zenon
<1>4. m \in 1..n /\ m - 1 \in 0..n
  OBVIOUS
<1>5. <<m - 1, m>> \in Less
  <2> DEFINE p == <<m - 1, m>>
  <2>1. p \in Nat \X Nat /\ p[1] = m - 1 /\ p[2] = m
    BY <1>4
  <2> QED
    BY <1>4, <2>1
<1>6. m - 1 \notin out
  BY <1>3, <1>5, Zenon
<1> QED
  BY <1>3, <1>4, <1>6

\* The last of the first places.
LEMMA LastPlace ==
  ASSUME NEW k \in Nat, k # 0
  PROVE  Max(1..k) = k /\ (1..k) \ {k} = 1..(k - 1)
<1>1. k \in 1..k /\ \A j \in 1..k : k >= j
  OBVIOUS
<1>2. \A m \in 1..k : (\A j \in 1..k : m >= j) => m = k
  BY <1>1
<1> QED
  BY <1>1, <1>2 DEF Max

\* Some places have a last one.
LEMMA GreatestIsIn ==
  ASSUME NEW n \in Nat, NEW s \in SUBSET (1..n), s # {}
  PROVE  Max(s) \in s
<1> DEFINE HasLast(t) == \E m \in t : \A x \in t : m >= x
           S == {k \in 0..n : \A t \in SUBSET (1..k) : t # {} => HasLast(t)}
<1>1. 0 \in S
  <2>1. 1..0 = {}
    OBVIOUS
  <2>2. \A t \in SUBSET (1..0) : t = {}
    BY <2>1
  <2>3. 0 \in 0..n
    OBVIOUS
  <2> HIDE DEF HasLast
  <2> QED
    BY <2>2, <2>3
<1>2. ASSUME NEW k \in 1..n, k - 1 \in S PROVE k \in S
  <2>1. ASSUME NEW t \in SUBSET (1..k), t # {}, k \notin t PROVE HasLast(t)
    <3>1. \A x \in t : x \in 1..(k - 1)
      BY <2>1
    <3>2. t \in SUBSET (1..(k - 1))
      BY <3>1
    <3> HIDE DEF HasLast
    <3> QED
      BY <1>2, <2>1, <3>2
  <2>2. ASSUME NEW t \in SUBSET (1..k), k \in t PROVE HasLast(t)
    <3>1. \A x \in t : k >= x
      OBVIOUS
    <3> QED
      BY <2>2, <3>1
  <2> HIDE DEF HasLast
  <2> QED
    BY <2>1, <2>2
<1>3. 0..n \subseteq S
  <2> HIDE DEF S
  <2> QED
    BY <1>1, <1>2, UpTo
<1>4. PICK m \in s : \A x \in s : m >= x
  <2>1. n \in S
    BY <1>3
  <2> QED
    BY <2>1
<1> QED
  BY <1>4 DEF Max

\* A fold over places gives every set of places a value: its last place is
\* taken from the value of the others.
FoldsTo(iter, P, V, base, step) ==
  /\ iter \in [SUBSET P -> V]
  /\ \A s \in SUBSET P :
       iter[s] = IF s = {} THEN base ELSE step[Max(s)][iter[s \ {Max(s)}]]

\* Such a function exists for every step there may be.
LEMMA FoldExists ==
  ASSUME NEW n \in Nat, NEW V, NEW base \in V, NEW step \in [1..n -> [V -> V]]
  PROVE  \E iter : FoldsTo(iter, 1..n, V, base, step)
<1> DEFINE S == {k \in 0..n : \E iter : FoldsTo(iter, 1..k, V, base, step)}
<1>1. 0 \in S
  <2> DEFINE iter == [s \in {{}} |-> base]
  <2>1. SUBSET (1..0) = {{}}
    OBVIOUS
  <2>2. FoldsTo(iter, 1..0, V, base, step)
    BY <2>1 DEF FoldsTo
  <2> QED
    BY <2>2
<1>2. ASSUME NEW k \in 1..n, k - 1 \in S PROVE k \in S
  <2>1. PICK g : FoldsTo(g, 1..(k - 1), V, base, step)
    BY <1>2
  <2> DEFINE h == [s \in SUBSET (1..k) |-> IF k \in s THEN step[k][g[s \ {k}]] ELSE g[s]]
  <2>2. ASSUME NEW s \in SUBSET (1..k), k \notin s
        PROVE  h[s] = g[s] /\ s \in SUBSET (1..(k - 1))
    <3>1. \A x \in s : x \in 1..(k - 1)
      BY <2>2
    <3> QED
      BY <2>2, <3>1
  <2>3. ASSUME NEW s \in SUBSET (1..k), k \in s
        PROVE  /\ Max(s) = k /\ s # {} /\ s \ {k} \in SUBSET (1..(k - 1))
               /\ h[s] = step[k][h[s \ {k}]]
    <3>1. \A x \in s : x \in 1..k /\ k >= x
      OBVIOUS
    <3>2. Max(s) = k
      <4>1. \A m \in s : (\A j \in s : m >= j) => m = k
        BY <2>3, <3>1
      <4> QED
        BY <2>3, <3>1, <4>1 DEF Max
    <3>3. s \ {k} \in SUBSET (1..k) /\ k \notin s \ {k}
      OBVIOUS
    <3>4. h[s \ {k}] = g[s \ {k}] /\ s \ {k} \in SUBSET (1..(k - 1))
      BY <2>2, <3>3
    <3> QED
      BY <2>3, <3>2, <3>4
  <2>4. h \in [SUBSET (1..k) -> V]
    <3>1. ASSUME NEW s \in SUBSET (1..k) PROVE h[s] \in V
      <4>1. CASE k \notin s
        BY <2>1, <2>2, <4>1 DEF FoldsTo
      <4>2. CASE k \in s
        <5>1. s \ {k} \in SUBSET (1..(k - 1)) /\ h[s] = step[k][g[s \ {k}]]
          BY <2>3, <4>2
        <5>2. g[s \ {k}] \in V
          BY <2>1, <5>1 DEF FoldsTo
        <5> QED
          BY <5>1, <5>2
      <4> QED
        BY <4>1, <4>2
    <3> QED
      BY <3>1
  <2>5. ASSUME NEW s \in SUBSET (1..k)
        PROVE  h[s] = IF s = {} THEN base ELSE step[Max(s)][h[s \ {Max(s)}]]
    <3>1. CASE k \notin s
      <4>1. h[s] = g[s] /\ s \in SUBSET (1..(k - 1))
        BY <2>2, <3>1
      <4>2. \A j : s \ {j} \in SUBSET (1..k) /\ k \notin s \ {j}
        BY <3>1
      <4>3. h[s \ {Max(s)}] = g[s \ {Max(s)}]
        BY <2>2, <4>2
      <4> HIDE DEF h
      <4> QED
        BY <2>1, <4>1, <4>3 DEF FoldsTo
    <3>2. CASE k \in s
      BY <2>3, <3>2
    <3> QED
      BY <3>1, <3>2
  <2>6. FoldsTo(h, 1..k, V, base, step)
    <3> HIDE DEF h
    <3> QED
      BY <2>4, <2>5 DEF FoldsTo
  <2> QED
    BY <2>6
<1>3. 0..n \subseteq S
  <2> HIDE DEF S
  <2> QED
    BY <1>1, <1>2, UpTo
<1>4. n \in S
  BY <1>3
<1> QED
  BY <1>4

\* What a fold from the left gives: a run of values, one step per element.
FoldedBy(list, V, base, step, value) ==
  \E run \in [0..Len(list) -> V] :
     /\ run[0] = base
     /\ \A k \in 1..Len(list) : run[k] = step[list[k]][run[k - 1]]
     /\ value = run[Len(list)]

\* The function a fold is computed by has, at the first places, such a run.
LEMMA FoldRuns ==
  ASSUME NEW E, NEW list \in Seq(E), NEW V, NEW base \in V, NEW step \in [E -> [V -> V]],
         NEW it, it[{}] = base,
         \A s \in SUBSET (1..Len(list)) :
            s # {} /\ it[s \ {Max(s)}] \in V => it[s] = step[list[Max(s)]][it[s \ {Max(s)}]]
  PROVE  FoldedBy(list, V, base, step, it[1..Len(list)])
<1> DEFINE n == Len(list)
           run == [k \in 0..n |-> it[1..k]]
           S == {k \in 0..n : run[k] \in V}
<1>1. n \in Nat /\ \A k \in 1..n : list[k] \in E
  OBVIOUS
<1>2. run[0] = base
  <2>1. 1..0 = {} /\ 0 \in 0..n
    BY <1>1
  <2> QED
    BY <2>1
<1>3. ASSUME NEW k \in 1..n, run[k - 1] \in V PROVE run[k] = step[list[k]][run[k - 1]]
  <2>1. k \in Nat /\ k # 0 /\ k \in 1..k /\ k \in 0..n /\ k - 1 \in 0..n
    BY <1>1
  <2>2. (1..k) \in SUBSET (1..n) /\ 1..k # {}
    <3>1. \A j \in 1..k : j \in 1..n
      BY <1>1, <2>1
    <3> HIDE DEF n
    <3> QED
      BY <2>1, <3>1
  <2>3. Max(1..k) = k /\ (1..k) \ {k} = 1..(k - 1)
    BY <2>1, LastPlace
  <2>4. run[k] = it[1..k] /\ run[k - 1] = it[1..(k - 1)]
    BY <2>1
  <2> HIDE DEF run
  <2> QED
    BY <1>3, <2>2, <2>3, <2>4
<1>4. 0 \in S
  <2> HIDE DEF run
  <2> QED
    BY <1>1, <1>2
<1>5. ASSUME NEW k \in 1..n, k - 1 \in S PROVE k \in S
  <2>1. run[k] = step[list[k]][run[k - 1]] /\ run[k - 1] \in V
    BY <1>3, <1>5
  <2> HIDE DEF run
  <2>2. run[k] \in V
    BY <1>1, <2>1
  <2> QED
    BY <2>2
<1>6. 0..n \subseteq S
  <2> HIDE DEF S
  <2> QED
    BY <1>1, <1>4, <1>5, UpTo
<1>7. \A k \in 0..n : run[k] \in V
  <2> HIDE DEF run
  <2> QED
    BY <1>6
<1>8. run \in [0..n -> V]
  BY <1>7
<1>9. \A k \in 1..n : run[k] = step[list[k]][run[k - 1]]
  <2>1. \A k \in 1..n : k - 1 \in 0..n
    BY <1>1
  <2> HIDE DEF run
  <2> QED
    BY <1>3, <1>7, <2>1
<1>10. it[1..n] = run[n]
  BY <1>1
<1> HIDE DEF run
<1> QED
  BY <1>2, <1>8, <1>9, <1>10 DEF FoldedBy

\* It is the base for no element,
LEMMA FoldedFrom ==
  ASSUME NEW E, NEW V, NEW base, NEW step, NEW value, FoldedBy(<<>>, V, base, step, value)
  PROVE  value = base
<1>1. Len(<<>>) = 0
  OBVIOUS
<1> QED
  BY <1>1 DEF FoldedBy

\* It is of its kind,
LEMMA FoldedIn ==
  ASSUME NEW E, NEW list \in Seq(E), NEW V, NEW base, NEW step, NEW value,
         FoldedBy(list, V, base, step, value)
  PROVE  value \in V
<1>1. Len(list) \in Nat
  OBVIOUS
<1> QED
  BY <1>1 DEF FoldedBy

\* and one element more takes it one step further.
LEMMA FoldedGrows ==
  ASSUME NEW E, NEW list \in Seq(E), NEW e \in E, NEW V, NEW base, NEW step,
         NEW u, FoldedBy(list, V, base, step, u),
         NEW w, FoldedBy(Append(list, e), V, base, step, w)
  PROVE  w = step[e][u]
<1> DEFINE n == Len(list)
           more == Append(list, e)
<1>1. /\ n \in Nat /\ Len(more) = n + 1 /\ more[n + 1] = e
      /\ \A k \in 1..n : more[k] = list[k]
  OBVIOUS
<1>2. PICK f \in [0..n -> V] :
        /\ f[0] = base /\ \A k \in 1..n : f[k] = step[list[k]][f[k - 1]]
        /\ u = f[n]
  BY DEF FoldedBy
<1> HIDE DEF more
<1>3. PICK g \in [0..Len(more) -> V] :
        /\ g[0] = base /\ \A k \in 1..Len(more) : g[k] = step[more[k]][g[k - 1]]
        /\ w = g[Len(more)]
  BY DEF FoldedBy, more
<1> HIDE DEF n
<1> DEFINE S == {k \in 0..n : f[k] = g[k]}
<1>4. 0 \in S
  BY <1>1, <1>2, <1>3
<1>5. ASSUME NEW k \in 1..n, k - 1 \in S PROVE k \in S
  <2>1. f[k - 1] = g[k - 1] /\ k \in 0..n /\ k \in 1..Len(more)
    BY <1>1, <1>5
  <2>2. f[k] = g[k]
    BY <1>1, <1>2, <1>3, <2>1
  <2> QED
    BY <2>1, <2>2
<1>6. 0..n \subseteq S
  <2> HIDE DEF S
  <2> QED
    BY <1>1, <1>4, <1>5, UpTo
<1>7. f[n] = g[n]
  BY <1>1, <1>6
<1>8. g[n + 1] = step[e][g[n]] /\ w = g[n + 1]
  BY <1>1, <1>3
<1> QED
  BY <1>2, <1>7, <1>8

------------------------------------------------------------------------------
(* The batch: judgements, and what the budget makes of the alerts.          *)

\* Judgements with a label and a confidence of some kind, alerts of them, and
\* what the batch has seen and the budget has spent of them.
SignalOf(L, C) == [at : Int, label : L, confidence : C]
AlertOf(L, C) == [at : Int, label : L, confidence : C, merged : Nat]
SeenOf(L, C) == [streak : Nat, withheld : Nat, dwelt : Nat, cooled : Nat, alerts : Seq(AlertOf(L, C))]

\* What was seen, field by field.
Seen(streak, withheld, dwelt, cooled, alerts) ==
  [streak |-> streak, withheld |-> withheld, dwelt |-> dwelt, cooled |-> cooled, alerts |-> alerts]

\* Its fields.
LEMMA SeenFields ==
  ASSUME NEW s, NEW w, NEW d, NEW c, NEW a
  PROVE  /\ Seen(s, w, d, c, a).streak = s /\ Seen(s, w, d, c, a).withheld = w
         /\ Seen(s, w, d, c, a).dwelt = d /\ Seen(s, w, d, c, a).cooled = c
         /\ Seen(s, w, d, c, a).alerts = a
BY DEF Seen

\* The five ways of a judgement.
LEMMA JudgeForms ==
  ASSUME NEW rule, NEW signal, NEW s, NEW w, NEW d, NEW c, NEW a
  PROVE  Judge(rule, Seen(s, w, d, c, a), signal) =
           IF ~Calls(rule, signal) THEN Seen(0, w, d, c, a)
           ELSE IF ~Confident(rule, signal) THEN Seen(0, w + 1, d, c, a)
           ELSE IF s + 1 < rule.dwell THEN Seen(s + 1, w, d + 1, c, a)
           ELSE IF Cooling(rule, a, signal) THEN Seen(s + 1, w, d, c + 1, a)
           ELSE Seen(s + 1, w, d, c, Append(a, Of(signal)))
<1> DEFINE seen == Seen(s, w, d, c, a)
           more == Seen(s + 1, w, d, c, a)
<1>1. seen.streak = s /\ seen.withheld = w /\ seen.alerts = a
  BY SeenFields
<1>2. more.streak = s + 1 /\ more.dwelt = d /\ more.cooled = c /\ more.alerts = a
  BY SeenFields
<1>3. [seen EXCEPT !.streak = s + 1] = more
  BY DEF Seen
<1>4. [seen EXCEPT !.streak = 0] = Seen(0, w, d, c, a)
  BY DEF Seen
<1>5. [seen EXCEPT !.streak = 0, !.withheld = w + 1] = Seen(0, w + 1, d, c, a)
  <2>1. [seen EXCEPT !.streak = 0, !.withheld = w + 1] =
          [[seen EXCEPT !.streak = 0] EXCEPT !.withheld = w + 1]
    BY DEF Seen
  <2>2. [Seen(0, w, d, c, a) EXCEPT !.withheld = w + 1] = Seen(0, w + 1, d, c, a)
    BY DEF Seen
  <2> HIDE DEF seen
  <2> QED
    BY <1>4, <2>1, <2>2
<1>6. [more EXCEPT !.dwelt = d + 1] = Seen(s + 1, w, d + 1, c, a)
  BY DEF Seen
<1>7. [more EXCEPT !.cooled = c + 1] = Seen(s + 1, w, d, c + 1, a)
  BY DEF Seen
<1>8. [more EXCEPT !.alerts = Append(a, Of(signal))] = Seen(s + 1, w, d, c, Append(a, Of(signal)))
  BY DEF Seen
<1> HIDE DEF seen, more
<1>9. Judge(rule, seen, signal) =
        IF ~Calls(rule, signal) THEN [seen EXCEPT !.streak = 0]
        ELSE IF ~Confident(rule, signal) THEN [seen EXCEPT !.streak = 0, !.withheld = w + 1]
        ELSE IF s + 1 < rule.dwell THEN [more EXCEPT !.dwelt = d + 1]
        ELSE IF Cooling(rule, a, signal) THEN [more EXCEPT !.cooled = c + 1]
        ELSE [more EXCEPT !.alerts = Append(a, Of(signal))]
  BY <1>1, <1>2, <1>3, Zenon DEF Judge
<1> QED
  BY <1>4, <1>5, <1>6, <1>7, <1>8, <1>9, Zenon DEF seen

\* What was seen is of its kind, before and after.
LEMMA SeenIsSeen ==
  ASSUME NEW L, NEW C
  PROVE  /\ \A seen \in SeenOf(L, C) :
              /\ seen = Seen(seen.streak, seen.withheld, seen.dwelt, seen.cooled, seen.alerts)
              /\ seen.streak \in Nat /\ seen.withheld \in Nat
              /\ seen.dwelt \in Nat /\ seen.cooled \in Nat
              /\ seen.alerts \in Seq(AlertOf(L, C))
         /\ \A s, w, d, c \in Nat, a \in Seq(AlertOf(L, C)) : Seen(s, w, d, c, a) \in SeenOf(L, C)
BY DEF SeenOf, Seen

\* Judging keeps what was seen of its kind.
LEMMA JudgeKeeps ==
  ASSUME NEW L, NEW C, NEW rule, NEW seen \in SeenOf(L, C), NEW signal \in SignalOf(L, C)
  PROVE  Judge(rule, seen, signal) \in SeenOf(L, C)
<1>1. Of(signal) \in AlertOf(L, C)
  BY DEF Of, Alert, SignalOf, AlertOf
<1> DEFINE s == seen.streak
           w == seen.withheld
           d == seen.dwelt
           c == seen.cooled
           a == seen.alerts
<1>2. /\ seen = Seen(s, w, d, c, a) /\ s \in Nat /\ w \in Nat /\ d \in Nat /\ c \in Nat
      /\ a \in Seq(AlertOf(L, C))
  BY SeenIsSeen
<1> HIDE DEF s, w, d, c, a
<1>3. /\ 0 \in Nat /\ s + 1 \in Nat /\ w + 1 \in Nat /\ d + 1 \in Nat /\ c + 1 \in Nat
      /\ Append(a, Of(signal)) \in Seq(AlertOf(L, C))
  BY <1>1, <1>2
<1>4. /\ Seen(0, w, d, c, a) \in SeenOf(L, C)
      /\ Seen(0, w + 1, d, c, a) \in SeenOf(L, C)
      /\ Seen(s + 1, w, d + 1, c, a) \in SeenOf(L, C)
      /\ Seen(s + 1, w, d, c + 1, a) \in SeenOf(L, C)
      /\ Seen(s + 1, w, d, c, Append(a, Of(signal))) \in SeenOf(L, C)
  BY <1>2, <1>3, SeenIsSeen
<1>5. Judge(rule, Seen(s, w, d, c, a), signal) =
           IF ~Calls(rule, signal) THEN Seen(0, w, d, c, a)
           ELSE IF ~Confident(rule, signal) THEN Seen(0, w + 1, d, c, a)
           ELSE IF s + 1 < rule.dwell THEN Seen(s + 1, w, d + 1, c, a)
           ELSE IF Cooling(rule, a, signal) THEN Seen(s + 1, w, d, c + 1, a)
           ELSE Seen(s + 1, w, d, c, Append(a, Of(signal)))
  BY JudgeForms
<1> QED
  BY <1>2, <1>4, <1>5, Zenon

\* The step of the batch, as a function.
JudgeStep(rule, L, C) ==
  [e \in SignalOf(L, C) |-> [v \in SeenOf(L, C) |-> Judge(rule, v, e)]]

\* The judgements of a batch are a run of one judgement after the other.
LEMMA CandidatesFolded ==
  ASSUME NEW L, NEW C, NEW rule, NEW signals \in Seq(SignalOf(L, C))
  PROVE  FoldedBy(signals, SeenOf(L, C), Unseen, JudgeStep(rule, L, C), Candidates(rule, signals))
<1> DEFINE n == Len(signals)
           V == SeenOf(L, C)
           E == SignalOf(L, C)
           each == JudgeStep(rule, L, C)
           step == [i \in 1..n |-> each[signals[i]]]
           IsFold(it) ==
             it = [s \in SUBSET (DOMAIN signals) |->
                     IF s = {} THEN Unseen
                     ELSE Judge(rule, it[s \ {Max(s)}], signals[Max(s)])]
           it == CHOOSE it : IsFold(it)
<1>1. n \in Nat /\ DOMAIN signals = 1..n /\ \A i \in 1..n : signals[i] \in E
  OBVIOUS
<1>2. Unseen \in V
  BY DEF Unseen, SeenOf
<1>3. each \in [E -> [V -> V]] /\ \A e \in E, v \in V : each[e][v] = Judge(rule, v, e)
  BY JudgeKeeps DEF JudgeStep
<1> HIDE DEF each, E, V
<1>4. step \in [1..n -> [V -> V]]
  BY <1>1, <1>3
<1>5. PICK iter : FoldsTo(iter, 1..n, V, Unseen, step)
  <2> HIDE DEF step, n
  <2> QED
    BY <1>1, <1>2, <1>4, FoldExists
<1>6. ASSUME NEW s \in SUBSET (1..n), s # {}
      PROVE  iter[s] = Judge(rule, iter[s \ {Max(s)}], signals[Max(s)])
  <2>1. Max(s) \in 1..n
    BY <1>1, <1>6, GreatestIsIn
  <2>2. s \ {Max(s)} \in SUBSET (1..n)
    OBVIOUS
  <2>3. iter[s \ {Max(s)}] \in V /\ iter[s] = step[Max(s)][iter[s \ {Max(s)}]]
    <3> HIDE DEF step
    <3> QED
      BY <1>5, <1>6, <2>2 DEF FoldsTo
  <2> QED
    BY <1>1, <1>3, <2>1, <2>3
<1>7. IsFold(iter)
  <2>1. iter \in [SUBSET (1..n) -> V] /\ iter[{}] = Unseen
    <3> HIDE DEF step
    <3> QED
      BY <1>5 DEF FoldsTo
  <2>2. iter = [s \in SUBSET (1..n) |->
                  IF s = {} THEN Unseen ELSE Judge(rule, iter[s \ {Max(s)}], signals[Max(s)])]
    BY <1>6, <2>1
  <2> QED
    BY <1>1, <2>2
<1>8. IsFold(it)
  <2> HIDE DEF IsFold
  <2> QED
    BY <1>7
<1>9. Candidates(rule, signals) = it[1..n]
  BY <1>1 DEF Candidates, FoldLeft, MapThenFoldSet
<1>10. it[{}] = Unseen
  BY <1>1, <1>8
<1>11. ASSUME NEW s \in SUBSET (1..n), s # {}, it[s \ {Max(s)}] \in V
       PROVE  it[s] = each[signals[Max(s)]][it[s \ {Max(s)}]]
  <2>1. it[s] = Judge(rule, it[s \ {Max(s)}], signals[Max(s)])
    BY <1>1, <1>8, <1>11
  <2>2. signals[Max(s)] \in E
    BY <1>1, <1>11, GreatestIsIn
  <2> HIDE DEF it
  <2> QED
    BY <1>3, <1>11, <2>1, <2>2
<1> HIDE DEF it
<1>12. FoldedBy(signals, V, Unseen, each, it[1..Len(signals)])
  <2>1. signals \in Seq(E)
    BY DEF E
  <2> QED
    BY <1>2, <1>3, <1>10, <1>11, <2>1, FoldRuns
<1> QED
  BY <1>9, <1>12 DEF V, each

\* Of no judgement nothing is seen,
LEMMA CandidatesNone ==
  ASSUME NEW rule
  PROVE  Candidates(rule, <<>>) = Unseen
<1> DEFINE none == <<>>
           value == Candidates(rule, none)
           base == Unseen
           Q == SeenOf({}, {})
           each == JudgeStep(rule, {}, {})
<1>1. none \in Seq(SignalOf({}, {}))
  OBVIOUS
<1>2. FoldedBy(none, Q, base, each, value)
  <2> HIDE DEF none
  <2> QED
    BY <1>1, CandidatesFolded
<1> HIDE DEF value, base, Q, each
<1>3. value = base
  BY <1>2, FoldedFrom
<1> QED
  BY <1>3 DEF value, base

\* what is seen is of its kind,
LEMMA CandidatesIn ==
  ASSUME NEW L, NEW C, NEW rule, NEW signals \in Seq(SignalOf(L, C))
  PROVE  Candidates(rule, signals) \in SeenOf(L, C)
<1> DEFINE Q == SeenOf(L, C)
           E == SignalOf(L, C)
           each == JudgeStep(rule, L, C)
           u == Candidates(rule, signals)
<1>1. FoldedBy(signals, Q, Unseen, each, u)
  BY CandidatesFolded
<1> HIDE DEF Q, each, u
<1>2. u \in Q
  BY <1>1, FoldedIn
<1> QED
  BY <1>2 DEF Q, u

\* and one judgement more is judged after the others (AlertGate.apply).
LEMMA CandidatesMore ==
  ASSUME NEW L, NEW C, NEW rule, NEW signals \in Seq(SignalOf(L, C)), NEW signal \in SignalOf(L, C)
  PROVE  Candidates(rule, Append(signals, signal)) = Judge(rule, Candidates(rule, signals), signal)
<1> DEFINE Q == SeenOf(L, C)
           E == SignalOf(L, C)
           each == JudgeStep(rule, L, C)
           more == Append(signals, signal)
           u == Candidates(rule, signals)
           w == Candidates(rule, more)
<1>1. more \in Seq(E)
  OBVIOUS
<1>2. FoldedBy(signals, Q, Unseen, each, u)
  BY CandidatesFolded
<1>3. FoldedBy(more, Q, Unseen, each, w)
  <2> HIDE DEF more
  <2> QED
    BY <1>1, CandidatesFolded
<1>4. u \in Q => each[signal][u] = Judge(rule, u, signal)
  BY DEF JudgeStep
<1>5. u \in Q
  BY CandidatesIn
<1> HIDE DEF Q, each, u, w
<1>6. w = each[signal][u]
  BY <1>2, <1>3, FoldedGrows
<1>7. w = Judge(rule, u, signal)
  BY <1>4, <1>5, <1>6
<1> QED
  BY <1>7 DEF u, w, more

------------------------------------------------------------------------------

\* What the budget spent, field by field.
Spending(kept, start, used, overflow, merged) ==
  [kept |-> kept, start |-> start, used |-> used, overflow |-> overflow, merged |-> merged]

\* What the budget may have spent.
SpentOf(L, C) == [kept : Seq(AlertOf(L, C)), start : Int, used : Nat, overflow : Nat, merged : Nat]

\* The ways of the budget: the alert is kept or held back, in the same hour or in
\* a new one.
LEMMA SpendForms ==
  ASSUME NEW rule, NEW alert, NEW k, NEW s, NEW u, NEW o, NEW m
  PROVE  Spend(rule, Spending(k, s, u, o, m), alert) =
           IF alert.at - s < Hour
           THEN IF u < rule.budget THEN Spending(Append(k, alert), s, u + 1, o, m)
                ELSE Spending(k, s, u, o + 1, m)
           ELSE IF 0 < rule.budget
                THEN Spending(Append(k \o Bundled(s, alert, o), alert), alert.at, 0 + 1, 0, m + o)
                ELSE Spending(k \o Bundled(s, alert, o), alert.at, 0, 0 + 1, m + o)
<1> DEFINE spent == Spending(k, s, u, o, m)
           kb == k \o Bundled(s, alert, o)
           t == alert.at
           mo == m + o
           anew == Spending(kb, t, 0, 0, mo)
<1>1. spent.start = s /\ spent.kept = k /\ spent.overflow = o /\ spent.merged = m
  BY DEF Spending
<1> HIDE DEF kb, t, mo
<1>2. anew = [kept |-> kb, start |-> t, used |-> 0, overflow |-> 0, merged |-> mo]
  BY DEF Spending
<1>3. spent.used = u /\ anew.used = 0 /\ anew.overflow = 0 /\ anew.kept = kb
  BY DEF Spending
<1>4. [spent EXCEPT !.overflow = o + 1] = Spending(k, s, u, o + 1, m)
  BY DEF Spending
<1>5. [anew EXCEPT !.overflow = 0 + 1] = Spending(kb, t, 0, 0 + 1, mo)
  BY DEF Spending
<1>6. [spent EXCEPT !.kept = Append(k, alert), !.used = u + 1]
        = Spending(Append(k, alert), s, u + 1, o, m)
  <2>1. [spent EXCEPT !.kept = Append(k, alert), !.used = u + 1]
          = [[spent EXCEPT !.kept = Append(k, alert)] EXCEPT !.used = u + 1]
    BY DEF Spending
  <2>2. [spent EXCEPT !.kept = Append(k, alert)] = Spending(Append(k, alert), s, u, o, m)
    BY DEF Spending
  <2>3. [Spending(Append(k, alert), s, u, o, m) EXCEPT !.used = u + 1]
          = Spending(Append(k, alert), s, u + 1, o, m)
    BY DEF Spending
  <2> HIDE DEF spent
  <2> QED
    BY <2>1, <2>2, <2>3
<1>7. [anew EXCEPT !.kept = Append(kb, alert), !.used = 0 + 1]
        = Spending(Append(kb, alert), t, 0 + 1, 0, mo)
  <2>1. [anew EXCEPT !.kept = Append(kb, alert), !.used = 0 + 1]
          = [[anew EXCEPT !.kept = Append(kb, alert)] EXCEPT !.used = 0 + 1]
    BY DEF Spending
  <2>2. [anew EXCEPT !.kept = Append(kb, alert)] = Spending(Append(kb, alert), t, 0, 0, mo)
    BY DEF Spending
  <2>3. [Spending(Append(kb, alert), t, 0, 0, mo) EXCEPT !.used = 0 + 1]
          = Spending(Append(kb, alert), t, 0 + 1, 0, mo)
    BY DEF Spending
  <2> HIDE DEF anew
  <2> QED
    BY <2>1, <2>2, <2>3
<1> DEFINE next == Spend(rule, spent, alert)
<1>8. CASE alert.at - s < Hour /\ u < rule.budget
  <2>1. next = [spent EXCEPT !.kept = Append(k, alert), !.used = u + 1]
    <3> HIDE DEF spent
    <3> QED
      BY <1>1, <1>3, <1>8, Zenon DEF Spend
  <2> QED
    BY <1>6, <1>8, <2>1, Zenon
<1>9. CASE alert.at - s < Hour /\ ~(u < rule.budget)
  <2>1. next = [spent EXCEPT !.overflow = o + 1]
    <3> HIDE DEF spent
    <3> QED
      BY <1>1, <1>3, <1>9, Zenon DEF Spend
  <2> QED
    BY <1>4, <1>9, <2>1, Zenon
<1>10. CASE ~(alert.at - s < Hour) /\ 0 < rule.budget
  <2>1. next = [anew EXCEPT !.kept = Append(kb, alert), !.used = 0 + 1]
    <3> HIDE DEF spent, anew
    <3> QED
      BY <1>1, <1>2, <1>3, <1>10, Zenon DEF Spend, kb, t, mo
  <2> QED
    BY <1>7, <1>10, <2>1, Zenon DEF kb, t, mo
<1>11. CASE ~(alert.at - s < Hour) /\ ~(0 < rule.budget)
  <2>1. next = [anew EXCEPT !.overflow = 0 + 1]
    <3> HIDE DEF spent, anew
    <3> QED
      BY <1>1, <1>2, <1>3, <1>11, Zenon DEF Spend, kb, t, mo
  <2> QED
    BY <1>5, <1>11, <2>1, Zenon DEF kb, t, mo
<1> QED
  BY <1>8, <1>9, <1>10, <1>11

\* What was spent is of its kind, by its fields,
LEMMA SpentIsSpent ==
  ASSUME NEW L, NEW C
  PROVE  /\ \A spent \in SpentOf(L, C) :
              /\ spent = Spending(spent.kept, spent.start, spent.used, spent.overflow, spent.merged)
              /\ spent.kept \in Seq(AlertOf(L, C)) /\ spent.start \in Int
              /\ spent.used \in Nat /\ spent.overflow \in Nat /\ spent.merged \in Nat
         /\ \A k \in Seq(AlertOf(L, C)), s \in Int, u, o, m \in Nat :
              Spending(k, s, u, o, m) \in SpentOf(L, C)
BY DEF SpentOf, Spending

\* so is the bundle of an hour,
LEMMA BundledIsSeq ==
  ASSUME NEW L, NEW C, NEW s \in Int, NEW of \in AlertOf(L, C), NEW o \in Nat
  PROVE  Bundled(s, of, o) \in Seq(AlertOf(L, C))
<1>1. Alert(s + Hour, of, o) \in AlertOf(L, C)
  BY AlertsAssumption DEF Alert, AlertOf
<1> QED
  BY <1>1 DEF Bundled

\* and the budget keeps it so.
LEMMA SpendKeeps ==
  ASSUME NEW L, NEW C, NEW rule, NEW spent \in SpentOf(L, C), NEW alert \in AlertOf(L, C)
  PROVE  Spend(rule, spent, alert) \in SpentOf(L, C)
<1> DEFINE k == spent.kept
           s == spent.start
           u == spent.used
           o == spent.overflow
           m == spent.merged
           b == Bundled(s, alert, o)
<1>1. /\ spent = Spending(k, s, u, o, m) /\ k \in Seq(AlertOf(L, C)) /\ s \in Int
      /\ u \in Nat /\ o \in Nat /\ m \in Nat
  BY SpentIsSpent
<1> HIDE DEF k, s, u, o, m
<1>2. b \in Seq(AlertOf(L, C)) /\ alert.at \in Int
  BY <1>1, BundledIsSeq DEF AlertOf
<1> HIDE DEF b
<1>3. /\ 0 \in Nat /\ 0 + 1 \in Nat /\ u + 1 \in Nat /\ o + 1 \in Nat /\ m + o \in Nat
      /\ Append(k, alert) \in Seq(AlertOf(L, C))
      /\ k \o b \in Seq(AlertOf(L, C))
      /\ Append(k \o b, alert) \in Seq(AlertOf(L, C))
  BY <1>1, <1>2
<1>4. /\ Spending(Append(k, alert), s, u + 1, o, m) \in SpentOf(L, C)
      /\ Spending(k, s, u, o + 1, m) \in SpentOf(L, C)
      /\ Spending(Append(k \o b, alert), alert.at, 0 + 1, 0, m + o) \in SpentOf(L, C)
      /\ Spending(k \o b, alert.at, 0, 0 + 1, m + o) \in SpentOf(L, C)
  BY <1>1, <1>2, <1>3, SpentIsSpent
<1>5. Spend(rule, Spending(k, s, u, o, m), alert) =
           IF alert.at - s < Hour
           THEN IF u < rule.budget THEN Spending(Append(k, alert), s, u + 1, o, m)
                ELSE Spending(k, s, u, o + 1, m)
           ELSE IF 0 < rule.budget
                THEN Spending(Append(k \o b, alert), alert.at, 0 + 1, 0, m + o)
                ELSE Spending(k \o b, alert.at, 0, 0 + 1, m + o)
  BY SpendForms DEF b
<1> QED
  BY <1>1, <1>4, <1>5, Zenon

\* What the budget made of the alerts of a batch, before the last hour ends.
SpentBy(rule, start, alerts) ==
  FoldLeft(LAMBDA spent, alert : Spend(rule, spent, alert), Unspent(start), alerts)

\* The step of the budget, as a function.
SpendStep(rule, L, C) ==
  [e \in AlertOf(L, C) |-> [v \in SpentOf(L, C) |-> Spend(rule, v, e)]]

\* So is what the budget makes of its alerts.
LEMMA SpentByFolded ==
  ASSUME NEW L, NEW C, NEW rule, NEW start \in Int, NEW alerts \in Seq(AlertOf(L, C))
  PROVE  FoldedBy(alerts, SpentOf(L, C), Unspent(start), SpendStep(rule, L, C), SpentBy(rule, start, alerts))
<1> DEFINE n == Len(alerts)
           Q == SpentOf(L, C)
           E == AlertOf(L, C)
           each == SpendStep(rule, L, C)
           base == Unspent(start)
           step == [i \in 1..n |-> each[alerts[i]]]
           IsFold(it) ==
             it = [s \in SUBSET (DOMAIN alerts) |->
                     IF s = {} THEN base
                     ELSE Spend(rule, it[s \ {Max(s)}], alerts[Max(s)])]
           it == CHOOSE it : IsFold(it)
<1>1. n \in Nat /\ DOMAIN alerts = 1..n /\ \A i \in 1..n : alerts[i] \in E
  OBVIOUS
<1>2. base \in Q
  BY DEF Unspent, SpentOf
<1>3. each \in [E -> [Q -> Q]] /\ \A e \in E, v \in Q : each[e][v] = Spend(rule, v, e)
  BY SpendKeeps DEF SpendStep
<1>9. SpentBy(rule, start, alerts) = it[1..n]
  BY <1>1 DEF SpentBy, FoldLeft, MapThenFoldSet
<1> HIDE DEF each, E, Q, base
<1>4. step \in [1..n -> [Q -> Q]]
  BY <1>1, <1>3
<1>5. PICK iter : FoldsTo(iter, 1..n, Q, base, step)
  <2> HIDE DEF step, n
  <2> QED
    BY <1>1, <1>2, <1>4, FoldExists
<1>6. ASSUME NEW s \in SUBSET (1..n), s # {}
      PROVE  iter[s] = Spend(rule, iter[s \ {Max(s)}], alerts[Max(s)])
  <2>1. Max(s) \in 1..n
    BY <1>1, <1>6, GreatestIsIn
  <2>2. s \ {Max(s)} \in SUBSET (1..n)
    OBVIOUS
  <2>3. iter[s \ {Max(s)}] \in Q /\ iter[s] = step[Max(s)][iter[s \ {Max(s)}]]
    <3> HIDE DEF step
    <3> QED
      BY <1>5, <1>6, <2>2 DEF FoldsTo
  <2> QED
    BY <1>1, <1>3, <2>1, <2>3
<1>7. IsFold(iter)
  <2>1. iter \in [SUBSET (1..n) -> Q] /\ iter[{}] = base
    <3> HIDE DEF step
    <3> QED
      BY <1>5 DEF FoldsTo
  <2>2. iter = [s \in SUBSET (1..n) |->
                  IF s = {} THEN base ELSE Spend(rule, iter[s \ {Max(s)}], alerts[Max(s)])]
    BY <1>6, <2>1
  <2> QED
    BY <1>1, <2>2
<1>8. IsFold(it)
  <2> HIDE DEF IsFold
  <2> QED
    BY <1>7
<1>10. it[{}] = base
  BY <1>1, <1>8
<1>11. ASSUME NEW s \in SUBSET (1..n), s # {}, it[s \ {Max(s)}] \in Q
       PROVE  it[s] = each[alerts[Max(s)]][it[s \ {Max(s)}]]
  <2>1. it[s] = Spend(rule, it[s \ {Max(s)}], alerts[Max(s)])
    BY <1>1, <1>8, <1>11
  <2>2. alerts[Max(s)] \in E
    BY <1>1, <1>11, GreatestIsIn
  <2> HIDE DEF it
  <2> QED
    BY <1>3, <1>11, <2>1, <2>2
<1> HIDE DEF it
<1>12. FoldedBy(alerts, Q, base, each, it[1..Len(alerts)])
  <2>1. alerts \in Seq(E)
    BY DEF E
  <2> QED
    BY <1>2, <1>3, <1>10, <1>11, <2>1, FoldRuns
<1> QED
  BY <1>9, <1>12 DEF Q, each, base

\* Of no alert nothing is spent,
LEMMA SpentByNone ==
  ASSUME NEW rule, NEW start \in Int
  PROVE  SpentBy(rule, start, <<>>) = Spending(<<>>, start, 0, 0, 0)
<1> DEFINE none == <<>>
           value == SpentBy(rule, start, none)
           base == Unspent(start)
           Q == SpentOf({}, {})
           each == SpendStep(rule, {}, {})
<1>1. none \in Seq(AlertOf({}, {}))
  OBVIOUS
<1>2. FoldedBy(none, Q, base, each, value)
  <2> HIDE DEF none
  <2> QED
    BY <1>1, SpentByFolded
<1> HIDE DEF value, base, Q, each
<1>3. value = base
  BY <1>2, FoldedFrom
<1> QED
  BY <1>3 DEF value, base, Unspent, Spending

\* what is spent is of its kind,
LEMMA SpentByIn ==
  ASSUME NEW L, NEW C, NEW rule, NEW start \in Int, NEW alerts \in Seq(AlertOf(L, C))
  PROVE  SpentBy(rule, start, alerts) \in SpentOf(L, C)
<1> DEFINE Q == SpentOf(L, C)
           E == AlertOf(L, C)
           each == SpendStep(rule, L, C)
           u == SpentBy(rule, start, alerts)
<1>1. FoldedBy(alerts, Q, Unspent(start), each, u)
  BY SpentByFolded
<1> HIDE DEF Q, each, u
<1>2. u \in Q
  BY <1>1, FoldedIn
<1> QED
  BY <1>2 DEF Q, u

\* and one alert more goes to the budget after the others (_apply_budget).
LEMMA SpentByMore ==
  ASSUME NEW L, NEW C, NEW rule, NEW start \in Int, NEW alerts \in Seq(AlertOf(L, C)), NEW alert \in AlertOf(L, C)
  PROVE  SpentBy(rule, start, Append(alerts, alert)) = Spend(rule, SpentBy(rule, start, alerts), alert)
<1> DEFINE Q == SpentOf(L, C)
           E == AlertOf(L, C)
           each == SpendStep(rule, L, C)
           more == Append(alerts, alert)
           u == SpentBy(rule, start, alerts)
           w == SpentBy(rule, start, more)
<1>1. more \in Seq(E)
  OBVIOUS
<1>2. FoldedBy(alerts, Q, Unspent(start), each, u)
  BY SpentByFolded
<1>3. FoldedBy(more, Q, Unspent(start), each, w)
  <2> HIDE DEF more
  <2> QED
    BY <1>1, SpentByFolded
<1>4. u \in Q => each[alert][u] = Spend(rule, u, alert)
  BY DEF SpendStep
<1>5. u \in Q
  BY SpentByIn
<1> HIDE DEF Q, each, u, w
<1>6. w = each[alert][u]
  BY <1>2, <1>3, FoldedGrows
<1>7. w = Spend(rule, u, alert)
  BY <1>4, <1>5, <1>6
<1> QED
  BY <1>7 DEF u, w, more

------------------------------------------------------------------------------

\* The step of the count of what alerts stand for, as a function.
MergeStep(L, C) == [e \in AlertOf(L, C) |-> [v \in Nat |-> v + e.merged]]

\* So is the number of judgements its alerts stand for.
LEMMA MergedFolded ==
  ASSUME NEW L, NEW C, NEW alerts \in Seq(AlertOf(L, C))
  PROVE  FoldedBy(alerts, Nat, 0, MergeStep(L, C), Merged(alerts))
<1> DEFINE n == Len(alerts)
           Q == Nat
           E == AlertOf(L, C)
           each == MergeStep(L, C)
           base == 0
           step == [i \in 1..n |-> each[alerts[i]]]
           IsFold(it) ==
             it = [s \in SUBSET (DOMAIN alerts) |->
                     IF s = {} THEN base
                     ELSE it[s \ {Max(s)}] + alerts[Max(s)].merged]
           it == CHOOSE it : IsFold(it)
<1>1. n \in Nat /\ DOMAIN alerts = 1..n /\ \A i \in 1..n : alerts[i] \in E
  OBVIOUS
<1>2. base \in Q
  OBVIOUS
<1>3. each \in [E -> [Q -> Q]] /\ \A e \in E, v \in Q : each[e][v] = v + e.merged
  BY DEF MergeStep, AlertOf
<1>9. Merged(alerts) = it[1..n]
  BY <1>1 DEF Merged, FoldLeft, MapThenFoldSet
<1> HIDE DEF each, E, Q, base
<1>4. step \in [1..n -> [Q -> Q]]
  BY <1>1, <1>3
<1>5. PICK iter : FoldsTo(iter, 1..n, Q, base, step)
  <2> HIDE DEF step, n
  <2> QED
    BY <1>1, <1>2, <1>4, FoldExists
<1>6. ASSUME NEW s \in SUBSET (1..n), s # {}
      PROVE  iter[s] = iter[s \ {Max(s)}] + alerts[Max(s)].merged
  <2>1. Max(s) \in 1..n
    BY <1>1, <1>6, GreatestIsIn
  <2>2. s \ {Max(s)} \in SUBSET (1..n)
    OBVIOUS
  <2>3. iter[s \ {Max(s)}] \in Q /\ iter[s] = step[Max(s)][iter[s \ {Max(s)}]]
    <3> HIDE DEF step
    <3> QED
      BY <1>5, <1>6, <2>2 DEF FoldsTo
  <2> QED
    BY <1>1, <1>3, <2>1, <2>3
<1>7. IsFold(iter)
  <2>1. iter \in [SUBSET (1..n) -> Q] /\ iter[{}] = base
    <3> HIDE DEF step
    <3> QED
      BY <1>5 DEF FoldsTo
  <2>2. iter = [s \in SUBSET (1..n) |->
                  IF s = {} THEN base ELSE iter[s \ {Max(s)}] + alerts[Max(s)].merged]
    BY <1>6, <2>1
  <2> QED
    BY <1>1, <2>2
<1>8. IsFold(it)
  <2> HIDE DEF IsFold
  <2> QED
    BY <1>7
<1>10. it[{}] = base
  BY <1>1, <1>8
<1>11. ASSUME NEW s \in SUBSET (1..n), s # {}, it[s \ {Max(s)}] \in Q
       PROVE  it[s] = each[alerts[Max(s)]][it[s \ {Max(s)}]]
  <2>1. it[s] = it[s \ {Max(s)}] + alerts[Max(s)].merged
    BY <1>1, <1>8, <1>11
  <2>2. alerts[Max(s)] \in E
    BY <1>1, <1>11, GreatestIsIn
  <2> HIDE DEF it
  <2> QED
    BY <1>3, <1>11, <2>1, <2>2
<1> HIDE DEF it
<1>12. FoldedBy(alerts, Q, base, each, it[1..Len(alerts)])
  <2>1. alerts \in Seq(E)
    BY DEF E
  <2> QED
    BY <1>2, <1>3, <1>10, <1>11, <2>1, FoldRuns
<1> QED
  BY <1>9, <1>12 DEF Q, each, base

\* No alert stands for nothing,
LEMMA MergedNone ==  Merged(<<>>) = 0
<1> DEFINE none == <<>>
           value == Merged(none)
           base == 0
           Q == Nat
           each == MergeStep({}, {})
<1>1. none \in Seq(AlertOf({}, {}))
  OBVIOUS
<1>2. FoldedBy(none, Q, base, each, value)
  <2> HIDE DEF none
  <2> QED
    BY <1>1, MergedFolded
<1> HIDE DEF value, base, Q, each
<1>3. value = base
  BY <1>2, FoldedFrom
<1> QED
  BY <1>3 DEF value, base

\* alerts stand for a number,
LEMMA MergedIn ==
  ASSUME NEW L, NEW C, NEW alerts \in Seq(AlertOf(L, C))
  PROVE  Merged(alerts) \in Nat
<1> DEFINE Q == Nat
           E == AlertOf(L, C)
           each == MergeStep(L, C)
           u == Merged(alerts)
<1>1. FoldedBy(alerts, Q, 0, each, u)
  BY MergedFolded
<1> HIDE DEF Q, each, u
<1>2. u \in Q
  BY <1>1, FoldedIn
<1> QED
  BY <1>2 DEF Q, u

\* and one more for as many more as are merged in it.
LEMMA MergedMore ==
  ASSUME NEW L, NEW C, NEW alerts \in Seq(AlertOf(L, C)), NEW alert \in AlertOf(L, C)
  PROVE  Merged(Append(alerts, alert)) = Merged(alerts) + alert.merged
<1> DEFINE Q == Nat
           E == AlertOf(L, C)
           each == MergeStep(L, C)
           more == Append(alerts, alert)
           u == Merged(alerts)
           w == Merged(more)
<1>1. more \in Seq(E)
  OBVIOUS
<1>2. FoldedBy(alerts, Q, 0, each, u)
  BY MergedFolded
<1>3. FoldedBy(more, Q, 0, each, w)
  <2> HIDE DEF more
  <2> QED
    BY <1>1, MergedFolded
<1>4. u \in Q => each[alert][u] = u + alert.merged
  BY DEF MergeStep
<1>5. u \in Q
  BY MergedIn
<1> HIDE DEF Q, each, u, w
<1>6. w = each[alert][u]
  BY <1>2, <1>3, FoldedGrows
<1>7. w = u + alert.merged
  BY <1>4, <1>5, <1>6
<1> QED
  BY <1>7 DEF u, w, more

------------------------------------------------------------------------------
(* Order, and counts.                                                        *)

\* What comes in the order of time keeps its order.
LEMMA InOrderStays ==
  ASSUME NEW L, NEW C, NEW signals \in Seq(SignalOf(L, C)),
         \A i, j \in 1..Len(signals) : i < j => signals[i].at < signals[j].at
  PROVE  InOrder(signals) = signals
<1> DEFINE n == Len(signals)
<1>1. n \in Nat /\ DOMAIN signals = 1..n /\ \A i \in 1..n : signals[i].at \in Int
  <2>1. n \in Nat /\ DOMAIN signals = 1..n /\ \A i \in 1..n : signals[i] \in SignalOf(L, C)
    OBVIOUS
  <2>2. \A e \in SignalOf(L, C) : e.at \in Int
    BY DEF SignalOf
  <2> HIDE DEF n
  <2> QED
    BY <2>1, <2>2
<1>2. ASSUME NEW i \in 1..n PROVE Place(signals, i) = i
  <2>1. {j \in DOMAIN signals : \/ signals[j].at < signals[i].at
                                \/ signals[j].at = signals[i].at /\ j <= i} = 1..i
    <3>1. ASSUME NEW j \in 1..n PROVE (\/ signals[j].at < signals[i].at
                                       \/ signals[j].at = signals[i].at /\ j <= i) <=> j <= i
      <4>1. j < i => signals[j].at < signals[i].at
        OBVIOUS
      <4>2. i < j => signals[i].at < signals[j].at
        OBVIOUS
      <4> QED
        BY <1>1, <1>2, <4>1, <4>2
    <3>2. \A j \in 1..i : j \in 1..n
      BY <1>1
    <3> QED
      BY <1>1, <3>1, <3>2
  <2>2. Cardinality(1..i) = i
    BY <1>1, FS_Interval
  <2> QED
    BY <2>1, <2>2 DEF Place
<1>3. \A p \in 1..n : (CHOOSE i \in 1..n : Place(signals, i) = p) = p
  BY <1>2
<1>4. InOrder(signals) = [p \in 1..n |-> signals[p]]
  <2>1. InOrder(signals) = [p \in 1..n |-> signals[CHOOSE i \in 1..n : Place(signals, i) = p]]
    BY <1>1 DEF InOrder
  <2>2. \A p \in 1..n : signals[CHOOSE i \in 1..n : Place(signals, i) = p] = signals[p]
    BY <1>3
  <2> HIDE DEF n
  <2> QED
    BY <2>1, <2>2, Zenon
<1> QED
  BY <1>1, <1>4

\* How many of the batch call a person, with one judgement more.
Calling(rule, signals) == {i \in DOMAIN signals : Calls(rule, signals[i])}

\* It grows by the judgements that call.
LEMMA CallingGrows ==
  ASSUME NEW L, NEW C, NEW rule, NEW signals \in Seq(SignalOf(L, C)), NEW signal \in SignalOf(L, C)
  PROVE  /\ Cardinality(Calling(rule, <<>>)) = 0
         /\ Cardinality(Calling(rule, signals)) \in Nat
         /\ Cardinality(Calling(rule, Append(signals, signal))) =
              Cardinality(Calling(rule, signals)) + (IF Calls(rule, signal) THEN 1 ELSE 0)
<1> DEFINE n == Len(signals)
           more == Append(signals, signal)
           those == Calling(rule, signals)
<1>1. /\ n \in Nat /\ DOMAIN signals = 1..n /\ DOMAIN more = 1..(n + 1) /\ more[n + 1] = signal
      /\ \A i \in 1..n : more[i] = signals[i]
  OBVIOUS
<1>2. those \subseteq 1..n
  BY <1>1 DEF Calling
<1>3. IsFiniteSet(those)
  <2>1. IsFiniteSet(1..n)
    <3>1. 1 \in Int /\ n \in Int
      BY <1>1
    <3> HIDE DEF n
    <3> QED
      BY <3>1, FS_Interval
  <2> HIDE DEF n, those
  <2> QED
    BY <1>2, <2>1, FS_Subset
<1>4. n + 1 \notin those
  BY <1>1, <1>2
<1>5. Calling(rule, more) = IF Calls(rule, signal) THEN those \cup {n + 1} ELSE those
  <2> HIDE DEF n, more
  <2>1. \A i \in 1..(n + 1) : i \in 1..n \/ i = n + 1
    BY <1>1
  <2>2. \A i : i \in Calling(rule, more) <=>
                 i \in those \/ (i = n + 1 /\ Calls(rule, signal))
    BY <1>1, <2>1 DEF Calling
  <2> QED
    BY <2>2
<1>6. Calling(rule, <<>>) = {}
  BY DEF Calling
<1> HIDE DEF those, n
<1>7. Cardinality(those) \in Nat /\ Cardinality(those \cup {n + 1}) = Cardinality(those) + 1
  BY <1>3, <1>4, FS_AddElement, FS_CardinalityType
<1>8. Cardinality({}) = 0
  BY FS_EmptySet
<1> HIDE DEF more
<1>9. Cardinality(Calling(rule, more)) = Cardinality(those) + (IF Calls(rule, signal) THEN 1 ELSE 0)
  <2>1. CASE Calls(rule, signal)
    BY <1>5, <1>7, <2>1
  <2>2. CASE ~Calls(rule, signal)
    BY <1>5, <1>7, <2>2
  <2> QED
    BY <2>1, <2>2
<1> QED
  BY <1>6, <1>7, <1>8, <1>9 DEF those, more

------------------------------------------------------------------------------

\* The alerts told since some time.
Since(alerts, t) == {i \in DOMAIN alerts : alerts[i].at >= t}

\* How many alerts were told since some time, and within an hour of it.
LEMMA CountSince ==
  ASSUME NEW L, NEW C, NEW alerts \in Seq(AlertOf(L, C)), NEW t \in Int
  PROVE  /\ Cardinality(Since(alerts, t)) \in Nat /\ Cardinality(WithinHour(alerts, t)) \in Nat
         /\ Cardinality(WithinHour(alerts, t)) <= Cardinality(Since(alerts, t))
         /\ \A u \in Int : t <= u => Cardinality(Since(alerts, u)) <= Cardinality(Since(alerts, t))
         /\ (\A i \in 1..Len(alerts) : alerts[i].at < t) => Cardinality(Since(alerts, t)) = 0
<1> DEFINE n == Len(alerts)
<1>1. n \in Nat /\ DOMAIN alerts = 1..n /\ \A i \in 1..n : alerts[i].at \in Int
  <2>1. n \in Nat /\ DOMAIN alerts = 1..n /\ \A i \in 1..n : alerts[i] \in AlertOf(L, C)
    OBVIOUS
  <2>2. \A e \in AlertOf(L, C) : e.at \in Int
    BY DEF AlertOf
  <2> HIDE DEF n
  <2> QED
    BY <2>1, <2>2
<1>2. IsFiniteSet(1..n)
  <2>1. 1 \in Int /\ n \in Int
    BY <1>1
  <2> HIDE DEF n
  <2> QED
    BY <2>1, FS_Interval
<1>3. Since(alerts, t) \subseteq 1..n /\ IsFiniteSet(Since(alerts, t))
  BY <1>1, <1>2, FS_Subset DEF Since
<1>4. WithinHour(alerts, t) \subseteq Since(alerts, t)
  BY <1>1, AlertsAssumption DEF Since, WithinHour
<1>5. \A u \in Int : t <= u => Since(alerts, u) \subseteq Since(alerts, t)
  BY <1>1 DEF Since
<1>6. (\A i \in 1..n : alerts[i].at < t) => Since(alerts, t) = {}
  BY <1>1 DEF Since
<1> QED
  BY <1>3, <1>4, <1>5, <1>6, FS_Subset, FS_EmptySet, FS_CardinalityType

\* One alert more is counted where it falls.
LEMMA CountMore ==
  ASSUME NEW L, NEW C, NEW alerts \in Seq(AlertOf(L, C)), NEW alert \in AlertOf(L, C), NEW t \in Int
  PROVE  /\ Cardinality(Since(Append(alerts, alert), t)) =
              Cardinality(Since(alerts, t)) + (IF alert.at >= t THEN 1 ELSE 0)
         /\ Cardinality(WithinHour(Append(alerts, alert), t)) =
              Cardinality(WithinHour(alerts, t)) + (IF alert.at - t \in 0 .. Hour - 1 THEN 1 ELSE 0)
<1> DEFINE n == Len(alerts)
           more == Append(alerts, alert)
<1>1. /\ n \in Nat /\ DOMAIN alerts = 1..n /\ DOMAIN more = 1..(n + 1) /\ more[n + 1] = alert
      /\ \A i \in 1..n : more[i] = alerts[i]
  OBVIOUS
<1>2. IsFiniteSet(1..n) /\ \A i \in 1..(n + 1) : i \in 1..n \/ i = n + 1
  <2>1. 1 \in Int /\ n \in Int
    BY <1>1
  <2> HIDE DEF n
  <2>2. IsFiniteSet(1..n)
    BY <2>1, FS_Interval
  <2>3. \A i \in 1..(n + 1) : i \in 1..n \/ i = n + 1
    BY <1>1
  <2> QED
    BY <2>2, <2>3
<1>3. /\ Since(alerts, t) \subseteq 1..n /\ IsFiniteSet(Since(alerts, t))
      /\ n + 1 \notin Since(alerts, t)
  <2>1. Since(alerts, t) \subseteq 1..n
    BY <1>1 DEF Since
  <2> QED
    BY <1>1, <1>2, <2>1, FS_Subset
<1>4. /\ WithinHour(alerts, t) \subseteq 1..n /\ IsFiniteSet(WithinHour(alerts, t))
      /\ n + 1 \notin WithinHour(alerts, t)
  <2>1. WithinHour(alerts, t) \subseteq 1..n
    BY <1>1 DEF WithinHour
  <2> QED
    BY <1>1, <1>2, <2>1, FS_Subset
<1> HIDE DEF n, more
<1>5. Since(more, t) = IF alert.at >= t THEN Since(alerts, t) \cup {n + 1} ELSE Since(alerts, t)
  <2>1. \A i : i \in Since(more, t) <=> i \in Since(alerts, t) \/ (i = n + 1 /\ alert.at >= t)
    BY <1>1, <1>2 DEF Since
  <2> QED
    BY <2>1
<1>6. WithinHour(more, t) = IF alert.at - t \in 0 .. Hour - 1 THEN WithinHour(alerts, t) \cup {n + 1}
                            ELSE WithinHour(alerts, t)
  <2>1. \A i : i \in WithinHour(more, t) <=>
                 i \in WithinHour(alerts, t) \/ (i = n + 1 /\ alert.at - t \in 0 .. Hour - 1)
    BY <1>1, <1>2 DEF WithinHour
  <2> QED
    BY <2>1
<1>7. /\ Cardinality(Since(alerts, t)) \in Nat
      /\ Cardinality(Since(alerts, t) \cup {n + 1}) = Cardinality(Since(alerts, t)) + 1
  BY <1>3, FS_AddElement, FS_CardinalityType
<1>8. /\ Cardinality(WithinHour(alerts, t)) \in Nat
      /\ Cardinality(WithinHour(alerts, t) \cup {n + 1}) = Cardinality(WithinHour(alerts, t)) + 1
  BY <1>4, FS_AddElement, FS_CardinalityType
<1> QED
  BY <1>5, <1>6, <1>7, <1>8 DEF more

\* The pace of what is told when an hour began at start: no more than the budgets
\* of two hours, less the alert the first of them began with.  With one extra a
\* list has the bundle between two hours too.
Paced(extra, budget, alerts, start, used) ==
  /\ used \in 1..budget
  /\ Cardinality(Since(alerts, start + 1)) <= used - 1
  /\ Cardinality(Since(alerts, start)) <= used + extra
  /\ \A t \in Int : start - Hour < t /\ t <= start =>
       Cardinality(Since(alerts, t)) <= used + budget + 2 * extra - 1
  /\ \A t \in Int : Cardinality(WithinHour(alerts, t)) <= 2 * budget + 2 * extra - 1

\* The first alert of all.
LEMMA PacedFirst ==
  ASSUME NEW L, NEW C, NEW extra \in 0..1, NEW budget \in Nat \ {0}, NEW alert \in AlertOf(L, C)
  PROVE  Paced(extra, budget, Append(<<>>, alert), alert.at, 1)
<1> DEFINE tells == Append(<<>>, alert)
<1>1. <<>> \in Seq(AlertOf(L, C)) /\ alert.at \in Int
  BY DEF AlertOf
<1>2. \A t : Since(<<>>, t) = {} /\ WithinHour(<<>>, t) = {}
  BY DEF Since, WithinHour
<1>3. \A t \in Int : /\ Cardinality(Since(tells, t)) = IF alert.at >= t THEN 1 ELSE 0
                     /\ Cardinality(WithinHour(tells, t)) \in 0..1
  <2> SUFFICES ASSUME NEW t \in Int
               PROVE  /\ Cardinality(Since(tells, t)) = IF alert.at >= t THEN 1 ELSE 0
                      /\ Cardinality(WithinHour(tells, t)) \in 0..1
    OBVIOUS
  <2>1. Cardinality(Since(<<>>, t)) = 0 /\ Cardinality(WithinHour(<<>>, t)) = 0
    BY <1>2, FS_EmptySet
  <2>2. /\ Cardinality(Since(tells, t)) = 
              Cardinality(Since(<<>>, t)) + (IF alert.at >= t THEN 1 ELSE 0)
        /\ Cardinality(WithinHour(tells, t)) = Cardinality(WithinHour(<<>>, t))
              + (IF alert.at - t \in 0 .. Hour - 1 THEN 1 ELSE 0)
    <3> DEFINE none == <<>>
    <3>1. none \in Seq(AlertOf(L, C))
      BY <1>1
    <3> HIDE DEF none
    <3>2. /\ Cardinality(Since(Append(none, alert), t)) = 
                Cardinality(Since(none, t)) + (IF alert.at >= t THEN 1 ELSE 0)
          /\ Cardinality(WithinHour(Append(none, alert), t)) = Cardinality(WithinHour(none, t))
                + (IF alert.at - t \in 0 .. Hour - 1 THEN 1 ELSE 0)
      BY <3>1, CountMore
    <3> QED
      BY <3>2 DEF none
  <2> QED
    BY <2>1, <2>2
<1> HIDE DEF tells
<1>4. /\ Cardinality(Since(tells, alert.at + 1)) = 0 /\ Cardinality(Since(tells, alert.at)) = 1
      /\ \A t \in Int : Cardinality(Since(tells, t)) \in 0..1
  BY <1>1, <1>3
<1> QED
  BY <1>3, <1>4 DEF Paced, tells

\* The counts of a list with one alert more, as numbers.
Counted(alerts, tells, at) ==
  \A t \in Int :
     /\ Cardinality(Since(alerts, t)) \in Nat /\ Cardinality(WithinHour(alerts, t)) \in Nat
     /\ Cardinality(Since(tells, t)) \in Nat /\ Cardinality(WithinHour(tells, t)) \in Nat
     /\ Cardinality(Since(tells, t)) <= Cardinality(Since(alerts, t)) + 1
     /\ at < t => Cardinality(Since(tells, t)) = Cardinality(Since(alerts, t))
     /\ ~(t <= at /\ at < t + Hour) =>
          Cardinality(WithinHour(tells, t)) = Cardinality(WithinHour(alerts, t))
     /\ Cardinality(WithinHour(tells, t)) <= Cardinality(Since(tells, t))
     /\ \A u \in Int : t <= u => Cardinality(Since(tells, u)) <= Cardinality(Since(tells, t))

\* So they are when one alert is told.
LEMMA CountedMore ==
  ASSUME NEW L, NEW C, NEW alerts \in Seq(AlertOf(L, C)), NEW alert \in AlertOf(L, C)
  PROVE  Counted(alerts, Append(alerts, alert), alert.at)
<1> DEFINE tells == Append(alerts, alert)
<1>1. tells \in Seq(AlertOf(L, C)) /\ alert.at \in Int /\ Hour \in Nat
  BY AlertsAssumption DEF AlertOf
<1> HIDE DEF tells
<1> SUFFICES ASSUME NEW t \in Int
    PROVE
     /\ Cardinality(Since(alerts, t)) \in Nat /\ Cardinality(WithinHour(alerts, t)) \in Nat
     /\ Cardinality(Since(tells, t)) \in Nat /\ Cardinality(WithinHour(tells, t)) \in Nat
     /\ Cardinality(Since(tells, t)) <= Cardinality(Since(alerts, t)) + 1
     /\ alert.at < t => Cardinality(Since(tells, t)) = Cardinality(Since(alerts, t))
     /\ ~(t <= alert.at /\ alert.at < t + Hour) =>
          Cardinality(WithinHour(tells, t)) = Cardinality(WithinHour(alerts, t))
     /\ Cardinality(WithinHour(tells, t)) <= Cardinality(Since(tells, t))
     /\ \A u \in Int : t <= u => Cardinality(Since(tells, u)) <= Cardinality(Since(tells, t))
  BY DEF Counted, tells
<1>2. /\ Cardinality(Since(alerts, t)) \in Nat /\ Cardinality(WithinHour(alerts, t)) \in Nat
  BY CountSince
<1>3. /\ Cardinality(Since(tells, t)) \in Nat /\ Cardinality(WithinHour(tells, t)) \in Nat
      /\ Cardinality(WithinHour(tells, t)) <= Cardinality(Since(tells, t))
      /\ \A u \in Int : t <= u => Cardinality(Since(tells, u)) <= Cardinality(Since(tells, t))
  BY <1>1, CountSince
<1>4. /\ Cardinality(Since(tells, t)) = Cardinality(Since(alerts, t)) + (IF alert.at >= t THEN 1 ELSE 0)
      /\ Cardinality(WithinHour(tells, t)) = Cardinality(WithinHour(alerts, t))
           + (IF alert.at - t \in 0 .. Hour - 1 THEN 1 ELSE 0)
  BY CountMore DEF tells
<1>5. Cardinality(Since(tells, t)) <= Cardinality(Since(alerts, t)) + 1
  BY <1>2, <1>4
<1>6. ASSUME alert.at < t PROVE Cardinality(Since(tells, t)) = Cardinality(Since(alerts, t))
  BY <1>1, <1>2, <1>4, <1>6
<1>7. ASSUME ~(t <= alert.at /\ alert.at < t + Hour)
      PROVE  Cardinality(WithinHour(tells, t)) = Cardinality(WithinHour(alerts, t))
  <2>1. ~(alert.at - t \in 0 .. Hour - 1)
    BY <1>1, <1>7
  <2> QED
    BY <1>2, <1>4, <2>1
<1> QED
  BY <1>2, <1>3, <1>5, <1>6, <1>7

\* One more in the same hour.
LEMMA PacedSame ==
  ASSUME NEW L, NEW C, NEW extra \in 0..1, NEW budget \in Nat \ {0}, NEW alerts \in Seq(AlertOf(L, C)),
         NEW alert \in AlertOf(L, C), NEW start \in Int, NEW used \in Nat, used < budget,
         Paced(extra, budget, alerts, start, used),
         start < alert.at, alert.at - start < Hour
  PROVE  Paced(extra, budget, Append(alerts, alert), start, used + 1)
<1> DEFINE tells == Append(alerts, alert)
           N(t) == Cardinality(Since(alerts, t))
           M(t) == Cardinality(WithinHour(alerts, t))
           N1(t) == Cardinality(Since(tells, t))
           M1(t) == Cardinality(WithinHour(tells, t))
           at == alert.at
<1>1. at \in Int /\ Hour \in Nat
  BY AlertsAssumption DEF AlertOf
<1>2. \A t \in Int : /\ N(t) \in Nat /\ M(t) \in Nat /\ N1(t) \in Nat /\ M1(t) \in Nat
                     /\ N1(t) <= N(t) + 1 /\ M1(t) <= N1(t)
  BY CountedMore DEF Counted
<1>3. \A t \in Int : ~(t <= at /\ at < t + Hour) => M1(t) = M(t)
  BY CountedMore DEF Counted
<1>4. \A t, u \in Int : t <= u => N1(u) <= N1(t)
  <2> SUFFICES ASSUME NEW t \in Int PROVE \A u \in Int : t <= u => N1(u) <= N1(t)
    OBVIOUS
  <2> QED
    BY CountedMore DEF Counted
<1>5. /\ N(start + 1) <= used - 1 /\ N(start) <= used + extra
      /\ \A t \in Int : start - Hour < t /\ t <= start => N(t) <= used + budget + 2 * extra - 1
      /\ \A t \in Int : M(t) <= 2 * budget + 2 * extra - 1
  BY DEF Paced
<1>6. start < at /\ at - start < Hour
  OBVIOUS
<1> HIDE DEF N, M, N1, M1, at
<1>7. N1(start + 1) <= used /\ N1(start) <= used + 1 + extra
  <2>1. start + 1 \in Int
    OBVIOUS
  <2>2. N1(start + 1) \in Nat /\ N(start + 1) \in Nat /\ N1(start + 1) <= N(start + 1) + 1
    BY <1>2, <2>1
  <2>3. N1(start) \in Nat /\ N(start) \in Nat /\ N1(start) <= N(start) + 1
    BY <1>2
  <2> QED
    BY <1>5, <2>2, <2>3
<1>8. ASSUME NEW t \in Int, start - Hour < t, t <= start PROVE N1(t) <= used + 1 + budget + 2 * extra - 1
  <2>1. N(t) <= used + budget + 2 * extra - 1
    BY <1>5, <1>8
  <2>2. N1(t) \in Nat /\ N(t) \in Nat /\ N1(t) <= N(t) + 1
    BY <1>2
  <2> QED
    BY <2>1, <2>2
<1>9. ASSUME NEW t \in Int PROVE M1(t) <= 2 * budget + 2 * extra - 1
  <2>1. N1(t) \in Nat /\ M1(t) \in Nat /\ M(t) \in Nat /\ M1(t) <= N1(t)
    BY <1>2
  <2>2. CASE ~(t <= at /\ at < t + Hour)
    <3>1. M1(t) = M(t) /\ M(t) <= 2 * budget + 2 * extra - 1
      BY <1>3, <1>5, <2>2
    <3> QED
      BY <3>1
  <2>3. CASE t <= at /\ at < t + Hour /\ t <= start
    <3>1. start - Hour < t
      BY <1>1, <1>6, <2>3
    <3>2. N1(t) <= used + 1 + budget + 2 * extra - 1
      BY <1>8, <2>3, <3>1
    <3> QED
      BY <2>1, <3>2
  <2>4. CASE ~(t <= start)
    <3>1. start + 1 \in Int /\ start + 1 <= t
      BY <2>4
    <3>2. N1(t) <= N1(start + 1) /\ N1(start + 1) \in Nat
      BY <1>2, <1>4, <3>1
    <3> QED
      BY <1>7, <2>1, <3>2
  <2> QED
    BY <2>2, <2>3, <2>4
<1>10. used + 1 \in 1..budget /\ used = used + 1 - 1 
  OBVIOUS
<1> HIDE DEF tells
<1>11. Paced(extra, budget, tells, start, used + 1)
  <2>1. N1(start + 1) <= used + 1 - 1 /\ N1(start) <= used + 1 + extra
    BY <1>7, <1>10
  <2> QED
    BY <1>8, <1>9, <1>10, <2>1 DEF Paced, N1, M1
<1> QED
  BY <1>11 DEF tells

\* What an hour held back is told when it is over.
LEMMA PacedBundled ==
  ASSUME NEW L, NEW C, NEW budget \in Nat \ {0}, NEW alerts \in Seq(AlertOf(L, C)),
         NEW bundled \in AlertOf(L, C), NEW start \in Int, NEW used \in Nat,
         Paced(1, budget, alerts, start, used), bundled.at = start + Hour
  PROVE  /\ \A t \in Int : Cardinality(WithinHour(Append(alerts, bundled), t)) <= 2 * budget + 1
         /\ Cardinality(Since(Append(alerts, bundled), start + 1)) <= used
<1> DEFINE tells == Append(alerts, bundled)
           N(t) == Cardinality(Since(alerts, t))
           M(t) == Cardinality(WithinHour(alerts, t))
           N1(t) == Cardinality(Since(tells, t))
           M1(t) == Cardinality(WithinHour(tells, t))
           at == bundled.at
<1>0. Counted(alerts, tells, at)
  BY CountedMore
<1>1. at = start + Hour /\ Hour \in Nat \ {0} /\ used \in 1..budget
  BY AlertsAssumption DEF Paced
<1> HIDE DEF tells, at
<1>2. \A t \in Int : /\ N(t) \in Nat /\ M(t) \in Nat /\ N1(t) \in Nat /\ M1(t) \in Nat
                     /\ N1(t) <= N(t) + 1 /\ M1(t) <= N1(t)
  BY <1>0 DEF Counted
<1>3. \A t \in Int : ~(t <= at /\ at < t + Hour) => M1(t) = M(t)
  BY <1>0 DEF Counted
<1>4. \A t, u \in Int : t <= u => N1(u) <= N1(t)
  <2> SUFFICES ASSUME NEW t \in Int PROVE \A u \in Int : t <= u => N1(u) <= N1(t)
    OBVIOUS
  <2> QED
    BY <1>0 DEF Counted
<1>5. /\ N(start + 1) <= used - 1
      /\ \A t \in Int : M(t) <= 2 * budget + 1
  BY DEF Paced
<1> HIDE DEF N, M, N1, M1, at
<1>6. N1(start + 1) <= used /\ N1(start + 1) \in Nat
  <2>1. start + 1 \in Int
    OBVIOUS
  <2>2. N1(start + 1) \in Nat /\ N(start + 1) \in Nat /\ N1(start + 1) <= N(start + 1) + 1
    BY <1>2, <2>1
  <2> QED
    BY <1>5, <2>2
<1>7. ASSUME NEW t \in Int PROVE M1(t) <= 2 * budget + 1
  <2>1. N1(t) \in Nat /\ M1(t) \in Nat /\ M(t) \in Nat /\ M1(t) <= N1(t)
    BY <1>2
  <2>2. CASE t <= start
    <3>1. ~(t <= at /\ at < t + Hour)
      BY <1>1, <2>2
    <3>2. M1(t) = M(t) /\ M(t) <= 2 * budget + 1
      BY <1>3, <1>5, <3>1
    <3> QED
      BY <3>2
  <2>3. CASE ~(t <= start)
    <3>1. start + 1 \in Int /\ start + 1 <= t
      BY <2>3
    <3>2. N1(t) <= N1(start + 1)
      BY <1>4, <3>1
    <3> QED
      BY <1>1, <1>6, <2>1, <3>2
  <2> QED
    BY <2>2, <2>3
<1> QED
  BY <1>6, <1>7 DEF N1, M1, tells

\* The first alert of a new hour, when no alert was told as late as it and those
\* of the hour before were within its budget.
LEMMA PacedAnew ==
  ASSUME NEW L, NEW C, NEW extra \in 0..1, NEW budget \in Nat \ {0}, NEW alerts \in Seq(AlertOf(L, C)),
         NEW alert \in AlertOf(L, C), NEW start \in Int, start + Hour <= alert.at,
         \A t \in Int : Cardinality(WithinHour(alerts, t)) <= 2 * budget + 2 * extra - 1,
         Cardinality(Since(alerts, start + 1)) <= budget - 1 + extra,
         Cardinality(Since(alerts, alert.at)) <= extra,
         Cardinality(Since(alerts, alert.at + 1)) = 0
  PROVE  Paced(extra, budget, Append(alerts, alert), alert.at, 1)
<1> DEFINE tells == Append(alerts, alert)
           N(t) == Cardinality(Since(alerts, t))
           M(t) == Cardinality(WithinHour(alerts, t))
           N1(t) == Cardinality(Since(tells, t))
           M1(t) == Cardinality(WithinHour(tells, t))
           at == alert.at
<1>0. Counted(alerts, tells, at)
  BY CountedMore
<1>1. at \in Int /\ start + Hour <= at /\ Hour \in Nat \ {0}
  BY AlertsAssumption DEF AlertOf
<1> HIDE DEF tells, at
<1>2. \A t \in Int : /\ N(t) \in Nat /\ M(t) \in Nat /\ N1(t) \in Nat /\ M1(t) \in Nat
                     /\ N1(t) <= N(t) + 1 /\ M1(t) <= N1(t)
                     /\ at < t => N1(t) = N(t)
  BY <1>0 DEF Counted
<1>3. \A t \in Int : ~(t <= at /\ at < t + Hour) => M1(t) = M(t)
  BY <1>0 DEF Counted
<1>4. \A t, u \in Int : t <= u => N1(u) <= N1(t)
  <2> SUFFICES ASSUME NEW t \in Int PROVE \A u \in Int : t <= u => N1(u) <= N1(t)
    OBVIOUS
  <2> QED
    BY <1>0 DEF Counted
<1>5. N(start + 1) <= budget - 1 + extra /\ N(at) <= extra /\ N(at + 1) = 0 /\ \A t \in Int : M(t) <= 2 * budget + 2 * extra - 1
  BY DEF at
<1> HIDE DEF N, M, N1, M1, at
<1>6. N1(start + 1) <= budget + extra /\ N1(start + 1) \in Nat
  <2>1. start + 1 \in Int
    OBVIOUS
  <2>2. N1(start + 1) \in Nat /\ N(start + 1) \in Nat /\ N1(start + 1) <= N(start + 1) + 1
    BY <1>2, <2>1
  <2> QED
    BY <1>5, <2>2
<1>7. N1(at + 1) = 0 /\ N1(at) <= 1 + extra
  <2>1. at + 1 \in Int /\ at < at + 1
    BY <1>1
  <2>2. N1(at + 1) = N(at + 1)
    BY <1>2, <2>1
  <2>3. N1(at) \in Nat /\ N(at) \in Nat /\ N1(at) <= N(at) + 1
    BY <1>1, <1>2
  <2> QED
    BY <1>5, <2>2, <2>3
<1>8. ASSUME NEW t \in Int, start < t PROVE N1(t) <= budget + extra /\ N1(t) \in Nat
  <2>1. start + 1 \in Int /\ start + 1 <= t
    BY <1>8
  <2>2. N1(t) <= N1(start + 1) /\ N1(t) \in Nat
    BY <1>2, <1>4, <2>1
  <2> QED
    BY <1>6, <2>2
<1>9. ASSUME NEW t \in Int, at - Hour < t PROVE N1(t) <= 1 + budget + 2 * extra - 1
  <2>1. start < t
    BY <1>1, <1>9
  <2> QED
    BY <1>8, <2>1
<1>10. ASSUME NEW t \in Int PROVE M1(t) <= 2 * budget + 2 * extra - 1
  <2>1. N1(t) \in Nat /\ M1(t) \in Nat /\ M(t) \in Nat /\ M1(t) <= N1(t)
    BY <1>2
  <2>2. CASE t <= start
    <3>1. ~(t <= at /\ at < t + Hour)
      BY <1>1, <2>2
    <3>2. M1(t) = M(t) /\ M(t) <= 2 * budget + 2 * extra - 1
      BY <1>3, <1>5, <3>1
    <3> QED
      BY <3>2
  <2>3. CASE ~(t <= start)
    <3>1. N1(t) <= budget + extra
      BY <1>8, <2>3
    <3> QED
      BY <2>1, <3>1
  <2> QED
    BY <2>2, <2>3
<1> HIDE DEF tells
<1>11. Paced(extra, budget, tells, at, 1)
  <2>1. N1(at + 1) <= 1 - 1 /\ N1(at) <= 1 + extra /\ 1 \in 1..budget
    BY <1>7
  <2> QED
    BY <1>9, <1>10, <2>1 DEF Paced, N1, M1
<1> QED
  BY <1>11 DEF tells, at

------------------------------------------------------------------------------
(* The stream: what an offer does to each field of the gate.                 *)

\* A gate, field by field.
Gated(streak, last, start, used, overflow, raw, withheld, dwelt, cooled, merged, emitted, first, latest) ==
  [streak |-> streak, last |-> last, start |-> start, used |-> used, overflow |-> overflow,
   raw |-> raw, withheld |-> withheld, dwelt |-> dwelt, cooled |-> cooled, merged |-> merged,
   emitted |-> emitted, first |-> first, latest |-> latest]

\* When the hour an alert comes in began.
Begun(sa, alert) == IF sa = {} THEN alert.at ELSE CHOOSE t \in sa : TRUE

\* An alert in the hour that is running is told within the budget, or held back.
LEMMA ThroughSame ==
  ASSUME NEW st, NEW la, NEW sa, NEW us, NEW ov, NEW ra, NEW wi, NEW dw, NEW co, NEW me,
         NEW em, NEW fi, NEW lt, NEW rule, NEW alert,
         ~(alert.at - Begun(sa, alert) >= Hour), alert.at - Begun(sa, alert) < Hour
  PROVE  ThroughBudget(rule, Gated(st, la, sa, us, ov, ra, wi, dw, co, me, em, fi, lt), alert).gate =
           IF us < rule.budget
           THEN Gated(st, la, {Begun(sa, alert)}, us + 1, ov, ra, wi, dw, co, me, Append(em, alert), fi, lt)
           ELSE Gated(st, la, {Begun(sa, alert)}, us, ov + 1, ra, wi, dw, co, me, em, fi, lt)
<1> DEFINE sn == {Begun(sa, alert)}
           ea == Append(em, alert)
           old == Gated(st, la, sa, us, ov, ra, wi, dw, co, me, em, fi, lt)
           g == Gated(st, la, sn, us, ov, ra, wi, dw, co, me, em, fi, lt)
<1> HIDE DEF sn, ea
<1>1. old.start = sa /\ old.used = us /\ old.overflow = ov /\ old.emitted = em
  BY DEF Gated
<1>2. [old EXCEPT !.start = sn] = g
  BY DEF Gated
<1>3. g.used = us /\ g.overflow = ov /\ g.emitted = em
  BY DEF Gated
<1>4. [g EXCEPT !.overflow = ov + 1] = Gated(st, la, sn, us, ov + 1, ra, wi, dw, co, me, em, fi, lt)
  BY DEF Gated
<1>5. [g EXCEPT !.used = us + 1, !.emitted = ea] = Gated(st, la, sn, us + 1, ov, ra, wi, dw, co, me, ea, fi, lt)
  <2> DEFINE h == Gated(st, la, sn, us + 1, ov, ra, wi, dw, co, me, em, fi, lt)
  <2>1. [g EXCEPT !.used = us + 1, !.emitted = ea] = [[g EXCEPT !.used = us + 1] EXCEPT !.emitted = ea]
    BY DEF Gated
  <2>2. [g EXCEPT !.used = us + 1] = h
    BY DEF Gated
  <2>3. [h EXCEPT !.emitted = ea] = Gated(st, la, sn, us + 1, ov, ra, wi, dw, co, me, ea, fi, lt)
    BY DEF Gated
  <2> HIDE DEF g, h
  <2> QED
    BY <2>1, <2>2, <2>3
<1> DEFINE next == ThroughBudget(rule, old, alert)
<1> HIDE DEF old, g
<1>6. CASE us < rule.budget
  <2>1. next = [gate |-> [g EXCEPT !.used = us + 1, !.emitted = ea], said |-> <<alert>>]
    BY <1>1, <1>2, <1>3, <1>6, Zenon DEF ThroughBudget, Begun, sn, ea
  <2>2. next.gate = [g EXCEPT !.used = us + 1, !.emitted = ea]
    <3> HIDE DEF next
    <3> QED
      BY <2>1
  <2> QED
    BY <1>5, <1>6, <2>2, Zenon DEF old, sn, ea
<1>7. CASE ~(us < rule.budget)
  <2>1. next.gate = [g EXCEPT !.overflow = ov + 1]
    <3>1. \E said : next = [gate |-> [g EXCEPT !.overflow = ov + 1], said |-> said]
      BY <1>1, <1>2, <1>3, <1>7, Zenon DEF ThroughBudget, Begun, sn
    <3> HIDE DEF next
    <3> QED
      BY <3>1
  <2> QED
    BY <1>4, <1>7, <2>1, Zenon DEF old, sn
<1> QED
  BY <1>6, <1>7

\* The first alert of a new hour is told after what the old hour held back.
LEMMA ThroughAnew ==
  ASSUME NEW st, NEW la, NEW sa, NEW us, NEW ov, NEW ra, NEW wi, NEW dw, NEW co, NEW me,
         NEW em, NEW fi, NEW lt, NEW rule, NEW alert,
         alert.at - Begun(sa, alert) >= Hour, 0 < rule.budget
  PROVE  ThroughBudget(rule, Gated(st, la, sa, us, ov, ra, wi, dw, co, me, em, fi, lt), alert).gate =
           Gated(st, la, {alert.at}, 0 + 1, 0, ra, wi, dw, co, me + ov, Append(em \o Bundled(Begun(sa, alert), alert, ov), alert), fi, lt)
<1> DEFINE old == Gated(st, la, sa, us, ov, ra, wi, dw, co, me, em, fi, lt)
           mo == me + ov
           eb == em \o Bundled(Begun(sa, alert), alert, ov)
           sn == {alert.at}
           ea == Append(eb, alert)
           g == Gated(st, la, sn, 0, 0, ra, wi, dw, co, mo, eb, fi, lt)
<1>1. old.start = sa /\ old.used = us /\ old.overflow = ov /\ old.emitted = em /\ old.merged = me
  BY DEF Gated
<1> HIDE DEF mo, eb, sn, ea
<1>2. [old EXCEPT !.emitted = eb, !.merged = mo, !.start = sn, !.used = 0, !.overflow = 0] = g
  <2> DEFINE g1 == Gated(st, la, sa, us, ov, ra, wi, dw, co, me, eb, fi, lt)
             g2 == Gated(st, la, sa, us, ov, ra, wi, dw, co, mo, eb, fi, lt)
             g3 == Gated(st, la, sn, us, ov, ra, wi, dw, co, mo, eb, fi, lt)
             g4 == Gated(st, la, sn, 0, ov, ra, wi, dw, co, mo, eb, fi, lt)
  <2>1. [old EXCEPT !.emitted = eb, !.merged = mo, !.start = sn, !.used = 0, !.overflow = 0]
          = [[[[[old EXCEPT !.emitted = eb] EXCEPT !.merged = mo] EXCEPT !.start = sn]
               EXCEPT !.used = 0] EXCEPT !.overflow = 0]
    BY DEF Gated
  <2>2. [old EXCEPT !.emitted = eb] = g1
    BY DEF Gated
  <2>3. [g1 EXCEPT !.merged = mo] = g2
    BY DEF Gated
  <2>4. [g2 EXCEPT !.start = sn] = g3
    BY DEF Gated
  <2>5. [g3 EXCEPT !.used = 0] = g4
    BY DEF Gated
  <2>6. [g4 EXCEPT !.overflow = 0] = g
    BY DEF Gated
  <2> HIDE DEF old, g, g1, g2, g3, g4
  <2> QED
    BY <2>1, <2>2, <2>3, <2>4, <2>5, <2>6
<1>3. g.used = 0 /\ g.overflow = 0 /\ g.emitted = eb
  BY DEF Gated
<1>4. [g EXCEPT !.used = 0 + 1, !.emitted = ea]
        = Gated(st, la, sn, 0 + 1, 0, ra, wi, dw, co, mo, ea, fi, lt)
  <2> DEFINE h == Gated(st, la, sn, 0 + 1, 0, ra, wi, dw, co, mo, eb, fi, lt)
  <2>1. [g EXCEPT !.used = 0 + 1, !.emitted = ea] = [[g EXCEPT !.used = 0 + 1] EXCEPT !.emitted = ea]
    BY DEF Gated
  <2>2. [g EXCEPT !.used = 0 + 1] = h
    BY DEF Gated
  <2>3. [h EXCEPT !.emitted = ea] = Gated(st, la, sn, 0 + 1, 0, ra, wi, dw, co, mo, ea, fi, lt)
    BY DEF Gated
  <2> HIDE DEF g, h
  <2> QED
    BY <2>1, <2>2, <2>3
<1> DEFINE next == ThroughBudget(rule, old, alert)
<1> HIDE DEF old, g
<1>5. next = [gate |-> [g EXCEPT !.used = 0 + 1, !.emitted = ea], said |-> <<alert>>]
  BY <1>1, <1>2, <1>3, Zenon DEF ThroughBudget, Begun, mo, eb, sn, ea
<1>6. next.gate = [g EXCEPT !.used = 0 + 1, !.emitted = ea]
  <2> HIDE DEF next
  <2> QED
    BY <1>5
<1> QED
  BY <1>4, <1>6, Zenon DEF old, mo, eb, sn, ea

\* When the first judgement came, with one more.
Began(fi, signal) == IF fi = {} THEN {signal.at} ELSE fi

\* An offer that tells nobody.
Silent(answer, g) == answer.gate = g /\ answer.said = <<>>

\* The five ways of an offer.
Ways(answer, rule, signal, st, la, sa, us, ov, ra, wi, dw, co, me, em, fi, lt) ==
  LET ff == Began(fi, signal)
      tt == {signal.at}
      soon == \E t \in la : signal.at - t < rule.cooldown IN
  /\ ~Calls(rule, signal) =>
       Silent(answer, Gated(0, la, sa, us, ov, ra, wi, dw, co, me, em, ff, tt))
  /\ Calls(rule, signal) /\ ~Confident(rule, signal) =>
       Silent(answer, Gated(0, la, sa, us, ov, ra + 1, wi + 1, dw, co, me, em, ff, tt))
  /\ Calls(rule, signal) /\ Confident(rule, signal) /\ st + 1 < rule.dwell =>
       Silent(answer, Gated(st + 1, la, sa, us, ov, ra + 1, wi, dw + 1, co, me, em, ff, tt))
  /\ Calls(rule, signal) /\ Confident(rule, signal) /\ ~(st + 1 < rule.dwell) /\ soon =>
       Silent(answer, Gated(st + 1, la, sa, us, ov, ra + 1, wi, dw, co + 1, me, em, ff, tt))
  /\ Calls(rule, signal) /\ Confident(rule, signal) /\ ~(st + 1 < rule.dwell) /\ ~soon =>
       answer = ThroughBudget(rule, Gated(st + 1, tt, sa, us, ov, ra + 1, wi, dw, co, me, em, ff, tt),
                              Of(signal))

\* An offer goes one of them.
LEMMA OfferForms ==
  ASSUME NEW st, NEW la, NEW sa, NEW us, NEW ov, NEW ra, NEW wi, NEW dw, NEW co, NEW me,
         NEW em, NEW fi, NEW lt, NEW rule, NEW signal
  PROVE  Ways(Offer(rule, Gated(st, la, sa, us, ov, ra, wi, dw, co, me, em, fi, lt), signal),
              rule, signal, st, la, sa, us, ov, ra, wi, dw, co, me, em, fi, lt)
<1> DEFINE ff == Began(fi, signal)
           tt == {signal.at}
           old == Gated(st, la, sa, us, ov, ra, wi, dw, co, me, em, fi, lt)
           g == Gated(st, la, sa, us, ov, ra, wi, dw, co, me, em, ff, tt)
           r == Gated(st, la, sa, us, ov, ra + 1, wi, dw, co, me, em, ff, tt)
           s == Gated(st + 1, la, sa, us, ov, ra + 1, wi, dw, co, me, em, ff, tt)
           calm == Gated(0, la, sa, us, ov, ra, wi, dw, co, me, em, ff, tt)
           held == Gated(0, la, sa, us, ov, ra + 1, wi + 1, dw, co, me, em, ff, tt)
           dwelt == Gated(st + 1, la, sa, us, ov, ra + 1, wi, dw + 1, co, me, em, ff, tt)
           cooled == Gated(st + 1, la, sa, us, ov, ra + 1, wi, dw, co + 1, me, em, ff, tt)
           alone == Gated(st + 1, tt, sa, us, ov, ra + 1, wi, dw, co, me, em, ff, tt)
           h1 == Gated(st, la, sa, us, ov, ra, wi, dw, co, me, em, ff, lt)
           h2 == Gated(0, la, sa, us, ov, ra + 1, wi, dw, co, me, em, ff, tt)
<1> HIDE DEF ff, tt
<1>1. old.first = fi /\ g.raw = ra /\ r.streak = st /\ r.withheld = wi /\ s.streak = st + 1
  BY DEF Gated
<1>2. s.dwelt = dw /\ s.cooled = co /\ s.last = la
  BY DEF Gated
<1>3. [old EXCEPT !.first = ff, !.latest = tt] = g
  <2>1. [old EXCEPT !.first = ff, !.latest = tt] = [[old EXCEPT !.first = ff] EXCEPT !.latest = tt]
    BY DEF Gated
  <2>2. [old EXCEPT !.first = ff] = h1
    BY DEF Gated
  <2>3. [h1 EXCEPT !.latest = tt] = g
    BY DEF Gated
  <2> HIDE DEF old, g, h1
  <2> QED
    BY <2>1, <2>2, <2>3
<1>4. [g EXCEPT !.raw = ra + 1] = r
  BY DEF Gated
<1>5. [r EXCEPT !.streak = st + 1] = s
  BY DEF Gated
<1>6. [g EXCEPT !.streak = 0] = calm
  BY DEF Gated
<1>7. [r EXCEPT !.streak = 0, !.withheld = wi + 1] = held
  <2>1. [r EXCEPT !.streak = 0, !.withheld = wi + 1] = [[r EXCEPT !.streak = 0] EXCEPT !.withheld = wi + 1]
    BY DEF Gated
  <2>2. [r EXCEPT !.streak = 0] = h2
    BY DEF Gated
  <2>3. [h2 EXCEPT !.withheld = wi + 1] = held
    BY DEF Gated
  <2> HIDE DEF r, h2, held
  <2> QED
    BY <2>1, <2>2, <2>3
<1>8. [s EXCEPT !.dwelt = dw + 1] = dwelt
  BY DEF Gated
<1>9. [s EXCEPT !.cooled = co + 1] = cooled
  BY DEF Gated
<1>10. [s EXCEPT !.last = tt] = alone
  BY DEF Gated
<1> DEFINE next == Offer(rule, old, signal)
<1> HIDE DEF old, g, r, s, calm, held, dwelt, cooled, alone, h1, h2
<1>11. ASSUME ~Calls(rule, signal) PROVE next = [gate |-> calm, said |-> <<>>]
  BY <1>1, <1>3, <1>6, <1>11, Zenon DEF Offer, Began, ff, tt
<1>12. ASSUME Calls(rule, signal), ~Confident(rule, signal)
       PROVE  next = [gate |-> held, said |-> <<>>]
  BY <1>1, <1>3, <1>4, <1>7, <1>12, Zenon DEF Offer, Began, ff, tt
<1>13. ASSUME Calls(rule, signal), Confident(rule, signal), st + 1 < rule.dwell
       PROVE  next = [gate |-> dwelt, said |-> <<>>]
  BY <1>1, <1>2, <1>3, <1>4, <1>5, <1>8, <1>13, Zenon DEF Offer, Began, ff, tt
<1> DEFINE soon == \E t \in la : signal.at - t < rule.cooldown
<1>14. soon <=> \E t \in s.last : signal.at - t < rule.cooldown
  BY <1>2, Zenon
<1> HIDE DEF soon
<1>15. ASSUME Calls(rule, signal), Confident(rule, signal), ~(st + 1 < rule.dwell), soon
       PROVE  next = [gate |-> cooled, said |-> <<>>]
  BY <1>1, <1>2, <1>3, <1>4, <1>5, <1>9, <1>14, <1>15, Zenon DEF Offer, Began, ff, tt
<1>16. ASSUME Calls(rule, signal), Confident(rule, signal), ~(st + 1 < rule.dwell), ~soon
       PROVE  next = ThroughBudget(rule, alone, Of(signal))
  BY <1>1, <1>2, <1>3, <1>4, <1>5, <1>10, <1>14, <1>16, Zenon DEF Offer, Began, ff, tt
<1> HIDE DEF next
<1>17. \A g0 : next = [gate |-> g0, said |-> <<>>] => Silent(next, g0)
  BY DEF Silent
<1>18. /\ ~Calls(rule, signal) => Silent(next, calm)
       /\ Calls(rule, signal) /\ ~Confident(rule, signal) => Silent(next, held)
       /\ Calls(rule, signal) /\ Confident(rule, signal) /\ st + 1 < rule.dwell => Silent(next, dwelt)
       /\ Calls(rule, signal) /\ Confident(rule, signal) /\ ~(st + 1 < rule.dwell) /\ soon =>
            Silent(next, cooled)
       /\ Calls(rule, signal) /\ Confident(rule, signal) /\ ~(st + 1 < rule.dwell) /\ ~soon =>
            next = ThroughBudget(rule, alone, Of(signal))
  BY <1>11, <1>12, <1>13, <1>15, <1>16, <1>17, Zenon
<1> QED
  BY <1>18, Zenon DEF Ways, next, old, calm, held, dwelt, cooled, alone, ff, tt, soon

------------------------------------------------------------------------------
(* Step by step the stream and the batch are the same.                       *)

\* A bundle follows what was told, if the hour held anything back.
LEMMA BundledAppend ==
  ASSUME NEW T, NEW tells \in Seq(T), NEW start, NEW of, NEW o
  PROVE  tells \o Bundled(start, of, o) =
           IF o = 0 THEN tells ELSE Append(tells, Alert(start + Hour, of, o))
<1>1. tells \o <<>> = tells
  OBVIOUS
<1>2. \A e : tells \o <<e>> = Append(tells, e)
  OBVIOUS
<1> QED
  BY <1>1, <1>2 DEF Bundled

\* What the budget made of the alerts so far, all of them told before now: each
\* is told, alone or in a bundle, or waits; and its pace.
Kept(rule, alerts, em, sa, us, ov, me, now) ==
  /\ ov + Merged(em) = Len(alerts)
  /\ \A i \in DOMAIN em : em[i].at < now
  /\ IF alerts = <<>> THEN em = <<>> /\ sa = {} /\ us = 0 /\ ov = 0 /\ me = 0
     ELSE \E s \in Int :
            /\ sa = {s} /\ s < now /\ em # <<>>
            /\ SpentBy(rule, alerts[1].at, alerts) = Spending(em, s, us, ov, me)
            /\ Paced(1, rule.budget, em, s, us)

\* What was told, and the hour's counts, are of their kind.
LEMMA KeptFields ==
  ASSUME NEW L, NEW C, NEW rule, NEW alerts \in Seq(AlertOf(L, C)), alerts # <<>>,
         NEW em, NEW s, NEW us, NEW ov, NEW me,
         SpentBy(rule, alerts[1].at, alerts) = Spending(em, s, us, ov, me)
  PROVE  em \in Seq(AlertOf(L, C)) /\ s \in Int /\ us \in Nat /\ ov \in Nat /\ me \in Nat
<1> DEFINE spent == Spending(em, s, us, ov, me)
<1>1. alerts[1].at \in Int
  <2>1. alerts[1] \in AlertOf(L, C)
    OBVIOUS
  <2> QED
    BY <2>1 DEF AlertOf
<1>2. spent \in SpentOf(L, C)
  BY <1>1, SpentByIn
<1>3. spent.kept = em /\ spent.start = s /\ spent.used = us /\ spent.overflow = ov /\ spent.merged = me
  BY DEF Spending
<1> HIDE DEF spent
<1> QED
  BY <1>2, <1>3, SpentIsSpent

\* Every alert of a list has its time.
LEMMA AtIsInt ==
  ASSUME NEW L, NEW C, NEW tells \in Seq(AlertOf(L, C))
  PROVE  \A i \in DOMAIN tells : tells[i] \in AlertOf(L, C) /\ tells[i].at \in Int
<1>1. \A i \in DOMAIN tells : tells[i] \in AlertOf(L, C)
  OBVIOUS
<1>2. \A e \in AlertOf(L, C) : e.at \in Int
  BY DEF AlertOf
<1> QED
  BY <1>1, <1>2

\* Told before now, one more now: all told before what comes next.
LEMMA ToldBefore ==
  ASSUME NEW L, NEW C, NEW tells \in Seq(AlertOf(L, C)), NEW now \in Int,
         \A i \in DOMAIN tells : tells[i].at < now
  PROVE  /\ \A i \in DOMAIN tells : tells[i].at < now + 1
         /\ \A e \in AlertOf(L, C) : e.at <= now =>
              /\ Append(tells, e) # <<>>
              /\ \A i \in DOMAIN Append(tells, e) : Append(tells, e)[i].at < now + 1
<1>1. \A i \in DOMAIN tells : tells[i].at < now + 1
  BY AtIsInt
<1>2. ASSUME NEW e \in AlertOf(L, C), e.at <= now
      PROVE  /\ Append(tells, e) # <<>>
             /\ \A i \in DOMAIN Append(tells, e) : Append(tells, e)[i].at < now + 1
  <2> DEFINE more == Append(tells, e)
             n == Len(tells)
  <2>1. n \in Nat /\ DOMAIN tells = 1..n /\ DOMAIN more = 1..(n + 1) /\ more[n + 1] = e /\ more # <<>>
    OBVIOUS
  <2>2. \A i \in 1..n : more[i] = tells[i]
    OBVIOUS
  <2>3. e.at \in Int
    BY DEF AlertOf
  <2> HIDE DEF more, n
  <2>4. \A i \in 1..(n + 1) : i \in 1..n \/ i = n + 1
    BY <2>1
  <2>5. e.at < now + 1
    BY <1>2, <2>3
  <2>6. \A i \in 1..(n + 1) : more[i].at < now + 1
    BY <1>1, <2>1, <2>2, <2>4, <2>5
  <2> QED
    BY <2>1, <2>6 DEF more
<1> QED
  BY <1>1, <1>2

\* The ways of one alert more: the first of all,
LEMMA KeptFirst ==
  ASSUME NEW L, NEW C, NEW rule, rule.budget \in Nat \ {0}, NEW alert \in AlertOf(L, C), alert.merged = 1
  PROVE  Kept(rule, Append(<<>>, alert), Append(<<>>, alert), {alert.at}, 0 + 1, 0, 0, alert.at + 1)
<1> DEFINE none == <<>>
           one == Append(none, alert)
           at == alert.at
<1>1. none \in Seq(AlertOf(L, C)) /\ one # <<>> /\ one[1] = alert /\ Len(one) = 1 /\ DOMAIN one = {1}
  OBVIOUS
<1>2. at \in Int
  BY DEF AlertOf
<1>3. Merged(none) = 0 /\ SpentBy(rule, at, none) = Spending(none, at, 0, 0, 0)
  BY <1>2, MergedNone, SpentByNone
<1>4. Paced(1, rule.budget, one, at, 1)
  <2>1. 1 \in 0..1
    OBVIOUS
  <2> QED
    BY <2>1, PacedFirst
<1> HIDE DEF none
<1>5. Merged(one) = Merged(none) + alert.merged
  BY <1>1, MergedMore, MergedIn
<1>6. SpentBy(rule, at, one) = Spend(rule, Spending(none, at, 0, 0, 0), alert)
  BY <1>1, <1>2, <1>3, SpentByMore
<1>7. Spend(rule, Spending(none, at, 0, 0, 0), alert) = Spending(one, at, 0 + 1, 0, 0)
  <2>1. alert.at - at < Hour /\ 0 < rule.budget
    BY <1>2, AlertsAssumption
  <2> HIDE DEF at, one
  <2>2. Spend(rule, Spending(none, at, 0, 0, 0), alert) = Spending(Append(none, alert), at, 0 + 1, 0, 0)
    BY <2>1, SpendForms
  <2> QED
    BY <2>2 DEF one
<1> HIDE DEF one, at
<1>8. 0 + Merged(one) = Len(one) /\ at < at + 1 /\ 0 + 1 = 1
  BY <1>1, <1>2, <1>3, <1>5
<1>9. \A i \in DOMAIN one : one[i].at < at + 1
  BY <1>1, <1>8 DEF at
<1>10. one[1].at = at
  BY <1>1 DEF at
<1>11. Kept(rule, one, one, {at}, 0 + 1, 0, 0, at + 1)
  <2>1. /\ {at} = {at} /\ at < at + 1 /\ one # <<>>
        /\ SpentBy(rule, one[1].at, one) = Spending(one, at, 0 + 1, 0, 0)
        /\ Paced(1, rule.budget, one, at, 0 + 1)
    BY <1>1, <1>4, <1>6, <1>7, <1>8, <1>10
  <2> QED
    BY <1>1, <1>2, <1>8, <1>9, <2>1 DEF Kept
<1> QED
  BY <1>11 DEF one, none, at

\* one in the same hour, within the budget or held back,
LEMMA KeptSame ==
  ASSUME NEW L, NEW C, NEW rule, rule.budget \in Nat \ {0},
         NEW alerts \in Seq(AlertOf(L, C)), alerts # <<>>, NEW alert \in AlertOf(L, C), alert.merged = 1,
         NEW s \in Int, NEW us, NEW ov, NEW me, NEW em,
         Kept(rule, alerts, em, {s}, us, ov, me, alert.at), alert.at - s < Hour
  PROVE  IF us < rule.budget
         THEN Kept(rule, Append(alerts, alert), Append(em, alert), {s}, us + 1, ov, me, alert.at + 1)
         ELSE Kept(rule, Append(alerts, alert), em, {s}, us, ov + 1, me, alert.at + 1)
<1> DEFINE more == Append(alerts, alert)
           tells == Append(em, alert)
           at == alert.at
           from == alerts[1].at
<1>1. at \in Int /\ Len(more) = Len(alerts) + 1 /\ more # <<>> /\ more[1] = alerts[1] /\ Len(alerts) \in Nat
  <2>1. Len(more) = Len(alerts) + 1 /\ more # <<>> /\ more[1] = alerts[1] /\ Len(alerts) \in Nat
    OBVIOUS
  <2>2. at \in Int
    BY DEF AlertOf
  <2> HIDE DEF more, at
  <2> QED
    BY <2>1, <2>2
<1>2. /\ s < at /\ em # <<>>
      /\ SpentBy(rule, from, alerts) = Spending(em, s, us, ov, me)
      /\ Paced(1, rule.budget, em, s, us)
      /\ ov + Merged(em) = Len(alerts) /\ \A i \in DOMAIN em : em[i].at < at
  BY DEF Kept
<1>3. em \in Seq(AlertOf(L, C)) /\ us \in Nat /\ ov \in Nat /\ me \in Nat
  BY <1>2, KeptFields
<1>4. from \in Int
  BY AtIsInt
<1> HIDE DEF from
<1>5. SpentBy(rule, from, more) = Spend(rule, Spending(em, s, us, ov, me), alert)
  BY <1>2, <1>4, SpentByMore
<1>6. Spend(rule, Spending(em, s, us, ov, me), alert) =
        IF us < rule.budget THEN Spending(tells, s, us + 1, ov, me) ELSE Spending(em, s, us, ov + 1, me)
  BY SpendForms
<1>7. Merged(tells) = Merged(em) + alert.merged /\ Merged(em) \in Nat
  BY <1>3, MergedMore, MergedIn
<1>8. /\ tells # <<>> /\ \A i \in DOMAIN tells : tells[i].at < at + 1
      /\ \A i \in DOMAIN em : em[i].at < at + 1
  <2>1. alert.at <= at
    BY <1>1
  <2> HIDE DEF at
  <2> QED
    BY <1>1, <1>2, <1>3, <2>1, ToldBefore
<1>9. s < at + 1
  BY <1>1, <1>2
<1>10. CASE us < rule.budget
  <2>1. Paced(1, rule.budget, tells, s, us + 1)
    <3>1. 1 \in 0..1
      OBVIOUS
    <3> QED
      BY <1>2, <1>3, <1>10, <3>1, PacedSame
  <2> HIDE DEF tells, more, at
  <2>2. ov + Merged(tells) = Len(more)
    BY <1>1, <1>2, <1>3, <1>7
  <2>3. SpentBy(rule, more[1].at, more) = Spending(tells, s, us + 1, ov, me)
    BY <1>1, <1>5, <1>6, <1>10 DEF from
  <2>4. Kept(rule, more, tells, {s}, us + 1, ov, me, at + 1)
    BY <1>1, <1>8, <1>9, <2>1, <2>2, <2>3 DEF Kept
  <2> QED
    BY <1>10, <2>4 DEF tells, more, at
<1>11. CASE ~(us < rule.budget)
  <2> HIDE DEF tells, more, at
  <2>1. ov + 1 + Merged(em) = Len(more)
    BY <1>1, <1>2, <1>3, <1>7
  <2>2. SpentBy(rule, more[1].at, more) = Spending(em, s, us, ov + 1, me)
    BY <1>1, <1>5, <1>6, <1>11 DEF from
  <2>3. Kept(rule, more, em, {s}, us, ov + 1, me, at + 1)
    BY <1>1, <1>2, <1>8, <1>9, <2>1, <2>2 DEF Kept
  <2> QED
    BY <1>11, <2>3 DEF more, at
<1> QED
  BY <1>10, <1>11

\* and the first of a new hour, after what the old one held back.
LEMMA KeptAnew ==
  ASSUME NEW L, NEW C, NEW rule, rule.budget \in Nat \ {0},
         NEW alerts \in Seq(AlertOf(L, C)), alerts # <<>>, NEW alert \in AlertOf(L, C), alert.merged = 1,
         NEW s \in Int, NEW us, NEW ov, NEW me, NEW em,
         Kept(rule, alerts, em, {s}, us, ov, me, alert.at), ~(alert.at - s < Hour)
  PROVE  Kept(rule, Append(alerts, alert), Append(em \o Bundled(s, alert, ov), alert), {alert.at},
              0 + 1, 0, me + ov, alert.at + 1)
<1> DEFINE more == Append(alerts, alert)
           eb == em \o Bundled(s, alert, ov)
           tells == Append(eb, alert)
           b == Alert(s + Hour, alert, ov)
           at == alert.at
           from == alerts[1].at
<1>1. /\ at \in Int /\ Len(more) = Len(alerts) + 1 /\ more # <<>> /\ more[1] = alerts[1]
      /\ Len(alerts) \in Nat /\ Hour \in Nat \ {0}
  BY AlertsAssumption DEF AlertOf
<1>2. /\ s < at /\ em # <<>>
      /\ SpentBy(rule, from, alerts) = Spending(em, s, us, ov, me)
      /\ Paced(1, rule.budget, em, s, us)
      /\ ov + Merged(em) = Len(alerts) /\ \A i \in DOMAIN em : em[i].at < at
  BY DEF Kept
<1>3. em \in Seq(AlertOf(L, C)) /\ us \in Nat /\ ov \in Nat /\ me \in Nat
  BY <1>2, KeptFields
<1>4. from \in Int
  BY AtIsInt
<1> HIDE DEF from
<1>5. SpentBy(rule, from, more) = Spend(rule, Spending(em, s, us, ov, me), alert)
  BY <1>2, <1>4, SpentByMore
<1>6. 0 < rule.budget /\ s + Hour <= at
  BY <1>1
<1>7. Spend(rule, Spending(em, s, us, ov, me), alert) = Spending(tells, at, 0 + 1, 0, me + ov)
  BY <1>6, SpendForms
<1>8. eb = IF ov = 0 THEN em ELSE Append(em, b)
  BY <1>3, BundledAppend
<1>9. b \in AlertOf(L, C) /\ b.at = s + Hour /\ b.merged = ov /\ b.at <= at
  BY <1>1, <1>3, <1>6 DEF Alert, AlertOf
<1>10. us \in 1..rule.budget
  BY <1>2 DEF Paced
<1> HIDE DEF eb, b
<1>11. /\ Cardinality(Since(em, s + 1)) <= us - 1 /\ Cardinality(Since(em, s + 1)) \in Nat
       /\ \A t \in Int : Cardinality(WithinHour(em, t)) <= 2 * rule.budget + 1
       /\ Cardinality(Since(em, at)) = 0
  <2>1. \A i \in 1..Len(em) : em[i].at < at
    BY <1>2, <1>3
  <2>2. s + 1 \in Int
    OBVIOUS
  <2>3. Cardinality(Since(em, s + 1)) \in Nat
    BY <1>3, <2>2, CountSince
  <2>4. Cardinality(Since(em, at)) = 0
    BY <1>1, <1>3, <2>1, CountSince
  <2> QED
    BY <1>2, <2>3, <2>4 DEF Paced
<1>12. /\ eb \in Seq(AlertOf(L, C)) /\ Merged(eb) = Merged(em) + ov /\ Merged(em) \in Nat
       /\ \A i \in DOMAIN eb : eb[i].at < at + 1
       /\ \A t \in Int : Cardinality(WithinHour(eb, t)) <= 2 * rule.budget + 1
       /\ Cardinality(Since(eb, s + 1)) <= rule.budget
       /\ Cardinality(Since(eb, at)) <= 1
  <2>1. Merged(em) \in Nat /\ Merged(Append(em, b)) = Merged(em) + ov
    BY <1>3, <1>9, MergedMore, MergedIn
  <2>2. CASE ov = 0
    <3>1. eb = em
      BY <1>8, <2>2
    <3>2. \A i \in DOMAIN em : em[i].at < at + 1
      BY <1>1, <1>2, <1>3, ToldBefore
    <3>3. Merged(em) = Merged(em) + ov
      BY <2>1, <2>2
    <3>4. Cardinality(Since(em, s + 1)) <= rule.budget /\ Cardinality(Since(em, at)) <= 1
      BY <1>10, <1>11
    <3> QED
      BY <1>3, <1>11, <2>1, <3>1, <3>2, <3>3, <3>4
  <2>3. CASE ov # 0
    <3>1. eb = Append(em, b)
      BY <1>8, <2>3
    <3>2. eb \in Seq(AlertOf(L, C))
      BY <1>3, <1>9, <3>1
    <3>3. \A i \in DOMAIN eb : eb[i].at < at + 1
      BY <1>1, <1>2, <1>3, <1>9, <3>1, ToldBefore
    <3>4. /\ \A t \in Int : Cardinality(WithinHour(eb, t)) <= 2 * rule.budget + 1
          /\ Cardinality(Since(eb, s + 1)) <= us
      BY <1>2, <1>3, <1>9, <3>1, PacedBundled
    <3>5. Cardinality(Since(eb, at)) = Cardinality(Since(em, at)) + (IF b.at >= at THEN 1 ELSE 0)
      BY <1>1, <1>3, <1>9, <3>1, CountMore
    <3>6. Cardinality(Since(eb, at)) <= 1
      BY <1>11, <3>5
    <3>7. Cardinality(Since(eb, s + 1)) \in Nat
      <4>1. s + 1 \in Int
        OBVIOUS
      <4> QED
        BY <3>2, <4>1, CountSince
    <3>8. Cardinality(Since(eb, s + 1)) <= rule.budget
      BY <1>10, <3>4, <3>7
    <3> QED
      BY <2>1, <3>1, <3>2, <3>3, <3>4, <3>6, <3>8
  <2> QED
    BY <2>2, <2>3
<1>13. Cardinality(Since(eb, at + 1)) = 0
  <2>1. \A i \in 1..Len(eb) : eb[i].at < at + 1
    BY <1>12
  <2>2. at + 1 \in Int
    BY <1>1
  <2> QED
    BY <1>12, <2>1, <2>2, CountSince
<1>14. Paced(1, rule.budget, tells, at, 1)
  <2>1. /\ 1 \in 0..1 /\ 2 * rule.budget + 1 = 2 * rule.budget + 2 * 1 - 1
        /\ rule.budget = rule.budget - 1 + 1
    OBVIOUS
  <2>2. /\ Cardinality(Since(eb, s + 1)) <= rule.budget - 1 + 1
        /\ \A t \in Int : Cardinality(WithinHour(eb, t)) <= 2 * rule.budget + 2 * 1 - 1
    BY <1>12, <2>1, Zenon
  <2> QED
    BY <1>6, <1>12, <1>13, <2>1, <2>2, PacedAnew
<1>15. Merged(tells) = Merged(eb) + 1
  BY <1>12, MergedMore, MergedIn
<1>16. tells # <<>> /\ \A i \in DOMAIN tells : tells[i].at < at + 1
  <2> DEFINE n == Len(eb)
  <2>1. /\ n \in Nat /\ DOMAIN eb = 1..n /\ DOMAIN tells = 1..(n + 1) /\ tells[n + 1] = alert
        /\ tells # <<>>
    BY <1>12
  <2>2. \A i \in 1..n : tells[i] = eb[i]
    BY <1>12
  <2> HIDE DEF tells, n
  <2>3. \A i \in 1..(n + 1) : i \in 1..n \/ i = n + 1
    BY <2>1
  <2>4. alert.at < at + 1
    BY <1>1
  <2> QED
    BY <1>12, <2>1, <2>2, <2>3, <2>4
<1> HIDE DEF tells, more, at
<1>17. 0 + Merged(tells) = Len(more) /\ at < at + 1 /\ 0 + 1 = 1
  BY <1>1, <1>2, <1>3, <1>12, <1>15
<1>18. SpentBy(rule, more[1].at, more) = Spending(tells, at, 0 + 1, 0, me + ov)
  BY <1>1, <1>5, <1>7 DEF from
<1>19. Kept(rule, more, tells, {at}, 0 + 1, 0, me + ov, at + 1)
  <2>1. Paced(1, rule.budget, tells, at, 0 + 1)
    BY <1>14, <1>17
  <2> QED
    BY <1>1, <1>16, <1>17, <1>18, <2>1 DEF Kept
<1> QED
  BY <1>19 DEF tells, more, eb, at

\* The first alert of all begins the first hour,
LEMMA ThroughFirst ==
  ASSUME NEW st, NEW la, NEW ov, NEW ra, NEW wi, NEW dw, NEW co, NEW me,
         NEW em, NEW fi, NEW lt, NEW rule, NEW alert, alert.at \in Int, 0 < rule.budget
  PROVE  ThroughBudget(rule, Gated(st, la, {}, 0, ov, ra, wi, dw, co, me, em, fi, lt), alert).gate
           = Gated(st, la, {alert.at}, 0 + 1, ov, ra, wi, dw, co, me, Append(em, alert), fi, lt)
<1> DEFINE none == {}
           b == Begun(none, alert)
<1>1. b = alert.at
  BY DEF Begun
<1> HIDE DEF b, none
<1>2. ~(alert.at - b >= Hour) /\ alert.at - b < Hour
  BY <1>1, AlertsAssumption
<1>3. ThroughBudget(rule, Gated(st, la, none, 0, ov, ra, wi, dw, co, me, em, fi, lt), alert).gate
           = IF 0 < rule.budget
           THEN Gated(st, la, {Begun(none, alert)}, 0 + 1, ov, ra, wi, dw, co, me, Append(em, alert), fi, lt)
           ELSE Gated(st, la, {Begun(none, alert)}, 0, ov + 1, ra, wi, dw, co, me, em, fi, lt)
  <2>1. ~(alert.at - Begun(none, alert) >= Hour)
    BY <1>2 DEF b
  <2>2. alert.at - Begun(none, alert) < Hour
    BY <1>2 DEF b
  <2> QED
    BY ONLY <2>1, <2>2, ThroughSame
<1>4. ThroughBudget(rule, Gated(st, la, none, 0, ov, ra, wi, dw, co, me, em, fi, lt), alert).gate
           = Gated(st, la, {Begun(none, alert)}, 0 + 1, ov, ra, wi, dw, co, me, Append(em, alert), fi, lt)
  BY <1>3, Zenon
<1> QED
  BY <1>4, <1>1, Zenon DEF none, b

\* The one element of a set of one.
LEMMA TheOne == ASSUME NEW s PROVE s = CHOOSE t \in {s} : TRUE
OBVIOUS

\* one in the hour that began at s is told within the budget,
LEMMA ThroughHour ==
  ASSUME NEW st, NEW la, NEW s, NEW us, NEW ov, NEW ra, NEW wi, NEW dw, NEW co, NEW me,
         NEW em, NEW fi, NEW lt, NEW rule, NEW alert,
         ~(alert.at - s >= Hour), alert.at - s < Hour,
         us < rule.budget
  PROVE  ThroughBudget(rule, Gated(st, la, {s}, us, ov, ra, wi, dw, co, me, em, fi, lt), alert).gate
           = Gated(st, la, {s}, us + 1, ov, ra, wi, dw, co, me, Append(em, alert), fi, lt)
<1> DEFINE sa == {s}
           b == Begun(sa, alert)
<1>1. b = s
  BY TheOne DEF Begun
<1> HIDE DEF b, sa
<1>2. ~(alert.at - b >= Hour) /\ alert.at - b < Hour
  BY <1>1, AlertsAssumption
<1>3. ThroughBudget(rule, Gated(st, la, sa, us, ov, ra, wi, dw, co, me, em, fi, lt), alert).gate
           = IF us < rule.budget
             THEN Gated(st, la, {Begun(sa, alert)}, us + 1, ov, ra, wi, dw, co, me, Append(em, alert), fi, lt)
             ELSE Gated(st, la, {Begun(sa, alert)}, us, ov + 1, ra, wi, dw, co, me, em, fi, lt)
  <2>1. ~(alert.at - Begun(sa, alert) >= Hour)
    BY <1>2 DEF b
  <2>2. alert.at - Begun(sa, alert) < Hour
    BY <1>2 DEF b
  <2> QED
    BY ONLY <2>1, <2>2, ThroughSame
<1> QED
  BY <1>1, <1>3, Zenon DEF sa, b

\* or held back when the budget is spent,
LEMMA ThroughHeld ==
  ASSUME NEW st, NEW la, NEW s, NEW us, NEW ov, NEW ra, NEW wi, NEW dw, NEW co, NEW me,
         NEW em, NEW fi, NEW lt, NEW rule, NEW alert,
         ~(alert.at - s >= Hour), alert.at - s < Hour,
         ~(us < rule.budget)
  PROVE  ThroughBudget(rule, Gated(st, la, {s}, us, ov, ra, wi, dw, co, me, em, fi, lt), alert).gate
           = Gated(st, la, {s}, us, ov + 1, ra, wi, dw, co, me, em, fi, lt)
<1> DEFINE sa == {s}
           b == Begun(sa, alert)
<1>1. b = s
  BY TheOne DEF Begun
<1> HIDE DEF b, sa
<1>2. ~(alert.at - b >= Hour) /\ alert.at - b < Hour
  BY <1>1, AlertsAssumption
<1>3. ThroughBudget(rule, Gated(st, la, sa, us, ov, ra, wi, dw, co, me, em, fi, lt), alert).gate
           = IF us < rule.budget
             THEN Gated(st, la, {Begun(sa, alert)}, us + 1, ov, ra, wi, dw, co, me, Append(em, alert), fi, lt)
             ELSE Gated(st, la, {Begun(sa, alert)}, us, ov + 1, ra, wi, dw, co, me, em, fi, lt)
  <2>1. ~(alert.at - Begun(sa, alert) >= Hour)
    BY <1>2 DEF b
  <2>2. alert.at - Begun(sa, alert) < Hour
    BY <1>2 DEF b
  <2> QED
    BY ONLY <2>1, <2>2, ThroughSame
<1> QED
  BY <1>1, <1>3, Zenon DEF sa, b

\* and one after it is told, after what the hour held back.
LEMMA ThroughNew ==
  ASSUME NEW st, NEW la, NEW s \in Int, NEW us, NEW ov, NEW ra, NEW wi, NEW dw, NEW co, NEW me,
         NEW em, NEW fi, NEW lt, NEW rule, NEW alert, alert.at \in Int, ~(alert.at - s < Hour),
         0 < rule.budget
  PROVE  ThroughBudget(rule, Gated(st, la, {s}, us, ov, ra, wi, dw, co, me, em, fi, lt), alert).gate
           = Gated(st, la, {alert.at}, 0 + 1, 0, ra, wi, dw, co, me + ov,
                   Append(em \o Bundled(s, alert, ov), alert), fi, lt)
<1> DEFINE sa == {s}
           b == Begun(sa, alert)
<1>1. b = s
  BY TheOne DEF Begun
<1> HIDE DEF b, sa
<1>2. alert.at - b >= Hour
  BY <1>1, AlertsAssumption
<1>3. ThroughBudget(rule, Gated(st, la, sa, us, ov, ra, wi, dw, co, me, em, fi, lt), alert).gate
           = Gated(st, la, {alert.at}, 0 + 1, 0, ra, wi, dw, co, me + ov,
                   Append(em \o Bundled(Begun(sa, alert), alert, ov), alert), fi, lt)
  <2>1. alert.at - Begun(sa, alert) >= Hour
    BY <1>2 DEF b
  <2>2. 0 < rule.budget
    OBVIOUS
  <2> QED
    BY ONLY <2>1, <2>2, ThroughAnew
<1> QED
  BY <1>1, <1>3, Zenon DEF sa, b

\* What the budget of the stream makes of its alerts, and of a gate.
Gone(next, rule, alerts, now, st, la, ra, wi, dw, co, fi, lt) ==
  \E s, us, ov, me, em :
    /\ next = Gated(st, la, {s}, us, ov, ra, wi, dw, co, me, em, fi, lt)
    /\ Kept(rule, alerts, em, {s}, us, ov, me, now)

\* One alert more goes the same way through the stream's budget as through the
\* batch's, and the pace is kept.
LEMMA ThroughKeeps ==
  ASSUME NEW L, NEW C, NEW rule, rule.budget \in Nat \ {0},
         NEW alerts, alerts \in Seq(AlertOf(L, C)), NEW alert, alert \in AlertOf(L, C), alert.merged = 1,
         NEW st, NEW la, NEW sa, NEW us, NEW ov, NEW ra, NEW wi, NEW dw, NEW co, NEW me,
         NEW em, NEW fi, NEW lt,
         Kept(rule, alerts, em, sa, us, ov, me, alert.at)
  PROVE  Gone(ThroughBudget(rule, Gated(st, la, sa, us, ov, ra, wi, dw, co, me, em, fi, lt), alert).gate,
              rule, Append(alerts, alert), alert.at + 1, st, la, ra, wi, dw, co, fi, lt)
<1> DEFINE more == Append(alerts, alert)
           Onward(s0, u0, o0, m0, e0) ==
             ThroughBudget(rule, Gated(st, la, s0, u0, o0, ra, wi, dw, co, m0, e0, fi, lt), alert).gate
           After(s1, us1, ov1, me1, em1) == Gated(st, la, {s1}, us1, ov1, ra, wi, dw, co, me1, em1, fi, lt)
           KeptNow(s1, us1, ov1, me1, em1) == Kept(rule, more, em1, {s1}, us1, ov1, me1, alert.at + 1)
           Goal(next) == \E s1, us1, ov1, me1, em1 :
                     next = After(s1, us1, ov1, me1, em1) /\ KeptNow(s1, us1, ov1, me1, em1)
<1>1. alert.at \in Int /\ 0 < rule.budget
  BY DEF AlertOf
<1>2. CASE alerts = <<>>
  <2>1. em = <<>> /\ sa = {} /\ us = 0 /\ ov = 0 /\ me = 0
    BY <1>2 DEF Kept
  <2>2. Onward({}, 0, 0, 0, <<>>) = After(alert.at, 0 + 1, 0, 0, Append(<<>>, alert))
    <3> DEFINE nil == <<>>
    <3> HIDE DEF nil
    <3>1. ThroughBudget(rule, Gated(st, la, {}, 0, 0, ra, wi, dw, co, 0, nil, fi, lt), alert).gate
            = Gated(st, la, {alert.at}, 0 + 1, 0, ra, wi, dw, co, 0, Append(nil, alert), fi, lt)
      BY ONLY <1>1, ThroughFirst
    <3> QED
      BY <3>1, Zenon DEF Onward, After, nil
  <2>3. KeptNow(alert.at, 0 + 1, 0, 0, Append(<<>>, alert))
    BY <1>2, KeptFirst
  <2> HIDE DEF Onward, After, KeptNow
  <2>4. Goal(Onward(sa, us, ov, me, em))
    BY <2>1, <2>2, <2>3
  <2> QED
    BY <2>4 DEF Gone, Onward, After, KeptNow
<1>3. CASE alerts # <<>>
  <2>1. PICK s : s \in Int /\ sa = {s}
    BY <1>3, Zenon DEF Kept
  <2>2. Kept(rule, alerts, em, {s}, us, ov, me, alert.at)
    BY <2>1
  <2>3. CASE alert.at - s < Hour
    <3>0. ~(alert.at - s >= Hour)
      BY <1>1, <2>1, <2>3, AlertsAssumption
    <3>1. Onward({s}, us, ov, me, em) = IF us < rule.budget THEN After(s, us + 1, ov, me, Append(em, alert))
                                      ELSE After(s, us, ov + 1, me, em)
      <4>1. CASE us < rule.budget
        <5>1. ThroughBudget(rule, Gated(st, la, {s}, us, ov, ra, wi, dw, co, me, em, fi, lt), alert).gate
                = Gated(st, la, {s}, us + 1, ov, ra, wi, dw, co, me, Append(em, alert), fi, lt)
          BY ONLY <2>3, <3>0, <4>1, ThroughHour
        <5> QED
          BY <4>1, <5>1, Zenon DEF Onward, After
      <4>2. CASE ~(us < rule.budget)
        <5>1. ThroughBudget(rule, Gated(st, la, {s}, us, ov, ra, wi, dw, co, me, em, fi, lt), alert).gate
                = Gated(st, la, {s}, us, ov + 1, ra, wi, dw, co, me, em, fi, lt)
          BY ONLY <2>3, <3>0, <4>2, ThroughHeld, SMTT(60)
        <5> QED
          BY <4>2, <5>1, Zenon DEF Onward, After
      <4> QED
        BY <4>1, <4>2, Zenon
    <3>2. IF us < rule.budget THEN KeptNow(s, us + 1, ov, me, Append(em, alert))
          ELSE KeptNow(s, us, ov + 1, me, em)
      BY <1>3, <2>1, <2>2, <2>3, KeptSame, Zenon
    <3> HIDE DEF Onward, After, KeptNow
    <3>3. Goal(Onward(sa, us, ov, me, em))
      BY <2>1, <3>1, <3>2
    <3> QED
      BY <3>3 DEF Gone, Onward, After, KeptNow
  <2>4. CASE ~(alert.at - s < Hour)
    <3> DEFINE tells == Append(em \o Bundled(s, alert, ov), alert)
    <3>1. Onward({s}, us, ov, me, em) = After(alert.at, 0 + 1, 0, me + ov, tells)
      BY ONLY <1>1, <2>1, <2>4, ThroughNew DEF Onward, After, tells
    <3>2. KeptNow(alert.at, 0 + 1, 0, me + ov, tells)
      BY <1>3, <2>1, <2>2, <2>4, KeptAnew, Zenon
    <3> HIDE DEF Onward, After, KeptNow, tells
    <3>3. Goal(Onward(sa, us, ov, me, em))
      BY <2>1, <3>1, <3>2
    <3> QED
      BY <3>3 DEF Gone, Onward, After, KeptNow
  <2> QED
    BY <2>3, <2>4
<1> QED
  BY <1>2, <1>3

\* The stream agrees with the batch of the same judgements, all of them before
\* now: in what it counted, in the last alert it let through to the budget, and
\* in what the budget made of them.
Agrees(rule, signals, now, g) ==
  LET seen == Candidates(rule, signals) IN
  /\ g = Gated(g.streak, g.last, g.start, g.used, g.overflow, g.raw, g.withheld, g.dwelt, g.cooled,
               g.merged, g.emitted, g.first, g.latest)
  /\ seen = Seen(g.streak, g.withheld, g.dwelt, g.cooled, seen.alerts)
  /\ g.raw = Cardinality(Calling(rule, signals))
  /\ g.raw = g.withheld + g.dwelt + g.cooled + Len(seen.alerts)
  /\ g.last = IF seen.alerts = <<>> THEN {} ELSE {Last(seen.alerts).at}
  /\ Kept(rule, seen.alerts, g.emitted, g.start, g.used, g.overflow, g.merged, now)

\* A gate given by its fields agrees if they do.
LEMMA AgreesBy ==
  ASSUME NEW rule, NEW signals, NEW now, NEW alerts,
         NEW st, NEW la, NEW sa, NEW us, NEW ov, NEW ra, NEW wi, NEW dw, NEW co, NEW me,
         NEW em, NEW fi, NEW lt,
         Candidates(rule, signals) = Seen(st, wi, dw, co, alerts),
         ra = Cardinality(Calling(rule, signals)),
         ra = wi + dw + co + Len(alerts),
         la = IF alerts = <<>> THEN {} ELSE {Last(alerts).at},
         Kept(rule, alerts, em, sa, us, ov, me, now)
  PROVE  Agrees(rule, signals, now, Gated(st, la, sa, us, ov, ra, wi, dw, co, me, em, fi, lt))
<1> DEFINE g == Gated(st, la, sa, us, ov, ra, wi, dw, co, me, em, fi, lt)
<1>1. /\ g.streak = st /\ g.last = la /\ g.start = sa /\ g.used = us /\ g.overflow = ov
      /\ g.raw = ra /\ g.withheld = wi /\ g.dwelt = dw /\ g.cooled = co /\ g.merged = me
      /\ g.emitted = em /\ g.first = fi /\ g.latest = lt
  BY DEF Gated
<1>2. Candidates(rule, signals).alerts = alerts
  BY SeenFields
<1>3. g = Gated(g.streak, g.last, g.start, g.used, g.overflow, g.raw, g.withheld, g.dwelt, g.cooled,
               g.merged, g.emitted, g.first, g.latest)
  BY <1>1
<1> HIDE DEF g
<1>4. Agrees(rule, signals, now, g)
  BY <1>1, <1>2, <1>3 DEF Agrees
<1> QED
  BY <1>4 DEF g

\* What was told before some time was told before a later one.
LEMMA KeptLater ==
  ASSUME NEW L, NEW C, NEW rule, NEW alerts, alerts \in Seq(AlertOf(L, C)),
         NEW em, NEW sa, NEW us, NEW ov, NEW me, NEW now, now \in Int, NEW later, later \in Int,
         Kept(rule, alerts, em, sa, us, ov, me, now), now <= later
  PROVE  Kept(rule, alerts, em, sa, us, ov, me, later)
<1>1. \A i \in DOMAIN em : em[i].at < now
  BY Zenon DEF Kept
<1>2. CASE alerts = <<>>
  <2>1. em = <<>>
    BY <1>2 DEF Kept
  <2>2. \A i \in DOMAIN em : em[i].at < later
    BY <2>1
  <2> QED
    BY <1>2, <2>2, Zenon DEF Kept
<1>3. CASE alerts # <<>>
  <2>1. PICK s : s \in Int /\ sa = {s} /\ s < now /\ em # <<>>
                 /\ SpentBy(rule, alerts[1].at, alerts) = Spending(em, s, us, ov, me)
                 /\ Paced(1, rule.budget, em, s, us)
    BY <1>3, Zenon DEF Kept
  <2>2. em \in Seq(AlertOf(L, C))
    BY <1>3, <2>1, KeptFields
  <2>3. \A i \in DOMAIN em : em[i].at < later
    BY <1>1, <2>2, AtIsInt
  <2>4. s < later
    BY <2>1
  <2>5. ov + Merged(em) = Len(alerts)
    BY Zenon DEF Kept
  <2> QED
    BY <1>3, <2>1, <2>3, <2>4, <2>5, Zenon DEF Kept
<1> QED
  BY <1>2, <1>3

\* One judgement more is judged by the stream as by the batch.
LEMMA OfferAgreesBy ==
  ASSUME NEW L, NEW C, NEW rule, rule.budget \in Nat \ {0},
         NEW signals, signals \in Seq(SignalOf(L, C)), NEW signal, signal \in SignalOf(L, C), NEW alerts,
         NEW st, NEW la, NEW sa, NEW us, NEW ov, NEW ra, NEW wi, NEW dw, NEW co, NEW me,
         NEW em, NEW fi, NEW lt,
         Candidates(rule, signals) = Seen(st, wi, dw, co, alerts),
         ra = Cardinality(Calling(rule, signals)),
         ra = wi + dw + co + Len(alerts),
         la = IF alerts = <<>> THEN {} ELSE {Last(alerts).at},
         Kept(rule, alerts, em, sa, us, ov, me, signal.at)
  PROVE  Agrees(rule, Append(signals, signal), signal.at + 1,
                Offer(rule, Gated(st, la, sa, us, ov, ra, wi, dw, co, me, em, fi, lt), signal).gate)
<1> DEFINE more == Append(signals, signal)
           now == signal.at + 1
           ff == Began(fi, signal)
           tt == {signal.at}
           next == Offer(rule, Gated(st, la, sa, us, ov, ra, wi, dw, co, me, em, fi, lt), signal).gate
           soon == \E t \in la : signal.at - t < rule.cooldown
           calls == Cardinality(Calling(rule, more))
<1>1. signal.at \in Int /\ now \in Int /\ signal.at <= now
  BY DEF SignalOf
<1>2. /\ st \in Nat /\ wi \in Nat /\ dw \in Nat /\ co \in Nat /\ alerts \in Seq(AlertOf(L, C))
      /\ Len(alerts) \in Nat
  <2> DEFINE seen == Seen(st, wi, dw, co, alerts)
  <2>1. seen \in SeenOf(L, C)
    BY CandidatesIn
  <2>2. seen.streak = st /\ seen.withheld = wi /\ seen.dwelt = dw /\ seen.cooled = co /\ seen.alerts = alerts
    BY SeenFields
  <2> HIDE DEF seen
  <2>3. st \in Nat /\ wi \in Nat /\ dw \in Nat /\ co \in Nat /\ alerts \in Seq(AlertOf(L, C))
    BY <2>1, <2>2, SeenIsSeen, Zenon
  <2>4. Len(alerts) \in Nat
    BY <2>3
  <2> QED
    BY <2>3, <2>4
<1>3. ra \in Nat /\ calls = ra + (IF Calls(rule, signal) THEN 1 ELSE 0)
  <2>1. /\ Cardinality(Calling(rule, signals)) \in Nat
        /\ calls = Cardinality(Calling(rule, signals)) + (IF Calls(rule, signal) THEN 1 ELSE 0)
    BY ONLY signals \in Seq(SignalOf(L, C)), signal \in SignalOf(L, C), CallingGrows DEF calls, more
  <2> HIDE DEF calls
  <2> QED
    BY <2>1
<1>4. Candidates(rule, more) = Judge(rule, Seen(st, wi, dw, co, alerts), signal)
  BY CandidatesMore
<1>5. Cooling(rule, alerts, signal) <=> soon
  BY DEF Cooling
<1>6. Kept(rule, alerts, em, sa, us, ov, me, now)
  BY <1>1, <1>2, KeptLater
<1>7. Candidates(rule, more) =
           IF ~Calls(rule, signal) THEN Seen(0, wi, dw, co, alerts)
           ELSE IF ~Confident(rule, signal) THEN Seen(0, wi + 1, dw, co, alerts)
           ELSE IF st + 1 < rule.dwell THEN Seen(st + 1, wi, dw + 1, co, alerts)
           ELSE IF soon THEN Seen(st + 1, wi, dw, co + 1, alerts)
           ELSE Seen(st + 1, wi, dw, co, Append(alerts, Of(signal)))
  <2> HIDE DEF soon, more
  <2>1. Judge(rule, Seen(st, wi, dw, co, alerts), signal) =
           IF ~Calls(rule, signal) THEN Seen(0, wi, dw, co, alerts)
           ELSE IF ~Confident(rule, signal) THEN Seen(0, wi + 1, dw, co, alerts)
           ELSE IF st + 1 < rule.dwell THEN Seen(st + 1, wi, dw + 1, co, alerts)
           ELSE IF Cooling(rule, alerts, signal) THEN Seen(st + 1, wi, dw, co + 1, alerts)
           ELSE Seen(st + 1, wi, dw, co, Append(alerts, Of(signal)))
    BY ONLY JudgeForms
  <2> QED
    BY <1>4, <1>5, <2>1, Zenon
<1>8. /\ ~Calls(rule, signal) =>
           next = Gated(0, la, sa, us, ov, ra, wi, dw, co, me, em, ff, tt)
      /\ Calls(rule, signal) /\ ~Confident(rule, signal) =>
           next = Gated(0, la, sa, us, ov, ra + 1, wi + 1, dw, co, me, em, ff, tt)
      /\ Calls(rule, signal) /\ Confident(rule, signal) /\ st + 1 < rule.dwell =>
           next = Gated(st + 1, la, sa, us, ov, ra + 1, wi, dw + 1, co, me, em, ff, tt)
      /\ Calls(rule, signal) /\ Confident(rule, signal) /\ ~(st + 1 < rule.dwell) /\ soon =>
           next = Gated(st + 1, la, sa, us, ov, ra + 1, wi, dw, co + 1, me, em, ff, tt)
      /\ Calls(rule, signal) /\ Confident(rule, signal) /\ ~(st + 1 < rule.dwell) /\ ~soon =>
           next = ThroughBudget(rule, Gated(st + 1, tt, sa, us, ov, ra + 1, wi, dw, co, me, em, ff, tt),
                                Of(signal)).gate
  <2> DEFINE answer == Offer(rule, Gated(st, la, sa, us, ov, ra, wi, dw, co, me, em, fi, lt), signal)
  <2>1. Ways(answer, rule, signal, st, la, sa, us, ov, ra, wi, dw, co, me, em, fi, lt)
    BY ONLY OfferForms, Zenon DEF answer
  <2>2. next = answer.gate
    BY Zenon
  <2> HIDE DEF answer, next
  <2> QED
    BY <2>1, <2>2, Zenon DEF Ways, Silent, ff, tt, soon
<1> HIDE DEF more, now, ff, next, soon, calls
<1>9. CASE ~Calls(rule, signal)
  <2>1. Candidates(rule, more) = Seen(0, wi, dw, co, alerts) /\ calls = ra
    BY <1>3, <1>7, <1>9
  <2>2. next = Gated(0, la, sa, us, ov, ra, wi, dw, co, me, em, ff, tt)
    BY <1>8, <1>9, Zenon
  <2>3. ra = Cardinality(Calling(rule, more))
    BY <2>1 DEF calls
  <2> HIDE DEF tt
  <2>4. Agrees(rule, more, now, Gated(0, la, sa, us, ov, ra, wi, dw, co, me, em, ff, tt))
    BY <1>6, <2>1, <2>3, AgreesBy
  <2> QED
    BY <2>2, <2>4 DEF more, now, next
<1>10. CASE Calls(rule, signal) /\ ~Confident(rule, signal)
  <2>1. Candidates(rule, more) = Seen(0, wi + 1, dw, co, alerts)
    BY <1>7, <1>10, Zenon
  <2>2. next = Gated(0, la, sa, us, ov, ra + 1, wi + 1, dw, co, me, em, ff, tt)
    BY <1>8, <1>10, Zenon
  <2>3. ra + 1 = Cardinality(Calling(rule, more)) /\ ra + 1 = wi + 1 + dw + co + Len(alerts)
    BY <1>2, <1>3, <1>10 DEF calls
  <2> HIDE DEF tt
  <2>4. Agrees(rule, more, now, Gated(0, la, sa, us, ov, ra + 1, wi + 1, dw, co, me, em, ff, tt))
    BY <1>6, <2>1, <2>3, AgreesBy
  <2> QED
    BY <2>2, <2>4 DEF more, now, next
<1>11. CASE Calls(rule, signal) /\ Confident(rule, signal) /\ st + 1 < rule.dwell
  <2>1. Candidates(rule, more) = Seen(st + 1, wi, dw + 1, co, alerts)
    BY <1>7, <1>11, Zenon
  <2>2. next = Gated(st + 1, la, sa, us, ov, ra + 1, wi, dw + 1, co, me, em, ff, tt)
    BY <1>8, <1>11, Zenon
  <2>3. ra + 1 = Cardinality(Calling(rule, more)) /\ ra + 1 = wi + (dw + 1) + co + Len(alerts)
    BY <1>2, <1>3, <1>11 DEF calls
  <2> HIDE DEF tt
  <2>4. Agrees(rule, more, now, Gated(st + 1, la, sa, us, ov, ra + 1, wi, dw + 1, co, me, em, ff, tt))
    BY <1>6, <2>1, <2>3, AgreesBy
  <2> QED
    BY <2>2, <2>4 DEF more, now, next
<1>12. CASE Calls(rule, signal) /\ Confident(rule, signal) /\ ~(st + 1 < rule.dwell) /\ soon
  <2>1. Candidates(rule, more) = Seen(st + 1, wi, dw, co + 1, alerts)
    BY <1>7, <1>12, Zenon
  <2>2. next = Gated(st + 1, la, sa, us, ov, ra + 1, wi, dw, co + 1, me, em, ff, tt)
    BY <1>8, <1>12, Zenon
  <2>3. ra + 1 = Cardinality(Calling(rule, more)) /\ ra + 1 = wi + dw + (co + 1) + Len(alerts)
    BY <1>2, <1>3, <1>12 DEF calls
  <2> HIDE DEF tt
  <2>4. Agrees(rule, more, now, Gated(st + 1, la, sa, us, ov, ra + 1, wi, dw, co + 1, me, em, ff, tt))
    BY <1>6, <2>1, <2>3, AgreesBy
  <2> QED
    BY <2>2, <2>4 DEF more, now, next
<1>13. CASE Calls(rule, signal) /\ Confident(rule, signal) /\ ~(st + 1 < rule.dwell) /\ ~soon
  <2> DEFINE alert == Of(signal)
             tells == Append(alerts, alert)
  <2>1. Candidates(rule, more) = Seen(st + 1, wi, dw, co, tells)
    BY <1>7, <1>13, Zenon
  <2>2. next = ThroughBudget(rule, Gated(st + 1, tt, sa, us, ov, ra + 1, wi, dw, co, me, em, ff, tt), alert).gate
    BY <1>8, <1>13, Zenon
  <2>3. alert \in AlertOf(L, C) /\ alert.merged = 1 /\ alert.at = signal.at
    BY DEF Of, Alert, SignalOf, AlertOf
  <2> HIDE DEF alert
  <2>4. Len(tells) = Len(alerts) + 1 /\ tells # <<>> /\ Last(tells) = alert
    <3>1. Len(tells) = Len(alerts) + 1 /\ tells # <<>> /\ tells[Len(alerts) + 1] = alert
      <4>1. alerts \in Seq(AlertOf(L, C)) /\ alert \in AlertOf(L, C)
        BY <1>2, <2>3
      <4> QED
        BY ONLY <4>1
    <3> HIDE DEF tells
    <3> QED
      BY <3>1 DEF Last
  <2>5. ra + 1 = Cardinality(Calling(rule, more)) /\ ra + 1 = wi + dw + co + Len(tells)
    <3> HIDE DEF tells
    <3> QED
      BY <1>2, <1>3, <1>13, <2>4 DEF calls
  <2>6. tt = IF tells = <<>> THEN {} ELSE {Last(tells).at}
    <3> HIDE DEF tells
    <3> QED
      BY <2>3, <2>4
  <2> HIDE DEF tt
  <2>7. Gone(ThroughBudget(rule, Gated(st + 1, tt, sa, us, ov, ra + 1, wi, dw, co, me, em, ff, tt), alert).gate,
             rule, tells, alert.at + 1, st + 1, tt, ra + 1, wi, dw, co, ff, tt)
    <3>1. Kept(rule, alerts, em, sa, us, ov, me, alert.at)
      BY <2>3, Zenon
    <3>2. rule.budget \in Nat \ {0} /\ alerts \in Seq(AlertOf(L, C))
      BY <1>2
    <3> QED
      BY ONLY <2>3, <3>1, <3>2, ThroughKeeps DEF tells
  <2>8. PICK s1, us1, ov1, me1, em1 :
           /\ next = Gated(st + 1, tt, {s1}, us1, ov1, ra + 1, wi, dw, co, me1, em1, ff, tt)
           /\ Kept(rule, tells, em1, {s1}, us1, ov1, me1, alert.at + 1)
    BY <2>2, <2>7, Zenon DEF Gone
  <2> HIDE DEF tells
  <2>9. Agrees(rule, more, now, Gated(st + 1, tt, {s1}, us1, ov1, ra + 1, wi, dw, co, me1, em1, ff, tt))
    BY <2>1, <2>3, <2>5, <2>6, <2>8, AgreesBy DEF now
  <2> QED
    BY <2>2, <2>8, <2>9, Zenon DEF more, now, next
<1> QED
  BY <1>9, <1>10, <1>11, <1>12, <1>13, Zenon

\* The gate of a new process agrees with the batch of no judgement,
LEMMA AgreesNone ==
  ASSUME NEW rule, NEW now
  PROVE  Agrees(rule, <<>>, now, NewGate)
<1> DEFINE none == <<>>
           empty == {}
           g == Gated(0, empty, empty, 0, 0, 0, 0, 0, 0, 0, none, empty, empty)
<1>1. NewGate = g
  BY Zenon DEF NewGate, Gated
<1>2. Candidates(rule, none) = Seen(0, 0, 0, 0, none)
  BY CandidatesNone, Zenon DEF Unseen, Seen
<1>3. Cardinality(Calling(rule, none)) = 0
  <2>1. Calling(rule, none) = {}
    BY DEF Calling
  <2> QED
    BY <2>1, FS_EmptySet
<1>4. Merged(none) = 0 /\ Len(none) = 0 /\ DOMAIN none = {}
  BY MergedNone
<1>5. Kept(rule, none, none, empty, 0, 0, 0, now)
  BY <1>4 DEF Kept
<1>6. empty = IF none = <<>> THEN {} ELSE {Last(none).at}
  OBVIOUS
<1>7. 0 = 0 + 0 + 0 + Len(none)
  BY <1>4
<1> HIDE DEF none, empty, g
<1>8. Agrees(rule, none, now, Gated(0, empty, empty, 0, 0, 0, 0, 0, 0, 0, none, empty, empty))
  BY <1>2, <1>3, <1>5, <1>6, <1>7, AgreesBy
<1> QED
  BY <1>1, <1>8, Zenon DEF none, g

\* it still agrees when time passes,
LEMMA AgreesLater ==
  ASSUME NEW L, NEW C, NEW rule, NEW signals, signals \in Seq(SignalOf(L, C)), NEW g,
         NEW now, now \in Int, NEW later, later \in Int, Agrees(rule, signals, now, g), now <= later
  PROVE  Agrees(rule, signals, later, g)
<1> DEFINE alerts == Candidates(rule, signals).alerts
<1>1. alerts \in Seq(AlertOf(L, C))
  BY CandidatesIn, SeenIsSeen
<1>2. Kept(rule, alerts, g.emitted, g.start, g.used, g.overflow, g.merged, now)
  BY Zenon DEF Agrees
<1> HIDE DEF alerts
<1>3. Kept(rule, alerts, g.emitted, g.start, g.used, g.overflow, g.merged, later)
  BY <1>1, <1>2, KeptLater
<1> QED
  BY <1>3, Zenon DEF Agrees, alerts

\* and after every judgement.
LEMMA OfferAgrees ==
  ASSUME NEW L, NEW C, NEW rule, rule.budget \in Nat \ {0},
         NEW signals, signals \in Seq(SignalOf(L, C)), NEW signal, signal \in SignalOf(L, C), NEW g,
         Agrees(rule, signals, signal.at, g)
  PROVE  Agrees(rule, Append(signals, signal), signal.at + 1, Offer(rule, g, signal).gate)
<1> DEFINE alerts == Candidates(rule, signals).alerts
<1>1. g = Gated(g.streak, g.last, g.start, g.used, g.overflow, g.raw, g.withheld, g.dwelt, g.cooled,
               g.merged, g.emitted, g.first, g.latest)
  BY Zenon DEF Agrees
<1>2. /\ Candidates(rule, signals) = Seen(g.streak, g.withheld, g.dwelt, g.cooled, alerts)
      /\ g.raw = Cardinality(Calling(rule, signals))
      /\ g.raw = g.withheld + g.dwelt + g.cooled + Len(alerts)
      /\ Kept(rule, alerts, g.emitted, g.start, g.used, g.overflow, g.merged, signal.at)
  BY Zenon DEF Agrees
<1>3. g.last = IF alerts = <<>> THEN {} ELSE {Last(alerts).at}
  BY Zenon DEF Agrees
<1> HIDE DEF alerts
<1> DEFINE st == g.streak la == g.last sa == g.start us == g.used ov == g.overflow ra == g.raw
           wi == g.withheld dw == g.dwelt co == g.cooled me == g.merged em == g.emitted
           fi == g.first lt == g.latest
<1>4. Agrees(rule, Append(signals, signal), signal.at + 1,
                Offer(rule, Gated(st, la, sa, us, ov, ra, wi, dw, co, me, em, fi, lt), signal).gate)
  <2> HIDE DEF st, la, sa, us, ov, ra, wi, dw, co, me, em, fi, lt
  <2>1. /\ Candidates(rule, signals) = Seen(st, wi, dw, co, alerts)
        /\ ra = Cardinality(Calling(rule, signals))
        /\ ra = wi + dw + co + Len(alerts)
        /\ Kept(rule, alerts, em, sa, us, ov, me, signal.at)
    BY <1>2, Zenon DEF st, sa, us, ov, ra, wi, dw, co, me, em
  <2>2. la = IF alerts = <<>> THEN {} ELSE {Last(alerts).at}
    BY <1>3, Zenon DEF la
  <2> QED
    BY <2>1, <2>2, OfferAgreesBy
<1> QED
  BY <1>1, <1>4, Zenon

------------------------------------------------------------------------------
(* What a gate and the ledger of a batch say that agree.                     *)

\* What the budget makes of a whole batch: what it made of its alerts, and the
\* bundle of the last hour.
LEMMA BudgetForms ==
  ASSUME NEW rule, NEW alerts, NEW k, NEW s, NEW u, NEW o, NEW m
  PROVE  /\ alerts = <<>> => ApplyBudget(rule, alerts).kept = <<>> /\ ApplyBudget(rule, alerts).merged = 0
         /\ alerts # <<>> /\ SpentBy(rule, alerts[1].at, alerts) = Spending(k, s, u, o, m) =>
              /\ ApplyBudget(rule, alerts).kept = k \o Bundled(s, Last(alerts), o)
              /\ ApplyBudget(rule, alerts).merged = m + o
<1> DEFINE end == SpentBy(rule, alerts[1].at, alerts)
           all == ApplyBudget(rule, alerts)
<1>1. all = IF alerts = <<>> THEN [kept |-> <<>>, merged |-> 0]
            ELSE [kept |-> end.kept \o Bundled(end.start, Last(alerts), end.overflow),
                  merged |-> end.merged + end.overflow]
  BY Zenon DEF ApplyBudget, SpentBy
<1>2. ASSUME end = Spending(k, s, u, o, m)
      PROVE  end.kept = k /\ end.start = s /\ end.overflow = o /\ end.merged = m
  <2> HIDE DEF end
  <2> QED
    BY <1>2 DEF Spending
<1> HIDE DEF end, all
<1>3. alerts = <<>> => all.kept = <<>> /\ all.merged = 0
  BY <1>1
<1>4. ASSUME alerts # <<>>, end = Spending(k, s, u, o, m)
      PROVE  all.kept = k \o Bundled(s, Last(alerts), o) /\ all.merged = m + o
  <2>1. all = [kept |-> k \o Bundled(s, Last(alerts), o), merged |-> m + o]
    BY <1>1, <1>2, <1>4, Zenon
  <2> QED
    BY <2>1
<1> QED
  BY <1>3, <1>4, Zenon DEF end, all

\* What the ledger of a batch says that came in the order of time.
Totals(batch, rule, signals) ==
  LET seen == Candidates(rule, signals)
      spent == ApplyBudget(rule, seen.alerts) IN
  /\ batch.raw = Cardinality(Calling(rule, signals))
  /\ batch.withheld = seen.withheld /\ batch.dwelt = seen.dwelt /\ batch.cooled = seen.cooled
  /\ batch.alerts = spent.kept /\ batch.merged = spent.merged
  /\ Len(signals) > 1 => batch.observed = Span(signals)

\* A batch in the order of time is not sorted, and its ledger is the sum of its parts.
LEMMA BatchForms ==
  ASSUME NEW L, NEW C, NEW rule, NEW signals, signals \in Seq(SignalOf(L, C)),
         \A i, j \in 1..Len(signals) : i < j => signals[i].at < signals[j].at
  PROVE  Totals(Apply(rule, signals), rule, signals)
<1> DEFINE batch == Apply(rule, signals)
           seen == Candidates(rule, signals)
           spent == ApplyBudget(rule, seen.alerts)
           span == IF Len(signals) > 1 THEN Span(signals) ELSE 3600
<1>1. InOrder(signals) = signals
  BY InOrderStays
<1>2. Calling(rule, signals) = {i \in DOMAIN signals : Calls(rule, signals[i])}
  BY Zenon DEF Calling
<1>3. batch = [raw |-> Cardinality(Calling(rule, signals)), alerts |-> spent.kept,
        withheld |-> seen.withheld, dwelt |-> seen.dwelt, cooled |-> seen.cooled,
        merged |-> spent.merged, observed |-> span]
  <2> DEFINE judged(list) == Candidates(rule, list)
             after(list) == ApplyBudget(rule, judged(list).alerts)
             made(list) ==
               [raw |-> Cardinality({i \in DOMAIN list : Calls(rule, list[i])}), alerts |-> after(list).kept,
                withheld |-> judged(list).withheld, dwelt |-> judged(list).dwelt,
                cooled |-> judged(list).cooled, merged |-> after(list).merged,
                observed |-> IF Len(list) > 1 THEN Span(list) ELSE 3600]
  <2>1. batch = made(InOrder(signals))
    BY Zenon DEF Apply
  <2> HIDE DEF made
  <2>2. batch = made(signals)
    BY <1>1, <2>1, Zenon
  <2> QED
    BY <2>2, Zenon DEF made, Calling
<1> HIDE DEF batch, seen, spent, span
<1>4. /\ batch.raw = Cardinality(Calling(rule, signals))
      /\ batch.withheld = seen.withheld /\ batch.dwelt = seen.dwelt /\ batch.cooled = seen.cooled
      /\ batch.alerts = spent.kept /\ batch.merged = spent.merged /\ batch.observed = span
  BY <1>3
<1>5. Len(signals) > 1 => span = Span(signals)
  BY DEF span
<1> QED
  BY <1>4, <1>5, Zenon DEF Totals, batch, seen, spent

\* What was told is the first part of itself and of what is told after it.
LEMMA PrefixMore ==
  ASSUME NEW T, NEW tells, tells \in Seq(T)
  PROVE  IsPrefix(tells, tells) /\ \A e \in T : IsPrefix(tells, Append(tells, e))
<1> DEFINE n == Len(tells)
<1>1. n \in Nat /\ SubSeq(tells, 1, n) = tells
  OBVIOUS
<1>2. IsPrefix(tells, tells)
  BY <1>1 DEF IsPrefix
<1>3. ASSUME NEW e \in T PROVE IsPrefix(tells, Append(tells, e))
  <2> DEFINE more == Append(tells, e)
  <2>1. Len(more) = n + 1 /\ SubSeq(more, 1, n) = tells
    OBVIOUS
  <2>2. n <= n + 1
    BY <1>1
  <2> HIDE DEF more
  <2> QED
    BY <1>1, <2>1, <2>2 DEF IsPrefix, more
<1> QED
  BY <1>2, <1>3

\* Of one told after others only its time and its number are compared.
LEMMA WhenMore ==
  ASSUME NEW L, NEW C, NEW tells, tells \in Seq(AlertOf(L, C))
  PROVE  \A e, f \in AlertOf(L, C) : e.at = f.at /\ e.merged = f.merged =>
           When(Append(tells, e)) = When(Append(tells, f))
<1> DEFINE n == Len(tells)
           pair(a) == <<a.at, a.merged>>
<1>1. n \in Nat /\ DOMAIN tells = 1..n
  OBVIOUS
<1>2. ASSUME NEW list \in Seq(AlertOf(L, C))
      PROVE  /\ When(list) \in Seq(Int \X Nat) /\ Len(When(list)) = Len(list)
             /\ \A i \in 1..Len(list) : When(list)[i] = pair(list[i])
  <2>1. When(list) = [i \in 1..Len(list) |-> pair(list[i])]
    BY DEF When
  <2>2. \A i \in 1..Len(list) : pair(list[i]) \in Int \X Nat
    <3>1. \A i \in 1..Len(list) : list[i] \in AlertOf(L, C)
      OBVIOUS
    <3>2. \A a \in AlertOf(L, C) : pair(a) \in Int \X Nat
      BY DEF AlertOf
    <3> QED
      BY <3>1, <3>2
  <2> DEFINE m == Len(list) w == When(list)
  <2>3. m \in Nat
    OBVIOUS
  <2> HIDE DEF m, w, pair
  <2>4. w = [i \in 1..m |-> pair(list[i])] /\ \A i \in 1..m : pair(list[i]) \in Int \X Nat
    BY <2>1, <2>2 DEF m, w
  <2>5. w \in Seq(Int \X Nat) /\ Len(w) = m /\ \A i \in 1..m : w[i] = pair(list[i])
    BY <2>3, <2>4
  <2> QED
    BY <2>5 DEF m, w
<1>3. ASSUME NEW e \in AlertOf(L, C)
      PROVE  /\ Append(tells, e) \in Seq(AlertOf(L, C)) /\ Len(Append(tells, e)) = n + 1
             /\ Append(tells, e)[n + 1] = e
             /\ \A i \in 1..n : Append(tells, e)[i] = tells[i]
  OBVIOUS
<1> HIDE DEF pair
<1>4. ASSUME NEW e \in AlertOf(L, C), NEW f \in AlertOf(L, C), e.at = f.at, e.merged = f.merged
      PROVE  When(Append(tells, e)) = When(Append(tells, f))
  <2> DEFINE u == When(Append(tells, e)) v == When(Append(tells, f))
  <2>1. /\ u \in Seq(Int \X Nat) /\ v \in Seq(Int \X Nat) /\ Len(u) = n + 1 /\ Len(v) = n + 1
        /\ \A i \in 1..(n + 1) : u[i] = pair(Append(tells, e)[i])
        /\ \A i \in 1..(n + 1) : v[i] = pair(Append(tells, f)[i])
    BY <1>2, <1>3
  <2>2. pair(e) = pair(f)
    BY <1>4 DEF pair
  <2>3. \A i \in 1..(n + 1) : i \in 1..n \/ i = n + 1
    BY <1>1
  <2>4. \A i \in 1..(n + 1) : u[i] = v[i]
    <3>1. /\ \A i \in 1..n : Append(tells, e)[i] = tells[i] /\ Append(tells, f)[i] = tells[i]
          /\ Append(tells, e)[n + 1] = e /\ Append(tells, f)[n + 1] = f
      BY <1>3
    <3> HIDE DEF u, v, n
    <3> QED
      BY <2>1, <2>2, <2>3, <3>1, Zenon
  <2> HIDE DEF u, v, n
  <2>5. u = v
    BY <1>1, <2>1, <2>4
  <2> QED
    BY <2>5 DEF u, v
<1> QED
  BY <1>4

\* The stream and the batch of the same judgements, told in the order of time.
Matches(rule, signals, g) ==
  LET batch == Apply(rule, signals) IN
  /\ g.raw = batch.raw /\ g.withheld = batch.withheld /\ g.dwelt = batch.dwelt /\ g.cooled = batch.cooled
  /\ IsPrefix(g.emitted, batch.alerts)

\* What is merged and when, as the stream closes, is what the batch says, and all
\* but the last alert are the batch's.
ClosesAs(rule, signals, g) ==
  LET batch == Apply(rule, signals) IN
  /\ g.raw = batch.raw /\ g.withheld = batch.withheld /\ g.dwelt = batch.dwelt /\ g.cooled = batch.cooled
  /\ When(g.emitted) = When(batch.alerts) /\ g.merged = batch.merged
  /\ \A i \in 1 .. Len(g.emitted) - 1 : g.emitted[i] = batch.alerts[i]

\* None is lost, and no hour has more than twice the budget and a bundle.
NoneLost(budget, g) ==
  /\ g.overflow + Merged(g.emitted) = g.raw - g.withheld - g.dwelt - g.cooled
  /\ \A a \in ToSet(g.emitted) : Cardinality(WithinHour(g.emitted, a.at)) <= 2 * budget + 1

\* Alerts that a gate and the batch of its judgements agree on.
AgreedOn(rule, signals, g, T) ==
  \E alerts \in Seq(T) :
    LET batch == Apply(rule, signals) IN
    /\ g.raw = batch.raw /\ g.withheld = batch.withheld /\ g.dwelt = batch.dwelt
    /\ g.cooled = batch.cooled
    /\ g.withheld \in Nat /\ g.dwelt \in Nat /\ g.cooled \in Nat
    /\ g.raw = g.withheld + g.dwelt + g.cooled + Len(alerts)
    /\ g.overflow + Merged(g.emitted) = Len(alerts)
    /\ IF alerts = <<>>
       THEN g.emitted = <<>> /\ g.overflow = 0 /\ g.merged = 0
            /\ batch.alerts = <<>> /\ batch.merged = 0
       ELSE \E s \in Int :
              /\ g.start = {s} /\ g.emitted # <<>> /\ g.emitted \in Seq(T)
              /\ g.used \in Nat /\ g.overflow \in Nat /\ g.merged \in Nat
              /\ Paced(1, rule.budget, g.emitted, s, g.used)
              /\ batch.alerts = g.emitted \o Bundled(s, Last(alerts), g.overflow)
              /\ batch.merged = g.merged + g.overflow

\* What agreement says of a gate, its judgements in the order of time.
LEMMA AgreesSays ==
  ASSUME NEW L, NEW C, NEW rule, rule.budget \in Nat \ {0},
         NEW signals, signals \in Seq(SignalOf(L, C)),
         \A i, j \in 1..Len(signals) : i < j => signals[i].at < signals[j].at,
         NEW now, NEW g, Agrees(rule, signals, now, g)
  PROVE  AgreedOn(rule, signals, g, AlertOf(L, C))
<1> DEFINE batch == Apply(rule, signals)
           seen == Candidates(rule, signals)
           alerts == seen.alerts
           spent == ApplyBudget(rule, alerts)
<1>1. seen \in SeenOf(L, C)
  BY CandidatesIn
<1>2. /\ seen = Seen(g.streak, g.withheld, g.dwelt, g.cooled, alerts)
      /\ g.raw = Cardinality(Calling(rule, signals))
      /\ g.raw = g.withheld + g.dwelt + g.cooled + Len(alerts)
      /\ Kept(rule, alerts, g.emitted, g.start, g.used, g.overflow, g.merged, now)
  BY Zenon DEF Agrees
<1>3. /\ batch.raw = Cardinality(Calling(rule, signals))
      /\ batch.withheld = seen.withheld /\ batch.dwelt = seen.dwelt /\ batch.cooled = seen.cooled
      /\ batch.alerts = spent.kept /\ batch.merged = spent.merged
  <2>1. Totals(batch, rule, signals)
    BY BatchForms, Zenon
  <2> QED
    BY <2>1, Zenon DEF Totals
<1>4. seen.withheld = g.withheld /\ seen.dwelt = g.dwelt /\ seen.cooled = g.cooled
  <2> DEFINE w == g.withheld d == g.dwelt c == g.cooled t == g.streak
  <2> HIDE DEF seen, w, d, c, t
  <2>1. seen = Seen(t, w, d, c, alerts)
    BY <1>2, Zenon DEF w, d, c, t
  <2>2. seen.withheld = w /\ seen.dwelt = d /\ seen.cooled = c
    BY <2>1, SeenFields
  <2> QED
    BY <2>2, Zenon DEF w, d, c
<1>5. /\ alerts \in Seq(AlertOf(L, C)) /\ seen.withheld \in Nat /\ seen.dwelt \in Nat
      /\ seen.cooled \in Nat
  BY <1>1, SeenIsSeen, Zenon
<1> HIDE DEF batch, seen, alerts, spent
<1>6. g.overflow + Merged(g.emitted) = Len(alerts)
  BY <1>2, Zenon DEF Kept
<1>7. CASE alerts = <<>>
  <2>1. g.emitted = <<>> /\ g.overflow = 0 /\ g.merged = 0
    BY <1>2, <1>7, Zenon DEF Kept
  <2>2. spent.kept = <<>> /\ spent.merged = 0
    BY <1>7, BudgetForms, Zenon DEF spent
  <2> QED
    BY <1>2, <1>3, <1>4, <1>5, <1>6, <1>7, <2>1, <2>2, Zenon DEF AgreedOn, batch
<1>8. CASE alerts # <<>>
  <2>1. PICK s : s \in Int /\ g.start = {s} /\ g.emitted # <<>>
                 /\ SpentBy(rule, alerts[1].at, alerts)
                      = Spending(g.emitted, s, g.used, g.overflow, g.merged)
                 /\ Paced(1, rule.budget, g.emitted, s, g.used)
    BY <1>2, <1>8, Zenon DEF Kept
  <2>2. /\ g.emitted \in Seq(AlertOf(L, C)) /\ g.used \in Nat /\ g.overflow \in Nat
        /\ g.merged \in Nat
    <3> DEFINE em == g.emitted us == g.used ov == g.overflow me == g.merged
    <3>1. SpentBy(rule, alerts[1].at, alerts) = Spending(em, s, us, ov, me)
      BY <2>1, Zenon
    <3> HIDE DEF em, us, ov, me
    <3>2. em \in Seq(AlertOf(L, C)) /\ us \in Nat /\ ov \in Nat /\ me \in Nat
      BY <1>5, <1>8, <3>1, KeptFields
    <3> QED
      BY <3>2, Zenon DEF em, us, ov, me
  <2>3. spent.kept = g.emitted \o Bundled(s, Last(alerts), g.overflow) /\ spent.merged = g.merged + g.overflow
    <3> DEFINE em == g.emitted us == g.used ov == g.overflow me == g.merged
    <3>1. SpentBy(rule, alerts[1].at, alerts) = Spending(em, s, us, ov, me)
      BY <2>1, Zenon
    <3> HIDE DEF em, us, ov, me
    <3>2. spent.kept = em \o Bundled(s, Last(alerts), ov) /\ spent.merged = me + ov
      BY ONLY <1>8, <3>1, BudgetForms DEF spent
    <3> QED
      BY <3>2, Zenon DEF em, us, ov, me
  <2> QED
    BY <1>2, <1>3, <1>4, <1>5, <1>6, <1>8, <2>1, <2>2, <2>3, Zenon DEF AgreedOn, batch
<1> QED
  BY <1>7, <1>8

\* A gate that has closed: nothing waits, and what waited is told.
LEMMA ClosedForms ==
  ASSUME NEW st, NEW la, NEW s, NEW us, NEW ov, NEW ra, NEW wi, NEW dw, NEW co, NEW me,
         NEW em, NEW fi, NEW lt, NEW rule, em # <<>>, ov # 0
  PROVE  Closed(rule, Gated(st, la, {s}, us, ov, ra, wi, dw, co, me, em, fi, lt))
           = Gated(st, la, {s}, us, 0, ra, wi, dw, co, me + ov, em \o Bundled(s, Last(em), ov), fi, lt)
<1> DEFINE sn == {s}
           mo == me + ov
           eb == em \o Bundled(s, Last(em), ov)
           old == Gated(st, la, sn, us, ov, ra, wi, dw, co, me, em, fi, lt)
           g1 == Gated(st, la, sn, us, ov, ra, wi, dw, co, me, eb, fi, lt)
           g2 == Gated(st, la, sn, us, ov, ra, wi, dw, co, mo, eb, fi, lt)
           g3 == Gated(st, la, sn, us, 0, ra, wi, dw, co, mo, eb, fi, lt)
<1>1. s = CHOOSE t \in sn : TRUE
  BY TheOne
<1> HIDE DEF sn, mo, eb
<1>2. old.start = sn /\ old.overflow = ov /\ old.merged = me /\ old.emitted = em
  BY DEF Gated
<1>3. [old EXCEPT !.emitted = eb, !.merged = mo, !.overflow = 0]
        = [[[old EXCEPT !.emitted = eb] EXCEPT !.merged = mo] EXCEPT !.overflow = 0]
  BY DEF Gated
<1>4. [old EXCEPT !.emitted = eb] = g1
  BY DEF Gated
<1>5. [g1 EXCEPT !.merged = mo] = g2
  BY DEF Gated
<1>6. [g2 EXCEPT !.overflow = 0] = g3
  BY DEF Gated
<1> HIDE DEF old, g1, g2, g3
<1>7. [old EXCEPT !.emitted = eb, !.merged = mo, !.overflow = 0] = g3
  BY <1>3, <1>4, <1>5, <1>6
<1>8. Closed(rule, old) = [old EXCEPT !.emitted = eb, !.merged = mo, !.overflow = 0]
  <2> DEFINE of == IF old.emitted # <<>> THEN Last(old.emitted)
                   ELSE [label |-> rule.labels[1], confidence |-> 100]
             one == CHOOSE t \in old.start : TRUE
  <2>1. Closed(rule, old) = [old EXCEPT !.emitted = @ \o Bundled(one, of, old.overflow),
                                       !.merged = @ + old.overflow, !.overflow = 0]
    BY <1>2, Zenon DEF Closed
  <2>2. of = Last(em)
    BY <1>2, Zenon
  <2>3. one = s
    BY <1>1, <1>2, Zenon
  <2> HIDE DEF of, one
  <2> QED
    BY <1>2, <2>1, <2>2, <2>3, Zenon DEF eb, mo
<1> QED
  BY <1>7, <1>8, Zenon DEF old, g3, sn, mo, eb

\* The bundle that a list of alerts ends with is of its kind.
LEMMA BundleOf ==
  ASSUME NEW L, NEW C, NEW s, s \in Int, NEW list, list \in Seq(AlertOf(L, C)), list # <<>>,
         NEW o, o \in Nat
  PROVE  /\ Alert(s + Hour, Last(list), o) \in AlertOf(L, C)
         /\ Alert(s + Hour, Last(list), o).at = s + Hour
         /\ Alert(s + Hour, Last(list), o).merged = o
<1>1. Last(list) \in AlertOf(L, C)
  <2>1. Len(list) \in 1..Len(list)
    OBVIOUS
  <2>2. list[Len(list)] \in AlertOf(L, C)
    BY <2>1
  <2> QED
    BY <2>2 DEF Last
<1>2. s + Hour \in Int
  BY AlertsAssumption
<1> QED
  BY <1>1, <1>2 DEF Alert, AlertOf

\* While it runs the stream has told the first of what the batch tells, and
\* lost none.
LEMMA RunningMatches ==
  ASSUME NEW L, NEW C, NEW rule, rule.budget \in Nat \ {0}, NEW signals, NEW g,
         AgreedOn(rule, signals, g, AlertOf(L, C))
  PROVE  Matches(rule, signals, g) /\ NoneLost(rule.budget, g)
<1> DEFINE batch == Apply(rule, signals)
           em == g.emitted
           ov == g.overflow
<1>1. PICK alerts \in Seq(AlertOf(L, C)) :
         /\ g.raw = batch.raw /\ g.withheld = batch.withheld /\ g.dwelt = batch.dwelt
         /\ g.cooled = batch.cooled
         /\ g.withheld \in Nat /\ g.dwelt \in Nat /\ g.cooled \in Nat
         /\ g.raw = g.withheld + g.dwelt + g.cooled + Len(alerts)
         /\ ov + Merged(em) = Len(alerts)
         /\ IF alerts = <<>>
            THEN em = <<>> /\ ov = 0 /\ g.merged = 0
                 /\ batch.alerts = <<>> /\ batch.merged = 0
            ELSE \E s \in Int :
                   /\ g.start = {s} /\ em # <<>> /\ em \in Seq(AlertOf(L, C))
                   /\ g.used \in Nat /\ ov \in Nat /\ g.merged \in Nat
                   /\ Paced(1, rule.budget, em, s, g.used)
                   /\ batch.alerts = em \o Bundled(s, Last(alerts), ov)
                   /\ batch.merged = g.merged + ov
  BY Zenon DEF AgreedOn
<1> HIDE DEF batch, em, ov
<1>2. ov + Merged(em) = g.raw - g.withheld - g.dwelt - g.cooled
  <2> DEFINE r == g.raw w == g.withheld d == g.dwelt c == g.cooled n == Len(alerts) m == Merged(em)
  <2>1. w \in Nat /\ d \in Nat /\ c \in Nat /\ r = w + d + c + n /\ ov + m = n
    BY <1>1, Zenon
  <2>2. n \in Nat
    OBVIOUS
  <2> HIDE DEF r, w, d, c, n, m
  <2>3. ov + m = r - w - d - c
    BY <2>1, <2>2
  <2> QED
    BY <2>3, Zenon DEF r, w, d, c, m
<1>3. /\ IsPrefix(em, batch.alerts)
      /\ \A a \in ToSet(em) : Cardinality(WithinHour(em, a.at)) <= 2 * rule.budget + 1
  <2>1. CASE alerts = <<>>
    <3>1. em = <<>> /\ batch.alerts = em
      BY <1>1, <2>1, Zenon
    <3>2. em \in Seq(AlertOf(L, C)) /\ ToSet(em) = {}
      BY <3>1 DEF ToSet
    <3>3. IsPrefix(em, em)
      BY <3>2, PrefixMore
    <3> QED
      BY <3>1, <3>2, <3>3
  <2>2. CASE alerts # <<>>
    <3>1. PICK s : s \in Int /\ em \in Seq(AlertOf(L, C)) /\ ov \in Nat
                   /\ Paced(1, rule.budget, em, s, g.used)
                   /\ batch.alerts = em \o Bundled(s, Last(alerts), ov)
      BY <1>1, <2>2, Zenon
    <3> DEFINE c == Alert(s + Hour, Last(alerts), ov)
    <3>2. batch.alerts = IF ov = 0 THEN em ELSE Append(em, c)
      BY <3>1, BundledAppend
    <3>3. c \in AlertOf(L, C)
      BY <2>2, <3>1, BundleOf
    <3> HIDE DEF c
    <3>4. IsPrefix(em, em) /\ IsPrefix(em, Append(em, c))
      BY <3>1, <3>3, PrefixMore
    <3>5. \A a \in ToSet(em) : a.at \in Int
      BY <3>1, AtIsInt DEF ToSet
    <3>6. \A t \in Int : Cardinality(WithinHour(em, t)) <= 2 * rule.budget + 1
      BY <3>1 DEF Paced
    <3> QED
      BY <3>2, <3>4, <3>5, <3>6
  <2> QED
    BY <2>1, <2>2
<1>4. NoneLost(rule.budget, g)
  BY <1>2, <1>3, Zenon DEF NoneLost, em, ov
<1>5. Matches(rule, signals, g)
  BY <1>1, <1>3, Zenon DEF Matches, batch, em
<1> QED
  BY <1>4, <1>5

\* When it has closed it has told what the batch tells, and lost none.
LEMMA ClosedMatches ==
  ASSUME NEW L, NEW C, NEW rule, rule.budget \in Nat \ {0}, NEW signals, NEW g,
         g = Gated(g.streak, g.last, g.start, g.used, g.overflow, g.raw, g.withheld, g.dwelt, g.cooled,
                   g.merged, g.emitted, g.first, g.latest),
         AgreedOn(rule, signals, g, AlertOf(L, C))
  PROVE  ClosesAs(rule, signals, Closed(rule, g)) /\ NoneLost(rule.budget, Closed(rule, g))
<1> DEFINE batch == Apply(rule, signals)
           em == g.emitted
           ov == g.overflow
           next == Closed(rule, g)
<1>1. PICK alerts \in Seq(AlertOf(L, C)) :
         /\ g.raw = batch.raw /\ g.withheld = batch.withheld /\ g.dwelt = batch.dwelt
         /\ g.cooled = batch.cooled
         /\ g.withheld \in Nat /\ g.dwelt \in Nat /\ g.cooled \in Nat
         /\ g.raw = g.withheld + g.dwelt + g.cooled + Len(alerts)
         /\ ov + Merged(em) = Len(alerts)
         /\ IF alerts = <<>>
            THEN em = <<>> /\ ov = 0 /\ g.merged = 0
                 /\ batch.alerts = <<>> /\ batch.merged = 0
            ELSE \E s \in Int :
                   /\ g.start = {s} /\ em # <<>> /\ em \in Seq(AlertOf(L, C))
                   /\ g.used \in Nat /\ ov \in Nat /\ g.merged \in Nat
                   /\ Paced(1, rule.budget, em, s, g.used)
                   /\ batch.alerts = em \o Bundled(s, Last(alerts), ov)
                   /\ batch.merged = g.merged + ov
  BY Zenon DEF AgreedOn
<1>2. Matches(rule, signals, g) /\ NoneLost(rule.budget, g)
  BY RunningMatches
<1>3. CASE ov = 0
  <2>1. next = g
    BY <1>3, Zenon DEF Closed
  <2>2. batch.alerts = em /\ batch.merged = g.merged
    <3>1. CASE alerts = <<>>
      BY <1>1, <3>1, Zenon
    <3>2. CASE alerts # <<>>
      <4> HIDE DEF batch, em, ov, next
      <4>1. PICK s : s \in Int /\ em \in Seq(AlertOf(L, C)) /\ g.merged \in Nat
                     /\ batch.alerts = em \o Bundled(s, Last(alerts), ov)
                     /\ batch.merged = g.merged + ov
        BY <1>1, <3>2, Zenon
      <4>2. batch.alerts = em
        BY <1>3, <4>1, BundledAppend
      <4>3. batch.merged = g.merged
        BY <1>3, <4>1
      <4> QED
        BY <4>2, <4>3
    <3> QED
      BY <3>1, <3>2
  <2>3. \A i \in 1 .. Len(em) - 1 : em[i] = batch.alerts[i]
    BY <2>2, Zenon
  <2>4. ClosesAs(rule, signals, g)
    BY <1>1, <2>2, <2>3, Zenon DEF ClosesAs
  <2> QED
    BY <1>2, <2>1, <2>4, Zenon
<1>4. CASE ov # 0
  <2> HIDE DEF batch, em, ov, next
  <2>1. alerts # <<>>
    BY <1>1, <1>4, Zenon
  <2>2. PICK s : s \in Int /\ g.start = {s} /\ em # <<>> /\ em \in Seq(AlertOf(L, C))
                 /\ g.used \in Nat /\ ov \in Nat /\ g.merged \in Nat
                 /\ Paced(1, rule.budget, em, s, g.used)
                 /\ batch.alerts = em \o Bundled(s, Last(alerts), ov)
                 /\ batch.merged = g.merged + ov
    BY <1>1, <2>1, Zenon
  <2> DEFINE b == Alert(s + Hour, Last(em), ov)
             c == Alert(s + Hour, Last(alerts), ov)
             eb == em \o Bundled(s, Last(em), ov)
  <2>3. b \in AlertOf(L, C) /\ b.at = s + Hour /\ b.merged = ov
    <3>1. b \in AlertOf(L, C)
      BY <2>2, BundleOf
    <3>2. b.at = s + Hour /\ b.merged = ov
      BY DEF Alert
    <3> QED
      BY <3>1, <3>2
  <2>4. c \in AlertOf(L, C) /\ c.at = s + Hour /\ c.merged = ov
    <3>1. c \in AlertOf(L, C)
      BY <2>1, <2>2, BundleOf
    <3>2. c.at = s + Hour /\ c.merged = ov
      BY DEF Alert
    <3> QED
      BY <3>1, <3>2
  <2>5. eb = Append(em, b) /\ batch.alerts = Append(em, c)
    BY <1>4, <2>2, BundledAppend
  <2> HIDE DEF b, c, eb
  <2>6. When(Append(em, b)) = When(Append(em, c))
    BY <2>2, <2>3, <2>4, WhenMore
  <2>7. next = Gated(g.streak, g.last, {s}, g.used, 0, g.raw, g.withheld, g.dwelt, g.cooled,
                     g.merged + ov, eb, g.first, g.latest)
    <3> DEFINE st == g.streak la == g.last us == g.used ra == g.raw wi == g.withheld dw == g.dwelt
               co == g.cooled me == g.merged fi == g.first lt == g.latest
               old == Gated(st, la, {s}, us, ov, ra, wi, dw, co, me, em, fi, lt)
    <3>1. g = old
      BY <2>2, Zenon DEF em, ov
    <3> HIDE DEF st, la, us, ra, wi, dw, co, me, fi, lt
    <3>2. Closed(rule, old) = Gated(st, la, {s}, us, 0, ra, wi, dw, co, me + ov,
                                    em \o Bundled(s, Last(em), ov), fi, lt)
      <4>1. em # <<>> /\ ov # 0
        BY <1>4, <2>2
      <4> QED
        BY ONLY <4>1, ClosedForms
    <3> HIDE DEF old
    <3>3. next = Closed(rule, old)
      BY <3>1, Zenon DEF next
    <3> QED
      BY <3>2, <3>3, Zenon DEF st, la, us, ra, wi, dw, co, me, fi, lt, eb
  <2>8. /\ next.raw = g.raw /\ next.withheld = g.withheld /\ next.dwelt = g.dwelt
        /\ next.cooled = g.cooled /\ next.merged = g.merged + ov /\ next.emitted = eb
        /\ next.overflow = 0
    <3> DEFINE st == g.streak la == g.last us == g.used ra == g.raw wi == g.withheld dw == g.dwelt
               co == g.cooled mo == g.merged + ov fi == g.first lt == g.latest sn == {s}
    <3>1. next = Gated(st, la, sn, us, 0, ra, wi, dw, co, mo, eb, fi, lt)
      BY <2>7, Zenon
    <3> HIDE DEF st, la, us, ra, wi, dw, co, mo, fi, lt, sn
    <3>2. /\ next.raw = ra /\ next.withheld = wi /\ next.dwelt = dw /\ next.cooled = co
          /\ next.merged = mo /\ next.emitted = eb /\ next.overflow = 0
      BY <3>1 DEF Gated
    <3> QED
      BY <3>2, Zenon DEF ra, wi, dw, co, mo
  <2>9. ClosesAs(rule, signals, next)
    <3>1. \A i \in 1 .. Len(eb) - 1 : eb[i] = batch.alerts[i]
      <4>1. /\ Len(Append(em, b)) - 1 = Len(em)
            /\ \A i \in 1 .. Len(em) : Append(em, b)[i] = em[i] /\ Append(em, c)[i] = em[i]
        BY <2>2
      <4> QED
        BY <2>5, <4>1, Zenon
    <3>2. When(eb) = When(batch.alerts)
      BY <2>5, <2>6, Zenon
    <3> QED
      BY <1>1, <2>2, <2>8, <3>1, <3>2, Zenon DEF ClosesAs, batch
  <2>10. NoneLost(rule.budget, next)
    <3>1. Merged(em) \in Nat /\ Merged(eb) = Merged(em) + ov
      BY <2>2, <2>3, <2>5, MergedMore, MergedIn
    <3>2. ov + Merged(em) = g.raw - g.withheld - g.dwelt - g.cooled
      BY <1>2, Zenon DEF NoneLost, em, ov
    <3>3. 0 + Merged(eb) = ov + Merged(em)
      BY <2>2, <3>1
    <3>4. next.overflow + Merged(next.emitted) = next.raw - next.withheld - next.dwelt - next.cooled
      BY <2>8, <3>2, <3>3, Zenon
    <3>5. \A t \in Int : Cardinality(WithinHour(eb, t)) <= 2 * rule.budget + 1
      BY <2>2, <2>3, <2>5, PacedBundled
    <3>6. eb \in Seq(AlertOf(L, C))
      BY <2>2, <2>3, <2>5
    <3>7. \A a \in ToSet(eb) : a.at \in Int
      BY <3>6, AtIsInt DEF ToSet
    <3> QED
      BY <2>8, <3>4, <3>5, <3>7, Zenon DEF NoneLost
  <2> QED
    BY <2>9, <2>10, Zenon DEF next
<1> QED
  BY <1>3, <1>4

------------------------------------------------------------------------------
(* The batch by itself.                                                      *)

\* Offered one after the other, the judgements of a batch in the order of time
\* lead to a gate that agrees with it.
LEMMA StreamExists ==
  ASSUME NEW L, NEW C, NEW rule, rule.budget \in Nat \ {0},
         NEW signals, signals \in Seq(SignalOf(L, C)),
         \A i, j \in 1..Len(signals) : i < j => signals[i].at < signals[j].at
  PROVE  \E now, g : Agrees(rule, signals, now, g)
<1> DEFINE n == Len(signals)
           front(k) == SubSeq(signals, 1, k)
           Reached(k) == \E now \in Int : /\ \E g : Agrees(rule, front(k), now, g)
                                          /\ \A j \in 1..n : k < j => now <= signals[j].at
           S == {k \in 0..n : Reached(k)}
<1>1. /\ n \in Nat
      /\ \A k \in 1..n : signals[k] \in SignalOf(L, C)
      /\ \A i, j \in 1..n : i < j => signals[i].at < signals[j].at
  OBVIOUS
<1>2. \A k \in 1..n : signals[k].at \in Int
  BY <1>1 DEF SignalOf
<1>3. \A k \in 0..n : front(k) \in Seq(SignalOf(L, C))
  BY <1>1
<1>4. \A k \in 1..n : front(k) = Append(front(k - 1), signals[k])
  <2> SUFFICES ASSUME NEW k \in 1..n PROVE front(k) = Append(front(k - 1), signals[k])
    OBVIOUS
  <2>1. /\ front(k) \in Seq(SignalOf(L, C)) /\ Len(front(k)) = k
        /\ \A i \in 1..k : front(k)[i] = signals[i]
    BY <1>1
  <2>2. /\ front(k - 1) \in Seq(SignalOf(L, C)) /\ Len(front(k - 1)) = k - 1
        /\ \A i \in 1..(k - 1) : front(k - 1)[i] = signals[i]
    BY <1>1
  <2> HIDE DEF front, n
  <2> QED
    BY <1>1, <2>1, <2>2
<1>5. front(n) = signals /\ front(0) = <<>>
  BY <1>1
<1> HIDE DEF n, front
<1>6. 0 \in S
  <2>1. \A now : Agrees(rule, front(0), now, NewGate)
    BY <1>5, AgreesNone
  <2>2. \E now \in Int : \A j \in 1..n : 0 < j => now <= signals[j].at
    <3>1. CASE n = 0
      BY <3>1
    <3>2. CASE n # 0
      <4>1. 1 \in 1..n /\ \A j \in 1..n : j = 1 \/ 1 < j
        BY <1>1, <3>2
      <4>2. signals[1].at \in Int /\ \A j \in 1..n : signals[1].at <= signals[j].at
        BY <1>1, <1>2, <4>1
      <4> QED
        BY <4>2
    <3> QED
      BY <3>1, <3>2
  <2>3. Reached(0)
    BY <2>1, <2>2, Zenon
  <2> HIDE DEF Reached
  <2> QED
    BY <1>1, <2>3
<1>7. ASSUME NEW k \in 1..n, k - 1 \in S PROVE k \in S
  <2>1. Reached(k - 1)
    BY <1>7, Zenon
  <2>2. PICK now, g : /\ now \in Int /\ Agrees(rule, front(k - 1), now, g)
                      /\ \A j \in 1..n : k - 1 < j => now <= signals[j].at
    BY <2>1, Zenon
  <2> HIDE DEF Reached
  <2> DEFINE signal == signals[k]
             at == signal.at
             next == Offer(rule, g, signal).gate
  <2>3. /\ signal \in SignalOf(L, C) /\ at \in Int /\ now <= at /\ k - 1 < k
        /\ k \in 0..n /\ k - 1 \in 0..n
    BY <1>1, <1>2, <2>2
  <2>4. front(k - 1) \in Seq(SignalOf(L, C))
    BY <1>3, <2>3
  <2>5. Agrees(rule, front(k - 1), at, g)
    BY <2>2, <2>3, <2>4, AgreesLater
  <2>6. Agrees(rule, Append(front(k - 1), signal), at + 1, next)
    BY <2>3, <2>4, <2>5, OfferAgrees
  <2>7. at + 1 \in Int /\ \A j \in 1..n : k < j => at + 1 <= signals[j].at
    <3>1. \A j \in 1..n : k < j => at < signals[j].at
      BY <1>1
    <3> HIDE DEF at
    <3> QED
      BY <1>2, <2>3, <3>1
  <2>8. Agrees(rule, front(k), at + 1, next)
    BY <1>4, <2>6, Zenon
  <2>9. Reached(k)
    BY <2>7, <2>8, Zenon DEF Reached
  <2> QED
    BY <2>3, <2>9
<1>8. Reached(n)
  <2> HIDE DEF Reached
  <2>1. 0..n \subseteq S
    <3> HIDE DEF S
    <3> QED
      BY <1>1, <1>6, <1>7, UpTo
  <2>2. n \in 0..n
    BY <1>1
  <2> QED
    BY <2>1, <2>2
<1> QED
  BY <1>5, <1>8, Zenon

\* What the budget holds back of a batch is bundled, not thrown away, for any
\* judgements that come at different times: each that was confident, confirmed
\* and not cooling is in one alert, alone or bundled, and no hour calls more than
\* twice the budget and one bundle (AlertGate.apply, _apply_budget).
THEOREM BatchLosesNone ==
  ASSUME NEW L, NEW C, NEW rule, rule.budget \in Nat \ {0},
         NEW signals, signals \in Seq(SignalOf(L, C)),
         \A i, j \in 1..Len(signals) : i < j => signals[i].at < signals[j].at
  PROVE  LET batch == Apply(rule, signals)
         IN /\ Merged(batch.alerts) = batch.raw - batch.withheld - batch.dwelt - batch.cooled
            /\ \A t \in Int : Cardinality(WithinHour(batch.alerts, t)) <= 2 * rule.budget + 1
<1> DEFINE batch == Apply(rule, signals)
<1>1. PICK now, g : Agrees(rule, signals, now, g)
  BY StreamExists
<1>2. AgreedOn(rule, signals, g, AlertOf(L, C))
  BY <1>1, AgreesSays
<1> DEFINE em == g.emitted
           ov == g.overflow
<1>3. PICK alerts \in Seq(AlertOf(L, C)) :
         /\ g.raw = batch.raw /\ g.withheld = batch.withheld /\ g.dwelt = batch.dwelt
         /\ g.cooled = batch.cooled
         /\ g.withheld \in Nat /\ g.dwelt \in Nat /\ g.cooled \in Nat
         /\ g.raw = g.withheld + g.dwelt + g.cooled + Len(alerts)
         /\ ov + Merged(em) = Len(alerts)
         /\ IF alerts = <<>>
            THEN em = <<>> /\ ov = 0 /\ g.merged = 0
                 /\ batch.alerts = <<>> /\ batch.merged = 0
            ELSE \E s \in Int :
                   /\ g.start = {s} /\ em # <<>> /\ em \in Seq(AlertOf(L, C))
                   /\ g.used \in Nat /\ ov \in Nat /\ g.merged \in Nat
                   /\ Paced(1, rule.budget, em, s, g.used)
                   /\ batch.alerts = em \o Bundled(s, Last(alerts), ov)
                   /\ batch.merged = g.merged + ov
  BY <1>2, Zenon DEF AgreedOn
<1> HIDE DEF batch, em, ov
<1>4. Merged(batch.alerts) = Len(alerts)
      /\ \A t \in Int : Cardinality(WithinHour(batch.alerts, t)) <= 2 * rule.budget + 1
  <2>1. CASE alerts = <<>>
    <3>1. batch.alerts = <<>> /\ Len(alerts) = 0
      BY <1>3, <2>1
    <3>2. \A t : WithinHour(<<>>, t) = {}
      BY DEF WithinHour
    <3>3. Cardinality({}) = 0 /\ 0 <= 2 * rule.budget + 1
      BY FS_EmptySet
    <3>4. \A t : Cardinality(WithinHour(<<>>, t)) <= 2 * rule.budget + 1
      BY <3>2, <3>3, Zenon
    <3> QED
      BY <3>1, <3>4, MergedNone, Zenon
  <2>2. CASE alerts # <<>>
    <3>1. PICK s : s \in Int /\ em \in Seq(AlertOf(L, C)) /\ ov \in Nat /\ g.used \in Nat
                   /\ Paced(1, rule.budget, em, s, g.used)
                   /\ batch.alerts = em \o Bundled(s, Last(alerts), ov)
      BY <1>3, <2>2, Zenon
    <3> DEFINE c == Alert(s + Hour, Last(alerts), ov)
    <3>2. batch.alerts = IF ov = 0 THEN em ELSE Append(em, c)
      BY <3>1, BundledAppend
    <3>3. c \in AlertOf(L, C) /\ c.at = s + Hour /\ c.merged = ov
      BY <2>2, <3>1, BundleOf
    <3> HIDE DEF c
    <3>4. Merged(Append(em, c)) = Merged(em) + ov /\ Merged(em) \in Nat
      BY <3>1, <3>3, MergedMore, MergedIn
    <3>5. Merged(batch.alerts) = Len(alerts)
      BY <1>3, <3>1, <3>2, <3>4
    <3>6. \A t \in Int : Cardinality(WithinHour(em, t)) <= 2 * rule.budget + 1
      BY <3>1 DEF Paced
    <3>7. \A t \in Int : Cardinality(WithinHour(Append(em, c), t)) <= 2 * rule.budget + 1
      BY <3>1, <3>3, PacedBundled
    <3> QED
      BY <3>2, <3>5, <3>6, <3>7
  <2> QED
    BY <2>1, <2>2
<1>5. Merged(batch.alerts) = batch.raw - batch.withheld - batch.dwelt - batch.cooled
  <2> DEFINE r == batch.raw w == batch.withheld d == batch.dwelt c == batch.cooled
             l == Len(alerts) m == Merged(batch.alerts)
  <2>1. w \in Nat /\ d \in Nat /\ c \in Nat /\ r = w + d + c + l /\ m = l
    BY <1>3, <1>4, Zenon
  <2>2. l \in Nat
    OBVIOUS
  <2> HIDE DEF r, w, d, c, l, m
  <2>3. m = r - w - d - c
    BY <2>1, <2>2
  <2> QED
    BY <2>3, Zenon DEF r, w, d, c, m
<1> QED
  BY <1>4, <1>5, Zenon DEF batch

------------------------------------------------------------------------------
(* The parts of the loop's state.                                           *)

\* A window builder with its tries.
IsBuilder(b) ==
  /\ b = [buffer |-> b.buffer, since |-> b.since, attempted |-> b.attempted,
          crossed |-> b.crossed, notFull |-> b.notFull]
  /\ b.attempted \in Nat

\* A spool with what waits in it and what it threw away.
IsSpool(s) ==
  /\ s = [pending |-> s.pending, dropped |-> s.dropped]
  /\ s.pending \in Nat /\ s.dropped \in Nat

\* The source's place, and its rows without a value.
IsIndex(i) ==
  /\ i = [next |-> i.next, unreadable |-> i.unreadable]
  /\ i.next \in Nat /\ i.unreadable \in Nat

\* What a model may be confident of.
Confidences == {a.confidence : a \in Answers}

\* What a boot may have offered to its gate, judgements of its model, and the
\* alerts they may be.
Judgements == SignalOf(ToSet(bundle.labels), Confidences)
Signals == Seq(Judgements)

\* The kinds of the loop's state: the bundle is one that was accepted.
LoopInv ==
  /\ bundle \in Bundles /\ IsBundle(bundle)
  /\ phase \in {"off", "running", "reported", "raised"}
  /\ IsBuilder(builder) /\ IsSpool(spool) /\ IsIndex(index)
  /\ past = [samples |-> past.samples, boots |-> past.boots] /\ past.boots \in Nat
  /\ offered \in Signals

\* A window comes of a try that is counted (WindowBuilder.offer).
LEMMA WindowTries ==
  ASSUME NEW b, IsBuilder(b), NEW sample
  PROVE  LET seen == WindowOffered(b, sample)
         IN /\ IsBuilder(seen.builder)
            /\ seen.builder.attempted >= b.attempted + (IF seen.gave THEN 1 ELSE 0)
<1> DEFINE Slide(s) == IF Len(s) > Window THEN Tail(s) ELSE s
           buffer == Slide(Append(b.buffer, sample))
           c == [b EXCEPT !.buffer = buffer, !.since = b.since + 1]
           tried == [c EXCEPT !.since = 0, !.attempted = c.attempted + 1]
           unfilled == [c EXCEPT !.notFull = c.notFull + 1]
           crossing == [tried EXCEPT !.crossed = tried.crossed + 1]
           broken == [tried EXCEPT !.notFull = tried.notFull + 1]
           seen == WindowOffered(b, sample)
<1>1. b = [buffer |-> b.buffer, since |-> b.since, attempted |-> b.attempted,
           crossed |-> b.crossed, notFull |-> b.notFull]
      /\ b.attempted \in Nat
  BY DEF IsBuilder
<1>2. \/ seen = [builder |-> unfilled, gave |-> FALSE]
      \/ seen = [builder |-> c, gave |-> FALSE]
      \/ seen = [builder |-> crossing, gave |-> FALSE]
      \/ seen = [builder |-> broken, gave |-> FALSE]
      \/ seen = [builder |-> tried, gave |-> TRUE]
  BY Zenon DEF WindowOffered
<1> HIDE DEF buffer, seen
<1>3. c = [buffer |-> buffer, since |-> b.since + 1, attempted |-> b.attempted,
           crossed |-> b.crossed, notFull |-> b.notFull]
  <2>1. c = [b EXCEPT !.buffer = buffer, !.since = b.since + 1]
    OBVIOUS
  <2> HIDE DEF c
  <2> QED
    BY <1>1, <2>1
<1>4. tried = [buffer |-> buffer, since |-> 0, attempted |-> b.attempted + 1,
               crossed |-> b.crossed, notFull |-> b.notFull]
  <2>1. tried = [c EXCEPT !.since = 0, !.attempted = c.attempted + 1]
    OBVIOUS
  <2> HIDE DEF c, tried
  <2> QED
    BY <1>3, <2>1
<1> HIDE DEF c, tried
<1>5. unfilled = [buffer |-> buffer, since |-> b.since + 1, attempted |-> b.attempted,
                  crossed |-> b.crossed, notFull |-> b.notFull + 1]
  BY <1>3
<1>6. crossing = [buffer |-> buffer, since |-> 0, attempted |-> b.attempted + 1,
                  crossed |-> b.crossed + 1, notFull |-> b.notFull]
  BY <1>4
<1>7. broken = [buffer |-> buffer, since |-> 0, attempted |-> b.attempted + 1,
                crossed |-> b.crossed, notFull |-> b.notFull + 1]
  BY <1>4
<1> HIDE DEF unfilled, crossing, broken
<1>8. /\ IsBuilder(unfilled) /\ IsBuilder(c) /\ IsBuilder(crossing) /\ IsBuilder(broken) /\ IsBuilder(tried)
  BY <1>1, <1>3, <1>4, <1>5, <1>6, <1>7 DEF IsBuilder
<1>9. CASE seen = [builder |-> tried, gave |-> TRUE]
  BY <1>1, <1>4, <1>8, <1>9 DEF seen
<1>10. CASE seen = [builder |-> crossing, gave |-> FALSE] \/ seen = [builder |-> broken, gave |-> FALSE]
  BY <1>1, <1>6, <1>7, <1>8, <1>10 DEF seen
<1>11. CASE seen = [builder |-> unfilled, gave |-> FALSE] \/ seen = [builder |-> c, gave |-> FALSE]
  BY <1>1, <1>3, <1>5, <1>8, <1>11 DEF seen
<1> QED
  BY <1>2, <1>9, <1>10, <1>11

\* A record more waits, or is counted among those thrown away; a flush adds
\* nothing (Spool.append, DeviceAgent._flush).
LEMMA SpoolGrows ==
  ASSUME NEW s, IsSpool(s)
  PROVE  /\ IsSpool(Appended(s))
         /\ Appended(s).pending + Appended(s).dropped = s.pending + s.dropped + 1
         /\ \A up : /\ IsSpool(Flushed(s, up)) /\ Flushed(s, up).dropped = s.dropped
                    /\ Flushed(s, up).pending <= s.pending
<1> DEFINE p == s.pending
           d == s.dropped
           n == p + 1
           half == n \div 2
<1>1. s = [pending |-> p, dropped |-> d] /\ p \in Nat /\ d \in Nat
  BY DEF IsSpool
<1> HIDE DEF p, d
<1>2. n \in Nat /\ half \in 0..n
  BY <1>1
<1> HIDE DEF half
<1>3. Appended(s) = IF n <= Capacity THEN [s EXCEPT !.pending = n]
                    ELSE [pending |-> n - half, dropped |-> d + half]
  BY Zenon DEF Appended, half, p, d
<1> HIDE DEF n
<1>4. n = p + 1
  BY DEF n
<1>5. /\ IsSpool(Appended(s))
      /\ Appended(s).pending + Appended(s).dropped = p + d + 1
  <2>1. CASE n <= Capacity
    <3>1. Appended(s) = [pending |-> n, dropped |-> d]
      BY <1>1, <1>3, <2>1
    <3> QED
      BY <1>1, <1>2, <1>4, <3>1 DEF IsSpool
  <2>2. CASE ~(n <= Capacity)
    <3>1. Appended(s) = [pending |-> n - half, dropped |-> d + half]
      BY <1>3, <2>2
    <3> QED
      BY <1>1, <1>2, <1>4, <3>1 DEF IsSpool
  <2> QED
    BY <2>1, <2>2
<1>6. ASSUME NEW up
      PROVE  /\ IsSpool(Flushed(s, up)) /\ Flushed(s, up).dropped = d
             /\ Flushed(s, up).pending <= p
  <2>1. \E m \in 0..p : Flushed(s, up) = [pending |-> m, dropped |-> d]
    <3>1. BatchSize \in Nat \ {0}
      BY PipelineAssumption
    <3>2. CASE up /\ s.pending > 0
      <4> DEFINE m == IF p > BatchSize THEN p - BatchSize ELSE 0
      <4>1. m \in 0..p
        BY <1>1, <3>1
      <4>2. Flushed(s, up) = [s EXCEPT !.pending = m]
        BY <3>2, Zenon DEF Flushed, p
      <4> HIDE DEF m
      <4>3. Flushed(s, up) = [pending |-> m, dropped |-> d]
        BY <1>1, <4>2
      <4> QED
        BY <4>1, <4>3
    <3>3. CASE ~(up /\ s.pending > 0)
      <4>1. Flushed(s, up) = s /\ p \in 0..p
        BY <1>1, <3>3 DEF Flushed
      <4> QED
        BY <1>1, <4>1
    <3> QED
      BY <3>2, <3>3
  <2> QED
    BY <1>1, <2>1 DEF IsSpool
<1> QED
  BY <1>5, <1>6 DEF p, d

\* The first boot has everything to come.
LEMMA LoopStarts == PipelineInit => LoopInv
<1> SUFFICES ASSUME PipelineInit PROVE LoopInv
  OBVIOUS
<1>1. IsBuilder(builder)
  BY DEF PipelineInit, IsBuilder, NewBuilder
<1>2. IsSpool(spool) /\ IsIndex(index)
  BY DEF PipelineInit, IsSpool, IsIndex
<1>3. past = [samples |-> past.samples, boots |-> past.boots] /\ past.boots \in Nat
  BY DEF PipelineInit
<1>4. offered \in Signals
  BY DEF PipelineInit, Signals
<1> QED
  BY <1>1, <1>2, <1>3, <1>4 DEF PipelineInit, LoopInv

\* One window more is inferred of.
LEMMA JudgedIn ==
  ASSUME LoopInv, NEW l \in ToSet(bundle.labels), NEW q \in Confidences
  PROVE  /\ Signal(index.next, l, q) \in Judgements /\ Signal(index.next, l, q).at = index.next
         /\ Append(offered, Signal(index.next, l, q)) \in Signals
         /\ Len(Append(offered, Signal(index.next, l, q))) = Len(offered) + 1
<1> DEFINE signal == Signal(index.next, l, q)
<1>1. signal \in Judgements /\ signal.at = index.next
  BY DEF LoopInv, IsIndex, Signal, SignalOf, Judgements
<1>2. offered \in Seq(Judgements)
  BY DEF LoopInv, Signals
<1> HIDE DEF signal
<1>3. Append(offered, signal) \in Seq(Judgements) /\ Len(Append(offered, signal)) = Len(offered) + 1
  BY <1>1, <1>2
<1> QED
  BY <1>1, <1>3 DEF Signals, signal

\* Every pass of the loop, boot, stop and power cut keeps their kinds.
LEMMA LoopStep == ASSUME LoopInv, [PipelineNext]_pipelineVars PROVE LoopInv'
<1>1. /\ bundle \in Bundles /\ IsBundle(bundle)
      /\ phase \in {"off", "running", "reported", "raised"}
      /\ IsBuilder(builder) /\ IsSpool(spool) /\ IsIndex(index)
      /\ past = [samples |-> past.samples, boots |-> past.boots] /\ past.boots \in Nat
      /\ offered \in Signals
  BY DEF LoopInv
<1>2. SUFFICES /\ bundle' = bundle /\ phase' \in {"off", "running", "reported", "raised"}
               /\ IsBuilder(builder') /\ IsSpool(spool') /\ IsIndex(index')
               /\ past' = [samples |-> past'.samples, boots |-> past'.boots] /\ past'.boots \in Nat
               /\ offered' \in Signals
  BY <1>1 DEF LoopInv, Signals, Judgements
<1>3. /\ index' = [index EXCEPT !.next = @ + 1] => IsIndex(index')
      /\ index' = [index EXCEPT !.unreadable = @ + 1] => IsIndex(index')
  BY <1>1 DEF IsIndex
<1>4. ASSUME past' = [past EXCEPT !.samples = @ + 1] \/ past' = [past EXCEPT !.boots = @ + 1]
      PROVE  past' = [samples |-> past'.samples, boots |-> past'.boots] /\ past'.boots \in Nat
  BY <1>1, <1>4
<1>5. CASE Boot
  <2>1. /\ bundle' = bundle /\ phase' = "running" /\ builder' = NewBuilder /\ offered' = <<>>
        /\ index' = [next |-> 0, unreadable |-> 0] /\ spool' = [spool EXCEPT !.dropped = 0]
        /\ past' = [past EXCEPT !.boots = @ + 1]
    BY <1>5 DEF Boot
  <2>2. IsBuilder(builder')
    BY <2>1 DEF IsBuilder, NewBuilder
  <2>3. IsSpool(spool') /\ IsIndex(index')
    BY <1>1, <2>1 DEF IsSpool, IsIndex
  <2>4. offered' \in Signals
    BY <2>1 DEF Signals
  <2> QED
    BY <1>4, <2>1, <2>2, <2>3, <2>4
<1>6. CASE Unreadable
  BY <1>1, <1>3, <1>4, <1>6 DEF Unreadable
<1>7. ASSUME NEW s \in Samples, Acquire(s)
      PROVE  /\ bundle' = bundle /\ phase' = phase
             /\ IsBuilder(builder') /\ IsSpool(spool') /\ IsIndex(index')
             /\ past' = [samples |-> past'.samples, boots |-> past'.boots] /\ past'.boots \in Nat
             /\ offered' \in Signals
  <2>1. /\ bundle' = bundle /\ phase' = phase /\ offered' = offered /\ spool' = spool
        /\ builder' = WindowOffered(builder, s).builder
        /\ index' = [index EXCEPT !.next = @ + 1] /\ past' = [past EXCEPT !.samples = @ + 1]
    BY <1>7 DEF Acquire, Acquired
  <2>2. IsBuilder(builder')
    BY <1>1, <2>1, WindowTries
  <2> QED
    BY <1>1, <1>3, <1>4, <2>1, <2>2
<1>8. ASSUME NEW s \in Samples, NEW l \in ToSet(bundle.labels), NEW q \in Confidences,
             NEW up \in BOOLEAN, Infer(s, l, q, up)
      PROVE  /\ bundle' = bundle /\ phase' = phase
             /\ IsBuilder(builder') /\ IsSpool(spool') /\ IsIndex(index')
             /\ past' = [samples |-> past'.samples, boots |-> past'.boots] /\ past'.boots \in Nat
             /\ offered' \in Signals
  <2>1. /\ bundle' = bundle /\ phase' = phase
        /\ offered' = offered \/ offered' = Append(offered, Signal(index.next, l, q))
        /\ spool' \in {spool, Flushed(spool, up), Appended(spool), Flushed(Appended(spool), up)}
        /\ builder' = WindowOffered(builder, s).builder
        /\ index' = [index EXCEPT !.next = @ + 1] /\ past' = [past EXCEPT !.samples = @ + 1]
    BY <1>8, Zenon DEF Infer, Acquired
  <2>2. IsBuilder(builder')
    BY <1>1, <2>1, WindowTries
  <2>3. IsSpool(spool')
    <3>1. IsSpool(Appended(spool)) /\ IsSpool(Flushed(spool, up))
      BY <1>1, SpoolGrows
    <3>2. IsSpool(Flushed(Appended(spool), up))
      BY <3>1, SpoolGrows
    <3> QED
      BY <1>1, <2>1, <3>1, <3>2
  <2>4. offered' \in Signals
    BY <1>1, <2>1, JudgedIn
  <2> QED
    BY <1>3, <1>4, <2>1, <2>2, <2>3, <2>4
<1>9. ASSUME NEW up \in BOOLEAN, Stop(up)
      PROVE  /\ bundle' = bundle /\ phase' \in {"reported", "raised"}
             /\ IsBuilder(builder') /\ IsSpool(spool') /\ IsIndex(index')
             /\ past' = past /\ offered' = offered
  <2>1. /\ bundle' = bundle /\ phase' \in {"reported", "raised"} /\ builder' = builder
        /\ spool' = Flushed(spool, up) /\ index' = index /\ past' = past /\ offered' = offered
    BY <1>9 DEF Stop
  <2>2. IsSpool(spool')
    BY <1>1, <2>1, SpoolGrows
  <2> QED
    BY <1>1, <2>1, <2>2
<1>10. CASE PowerCut
  BY <1>1, <1>10 DEF PowerCut
<1>11. CASE UNCHANGED pipelineVars
  BY <1>1, <1>11 DEF pipelineVars
<1> QED
  BY <1>1, <1>5, <1>6, <1>7, <1>8, <1>9, <1>10, <1>11 DEF PipelineNext, Confidences

------------------------------------------------------------------------------
(* What the device announces.                                                *)

\* What was announced before now, in an hour that began at sa: as much as was
\* confirmed and is neither merged nor waiting, and the pace of it.
ToldBy(T, rule, tells, sa, us, ov, me, confirmed, now) ==
  /\ us \in Nat /\ ov \in Nat /\ me \in Nat /\ confirmed \in Int /\ tells \in Seq(T)
  /\ Len(tells) + me + ov = confirmed
  /\ \A i \in DOMAIN tells : tells[i].at < now
  /\ IF tells = <<>> THEN sa = {} /\ us = 0
     ELSE \E s \in Int : sa = {s} /\ s < now /\ Paced(0, rule.budget, tells, s, us)

\* What a gate announced so far.
ToldOf(T, rule, tells, g, now) ==
  /\ g = Gated(g.streak, g.last, g.start, g.used, g.overflow, g.raw, g.withheld, g.dwelt, g.cooled,
               g.merged, g.emitted, g.first, g.latest)
  /\ {g.raw, g.withheld, g.dwelt, g.cooled} \subseteq Int
  /\ ToldBy(T, rule, tells, g.start, g.used, g.overflow, g.merged,
            g.raw - g.withheld - g.dwelt - g.cooled, now)

\* One alert more: the first of all,
LEMMA ToldFirst ==
  ASSUME NEW L, NEW C, NEW rule, rule.budget \in Nat \ {0}, NEW alert, alert \in AlertOf(L, C),
         NEW ov, NEW me, NEW n,
         ToldBy(AlertOf(L, C), rule, <<>>, {}, 0, ov, me, n, alert.at)
  PROVE  ToldBy(AlertOf(L, C), rule, Append(<<>>, alert), {alert.at}, 0 + 1, ov, me, n + 1, alert.at + 1)
<1> DEFINE at == alert.at
           none == <<>>
           one == Append(none, alert)
<1>1. at \in Int
  BY DEF AlertOf
<1>2. /\ none \in Seq(AlertOf(L, C)) /\ one \in Seq(AlertOf(L, C)) /\ one # <<>>
      /\ Len(none) = 0 /\ Len(one) = 1 /\ DOMAIN one = {1} /\ one[1] = alert
  OBVIOUS
<1>3. Paced(0, rule.budget, one, at, 1)
  <2>1. 0 \in 0..1
    OBVIOUS
  <2> QED
    BY <2>1, PacedFirst
<1>4. ov \in Nat /\ me \in Nat /\ n \in Int /\ Len(none) + me + ov = n
  BY DEF ToldBy
<1> HIDE DEF none, one
<1>5. \A i \in DOMAIN one : one[i].at < at + 1
  BY <1>1, <1>2
<1> HIDE DEF at
<1>6. Len(one) + me + ov = n + 1 /\ n + 1 \in Int /\ at < at + 1 /\ 0 + 1 \in Nat
  BY <1>1, <1>2, <1>4
<1>7. {at} = {at} /\ at < at + 1 /\ Paced(0, rule.budget, one, at, 0 + 1)
  BY <1>1, <1>3
<1>8. ToldBy(AlertOf(L, C), rule, one, {at}, 0 + 1, ov, me, n + 1, at + 1)
  BY <1>1, <1>2, <1>4, <1>5, <1>6, <1>7 DEF ToldBy
<1> QED
  BY <1>8 DEF one, none, at

\* one in the same hour, announced within the budget or held back,
LEMMA ToldSame ==
  ASSUME NEW L, NEW C, NEW rule, rule.budget \in Nat \ {0}, NEW alert, alert \in AlertOf(L, C),
         NEW tells, tells # <<>>, NEW s, s \in Int, NEW us, NEW ov, NEW me, NEW n,
         ToldBy(AlertOf(L, C), rule, tells, {s}, us, ov, me, n, alert.at), alert.at - s < Hour
  PROVE  /\ us < rule.budget =>
              ToldBy(AlertOf(L, C), rule, Append(tells, alert), {s}, us + 1, ov, me, n + 1, alert.at + 1)
         /\ ~(us < rule.budget) =>
              ToldBy(AlertOf(L, C), rule, tells, {s}, us, ov + 1, me, n + 1, alert.at + 1)
<1> DEFINE at == alert.at
           more == Append(tells, alert)
<1>1. at \in Int /\ 0 \in 0..1
  BY DEF AlertOf
<1>2. /\ us \in Nat /\ ov \in Nat /\ me \in Nat /\ n \in Int /\ tells \in Seq(AlertOf(L, C))
      /\ Len(tells) + me + ov = n
      /\ \A i \in DOMAIN tells : tells[i].at < at
      /\ s < at /\ Paced(0, rule.budget, tells, s, us)
  BY DEF ToldBy
<1>3. more \in Seq(AlertOf(L, C)) /\ Len(more) = Len(tells) + 1 /\ Len(tells) \in Nat
  BY <1>2
<1>4. /\ more # <<>> /\ \A i \in DOMAIN more : more[i].at < at + 1
      /\ \A i \in DOMAIN tells : tells[i].at < at + 1
  <2>1. alert.at <= at
    BY <1>1
  <2> QED
    BY <1>1, <1>2, <2>1, ToldBefore, Zenon
<1>5. s < at + 1 /\ n + 1 \in Int /\ us + 1 \in Nat /\ ov + 1 \in Nat
  BY <1>1, <1>2
<1>6. ASSUME us < rule.budget
      PROVE  ToldBy(AlertOf(L, C), rule, more, {s}, us + 1, ov, me, n + 1, at + 1)
  <2>1. Paced(0, rule.budget, more, s, us + 1)
    BY <1>1, <1>2, <1>6, PacedSame
  <2> HIDE DEF more, at
  <2>2. Len(more) + me + ov = n + 1
    BY <1>2, <1>3
  <2> QED
    BY <1>2, <1>3, <1>4, <1>5, <2>1, <2>2 DEF ToldBy
<1>7. ASSUME ~(us < rule.budget)
      PROVE  ToldBy(AlertOf(L, C), rule, tells, {s}, us, ov + 1, me, n + 1, at + 1)
  <2> HIDE DEF at
  <2>1. Len(tells) + me + (ov + 1) = n + 1
    BY <1>2, <1>3
  <2> QED
    BY <1>2, <1>4, <1>5, <2>1 DEF ToldBy
<1> QED
  BY <1>6, <1>7

\* and the first of a new hour, which is announced alone: what the old hour held
\* back is merged and told nobody.
LEMMA ToldAnew ==
  ASSUME NEW L, NEW C, NEW rule, rule.budget \in Nat \ {0}, NEW alert, alert \in AlertOf(L, C),
         NEW tells, tells # <<>>, NEW s, s \in Int, NEW us, NEW ov, NEW me, NEW n,
         ToldBy(AlertOf(L, C), rule, tells, {s}, us, ov, me, n, alert.at), ~(alert.at - s < Hour)
  PROVE  ToldBy(AlertOf(L, C), rule, Append(tells, alert), {alert.at}, 0 + 1, 0, me + ov, n + 1,
                alert.at + 1)
<1> DEFINE at == alert.at
           more == Append(tells, alert)
<1>1. at \in Int /\ Hour \in Nat \ {0} /\ at + 1 \in Int /\ s + 1 \in Int
  BY AlertsAssumption DEF AlertOf
<1>2. /\ us \in Nat /\ ov \in Nat /\ me \in Nat /\ n \in Int /\ tells \in Seq(AlertOf(L, C))
      /\ Len(tells) + me + ov = n
      /\ \A i \in DOMAIN tells : tells[i].at < at
      /\ Paced(0, rule.budget, tells, s, us)
  BY DEF ToldBy
<1>3. more \in Seq(AlertOf(L, C)) /\ Len(more) = Len(tells) + 1 /\ Len(tells) \in Nat
  BY <1>2
<1>4. /\ more # <<>> /\ \A i \in DOMAIN more : more[i].at < at + 1
      /\ \A i \in DOMAIN tells : tells[i].at < at + 1
  <2>1. alert.at <= at
    BY <1>1
  <2> QED
    BY <1>1, <1>2, <2>1, ToldBefore, Zenon
<1>5. /\ \A i \in 1..Len(tells) : tells[i].at < at
      /\ \A i \in 1..Len(tells) : tells[i].at < at + 1
  BY <1>2, <1>4
<1>6. Cardinality(Since(tells, at)) = 0 /\ Cardinality(Since(tells, at + 1)) = 0
  BY <1>1, <1>2, <1>5, CountSince
<1>7. /\ Cardinality(Since(tells, s + 1)) <= rule.budget - 1 + 0
      /\ \A t \in Int : Cardinality(WithinHour(tells, t)) <= 2 * rule.budget + 2 * 0 - 1
  <2>1. Cardinality(Since(tells, s + 1)) \in Nat
    BY <1>1, <1>2, CountSince
  <2>2. /\ us \in 1..rule.budget /\ Cardinality(Since(tells, s + 1)) <= us - 1
        /\ \A t \in Int : Cardinality(WithinHour(tells, t)) <= 2 * rule.budget + 2 * 0 - 1
    BY <1>2 DEF Paced
  <2> QED
    BY <2>1, <2>2
<1>8. Paced(0, rule.budget, more, at, 1)
  <2>1. 0 \in 0..1 /\ s + Hour <= at /\ Cardinality(Since(tells, at)) <= 0
    BY <1>1, <1>6
  <2> QED
    BY <1>2, <1>6, <1>7, <2>1, PacedAnew
<1> HIDE DEF more, at
<1>9. /\ Len(more) + (me + ov) + 0 = n + 1 /\ n + 1 \in Int /\ at < at + 1
      /\ 0 + 1 \in Nat /\ 0 \in Nat /\ me + ov \in Nat /\ 0 + 1 = 1
  BY <1>1, <1>2, <1>3
<1>10. Paced(0, rule.budget, more, at, 0 + 1)
  BY <1>8, <1>9
<1>11. ToldBy(AlertOf(L, C), rule, more, {at}, 0 + 1, 0, me + ov, n + 1, at + 1)
  BY <1>1, <1>3, <1>4, <1>9, <1>10 DEF ToldBy
<1> QED
  BY <1>11 DEF more, at

\* Within the budget of its hour the caller is told of the alert (StreamingAlertGate._through_budget).
LEMMA SaysSame ==
  ASSUME NEW st, NEW la, NEW sa, NEW us, NEW ov, NEW ra, NEW wi, NEW dw, NEW co, NEW me,
         NEW em, NEW fi, NEW lt, NEW rule, NEW alert, NEW answer,
         answer = ThroughBudget(rule, Gated(st, la, sa, us, ov, ra, wi, dw, co, me, em, fi, lt), alert)
  PROVE  ~(alert.at - Begun(sa, alert) >= Hour) =>
           answer.said = IF us < rule.budget THEN <<alert>> ELSE <<>>
<1> DEFINE old == Gated(st, la, sa, us, ov, ra, wi, dw, co, me, em, fi, lt)
           start == Begun(sa, alert)
           begun == {start}
           same == [old EXCEPT !.start = begun]
<1>0. answer = ThroughBudget(rule, old, alert)
  OBVIOUS
<1>1. old.start = sa /\ old.used = us /\ old.overflow = ov /\ old.emitted = em /\ old.merged = me
  BY DEF Gated
<1> HIDE DEF begun
<1>2. same.used = us /\ same.overflow = ov /\ same.emitted = em /\ [old EXCEPT !.start = begun] = same
  BY DEF Gated
<1> HIDE DEF old, same
<1>3. CASE ~(alert.at - start >= Hour) /\ us < rule.budget
  <2>1. answer = [gate |-> [same EXCEPT !.used = us + 1, !.emitted = Append(em, alert)], said |-> <<alert>>]
    BY <1>0, <1>1, <1>2, <1>3, Zenon DEF ThroughBudget, Begun, start, begun
  <2>2. answer.said = <<alert>>
    BY <2>1
  <2> QED
    BY <1>3, <2>2 DEF start
<1>4. CASE ~(alert.at - start >= Hour) /\ ~(us < rule.budget)
  <2>1. answer = [gate |-> [same EXCEPT !.overflow = ov + 1], said |-> <<>>]
    BY <1>0, <1>1, <1>2, <1>4, Zenon DEF ThroughBudget, Begun, start, begun
  <2>2. answer.said = <<>>
    BY <2>1
  <2> QED
    BY <1>4, <2>2 DEF start
<1> QED
  BY <1>3, <1>4 DEF start

\* and of the first alert of an hour.
LEMMA SaysAnew ==
  ASSUME NEW st, NEW la, NEW sa, NEW us, NEW ov, NEW ra, NEW wi, NEW dw, NEW co, NEW me,
         NEW em, NEW fi, NEW lt, NEW rule, NEW alert,
         alert.at - Begun(sa, alert) >= Hour, 0 < rule.budget
  PROVE  ThroughBudget(rule, Gated(st, la, sa, us, ov, ra, wi, dw, co, me, em, fi, lt), alert).said = <<alert>>
<1> DEFINE old == Gated(st, la, sa, us, ov, ra, wi, dw, co, me, em, fi, lt)
           mo == me + ov
           eb == em \o Bundled(Begun(sa, alert), alert, ov)
           sn == {alert.at}
           ea == Append(eb, alert)
           g == Gated(st, la, sn, 0, 0, ra, wi, dw, co, mo, eb, fi, lt)
<1>1. old.start = sa /\ old.used = us /\ old.overflow = ov /\ old.emitted = em /\ old.merged = me
  BY DEF Gated
<1> HIDE DEF mo, eb, sn, ea
<1>2. [old EXCEPT !.emitted = eb, !.merged = mo, !.start = sn, !.used = 0, !.overflow = 0] = g
  <2> DEFINE g1 == Gated(st, la, sa, us, ov, ra, wi, dw, co, me, eb, fi, lt)
             g2 == Gated(st, la, sa, us, ov, ra, wi, dw, co, mo, eb, fi, lt)
             g3 == Gated(st, la, sn, us, ov, ra, wi, dw, co, mo, eb, fi, lt)
             g4 == Gated(st, la, sn, 0, ov, ra, wi, dw, co, mo, eb, fi, lt)
  <2>1. [old EXCEPT !.emitted = eb, !.merged = mo, !.start = sn, !.used = 0, !.overflow = 0]
          = [[[[[old EXCEPT !.emitted = eb] EXCEPT !.merged = mo] EXCEPT !.start = sn]
               EXCEPT !.used = 0] EXCEPT !.overflow = 0]
    BY DEF Gated
  <2>2. [old EXCEPT !.emitted = eb] = g1
    BY DEF Gated
  <2>3. [g1 EXCEPT !.merged = mo] = g2
    BY DEF Gated
  <2>4. [g2 EXCEPT !.start = sn] = g3
    BY DEF Gated
  <2>5. [g3 EXCEPT !.used = 0] = g4
    BY DEF Gated
  <2>6. [g4 EXCEPT !.overflow = 0] = g
    BY DEF Gated
  <2> HIDE DEF old, g, g1, g2, g3, g4
  <2> QED
    BY <2>1, <2>2, <2>3, <2>4, <2>5, <2>6
<1>3. g.used = 0 /\ g.overflow = 0 /\ g.emitted = eb
  BY DEF Gated
<1> DEFINE next == ThroughBudget(rule, old, alert)
<1> HIDE DEF old, g
<1>5. next = [gate |-> [g EXCEPT !.used = 0 + 1, !.emitted = ea], said |-> <<alert>>]
  BY <1>1, <1>2, <1>3, Zenon DEF ThroughBudget, Begun, mo, eb, sn, ea
<1>6. next.said = <<alert>>
  <2> HIDE DEF next
  <2> QED
    BY <1>5
<1> QED
  BY <1>6, Zenon DEF old

\* A list that one alert or none is told after.
LEMMA ToldAfter ==
  ASSUME NEW T, NEW tells, tells \in Seq(T), NEW alert
  PROVE  tells \o <<alert>> = Append(tells, alert) /\ tells \o <<>> = tells
OBVIOUS

\* A gate of some fields, and what it announced.
Through(next, T, rule, tells, n, now, st, la, ra, wi, dw, co, fi, lt) ==
  \E s, us, ov, me, em :
    /\ next = Gated(st, la, {s}, us, ov, ra, wi, dw, co, me, em, fi, lt)
    /\ ToldBy(T, rule, tells, {s}, us, ov, me, n, now)

\* So one alert more goes through the budget.
LEMMA ThroughTells ==
  ASSUME NEW L, NEW C, NEW rule, rule.budget \in Nat \ {0}, NEW alert, alert \in AlertOf(L, C),
         NEW tells, NEW n,
         NEW st, NEW la, NEW sa, NEW us, NEW ov, NEW ra, NEW wi, NEW dw, NEW co, NEW me,
         NEW em, NEW fi, NEW lt,
         ToldBy(AlertOf(L, C), rule, tells, sa, us, ov, me, n, alert.at), NEW answer,
         answer = ThroughBudget(rule, Gated(st, la, sa, us, ov, ra, wi, dw, co, me, em, fi, lt), alert)
  PROVE  Through(answer.gate, AlertOf(L, C), rule, tells \o answer.said, n + 1, alert.at + 1,
                 st, la, ra, wi, dw, co, fi, lt)
<1> DEFINE T == AlertOf(L, C)
           at == alert.at
           After(s1, us1, ov1, me1, em1) == Gated(st, la, {s1}, us1, ov1, ra, wi, dw, co, me1, em1, fi, lt)
<1>1. at \in Int /\ 0 < rule.budget /\ tells \in Seq(T) /\ Hour \in Nat \ {0}
  BY AlertsAssumption DEF AlertOf, ToldBy
<1>2. tells \o <<alert>> = Append(tells, alert) /\ tells \o <<>> = tells
  BY <1>1, ToldAfter
<1>3. ASSUME NEW more, NEW s1, NEW us1, NEW ov1, NEW me1, NEW em1,
             answer.gate = After(s1, us1, ov1, me1, em1), tells \o answer.said = more,
             ToldBy(T, rule, more, {s1}, us1, ov1, me1, n + 1, at + 1)
      PROVE  Through(answer.gate, T, rule, tells \o answer.said, n + 1, at + 1,
                     st, la, ra, wi, dw, co, fi, lt)
  <2> HIDE DEF T
  <2> QED
    BY <1>3, Zenon DEF Through
<1>4. CASE tells = <<>>
  <2>1. sa = {} /\ us = 0
    BY <1>4, Zenon DEF ToldBy
  <2>2. answer.gate = After(at, 0 + 1, ov, me, Append(em, alert))
    <3>1. ThroughBudget(rule, Gated(st, la, {}, 0, ov, ra, wi, dw, co, me, em, fi, lt), alert).gate
            = Gated(st, la, {alert.at}, 0 + 1, ov, ra, wi, dw, co, me, Append(em, alert), fi, lt)
      BY ONLY <1>1, ThroughFirst
    <3> QED
      BY <2>1, <3>1, Zenon
  <2>3. answer.said = <<alert>>
    <3> DEFINE b == Begun(sa, alert)
    <3>1. b = at
      BY <2>1 DEF Begun
    <3> HIDE DEF b
    <3>2. ~(at - b >= Hour)
      BY <1>1, <3>1
    <3>3. answer.said = IF us < rule.budget THEN <<alert>> ELSE <<>>
      BY <3>2, SaysSame, Zenon DEF b
    <3> QED
      BY <1>1, <2>1, <3>3
  <2>4. ToldBy(T, rule, Append(tells, alert), {at}, 0 + 1, ov, me, n + 1, at + 1)
    <3>1. ToldBy(T, rule, <<>>, {}, 0, ov, me, n, at)
      BY <1>4, <2>1, Zenon
    <3>2. ToldBy(T, rule, Append(<<>>, alert), {at}, 0 + 1, ov, me, n + 1, at + 1)
      BY <3>1, ToldFirst
    <3> QED
      BY <1>4, <3>2, Zenon
  <2> HIDE DEF T, After
  <2>5. tells \o answer.said = Append(tells, alert)
    BY <1>2, <2>3, Zenon
  <2> QED
    BY <1>3, <2>2, <2>4, <2>5, Zenon DEF T, at
<1>5. CASE tells # <<>>
  <2>1. PICK s : s \in Int /\ sa = {s}
    BY <1>5, Zenon DEF ToldBy
  <2>2. ToldBy(T, rule, tells, {s}, us, ov, me, n, at)
    BY <2>1, Zenon
  <2> DEFINE b == Begun(sa, alert)
  <2>3. b = s
    BY <2>1, TheOne DEF Begun
  <2> HIDE DEF b
  <2>4. CASE at - s < Hour /\ us < rule.budget
    <3>1. ~(at - s >= Hour) /\ ~(at - b >= Hour)
      BY <1>1, <2>1, <2>3, <2>4
    <3>2. answer.gate = After(s, us + 1, ov, me, Append(em, alert))
      <4>1. ThroughBudget(rule, Gated(st, la, {s}, us, ov, ra, wi, dw, co, me, em, fi, lt), alert).gate
              = Gated(st, la, {s}, us + 1, ov, ra, wi, dw, co, me, Append(em, alert), fi, lt)
        BY ONLY <2>4, <3>1, ThroughHour
      <4> QED
        BY <2>1, <4>1, Zenon
    <3>3. answer.said = <<alert>>
      <4>1. answer.said = IF us < rule.budget THEN <<alert>> ELSE <<>>
        BY <3>1, SaysSame, Zenon DEF b
      <4> QED
        BY <2>4, <4>1, Zenon
    <3>4. ToldBy(T, rule, Append(tells, alert), {s}, us + 1, ov, me, n + 1, at + 1)
      BY <1>5, <2>1, <2>2, <2>4, ToldSame
    <3> HIDE DEF T, After
    <3>5. tells \o answer.said = Append(tells, alert)
      BY <1>2, <3>3, Zenon
    <3> QED
      BY <1>3, <3>2, <3>4, <3>5, Zenon DEF T, at
  <2>5. CASE at - s < Hour /\ ~(us < rule.budget)
    <3>1. ~(at - s >= Hour) /\ ~(at - b >= Hour)
      BY <1>1, <2>1, <2>3, <2>5
    <3>2. answer.gate = After(s, us, ov + 1, me, em)
      <4>1. ThroughBudget(rule, Gated(st, la, {s}, us, ov, ra, wi, dw, co, me, em, fi, lt), alert).gate
              = Gated(st, la, {s}, us, ov + 1, ra, wi, dw, co, me, em, fi, lt)
        BY ONLY <2>5, <3>1, ThroughHeld
      <4> QED
        BY <2>1, <4>1, Zenon
    <3>3. answer.said = <<>>
      <4>1. answer.said = IF us < rule.budget THEN <<alert>> ELSE <<>>
        BY <3>1, SaysSame, Zenon DEF b
      <4> QED
        BY <2>5, <4>1, Zenon
    <3>4. ToldBy(T, rule, tells, {s}, us, ov + 1, me, n + 1, at + 1)
      BY <1>5, <2>1, <2>2, <2>5, ToldSame
    <3> HIDE DEF T, After
    <3>5. tells \o answer.said = tells
      BY <1>2, <3>3, Zenon
    <3> QED
      BY <1>3, <3>2, <3>4, <3>5, Zenon DEF T, at
  <2>6. CASE ~(at - s < Hour)
    <3>1. at - b >= Hour
      BY <1>1, <2>1, <2>3, <2>6
    <3>2. answer.gate = After(at, 0 + 1, 0, me + ov, Append(em \o Bundled(s, alert, ov), alert))
      <4>1. ThroughBudget(rule, Gated(st, la, {s}, us, ov, ra, wi, dw, co, me, em, fi, lt), alert).gate
              = Gated(st, la, {alert.at}, 0 + 1, 0, ra, wi, dw, co, me + ov,
                      Append(em \o Bundled(s, alert, ov), alert), fi, lt)
        BY ONLY <1>1, <2>1, <2>6, ThroughNew
      <4> QED
        BY <2>1, <4>1, Zenon
    <3>3. answer.said = <<alert>>
      <4>1. alert.at - Begun(sa, alert) >= Hour /\ 0 < rule.budget
        BY <1>1, <3>1, Zenon DEF b, at
      <4>2. ThroughBudget(rule, Gated(st, la, sa, us, ov, ra, wi, dw, co, me, em, fi, lt), alert).said = <<alert>>
        BY ONLY <4>1, SaysAnew
      <4> QED
        BY <4>2, Zenon
    <3>4. ToldBy(T, rule, Append(tells, alert), {at}, 0 + 1, 0, me + ov, n + 1, at + 1)
      BY <1>5, <2>1, <2>2, <2>6, ToldAnew
    <3> HIDE DEF T, After
    <3>5. tells \o answer.said = Append(tells, alert)
      BY <1>2, <3>3, Zenon
    <3> QED
      BY <1>3, <3>2, <3>4, <3>5, Zenon DEF T, at
  <2> QED
    BY <2>4, <2>5, <2>6
<1> QED
  BY <1>4, <1>5


\* What was announced before now was announced before later.
LEMMA ToldLater ==
  ASSUME NEW L, NEW C, NEW rule, NEW tells, NEW sa, NEW us, NEW ov, NEW me, NEW n,
         NEW now, now \in Int, NEW later, later \in Int, now <= later,
         ToldBy(AlertOf(L, C), rule, tells, sa, us, ov, me, n, now)
  PROVE  ToldBy(AlertOf(L, C), rule, tells, sa, us, ov, me, n, later)
<1>1. /\ us \in Nat /\ ov \in Nat /\ me \in Nat /\ n \in Int /\ tells \in Seq(AlertOf(L, C))
      /\ Len(tells) + me + ov = n
      /\ \A i \in DOMAIN tells : tells[i].at < now
  BY Zenon DEF ToldBy
<1>2. \A i \in DOMAIN tells : tells[i].at < later
  BY <1>1, AtIsInt
<1>3. CASE tells = <<>>
  <2>1. sa = {} /\ us = 0
    BY <1>3, Zenon DEF ToldBy
  <2> QED
    BY <1>1, <1>2, <1>3, <2>1, Zenon DEF ToldBy
<1>4. CASE tells # <<>>
  <2>1. PICK s : s \in Int /\ sa = {s} /\ s < now /\ Paced(0, rule.budget, tells, s, us)
    BY <1>4, Zenon DEF ToldBy
  <2>2. s < later
    BY <2>1
  <2> QED
    BY <1>1, <1>2, <1>4, <2>1, <2>2, Zenon DEF ToldBy
<1> QED
  BY <1>3, <1>4

\* What an offer leaves: a gate that announced what its caller was told.
ToldNext(answer, T, rule, tells, now, fi, lt) ==
  /\ ToldOf(T, rule, tells \o answer.said, answer.gate, now)
  /\ answer.gate.first = fi /\ answer.gate.latest = lt

\* An offer given by the fields of its gate leaves that.
LEMMA ToldNextBy ==
  ASSUME NEW T, NEW rule, NEW tells, NEW now, NEW answer,
         NEW st, NEW la, NEW sa, NEW us, NEW ov, NEW ra, NEW wi, NEW dw, NEW co, NEW me,
         NEW em, NEW fi, NEW lt,
         answer.gate = Gated(st, la, sa, us, ov, ra, wi, dw, co, me, em, fi, lt),
         ra \in Int, wi \in Int, dw \in Int, co \in Int,
         ToldBy(T, rule, tells \o answer.said, sa, us, ov, me, ra - wi - dw - co, now)
  PROVE  ToldNext(answer, T, rule, tells, now, fi, lt)
<1> DEFINE g == Gated(st, la, sa, us, ov, ra, wi, dw, co, me, em, fi, lt)
<1>1. /\ g.streak = st /\ g.last = la /\ g.start = sa /\ g.used = us /\ g.overflow = ov
      /\ g.raw = ra /\ g.withheld = wi /\ g.dwelt = dw /\ g.cooled = co /\ g.merged = me
      /\ g.emitted = em /\ g.first = fi /\ g.latest = lt
  BY DEF Gated
<1>2. g = Gated(g.streak, g.last, g.start, g.used, g.overflow, g.raw, g.withheld, g.dwelt, g.cooled,
               g.merged, g.emitted, g.first, g.latest)
  BY <1>1
<1>3. answer.gate = g
  OBVIOUS
<1> HIDE DEF g
<1>4. {g.raw, g.withheld, g.dwelt, g.cooled} \subseteq Int
  BY <1>1
<1>5. ToldBy(T, rule, tells \o answer.said, g.start, g.used, g.overflow, g.merged,
             g.raw - g.withheld - g.dwelt - g.cooled, now)
  BY <1>1, Zenon
<1>6. ToldOf(T, rule, tells \o answer.said, g, now)
  BY <1>2, <1>4, <1>5, Zenon DEF ToldOf
<1> QED
  BY <1>1, <1>3, <1>6, Zenon DEF ToldNext

\* One judgement more: what is confirmed goes through the budget, and of the
\* others nobody is told (StreamingAlertGate.offer).
LEMMA OfferToldBy ==
  ASSUME NEW L, NEW C, NEW rule, rule.budget \in Nat \ {0},
         NEW signal, signal \in SignalOf(L, C), NEW tells,
         NEW st, NEW la, NEW sa, NEW us, NEW ov, NEW ra, NEW wi, NEW dw, NEW co, NEW me,
         NEW em, NEW fi, NEW lt, ra \in Int, wi \in Int, dw \in Int, co \in Int,
         ToldBy(AlertOf(L, C), rule, tells, sa, us, ov, me, ra - wi - dw - co, signal.at), NEW answer,
         answer = Offer(rule, Gated(st, la, sa, us, ov, ra, wi, dw, co, me, em, fi, lt), signal)
  PROVE  ToldNext(answer, AlertOf(L, C), rule, tells, signal.at + 1, Began(fi, signal), {signal.at})
<1> DEFINE T == AlertOf(L, C)
           at == signal.at
           ff == Began(fi, signal)
           tt == {signal.at}
           n == ra - wi - dw - co
           soon == \E t \in la : signal.at - t < rule.cooldown
<1>1. at \in Int /\ at + 1 \in Int /\ at <= at + 1
  BY DEF SignalOf
<1>2. tells \in Seq(T)
  BY Zenon DEF ToldBy
<1>3. Ways(answer, rule, signal, st, la, sa, us, ov, ra, wi, dw, co, me, em, fi, lt)
  BY OfferForms, Zenon
<1>4. /\ n \in Int
      /\ (ra + 1) - (wi + 1) - dw - co = n /\ (ra + 1) - wi - (dw + 1) - co = n
      /\ (ra + 1) - wi - dw - (co + 1) = n /\ (ra + 1) - wi - dw - co = n + 1
      /\ ra + 1 \in Int /\ wi + 1 \in Int /\ dw + 1 \in Int /\ co + 1 \in Int
  OBVIOUS
<1>5. ToldBy(T, rule, tells, sa, us, ov, me, n, at + 1)
  <2>1. ToldBy(AlertOf(L, C), rule, tells, sa, us, ov, me, n, at)
    OBVIOUS
  <2> HIDE DEF at, n
  <2> QED
    BY <1>1, <2>1, ToldLater
<1>6. tells \o <<>> = tells
  BY <1>2
<1> HIDE DEF T, n, tt, ff
<1>7. ASSUME NEW st1, NEW ra1, NEW wi1, NEW dw1, NEW co1,
             Silent(answer, Gated(st1, la, sa, us, ov, ra1, wi1, dw1, co1, me, em, ff, tt)),
             ra1 \in Int, wi1 \in Int, dw1 \in Int, co1 \in Int, ra1 - wi1 - dw1 - co1 = n
      PROVE  ToldNext(answer, T, rule, tells, at + 1, ff, tt)
  <2>1. answer.gate = Gated(st1, la, sa, us, ov, ra1, wi1, dw1, co1, me, em, ff, tt) /\ answer.said = <<>>
    BY <1>7, Zenon DEF Silent
  <2>2. tells \o answer.said = tells
    BY <1>6, <2>1, Zenon
  <2>3. ToldBy(T, rule, tells \o answer.said, sa, us, ov, me, ra1 - wi1 - dw1 - co1, at + 1)
    BY <1>5, <1>7, <2>2, Zenon
  <2> HIDE DEF at
  <2> QED
    BY <1>7, <2>1, <2>3, ToldNextBy
<1>8. CASE ~Calls(rule, signal)
  <2>1. Silent(answer, Gated(0, la, sa, us, ov, ra, wi, dw, co, me, em, ff, tt))
    BY <1>3, <1>8, Zenon DEF Ways, ff, tt
  <2>2. ra - wi - dw - co = n
    BY DEF n
  <2> QED
    BY <1>7, <2>1, <2>2, Zenon DEF T, ff, tt
<1>9. CASE Calls(rule, signal) /\ ~Confident(rule, signal)
  <2>1. Silent(answer, Gated(0, la, sa, us, ov, ra + 1, wi + 1, dw, co, me, em, ff, tt))
    BY <1>3, <1>9, Zenon DEF Ways, ff, tt
  <2> QED
    BY <1>4, <1>7, <2>1, Zenon DEF T, ff, tt
<1>10. CASE Calls(rule, signal) /\ Confident(rule, signal) /\ st + 1 < rule.dwell
  <2>1. Silent(answer, Gated(st + 1, la, sa, us, ov, ra + 1, wi, dw + 1, co, me, em, ff, tt))
    BY <1>3, <1>10, Zenon DEF Ways, ff, tt
  <2> QED
    BY <1>4, <1>7, <2>1, Zenon DEF T, ff, tt
<1>11. CASE Calls(rule, signal) /\ Confident(rule, signal) /\ ~(st + 1 < rule.dwell) /\ soon
  <2>1. Silent(answer, Gated(st + 1, la, sa, us, ov, ra + 1, wi, dw, co + 1, me, em, ff, tt))
    BY <1>3, <1>11, Zenon DEF Ways, ff, tt
  <2> QED
    BY <1>4, <1>7, <2>1, Zenon DEF T, ff, tt
<1>12. CASE Calls(rule, signal) /\ Confident(rule, signal) /\ ~(st + 1 < rule.dwell) /\ ~soon
  <2> DEFINE alert == Of(signal)
  <2>1. answer = ThroughBudget(rule, Gated(st + 1, tt, sa, us, ov, ra + 1, wi, dw, co, me, em, ff, tt),
                               alert)
    BY <1>3, <1>12, Zenon DEF Ways, ff, tt
  <2>2. alert \in AlertOf(L, C) /\ alert.at = at
    BY DEF Of, Alert, SignalOf, AlertOf
  <2> HIDE DEF alert, at
  <2>3. ToldBy(AlertOf(L, C), rule, tells, sa, us, ov, me, n, alert.at)
    BY <2>2, Zenon DEF at, n
  <2>4. Through(answer.gate, AlertOf(L, C), rule, tells \o answer.said, n + 1, alert.at + 1,
                st + 1, tt, ra + 1, wi, dw, co, ff, tt)
    BY <2>1, <2>2, <2>3, ThroughTells
  <2>5. PICK s1, us1, ov1, me1, em1 :
           /\ answer.gate = Gated(st + 1, tt, {s1}, us1, ov1, ra + 1, wi, dw, co, me1, em1, ff, tt)
           /\ ToldBy(AlertOf(L, C), rule, tells \o answer.said, {s1}, us1, ov1, me1, n + 1, alert.at + 1)
    BY <2>4, Zenon DEF Through
  <2>6. ToldBy(T, rule, tells \o answer.said, {s1}, us1, ov1, me1, (ra + 1) - wi - dw - co, at + 1)
    BY <1>4, <2>2, <2>5, Zenon DEF T
  <2>7. ToldNext(answer, T, rule, tells, at + 1, ff, tt)
    BY <1>4, <2>5, <2>6, ToldNextBy
  <2> QED
    BY <2>7, Zenon DEF T, ff, tt, at
<1> QED
  BY <1>8, <1>9, <1>10, <1>11, <1>12, Zenon

\* The same of a gate.
LEMMA OfferTold ==
  ASSUME NEW L, NEW C, NEW rule, rule.budget \in Nat \ {0},
         NEW signal, signal \in SignalOf(L, C), NEW tells, NEW g,
         ToldOf(AlertOf(L, C), rule, tells, g, signal.at), NEW answer, answer = Offer(rule, g, signal)
  PROVE  ToldNext(answer, AlertOf(L, C), rule, tells, signal.at + 1, Began(g.first, signal), {signal.at})
<1> DEFINE st == g.streak la == g.last sa == g.start us == g.used ov == g.overflow ra == g.raw
           wi == g.withheld dw == g.dwelt co == g.cooled me == g.merged em == g.emitted
           fi == g.first lt == g.latest
<1>1. /\ g = Gated(st, la, sa, us, ov, ra, wi, dw, co, me, em, fi, lt)
      /\ ToldBy(AlertOf(L, C), rule, tells, sa, us, ov, me, ra - wi - dw - co, signal.at)
  BY Zenon DEF ToldOf
<1>2. ra \in Int /\ wi \in Int /\ dw \in Int /\ co \in Int
  <2>1. {g.raw, g.withheld, g.dwelt, g.cooled} \subseteq Int
    BY Zenon DEF ToldOf
  <2> QED
    BY <2>1
<1> HIDE DEF st, la, sa, us, ov, ra, wi, dw, co, me, em, fi, lt
<1>3. answer = Offer(rule, Gated(st, la, sa, us, ov, ra, wi, dw, co, me, em, fi, lt), signal)
  BY <1>1, Zenon
<1>4. ToldNext(answer, AlertOf(L, C), rule, tells, signal.at + 1, Began(fi, signal), {signal.at})
  BY <1>1, <1>2, <1>3, OfferToldBy
<1> QED
  BY <1>4, Zenon DEF fi

\* A new gate has announced nothing,
LEMMA NewTold == \A T, rule, now : ToldOf(T, rule, <<>>, NewGate, now)
<1> SUFFICES ASSUME NEW T, NEW rule, NEW now PROVE ToldOf(T, rule, <<>>, NewGate, now)
  OBVIOUS
<1>1. NewGate = Gated(NewGate.streak, NewGate.last, NewGate.start, NewGate.used, NewGate.overflow,
                      NewGate.raw, NewGate.withheld, NewGate.dwelt, NewGate.cooled, NewGate.merged,
                      NewGate.emitted, NewGate.first, NewGate.latest)
  BY DEF NewGate, Gated
<1>2. /\ NewGate.start = {} /\ NewGate.used = 0 /\ NewGate.overflow = 0 /\ NewGate.raw = 0
      /\ NewGate.withheld = 0 /\ NewGate.dwelt = 0 /\ NewGate.cooled = 0 /\ NewGate.merged = 0
  BY DEF NewGate
<1> DEFINE g == NewGate
<1> HIDE DEF g
<1>3. {g.raw, g.withheld, g.dwelt, g.cooled} \subseteq Int
  BY <1>2 DEF g
<1>4. ToldBy(T, rule, <<>>, {}, 0, 0, 0, 0 - 0 - 0 - 0, now)
  BY DEF ToldBy
<1>5. ToldBy(T, rule, <<>>, g.start, g.used, g.overflow, g.merged,
             g.raw - g.withheld - g.dwelt - g.cooled, now)
  BY <1>2, <1>4, Zenon DEF g
<1>6. ToldOf(T, rule, <<>>, g, now)
  BY <1>1, <1>3, <1>5, Zenon DEF ToldOf, g
<1> QED
  BY <1>6 DEF g

\* and one that closes announces no more: what waited is merged.
LEMMA ClosedTold ==
  ASSUME NEW L, NEW C, NEW rule, NEW tells, NEW g, NEW now,
         ToldOf(AlertOf(L, C), rule, tells, g, now)
  PROVE  /\ ToldOf(AlertOf(L, C), rule, tells, Closed(rule, g), now)
         /\ Closed(rule, g).first = g.first /\ Closed(rule, g).latest = g.latest
<1> DEFINE T == AlertOf(L, C)
           st == g.streak la == g.last sa == g.start us == g.used ov == g.overflow ra == g.raw
           wi == g.withheld dw == g.dwelt co == g.cooled me == g.merged em == g.emitted
           fi == g.first lt == g.latest
           next == Closed(rule, g)
<1>1. /\ g = Gated(st, la, sa, us, ov, ra, wi, dw, co, me, em, fi, lt)
      /\ ToldBy(T, rule, tells, sa, us, ov, me, ra - wi - dw - co, now)
  BY Zenon DEF ToldOf
<1>2. ra \in Int /\ wi \in Int /\ dw \in Int /\ co \in Int
  <2>1. {g.raw, g.withheld, g.dwelt, g.cooled} \subseteq Int
    BY Zenon DEF ToldOf
  <2> QED
    BY <2>1
<1> HIDE DEF T
<1>3. CASE ov = 0
  <2>1. next = g
    BY <1>3, Zenon DEF Closed
  <2> QED
    BY <2>1, Zenon
<1>4. CASE ov # 0
  <2>1. PICK more : next = [g EXCEPT !.emitted = more, !.merged = me + ov, !.overflow = 0]
    <3>1. \E more : next = [g EXCEPT !.emitted = more, !.merged = me + ov, !.overflow = 0]
      BY <1>4, Zenon DEF Closed
    <3> QED
      BY <3>1
  <2> HIDE DEF next, st, la, sa, us, ov, ra, wi, dw, co, me, em, fi, lt
  <2> DEFINE mo == me + ov
  <2>2. ToldBy(T, rule, tells, sa, us, 0, mo, ra - wi - dw - co, now)
    <3>1. /\ us \in Nat /\ ov \in Nat /\ me \in Nat /\ ra - wi - dw - co \in Int /\ tells \in Seq(T)
          /\ Len(tells) + me + ov = ra - wi - dw - co
          /\ \A i \in DOMAIN tells : tells[i].at < now
          /\ IF tells = <<>> THEN sa = {} /\ us = 0
             ELSE \E s \in Int : sa = {s} /\ s < now /\ Paced(0, rule.budget, tells, s, us)
      BY <1>1, Zenon DEF ToldBy
    <3> DEFINE n == ra - wi - dw - co
    <3>2. mo \in Nat /\ 0 \in Nat
      BY <3>1
    <3>3. Len(tells) + mo + 0 = n
      <4>1. Len(tells) \in Nat
        BY <3>1
      <4> HIDE DEF n
      <4>2. Len(tells) + me + ov = n
        BY <3>1, Zenon DEF n
      <4> QED
        BY <3>1, <4>1, <4>2
    <3> HIDE DEF mo
    <3> QED
      BY <3>1, <3>2, <3>3, Zenon DEF ToldBy
  <2> HIDE DEF mo
  <2>3. next = Gated(st, la, sa, us, 0, ra, wi, dw, co, mo, more, fi, lt)
    <3> DEFINE g1 == Gated(st, la, sa, us, ov, ra, wi, dw, co, me, more, fi, lt)
               g2 == Gated(st, la, sa, us, ov, ra, wi, dw, co, mo, more, fi, lt)
               old == Gated(st, la, sa, us, ov, ra, wi, dw, co, me, em, fi, lt)
    <3>1. next = [[[old EXCEPT !.emitted = more] EXCEPT !.merged = mo] EXCEPT !.overflow = 0]
      <4>1. [old EXCEPT !.emitted = more, !.merged = mo, !.overflow = 0]
              = [[[old EXCEPT !.emitted = more] EXCEPT !.merged = mo] EXCEPT !.overflow = 0]
        BY DEF Gated
      <4> HIDE DEF old
      <4>2. next = [old EXCEPT !.emitted = more, !.merged = mo, !.overflow = 0]
        BY <1>1, <2>1, Zenon DEF old, mo
      <4> QED
        BY <4>1, <4>2
    <3>2. [old EXCEPT !.emitted = more] = g1
      BY DEF Gated
    <3>3. [g1 EXCEPT !.merged = mo] = g2
      BY DEF Gated
    <3>4. [g2 EXCEPT !.overflow = 0] = Gated(st, la, sa, us, 0, ra, wi, dw, co, mo, more, fi, lt)
      BY DEF Gated
    <3> HIDE DEF old, g1, g2
    <3> QED
      BY <3>1, <3>2, <3>3, <3>4
  <2> DEFINE answer == [gate |-> next, said |-> <<>>]
  <2>4. answer.gate = next /\ answer.said = <<>>
    OBVIOUS
  <2>5. tells \o <<>> = tells
    <3>1. tells \in Seq(T)
      BY <1>1, Zenon DEF ToldBy
    <3> QED
      BY <3>1
  <2> HIDE DEF answer
  <2>6. ToldNext(answer, T, rule, tells, now, fi, lt)
    <3>1. tells \o answer.said = tells
      BY <2>4, <2>5, Zenon
    <3>2. ToldBy(T, rule, tells \o answer.said, sa, us, 0, mo, ra - wi - dw - co, now)
      BY <2>2, <3>1, Zenon
    <3>3. answer.gate = Gated(st, la, sa, us, 0, ra, wi, dw, co, mo, more, fi, lt)
      BY <2>3, <2>4, Zenon
    <3> QED
      BY <1>2, <3>2, <3>3, ToldNextBy
  <2>7. ToldOf(T, rule, tells, next, now) /\ next.first = fi /\ next.latest = lt
    BY <2>4, <2>5, <2>6, Zenon DEF ToldNext
  <2> QED
    BY <2>7, Zenon DEF T, next, fi, lt
<1> QED
  BY <1>3, <1>4

\* The alerts a boot may make.
Alerted == AlertOf(ToSet(bundle.labels), Confidences)

\* What the gate of the boot announced is what was put on a record.
ToldInv == ToldOf(Alerted, bundle.rule, told, gate, index.next)

\* An accepted bundle lets some alert through.
LEMMA BudgetIsPositive == LoopInv => bundle.rule.budget \in Nat \ {0}
BY PipelineAssumption DEF LoopInv, IsBundle, IsRule

LEMMA ToldStarts == PipelineInit => ToldInv
BY NewTold DEF PipelineInit, ToldInv

\* Every pass of the loop, boot, stop and power cut keeps it.
LEMMA ToldStep ==
  ASSUME LoopInv, ToldInv, [PipelineNext]_pipelineVars
  PROVE  ToldInv'
<1> DEFINE rule == bundle.rule
           L == ToSet(bundle.labels)
           T == AlertOf(L, Confidences)
           now == index.next
<1>1. ToldOf(T, rule, told, gate, now) /\ rule.budget \in Nat \ {0}
  BY BudgetIsPositive DEF ToldInv, Alerted
<1>2. /\ now \in Int /\ now + 1 \in Int /\ now <= now + 1
      /\ index = [next |-> index.next, unreadable |-> index.unreadable]
  BY DEF LoopInv, IsIndex
<1>3. ASSUME bundle' = bundle, ToldOf(T, rule, told', gate', index'.next)
      PROVE  ToldInv'
  BY <1>3, Zenon DEF ToldInv, Alerted
<1>4. ToldOf(T, rule, told, gate, now + 1)
  <2> HIDE DEF rule, L, now
  <2> DEFINE n == gate.raw - gate.withheld - gate.dwelt - gate.cooled
             sa == gate.start us == gate.used ov == gate.overflow me == gate.merged
  <2>1. ToldBy(AlertOf(L, Confidences), rule, told, sa, us, ov, me, n, now)
    BY <1>1, Zenon DEF ToldOf
  <2> HIDE DEF n, sa, us, ov, me
  <2>2. ToldBy(AlertOf(L, Confidences), rule, told, sa, us, ov, me, n, now + 1)
    BY <1>2, <2>1, ToldLater
  <2> QED
    BY <1>1, <2>2, Zenon DEF ToldOf, n, sa, us, ov, me
<1> HIDE DEF rule, L, T
<1>5. ASSUME bundle' = bundle, told' = told, gate' = gate, index' = [index EXCEPT !.next = @ + 1]
      PROVE  ToldInv'
  <2>1. index'.next = now + 1
    BY <1>2, <1>5
  <2>2. ToldOf(T, rule, told', gate', index'.next)
    BY <1>4, <1>5, <2>1, Zenon
  <2> QED
    BY <1>3, <1>5, <2>2
<1>6. CASE Boot
  <2>1. bundle' = bundle /\ told' = <<>> /\ gate' = NewGate
    BY <1>6 DEF Boot
  <2>2. ToldOf(T, rule, told', gate', index'.next)
    BY <2>1, NewTold, Zenon
  <2> QED
    BY <1>3, <2>1, <2>2
<1>7. ASSUME bundle' = bundle, told' = told, gate' = gate, index'.next = now PROVE ToldInv'
  <2>1. ToldOf(T, rule, told', gate', index'.next)
    BY <1>1, <1>7, Zenon
  <2> QED
    BY <1>3, <1>7, <2>1
<1>8. CASE Unreadable
  <2>1. bundle' = bundle /\ told' = told /\ gate' = gate
        /\ index' = [index EXCEPT !.unreadable = @ + 1]
    BY <1>8 DEF Unreadable
  <2>2. index'.next = now
    BY <1>2, <2>1
  <2> QED
    BY <1>7, <2>1, <2>2
<1>9. ASSUME NEW s \in Samples, Acquire(s) PROVE ToldInv'
  <2>1. bundle' = bundle /\ told' = told /\ gate' = gate /\ index' = [index EXCEPT !.next = @ + 1]
    BY <1>9 DEF Acquire, Acquired
  <2> QED
    BY <1>5, <2>1
<1>10. ASSUME NEW s \in Samples, NEW l \in ToSet(bundle.labels), NEW q \in Confidences,
              NEW up \in BOOLEAN, Infer(s, l, q, up)
       PROVE  ToldInv'
  <2> DEFINE signal == Signal(index.next, l, q)
             answer == Offer(rule, gate, signal)
  <2>1. /\ bundle' = bundle /\ index' = [index EXCEPT !.next = @ + 1]
        /\ \/ gate' = gate /\ told' = told
           \/ gate' = answer.gate /\ told' = told \o answer.said
    BY <1>10 DEF Infer, Acquired, rule
  <2>2. signal \in SignalOf(L, Confidences) /\ signal.at = now
    BY <1>2 DEF Signal, SignalOf, L
  <2>3. index'.next = now + 1
    BY <1>2, <2>1
  <2>4. answer = Offer(rule, gate, signal)
    OBVIOUS
  <2> HIDE DEF signal, answer
  <2>5. CASE gate' = gate /\ told' = told
    BY <1>5, <2>1, <2>5
  <2>6. CASE gate' = answer.gate /\ told' = told \o answer.said
    <3>1. ToldOf(AlertOf(L, Confidences), rule, told, gate, signal.at)
      BY <1>1, <2>2, Zenon DEF T
    <3>2. ToldNext(answer, AlertOf(L, Confidences), rule, told, signal.at + 1,
                   Began(gate.first, signal), {signal.at})
      BY <1>1, <2>2, <2>4, <3>1, OfferTold
    <3>3. ToldOf(T, rule, told', gate', index'.next)
      BY <2>2, <2>3, <2>6, <3>2, Zenon DEF ToldNext, T
    <3> QED
      BY <1>3, <2>1, <3>3
  <2> QED
    BY <2>1, <2>5, <2>6
<1>11. ASSUME NEW up \in BOOLEAN, Stop(up) PROVE ToldInv'
  <2>1. bundle' = bundle /\ told' = told /\ gate' = Closed(rule, gate) /\ index' = index
    BY <1>11 DEF Stop, rule
  <2>2. ToldOf(AlertOf(L, Confidences), rule, told, gate, now)
    BY <1>1, Zenon DEF T
  <2>3. ToldOf(AlertOf(L, Confidences), rule, told, Closed(rule, gate), now)
    BY <2>2, ClosedTold
  <2>4. ToldOf(T, rule, told', gate', index'.next)
    BY <2>1, <2>3, Zenon DEF T
  <2> QED
    BY <1>3, <2>1, <2>4
<1>12. CASE PowerCut
  <2>1. bundle' = bundle /\ told' = told /\ gate' = gate /\ index'.next = now
    BY <1>12 DEF PowerCut
  <2> QED
    BY <1>7, <2>1
<1>13. CASE UNCHANGED pipelineVars
  <2>1. bundle' = bundle /\ told' = told /\ gate' = gate /\ index'.next = now
    BY <1>13 DEF pipelineVars
  <2> QED
    BY <1>7, <2>1
<1> QED
  BY <1>6, <1>8, <1>9, <1>10, <1>11, <1>12, <1>13 DEF PipelineNext, Confidences

------------------------------------------------------------------------------
(* What the gate of the device says, and the batch's.                        *)

\* What the ledger of a gate tells, by the phase of the loop.
Tells(p, rule, signals, g) ==
  p = "off" \/
  LET batch == Apply(rule, signals)
      stream == LedgerOf(g) IN
  /\ \A n \in {"raw", "withheld", "dwelt", "cooled"} : stream[n] = batch[n]
  /\ p = "running" => IsPrefix(stream.alerts, batch.alerts)
  /\ p \in {"reported", "raised"} =>
       /\ When(stream.alerts) = When(batch.alerts) /\ stream.merged = batch.merged
       /\ \A i \in 1 .. Len(stream.alerts) - 1 : stream.alerts[i] = batch.alerts[i]

\* Judgements come in the order of time, before now.
Ordered(signals, now) ==
  /\ \A i, j \in 1..Len(signals) : i < j => signals[i].at < signals[j].at
  /\ \A i \in 1..Len(signals) : signals[i].at < now

\* A gate knows when the first and the latest of its judgements came.
Observes(signals, g) ==
  IF signals = <<>> THEN g.first = {} /\ g.latest = {}
  ELSE g.first = {signals[1].at} /\ g.latest = {Last(signals).at}

\* A gate and what it was offered before now: it agrees with the batch while it
\* runs, and tells it afterwards.
GateOf(p, rule, signals, now, g) ==
  /\ p = "running" => Agrees(rule, signals, now, g)
  /\ Tells(p, rule, signals, g)
  /\ NoneLost(rule.budget, g)

\* The inductive invariant of the gate.
GateInv ==
  /\ Ordered(offered, index.next)
  /\ Observes(offered, gate)
  /\ GateOf(phase, bundle.rule, offered, index.next, gate)

\* A ledger names what the gate has counted and told.
LEMMA LedgerFields ==
  ASSUME NEW g
  PROVE  /\ LedgerOf(g).raw = g.raw /\ LedgerOf(g).withheld = g.withheld
         /\ LedgerOf(g).dwelt = g.dwelt /\ LedgerOf(g).cooled = g.cooled
         /\ LedgerOf(g).alerts = g.emitted /\ LedgerOf(g).merged = g.merged
<1> DEFINE r == g.raw w == g.withheld d == g.dwelt c == g.cooled m == g.merged e == g.emitted
           apart == IF g.latest = {} THEN 0
                    ELSE (CHOOSE t \in g.latest : TRUE) - (CHOOSE t \in g.first : TRUE)
           o == IF apart > 1 THEN apart ELSE 1
<1>1. LedgerOf(g) = [raw |-> r, alerts |-> e, withheld |-> w, dwelt |-> d, cooled |-> c,
                     merged |-> m, observed |-> o]
  BY Zenon DEF LedgerOf
<1> HIDE DEF r, w, d, c, m, e, o
<1>2. /\ LedgerOf(g).raw = r /\ LedgerOf(g).withheld = w /\ LedgerOf(g).dwelt = d
      /\ LedgerOf(g).cooled = c /\ LedgerOf(g).alerts = e /\ LedgerOf(g).merged = m
  BY <1>1
<1> QED
  BY <1>2, Zenon DEF r, w, d, c, m, e

\* A gate that matches tells it while it runs, one that closed as the batch
\* does when it ended.
LEMMA MatchesTells ==
  ASSUME NEW rule, NEW signals, NEW g
  PROVE  /\ Matches(rule, signals, g) => Tells("running", rule, signals, g)
         /\ ClosesAs(rule, signals, g) => \A p : p # "running" => Tells(p, rule, signals, g)
<1> DEFINE batch == Apply(rule, signals)
           stream == LedgerOf(g)
<1>1. stream.raw = g.raw /\ stream.withheld = g.withheld /\ stream.dwelt = g.dwelt
      /\ stream.cooled = g.cooled /\ stream.alerts = g.emitted /\ stream.merged = g.merged
  BY LedgerFields, Zenon
<1> HIDE DEF batch, stream
<1>2. ASSUME g.raw = batch.raw, g.withheld = batch.withheld, g.dwelt = batch.dwelt,
             g.cooled = batch.cooled
      PROVE  \A n \in {"raw", "withheld", "dwelt", "cooled"} : stream[n] = batch[n]
  BY <1>1, <1>2, Zenon
<1>3. ASSUME Matches(rule, signals, g) PROVE Tells("running", rule, signals, g)
  <2>1. /\ g.raw = batch.raw /\ g.withheld = batch.withheld /\ g.dwelt = batch.dwelt
        /\ g.cooled = batch.cooled /\ IsPrefix(g.emitted, batch.alerts)
    BY <1>3, Zenon DEF Matches, batch
  <2>2. "running" \notin {"reported", "raised"}
    OBVIOUS
  <2>3. IsPrefix(stream.alerts, batch.alerts)
    BY <1>1, <2>1, Zenon
  <2> QED
    BY <1>2, <2>1, <2>2, <2>3, Zenon DEF Tells, batch, stream
<1>4. ASSUME ClosesAs(rule, signals, g), NEW p, p # "running" PROVE Tells(p, rule, signals, g)
  <2>1. /\ g.raw = batch.raw /\ g.withheld = batch.withheld /\ g.dwelt = batch.dwelt
        /\ g.cooled = batch.cooled
        /\ When(g.emitted) = When(batch.alerts) /\ g.merged = batch.merged
        /\ \A i \in 1 .. Len(g.emitted) - 1 : g.emitted[i] = batch.alerts[i]
    BY <1>4, Zenon DEF ClosesAs, batch
  <2>2. /\ When(stream.alerts) = When(batch.alerts) /\ stream.merged = batch.merged
        /\ \A i \in 1 .. Len(stream.alerts) - 1 : stream.alerts[i] = batch.alerts[i]
    BY <1>1, <2>1, Zenon
  <2> QED
    BY <1>2, <1>4, <2>1, <2>2, Zenon DEF Tells, batch, stream
<1> QED
  BY <1>3, <1>4

\* The time observed is that of the batch from the second judgement on.
LEMMA ObservedSays ==
  ASSUME NEW L, NEW C, NEW rule, NEW signals, signals \in Seq(SignalOf(L, C)), NEW now, NEW g,
         Ordered(signals, now), Observes(signals, g), Len(signals) > 1
  PROVE  LedgerOf(g).observed = Apply(rule, signals).observed
<1> DEFINE r == g.raw w == g.withheld d == g.dwelt c == g.cooled m == g.merged e == g.emitted
           apart == IF g.latest = {} THEN 0
                    ELSE (CHOOSE t \in g.latest : TRUE) - (CHOOSE t \in g.first : TRUE)
           o == IF apart > 1 THEN apart ELSE 1
<1>1. LedgerOf(g) = [raw |-> r, alerts |-> e, withheld |-> w, dwelt |-> d, cooled |-> c,
                     merged |-> m, observed |-> o]
  BY Zenon DEF LedgerOf
<1>2. LedgerOf(g).observed = o
  <2> HIDE DEF r, w, d, c, m, e, o
  <2> QED
    BY <1>1
<1>3. signals # <<>>
  OBVIOUS
<1>4. g.first = {signals[1].at} /\ g.latest = {Last(signals).at}
  BY <1>3, Zenon DEF Observes
<1>5. apart = Last(signals).at - signals[1].at
  <2> DEFINE a == signals[1].at
             b == Last(signals).at
             fi == g.first
             lt == g.latest
  <2>1. a = CHOOSE t \in {a} : TRUE
    BY TheOne
  <2>2. b = CHOOSE t \in {b} : TRUE
    BY TheOne
  <2>3. fi = {a} /\ lt = {b}
    BY <1>4
  <2>4. apart = IF lt = {} THEN 0 ELSE (CHOOSE t \in lt : TRUE) - (CHOOSE t \in fi : TRUE)
    OBVIOUS
  <2> HIDE DEF a, b, fi, lt, apart
  <2>5. lt # {}
    BY <2>3
  <2>6. apart = (CHOOSE t \in lt : TRUE) - (CHOOSE t \in fi : TRUE)
    BY <2>4, <2>5, Zenon
  <2>7. apart = b - a
    BY <2>1, <2>2, <2>3, <2>6, Zenon
  <2> QED
    BY <2>7 DEF a, b
<1> HIDE DEF apart
<1>6. Span(signals) = o
  BY <1>5, Zenon DEF Span
<1>7. Apply(rule, signals).observed = Span(signals)
  <2>1. \A i, j \in 1..Len(signals) : i < j => signals[i].at < signals[j].at
    BY DEF Ordered
  <2>2. Totals(Apply(rule, signals), rule, signals)
    BY <2>1, BatchForms
  <2> QED
    BY <2>2, Zenon DEF Totals
<1> QED
  BY <1>2, <1>6, <1>7

\* A judgement more is the latest one, and the first when there was none.
LEMMA ObserveMore ==
  ASSUME NEW L, NEW C, NEW signals, signals \in Seq(SignalOf(L, C)),
         NEW signal, signal \in SignalOf(L, C), NEW g, Observes(signals, g), NEW next,
         next.first = Began(g.first, signal), next.latest = {signal.at}
  PROVE  Observes(Append(signals, signal), next)
<1> DEFINE more == Append(signals, signal)
           n == Len(signals)
<1>1. /\ n \in Nat /\ Len(more) = n + 1 /\ more[n + 1] = signal /\ more # <<>>
      /\ signals # <<>> => more[1] = signals[1]
      /\ signals = <<>> => more[1] = signal
  OBVIOUS
<1> HIDE DEF more, n
<1>2. Last(more) = signal
  BY <1>1 DEF Last
<1>3. next.first = {more[1].at}
  <2>1. CASE signals = <<>>
    <3>1. g.first = {}
      BY <2>1 DEF Observes
    <3> QED
      BY <1>1, <2>1, <3>1 DEF Began
  <2>2. CASE signals # <<>>
    <3>1. g.first = {signals[1].at} /\ g.first # {}
      BY <2>2 DEF Observes
    <3> QED
      BY <1>1, <2>2, <3>1 DEF Began
  <2> QED
    BY <2>1, <2>2
<1>4. Observes(more, next)
  BY <1>1, <1>2, <1>3 DEF Observes
<1> QED
  BY <1>4 DEF more

\* Agreement is enough while the loop runs,
LEMMA GateOfAgrees ==
  ASSUME NEW L, NEW C, NEW rule, rule.budget \in Nat \ {0},
         NEW signals, signals \in Seq(SignalOf(L, C)), NEW now, NEW g,
         Ordered(signals, now), Agrees(rule, signals, now, g)
  PROVE  GateOf("running", rule, signals, now, g)
<1>1. AgreedOn(rule, signals, g, AlertOf(L, C))
  <2>1. \A i, j \in 1..Len(signals) : i < j => signals[i].at < signals[j].at
    BY DEF Ordered
  <2> QED
    BY <2>1, AgreesSays
<1>2. Matches(rule, signals, g) /\ NoneLost(rule.budget, g)
  BY <1>1, RunningMatches
<1> QED
  BY <1>2, MatchesTells, Zenon DEF GateOf

\* it is still so after what closes the gate,
LEMMA GateOfClosed ==
  ASSUME NEW L, NEW C, NEW rule, rule.budget \in Nat \ {0},
         NEW signals, signals \in Seq(SignalOf(L, C)), NEW now, NEW g,
         Ordered(signals, now), Agrees(rule, signals, now, g), NEW p, p # "running"
  PROVE  GateOf(p, rule, signals, now, Closed(rule, g))
<1>1. AgreedOn(rule, signals, g, AlertOf(L, C))
  <2>1. \A i, j \in 1..Len(signals) : i < j => signals[i].at < signals[j].at
    BY DEF Ordered
  <2> QED
    BY <2>1, AgreesSays
<1>2. g = Gated(g.streak, g.last, g.start, g.used, g.overflow, g.raw, g.withheld, g.dwelt, g.cooled,
                g.merged, g.emitted, g.first, g.latest)
  BY Zenon DEF Agrees
<1>3. ClosesAs(rule, signals, Closed(rule, g)) /\ NoneLost(rule.budget, Closed(rule, g))
  BY <1>1, <1>2, ClosedMatches
<1> QED
  BY <1>3, MatchesTells, Zenon DEF GateOf

\* and before the first judgement.
LEMMA GateOfNone ==
  ASSUME NEW L, NEW C, NEW rule, rule.budget \in Nat \ {0}
  PROVE  GateOf("running", rule, <<>>, 0, NewGate)
<1>1. <<>> \in Seq(SignalOf(L, C)) /\ Ordered(<<>>, 0)
  BY DEF Ordered
<1>2. Agrees(rule, <<>>, 0, NewGate)
  BY AgreesNone
<1> QED
  BY <1>1, <1>2, GateOfAgrees

\* What came before now comes before later,
LEMMA OrderedLater ==
  ASSUME NEW L, NEW C, NEW signals, signals \in Seq(SignalOf(L, C)),
         NEW now, now \in Int, NEW later, later \in Int, now <= later, Ordered(signals, now)
  PROVE  Ordered(signals, later)
<1>1. \A i \in 1..Len(signals) : signals[i].at \in Int
  <2>1. \A i \in 1..Len(signals) : signals[i] \in SignalOf(L, C)
    OBVIOUS
  <2> QED
    BY <2>1 DEF SignalOf
<1>2. \A i \in 1..Len(signals) : signals[i].at < later
  BY <1>1 DEF Ordered
<1> QED
  BY <1>2, Zenon DEF Ordered

\* and a judgement of now comes after what came before.
LEMMA OrderedMore ==
  ASSUME NEW L, NEW C, NEW signals, signals \in Seq(SignalOf(L, C)),
         NEW signal, signal \in SignalOf(L, C), Ordered(signals, signal.at)
  PROVE  Ordered(Append(signals, signal), signal.at + 1)
<1> DEFINE n == Len(signals)
           more == Append(signals, signal)
           now == signal.at
<1>1. /\ n \in Nat /\ Len(more) = n + 1 /\ more[n + 1] = signal
      /\ \A i \in 1..n : more[i] = signals[i] /\ signals[i] \in SignalOf(L, C)
  OBVIOUS
<1>2. now \in Int /\ \A e \in SignalOf(L, C) : e.at \in Int
  BY DEF SignalOf
<1>3. /\ \A i, j \in 1..n : i < j => signals[i].at < signals[j].at
      /\ \A i \in 1..n : signals[i].at < now /\ signals[i].at \in Int
  BY <1>1, <1>2 DEF Ordered
<1> HIDE DEF n, more, now
<1>4. \A i \in 1..(n + 1) : i = n + 1 \/ i \in 1..n
  BY <1>1
<1>5. \A i \in 1..n : more[i].at < now /\ more[i].at \in Int /\ i # n + 1
  BY <1>1, <1>3
<1>6. more[n + 1].at = now
  BY <1>1 DEF now
<1>7. \A i \in 1..(n + 1) : more[i].at < now + 1
  BY <1>2, <1>4, <1>5, <1>6
<1>8. ASSUME NEW i \in 1..(n + 1), NEW j \in 1..(n + 1), i < j
      PROVE  more[i].at < more[j].at
  <2>1. i \in 1..n
    BY <1>1, <1>8
  <2>2. CASE j = n + 1
    BY <1>5, <1>6, <2>1, <2>2
  <2>3. CASE j # n + 1
    BY <1>1, <1>3, <1>4, <1>8, <2>1, <2>3
  <2> QED
    BY <2>2, <2>3
<1> QED
  BY <1>1, <1>7, <1>8 DEF Ordered, more, now

\* The first gate has told nothing.
LEMMA GateStarts == PipelineInit => GateInv
<1> SUFFICES ASSUME PipelineInit PROVE GateInv
  OBVIOUS
<1>1. /\ phase = "off" /\ bundle \in Bundles /\ IsBundle(bundle)
      /\ offered = <<>> /\ gate = NewGate /\ index.next = 0
  BY DEF PipelineInit
<1>2. bundle.rule.budget \in Nat \ {0}
  BY <1>1, PipelineAssumption DEF IsBundle, IsRule
<1>3. GateOf("running", bundle.rule, <<>>, 0, NewGate)
  BY <1>2, GateOfNone
<1>4. GateOf("off", bundle.rule, <<>>, 0, NewGate)
  <2>1. "off" # "running"
    OBVIOUS
  <2> QED
    BY <1>3, <2>1, Zenon DEF GateOf, Tells
<1>5. Ordered(offered, index.next)
  BY <1>1 DEF Ordered
<1>6. Observes(offered, gate)
  BY <1>1 DEF Observes, NewGate
<1> QED
  BY <1>1, <1>4, <1>5, <1>6, Zenon DEF GateInv

\* Every pass of the loop, boot, stop and power cut keeps the gate.
LEMMA GateStep ==
  ASSUME LoopInv, ToldInv, GateInv, [PipelineNext]_pipelineVars
  PROVE  GateInv'
<1> DEFINE rule == bundle.rule
           L == ToSet(bundle.labels)
           now == index.next
<1>1. /\ phase \in {"off", "running", "reported", "raised"}
      /\ Ordered(offered, now) /\ Observes(offered, gate)
      /\ GateOf(phase, rule, offered, now, gate)
  BY Zenon DEF GateInv, LoopInv
<1>2. rule.budget \in Nat \ {0}
  BY BudgetIsPositive
<1>3. /\ offered \in Seq(SignalOf(L, Confidences)) /\ now \in Int
      /\ index = [next |-> index.next, unreadable |-> index.unreadable]
  BY DEF LoopInv, IsIndex, Signals, Judgements
<1>4. ToldOf(AlertOf(L, Confidences), rule, told, gate, now)
  BY Zenon DEF ToldInv, Alerted
<1>5. ASSUME bundle' = bundle, Ordered(offered', index'.next), Observes(offered', gate'),
             GateOf(phase', rule, offered', index'.next, gate')
      PROVE  GateInv'
  BY <1>5, Zenon DEF GateInv
<1> HIDE DEF rule, L
<1>6. ASSUME phase = "running"
      PROVE  /\ Agrees(rule, offered, now, gate) /\ NoneLost(rule.budget, gate)
             /\ Ordered(offered, now + 1) /\ Agrees(rule, offered, now + 1, gate)
  <2>1. Ordered(offered, now) /\ Agrees(rule, offered, now, gate) /\ NoneLost(rule.budget, gate)
    BY <1>1, <1>6, Zenon DEF GateOf
  <2>2. now + 1 \in Int /\ now <= now + 1
    BY <1>3
  <2> HIDE DEF now
  <2> QED
    BY <1>3, <2>1, <2>2, OrderedLater, AgreesLater
<1>7. CASE Boot
  <2>1. /\ phase' = "running" /\ gate' = NewGate /\ offered' = <<>> /\ index'.next = 0
        /\ bundle' = bundle
    BY <1>7 DEF Boot
  <2>2. GateOf("running", rule, <<>>, 0, NewGate)
    BY <1>2, GateOfNone
  <2>3. GateOf(phase', rule, offered', index'.next, gate')
    BY <2>1, <2>2, Zenon
  <2>4. Ordered(offered', index'.next)
    BY <2>1 DEF Ordered
  <2>5. Observes(offered', gate')
    BY <2>1 DEF Observes, NewGate
  <2> QED
    BY <1>5, <2>1, <2>3, <2>4, <2>5
<1>8. ASSUME phase' = phase, bundle' = bundle, gate' = gate, offered' = offered, index'.next = now
      PROVE  GateInv'
  <2>1. GateOf(phase', rule, offered', index'.next, gate')
    BY <1>1, <1>8, Zenon
  <2>2. Ordered(offered', index'.next) /\ Observes(offered', gate')
    BY <1>1, <1>8, Zenon
  <2> QED
    BY <1>5, <1>8, <2>1, <2>2
<1>9. CASE Unreadable
  <2>1. /\ index' = [index EXCEPT !.unreadable = @ + 1]
        /\ UNCHANGED <<phase, bundle, gate, offered>>
    BY <1>9 DEF Unreadable
  <2>2. index'.next = now
    BY <1>3, <2>1
  <2> QED
    BY <1>8, <2>1, <2>2
<1>10. ASSUME phase = "running", phase' = phase, bundle' = bundle, gate' = gate, offered' = offered,
              index' = [index EXCEPT !.next = @ + 1]
       PROVE  GateInv'
  <2>1. index'.next = now + 1
    BY <1>3, <1>10
  <2>2. GateOf("running", rule, offered, now + 1, gate)
    BY <1>2, <1>3, <1>6, <1>10, GateOfAgrees
  <2>3. GateOf(phase', rule, offered', index'.next, gate')
    BY <1>10, <2>1, <2>2, Zenon
  <2>4. Ordered(offered', index'.next) /\ Observes(offered', gate')
    BY <1>1, <1>6, <1>10, <2>1, Zenon
  <2> QED
    BY <1>5, <1>10, <2>3, <2>4
<1>11. ASSUME NEW s \in Samples, Acquire(s) PROVE GateInv'
  <2>1. /\ phase = "running" /\ phase' = phase /\ bundle' = bundle /\ gate' = gate
        /\ offered' = offered /\ index' = [index EXCEPT !.next = @ + 1]
    BY <1>11 DEF Acquire, Acquired
  <2> QED
    BY <1>10, <2>1
<1>12. ASSUME NEW s \in Samples, NEW l \in ToSet(bundle.labels), NEW q \in Confidences,
              NEW up \in BOOLEAN, Infer(s, l, q, up)
       PROVE  GateInv'
  <2> DEFINE signal == Signal(index.next, l, q)
             answer == Offer(rule, gate, signal)
             more == Append(offered, signal)
  <2>1. /\ phase = "running" /\ phase' = phase /\ bundle' = bundle
        /\ index' = [index EXCEPT !.next = @ + 1]
        /\ \/ gate' = gate /\ offered' = offered
           \/ gate' = answer.gate /\ offered' = more
    BY <1>12 DEF Infer, Acquired, rule
  <2>2. signal \in SignalOf(L, Confidences) /\ signal.at = now
    BY <1>3 DEF Signal, SignalOf, L
  <2>3. answer = Offer(rule, gate, signal) /\ more = Append(offered, signal)
    OBVIOUS
  <2> HIDE DEF signal, answer, more
  <2>4. CASE gate' = gate /\ offered' = offered
    BY <1>10, <2>1, <2>4
  <2>5. CASE gate' = answer.gate /\ offered' = more
    <3> DEFINE next == answer.gate
    <3>1. Ordered(offered, signal.at) /\ Agrees(rule, offered, signal.at, gate)
      BY <1>1, <1>6, <2>1, <2>2, Zenon
    <3>2. Ordered(more, signal.at + 1)
      BY <1>3, <2>2, <2>3, <3>1, OrderedMore
    <3>3. Agrees(rule, more, signal.at + 1, next)
      <4>1. Agrees(rule, Append(offered, signal), signal.at + 1, Offer(rule, gate, signal).gate)
        BY <1>2, <1>3, <2>2, <3>1, OfferAgrees
      <4> QED
        BY <2>3, <4>1, Zenon
    <3>4. more \in Seq(SignalOf(L, Confidences))
      BY <1>3, <2>2, <2>3
    <3>5. next.first = Began(gate.first, signal) /\ next.latest = {signal.at}
      <4>1. ToldOf(AlertOf(L, Confidences), rule, told, gate, signal.at)
        BY <1>4, <2>2, Zenon
      <4>2. ToldNext(answer, AlertOf(L, Confidences), rule, told, signal.at + 1,
                     Began(gate.first, signal), {signal.at})
        BY <1>2, <2>2, <2>3, <4>1, OfferTold
      <4> QED
        BY <4>2, Zenon DEF ToldNext
    <3> HIDE DEF next
    <3>6. Observes(more, next)
      BY <1>1, <1>3, <2>2, <2>3, <3>5, ObserveMore
    <3>7. GateOf("running", rule, more, signal.at + 1, next)
      BY <1>2, <3>2, <3>3, <3>4, GateOfAgrees
    <3>8. index'.next = signal.at + 1
      <4>1. index'.next = now + 1
        BY <1>3, <2>1
      <4> QED
        BY <2>2, <4>1, Zenon
    <3>9. GateOf(phase', rule, offered', index'.next, gate')
      BY <2>1, <2>5, <3>7, <3>8, Zenon DEF next
    <3>10. Ordered(offered', index'.next) /\ Observes(offered', gate')
      BY <2>5, <3>2, <3>6, <3>8, Zenon DEF next
    <3> QED
      BY <1>5, <2>1, <3>9, <3>10
  <2> QED
    BY <2>1, <2>4, <2>5
<1>13. ASSUME NEW up \in BOOLEAN, Stop(up) PROVE GateInv'
  <2>1. /\ phase = "running" /\ phase' \in {"reported", "raised"} /\ bundle' = bundle
        /\ gate' = Closed(rule, gate) /\ index' = index /\ offered' = offered
    BY <1>13 DEF Stop, rule
  <2>2. phase' # "running"
    BY <2>1
  <2>3. Ordered(offered, now) /\ Agrees(rule, offered, now, gate)
    BY <1>1, <1>6, <2>1
  <2>4. GateOf(phase', rule, offered, now, Closed(rule, gate))
    BY <1>2, <1>3, <2>2, <2>3, GateOfClosed
  <2>5. GateOf(phase', rule, offered', index'.next, gate')
    BY <2>1, <2>4, Zenon
  <2>6. Closed(rule, gate).first = gate.first /\ Closed(rule, gate).latest = gate.latest
    BY <1>4, ClosedTold
  <2>7. Observes(offered', gate')
    BY <1>1, <2>1, <2>6, Zenon DEF Observes
  <2> QED
    BY <1>1, <1>5, <2>1, <2>5, <2>7
<1>14. CASE PowerCut
  <2>1. /\ phase = "running" /\ phase' = "off"
        /\ UNCHANGED <<bundle, index, gate, offered>>
    BY <1>14 DEF PowerCut
  <2>2. NoneLost(rule.budget, gate) /\ phase' # "running"
    BY <1>6, <2>1
  <2>3. GateOf(phase', rule, offered', index'.next, gate')
    BY <2>1, <2>2, Zenon DEF GateOf, Tells
  <2> QED
    BY <1>1, <1>5, <2>1, <2>3
<1>15. CASE UNCHANGED pipelineVars
  <2>1. UNCHANGED <<phase, bundle, index, gate, offered>>
    BY <1>15 DEF pipelineVars
  <2> QED
    BY <1>8, <2>1
<1> QED
  BY <1>7, <1>9, <1>11, <1>12, <1>13, <1>14, <1>15 DEF PipelineNext, Confidences

------------------------------------------------------------------------------
(* The counts of the device's loop.                                         *)

\* A record of counts, as kept in memory and on the disk.
IsCounts(c) ==
  /\ c = [acquired |-> c.acquired, inferred |-> c.inferred, answered |-> c.answered,
          withheld |-> c.withheld, alerts |-> c.alerts, unreadable |-> c.unreadable]
  /\ {c.acquired, c.inferred, c.answered, c.withheld, c.alerts} \subseteq Nat

\* Of what was inferred all was answered or withheld, and no alert came of less.
AddUp(c) ==
  /\ c.answered + c.withheld = c.inferred
  /\ c.inferred <= c.acquired /\ c.alerts <= c.answered

\* What this boot counted comes on top of what the disk gave back, one by one.
Sums ==
  phase = "running" =>
    /\ counts.acquired = Restored.acquired + index.next
    /\ counts.answered = Restored.answered + Len(offered)
    /\ counts.alerts = Restored.alerts + Len(told)

\* The first boot has counts and windows of its own only, and a record that
\* waits or was thrown away was answered.
FirstBoot ==
  /\ past.boots = 0 => phase = "off" /\ disk = {} /\ spool.pending = 0
  /\ past.boots = 1 /\ phase = "running" =>
       counts.inferred <= builder.attempted /\ spool.pending + spool.dropped <= counts.answered
  /\ phase = "raised" => past.boots > 1

\* The inductive invariant of the counts.
CountsInv ==
  /\ \A c \in disk \cup {counts} : IsCounts(c) /\ AddUp(c)
  /\ Sums
  /\ FirstBoot

\* Nobody is told of more than one alert of a judgement.
AtMostOne(said) == said = <<>> \/ \E x : said = <<x>>

LEMMA OneAlertAtMost == \A rule, g, signal : AtMostOne(Offer(rule, g, signal).said)
<1>1. AtMostOne(<<>>) /\ \A x : AtMostOne(<<x>>)
  BY DEF AtMostOne
<1>2. \A start, of, overflow : AtMostOne(Bundled(start, of, overflow))
  BY <1>1 DEF Bundled
<1>3. ASSUME NEW rule, NEW h, NEW alert PROVE AtMostOne(ThroughBudget(rule, h, alert).said)
  <2> DEFINE start == IF h.start = {} THEN alert.at ELSE CHOOSE t \in h.start : TRUE
             over == alert.at - start >= Hour
             g == IF ~over THEN [h EXCEPT !.start = {start}]
                  ELSE [h EXCEPT !.emitted = @ \o Bundled(start, alert, h.overflow),
                                 !.merged = @ + h.overflow, !.start = {alert.at},
                                 !.used = 0, !.overflow = 0]
             one == [g EXCEPT !.used = @ + 1, !.emitted = Append(@, alert)]
             held == [g EXCEPT !.overflow = @ + 1]
             rest == IF over THEN Bundled(start, alert, h.overflow) ELSE <<>>
  <2>1. ThroughBudget(rule, h, alert) = IF g.used < rule.budget THEN [gate |-> one, said |-> <<alert>>]
                                        ELSE [gate |-> held, said |-> rest]
    BY Zenon DEF ThroughBudget
  <2>2. AtMostOne(rest)
    BY <1>1, <1>2, Zenon
  <2> HIDE DEF g, one, held, rest
  <2>3. ThroughBudget(rule, h, alert).said = IF g.used < rule.budget THEN <<alert>> ELSE rest
    BY <2>1
  <2> QED
    BY <1>1, <2>2, <2>3, Zenon
<1> QED
  BY <1>1, <1>3 DEF Offer

\* So a list of told alerts is longer by as many as were told.
LEMMA SaidMore ==
  ASSUME NEW T, NEW tells, tells \in Seq(T), NEW rule, NEW g, NEW signal
  PROVE  LET said == Offer(rule, g, signal).said
         IN Len(said) \in 0..1 /\ Len(tells \o said) = Len(tells) + Len(said) /\ Len(tells) \in Nat
<1> DEFINE said == Offer(rule, g, signal).said
<1>1. said = <<>> \/ \E x : said = <<x>>
  BY OneAlertAtMost, Zenon DEF AtMostOne
<1> HIDE DEF said
<1>2. Len(tells) \in Nat
  OBVIOUS
<1>3. CASE said = <<>>
  <2>1. tells \o said = tells /\ Len(said) = 0
    BY <1>3
  <2> QED
    BY <1>2, <2>1 DEF said
<1>4. ASSUME NEW x, said = <<x>>
      PROVE  Len(said) \in 0..1 /\ Len(tells \o said) = Len(tells) + Len(said)
  <2>1. tells \o <<x>> = Append(tells, x)
    BY ToldAfter
  <2>2. Len(Append(tells, x)) = Len(tells) + 1 /\ Len(<<x>>) = 1
    OBVIOUS
  <2>3. Len(said) = 1 /\ Len(tells \o said) = Len(tells) + 1
    BY <1>4, <2>1, <2>2
  <2> QED
    BY <2>3
<1> QED
  BY <1>1, <1>2, <1>3, <1>4 DEF said

\* What one pass of the loop adds to the counts.
CountAcquired(c) == [c EXCEPT !.acquired = @ + 1]
CountInferred(c) == [c EXCEPT !.acquired = @ + 1, !.inferred = @ + 1]
CountWithheld(c) == [CountInferred(c) EXCEPT !.withheld = @ + 1]
CountAnswered(c, said) == [CountInferred(c) EXCEPT !.answered = @ + 1, !.alerts = @ + said]

CountsAs(c, acquired, inferred, answered, alerts) ==
  c.acquired = acquired /\ c.inferred = inferred /\ c.answered = answered /\ c.alerts = alerts

\* A sample is acquired whether or not it fills a window, and a window answered
\* or withheld is counted once, with one alert at most.
LEMMA CountsMove ==
  ASSUME NEW c, IsCounts(c), AddUp(c), NEW said \in 0..1
  PROVE  /\ IsCounts(CountAcquired(c)) /\ AddUp(CountAcquired(c))
         /\ IsCounts(CountWithheld(c)) /\ AddUp(CountWithheld(c))
         /\ IsCounts(CountAnswered(c, said)) /\ AddUp(CountAnswered(c, said))
         /\ CountsAs(CountAcquired(c), c.acquired + 1, c.inferred, c.answered, c.alerts)
         /\ CountsAs(CountWithheld(c), c.acquired + 1, c.inferred + 1, c.answered, c.alerts)
         /\ CountsAs(CountAnswered(c, said), c.acquired + 1, c.inferred + 1, c.answered + 1, c.alerts + said)
<1> DEFINE acquired == CountAcquired(c)
           inferred == CountInferred(c)
           held == CountWithheld(c)
           answered == CountAnswered(c, said)
<1>1. /\ c = [acquired |-> c.acquired, inferred |-> c.inferred, answered |-> c.answered,
              withheld |-> c.withheld, alerts |-> c.alerts, unreadable |-> c.unreadable]
      /\ {c.acquired, c.inferred, c.answered, c.withheld, c.alerts} \subseteq Nat
      /\ c.answered + c.withheld = c.inferred
      /\ c.inferred <= c.acquired /\ c.alerts <= c.answered
  BY DEF IsCounts, AddUp
<1>2. /\ acquired = [c EXCEPT !.acquired = c.acquired + 1]
      /\ inferred = [c EXCEPT !.acquired = c.acquired + 1, !.inferred = c.inferred + 1]
  BY DEF CountAcquired, CountInferred
<1>3. /\ held = [inferred EXCEPT !.withheld = inferred.withheld + 1]
      /\ answered = [inferred EXCEPT !.answered = inferred.answered + 1,
                                     !.alerts = inferred.alerts + said]
  BY DEF CountWithheld, CountAnswered
<1> HIDE DEF acquired, inferred, held, answered
<1>4. acquired = [acquired |-> c.acquired + 1, inferred |-> c.inferred, answered |-> c.answered,
                  withheld |-> c.withheld, alerts |-> c.alerts, unreadable |-> c.unreadable]
  BY <1>1, <1>2
<1>5. inferred = [acquired |-> c.acquired + 1, inferred |-> c.inferred + 1, answered |-> c.answered,
                  withheld |-> c.withheld, alerts |-> c.alerts, unreadable |-> c.unreadable]
  BY <1>1, <1>2
<1>6. held = [acquired |-> c.acquired + 1, inferred |-> c.inferred + 1, answered |-> c.answered,
              withheld |-> c.withheld + 1, alerts |-> c.alerts, unreadable |-> c.unreadable]
  BY <1>3, <1>5
<1>7. answered = [acquired |-> c.acquired + 1, inferred |-> c.inferred + 1, answered |-> c.answered + 1,
                  withheld |-> c.withheld, alerts |-> c.alerts + said, unreadable |-> c.unreadable]
  BY <1>3, <1>5
<1>8. IsCounts(acquired) /\ AddUp(acquired)
  BY <1>1, <1>4 DEF IsCounts, AddUp
<1>9. IsCounts(held) /\ AddUp(held)
  BY <1>1, <1>6 DEF IsCounts, AddUp
<1>10. IsCounts(answered) /\ AddUp(answered)
  BY <1>1, <1>7 DEF IsCounts, AddUp
<1>11. /\ CountsAs(acquired, c.acquired + 1, c.inferred, c.answered, c.alerts)
       /\ CountsAs(held, c.acquired + 1, c.inferred + 1, c.answered, c.alerts)
       /\ CountsAs(answered, c.acquired + 1, c.inferred + 1, c.answered + 1, c.alerts + said)
  BY <1>4, <1>6, <1>7 DEF CountsAs
<1> QED
  BY <1>8, <1>9, <1>10, <1>11 DEF acquired, held, answered

\* What a pass with a window does to what is counted and put on a record.
Passed(c, s, w, up) ==
  \/ /\ counts' = CountWithheld(c) /\ offered' = offered /\ told' = told
     /\ spool' \in {s, Flushed(s, up)}
  \/ \E said \in 0..1 :
       /\ counts' = CountAnswered(c, said) /\ Len(offered') = Len(offered) + 1
       /\ Len(told') = Len(told) + said
       /\ spool' \in {Appended(s), Flushed(Appended(s), up)}

LEMMA InferPasses ==
  ASSUME LoopInv, ToldInv, NEW w \in Samples, NEW l \in ToSet(bundle.labels), NEW q \in Confidences,
         NEW up \in BOOLEAN, Infer(w, l, q, up)
  PROVE  /\ phase = "running" /\ phase' = phase /\ disk' = disk
         /\ past' = [past EXCEPT !.samples = @ + 1] /\ index' = [index EXCEPT !.next = @ + 1]
         /\ builder' = WindowOffered(builder, w).builder /\ WindowOffered(builder, w).gave
         /\ Passed(counts, spool, w, up)
<1> DEFINE signal == Signal(index.next, l, q)
           answer == Offer(bundle.rule, gate, signal)
           due == counts'.answered % UplinkEvery = 0
<1>1. /\ phase = "running" /\ phase' = phase /\ disk' = disk
      /\ past' = [past EXCEPT !.samples = @ + 1] /\ index' = [index EXCEPT !.next = @ + 1]
      /\ builder' = WindowOffered(builder, w).builder /\ WindowOffered(builder, w).gave
  BY DEF Infer, Acquired
<1>2. \/ /\ counts' = CountWithheld(counts) /\ offered' = offered /\ told' = told
         /\ spool' = IF due THEN Flushed(spool, up) ELSE spool
      \/ /\ counts' = CountAnswered(counts, Len(answer.said)) /\ offered' = Append(offered, signal)
         /\ told' = told \o answer.said
         /\ spool' = IF due THEN Flushed(Appended(spool), up) ELSE Appended(spool)
  BY Zenon DEF Infer, CountInferred, CountWithheld, CountAnswered
<1>3. Len(Append(offered, signal)) = Len(offered) + 1
  BY JudgedIn
<1>4. Len(answer.said) \in 0..1 /\ Len(told \o answer.said) = Len(told) + Len(answer.said)
  <2>1. told \in Seq(Alerted)
    BY Zenon DEF ToldInv, ToldOf, ToldBy
  <2> QED
    BY <2>1, SaidMore
<1> HIDE DEF signal, answer, due
<1> DEFINE said == Len(answer.said)
<1>5. CASE /\ counts' = CountWithheld(counts) /\ offered' = offered /\ told' = told
           /\ spool' = IF due THEN Flushed(spool, up) ELSE spool
  BY <1>1, <1>5, Zenon DEF Passed
<1>6. CASE /\ counts' = CountAnswered(counts, said) /\ offered' = Append(offered, signal)
           /\ told' = told \o answer.said
           /\ spool' = IF due THEN Flushed(Appended(spool), up) ELSE Appended(spool)
  <2>1. Len(offered') = Len(offered) + 1
    BY <1>3, <1>6, Zenon
  <2>2. said \in 0..1 /\ Len(told') = Len(told) + said
    BY <1>4, <1>6, Zenon
  <2>3. spool' \in {Appended(spool), Flushed(Appended(spool), up)}
    BY <1>6
  <2> HIDE DEF said
  <2>4. Passed(counts, spool, w, up)
    BY <1>6, <2>1, <2>2, <2>3 DEF Passed
  <2> QED
    BY <1>1, <2>4
<1> QED
  BY <1>2, <1>5, <1>6

\* Nothing is counted before the first boot.
LEMMA CountsStart == PipelineInit => CountsInv
<1> SUFFICES ASSUME PipelineInit PROVE CountsInv
  OBVIOUS
<1>1. /\ phase = "off" /\ disk = {} /\ counts = NoCounts
      /\ spool = [pending |-> 0, dropped |-> 0] /\ past = [samples |-> 0, boots |-> 0]
  BY DEF PipelineInit
<1>2. IsCounts(NoCounts) /\ AddUp(NoCounts)
  BY DEF IsCounts, AddUp, NoCounts
<1> QED
  BY <1>1, <1>2 DEF CountsInv, Sums, FirstBoot

\* The report of the first boot is always built.
LEMMA FirstReports ==
  ASSUME LoopInv, CountsInv, phase = "running", past.boots = 1, NEW up \in BOOLEAN, Stop(up)
  PROVE  phase' = "reported"
<1> DEFINE c == [counts EXCEPT !.unreadable = index.unreadable]
<1>1. IsCounts(counts) /\ AddUp(counts)
  BY DEF CountsInv
<1>2. c = [acquired |-> counts.acquired, inferred |-> counts.inferred, answered |-> counts.answered,
           withheld |-> counts.withheld, alerts |-> counts.alerts, unreadable |-> index.unreadable]
  BY <1>1 DEF IsCounts
<1>3. /\ counts.inferred <= builder.attempted
      /\ spool.pending + spool.dropped <= counts.answered
      /\ spool.pending \in Nat /\ spool.dropped \in Nat /\ builder.attempted \in Nat
      /\ index.unreadable \in Nat
  BY DEF CountsInv, FirstBoot, LoopInv, IsSpool, IsBuilder, IsIndex
<1>4. /\ {counts.acquired, counts.inferred, counts.answered, counts.withheld} \subseteq Nat
      /\ counts.answered + counts.withheld = counts.inferred
  BY <1>1 DEF IsCounts, AddUp
<1> HIDE DEF c
<1>5. /\ c.acquired = counts.acquired /\ c.inferred = counts.inferred
      /\ c.answered = counts.answered /\ c.unreadable = index.unreadable
  BY <1>2
<1>6. \A m, n \in Int : 0 <= n /\ n <= m => IsStage(Stage(m, n))
  BY DEF IsStage, Stage
<1>7. /\ IsStage(Stage(c.acquired + c.unreadable, c.acquired))
      /\ IsStage(Stage(builder.attempted, c.inferred))
      /\ IsStage(Stage(c.inferred, c.inferred))
      /\ IsStage(Stage(c.inferred, c.answered))
      /\ IsStage(Stage(c.answered, c.answered - spool.dropped))
  <2> DEFINE a == counts.acquired i == counts.inferred n == counts.answered w == counts.withheld
             u == index.unreadable d == spool.dropped p == spool.pending b == builder.attempted
  <2>1. /\ a \in Nat /\ i \in Nat /\ n \in Nat /\ w \in Nat /\ n + w = i /\ i <= b
        /\ p + d <= n /\ p \in Nat /\ d \in Nat /\ b \in Nat /\ u \in Nat
    BY <1>3, <1>4
  <2> HIDE DEF a, i, n, w, u, d, p, b
  <2>2. /\ a + u \in Int /\ 0 <= a /\ a <= a + u /\ 0 <= i /\ i <= b /\ i <= i /\ 0 <= n /\ n <= i
        /\ n - d \in Int /\ 0 <= n - d /\ n - d <= n /\ a \in Int /\ i \in Int /\ n \in Int /\ b \in Int
    BY <2>1
  <2>3. /\ IsStage(Stage(a + u, a)) /\ IsStage(Stage(b, i)) /\ IsStage(Stage(i, i))
        /\ IsStage(Stage(i, n)) /\ IsStage(Stage(n, n - d))
    BY <1>6, <2>2
  <2> QED
    BY <1>5, <2>3, Zenon DEF a, i, n, u, d, b
<1>8. \A s \in ToSet(Report(c)) : IsStage(s)
  <2> DEFINE s1 == Stage(c.acquired + c.unreadable, c.acquired)
             s2 == Stage(builder.attempted, c.inferred)
             s3 == Stage(c.inferred, c.inferred)
             s4 == Stage(c.inferred, c.answered)
             s5 == Stage(c.answered, c.answered - spool.dropped)
             list == <<s1, s2, s3, s4, s5>>
  <2>1. Report(c) = list
    BY DEF Report
  <2> HIDE DEF s1, s2, s3, s4, s5
  <2>2. ToSet(list) = {s1, s2, s3, s4, s5}
    BY DEF ToSet
  <2>3. \A s \in {s1, s2, s3, s4, s5} : IsStage(s)
    BY <1>7 DEF s1, s2, s3, s4, s5
  <2> HIDE DEF list
  <2> QED
    BY <2>1, <2>2, <2>3
<1> QED
  BY <1>8, Zenon DEF Stop, c

\* Every pass of the loop, boot, stop and power cut keeps the counts consistent,
LEMMA KindsStep ==
  ASSUME LoopInv, ToldInv, CountsInv, [PipelineNext]_pipelineVars
  PROVE  (\A c \in disk \cup {counts} : IsCounts(c) /\ AddUp(c))'
<1>1. \A c \in disk \cup {counts} : IsCounts(c) /\ AddUp(c)
  BY DEF CountsInv
<1>2. SUFFICES \A c \in disk' \cup {counts'} : IsCounts(c) /\ AddUp(c)
  OBVIOUS
<1>3. CASE Boot
  <2>1. IsCounts(NoCounts) /\ AddUp(NoCounts)
    BY DEF IsCounts, AddUp, NoCounts
  <2>2. IsCounts(Restored) /\ AddUp(Restored)
    <3>1. CASE disk = {}
      BY <2>1, <3>1 DEF Restored
    <3>2. CASE disk # {}
      <4>1. (CHOOSE c \in disk : TRUE) \in disk
        BY <3>2
      <4> QED
        BY <1>1, <3>2, <4>1 DEF Restored
    <3> QED
      BY <3>1, <3>2
  <2> QED
    BY <1>1, <1>3, <2>2 DEF Boot
<1>4. CASE Unreadable
  BY <1>1, <1>4 DEF Unreadable
<1>5. ASSUME NEW s \in Samples, Acquire(s)
      PROVE  \A c \in disk' \cup {counts'} : IsCounts(c) /\ AddUp(c)
  <2>1. disk' = disk /\ counts' = CountAcquired(counts)
    BY <1>5 DEF Acquire, Acquired, CountAcquired
  <2>2. 0 \in 0..1 /\ IsCounts(counts) /\ AddUp(counts)
    BY <1>1
  <2>3. IsCounts(counts') /\ AddUp(counts')
    BY <2>1, <2>2, CountsMove
  <2> QED
    BY <1>1, <2>1, <2>3
<1>6. ASSUME NEW s \in Samples, NEW l \in ToSet(bundle.labels), NEW q \in Confidences,
             NEW up \in BOOLEAN, Infer(s, l, q, up)
      PROVE  \A c \in disk' \cup {counts'} : IsCounts(c) /\ AddUp(c)
  <2>1. disk' = disk /\ Passed(counts, spool, s, up)
    BY <1>6, InferPasses
  <2>2. IsCounts(counts) /\ AddUp(counts)
    BY <1>1
  <2>3. \E said \in 0..1 : counts' \in {CountWithheld(counts), CountAnswered(counts, said)}
    BY <2>1 DEF Passed
  <2>4. IsCounts(counts') /\ AddUp(counts')
    BY <2>2, <2>3, CountsMove
  <2> QED
    BY <1>1, <2>1, <2>4
<1>7. ASSUME NEW up \in BOOLEAN, Stop(up)
      PROVE  \A c \in disk' \cup {counts'} : IsCounts(c) /\ AddUp(c)
  <2>1. disk' = {counts} /\ counts' = [counts EXCEPT !.unreadable = index.unreadable]
    BY <1>7 DEF Stop
  <2>2. counts' = [acquired |-> counts.acquired, inferred |-> counts.inferred,
                   answered |-> counts.answered, withheld |-> counts.withheld,
                   alerts |-> counts.alerts, unreadable |-> index.unreadable]
    BY <1>1, <2>1 DEF IsCounts
  <2>3. IsCounts(counts') /\ AddUp(counts')
    BY <1>1, <2>2 DEF IsCounts, AddUp
  <2> QED
    BY <1>1, <2>1, <2>3
<1>8. CASE PowerCut
  BY <1>1, <1>8 DEF PowerCut
<1>9. CASE UNCHANGED pipelineVars
  BY <1>1, <1>9 DEF pipelineVars
<1> QED
  BY <1>3, <1>4, <1>5, <1>6, <1>7, <1>8, <1>9 DEF PipelineNext, Confidences

\* in sum with what the disk gave back,
LEMMA SumsStep ==
  ASSUME LoopInv, ToldInv, CountsInv, [PipelineNext]_pipelineVars
  PROVE  Sums'
<1>1. /\ \A c \in disk \cup {counts} : IsCounts(c) /\ AddUp(c)
      /\ Sums
  BY DEF CountsInv
<1>2. /\ index = [next |-> index.next, unreadable |-> index.unreadable] /\ index.next \in Nat
      /\ offered \in Signals
  BY DEF LoopInv, IsIndex
<1>3. /\ Len(offered) \in Nat
      /\ {counts.acquired, counts.answered, counts.alerts} \subseteq Nat
  BY <1>1, <1>2 DEF Signals, IsCounts
<1>4. {Restored.acquired, Restored.answered, Restored.alerts} \subseteq Nat
  <2>1. CASE disk = {}
    BY <2>1 DEF Restored, NoCounts
  <2>2. CASE disk # {}
    <3>1. (CHOOSE c \in disk : TRUE) \in disk
      BY <2>2
    <3>2. IsCounts(Restored)
      BY <1>1, <2>2, <3>1 DEF Restored
    <3> QED
      BY <3>2 DEF IsCounts
  <2> QED
    BY <2>1, <2>2
<1>5. told \in Seq(Alerted)
  BY Zenon DEF ToldInv, ToldOf, ToldBy
<1>6. Len(told) \in Nat
  BY <1>5
<1>7. disk' = disk => Restored' = Restored
  BY DEF Restored
<1>8. CASE Boot
  <2>1. /\ phase' = "running" /\ counts' = Restored /\ disk' = disk
        /\ index' = [next |-> 0, unreadable |-> 0] /\ offered' = <<>> /\ told' = <<>>
    BY <1>8 DEF Boot
  <2>2. Restored' = Restored
    BY <1>7, <2>1
  <2> HIDE DEF Restored
  <2>3. index'.next = 0 /\ Len(offered') = 0 /\ Len(told') = 0
    BY <2>1
  <2>4. /\ counts'.acquired = Restored'.acquired + 0
        /\ counts'.answered = Restored'.answered + 0
        /\ counts'.alerts = Restored'.alerts + 0
    BY <1>4, <2>1, <2>2
  <2> QED
    BY <2>3, <2>4 DEF Sums
<1>9. ASSUME phase' = phase, counts' = counts, disk' = disk, index'.next = index.next,
             offered' = offered, told' = told
      PROVE  Sums'
  BY <1>1, <1>7, <1>9 DEF Sums
<1>10. CASE Unreadable
  <2>1. /\ index' = [index EXCEPT !.unreadable = @ + 1]
        /\ UNCHANGED <<phase, disk, counts, offered, told>>
    BY <1>10 DEF Unreadable
  <2>2. index'.next = index.next
    BY <1>2, <2>1
  <2> QED
    BY <1>9, <2>1, <2>2
<1>11. ASSUME phase = "running", disk' = disk, index'.next = index.next + 1,
              NEW m \in Nat, NEW n \in Nat, NEW i \in Int,
              CountsAs(counts', counts.acquired + 1, i, counts.answered + m, counts.alerts + n),
              Len(offered') = Len(offered) + m, Len(told') = Len(told) + n
       PROVE  Sums'
  <2> DEFINE ra == Restored.acquired rn == Restored.answered rl == Restored.alerts
             a == counts.acquired b == counts.answered c == counts.alerts
             x == index.next o == Len(offered) t == Len(told)
  <2>1. a = ra + x /\ b = rn + o /\ c = rl + t
    BY <1>1, <1>11, Zenon DEF Sums
  <2>2. {ra, rn, rl, a, b, c, x, o, t} \subseteq Nat
    BY <1>2, <1>3, <1>4, <1>6
  <2>3. /\ counts'.acquired = a + 1 /\ counts'.answered = b + m /\ counts'.alerts = c + n
        /\ index'.next = x + 1 /\ Len(offered') = o + m /\ Len(told') = t + n
    BY <1>11, Zenon DEF CountsAs
  <2>4. Restored'.acquired = ra /\ Restored'.answered = rn /\ Restored'.alerts = rl
    BY <1>7, <1>11
  <2> HIDE DEF ra, rn, rl, a, b, c, x, o, t
  <2>5. a + 1 = ra + (x + 1) /\ b + m = rn + (o + m) /\ c + n = rl + (t + n)
    BY <2>1, <2>2
  <2> QED
    BY <2>3, <2>4, <2>5, Zenon DEF Sums
<1>12. ASSUME index' = [index EXCEPT !.next = @ + 1] PROVE index'.next = index.next + 1
  BY <1>2, <1>12
<1>13. IsCounts(counts) /\ AddUp(counts) /\ 0 \in 0..1 /\ 1 \in Nat /\ 0 \in Nat
  BY <1>1
<1>14. counts.inferred \in Int /\ counts.inferred + 1 \in Int
       /\ counts.answered + 0 = counts.answered /\ counts.alerts + 0 = counts.alerts
  BY <1>13 DEF IsCounts
<1>15. ASSUME NEW s \in Samples, Acquire(s) PROVE Sums'
  <2>1. /\ phase = "running" /\ disk' = disk /\ counts' = CountAcquired(counts)
        /\ index' = [index EXCEPT !.next = @ + 1] /\ offered' = offered /\ told' = told
    BY <1>15 DEF Acquire, Acquired, CountAcquired
  <2>2. CountsAs(counts', counts.acquired + 1, counts.inferred, counts.answered + 0, counts.alerts + 0)
    <3>1. CountsAs(CountAcquired(counts), counts.acquired + 1, counts.inferred, counts.answered,
                   counts.alerts)
      BY <1>13, CountsMove
    <3> QED
      BY <1>14, <2>1, <3>1, Zenon
  <2>3. Len(offered') = Len(offered) + 0 /\ Len(told') = Len(told) + 0
    BY <1>3, <1>6, <2>1
  <2>4. index'.next = index.next + 1
    BY <1>12, <2>1
  <2> QED
    BY <1>11, <1>13, <1>14, <2>1, <2>2, <2>3, <2>4
<1>16. ASSUME NEW s \in Samples, NEW l \in ToSet(bundle.labels), NEW q \in Confidences,
              NEW up \in BOOLEAN, Infer(s, l, q, up)
       PROVE  Sums'
  <2>1. /\ phase = "running" /\ disk' = disk /\ index' = [index EXCEPT !.next = @ + 1]
        /\ Passed(counts, spool, s, up)
    BY <1>16, InferPasses
  <2>2. index'.next = index.next + 1
    BY <1>12, <2>1
  <2>3. CASE counts' = CountWithheld(counts) /\ offered' = offered /\ told' = told
    <3>1. CountsAs(CountWithheld(counts), counts.acquired + 1, counts.inferred + 1, counts.answered,
                   counts.alerts)
      BY <1>13, CountsMove
    <3>2. CountsAs(counts', counts.acquired + 1, counts.inferred + 1, counts.answered + 0, counts.alerts + 0)
      BY <1>14, <2>3, <3>1, Zenon
    <3>3. Len(offered') = Len(offered) + 0 /\ Len(told') = Len(told) + 0
      BY <1>3, <1>6, <2>3
    <3> QED
      BY <1>11, <1>13, <1>14, <2>1, <2>2, <3>2, <3>3
  <2>4. ASSUME NEW said \in 0..1, counts' = CountAnswered(counts, said),
               Len(offered') = Len(offered) + 1, Len(told') = Len(told) + said
        PROVE  Sums'
    <3>1. CountsAs(CountAnswered(counts, said), counts.acquired + 1, counts.inferred + 1,
                   counts.answered + 1, counts.alerts + said)
      BY <1>13, CountsMove
    <3>2. CountsAs(counts', counts.acquired + 1, counts.inferred + 1, counts.answered + 1,
                   counts.alerts + said)
      BY <2>4, <3>1, Zenon
    <3>3. said \in Nat
      OBVIOUS
    <3> QED
      BY <1>11, <1>13, <1>14, <2>1, <2>2, <2>4, <3>2, <3>3
  <2> QED
    BY <2>1, <2>3, <2>4 DEF Passed
<1>17. ASSUME phase' # "running" PROVE Sums'
  BY <1>17 DEF Sums
<1>18. ASSUME NEW up \in BOOLEAN, Stop(up) PROVE Sums'
  BY <1>17, <1>18 DEF Stop
<1>19. CASE PowerCut
  BY <1>17, <1>19 DEF PowerCut
<1>20. CASE UNCHANGED pipelineVars
  BY <1>9, <1>20 DEF pipelineVars
<1> QED
  BY <1>8, <1>10, <1>15, <1>16, <1>18, <1>19, <1>20 DEF PipelineNext, Confidences

\* and the first boot on its own.
LEMMA FirstStep ==
  ASSUME LoopInv, ToldInv, CountsInv, [PipelineNext]_pipelineVars
  PROVE  FirstBoot'
<1>1. /\ past.boots = 0 => phase = "off" /\ disk = {} /\ spool.pending = 0
      /\ past.boots = 1 /\ phase = "running" =>
           counts.inferred <= builder.attempted /\ spool.pending + spool.dropped <= counts.answered
      /\ phase = "raised" => past.boots > 1
      /\ IsCounts(counts) /\ AddUp(counts)
  BY DEF CountsInv, FirstBoot
<1>2. /\ past = [samples |-> past.samples, boots |-> past.boots] /\ past.boots \in Nat
      /\ IsBuilder(builder) /\ IsSpool(spool)
      /\ builder.attempted \in Nat /\ spool.pending \in Nat /\ spool.dropped \in Nat
      /\ counts.inferred \in Nat /\ counts.answered \in Nat
  BY <1>1 DEF LoopInv, IsBuilder, IsSpool, IsCounts
<1>3. CASE Boot
  <2>1. /\ phase' = "running" /\ counts' = Restored /\ builder' = NewBuilder
        /\ spool' = [spool EXCEPT !.dropped = 0] /\ past' = [past EXCEPT !.boots = @ + 1]
    BY <1>3 DEF Boot
  <2>2. past'.boots = past.boots + 1
    BY <1>2, <2>1
  <2>3. ASSUME past'.boots = 1
        PROVE  counts'.inferred <= builder'.attempted /\ spool'.pending + spool'.dropped <= counts'.answered
    <3>1. disk = {} /\ spool.pending = 0
      BY <1>1, <1>2, <2>2, <2>3
    <3>2. counts'.inferred = 0 /\ counts'.answered = 0 /\ builder'.attempted = 0
      BY <2>1, <3>1 DEF Restored, NoCounts, NewBuilder
    <3>3. spool'.pending = 0 /\ spool'.dropped = 0
      BY <1>2, <2>1, <3>1 DEF IsSpool
    <3> QED
      BY <3>2, <3>3
  <2> QED
    BY <1>2, <2>1, <2>2, <2>3 DEF FirstBoot
<1>4. ASSUME phase = "running", phase' = phase, past'.boots = past.boots,
             past.boots = 1 => /\ counts'.inferred <= builder'.attempted
                               /\ spool'.pending + spool'.dropped <= counts'.answered
      PROVE  FirstBoot'
  BY <1>1, <1>4 DEF FirstBoot
<1>5. ASSUME past' = [past EXCEPT !.samples = @ + 1] PROVE past'.boots = past.boots
  BY <1>2, <1>5
<1>6. CASE Unreadable
  <2>1. /\ phase = "running" /\ UNCHANGED <<phase, counts, builder, spool>>
        /\ past' = [past EXCEPT !.samples = @ + 1]
    BY <1>6 DEF Unreadable
  <2> QED
    BY <1>1, <1>4, <1>5, <2>1
<1>7. ASSUME NEW s \in Samples, Acquire(s) PROVE FirstBoot'
  <2>1. /\ phase = "running" /\ phase' = phase /\ spool' = spool
        /\ counts' = CountAcquired(counts) /\ builder' = WindowOffered(builder, s).builder
        /\ past' = [past EXCEPT !.samples = @ + 1]
    BY <1>7 DEF Acquire, Acquired, CountAcquired
  <2>2. IsBuilder(builder') /\ builder'.attempted >= builder.attempted + (IF WindowOffered(builder, s).gave THEN 1 ELSE 0)
    BY <1>2, <2>1, WindowTries
  <2>3. builder'.attempted \in Nat /\ builder'.attempted >= builder.attempted
    BY <1>2, <2>2 DEF IsBuilder
  <2>4. counts'.inferred = counts.inferred /\ counts'.answered = counts.answered
    <3>1. 0 \in 0..1
      OBVIOUS
    <3>2. CountsAs(CountAcquired(counts), counts.acquired + 1, counts.inferred, counts.answered,
                   counts.alerts)
      BY <1>1, <3>1, CountsMove
    <3> QED
      BY <2>1, <3>2, Zenon DEF CountsAs
  <2> QED
    BY <1>1, <1>2, <1>4, <1>5, <2>1, <2>3, <2>4
<1>8. ASSUME NEW s \in Samples, NEW l \in ToSet(bundle.labels), NEW q \in Confidences,
             NEW up \in BOOLEAN, Infer(s, l, q, up)
      PROVE  FirstBoot'
  <2>1. /\ phase = "running" /\ phase' = phase /\ past' = [past EXCEPT !.samples = @ + 1]
        /\ builder' = WindowOffered(builder, s).builder /\ WindowOffered(builder, s).gave
        /\ Passed(counts, spool, s, up)
    BY <1>8, InferPasses
  <2>2. IsBuilder(builder') /\ builder'.attempted >= builder.attempted + (IF WindowOffered(builder, s).gave THEN 1 ELSE 0)
    BY <1>2, <2>1, WindowTries
  <2>3. builder'.attempted \in Nat /\ builder'.attempted >= builder.attempted + 1
    BY <2>1, <2>2 DEF IsBuilder
  <2>4. past.boots = 1 => counts.inferred <= builder.attempted /\ spool.pending + spool.dropped <= counts.answered
    BY <1>1, <2>1
  <2>5. /\ IsSpool(Appended(spool))
        /\ Appended(spool).pending + Appended(spool).dropped = spool.pending + spool.dropped + 1
        /\ IsSpool(Flushed(spool, up)) /\ Flushed(spool, up).dropped = spool.dropped
        /\ Flushed(spool, up).pending <= spool.pending
    BY <1>2, SpoolGrows
  <2>6. /\ IsSpool(Flushed(Appended(spool), up))
        /\ Flushed(Appended(spool), up).dropped = Appended(spool).dropped
        /\ Flushed(Appended(spool), up).pending <= Appended(spool).pending
    BY <2>5, SpoolGrows
  <2>7. \A x \in {spool, Flushed(spool, up), Appended(spool), Flushed(Appended(spool), up)} :
          x.pending \in Nat /\ x.dropped \in Nat
    BY <1>2, <2>5, <2>6 DEF IsSpool
  <2>8. CASE counts' = CountWithheld(counts) /\ spool' \in {spool, Flushed(spool, up)}
    <3>1. counts'.inferred = counts.inferred + 1 /\ counts'.answered = counts.answered
      <4>1. 0 \in 0..1
        OBVIOUS
      <4>2. CountsAs(CountWithheld(counts), counts.acquired + 1, counts.inferred + 1, counts.answered,
                     counts.alerts)
        BY <1>1, <4>1, CountsMove
      <4> QED
        BY <2>8, <4>2, Zenon DEF CountsAs
    <3>2. /\ spool'.pending \in Nat /\ spool'.dropped = spool.dropped
          /\ spool'.pending <= spool.pending
      BY <1>2, <2>5, <2>7, <2>8
    <3>3. past.boots = 1 => /\ counts'.inferred <= builder'.attempted
                            /\ spool'.pending + spool'.dropped <= counts'.answered
      BY <1>2, <2>3, <2>4, <3>1, <3>2
    <3> QED
      BY <1>4, <1>5, <2>1, <3>3
  <2>9. ASSUME NEW said \in 0..1, counts' = CountAnswered(counts, said),
               spool' \in {Appended(spool), Flushed(Appended(spool), up)}
        PROVE  FirstBoot'
    <3>1. counts'.inferred = counts.inferred + 1 /\ counts'.answered = counts.answered + 1
      <4>1. CountsAs(CountAnswered(counts, said), counts.acquired + 1, counts.inferred + 1,
                     counts.answered + 1, counts.alerts + said)
        BY <1>1, CountsMove
      <4> QED
        BY <2>9, <4>1, Zenon DEF CountsAs
    <3>2. /\ spool'.pending \in Nat /\ spool'.dropped \in Nat
          /\ spool'.pending + spool'.dropped <= spool.pending + spool.dropped + 1
      <4> DEFINE t == Appended(spool) u == Flushed(t, up)
                 tp == t.pending td == t.dropped sp == spool.pending sd == spool.dropped
                 up1 == u.pending ud == u.dropped
      <4>1. /\ tp + td = sp + sd + 1 /\ ud = td /\ up1 <= tp
            /\ tp \in Nat /\ td \in Nat /\ sp \in Nat /\ sd \in Nat /\ up1 \in Nat /\ ud \in Nat
        BY <1>2, <2>5, <2>6, <2>7
      <4>2. \/ spool'.pending = tp /\ spool'.dropped = td
            \/ spool'.pending = up1 /\ spool'.dropped = ud
        BY <2>9
      <4> HIDE DEF tp, td, sp, sd, up1, ud
      <4>3. tp + td <= sp + sd + 1 /\ up1 + ud <= sp + sd + 1
        BY <4>1
      <4>4. /\ spool'.pending \in Nat /\ spool'.dropped \in Nat
            /\ spool'.pending + spool'.dropped <= sp + sd + 1
        BY <4>1, <4>2, <4>3
      <4> QED
        BY <4>4 DEF sp, sd
    <3>3. past.boots = 1 => /\ counts'.inferred <= builder'.attempted
                            /\ spool'.pending + spool'.dropped <= counts'.answered
      BY <1>2, <2>3, <2>4, <3>1, <3>2
    <3> QED
      BY <1>4, <1>5, <2>1, <3>3
  <2> QED
    BY <2>1, <2>8, <2>9 DEF Passed
<1>9. ASSUME NEW up \in BOOLEAN, Stop(up) PROVE FirstBoot'
  <2>1. phase = "running" /\ phase' \in {"reported", "raised"} /\ past' = past
    BY <1>9 DEF Stop
  <2>2. past.boots # 0
    BY <1>1, <2>1
  <2>3. past.boots = 1 => phase' = "reported"
    BY <1>9, <2>1, FirstReports
  <2> QED
    BY <1>2, <2>1, <2>2, <2>3 DEF FirstBoot
<1>10. CASE PowerCut
  <2>1. phase = "running" /\ phase' = "off" /\ past' = past
    BY <1>10 DEF PowerCut
  <2>2. past.boots # 0
    BY <1>1, <2>1
  <2> QED
    BY <1>2, <2>1, <2>2 DEF FirstBoot
<1>11. CASE UNCHANGED pipelineVars
  BY <1>1, <1>11 DEF pipelineVars, FirstBoot
<1> QED
  BY <1>3, <1>6, <1>7, <1>8, <1>9, <1>10, <1>11 DEF PipelineNext, Confidences

------------------------------------------------------------------------------
(* The theorems.                                                             *)

\* The inductive invariant of the device's loop: the kinds of its state, what its
\* gate announced, what the gate agrees with, and what is counted.
THEOREM PipelineInvariant == PipelineSpec => [](LoopInv /\ ToldInv /\ GateInv /\ CountsInv)
<1>1. PipelineInit => LoopInv /\ ToldInv /\ GateInv /\ CountsInv
  BY LoopStarts, ToldStarts, GateStarts, CountsStart
<1>2. LoopInv /\ ToldInv /\ GateInv /\ CountsInv /\ [PipelineNext]_pipelineVars
        => (LoopInv /\ ToldInv /\ GateInv /\ CountsInv)'
  <2> SUFFICES ASSUME LoopInv, ToldInv, GateInv, CountsInv, [PipelineNext]_pipelineVars
               PROVE  LoopInv' /\ ToldInv' /\ GateInv' /\ CountsInv'
    OBVIOUS
  <2>1. CountsInv'
    BY KindsStep, SumsStep, FirstStep DEF CountsInv
  <2> QED
    BY LoopStep, ToldStep, GateStep, <2>1
<1> QED
  BY <1>1, <1>2, PTL DEF PipelineSpec

\* The counts on the disk and in memory are the sums of their parts, those of a
\* boot are what the disk gave back and what this boot acquired, put on a record
\* and announced, one by one, and the first boot always ends with its report
\* (DeviceAgent.run, _restore, _persist, _report).
THEOREM DeviceCountsAddUp == PipelineSpec => []CountsAddUp
<1>1. CountsInv => CountsAddUp
  BY DEF CountsInv, Sums, FirstBoot, AddUp, CountsAddUp
<1> QED
  BY <1>1, PipelineInvariant, PTL

\* Give the stream the judgements of a batch, in the order of time, and the
\* numbers are the batch's; what it told so far are the batch's first alerts, each
\* of them as it is, while it runs; and when it has closed all but the last
\* are, and the last in its time and number (StreamingAlertGate.offer and close,
\* AlertGate.apply).
THEOREM StreamMatchesBatch == PipelineSpec => []GateMatchesBatch
<1>1. LoopInv /\ GateInv => GateMatchesBatch
  <2> SUFFICES ASSUME LoopInv, GateInv PROVE GateMatchesBatch
    OBVIOUS
  <2>1. Tells(phase, bundle.rule, offered, gate)
    BY Zenon DEF GateInv, GateOf
  <2>2. Len(offered) > 1 => LedgerOf(gate).observed = Apply(bundle.rule, offered).observed
    <3>1. offered \in Seq(SignalOf(ToSet(bundle.labels), Confidences))
      BY DEF LoopInv, Signals, Judgements
    <3>2. Ordered(offered, index.next) /\ Observes(offered, gate)
      BY DEF GateInv
    <3> QED
      BY <3>1, <3>2, ObservedSays
  <2> QED
    BY <2>1, <2>2, Zenon DEF Tells, GateMatchesBatch
<1> QED
  BY <1>1, PipelineInvariant, PTL

\* Every judgement that was confident, confirmed and not cooling is announced on
\* a record of its own or held back in the ledger of its gate, never both, and
\* nobody is called twice the budget in an hour
\* (StreamingAlertGate._through_budget and close, DeviceAgent.run).
THEOREM HeldBackStaysInTheLedger == PipelineSpec => []HeldBackIsInTheLedger
<1>1. LoopInv /\ ToldInv /\ GateInv => HeldBackIsInTheLedger
  <2> SUFFICES ASSUME LoopInv, ToldInv, GateInv PROVE HeldBackIsInTheLedger
    OBVIOUS
  <2> DEFINE confirmed == gate.raw - gate.withheld - gate.dwelt - gate.cooled
             budget == bundle.rule.budget
             T == Alerted
  <2>1. NoneLost(budget, gate)
    BY Zenon DEF GateInv, GateOf
  <2>2. ToldBy(T, bundle.rule, told, gate.start, gate.used, gate.overflow, gate.merged, confirmed, index.next)
    BY Zenon DEF ToldInv, ToldOf
  <2>3. /\ told \in Seq(T) /\ Len(told) + gate.merged + gate.overflow = confirmed
        /\ gate.overflow \in Nat /\ gate.merged \in Nat
        /\ told # <<>> => \E s \in Int : Paced(0, budget, told, s, gate.used)
    BY <2>2, Zenon DEF ToldBy
  <2>4. ASSUME NEW a \in ToSet(told) PROVE Cardinality(WithinHour(told, a.at)) <= 2 * budget - 1
    <3>1. PICK i \in 1..Len(told) : told[i] = a
      BY <2>3, <2>4 DEF ToSet
    <3>2. told # <<>> /\ a \in T
      BY <2>3, <3>1
    <3>3. \A t \in Int : Cardinality(WithinHour(told, t)) <= 2 * budget + 2 * 0 - 1
      BY <2>3, <3>2, Zenon DEF Paced
    <3>4. a.at \in Int
      BY <3>2 DEF Alerted, AlertOf
    <3>5. Cardinality(WithinHour(told, a.at)) <= 2 * budget + 2 * 0 - 1
      BY <3>3, <3>4
    <3>6. budget \in Nat
      BY BudgetIsPositive
    <3> HIDE DEF budget
    <3>7. 2 * budget + 2 * 0 - 1 = 2 * budget - 1
      BY <3>6
    <3> QED
      BY <3>5, <3>7
  <2>5. gate.overflow + Merged(gate.emitted) = confirmed
    BY <2>1, Zenon DEF NoneLost
  <2> HIDE DEF confirmed, budget
  <2> QED
    BY <2>3, <2>4, <2>5, Zenon DEF HeldBackIsInTheLedger, confirmed, budget
<1> QED
  BY <1>1, PipelineInvariant, PTL
=============================================================================
