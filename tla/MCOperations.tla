---------------------------- MODULE MCOperations ----------------------------
(***************************************************************************)
(* A small instance of Operations: two windows, one calm record that falls *)
(* into the first, and two artifacts, one of which was not selected.       *)
(***************************************************************************)
EXTENDS Operations

CONSTANTS d1, d2, w1, blank

Mix == [l \in {"NORMAL"} |-> 1000]

Good == [p95 |-> 1000, mix |-> Mix, selected |-> TRUE, normalized |-> TRUE, inputs |-> {"vibration"}]
Raw  == [p95 |-> 1000, mix |-> Mix, selected |-> FALSE, normalized |-> FALSE, inputs |-> {}]

\* The first two versions are two artifacts, the second of which was not
\* selected; the versions after them are rollbacks.
MCOffered(n) == CASE n = 0 -> {Good} [] n = 1 -> {Raw} [] OTHER -> {}

Record(at, latency, label) ==
  [at |-> at, device |-> "v1", version |-> 1, label |-> label, confidence |-> 900, latency |-> latency,
   digest |-> {at}, truth |-> {}]

MCBatches == {<<Record(1, 10, "NORMAL")>>}

Window(label, from, to) == [label |-> label, from |-> from, to |-> to, samples |-> 0, device |-> {}]

MCWindows == {Window("early", 0, 2), Window("late", 3, 5)}

MCDrifts == {{}}

MCPolicies ==
  [latency |-> [budget |-> 5000, maxRegression |-> 3000, maxJitter |-> 3000, maxTimeouts |-> 1],
   mix |-> [maxShift |-> 600, critical |-> {}, surge |-> 3000, minConfidence |-> 600, maxDrop |-> 150],
   drift |-> [maxPsi |-> 200, watchPsi |-> 100, maxOutside |-> 10, maxFields |-> 2],
   log |-> [minDigests |-> 900, minLabelled |-> 0],
   incident |-> [onCritical |-> TRUE, warnings |-> 4], minSamples |-> 1]

NoTimeout == {}

\* The second deployment is asked for with the first one's watch id, or with
\* a blank one.
MCWatchIdsOf(id) == IF id = d1 THEN {w1} ELSE {w1, blank}

Threads == Permutations(Requests)

TwoIds == {d1, d2}

---------------------------------------------------------------------------
(* The measurers and policies over bounded inputs. *)

SomeRecords ==
  {[i \in DOMAIN v |-> [Record(i, v[i], l[i]) EXCEPT !.truth = IF i = 1 THEN {"FAULT"} ELSE {}]]
   : v \in BoundedSeq({0, 10, 90}, 3), l \in [1..3 -> {"NORMAL", "FAULT"}]}

\* Percentiles come out in order, whatever the time-out leaves over.
ASSUME LatencyIsProfile ==
  \A r \in SomeRecords : \A timeout \in {{}, {5}, {50}} : IsLatency(MeasureLatency(r, timeout))

\* A log made of records misses nothing it must have, and its mix counts all of it.
ASSUME MeasuresAgree ==
  \A r \in SomeRecords :
    /\ MixTotal(MeasureMix(r)) = Len(r)
    /\ \A f \in LogFindings(MCPolicies.log, Summarize(r)) : f.code \in {"LOG_EMPTY", "LOG_MIXED_VERSIONS"}

\* A mix has not shifted from its own shares, but for their rounding.
ASSUME RebaselinedIsCalm ==
  \A r \in SomeRecords \ {<<>>} : ~Above(ShiftFrom(MeasureMix(r), Shares(MeasureMix(r))), 1)

Psi(v) == [window |-> [label |-> v], drift |-> {[f \in {"x"} |-> [psi |-> v[2], outside |-> 0]]},
           latency |-> {}, mix |-> {}, baseline |-> Mix]

\* The loop of onset_of: a counter that starts again below the threshold.
RunOf(reports) == FoldLeft(LAMBDA run, r : IF MaxPsi(CHOOSE d \in r.drift : TRUE) > 200 THEN run + 1 ELSE 0, 0, reports)

ASSUME OnsetIsFirstLongRun ==
  \A v \in BoundedSeq({100, 300}, 4) :
    LET reports == [i \in DOMAIN v |-> Psi(<<i, v[i]>>)]
        long    == {n \in DOMAIN v : RunOf(SubSeq(reports, 1, n)) >= 2}
    IN OnsetOf(reports, "INPUT_PSI", 200, 2).sustained = IF long = {} THEN {} ELSE {reports[Min(long) - 1].window.label}

MCRetraining == [psi |-> 200, sustained |-> 2, shift |-> 150, confidence |-> 600, accuracy |-> {800}, minNew |-> 2, minPerClass |-> 1]

\* Retraining is started with new labels only, and a spike alone starts none.
ASSUME RetrainingNeedsLabels ==
  \A v \in BoundedSeq({100, 300}, 3) \ {<<>>}, new \in 0..3, accuracy \in {{}, {700}} :
    LET d == DecideRetraining(MCRetraining, [i \in DOMAIN v |-> Psi(<<i, v[i]>>)],
               [total |-> 3, labelled |-> new, new |-> new, perClass |-> [l \in {"FAULT"} |-> new]], accuracy)
    IN /\ "NEW_LABELS_AVAILABLE" \in d.reasons => new >= 2
       /\ d.urgency = "WATCH" => ~d.needed

\* A shadow run counts no more right answers than labels.
ASSUME ShadowIsSound ==
  \A r \in SomeRecords \ {<<>>}, a \in [1..2 -> {"NORMAL", "FAULT"}] : IsShadow(ShadowOf(r, a, 20))
=============================================================================
