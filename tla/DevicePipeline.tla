--------------------------- MODULE DevicePipeline ---------------------------
(* The five stages on the board (edge-agent/device_agent/agent.py): samples    *)
(* come one by one, a full window is judged, a confident judgement goes to the *)
(* alert gate and the spool, and the counts are kept across boots.             *)
(*                                                                             *)
(* The loop is one thread and one pass of it is one action; the power may go   *)
(* between any two.  What the model answers is any label and confidence.  The  *)
(* transfer of the spool is only success or failure here: Uplink has it whole. *)
EXTENDS Alerts

CONSTANTS
  Bundles,       \* what load_bundle may accept: rules and the labels of the model
  Answers,       \* what a model may answer: labels and confidences
  Window, Stride, UplinkEvery, BatchSize, Capacity,
  MaxSamples, MaxBoots     \* bounds of the runs: samples of all boots, boots

ASSUME PipelineAssumption ==
  /\ \A n \in {Window, Stride, UplinkEvery, BatchSize, Capacity} : n \in Nat \ {0}
  /\ MaxSamples \in Nat /\ MaxBoots \in Nat
  /\ \A b \in Bundles : b.rule.budget \in Int

VARIABLES
  phase,     \* off, running, reported or raised
  bundle, disk, counts, builder, index, gate, spool,
  offered,   \* history: what this boot offered to its gate
  told,      \* history: the alerts of this boot that were put on a record
  past       \* bounds: samples and boots so far
pipelineVars == <<phase, bundle, disk, counts, builder, index, gate, spool, offered, told, past>>

NoCounts == [acquired |-> 0, inferred |-> 0, answered |-> 0, withheld |-> 0, alerts |-> 0,
             unreadable |-> 0]
NewBuilder == [buffer |-> <<>>, since |-> 0, attempted |-> 0, crossed |-> 0, notFull |-> 0]

(* A bundle is accepted whole or rejected.                                     *)
IsBundle(b) == Len(b.labels) >= 2 /\ IsRule(b.rule) /\ ToSet(b.rule.labels) \subseteq ToSet(b.labels)

(* WindowBuilder.offer: the builder afterwards, and whether it gave a window.  *)
WindowOffered(b, sample) ==
    LET Slide(s) == IF Len(s) > Window THEN Tail(s) ELSE s
        c == [b EXCEPT !.buffer = Slide(Append(@, sample)), !.since = @ + 1]
        tried == [c EXCEPT !.since = 0, !.attempted = @ + 1]
        Answer(d, gave) == [builder |-> d, gave |-> gave]
    IN IF Len(c.buffer) < Window THEN Answer([c EXCEPT !.notFull = @ + 1], FALSE)
       ELSE IF c.since < Stride THEN Answer(c, FALSE)
       ELSE IF c.buffer[1].segment # Last(c.buffer).segment
         THEN Answer([tried EXCEPT !.crossed = @ + 1], FALSE)
       ELSE IF \E s \in ToSet(c.buffer) : ~s.finite
         THEN Answer([tried EXCEPT !.notFull = @ + 1], FALSE)
       ELSE Answer(tried, TRUE)

(* Spool.append: past the capacity the older half goes.                        *)
Appended(s) ==
    LET n == s.pending + 1 IN
    IF n <= Capacity THEN [s EXCEPT !.pending = n]
    ELSE [pending |-> n - n \div 2, dropped |-> s.dropped + n \div 2]

(* flush: a batch leaves the spool only when it was taken.                     *)
Flushed(s, up) ==
    IF up /\ s.pending > 0
    THEN [s EXCEPT !.pending = IF @ > BatchSize THEN @ - BatchSize ELSE 0] ELSE s

(* _report builds five StageOutcomes, each of which refuses more successes     *)
(* than attempts and negative counts.                                          *)
Stage(attempted, succeeded) == [attempted |-> attempted, succeeded |-> succeeded]
IsStage(s) == s.attempted >= 0 /\ s.succeeded \in 0..s.attempted
Report(c) ==
    << Stage(c.acquired + c.unreadable, c.acquired),
       Stage(builder.attempted, c.inferred),
       Stage(c.inferred, c.inferred),
       Stage(c.inferred, c.answered),
       Stage(c.answered, c.answered - spool.dropped) >>

------------------------------------------------------------------------------
PipelineInit ==
    /\ phase = "off"
    /\ bundle \in {b \in Bundles : IsBundle(b)}
    /\ disk = {} /\ counts = NoCounts /\ builder = NewBuilder
    /\ index = [next |-> 0, unreadable |-> 0]
    /\ gate = NewGate
    /\ spool = [pending |-> 0, dropped |-> 0]
    /\ offered = <<>> /\ told = <<>>
    /\ past = [samples |-> 0, boots |-> 0]

(* The counts of the process before, if it ended in order.                     *)
(* Mutant: one of them is not among those saved.                               *)
RestoredInPart ==
    IF disk = {} THEN NoCounts ELSE [(CHOOSE c \in disk : TRUE) EXCEPT !.withheld = 0]

Restored == IF disk = {} THEN NoCounts ELSE CHOOSE c \in disk : TRUE

(* A new process: the counts come back from the disk, the spool's file stays,  *)
(* everything else starts again, the source and its clock too.                 *)
Boot ==
    /\ phase # "running" /\ past.boots < MaxBoots
    /\ phase' = "running"
    /\ counts' = Restored
    /\ builder' = NewBuilder /\ gate' = NewGate /\ offered' = <<>> /\ told' = <<>>
    /\ index' = [next |-> 0, unreadable |-> 0]
    /\ spool' = [spool EXCEPT !.dropped = 0]
    /\ past' = [past EXCEPT !.boots = @ + 1]
    /\ UNCHANGED <<bundle, disk>>

(* A row without a value is counted by the source; time does not pass for it.  *)
Unreadable ==
    /\ phase = "running" /\ past.samples < MaxSamples
    /\ index' = [index EXCEPT !.unreadable = @ + 1]
    /\ past' = [past EXCEPT !.samples = @ + 1]
    /\ UNCHANGED <<phase, bundle, disk, counts, builder, gate, spool, offered, told>>

Acquired(sample, seen) ==
    /\ phase = "running" /\ past.samples < MaxSamples
    /\ past' = [past EXCEPT !.samples = @ + 1]
    /\ index' = [index EXCEPT !.next = @ + 1]
    /\ builder' = seen.builder
    /\ UNCHANGED <<phase, bundle, disk>>

Acquire(sample) ==
    LET seen == WindowOffered(builder, sample) IN
    /\ ~seen.gave
    /\ Acquired(sample, seen)
    /\ counts' = [counts EXCEPT !.acquired = @ + 1]
    /\ UNCHANGED <<gate, spool, offered, told>>

(* The rest of the loop's body: infer, withhold or offer and record, and flush *)
(* whenever the number of answers is a multiple of uplink_every.               *)
Infer(sample, label, confidence, up) ==
    LET seen == WindowOffered(builder, sample)
        signal == Signal(index.next, label, confidence)
        inferred == [counts EXCEPT !.acquired = @ + 1, !.inferred = @ + 1]
        answer == Offer(bundle.rule, gate, signal)
        due == counts'.answered % UplinkEvery = 0
    IN /\ seen.gave
       /\ Acquired(sample, seen)
       /\ \/ /\ ~Confident(bundle.rule, signal)
             /\ counts' = [inferred EXCEPT !.withheld = @ + 1]
             /\ spool' = IF due THEN Flushed(spool, up) ELSE spool
             /\ UNCHANGED <<gate, offered, told>>
          \/ /\ Confident(bundle.rule, signal)
             /\ gate' = answer.gate
             /\ offered' = Append(offered, signal)
             /\ told' = told \o answer.said
             /\ counts' = [inferred EXCEPT !.answered = @ + 1, !.alerts = @ + Len(answer.said)]
             /\ spool' = IF due THEN Flushed(Appended(spool), up) ELSE Appended(spool)

(* The source ends, max_samples is reached or SIGTERM came: the gate closes,   *)
(* the spool is flushed, the counts are saved, and the report is built.  What  *)
(* the gate closes with goes on no record and into no count.                   *)
Stop(up) ==
    LET c == [counts EXCEPT !.unreadable = index.unreadable] IN
    /\ phase = "running"
    /\ gate' = Closed(bundle.rule, gate)
    /\ spool' = Flushed(spool, up)
    /\ disk' = {counts}
    /\ counts' = c
    /\ phase' = IF \A s \in ToSet(Report(c)) : IsStage(s) THEN "reported" ELSE "raised"
    /\ UNCHANGED <<bundle, builder, index, offered, told, past>>

PowerCut ==
    /\ phase = "running"
    /\ phase' = "off"
    /\ UNCHANGED <<bundle, disk, counts, builder, index, gate, spool, offered, told, past>>

Samples == [segment : {0, 1}, finite : BOOLEAN]

PipelineNext ==
    \/ Boot \/ Unreadable \/ PowerCut
    \/ \E up \in BOOLEAN : Stop(up)
    \/ \E s \in Samples : Acquire(s)
    \/ \E s \in Samples, a \in Answers, up \in BOOLEAN :
         a.label \in ToSet(bundle.labels) /\ Infer(s, a.label, a.confidence, up)

PipelineSpec == PipelineInit /\ [][PipelineNext]_pipelineVars

------------------------------------------------------------------------------
(* "Give it the same signals in the same order and the result is that of       *)
(* AlertGate" (alerting.py:374), of the signals the device offers, which are   *)
(* the confident ones only: the numbers agree, the alerts of a running gate    *)
(* are the batch's first ones in time, label, confidence and number, and the   *)
(* bundle it closes with stands for as many at the same time.  Nothing more is *)
(* so: that bundle has the label and the confidence of the last alert sent     *)
(* (:517), the batch's those of the last one held back (:264), and the time    *)
(* observed agrees from the second signal on (:206, :480).                     *)
When(alerts) == [i \in DOMAIN alerts |-> <<alerts[i].at, alerts[i].merged>>]
GateMatchesBatch ==
    phase = "off" \/
    LET batch == Apply(bundle.rule, offered)
        stream == LedgerOf(gate)
    IN /\ \A n \in {"raw", "withheld", "dwelt", "cooled"} : stream[n] = batch[n]
       /\ Len(offered) > 1 => stream.observed = batch.observed
       /\ phase = "running" => IsPrefix(stream.alerts, batch.alerts)
       /\ phase \in {"reported", "raised"} =>
            /\ When(stream.alerts) = When(batch.alerts) /\ stream.merged = batch.merged
            /\ \A i \in 1 .. Len(stream.alerts) - 1 : stream.alerts[i] = batch.alerts[i]

(* Every judgement that was confident, confirmed and not cooling is announced  *)
(* on a record of its own or held back by the budget, never both, and what is  *)
(* held back is in the gate's ledger, bundled or waiting.  It is nowhere else: *)
(* the bundle of an hour that is over is not returned (alerting.py:498-507),   *)
(* the closing one is put on no record (agent.py:197), and the ledger goes     *)
(* with the process, where alerting.py:485 says the next bundle carries it.    *)
(* A person is called less than twice the budget in any hour.                  *)
Merged(alerts) == FoldLeft(LAMBDA n, alert : n + alert.merged, 0, alerts)
WithinHour(alerts, t) == {i \in DOMAIN alerts : alerts[i].at - t \in 0 .. Hour - 1}
HeldBackIsInTheLedger ==
    LET confirmed == gate.raw - gate.withheld - gate.dwelt - gate.cooled IN
    /\ Len(told) + gate.merged + gate.overflow = confirmed
    /\ gate.overflow + Merged(gate.emitted) = confirmed
    /\ \A a \in ToSet(told) : Cardinality(WithinHour(told, a.at)) <= 2 * bundle.rule.budget - 1

(* The counts are those saved by the last boot that ended in order and this    *)
(* boot's own, one by one; what is on the disk is consistent whenever the      *)
(* power goes; and the first boot always ends with its report.  A boot that is *)
(* cut loses its own counts, and a later one may end without a report (its     *)
(* counts go back further than its windows), where agent.py:15 and :65 say the *)
(* next boot goes on from them.                                                *)
CountsAddUp ==
    /\ \A c \in disk \cup {counts} :
         /\ c.answered + c.withheld = c.inferred
         /\ c.inferred <= c.acquired /\ c.alerts <= c.answered
    /\ phase = "running" =>
         /\ counts.acquired = Restored.acquired + index.next
         /\ counts.answered = Restored.answered + Len(offered)
         /\ counts.alerts = Restored.alerts + Len(told)
    /\ phase = "raised" => past.boots > 1
=============================================================================
