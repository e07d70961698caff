------------------------------- MODULE Alerts -------------------------------
(* The alert discipline of domain/operations/alerting.py: which judgements of  *)
(* a device call a person.  It is written twice there, once for a whole batch  *)
(* of judgements (AlertGate) and once for a device that has no future          *)
(* (StreamingAlertGate); so it is here, and the two are compared by the        *)
(* properties of DevicePipeline.                                               *)
EXTENDS Inspection, Integers, Sequences, FiniteSets, SequencesExt

CONSTANT Hour   \* the budget's period, 3600 seconds in the code
ASSUME AlertsAssumption == Hour \in Nat \ {0}

IsRule(rule) == rule.labels # <<>> /\ rule.dwell >= 1 /\ rule.min \in 0..100
                /\ rule.cooldown >= 0 /\ rule.budget >= 1

Signal(at, label, confidence) == [at |-> at, label |-> label, confidence |-> confidence]
Calls(rule, signal) == signal.label \in ToSet(rule.labels)
Confident(rule, signal) == signal.confidence >= rule.min
Alert(at, of, merged) ==
    [at |-> at, label |-> of.label, confidence |-> of.confidence, merged |-> merged]
Of(signal) == Alert(signal.at, signal, 1)

------------------------------------------------------------------------------
(* The batch: every judgement first, the budget afterwards.                    *)

Cooling(rule, alerts, signal) == alerts # <<>> /\ signal.at - Last(alerts).at < rule.cooldown

(* One judgement after those seen: it calls nobody, is not confident, is not   *)
(* confirmed, comes too soon after the last alert, or is an alert.             *)
Judge(rule, seen, signal) ==
    LET next == [seen EXCEPT !.streak = @ + 1] IN
    IF ~Calls(rule, signal) THEN [seen EXCEPT !.streak = 0]
    ELSE IF ~Confident(rule, signal) THEN [seen EXCEPT !.streak = 0, !.withheld = @ + 1]
    ELSE IF next.streak < rule.dwell THEN [next EXCEPT !.dwelt = @ + 1]
    ELSE IF Cooling(rule, seen.alerts, signal) THEN [next EXCEPT !.cooled = @ + 1]
    ELSE [next EXCEPT !.alerts = Append(@, Of(signal))]

Unseen == [streak |-> 0, withheld |-> 0, dwelt |-> 0, cooled |-> 0, alerts |-> <<>>]
Candidates(rule, signals) ==
    FoldLeft(LAMBDA seen, signal : Judge(rule, seen, signal), Unseen, signals)

Bundled(start, of, overflow) ==
    IF overflow = 0 THEN <<>> ELSE <<Alert(start + Hour, of, overflow)>>

(* One alert after those the budget has spent: an hour that is over is closed  *)
(* with what it held back, and the alert is kept while the hour has room.      *)
Spend(rule, spent, alert) ==
    LET c == IF alert.at - spent.start < Hour THEN spent
             ELSE [kept |-> spent.kept \o Bundled(spent.start, alert, spent.overflow),
                   start |-> alert.at, used |-> 0, overflow |-> 0,
                   merged |-> spent.merged + spent.overflow]
    IN IF c.used < rule.budget
       THEN [c EXCEPT !.kept = Append(@, alert), !.used = @ + 1]
       ELSE [c EXCEPT !.overflow = @ + 1]

Unspent(start) == [kept |-> <<>>, start |-> start, used |-> 0, overflow |-> 0, merged |-> 0]
ApplyBudget(rule, alerts) ==
    LET end == FoldLeft(LAMBDA spent, alert : Spend(rule, spent, alert),
                        Unspent(alerts[1].at), alerts)
    IN IF alerts = <<>> THEN [kept |-> <<>>, merged |-> 0]
       ELSE [kept |-> end.kept \o Bundled(end.start, Last(alerts), end.overflow),
             merged |-> end.merged + end.overflow]

Span(signals) == LET apart == Last(signals).at - signals[1].at IN IF apart > 1 THEN apart ELSE 1

(* In the order of time, and of the batch where two came at one time.          *)
Place(signals, i) ==
    Cardinality({j \in DOMAIN signals : \/ signals[j].at < signals[i].at
                                        \/ signals[j].at = signals[i].at /\ j <= i})
InOrder(signals) ==
    [p \in DOMAIN signals |-> signals[CHOOSE i \in DOMAIN signals : Place(signals, i) = p]]

Apply(rule, signals) ==
    LET ordered == InOrder(signals)
        judged == Candidates(rule, ordered)
        spent == ApplyBudget(rule, judged.alerts)
    IN [raw |-> Cardinality({i \in DOMAIN ordered : Calls(rule, ordered[i])}), alerts |-> spent.kept,
        withheld |-> judged.withheld, dwelt |-> judged.dwelt, cooled |-> judged.cooled,
        merged |-> spent.merged,
        observed |-> IF Len(ordered) > 1 THEN Span(ordered) ELSE 3600]

FatigueFindings(rule, ledger, maxPerHour, maxSuppressed) ==
    LET sent == Len(ledger.alerts) IN
    Found(sent * 3600 > maxPerHour * ledger.observed, "ALERT_FATIGUE", "CRITICAL", "rule")
    \cup Found(rule.dwell = 1 /\ ledger.raw > 0, "ALERT_NO_DWELL", "WARNING", "dwell")
    \cup Found(ledger.merged > 0, "ALERT_BUDGET_EXCEEDED", "WARNING", "budget")
    \cup Found(maxSuppressed > 0 /\ ledger.raw > 0
                 /\ (ledger.raw - sent) * 100 > maxSuppressed * ledger.raw,
               "ALERT_TOO_QUIET", "WARNING", "dwell/cooldown")

------------------------------------------------------------------------------
(* The stream: one judgement at a time, in the order of the device's clock.    *)

NewGate == [streak |-> 0, last |-> {}, start |-> {}, used |-> 0, overflow |-> 0, raw |-> 0,
            withheld |-> 0, dwelt |-> 0, cooled |-> 0, merged |-> 0, emitted |-> <<>>,
            first |-> {}, latest |-> {}]

Backwards(gate, signal) == \E t \in gate.latest : signal.at < t

(* Mutant: what the budget held back is forgotten when its hour is over.       *)
ThroughBudgetForgetting(rule, gate, alert) ==
    LET start == IF gate.start = {} THEN alert.at ELSE CHOOSE t \in gate.start : TRUE
        g == IF alert.at - start < Hour THEN [gate EXCEPT !.start = {start}]
             ELSE [gate EXCEPT !.start = {alert.at}, !.used = 0, !.overflow = 0]
    IN IF g.used < rule.budget
       THEN [gate |-> [g EXCEPT !.used = @ + 1, !.emitted = Append(@, alert)], said |-> <<alert>>]
       ELSE [gate |-> [g EXCEPT !.overflow = @ + 1], said |-> <<>>]

ThroughBudget(rule, gate, alert) ==
    LET start == IF gate.start = {} THEN alert.at ELSE CHOOSE t \in gate.start : TRUE
        over == alert.at - start >= Hour
        g == IF ~over THEN [gate EXCEPT !.start = {start}]
             ELSE [gate EXCEPT !.emitted = @ \o Bundled(start, alert, gate.overflow),
                               !.merged = @ + gate.overflow, !.start = {alert.at},
                               !.used = 0, !.overflow = 0]
    IN IF g.used < rule.budget
       THEN [gate |-> [g EXCEPT !.used = @ + 1, !.emitted = Append(@, alert)], said |-> <<alert>>]
       ELSE [gate |-> [g EXCEPT !.overflow = @ + 1],
             said |-> IF over THEN Bundled(start, alert, gate.overflow) ELSE <<>>]

(* Mutant: a judgement that calls nobody leaves the streak as it is.           *)
OfferKeepingStreak(rule, gate, signal) ==
    LET g == [gate EXCEPT !.first = IF @ = {} THEN {signal.at} ELSE @, !.latest = {signal.at}]
        s == [g EXCEPT !.raw = @ + 1, !.streak = @ + 1]
    IN IF ~Calls(rule, signal) THEN [gate |-> g, said |-> <<>>]
       ELSE IF s.streak < rule.dwell THEN [gate |-> [s EXCEPT !.dwelt = @ + 1], said |-> <<>>]
       ELSE IF \E t \in s.last : signal.at - t < rule.cooldown
         THEN [gate |-> [s EXCEPT !.cooled = @ + 1], said |-> <<>>]
       ELSE ThroughBudget(rule, [s EXCEPT !.last = {signal.at}], Of(signal))

(* offer: the gate afterwards and what the caller is told.                     *)
Offer(rule, gate, signal) ==
    LET g == [gate EXCEPT !.first = IF @ = {} THEN {signal.at} ELSE @, !.latest = {signal.at}]
        r == [g EXCEPT !.raw = @ + 1]
        s == [r EXCEPT !.streak = @ + 1]
        Quiet(h) == [gate |-> h, said |-> <<>>]
    IN IF ~Calls(rule, signal) THEN Quiet([g EXCEPT !.streak = 0])
       ELSE IF ~Confident(rule, signal) THEN Quiet([r EXCEPT !.streak = 0, !.withheld = @ + 1])
       ELSE IF s.streak < rule.dwell THEN Quiet([s EXCEPT !.dwelt = @ + 1])
       ELSE IF \E t \in s.last : signal.at - t < rule.cooldown
         THEN Quiet([s EXCEPT !.cooled = @ + 1])
       ELSE ThroughBudget(rule, [s EXCEPT !.last = {signal.at}], Of(signal))

Closed(rule, gate) ==
    IF gate.overflow = 0 THEN gate
    ELSE LET of == IF gate.emitted # <<>> THEN Last(gate.emitted)
                   ELSE [label |-> rule.labels[1], confidence |-> 100]
             start == CHOOSE t \in gate.start : TRUE
         IN [gate EXCEPT !.emitted = @ \o Bundled(start, of, gate.overflow),
                         !.merged = @ + gate.overflow, !.overflow = 0]

LedgerOf(gate) ==
    LET apart == IF gate.latest = {} THEN 0
                 ELSE (CHOOSE t \in gate.latest : TRUE) - (CHOOSE t \in gate.first : TRUE)
    IN [raw |-> gate.raw, alerts |-> gate.emitted, withheld |-> gate.withheld,
        dwelt |-> gate.dwelt, cooled |-> gate.cooled, merged |-> gate.merged,
        observed |-> IF apart > 1 THEN apart ELSE 1]
=============================================================================
