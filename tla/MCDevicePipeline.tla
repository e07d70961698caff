-------------------------- MODULE MCDevicePipeline --------------------------
(* Two rules: one that lets everything through to the budget, one with dwell   *)
(* and cooldown; an hour is three samples.                                     *)
EXTENDS DevicePipeline

Rule(dwell, cooldown, budget) ==
    [labels |-> <<"fault", "worn">>, dwell |-> dwell, min |-> 60, cooldown |-> cooldown,
     budget |-> budget]
MCBundles ==
    { [labels |-> <<"normal", "fault", "worn">>, rule |-> Rule(1, 0, 1)],
      [labels |-> <<"normal", "fault", "worn">>, rule |-> Rule(2, 2, 1)],
      [labels |-> <<"normal">>, rule |-> Rule(1, 0, 1)] }

(* Two labels that call, each with a confidence of its own, one that does not,  *)
(* and an answer that is not confident.                                         *)
Says(label, confidence) == [label |-> label, confidence |-> confidence]
MCAnswers == {Says("normal", 90), Says("fault", 90), Says("worn", 80), Says("fault", 50)}

Fault(t) == Signal(t, "fault", 90)
(* A batch may come in any order, the stream may not.                          *)
ASSUME ApplySorts ==
    Apply(Rule(1, 0, 1), <<Fault(4), Fault(0), Fault(1)>>)
      = Apply(Rule(1, 0, 1), <<Fault(0), Fault(1), Fault(4)>>)
(* Merging loses nothing: the alerts stand for as many judgements as came.     *)
ASSUME BudgetMerges ==
    \A n \in 1..6, budget \in 1..2 :
      LET l == Apply(Rule(1, 0, budget), [i \in 1..n |-> Fault(i)]) IN
      n = FoldLeft(LAMBDA sum, a : sum + a.merged, 0, l.alerts)
ASSUME QuietFatigue ==
    FatigueFindings(Rule(2, 0, 1), Apply(Rule(2, 0, 1), <<Fault(0)>>), 6, 0) = {}
=============================================================================
