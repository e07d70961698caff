----------------------------- MODULE Inspection -----------------------------
(***************************************************************************)
(* The shared kernel's grammar of judgement (domain/shared/inspection.py): *)
(* a measurement and a policy give a set of findings, and the verdict is   *)
(* derived from the findings, never stored.  Messages and measured values  *)
(* are left out: nothing reads them back.                                  *)
(*                                                                         *)
(* A ratio is a pair of counts, a threshold is in percent; they are        *)
(* compared by cross multiplication.  A ratio over nothing is 0, as every  *)
(* measurement of the code defines it.                                     *)
(***************************************************************************)
EXTENDS Integers, Sequences, FiniteSets

Severities == {"INFO", "WARNING", "CRITICAL"}

Verdicts == {"PASSED", "PASSED_WITH_WARNINGS", "FAILED"}

Finding(code, severity, subject) ==
  [code |-> code, severity |-> severity, subject |-> subject]

\* What a test adds to the findings: one, or nothing.
Found(condition, code, severity, subject) ==
  IF condition THEN {Finding(code, severity, subject)} ELSE {}

Blocking(findings) == {f \in findings : f.severity = "CRITICAL"}

Warnings(findings) == {f \in findings : f.severity = "WARNING"}

DeriveVerdict(findings) ==
  CASE Blocking(findings) # {} -> "FAILED"
    [] Blocking(findings) = {} /\ Warnings(findings) # {} -> "PASSED_WITH_WARNINGS"
    [] OTHER -> "PASSED"

\* part / whole > percent / 100, and the same with <.
Over(part, whole, percent) == part * 100 > percent * whole

Under(part, whole, percent) ==
  IF whole = 0 THEN percent > 0 ELSE part * 100 < percent * whole

\* A dictionary with one key set.
Put(f, key, value) == [k \in DOMAIN f \union {key} |-> IF k = key THEN value ELSE f[k]]

Distance(a, b) == IF a < b THEN b - a ELSE a - b
=============================================================================
