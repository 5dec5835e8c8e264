------------------------------- MODULE RiskScore -------------------------------
(***************************************************************************)
(* The deterministic score of scoring.py.  Confidence is an integer of     *)
(* 0..100; for each of these int(confidence * 0.3 + 0.5) in the program's  *)
(* binary floating point is the exact (3 * confidence + 5) \div 10.        *)
(***************************************************************************)
EXTENDS Naturals

Capped(x, cap) == IF x < cap THEN x ELSE cap

RulePoints(level) == Capped(level * 4, 60)
IntelligencePoints(confidence) == (3 * confidence + 5) \div 10
IndicatorPoints(count) == Capped(count * 2, 10)

\* What the analyst is shown as the factors of a score.
FactorSum(level, confidence, count) ==
  RulePoints(level) + IntelligencePoints(confidence) + IndicatorPoints(count)

Score(level, confidence, count) == Capped(FactorSum(level, confidence, count), 100)

Severity(score) ==
  IF score >= 80 THEN "critical" ELSE IF score >= 60 THEN "high"
  ELSE IF score >= 30 THEN "medium" ELSE "low"

\* The severity of the case; TheHive's scale ends at 3.
TheHiveSeverity(severity) ==
  [low |-> 1, medium |-> 2, high |-> 3, critical |-> 3][severity]
==============================================================================
