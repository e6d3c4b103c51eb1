----------------------------- MODULE RiskScore -----------------------------
(***************************************************************************)
(* calculate_risk() (risk/calculator.py) in integer percentages, and what  *)
(* becomes of the score of a finding as the evidence against it grows.     *)
(***************************************************************************)
EXTENDS Integers, Sequences

CONSTANTS
  CvssScores,  \* CVSS scores tried, in percent of 10
  EpssScores   \* EPSS scores tried, in percent

VARIABLE inputs  \* RiskInputs of the finding

unknown == -1

Severities == <<"INFO", "LOW", "MEDIUM", "HIGH", "CRITICAL">>
Criticalities == <<"LOW", "MEDIUM", "HIGH", "CRITICAL">>
Confidences == <<"LOW", "MEDIUM", "HIGH">>

Ranks(names) == 1 .. Len(names)

\* No asset is linked to the finding: rank 0.
TypeOK ==
  inputs \in [severity : Ranks(Severities), confidence : Ranks(Confidences),
              cvss : CvssScores \cup {unknown}, epss : EpssScores \cup {unknown},
              kev : {unknown, 0, 1}, criticality : {0} \cup Ranks(Criticalities)]

Init == TypeOK

SEVERITY_FALLBACK == <<0, 25, 55, 80, 95>>
CRITICALITY_MULTIPLIER == [c \in {0} \cup Ranks(Criticalities) |-> IF c = 0 THEN 100 ELSE <<85, 100, 115, 130>>[c]]
CONFIDENCE_MULTIPLIER == <<60, 85, 100>>

(***************************************************************************)
(* The weighted average of the signals there are: one that nobody has does *)
(* not count, for or against.                                              *)
(***************************************************************************)
\* Deviation: a CVSS score of 0.0 is as good as none.
TruthyTechnical(in) == IF in.cvss > 0 THEN in.cvss ELSE SEVERITY_FALLBACK[in.severity]

Technical(in) == IF in.cvss # unknown THEN in.cvss ELSE SEVERITY_FALLBACK[in.severity]

Available(signal, value) == IF signal # unknown THEN value ELSE 0

total_weight(in) == 40 + Available(in.epss, 35) + Available(in.kev, 25)

weighted(in) == 40 * Technical(in) + Available(in.epss, 35 * in.epss) + Available(in.kev, 2500 * in.kev)

\* round(), to the even neighbour of a half.
Round(n, d) ==
  LET q == n \div d
      twice == 2 * (n % d) IN
  IF twice > d \/ (twice = d /\ q % 2 = 1) THEN q + 1 ELSE q

multiplier(in) == CRITICALITY_MULTIPLIER[in.criticality] * CONFIDENCE_MULTIPLIER[in.confidence]

calculate_risk(in) ==
  LET score == Round(weighted(in) * multiplier(in), total_weight(in) * 10000) IN
  IF score > 100 THEN 100 ELSE score

(***************************************************************************)
(* More evidence.                                                          *)
(***************************************************************************)
Raise(field, values) ==
  \E v \in values : v > inputs[field] /\ inputs' = [inputs EXCEPT ![field] = v]

Next ==
  \/ inputs.cvss # unknown /\ Raise("cvss", CvssScores)
  \/ inputs.epss # unknown /\ Raise("epss", EpssScores)
  \/ inputs.kev = 0 /\ Raise("kev", {1})
  \/ Raise("severity", Ranks(Severities))
  \/ Raise("confidence", Ranks(Confidences))
  \/ inputs.criticality # 0 /\ Raise("criticality", Ranks(Criticalities))

Spec == Init /\ [][Next]_inputs

(***************************************************************************)
(* Properties.                                                             *)
(***************************************************************************)

(* More evidence never lowers a score, whatever else is known or unknown   *)
(* and however the rounding and the cap fall (calculator.py:136-173).      *)
MoreEvidenceNeverLowers == [][calculate_risk(inputs') >= calculate_risk(inputs)]_inputs
=============================================================================
