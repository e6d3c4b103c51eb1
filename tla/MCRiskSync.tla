----------------------------- MODULE MCRiskSync -----------------------------
(* One finding with a CVE the catalog always lists, one without a CVE.     *)
EXTENDS RiskSync, TLC

CONSTANTS c1, f1, f2

MCCvesOf == (f1 :> {c1}) @@ (f2 :> {})
=============================================================================
