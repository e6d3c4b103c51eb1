---------------------------- MODULE MCComponents ----------------------------
(***************************************************************************)
(* Small instances of the components.                                      *)
(***************************************************************************)
EXTENDS Components, TLC

CONSTANTS
  f1, f2, f3, f4, f5, t1, t2, a1, a2, p1, cve, j1, j2, j3, j4, j5

\* Two assets of one project with technologies, ports and a CVE.
AssetOfJob == j1 :> a1 @@ j2 :> a1 @@ j3 :> a2 @@ j4 :> a1 @@ j5 :> a1
ReportsOfJob == j1 :> {f1} @@ j2 :> {f2} @@ j3 :> {f3} @@ j4 :> {f4} @@ j5 :> {f5}
PluginsOfJob == j1 :> {} @@ j2 :> {t1} @@ j3 :> {t1} @@ j4 :> {} @@ j5 :> {t2}
ToolOfFinding == f1 :> "nmap" @@ f2 :> "whatweb" @@ f3 :> "whatweb" @@ f4 :> "nuclei" @@ f5 :> "whatweb"
PortOfFinding == [f \in {f1, f2, f3, f4, f5} |-> IF f = f5 THEN NoPort ELSE p1]
MentionsOfFinding == f1 :> {} @@ f2 :> {t1} @@ f3 :> {t1} @@ f4 :> {t1} @@ f5 :> {t2}
CvesOfFinding == f1 :> {} @@ f2 :> {} @@ f3 :> {} @@ f4 :> {cve} @@ f5 :> {}
IdOrder ==
  {<<a1, a2>>, <<f2, f1>>, <<f2, f4>>, <<f4, f1>>, <<f3, f1>>, <<f3, f2>>, <<f3, f4>>,
   <<f1, f5>>, <<f2, f5>>, <<f3, f5>>, <<f4, f5>>}
=============================================================================
