------------------------------ MODULE RiskSync ------------------------------
(***************************************************************************)
(* The materialized risk scores of an asset's findings and the three       *)
(* writers that keep them up to date: the jobs that create findings        *)
(* (jobs/tasks.py, risk/service.py), the intelligence syncs, of which the  *)
(* worker's thread and a POST /api/intelligence/sync may run at once       *)
(* (intel/sync.py), and PATCH /api/assets/{id} of the criticality.  A score *)
(* stands for the inputs it was computed from: calculate_risk() is in      *)
(* RiskScore.                                                              *)
(***************************************************************************)
EXTENDS Naturals, FiniteSets

CONSTANTS
  Cves, Findings,
  CvesOf,        \* the cve_ids of each finding
  Jobs, Syncs, Patches,
  Criticalities,
  MaxScore,      \* bound: CVSS and EPSS values are 1 .. MaxScore, 0 is NULL
  Hints, NvdScores, EpssScores, \* bound: those a tool, NVD and EPSS give, or not
  MaxNews,       \* bound: changes of what the sources publish
  MaxMishaps,    \* bound: crashes
  None

ASSUME CvesAssumption == CvesOf \in [Findings -> SUBSET Cves]
ASSUME CriticalitiesAssumption == "MEDIUM" \in Criticalities
ASSUME ValuesAssumption == Hints \cup NvdScores \cup EpssScores \subseteq 0 .. MaxScore
ASSUME BoundsAssumption == MaxScore \in Nat /\ MaxNews \in Nat /\ MaxMishaps \in Nat

VARIABLES
  feed,        \* what CISA, FIRST and NVD publish
  catalog,     \* cisa_kev_entries
  kevSynced,   \* intel_sync_state("cisa_kev").last_success_at is set
  intel,       \* vulnerability_intel
  writer,      \* the job with an uncommitted write of a vulnerability_intel row
  criticality, \* of the asset
  score,       \* the inputs of each finding's risk score, None without a finding
  job,         \* the jobs
  sync,        \* the sync cycles
  draft,       \* scores a session has computed and not committed
  patch,       \* the PATCH requests
  news, mishaps

sources == <<feed, news>>
tables == <<catalog, kevSynced, intel, criticality, score>>
vars == <<sources, tables, writer, job, sync, draft, patch, mishaps>>

Scores == 0 .. MaxScore
Sources == {"cisa_kev", "epss", "nvd"}
Sessions == Jobs \cup Syncs \cup Patches
RiskInputs == [cvss : Scores, epss : Scores, kev : {"unknown", "yes", "no"}, on : Criticalities]
\* always is what every edition of the catalog lists.
Feeds == {feed_ \in [always : SUBSET Cves, listed : SUBSET Cves,
                     epss : [Cves -> EpssScores], nvd : [Cves -> NvdScores]] :
            feed_.always \subseteq feed_.listed}
IntelRows == [known : BOOLEAN, cvss : Scores, epss : Scores]
\* own: the row of the last CVE looked up, which the session's variable keeps in
\* its identity map.
Page == [listed : SUBSET Cves, values : [Cves -> Scores], of : SUBSET Cves, stored : SUBSET Cves,
         own : [Cves -> IntelRows \cup {None}]]

NoRow == [c \in Cves |-> None]
NoPage == [listed |-> {}, values |-> [c \in Cves |-> 0], of |-> {}, stored |-> {}, own |-> NoRow]
NoDraft == [f \in Findings |-> None]
NoSeed == [c \in Cves |-> 0]
\* What an earlier job has given a finding of which nobody knew more.
Unscored == [cvss |-> 0, epss |-> 0, kev |-> "unknown", on |-> "MEDIUM"]

TypeOK ==
  /\ feed \in Feeds
  /\ catalog \in SUBSET Cves
  /\ kevSynced \in BOOLEAN
  /\ intel \in [Cves -> IntelRows]
  /\ writer \in [Cves -> Jobs \cup {None}]
  /\ criticality \in Criticalities
  /\ score \in [Findings -> RiskInputs \cup {None}]
  /\ job \in [Jobs -> [at : {"queued", "tool", "seed", "commit", "done", "failed"},
                       on : Criticalities, hints : [Cves -> Scores], stored : SUBSET Cves]]
  /\ sync \in [Syncs -> [source : Sources \cup {"none"}, page : Page,
                         at : {"idle", "fetch", "commit", "success", "calc", "store"}]]
  /\ draft \in [Sessions -> [Findings -> RiskInputs \cup {None}]]
  /\ patch \in [Patches -> {"new", "calc", "store", "done"}]
  /\ news \in 0 .. MaxNews
  /\ mishaps \in 0 .. MaxMishaps

Init ==
  /\ feed \in Feeds
  /\ catalog = {} /\ kevSynced = FALSE
  /\ intel = [c \in Cves |-> [known |-> FALSE, cvss |-> 0, epss |-> 0]]
  /\ writer = [c \in Cves |-> None]
  /\ criticality = "MEDIUM"
  /\ job = [j \in Jobs |-> [at |-> "queued", on |-> criticality, hints |-> NoSeed, stored |-> {}]]
  /\ sync = [s \in Syncs |-> [source |-> "none", page |-> NoPage, at |-> "idle"]]
  /\ draft = [d \in Sessions |-> NoDraft]
  /\ patch = [p \in Patches |-> "new"]
  \* Bound: where an earlier job has left findings, the sources have said all they
  \* will, and nothing dies.
  /\ \/ score = NoDraft /\ news = 0 /\ mishaps = 0
     \/ score = [f \in Findings |-> Unscored] /\ news = MaxNews /\ mishaps = MaxMishaps

Publish ==
  /\ news < MaxNews
  /\ news' = news + 1
  /\ \/ \E listed \in SUBSET Cves : feed.always \subseteq listed /\ feed' = [feed EXCEPT !.listed = listed]
     \/ \E values \in [Cves -> EpssScores] : feed' = [feed EXCEPT !.epss = values]
     \/ \E values \in [Cves -> NvdScores] : feed' = [feed EXCEPT !.nvd = values]
  /\ UNCHANGED <<tables, writer, job, sync, draft, patch, mishaps>>

-----------------------------------------------------------------------------
(* build_risk_inputs() and recalculate_finding_risk().                     *)

Worst(S) == CHOOSE x \in S : \A y \in S : y <= x

Kev(f) ==
  IF CvesOf[f] = {} \/ ~kevSynced THEN "unknown"
  ELSE IF CvesOf[f] \cap catalog # {} THEN "yes" ELSE "no"

\* The inputs for f as a session sees them that has the rows in_ and the
\* asset with criticality on.
InputsFrom(f, in_, on) ==
  [cvss |-> Worst({0} \cup {in_[c].cvss : c \in CvesOf[f]}),
   epss |-> Worst({0} \cup {in_[c].epss : c \in CvesOf[f]}),
   kev |-> Kev(f), on |-> on]

Inputs(f) == InputsFrom(f, intel, criticality)

Present == {f \in Findings : score[f] # None}

\* A session that has the rows in_ computes the scores of the findings F; what
\* comes out as it was before is not written.
Recalculated(F, in_) ==
  [f \in Findings |-> LET computed == InputsFrom(f, in_, criticality) IN
     IF f \in F \cap Present /\ computed # score[f] THEN computed ELSE None]

Stored(d) == [f \in Findings |-> IF draft[d][f] # None THEN draft[d][f] ELSE score[f]]

-----------------------------------------------------------------------------
(* execute_job() of a nuclei job, all of whose findings belong to the      *)
(* asset.                                                                  *)

\* The re-check of the authorization loads the asset into the session.
Load(j) ==
  /\ job[j].at = "queued"
  /\ job' = [job EXCEPT ![j].at = "tool", ![j].on = criticality]
  /\ UNCHANGED <<sources, tables, writer, sync, draft, patch, mishaps>>

\* The tool has returned: seed_cvss_from_tool() looks its CVEs up.
ReadIntel(j) ==
  /\ job[j].at = "tool"
  /\ \E hints \in [Cves -> Hints] :
       job' = [job EXCEPT ![j].at = "seed",
                 ![j].hints = [c \in Cves |-> IF intel[c].cvss = 0 THEN hints[c] ELSE 0],
                 ![j].stored = {c \in Cves : intel[c].known}]
  /\ UNCHANGED <<sources, tables, writer, sync, draft, patch, mishaps>>

Seeds(j) == {c \in Cves : job[j].hints[c] # 0}

\* intel with the rows of the job.
Seeded(j) ==
  [c \in Cves |-> IF c \in Seeds(j)
                    THEN [intel[c] EXCEPT !.known = TRUE, !.cvss = job[j].hints[c]]
                    ELSE intel[c]]

\* The flush waits for another's write of a row.
SeedFree(j) == \A c \in Seeds(j) : writer[c] = None
SeedClash(j) == \E c \in Seeds(j) \ job[j].stored : intel[c].known

\* upsert_finding() of all the findings.  The asset is the session's own, of
\* before the tool ran; a finding that exists keeps its score.
Ingest(j) ==
  /\ job[j].at = "seed" /\ SeedFree(j) /\ ~SeedClash(j)
  /\ writer' = [c \in Cves |-> IF c \in Seeds(j) THEN j ELSE writer[c]]
  /\ draft' = [draft EXCEPT ![j] =
       [f \in Findings |-> IF f \in Present THEN None ELSE InputsFrom(f, Seeded(j), job[j].on)]]
  /\ job' = [job EXCEPT ![j].at = "commit"]
  /\ UNCHANGED <<sources, tables, sync, patch, mishaps>>

\* Deviation: the finding is stored with a KEV status that is no value of the column.
CommitOddKev(j) ==
  /\ job[j].at = "commit"
  /\ intel' = Seeded(j)
  /\ score' = [f \in Findings |-> IF score[f] = None 
                THEN [draft[j][f] EXCEPT !.kev = "maybe"] ELSE score[f]]
  /\ writer' = [c \in Cves |-> IF writer[c] = j THEN None ELSE writer[c]]
  /\ draft' = [draft EXCEPT ![j] = NoDraft]
  /\ job' = [job EXCEPT ![j].at = "done"]
  /\ UNCHANGED <<sources, catalog, kevSynced, criticality, sync, patch, mishaps>>

\* (A finding another job has created meanwhile is merged with: FindingStore.)
CommitJob(j) ==
  /\ job[j].at = "commit"
  /\ intel' = Seeded(j)
  /\ score' = [f \in Findings |-> IF score[f] = None THEN draft[j][f] ELSE score[f]]
  /\ writer' = [c \in Cves |-> IF writer[c] = j THEN None ELSE writer[c]]
  /\ draft' = [draft EXCEPT ![j] = NoDraft]
  /\ job' = [job EXCEPT ![j].at = "done"]
  /\ UNCHANGED <<sources, catalog, kevSynced, criticality, sync, patch, mishaps>>

\* The INSERT of a row another session has inserted since fails, and the
\* job with it: there is no SAVEPOINT around the seeds.
SeedFails(j) ==
  /\ job[j].at = "seed" /\ SeedFree(j) /\ SeedClash(j)
  /\ job' = [job EXCEPT ![j].at = "failed"]
  /\ UNCHANGED <<sources, tables, writer, sync, draft, patch, mishaps>>

RunJob(j) == Load(j) \/ ReadIntel(j) \/ Ingest(j) \/ CommitJob(j) \/ SeedFails(j)

-----------------------------------------------------------------------------
(* run_full_sync().                                                        *)

After == [cisa_kev |-> "epss", epss |-> "nvd"]

\* The next source, with its _record_attempt(), or the end of the cycle.
Advanced(s) ==
  IF sync[s].source = "nvd" THEN [source |-> "none", page |-> NoPage, at |-> "idle"]
  ELSE [source |-> After[sync[s].source], page |-> NoPage, at |-> "fetch"]

At(s, source, step) == sync[s].source = source /\ sync[s].at = step

Start(s) ==
  /\ sync[s].at = "idle"
  /\ sync' = [sync EXCEPT ![s] = [source |-> "cisa_kev", page |-> NoPage, at |-> "fetch"]]
  /\ UNCHANGED <<sources, tables, writer, job, draft, patch, mishaps>>

known_cve_ids == UNION {CvesOf[f] : f \in Present}

\* A source answers, and the rows the answer is to update are looked up.
Arrives(s, page) ==
  /\ sync' = [sync EXCEPT ![s].page = page, ![s].at = "commit"]
  /\ UNCHANGED <<sources, tables, writer, job, draft, patch, mishaps>>

FetchKev(s) ==
  /\ At(s, "cisa_kev", "fetch")
  /\ Arrives(s, [NoPage EXCEPT !.listed = feed.listed, !.stored = catalog])

\* The answer for the CVEs of, and their rows, the last of which stays loaded.
ScorePage(of, values, last) ==
  [NoPage EXCEPT !.of = of, !.values = values, !.stored = {c \in Cves : intel[c].known},
                 !.own = [c \in Cves |-> IF c = last THEN intel[c] ELSE None]]

FetchEpss(s) ==
  /\ At(s, "epss", "fetch")
  /\ \E last \in known_cve_ids : Arrives(s, ScorePage(known_cve_ids, feed.epss, last))

NvdAnswers(s, got) ==
  /\ At(s, "nvd", "fetch")
  /\ \E last \in IF got = {} THEN {None} ELSE got : Arrives(s, ScorePage(got, feed.nvd, last))

missing == {c \in known_cve_ids : intel[c].cvss = 0}

\* Of the CVEs without a CVSS, any may get no answer.
FetchNvd(s) == \E got \in SUBSET missing : NvdAnswers(s, got)

\* The source is down, or there is nothing to ask it: the next one's turn.
NoAnswer(s) ==
  /\ sync[s].at = "fetch"
  /\ sync' = [sync EXCEPT ![s] = Advanced(s)]
  /\ UNCHANGED <<sources, tables, writer, job, draft, patch, mishaps>>

\* Another sync has inserted or deleted an entry since.
KevClash(s) ==
  LET page == sync[s].page IN
  \/ (page.listed \ page.stored) \cap catalog # {}
  \/ ~ (page.listed \cap page.stored \subseteq catalog)

\* Deviation: the success is on record before the entries are.
SuccessFirst(s) ==
  /\ At(s, "cisa_kev", "commit") /\ ~KevClash(s)
  /\ kevSynced' = TRUE
  /\ sync' = [sync EXCEPT ![s].at = "success"]
  /\ UNCHANGED <<sources, catalog, intel, criticality, score, writer, job, draft, patch, mishaps>>

CommitKev(s) ==
  /\ At(s, "cisa_kev", "commit") /\ ~KevClash(s)
  /\ catalog' = (catalog \ (sync[s].page.stored \ sync[s].page.listed)) \cup sync[s].page.listed
  /\ sync' = [sync EXCEPT ![s].at = "success"]
  /\ UNCHANGED <<sources, kevSynced, intel, criticality, score, writer, job, draft, patch, mishaps>>

SyncSucceeds(s) ==
  /\ At(s, "cisa_kev", "success")
  /\ kevSynced' = TRUE
  /\ sync' = [sync EXCEPT ![s].at = "calc"]
  /\ UNCHANGED <<sources, catalog, intel, criticality, score, writer, job, draft, patch, mishaps>>

RowsFree(s) == \A c \in sync[s].page.of : writer[c] = None

\* A row of the answer was inserted by a job since it was not found.
RowClash(s) == \E c \in sync[s].page.of \ sync[s].page.stored : intel[c].known

\* The row with the answer for c: a value the source does not have leaves what
\* was there.
Filled(s, row, c) ==
  LET value == sync[s].page.values[c] IN
  IF sync[s].source = "epss"
    THEN [row EXCEPT !.known = TRUE, !.epss = IF value # 0 THEN value ELSE @]
    ELSE [row EXCEPT !.known = TRUE, !.cvss = IF value # 0 THEN value ELSE @]

\* Each row is looked up again as the loop comes to it, so that one inserted
\* since may be found after all: RowClash(s) does not exclude the commit.
CommitScores(s) ==
  /\ sync[s].source \in {"epss", "nvd"} /\ sync[s].at = "commit" /\ RowsFree(s)
  /\ intel' = [c \in Cves |-> IF c \in sync[s].page.of THEN Filled(s, intel[c], c) ELSE intel[c]]
  /\ sync' = [sync EXCEPT ![s].at = "calc"]
  /\ UNCHANGED <<sources, catalog, kevSynced, criticality, score, writer, job, draft, patch, mishaps>>

\* A failed flush ends the cycle: run_full_sync() catches the exception, but
\* the session it gives the next source is not rolled back and raises.
SyncRaises(s) ==
  /\ sync[s].at = "commit"
  /\ IF sync[s].source = "cisa_kev" THEN KevClash(s) ELSE RowsFree(s) /\ RowClash(s)
  /\ sync' = [sync EXCEPT ![s] = [source |-> "none", page |-> NoPage, at |-> "idle"]]
  /\ UNCHANGED <<sources, tables, writer, job, draft, patch, mishaps>>


Touched(s) ==
  IF sync[s].source = "cisa_kev" THEN {f \in Findings : CvesOf[f] # {}}
  ELSE {f \in Findings : CvesOf[f] \cap sync[s].page.of # {}}

\* The rows as the session sees them: its own is not read again, whatever a job
\* has seeded there since.
Seen(s) ==
  [c \in Cves |-> IF sync[s].page.own[c] = None THEN intel[c] ELSE Filled(s, sync[s].page.own[c], c)]

CalcSync(s) ==
  /\ sync[s].at = "calc"
  /\ draft' = [draft EXCEPT ![s] = Recalculated(Touched(s), Seen(s))]
  /\ sync' = [sync EXCEPT ![s].at = "store"]
  /\ UNCHANGED <<sources, tables, writer, job, patch, mishaps>>

StoreSync(s) ==
  /\ sync[s].at = "store"
  /\ score' = Stored(s)
  /\ draft' = [draft EXCEPT ![s] = NoDraft]
  /\ sync' = [sync EXCEPT ![s] = Advanced(s)]
  /\ UNCHANGED <<sources, catalog, kevSynced, intel, criticality, writer, job, patch, mishaps>>

CommitSync(s) == CommitKev(s) \/ SyncSucceeds(s) \/ CommitScores(s) \/ SyncRaises(s)

RunSync(s) ==
  \/ Start(s)
  \/ FetchKev(s) \/ FetchEpss(s) \/ FetchNvd(s) \/ NoAnswer(s)
  \/ CommitSync(s)
  \/ CalcSync(s) \/ StoreSync(s)

-----------------------------------------------------------------------------
(* update_asset(), when the criticality changes.                           *)

Patch(p) ==
  /\ patch[p] = "new"
  /\ criticality' \in Criticalities \ {criticality}
  /\ patch' = [patch EXCEPT ![p] = "calc"]
  /\ UNCHANGED <<sources, catalog, kevSynced, intel, score, writer, job, sync, draft, mishaps>>

CalcPatch(p) ==
  /\ patch[p] = "calc"
  /\ draft' = [draft EXCEPT ![p] = Recalculated(Findings, intel)]
  /\ patch' = [patch EXCEPT ![p] = "store"]
  /\ UNCHANGED <<sources, tables, writer, job, sync, mishaps>>

StorePatch(p) ==
  /\ patch[p] = "store"
  /\ score' = Stored(p)
  /\ draft' = [draft EXCEPT ![p] = NoDraft]
  /\ patch' = [patch EXCEPT ![p] = "done"]
  /\ UNCHANGED <<sources, catalog, kevSynced, intel, criticality, writer, job, sync, mishaps>>

-----------------------------------------------------------------------------
(* A process dies between two commits; its transaction is rolled back.     *)

Mishap == mishaps < MaxMishaps /\ mishaps' = mishaps + 1

SyncDies(s) ==
  /\ sync[s].at # "idle" /\ Mishap
  /\ sync' = [sync EXCEPT ![s] = [source |-> "none", page |-> NoPage, at |-> "idle"]]
  /\ draft' = [draft EXCEPT ![s] = NoDraft]
  /\ UNCHANGED <<sources, tables, writer, job, patch>>

JobDies(j) ==
  /\ job[j].at \in {"tool", "seed", "commit"} /\ Mishap
  /\ job' = [job EXCEPT ![j].at = "failed"]
  /\ writer' = [c \in Cves |-> IF writer[c] = j THEN None ELSE writer[c]]
  /\ draft' = [draft EXCEPT ![j] = NoDraft]
  /\ UNCHANGED <<sources, tables, sync, patch>>

PatchDies(p) ==
  /\ patch[p] \in {"calc", "store"} /\ Mishap
  /\ patch' = [patch EXCEPT ![p] = "done"]
  /\ draft' = [draft EXCEPT ![p] = NoDraft]
  /\ UNCHANGED <<sources, tables, writer, job, sync>>

Next ==
  \/ Publish
  \/ \E j \in Jobs : RunJob(j) \/ JobDies(j)
  \/ \E s \in Syncs : RunSync(s) \/ SyncDies(s)
  \/ \E p \in Patches : Patch(p) \/ CalcPatch(p) \/ StorePatch(p) \/ PatchDies(p)

Spec == Init /\ [][Next]_vars

(* The sync thread runs for ever, so again and again each source answers   *)
(* it, NVD for all of the CVEs without a score; and every session goes on. *)
Answered(s) ==
  /\ []<>At(s, "cisa_kev", "commit")
  /\ []<>(At(s, "epss", "commit") \/ known_cve_ids = {})
  /\ []<>(At(s, "nvd", "commit") /\ missing \subseteq sync[s].page.of)

Fairness ==
  /\ \A j \in Jobs : WF_vars(RunJob(j))
  /\ \A s \in Syncs : WF_vars(RunSync(s)) /\ Answered(s)
  /\ \A p \in Patches : WF_vars(CalcPatch(p) \/ StorePatch(p))

FairSpec == Spec /\ Fairness

(***************************************************************************)
(* Properties.                                                             *)
(***************************************************************************)

(* "KEV is YES/NO only once the catalog has synced successfully" (service. *)
(* py:71-73): a CVE every edition of the catalog lists is never held for   *)
(* unlisted, whatever sync died or clashed with another, and wherever.     *)
KevIsNeverGuessed ==
  \A f \in Present : score[f].kev = "no" => CvesOf[f] \cap feed.always = {}

\* The finding is scored from what the tables say and its asset's criticality,
\* and the tables say what the sources publish: a CVE's EPSS score is the last
\* one published, its CVSS the first anyone gave.
CaughtUp(f) ==
  /\ score[f] = Inputs(f)
  /\ score[f].kev = IF CvesOf[f] \cap feed.listed = {} THEN "no" ELSE "yes"
  /\ \A c \in CvesOf[f] :
       /\ feed.epss[c] # 0 => intel[c].epss = feed.epss[c]
       /\ feed.nvd[c] # 0 => intel[c].cvss # 0

=============================================================================
