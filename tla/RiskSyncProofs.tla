--------------------------- MODULE RiskSyncProofs ---------------------------
(***************************************************************************)
(* What is proved about RiskSync: its domains, and that no score says "no" *)
(* of a CVE every edition of the catalog lists.  A score is only as good   *)
(* as what it was computed from, so the invariant follows that list: it is *)
(* in every page a sync is to commit, in the catalog from that commit on,  *)
(* hence in the catalog wherever kevSynced is set, and so in every draft a *)
(* session computes, until the draft is stored.                            *)
(***************************************************************************)
EXTENDS RiskSync, FiniteSetTheorems, WellFoundedInduction, TLAPS

JobType == [at : {"queued", "tool", "seed", "commit", "done", "failed"},
            on : Criticalities, hints : [Cves -> Scores], stored : SUBSET Cves]
SyncType == [source : Sources \cup {"none"}, page : Page,
             at : {"idle", "fetch", "commit", "success", "calc", "store"}]
Drafts == [Findings -> RiskInputs \cup {None}]

\* What f's score x says of the catalog is so.
NoGuess(f, x) == x # None => (x.kev = "no" => CvesOf[f] \cap feed.always = {})

\* How far what is always listed has come with the sync s.
Underway(s) ==
  /\ sync[s].at # "idle" => sync[s].source \in Sources
  /\ At(s, "cisa_kev", "commit") => feed.always \subseteq sync[s].page.listed
  /\ At(s, "cisa_kev", "success") => feed.always \subseteq catalog

(* The invariant.                                                          *)
SyncOk ==
  /\ TypeOK
  /\ \A s \in Syncs : Underway(s)
  /\ kevSynced => feed.always \subseteq catalog
  /\ \A f \in Findings : NoGuess(f, score[f]) /\ \A d \in Sessions : NoGuess(f, draft[d][f])

-----------------------------------------------------------------------------
(* What a session computes.                                                *)

\* A set of scores has a greatest: what is above an element is a smaller set
\* the greater the element.
LEMMA WorstScore ==
  ASSUME NEW T \in SUBSET Scores, T # {}
  PROVE  Worst(T) \in Scores
<1> DEFINE Above(x) == {y \in T : y > x}
           Sets == {Above(x) : x \in T}
<1>1. IsFiniteSet(T) /\ T \subseteq Int
  <2>1. IsFiniteSet(0 .. MaxScore)
    BY FS_Interval, BoundsAssumption
  <2>2. IsFiniteSet(T)
    BY <2>1, FS_Subset DEF Scores
  <2>3. QED
    BY <2>2, BoundsAssumption DEF Scores
<1>2. Sets \subseteq FiniteSubsetsOf(T) /\ Sets # {}
  <2>1. \A x \in T : Above(x) \in SUBSET T /\ IsFiniteSet(Above(x))
    BY <1>1, FS_Subset
  <2>2. QED
    BY <2>1 DEF FiniteSubsetsOf
<1>3. PICK U \in Sets : \A V \in Sets : <<V, U>> \notin StrictSubsetOrdering(T)
  BY <1>2, FS_StrictSubsetOrderingWellFounded, WFMin, Zenon
<1>4. PICK x \in T : U = Above(x)
  BY <1>3
<1>5. \A y \in T : y <= x
  <2> SUFFICES ASSUME NEW y \in T, y > x PROVE FALSE
    BY <1>1
  <2>1. x \in Int /\ y \in Int /\ ~(y > y) /\ \A z \in T : z > y => z > x
    BY <1>1, <1>4
  <2>2. Above(y) \subseteq Above(x) /\ y \in Above(x) /\ y \notin Above(y)
    BY <2>1
  <2>3. Above(y) \in SUBSET T /\ Above(x) \in SUBSET T /\ Above(y) # Above(x)
    BY <2>2
  <2>4. <<Above(y), Above(x)>> \in StrictSubsetOrdering(T)
    BY <2>2, <2>3 DEF StrictSubsetOrdering
  <2>5. QED
    BY <1>3, <1>4, <2>4
<1>6. Worst(T) \in T
  BY <1>5 DEF Worst
<1>7. QED
  BY <1>6

\* A score is one, from whatever rows and criticality it is computed; and it
\* says "no" of no CVE that is always listed.
LEMMA ComputedScore ==
  ASSUME NEW f \in Findings, NEW in_ \in [Cves -> IntelRows], NEW on \in Criticalities,
         kevSynced => feed.always \subseteq catalog
  PROVE  InputsFrom(f, in_, on) \in RiskInputs /\ NoGuess(f, InputsFrom(f, in_, on))
<1>1. CvesOf[f] \subseteq Cves
  BY CvesAssumption
<1>2. \A c \in CvesOf[f] : in_[c].cvss \in Scores /\ in_[c].epss \in Scores
  BY <1>1 DEF IntelRows
<1>3. 0 \in Scores
  BY BoundsAssumption DEF Scores
<1>4. /\ {0} \cup {in_[c].cvss : c \in CvesOf[f]} \in SUBSET Scores
      /\ {0} \cup {in_[c].epss : c \in CvesOf[f]} \in SUBSET Scores
  BY <1>2, <1>3
<1>5. /\ Worst({0} \cup {in_[c].cvss : c \in CvesOf[f]}) \in Scores
      /\ Worst({0} \cup {in_[c].epss : c \in CvesOf[f]}) \in Scores
  BY <1>4, WorstScore
<1>6. Kev(f) \in {"unknown", "yes", "no"} /\ (Kev(f) = "no" => CvesOf[f] \cap feed.always = {})
  BY DEF Kev
<1>7. InputsFrom(f, in_, on) \in RiskInputs
  BY <1>5, <1>6 DEF InputsFrom, RiskInputs
<1>8. InputsFrom(f, in_, on).kev = Kev(f)
  BY DEF InputsFrom
<1>9. QED
  BY <1>6, <1>7, <1>8 DEF NoGuess

\* What a recalculation leaves to be stored.
LEMMA RecalculatedScores ==
  ASSUME SyncOk, NEW F, NEW in_ \in [Cves -> IntelRows]
  PROVE  /\ Recalculated(F, in_) \in Drafts
         /\ \A f \in Findings : NoGuess(f, Recalculated(F, in_)[f])
<1> DEFINE computed(f) == InputsFrom(f, in_, criticality)
<1>1. \A f \in Findings : computed(f) \in RiskInputs /\ NoGuess(f, computed(f))
  BY ComputedScore DEF SyncOk, TypeOK
<1>2. \A f \in Findings : Recalculated(F, in_)[f] = None \/ Recalculated(F, in_)[f] = computed(f)
  BY DEF Recalculated
<1>3. Recalculated(F, in_) \in Drafts
  BY <1>1 DEF Recalculated, Drafts
<1>4. QED
  BY <1>1, <1>2, <1>3 DEF NoGuess

\* What comes of the stored scores.
LEMMA StoredScores ==
  ASSUME SyncOk, NEW d \in Sessions
  PROVE  Stored(d) \in Drafts /\ \A f \in Findings : NoGuess(f, Stored(d)[f])
<1>1. draft[d] \in Drafts /\ score \in Drafts
  BY DEF SyncOk, TypeOK, Drafts
<1>2. \A f \in Findings : NoGuess(f, score[f]) /\ NoGuess(f, draft[d][f])
  BY DEF SyncOk
<1>3. QED
  BY <1>1, <1>2 DEF Stored, Drafts, NoGuess

-----------------------------------------------------------------------------
(* The steps of a sync.                                                    *)

\* One sync goes on; the others are where they were.
LEMMA SyncPut ==
  ASSUME SyncOk, NEW s \in Syncs, NEW x \in SyncType, sync' = [sync EXCEPT ![s] = x]
  PROVE  sync' \in [Syncs -> SyncType] /\ sync'[s] = x /\ \A r \in Syncs \ {s} : sync'[r] = sync[r]
BY DEF SyncOk, TypeOK, SyncType

\* Its page and its step, of the kind a sync has.
LEMMA SyncFields ==
  ASSUME SyncOk, NEW s \in Syncs
  PROVE  /\ sync[s] \in SyncType
         /\ \A at \in {"success", "calc", "store"} :
              /\ [sync[s] EXCEPT !.at = at] \in SyncType
              /\ [sync[s] EXCEPT !.at = at].at = at
              /\ [sync[s] EXCEPT !.at = at].source = sync[s].source
         /\ \A page \in Page :
              /\ [sync[s] EXCEPT !.page = page, !.at = "commit"] \in SyncType
              /\ [sync[s] EXCEPT !.page = page, !.at = "commit"].source = sync[s].source
              /\ [sync[s] EXCEPT !.page = page, !.at = "commit"].page = page
<1>1. sync[s] \in SyncType
  BY DEF SyncOk, TypeOK, SyncType
<1>2. QED
  BY <1>1 DEF SyncType

\* A sync goes on, and the tables stay as they are.
LEMMA SyncMoves ==
  ASSUME SyncOk, NEW s \in Syncs, NEW x \in SyncType,
         sync' = [sync EXCEPT ![s] = x],
         x.at # "idle" => x.source \in Sources,
         x.at = "commit" /\ x.source = "cisa_kev" => feed.always \subseteq x.page.listed,
         x.at # "success",
         UNCHANGED <<sources, tables, writer, job, draft, patch, mishaps>>
  PROVE  SyncOk'
<1>. USE DEF sources, tables
<1>1. sync' \in [Syncs -> SyncType] /\ sync'[s] = x /\ \A r \in Syncs \ {s} : sync'[r] = sync[r]
  BY SyncPut
<1>2. TypeOK'
  BY <1>1 DEF SyncOk, TypeOK, SyncType
<1>3. \A r \in Syncs : Underway(r)'
  BY <1>1 DEF SyncOk, Underway, At
<1>4. QED
  BY <1>2, <1>3 DEF SyncOk, NoGuess

\* A page of no answer, and where a cycle begins, goes on and ends.
LEMMA NoAnswers ==
  /\ NoPage \in Page
  /\ [source |-> "cisa_kev", page |-> NoPage, at |-> "fetch"] \in SyncType
  /\ [source |-> "none", page |-> NoPage, at |-> "idle"] \in SyncType
<1>1. NoPage \in Page
  BY BoundsAssumption DEF NoPage, NoRow, Page, Scores
<1>2. QED
  BY <1>1 DEF SyncType, Sources

LEMMA NextSource ==
  ASSUME SyncOk, NEW s \in Syncs, sync[s].at # "idle"
  PROVE  /\ Advanced(s) \in SyncType /\ Advanced(s).at \in {"idle", "fetch"}
         /\ Advanced(s).at # "idle" => Advanced(s).source \in Sources
<1>1. sync[s].source \in Sources
  BY DEF SyncOk, Underway
<1>2. sync[s].source # "nvd" => After[sync[s].source] \in Sources
  BY <1>1 DEF Sources, After
<1>3. QED
  BY <1>2, NoAnswers DEF Advanced, SyncType

\* A source's answer, as the sync that asked for it holds it.
LEMMA AnswerArrives ==
  ASSUME SyncOk, NEW s \in Syncs, NEW page \in Page, Arrives(s, page), sync[s].at # "idle",
         sync[s].source = "cisa_kev" => feed.always \subseteq page.listed
  PROVE  SyncOk'
<1> DEFINE x == [sync[s] EXCEPT !.page = page, !.at = "commit"]
<1>1. /\ sync' = [sync EXCEPT ![s] = x]
      /\ UNCHANGED <<sources, tables, writer, job, draft, patch, mishaps>>
  BY DEF Arrives
<1>2. x \in SyncType /\ x.source = sync[s].source /\ x.page = page /\ x.at = "commit"
  BY SyncFields DEF SyncType
<1>3. sync[s].source \in Sources
  BY DEF SyncOk, Underway
<1>4. QED
  BY <1>1, <1>2, <1>3, SyncMoves

\* What a source or a tool gives is a score.
LEMMA GivenScores ==
  [Cves -> Hints] \cup [Cves -> NvdScores] \cup [Cves -> EpssScores] \subseteq [Cves -> Scores]
BY ValuesAssumption DEF Scores

\* A page of EPSS's or NVD's answer.
LEMMA ScorePages ==
  ASSUME SyncOk, NEW of \in SUBSET Cves, NEW values \in [Cves -> Scores], NEW last
  PROVE  ScorePage(of, values, last) \in Page
<1>1. [c \in Cves |-> IF c = last THEN intel[c] ELSE None] \in [Cves -> IntelRows \cup {None}]
  BY DEF SyncOk, TypeOK
<1>2. {c \in Cves : intel[c].known} \in SUBSET Cves
  OBVIOUS
<1>3. QED
  BY <1>1, <1>2, NoAnswers DEF ScorePage, Page

\* The catalog's answer lists what every edition does.
LEMMA FetchStep ==
  ASSUME SyncOk, NEW s \in Syncs,
         Start(s) \/ FetchKev(s) \/ FetchEpss(s) \/ FetchNvd(s) \/ NoAnswer(s) \/ SyncRaises(s)
  PROVE  SyncOk'
<1>1. /\ feed.listed \in SUBSET Cves /\ feed.always \subseteq feed.listed
      /\ feed.epss \in [Cves -> Scores] /\ feed.nvd \in [Cves -> Scores]
      /\ catalog \in SUBSET Cves
  BY GivenScores DEF SyncOk, TypeOK, Feeds
<1>2. known_cve_ids \in SUBSET Cves
  BY CvesAssumption DEF known_cve_ids, Present
<1>3. CASE Start(s)
  BY <1>3, NoAnswers, SyncMoves DEF Start, Sources, NoPage
<1>4. CASE FetchKev(s)
  <2> DEFINE page == [NoPage EXCEPT !.listed = feed.listed, !.stored = catalog]
  <2>1. page \in Page /\ feed.always \subseteq page.listed
    BY <1>1, NoAnswers DEF Page
  <2>2. QED
    BY <1>4, <2>1, AnswerArrives DEF FetchKev, At
<1>5. CASE FetchEpss(s)
  <2>1. PICK last \in known_cve_ids : Arrives(s, ScorePage(known_cve_ids, feed.epss, last))
    BY <1>5 DEF FetchEpss
  <2>2. QED
    BY <1>1, <1>2, <1>5, <2>1, ScorePages, AnswerArrives DEF FetchEpss, At
<1>6. CASE FetchNvd(s)
  <2>1. PICK got \in SUBSET missing : NvdAnswers(s, got)
    BY <1>6 DEF FetchNvd
  <2>2. PICK last \in IF got = {} THEN {None} ELSE got : Arrives(s, ScorePage(got, feed.nvd, last))
    BY <2>1 DEF NvdAnswers
  <2>3. got \in SUBSET Cves /\ sync[s].source = "nvd" /\ sync[s].at = "fetch"
    BY <1>2, <2>1 DEF missing, NvdAnswers, At
  <2>4. QED
    BY <1>1, <2>2, <2>3, ScorePages, AnswerArrives
<1>7. CASE NoAnswer(s)
  BY <1>7, NextSource, SyncMoves DEF NoAnswer
<1>8. CASE SyncRaises(s)
  BY <1>8, NoAnswers, SyncMoves DEF SyncRaises
<1>9. QED
  BY <1>3, <1>4, <1>5, <1>6, <1>7, <1>8

\* The commit of a page leaves everything that is always listed in the
\* catalog, whatever the other syncs hold.
LEMMA CommitKevStep ==
  ASSUME SyncOk, NEW s \in Syncs, CommitKev(s)
  PROVE  SyncOk'
<1> DEFINE x == [sync[s] EXCEPT !.at = "success"]
<1>1. /\ sync' = [sync EXCEPT ![s] = x] /\ sync[s].source = "cisa_kev"
      /\ catalog' = (catalog \ (sync[s].page.stored \ sync[s].page.listed)) \cup sync[s].page.listed
      /\ UNCHANGED <<sources, kevSynced, intel, criticality, score, writer, job, draft, patch, mishaps>>
      /\ At(s, "cisa_kev", "commit")
  BY DEF CommitKev, At
<1>2. x \in SyncType /\ x.at = "success" /\ x.source = "cisa_kev"
  BY <1>1, SyncFields
<1>3. sync' \in [Syncs -> SyncType] /\ sync'[s] = x /\ \A r \in Syncs \ {s} : sync'[r] = sync[r]
  BY <1>1, <1>2, SyncPut
<1>4. feed' = feed /\ feed.always \subseteq catalog'
  BY <1>1 DEF SyncOk, Underway, sources
<1>5. catalog' \in SUBSET Cves
  BY <1>1, SyncFields DEF SyncOk, TypeOK, SyncType, Page
<1>6. TypeOK'
  BY <1>1, <1>3, <1>5 DEF SyncOk, TypeOK, SyncType, sources
<1>7. \A r \in Syncs : Underway(r)'
  BY <1>2, <1>3, <1>4 DEF SyncOk, Underway, At, Sources
<1>8. QED
  BY <1>1, <1>4, <1>6, <1>7 DEF SyncOk, NoGuess

LEMMA SyncSucceedsStep ==
  ASSUME SyncOk, NEW s \in Syncs, SyncSucceeds(s)
  PROVE  SyncOk'
<1> DEFINE x == [sync[s] EXCEPT !.at = "calc"]
<1>1. /\ sync' = [sync EXCEPT ![s] = x] /\ kevSynced' = TRUE /\ At(s, "cisa_kev", "success")
      /\ UNCHANGED <<sources, catalog, intel, criticality, score, writer, job, draft, patch, mishaps>>
  BY DEF SyncSucceeds
<1>2. x \in SyncType /\ x.at = "calc" /\ x.source = "cisa_kev"
  BY <1>1, SyncFields DEF At
<1>3. sync' \in [Syncs -> SyncType] /\ sync'[s] = x /\ \A r \in Syncs \ {s} : sync'[r] = sync[r]
  BY <1>1, <1>2, SyncPut
<1>4. TypeOK'
  BY <1>1, <1>3 DEF SyncOk, TypeOK, SyncType, sources
<1>5. \A r \in Syncs : Underway(r)'
  BY <1>1, <1>2, <1>3 DEF SyncOk, Underway, At, Sources, sources
<1>6. QED
  BY <1>1, <1>4, <1>5 DEF SyncOk, Underway, NoGuess, sources

\* A row with the answer is a row, and so is what a session sees.
LEMMA FilledRows ==
  ASSUME SyncOk, NEW s \in Syncs
  PROVE  \A row \in IntelRows : \A c \in Cves : Filled(s, row, c) \in IntelRows
<1>1. sync[s].page \in Page
  BY SyncFields DEF SyncType
<1>2. \A c \in Cves : sync[s].page.values[c] \in Scores
  BY <1>1 DEF Page
<1>3. QED
  BY <1>2 DEF Filled, IntelRows

LEMMA SeenRows ==
  ASSUME SyncOk, NEW s \in Syncs
  PROVE  Seen(s) \in [Cves -> IntelRows]
<1>1. sync[s].page \in Page
  BY SyncFields DEF SyncType
<1>2. \A c \in Cves : intel[c] \in IntelRows /\ sync[s].page.own[c] \in IntelRows \cup {None}
  BY <1>1 DEF SyncOk, TypeOK, Page
<1>3. \A c \in Cves : sync[s].page.own[c] # None => Filled(s, sync[s].page.own[c], c) \in IntelRows
  BY <1>2, FilledRows
<1>4. QED
  BY <1>2, <1>3 DEF Seen

LEMMA CommitScoresStep ==
  ASSUME SyncOk, NEW s \in Syncs, CommitScores(s)
  PROVE  SyncOk'
<1> DEFINE x == [sync[s] EXCEPT !.at = "calc"]
<1>1. /\ sync' = [sync EXCEPT ![s] = x] /\ sync[s].source \in {"epss", "nvd"}
      /\ intel' = [c \in Cves |-> IF c \in sync[s].page.of THEN Filled(s, intel[c], c) ELSE intel[c]]
      /\ UNCHANGED <<sources, catalog, kevSynced, criticality, score, writer, job, draft, patch, mishaps>>
  BY DEF CommitScores
<1>2. x \in SyncType /\ x.at = "calc" /\ x.source \in {"epss", "nvd"}
  BY <1>1, SyncFields
<1>3. sync' \in [Syncs -> SyncType] /\ sync'[s] = x /\ \A r \in Syncs \ {s} : sync'[r] = sync[r]
  BY <1>1, <1>2, SyncPut
<1>4. intel' \in [Cves -> IntelRows]
  <2>1. \A c \in Cves : intel[c] \in IntelRows
    BY DEF SyncOk, TypeOK
  <2>2. QED
    BY <1>1, <2>1, FilledRows
<1>5. TypeOK'
  BY <1>1, <1>3, <1>4 DEF SyncOk, TypeOK, SyncType, sources
<1>6. \A r \in Syncs : Underway(r)'
  BY <1>1, <1>2, <1>3 DEF SyncOk, Underway, At, Sources, sources
<1>7. QED
  BY <1>1, <1>5, <1>6 DEF SyncOk, NoGuess, sources

-----------------------------------------------------------------------------
(* Drafts and scores.                                                      *)

\* A session's draft is new, and the rest as it was.
LEMMA DraftPut ==
  ASSUME SyncOk, NEW d \in Sessions, NEW x \in Drafts, draft' = [draft EXCEPT ![d] = x],
         \A f \in Findings : NoGuess(f, x[f]), feed' = feed
  PROVE  /\ draft' \in [Sessions -> Drafts]
         /\ \A f \in Findings : \A e \in Sessions : NoGuess(f, draft[e][f])'
<1>1. draft \in [Sessions -> Drafts]
  BY DEF SyncOk, TypeOK, Drafts
<1>2. draft' \in [Sessions -> Drafts] /\ draft'[d] = x /\ \A e \in Sessions \ {d} : draft'[e] = draft[e]
  BY <1>1
<1>3. QED
  BY <1>2 DEF SyncOk, NoGuess

\* Nothing drafted says nothing.
LEMMA Undrafted == NoDraft \in Drafts /\ \A f \in Findings : NoGuess(f, NoDraft[f])
BY DEF NoDraft, Drafts, NoGuess

LEMMA CalcStep ==
  ASSUME SyncOk, NEW d \in Sessions, NEW F, NEW in_ \in [Cves -> IntelRows],
         draft' = [draft EXCEPT ![d] = Recalculated(F, in_)],
         sync' \in [Syncs -> SyncType], patch' \in [Patches -> {"new", "calc", "store", "done"}],
         \A r \in Syncs : Underway(r)',
         UNCHANGED <<sources, tables, writer, job, mishaps>>
  PROVE  SyncOk'
<1>. USE DEF sources, tables
<1>1. /\ draft' \in [Sessions -> Drafts]
      /\ \A f \in Findings : \A e \in Sessions : NoGuess(f, draft[e][f])'
  BY RecalculatedScores, DraftPut
<1>2. TypeOK'
  BY <1>1 DEF SyncOk, TypeOK, Drafts, SyncType
<1>3. QED
  BY <1>1, <1>2 DEF SyncOk, NoGuess

LEMMA StoreStep ==
  ASSUME SyncOk, NEW d \in Sessions, draft' = [draft EXCEPT ![d] = NoDraft], score' = Stored(d),
         sync' \in [Syncs -> SyncType], patch' \in [Patches -> {"new", "calc", "store", "done"}],
         \A r \in Syncs : Underway(r)',
         UNCHANGED <<sources, catalog, kevSynced, intel, criticality, writer, job, mishaps>>
  PROVE  SyncOk'
<1>. USE DEF sources
<1>1. /\ draft' \in [Sessions -> Drafts]
      /\ \A f \in Findings : \A e \in Sessions : NoGuess(f, draft[e][f])'
  BY Undrafted, DraftPut
<1>2. score' \in Drafts /\ \A f \in Findings : NoGuess(f, score[f])'
  BY StoredScores DEF NoGuess
<1>3. TypeOK'
  BY <1>1, <1>2 DEF SyncOk, TypeOK, Drafts, SyncType
<1>4. QED
  BY <1>1, <1>2, <1>3 DEF SyncOk

LEMMA SyncScoresStep ==
  ASSUME SyncOk, NEW s \in Syncs, CalcSync(s) \/ StoreSync(s)
  PROVE  SyncOk'
<1>1. PICK x \in SyncType :
        /\ sync' = [sync EXCEPT ![s] = x] /\ x.at \in {"idle", "fetch", "store"}
        /\ x.at # "idle" => x.source \in Sources
  <2>1. CASE CalcSync(s)
    <3> DEFINE x == [sync[s] EXCEPT !.at = "store"]
    <3>1. x \in SyncType /\ x.at = "store" /\ x.source = sync[s].source
      BY SyncFields
    <3>2. sync[s].source \in Sources
      BY <2>1 DEF CalcSync, SyncOk, Underway
    <3>3. sync' = [sync EXCEPT ![s] = x]
      BY <2>1 DEF CalcSync
    <3>4. QED
      BY <3>1, <3>2, <3>3
  <2>2. CASE StoreSync(s)
    BY <2>2, NextSource DEF StoreSync
  <2>3. QED
    BY <2>1, <2>2
<1>2. sync' \in [Syncs -> SyncType] /\ sync'[s] = x /\ \A r \in Syncs \ {s} : sync'[r] = sync[r]
  BY <1>1, SyncPut
<1>3. UNCHANGED <<sources, catalog, kevSynced, patch>>
  BY DEF CalcSync, StoreSync, tables
<1>4. \A r \in Syncs : Underway(r)'
  BY <1>1, <1>2, <1>3 DEF SyncOk, Underway, At, sources
<1>5. patch' \in [Patches -> {"new", "calc", "store", "done"}] /\ s \in Sessions
  BY <1>3 DEF SyncOk, TypeOK, Sessions
<1>6. CASE CalcSync(s)
  <2>1. /\ draft' = [draft EXCEPT ![s] = Recalculated(Touched(s), Seen(s))]
        /\ UNCHANGED <<sources, tables, writer, job, patch, mishaps>>
    BY <1>6 DEF CalcSync
  <2>2. QED
    BY <1>2, <1>4, <1>5, <2>1, SeenRows, CalcStep
<1>7. CASE StoreSync(s)
  BY <1>2, <1>4, <1>5, <1>7, StoreStep DEF StoreSync
<1>8. QED
  BY <1>6, <1>7

LEMMA PatchStep ==
  ASSUME SyncOk, NEW p \in Patches, Patch(p) \/ CalcPatch(p) \/ StorePatch(p)
  PROVE  SyncOk'
<1>1. /\ patch' \in [Patches -> {"new", "calc", "store", "done"}]
      /\ UNCHANGED <<sources, catalog, kevSynced, sync>>
  BY DEF Patch, CalcPatch, StorePatch, SyncOk, TypeOK, tables
<1>2. p \in Sessions /\ sync' \in [Syncs -> SyncType]
  BY <1>1 DEF SyncOk, TypeOK, Sessions, SyncType
<1>3. \A r \in Syncs : Underway(r)'
  BY <1>1 DEF SyncOk, Underway, At, sources
<1>4. CASE Patch(p)
  <2>1. /\ criticality' \in Criticalities
        /\ UNCHANGED <<intel, score, writer, job, draft, mishaps>>
    BY <1>4 DEF Patch
  <2>2. TypeOK'
    BY <1>1, <2>1 DEF SyncOk, TypeOK, sources
  <2>3. QED
    BY <1>1, <1>3, <2>1, <2>2 DEF SyncOk, NoGuess, sources
<1>5. CASE CalcPatch(p)
  <2>1. /\ draft' = [draft EXCEPT ![p] = Recalculated(Findings, intel)]
        /\ UNCHANGED <<sources, tables, writer, job, sync, mishaps>>
    BY <1>5 DEF CalcPatch
  <2>2. intel \in [Cves -> IntelRows]
    BY DEF SyncOk, TypeOK
  <2>3. QED
    BY <1>1, <1>2, <1>3, <2>1, <2>2, CalcStep
<1>6. CASE StorePatch(p)
  BY <1>1, <1>2, <1>3, <1>6, StoreStep DEF StorePatch
<1>7. QED
  BY <1>4, <1>5, <1>6

-----------------------------------------------------------------------------
(* Jobs.                                                                   *)

\* A job goes on: the others, and the syncs, are where they were.
LEMMA JobMoves ==
  ASSUME SyncOk, NEW j \in Jobs, NEW x \in JobType, job' = [job EXCEPT ![j] = x],
         writer' \in [Cves -> Jobs \cup {None}], intel' \in [Cves -> IntelRows],
         score' \in Drafts, \A f \in Findings : NoGuess(f, score[f])',
         NEW y \in Drafts, \A f \in Findings : NoGuess(f, y[f]), draft' = [draft EXCEPT ![j] = y],
         mishaps' \in 0 .. MaxMishaps,
         UNCHANGED <<sources, catalog, kevSynced, criticality, sync, patch>>
  PROVE  SyncOk'
<1>. USE DEF sources
<1>1. job' \in [Jobs -> JobType]
  BY DEF SyncOk, TypeOK, JobType
<1>2. /\ draft' \in [Sessions -> Drafts]
      /\ \A f \in Findings : \A e \in Sessions : NoGuess(f, draft[e][f])'
  BY DraftPut DEF Sessions
<1>3. TypeOK'
  BY <1>1, <1>2 DEF SyncOk, TypeOK, Drafts, JobType
<1>4. \A r \in Syncs : Underway(r)'
  BY DEF SyncOk, Underway, At
<1>5. QED
  BY <1>2, <1>3, <1>4 DEF SyncOk

\* What a job has drafted it may keep.
LEMMA SameDraft ==
  ASSUME SyncOk, NEW d \in Sessions
  PROVE  /\ draft = [draft EXCEPT ![d] = draft[d]]
         /\ draft[d] \in Drafts /\ \A f \in Findings : NoGuess(f, draft[d][f])
BY DEF SyncOk, TypeOK, Drafts

\* The tables as they are, and as they remain while nothing is committed.
LEMMA SameTables ==
  ASSUME SyncOk, UNCHANGED <<feed, score>>
  PROVE  /\ writer \in [Cves -> Jobs \cup {None}] /\ intel \in [Cves -> IntelRows]
         /\ score' \in Drafts /\ \A f \in Findings : NoGuess(f, score[f])'
         /\ mishaps \in 0 .. MaxMishaps
BY DEF SyncOk, TypeOK, Drafts, NoGuess

LEMMA JobFields ==
  ASSUME SyncOk, NEW j \in Jobs
  PROVE  /\ job[j] \in JobType
         /\ \A at \in {"commit", "done", "failed"} : [job[j] EXCEPT !.at = at] \in JobType
<1>1. job[j] \in JobType
  BY DEF SyncOk, TypeOK, JobType
<1>2. QED
  BY <1>1 DEF JobType

\* Rows with the job's CVSS are rows.
LEMMA SeededRows ==
  ASSUME SyncOk, NEW j \in Jobs PROVE Seeded(j) \in [Cves -> IntelRows]
<1>1. \A c \in Cves : intel[c] \in IntelRows /\ job[j].hints[c] \in Scores
  BY JobFields DEF SyncOk, TypeOK, JobType
<1>2. \A c \in Cves : [intel[c] EXCEPT !.known = TRUE, !.cvss = job[j].hints[c]] \in IntelRows
  BY <1>1 DEF IntelRows
<1>3. QED
  BY <1>1, <1>2 DEF Seeded

\* Until it commits, a job reads.
LEMMA ReadStep ==
  ASSUME SyncOk, NEW j \in Jobs, Load(j) \/ ReadIntel(j) \/ SeedFails(j)
  PROVE  SyncOk'
<1>1. UNCHANGED <<sources, tables, writer, sync, draft, patch, mishaps>> /\ j \in Sessions
  BY DEF Load, ReadIntel, SeedFails, Sessions
<1>2. PICK x \in JobType : job' = [job EXCEPT ![j] = x]
  <2>1. CASE Load(j)
    <3> DEFINE x == [job[j] EXCEPT !.at = "tool", !.on = criticality]
    <3>1. x \in JobType
      BY JobFields DEF SyncOk, TypeOK, JobType
    <3>2. QED
      BY <2>1, <3>1 DEF Load
  <2>2. CASE ReadIntel(j)
    <3>1. PICK hints \in [Cves -> Hints] :
            job' = [job EXCEPT ![j].at = "seed",
                      ![j].hints = [c \in Cves |-> IF intel[c].cvss = 0 THEN hints[c] ELSE 0],
                      ![j].stored = {c \in Cves : intel[c].known}]
      BY <2>2 DEF ReadIntel
    <3> DEFINE seeds == [c \in Cves |-> IF intel[c].cvss = 0 THEN hints[c] ELSE 0]
               x == [job[j] EXCEPT !.at = "seed", !.hints = seeds, !.stored = {c \in Cves : intel[c].known}]
    <3>2. seeds \in [Cves -> Scores]
      BY BoundsAssumption, GivenScores DEF Scores
    <3>3. x \in JobType
      BY <3>2, JobFields DEF JobType
    <3>4. QED
      BY <3>1, <3>3
  <2>3. CASE SeedFails(j)
    BY <2>3, JobFields DEF SeedFails
  <2>4. QED
    BY <2>1, <2>2, <2>3
<1>3. QED
  BY <1>1, <1>2, SameDraft, SameTables, JobMoves DEF sources, tables

LEMMA IngestStep ==
  ASSUME SyncOk, NEW j \in Jobs, Ingest(j)
  PROVE  SyncOk'
<1> DEFINE y == [f \in Findings |-> IF f \in Present THEN None ELSE InputsFrom(f, Seeded(j), job[j].on)]
<1>1. /\ writer' = [c \in Cves |-> IF c \in Seeds(j) THEN j ELSE writer[c]]
      /\ draft' = [draft EXCEPT ![j] = y]
      /\ job' = [job EXCEPT ![j] = [job[j] EXCEPT !.at = "commit"]]
      /\ UNCHANGED <<sources, tables, sync, patch, mishaps>>
  BY DEF Ingest
<1>2. job[j].on \in Criticalities /\ (kevSynced => feed.always \subseteq catalog)
  BY JobFields DEF JobType, SyncOk
<1>3. \A f \in Findings : LET x == InputsFrom(f, Seeded(j), job[j].on) IN x \in RiskInputs /\ NoGuess(f, x)
  BY <1>2, SeededRows, ComputedScore
<1>4. y \in Drafts
  BY <1>3 DEF Drafts
<1>5. \A f \in Findings : NoGuess(f, y[f])
  BY <1>3 DEF NoGuess
<1>6. UNCHANGED <<feed, score, intel, catalog, kevSynced, criticality>>
  BY <1>1 DEF sources, tables
<1>7. writer' \in [Cves -> Jobs \cup {None}] /\ intel' \in [Cves -> IntelRows] /\ mishaps' \in 0 .. MaxMishaps
  BY <1>1, <1>6, SameTables
<1>8. QED
  BY <1>1, <1>4, <1>5, <1>6, <1>7, SameTables, JobFields, JobMoves

LEMMA CommitJobStep ==
  ASSUME SyncOk, NEW j \in Jobs, CommitJob(j)
  PROVE  SyncOk'
<1>1. /\ intel' = Seeded(j)
      /\ score' = [f \in Findings |-> IF score[f] = None THEN draft[j][f] ELSE score[f]]
      /\ writer' = [c \in Cves |-> IF writer[c] = j THEN None ELSE writer[c]]
      /\ draft' = [draft EXCEPT ![j] = NoDraft]
      /\ job' = [job EXCEPT ![j] = [job[j] EXCEPT !.at = "done"]]
      /\ UNCHANGED <<sources, catalog, kevSynced, criticality, sync, patch, mishaps>>
  BY DEF CommitJob
<1>2. j \in Sessions /\ feed' = feed /\ score \in Drafts
  BY <1>1 DEF Sessions, sources, SyncOk, TypeOK, Drafts
<1>3. score' \in Drafts
  BY <1>1, <1>2, SameDraft DEF Drafts
<1>4. \A f \in Findings : NoGuess(f, score[f])'
  BY <1>1, <1>2, SameDraft DEF SyncOk, NoGuess
<1>5. writer' \in [Cves -> Jobs \cup {None}] /\ mishaps' \in 0 .. MaxMishaps
  BY <1>1 DEF SyncOk, TypeOK
<1>6. QED
  BY <1>1, <1>3, <1>4, <1>5, SeededRows, Undrafted, JobFields, JobMoves

-----------------------------------------------------------------------------
(* What the sources publish, and a process that dies.                      *)

LEMMA PublishStep ==
  ASSUME SyncOk, Publish PROVE SyncOk'
<1>1. /\ feed' \in Feeds /\ feed'.always = feed.always
      /\ news' \in 0 .. MaxNews
      /\ UNCHANGED <<tables, writer, job, sync, draft, patch, mishaps>>
  <2>1. news' \in 0 .. MaxNews /\ UNCHANGED <<tables, writer, job, sync, draft, patch, mishaps>>
    BY BoundsAssumption DEF Publish, SyncOk, TypeOK
  <2>2. \A x \in Feeds :
          /\ \A listed \in SUBSET Cves :
               x.always \subseteq listed => LET y == [x EXCEPT !.listed = listed]
                                            IN  y \in Feeds /\ y.always = x.always
          /\ \A values \in [Cves -> EpssScores] : LET y == [x EXCEPT !.epss = values]
                                                 IN  y \in Feeds /\ y.always = x.always
          /\ \A values \in [Cves -> NvdScores] : LET y == [x EXCEPT !.nvd = values]
                                                IN  y \in Feeds /\ y.always = x.always
    BY DEF Feeds
  <2>3. feed \in Feeds
    BY DEF SyncOk, TypeOK
  <2>4. CASE \E listed \in SUBSET Cves :
               feed.always \subseteq listed /\ feed' = [feed EXCEPT !.listed = listed]
    <3>1. PICK listed \in SUBSET Cves :
            feed.always \subseteq listed /\ feed' = [feed EXCEPT !.listed = listed]
      BY <2>4
    <3>2. QED
      BY <2>1, <2>2, <2>3, <3>1
  <2>5. CASE \E values \in [Cves -> EpssScores] : feed' = [feed EXCEPT !.epss = values]
    <3>1. PICK values \in [Cves -> EpssScores] : feed' = [feed EXCEPT !.epss = values]
      BY <2>5
    <3>2. QED
      BY <2>1, <2>2, <2>3, <3>1
  <2>6. CASE \E values \in [Cves -> NvdScores] : feed' = [feed EXCEPT !.nvd = values]
    <3>1. PICK values \in [Cves -> NvdScores] : feed' = [feed EXCEPT !.nvd = values]
      BY <2>6
    <3>2. QED
      BY <2>1, <2>2, <2>3, <3>1
  <2>7. QED
    BY <2>4, <2>5, <2>6 DEF Publish
<1>2. TypeOK'
  BY <1>1 DEF SyncOk, TypeOK, tables
<1>3. QED
  BY <1>1, <1>2 DEF SyncOk, Underway, At, NoGuess, tables

LEMMA DeathStep ==
  ASSUME SyncOk,
         \/ \E j \in Jobs : JobDies(j)
         \/ \E s \in Syncs : SyncDies(s)
         \/ \E p \in Patches : PatchDies(p)
  PROVE  SyncOk'
<1>1. mishaps' \in 0 .. MaxMishaps
  BY BoundsAssumption DEF JobDies, SyncDies, PatchDies, Mishap, SyncOk, TypeOK
<1>2. ASSUME NEW j \in Jobs, JobDies(j) PROVE SyncOk'
  <2>1. /\ job' = [job EXCEPT ![j] = [job[j] EXCEPT !.at = "failed"]]
        /\ writer' = [c \in Cves |-> IF writer[c] = j THEN None ELSE writer[c]]
        /\ draft' = [draft EXCEPT ![j] = NoDraft]
        /\ UNCHANGED <<sources, tables, sync, patch>>
    BY <1>2 DEF JobDies
  <2>2. writer' \in [Cves -> Jobs \cup {None}] /\ UNCHANGED <<feed, score, intel, catalog, kevSynced, criticality>>
    BY <2>1, SameTables DEF SyncOk, TypeOK, sources, tables
  <2>3. QED
    BY <1>1, <2>1, <2>2, SameTables, Undrafted, JobFields, JobMoves
<1>3. ASSUME NEW s \in Syncs, SyncDies(s) PROVE SyncOk'
  <2>1. /\ sync' = [sync EXCEPT ![s] = [source |-> "none", page |-> NoPage, at |-> "idle"]]
        /\ draft' = [draft EXCEPT ![s] = NoDraft]
        /\ UNCHANGED <<sources, tables, writer, job, patch>>
    BY <1>3 DEF SyncDies
  <2>2. /\ sync' \in [Syncs -> SyncType]
        /\ sync'[s] = [source |-> "none", page |-> NoPage, at |-> "idle"]
        /\ \A r \in Syncs \ {s} : sync'[r] = sync[r]
    BY <2>1, NoAnswers, SyncPut
  <2>3. /\ draft' \in [Sessions -> Drafts]
        /\ \A f \in Findings : \A e \in Sessions : NoGuess(f, draft[e][f])'
    BY <2>1, Undrafted, DraftPut DEF Sessions, sources
  <2>4. TypeOK'
    BY <1>1, <2>1, <2>2, <2>3 DEF SyncOk, TypeOK, SyncType, Drafts, sources, tables
  <2>5. \A r \in Syncs : Underway(r)'
    BY <2>1, <2>2 DEF SyncOk, Underway, At, sources, tables
  <2>6. QED
    BY <2>1, <2>3, <2>4, <2>5 DEF SyncOk, NoGuess, sources, tables
<1>4. ASSUME NEW p \in Patches, PatchDies(p) PROVE SyncOk'
  <2>1. /\ patch' = [patch EXCEPT ![p] = "done"] /\ draft' = [draft EXCEPT ![p] = NoDraft]
        /\ UNCHANGED <<sources, tables, writer, job, sync>>
    BY <1>4 DEF PatchDies
  <2>2. /\ draft' \in [Sessions -> Drafts]
        /\ \A f \in Findings : \A e \in Sessions : NoGuess(f, draft[e][f])'
    BY <2>1, Undrafted, DraftPut DEF Sessions, sources
  <2>3. TypeOK'
    BY <1>1, <2>1, <2>2 DEF SyncOk, TypeOK, Drafts, sources, tables
  <2>4. QED
    BY <2>1, <2>2, <2>3 DEF SyncOk, Underway, At, NoGuess, sources, tables
<1>5. QED
  BY <1>2, <1>3, <1>4

-----------------------------------------------------------------------------
(* The theorems.                                                           *)

LEMMA SyncInitially == Init => SyncOk
<1> SUFFICES ASSUME Init PROVE SyncOk
  OBVIOUS
<1>1. score \in Drafts /\ \A f \in Findings : NoGuess(f, score[f])
  BY BoundsAssumption, CriticalitiesAssumption
     DEF Init, NoDraft, Unscored, Drafts, RiskInputs, Scores, NoGuess
<1>2. intel \in [Cves -> IntelRows] /\ draft \in [Sessions -> Drafts]
  BY BoundsAssumption, Undrafted DEF Init, IntelRows, Scores
<1>3. job \in [Jobs -> JobType]
  <2>1. [at |-> "queued", on |-> "MEDIUM", hints |-> NoSeed, stored |-> {}] \in JobType
    BY BoundsAssumption, CriticalitiesAssumption DEF NoSeed, JobType, Scores
  <2>2. QED
    BY <2>1 DEF Init
<1>4. sync \in [Syncs -> SyncType]
  BY NoAnswers DEF Init
<1>5. TypeOK
  <2>1. news \in 0 .. MaxNews /\ mishaps \in 0 .. MaxMishaps
    BY BoundsAssumption DEF Init
  <2>2. criticality \in Criticalities /\ feed \in Feeds /\ catalog \in SUBSET Cves /\ kevSynced \in BOOLEAN
    BY CriticalitiesAssumption DEF Init
  <2>3. /\ writer \in [Cves -> Jobs \cup {None}]
        /\ patch \in [Patches -> {"new", "calc", "store", "done"}]
    BY DEF Init
  <2>4. QED
    BY <1>1, <1>2, <1>3, <1>4, <2>1, <2>2, <2>3 DEF TypeOK, Drafts, JobType, SyncType
<1>6. \A f \in Findings : \A d \in Sessions : NoGuess(f, draft[d][f])
  BY DEF Init, NoDraft, NoGuess
<1>7. QED
  BY <1>1, <1>5, <1>6 DEF Init, SyncOk, Underway, At

LEMMA SyncInvariance ==
  ASSUME SyncOk, [Next]_vars PROVE SyncOk'
<1>1. CASE UNCHANGED vars
  BY <1>1 DEF SyncOk, TypeOK, Underway, At, NoGuess, vars, sources, tables
<1>2. CASE Publish
  BY <1>2, PublishStep
<1>3. ASSUME NEW j \in Jobs, RunJob(j) PROVE SyncOk'
  BY <1>3, ReadStep, IngestStep, CommitJobStep DEF RunJob
<1>4. ASSUME NEW s \in Syncs, RunSync(s) PROVE SyncOk'
  BY <1>4, FetchStep, CommitKevStep, SyncSucceedsStep, CommitScoresStep, SyncScoresStep DEF RunSync, CommitSync
<1>5. ASSUME NEW p \in Patches, Patch(p) \/ CalcPatch(p) \/ StorePatch(p) PROVE SyncOk'
  BY <1>5, PatchStep
<1>6. QED
  BY <1>1, <1>2, <1>3, <1>4, <1>5, DeathStep DEF Next

(* Any jobs, syncs and patches keep the invariant, in any order of their
   commits and whichever of them dies.                                     *)
THEOREM Invariance == Spec => []SyncOk
BY SyncInitially, SyncInvariance, PTL DEF Spec

(* Pages, drafts and scores stay in their domains; a score is always one of
   the values its inputs allow.                                            *)
THEOREM TypeCorrect == Spec => []TypeOK
<1>1. SyncOk => TypeOK
  BY DEF SyncOk
<1>2. QED
  BY <1>1, Invariance, PTL

(* For any CVEs, findings, jobs, syncs and patches, whatever clashes or dies:
   no finding is said not to be in the catalog for a CVE that every edition
   of it lists.                                                            *)
THEOREM KevIsKnown == Spec => []KevIsNeverGuessed
<1>1. SyncOk => KevIsNeverGuessed
  BY DEF SyncOk, NoGuess, KevIsNeverGuessed, Present
<1>2. QED
  BY <1>1, Invariance, PTL
=============================================================================
