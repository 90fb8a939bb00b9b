------------------------------ MODULE RunScan ------------------------------
(***************************************************************************)
(* api/routers/scan.py, run_scan, from the request to the verdict: four    *)
(* layers under one gather, three of them on one PackageContext, then the  *)
(* CWE lookups and _decide.  What is stored afterwards is not part of it.  *)
(*                                                                         *)
(* The steps of the layers and of the context are those of PackageContext; *)
(* here each is joined with what the layer reports when it ends: findings, *)
(* signals, and its entries in layer_errors.  truth is what the release is *)
(* really like, chosen at the start and never read by the code except      *)
(* through PyPI's and OSV's answers: the properties compare the verdict    *)
(* with the one that a scan without any failure would give.                *)
(***************************************************************************)
EXTENDS Scoring

CONSTANTS static, bandit, scoring,  \* the layers that share the context
          Nobody,
          WithBandit,               \* the parameter `bandit` of run_scan
          Truths                    \* releases there may be

Readers == IF WithBandit THEN {static, bandit} ELSE {static}
Scorers == {scoring}
Guarded == {bandit, scoring} \cap (Readers \cup Scorers)

(* The variables of PackageContext. *)
VARIABLES pc, projectLock, artifactLock, loaded, project, extractDone,
          extracted, tmpdir, disk, unpacking, reading, scope, fetches,
          downloads, projectGot, artifactGot

VARIABLES
  truth,      \* what the release is like
  cve,        \* _layer_cve: "asking", "done", "raised" or "cancelled"
  stage,      \* "layers", "tagging", "answered", "raised" or "cancelled"
  errors,     \* layer_errors: <<layer, why>>
  findings,   \* static_findings: <<layer, severity>>
  signals,    \* risk_signals; the score is ComputeScore of them
  vulns,      \* vulnerabilities is not empty
  verdict     \* "none" before _decide

Context == INSTANCE PackageContext

ctx  == <<pc, projectLock, artifactLock, loaded, project, extractDone,
          extracted, tmpdir, disk, unpacking, reading, scope, fetches,
          downloads, projectGot, artifactGot>>
own  == <<cve, stage, errors, findings, signals, vulns, verdict>>
vars == <<ctx, truth, own>>

Kinds == {"published", "bare", "unpublished", "missing"}

(* The file that the static rules block a release for, if it has one: its  *)
(* size can be had; or not, which Bandit meets as well if it is a .py; or  *)
(* not, and Bandit never looks at it (a .pth).  It lies where the rules    *)
(* look, within their limits: what they leave out is in Budgets.           *)
BadFiles == {"none", "sized", "unsized", "unsized pth"}

ASSUME RunScanAssumption ==
  /\ static # bandit /\ bandit # scoring /\ static # scoring
  /\ Nobody \notin {static, bandit, scoring}
  /\ WithBandit \in BOOLEAN
  /\ Truths \subseteq [kind : Kinds, typo : Similarities, new : BOOLEAN,
                       burst : BOOLEAN, setup : BOOLEAN, bad : BadFiles,
                       vulnerable : BOOLEAN]

(* build_signals, from the name, the project JSON and the archive. *)
Signals(typo, new, burst, setup) ==
  [is_new_account |-> new, typosquat_score |-> typo,
   has_install_script |-> setup, release_burst |-> burst]
Unknown == Signals(-1, FALSE, FALSE, FALSE)
Neutral == Signals(0, FALSE, FALSE, FALSE)

Init ==
  /\ Context!Init
  /\ truth \in Truths
  /\ cve = "asking" /\ stage = "layers"
  /\ errors = {} /\ findings = {} /\ signals = Neutral
  /\ vulns = FALSE /\ verdict = "none"

-----------------------------------------------------------------------------
(* What layer t appends to layer_errors, if anything. *)
Tell(t, why) == errors' = errors \cup {<<t, why>>}
Silent == UNCHANGED errors

(* The layers on the tree say that they could not look, never that it is clean. *)
SilentlyUnread(t, got) == got \in Context!PyPIErrors /\ Silent /\ UNCHANGED findings
VaguelyUnread(t, got) ==
  got \in Context!PyPIErrors /\ Tell(t, "failed") /\ UNCHANGED findings
Unread(t, got) == got \in Context!PyPIErrors /\ Tell(t, got) /\ UNCHANGED findings
NothingToRead(got) == got = "none" /\ Silent /\ UNCHANGED findings

(* analyze_package: a file that could not be read may be the bad one, and   *)
(* one without a size is no candidate, of which nothing is said.            *)
Candidate == truth.bad = "sized"
Analysed(t) ==
  \/ /\ findings' = findings \cup (IF Candidate THEN {<<t, "high">>} ELSE {})
     /\ Silent \/ Tell(t, "unreadable")
  \/ Tell(t, "unreadable") /\ UNCHANGED findings

StaticReports ==
  LET got == artifactGot'[static] IN
  \/ pc'[static] = "raised" /\ UNCHANGED <<errors, findings>>
  \/ /\ pc'[static] = "done"
     /\ \/ Unread(static, got) \/ NothingToRead(got)
        \/ got = "tree" /\ Analysed(static)

(* _run_bandit: severities are capped, and a cut is told; a file without a *)
(* size counts as one too big to look at.                                  *)
NoCap(severity) == severity
Cap(severity) == IF severity = "high" THEN "medium" ELSE severity

BanditReports ==
  LET got == artifactGot'[bandit] IN
  \/ Unread(bandit, got) \/ NothingToRead(got)
  \/ got = "broken" /\ Tell(bandit, "failed") /\ UNCHANGED findings
  \/ got = "tree" /\ Tell(bandit, "failed") /\ UNCHANGED findings
  \/ /\ got = "tree"
     /\ \/ UNCHANGED findings
        \/ \E severity \in {"medium", "high"} :
             findings' = findings \cup {<<bandit, Cap(severity)>>}
     /\ \/ Silent /\ truth.bad # "unsized"
        \/ Tell(bandit, "partial")

(***************************************************************************)
(* score_package.  collect() turns every PyPIError into defaults and a     *)
(* note that score_package drops; any other exception is told, and costs   *)
(* the signals of the name as well.                                        *)
(***************************************************************************)
MetadataOf(got) ==
  CASE got \in {"published", "bare", "unpublished"} -> [new |-> truth.new, burst |-> truth.burst]
    [] OTHER -> [new |-> FALSE, burst |-> FALSE]
SetupSeen == artifactGot'[scoring] = "tree" /\ truth.setup

QuietlyNeutral == Silent /\ signals' = Neutral
ScoringRaises == Tell(scoring, "failed") /\ signals' = Neutral

ScoringReports ==
  \/ ScoringRaises
  \/ /\ projectGot'[scoring] # "broken" /\ artifactGot'[scoring] # "broken"
     /\ LET metadata == MetadataOf(projectGot'[scoring]) IN
          signals' = Signals(truth.typo, metadata.new, metadata.burst, SetupSeen)
     /\ Silent

(* Layer t ends with this step of the context, and reports. *)
Ends(t) == pc[t] \notin Context!Ended /\ pc'[t] \in {"done", "raised"}

Report(t) ==
  \/ t = static  /\ StaticReports  /\ UNCHANGED <<signals>>
  \/ t = bandit  /\ BanditReports  /\ UNCHANGED <<signals>>
  \/ t = scoring /\ ScoringReports /\ UNCHANGED <<findings>>

(* PyPI says what is true of the project, or fails. *)
Truthful == project' \in {"unset", "failed", truth.kind}

LayerStep(t) ==
  /\ Context!Step(t)
  /\ Truthful
  /\ \/ Ends(t) /\ Report(t) /\ UNCHANGED <<cve, stage, vulns, verdict>>
     \/ ~Ends(t) /\ UNCHANGED own
  /\ UNCHANGED truth

-----------------------------------------------------------------------------
(* _layer_cve: OSV answers, fails, or answers what the parser chokes on. *)
CveAnswers ==
  /\ cve = "asking" /\ cve' = "done"
  /\ \/ vulns' = truth.vulnerable /\ Silent
     \/ Tell("cve", "failed") /\ UNCHANGED vulns
  /\ UNCHANGED <<ctx, truth, stage, findings, signals, verdict>>

CveRaises ==
  /\ cve = "asking" /\ cve' = "raised"
  /\ UNCHANGED <<ctx, truth, stage, errors, findings, signals, vulns,
                 verdict>>

(* gather returns all four results, or passes on the first exception. *)
Gathered ==
  /\ cve = "done" /\ Context!Leave
  /\ stage' = "tagging"
  /\ UNCHANGED <<truth, cve, errors, findings, signals, vulns, verdict>>

Abandoned ==
  /\ Context!Escape \/ (cve = "raised" /\ Context!SiblingRaises)
  /\ stage' = "raised"
  /\ UNCHANGED <<truth, cve, errors, findings, signals, vulns, verdict>>

(***************************************************************************)
(* tag_vulnerabilities, then _decide.  A failed lookup leaves its CWE list *)
(* empty, but an answer that is not an object raises out of run_scan.      *)
(***************************************************************************)
TaggingRaises ==
  /\ stage = "tagging" /\ vulns
  /\ stage' = "raised"
  /\ UNCHANGED <<ctx, truth, cve, errors, findings, signals, vulns,
                 verdict>>

HighFound == \E f \in findings : f[2] = "high"

Answer ==
  /\ stage = "tagging"
  /\ verdict' = Decide(vulns, HighFound, ComputeScore(signals))
  /\ stage' = "answered"
  /\ UNCHANGED <<ctx, truth, cve, errors, findings, signals, vulns>>

(* The task of the request, or the whole event loop, is cancelled. *)
Halted(s) == IF s \in {"layers", "tagging"} THEN "cancelled" ELSE s

Cancel ==
  /\ \/ Context!Cancel
     \/ Context!AllEnded /\ cve = "asking" /\ Context!SiblingRaises
     \/ stage = "tagging" /\ UNCHANGED ctx
  /\ cve' = IF cve = "asking" THEN "cancelled" ELSE cve
  /\ stage' = Halted(stage)
  /\ UNCHANGED <<truth, errors, findings, signals, vulns, verdict>>

Housekeeping == /\ Context!UnpackOrphaned \/ Context!Finalize
                /\ UNCHANGED <<truth, own>>

Over == /\ stage \in {"answered", "raised", "cancelled"} /\ cve # "asking"
        /\ Context!Terminated
        /\ UNCHANGED <<truth, own>>

Next == \/ \E t \in Context!Tasks : LayerStep(t)
        \/ CveAnswers \/ CveRaises
        \/ Gathered \/ Abandoned
        \/ TaggingRaises \/ Answer
        \/ Cancel \/ Housekeeping \/ Over

(* As in PackageContext; httpx ends the OSV requests with a timeout as well. *)
Fairness == /\ \A t \in Context!Tasks : WF_vars(LayerStep(t))
            /\ WF_vars(CveAnswers \/ CveRaises)
            /\ WF_vars(Gathered) /\ WF_vars(Abandoned) /\ WF_vars(Answer)

Spec == Init /\ [][Next]_vars /\ Fairness

-----------------------------------------------------------------------------
(* The types of this module's variables; PackageContext has its own. *)
TypeOK ==
  /\ Context!TypeOK
  /\ truth \in Truths
  /\ cve \in {"asking", "done", "raised", "cancelled"}
  /\ stage \in {"layers", "tagging", "answered", "raised", "cancelled"}
  /\ errors \subseteq (Context!Tasks \cup {"cve"}) \X
       (Context!PyPIErrors \cup {"unreadable", "partial"})
  /\ findings \subseteq Readers \X {"medium", "high"}
  /\ signals \in RiskSignals
  /\ vulns \in BOOLEAN
  /\ verdict \in Verdicts \cup {"none"}

(* The verdict a scan gives when no layer fails and every file is read. *)
HasArtifact == truth.kind = "published"
OnPyPI == truth.kind # "missing"
VerdictWith(high) ==
  Decide(truth.vulnerable, high,
         ComputeScore(Signals(truth.typo, OnPyPI /\ truth.new,
                              OnPyPI /\ truth.burst, HasArtifact /\ truth.setup)))
TrueVerdict == VerdictWith(HasArtifact /\ truth.bad # "none")

(* Files without a size that no layer tells of. *)
Overlooked ==
  \/ truth.bad = "unsized pth"
  \/ truth.bad = "unsized" /\ ~WithBandit

(***************************************************************************)
(* A response without layer errors gives the verdict of a scan in which    *)
(* nothing failed: whatever failed, in whatever order the layers met the   *)
(* failure, and whichever of them swallowed it, one of them has told.      *)
(* There is one exception, a file whose size cannot be had and that Bandit *)
(* does not look at: the rules leave it out without a word, and the        *)
(* verdict is that of the release without it.  The rules say nothing of a  *)
(* .py without a size either, but Bandit, when it runs, does.              *)
(***************************************************************************)
FullScanIsRight ==
  stage = "answered" /\ errors = {} =>
    verdict = IF Overlooked THEN VerdictWith(FALSE) ELSE TrueVerdict

(***************************************************************************)
(* A failure never makes a package look worse, and Bandit never decides:   *)
(* no verdict is harder than the one of the scan in which nothing failed.  *)
(***************************************************************************)
FailureOnlySoftens ==
  stage = "answered" => Severity(verdict) <= Severity(TrueVerdict)

(***************************************************************************)
(* When there is an artifact and the static layer did not get to read it,  *)
(* layer_errors is not empty, even if the exception reached another layer  *)
(* first and the static layer was told that there is no artifact.          *)
(***************************************************************************)
NotLookedIsTold ==
  stage = "answered" /\ HasArtifact /\ artifactGot[static] # "tree" => errors # {}

(***************************************************************************)
(* What the watcher recognises a removal by ("not on PyPI" in some layer   *)
(* error) is there whenever PyPI said so, and only then.                   *)
(***************************************************************************)
Gone == \E e \in errors : e[2] = "missing"
RemovalIsTold ==
  stage = "answered" => (Gone <=> project = "missing")

(* Every scan ends in an answer, an exception or a cancellation. *)
EveryScanEnds == <>(stage \in {"answered", "raised", "cancelled"})

(***************************************************************************)
(* What the schema says of layer_errors: empty means that all layers did   *)
(* their work.  It does not hold of a version that was never published.    *)
(***************************************************************************)
EmptyMeansAllLooked ==
  stage = "answered" /\ errors = {} => artifactGot[static] = "tree" \/ truth.kind = "bare"
=============================================================================
