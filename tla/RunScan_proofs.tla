--------------------------- MODULE RunScan_proofs ---------------------------
(***************************************************************************)
(* What an answer of run_scan says of the release, for every set of        *)
(* releases, with Bandit or without.  The layers and their context are     *)
(* those of PackageContext, so its invariants hold here; on top of them    *)
(* lies what each layer has reported when it ends.                         *)
(***************************************************************************)
EXTENDS RunScan, Scoring_proofs

C == INSTANCE PackageContext_proofs

(* The constants of the context are what PackageContext assumes of them. *)
LEMMA TasksAssumed ==
  /\ Readers \cap Scorers = {} /\ Guarded \subseteq C!Tasks /\ Nobody \notin C!Tasks
  /\ static \in Readers \ Guarded /\ scoring \in Scorers /\ scoring \in Guarded
  /\ C!Tasks = Readers \cup Scorers
  /\ C!Tasks \subseteq {static, bandit, scoring}
BY RunScanAssumption DEF Readers, Scorers, Guarded, C!Tasks

-----------------------------------------------------------------------------
(* RunScan and the proofs speak of the same context. *)
LEMMA SameWords ==
  /\ Context!Tasks = C!Tasks /\ Context!Ended = C!Ended
  /\ Context!PyPIErrors = C!PyPIErrors
  /\ Context!Init <=> C!Init
  /\ Context!TypeOK <=> C!TypeOK
  /\ Context!AllEnded <=> C!AllEnded
BY DEF Context!Tasks, C!Tasks, Context!Ended, C!Ended, Context!PyPIErrors,
       C!PyPIErrors, Context!Init, C!Init, Context!TypeOK, C!TypeOK,
       Context!Projects, C!Projects, Context!Replies, C!Replies,
       Context!Artifacts, C!Artifacts, Context!AllEnded, C!AllEnded

LEMMA SameStep ==
  ASSUME NEW t \in C!Tasks, Context!Step(t)
  PROVE  C!Step(t)
<1> USE DEF Context!Replies, C!Replies, Context!Projects, C!Projects,
            Context!PyPIErrors, C!PyPIErrors, Context!Free, C!Free,
            Context!Cached, C!Cached
<1>1. ASSUME NEW r PROVE Context!Hand(t, r) <=> C!Hand(t, r)
  BY DEF Context!Hand, C!Hand
<1>2. ASSUME NEW r PROVE Context!FinishArtifact(t, r) <=> C!FinishArtifact(t, r)
  BY <1>1 DEF Context!FinishArtifact, C!FinishArtifact
<1>3. ASSUME NEW p PROVE Context!AfterProject(t, p) <=> C!AfterProject(t, p)
  BY <1>1, <1>2 DEF Context!AfterProject, C!AfterProject
<1>4. Context!ProjectHit(t) => C!ProjectHit(t)
  BY <1>3 DEF Context!ProjectHit, C!ProjectHit, Context!WantsProject, C!WantsProject
<1>5. Context!ProjectMiss(t) => C!ProjectMiss(t)
  BY DEF Context!ProjectMiss, C!ProjectMiss, Context!WantsProject, C!WantsProject
<1>6. ASSUME NEW r PROVE Context!FetchReply(t, r) => C!FetchReply(t, r)
  BY <1>3 DEF Context!FetchReply, C!FetchReply
<1>7. Context!ArtifactHit(t) => C!ArtifactHit(t)
  BY <1>1 DEF Context!ArtifactHit, C!ArtifactHit, Context!WantsArtifact, C!WantsArtifact
<1>8. Context!ArtifactMiss(t) => C!ArtifactMiss(t)
  BY DEF Context!ArtifactMiss, C!ArtifactMiss, Context!WantsArtifact, C!WantsArtifact
<1>9. Context!Downloaded(t) => C!Downloaded(t)
  BY DEF Context!Downloaded, C!Downloaded
<1>10. ASSUME NEW r PROVE Context!DownloadFails(t, r) => C!DownloadFails(t, r)
  BY <1>2 DEF Context!DownloadFails, C!DownloadFails
<1>11. ASSUME NEW r PROVE Context!Unpacked(t, r) => C!Unpacked(t, r)
  BY <1>2 DEF Context!Unpacked, C!Unpacked, Context!ThreadWrote, C!ThreadWrote
<1>12. ASSUME NEW ok \in BOOLEAN PROVE Context!ReadDone(t, ok) => C!ReadDone(t, ok)
  BY DEF Context!ReadDone, C!ReadDone
<1>13. Context!ReadOrphaned(t) => C!ReadOrphaned(t)
  BY DEF Context!ReadOrphaned, C!ReadOrphaned
<1> QED
  BY <1>4, <1>5, <1>6, <1>7, <1>8, <1>9, <1>10, <1>11, <1>12, <1>13
  DEF Context!Step, C!Step

LEMMA SameExit ==
  ASSUME NEW how
  PROVE  Context!Exit(how) <=> C!Exit(how)
BY DEF Context!Exit, C!Exit, Context!Cleanup, C!Cleanup, Context!Undisturbed, C!Undisturbed

LEMMA SameOthers ==
  /\ Context!UnpackOrphaned => C!UnpackOrphaned
  /\ Context!Leave => C!Leave
  /\ Context!Escape => C!Escape
  /\ Context!SiblingRaises => C!SiblingRaises
  /\ Context!Cancel => C!Cancel
  /\ Context!Finalize => C!Finalize
  /\ Context!Terminated => C!Terminated
<1>1. Context!Tasks = C!Tasks /\ Context!Ended = C!Ended /\ (Context!AllEnded <=> C!AllEnded)
  BY SameWords
<1>2. Context!UnpackOrphaned => C!UnpackOrphaned
  BY DEF Context!UnpackOrphaned, C!UnpackOrphaned, Context!ThreadWrote, C!ThreadWrote
<1>3. Context!Leave => C!Leave
  BY <1>1, SameExit DEF Context!Leave, C!Leave
<1>4. Context!Escape => C!Escape
  BY <1>1, SameExit DEF Context!Escape, C!Escape
<1>5. Context!SiblingRaises => C!SiblingRaises
  BY SameExit DEF Context!SiblingRaises, C!SiblingRaises
<1>6. Context!Cancel => C!Cancel
  BY <1>1 DEF Context!Cancel, C!Cancel, Context!Cleanup, C!Cleanup
<1>7. Context!Finalize => C!Finalize
  BY <1>1 DEF Context!Finalize, C!Finalize, Context!Cleanup, C!Cleanup,
              Context!Undisturbed, C!Undisturbed
<1>8. Context!Terminated => C!Terminated
  BY <1>1 DEF Context!Terminated, C!Terminated, Context!vars, C!vars
<1> QED
  BY <1>2, <1>3, <1>4, <1>5, <1>6, <1>7, <1>8

(* Every step of a scan is one of its context, or leaves the context alone. *)
LEMMA StepsOfContext ==
  ASSUME [Next]_vars
  PROVE  [C!Next]_(C!vars)
<1>1. ASSUME NEW t \in Context!Tasks, LayerStep(t) PROVE C!Next
  BY <1>1, SameWords, SameStep DEF LayerStep, C!Next
<1>2. CASE CveAnswers \/ CveRaises \/ TaggingRaises \/ Answer \/ UNCHANGED vars
  BY <1>2 DEF CveAnswers, CveRaises, TaggingRaises, Answer, vars, ctx, C!vars
<1>3. CASE Gathered \/ Abandoned \/ Housekeeping \/ Over
  BY <1>3, SameOthers DEF Gathered, Abandoned, Housekeeping, Over, C!Next
<1>4. CASE Cancel
  BY <1>4, SameOthers DEF Cancel, C!Next, C!vars, ctx
<1> QED
  BY <1>1, <1>2, <1>3, <1>4 DEF Next

-----------------------------------------------------------------------------
(* The invariants of the context, and what PyPI answers is true.           *)
ContextInv == C!IInv /\ C!TreeInv /\ C!SourceInv

LEMMA InitContextInv == Init => ContextInv
<1> SUFFICES ASSUME Init PROVE ContextInv
  OBVIOUS
<1>1. C!Init
  BY SameWords DEF Init
<1> QED
  BY <1>1, TasksAssumed, C!InitIInv, C!InitTreeInv, C!InitSourceInv DEF ContextInv

LEMMA NextContextInv ==
  ASSUME ContextInv, [Next]_vars
  PROVE  ContextInv'
<1>1. [C!Next]_(C!vars)
  BY StepsOfContext
<1> QED
  BY <1>1, TasksAssumed, C!NextIInv, C!NextTreeInv, C!NextSourceInv DEF ContextInv

LEMMA ContextInvariance == Spec => []ContextInv
BY InitContextInv, NextContextInv, PTL DEF Spec

(* run_scan uses its context as PackageContext says: every scan is one of  *)
(* its behaviours, as far as safety goes.                                  *)
THEOREM ScanIsAContext == Spec => Context!Init /\ [][Context!Next]_(Context!vars)
<1>1. Init => Context!Init
  BY DEF Init
<1>2. [Next]_vars => [Context!Next]_(Context!vars)
  <2> SUFFICES ASSUME [Next]_vars PROVE Context!Next \/ UNCHANGED Context!vars
    OBVIOUS
  <2>1. ASSUME NEW t \in Context!Tasks, LayerStep(t) PROVE Context!Next
    BY <2>1 DEF LayerStep, Context!Next
  <2>2. CASE CveAnswers \/ CveRaises \/ TaggingRaises \/ Answer \/ UNCHANGED vars
    BY <2>2 DEF CveAnswers, CveRaises, TaggingRaises, Answer, vars, ctx, Context!vars
  <2>3. CASE Gathered \/ Abandoned \/ Housekeeping \/ Over
    BY <2>3 DEF Gathered, Abandoned, Housekeeping, Over, Context!Next
  <2>4. CASE Cancel
    BY <2>4 DEF Cancel, Context!Next, Context!vars, ctx
  <2> QED
    BY <2>1, <2>2, <2>3, <2>4 DEF Next
<1> QED
  BY <1>1, <1>2, PTL DEF Spec

(* So a scan fetches at most once, tells its layers one answer, and leaves *)
(* nothing behind when it answers.                                         *)
THEOREM ScanKeepsItsContext ==
  Spec => [](Context!AtMostOnce /\ Context!OneAnswer /\ Context!CleanExit)
<1>1. ContextInv => Context!AtMostOnce
  BY DEF ContextInv, C!IInv, C!Counters, Context!AtMostOnce
<1>2. ContextInv => Context!OneAnswer
  BY SameWords DEF ContextInv, C!IInv, C!Told, Context!OneAnswer
<1>3. ContextInv => Context!CleanExit
  <2> SUFFICES ASSUME ContextInv PROVE Context!CleanExit
    OBVIOUS
  <2>1. scope = "left" => reading = {} /\ unpacking = Nobody
    BY TasksAssumed DEF ContextInv, C!IInv, C!TypeOK, C!TreeInv, C!Threads
  <2> QED
    BY <2>1 DEF ContextInv, C!TreeInv, C!Threads, C!Directory, Context!CleanExit
<1> QED
  BY <1>1, <1>2, <1>3, ContextInvariance, PTL
-----------------------------------------------------------------------------
(* The types of this module's own variables, the context aside.            *)
OwnTypes ==
  /\ truth \in Truths
  /\ cve \in {"asking", "done", "raised", "cancelled"}
  /\ stage \in {"layers", "tagging", "answered", "raised", "cancelled"}
  /\ errors \subseteq (C!Tasks \cup {"cve"}) \X (C!PyPIErrors \cup {"unreadable", "partial"})
  /\ findings \subseteq Readers \X {"medium", "high"}
  /\ signals \in RiskSignals
  /\ vulns \in BOOLEAN
  /\ verdict \in Verdicts \cup {"none"}

PyPISays == project \in {"unset", "failed", truth.kind}

(* The signals of what the scoring layer was told.                         *)
SignalsTold ==
  LET known == projectGot[scoring] \in C!Projects
  IN  Signals(truth.typo, known /\ truth.new, known /\ truth.burst,
              artifactGot[scoring] = "tree" /\ truth.setup)

(***************************************************************************)
(* What a layer that has ended has reported: each error of PyPI that       *)
(* reached it by its name, a tree it did not read, an exception it caught, *)
(* and a .py without a size that Bandit met; and nothing it was not told.  *)
(***************************************************************************)
StaticReported ==
  pc[static] = "done" =>
    /\ artifactGot[static] \in C!PyPIErrors => <<static, artifactGot[static]>> \in errors
    /\ artifactGot[static] = "tree" /\ truth.bad = "sized" => HighFound \/ errors # {}
CaughtReported ==
  \A t \in Guarded :
    /\ pc[t] = "done" /\ artifactGot[t] = "broken" => errors # {}
    /\ t = bandit /\ pc[t] = "done" /\ artifactGot[t] = "tree" /\ truth.bad = "unsized" =>
         errors # {}
ScoringReported ==
  /\ signals = Neutral \/ (pc[scoring] \in {"done", "raised"} /\ signals = SignalsTold)
  /\ pc[scoring] = "done" =>
       errors # {} \/ (projectGot[scoring] # "broken" /\ signals = SignalsTold)
OnlyTheTruth ==
  /\ \A e \in errors : e[2] = "missing" => project = "missing"
  /\ HighFound => truth.bad = "sized" /\ artifactGot[static] = "tree"
                  /\ pc[static] \in {"done", "raised"}

Reports == StaticReported /\ CaughtReported /\ ScoringReported /\ OnlyTheTruth

Advisories ==
  /\ vulns => truth.vulnerable
  /\ cve = "done" => vulns = truth.vulnerable \/ errors # {}

(* What follows the gather: nothing of it happens before all have returned. *)
Outcome ==
  /\ stage \in {"tagging", "answered"} => scope = "left" /\ cve = "done"
  /\ stage = "answered" => verdict = Decide(vulns, HighFound, ComputeScore(signals))

Inv == ContextInv /\ OwnTypes /\ PyPISays /\ Reports /\ Advisories /\ Outcome

-----------------------------------------------------------------------------
LEMMA TruthTypes ==
  ASSUME truth \in Truths
  PROVE  /\ truth.kind \in Kinds /\ truth.typo \in Similarities
         /\ truth.new \in BOOLEAN /\ truth.burst \in BOOLEAN /\ truth.setup \in BOOLEAN
         /\ truth.bad \in BadFiles /\ truth.vulnerable \in BOOLEAN
BY RunScanAssumption

LEMMA SignalsType ==
  ASSUME NEW typo \in Similarities, NEW new \in BOOLEAN, NEW burst \in BOOLEAN,
         NEW setup \in BOOLEAN
  PROVE  Signals(typo, new, burst, setup) \in RiskSignals
BY DEF Signals, RiskSignals

LEMMA NeutralType == Neutral \in RiskSignals
BY DEF Neutral, Signals, RiskSignals, Similarities

LEMMA VerdictType ==
  ASSUME NEW v \in BOOLEAN, NEW h \in BOOLEAN, NEW s \in 0..MAX_SCORE
  PROVE  Decide(v, h, s) \in Verdicts
BY SMT DEF Decide, BLOCK_AT, WARN_AT, MAX_SCORE, Verdicts

LEMMA InitInv == Init => Inv
<1> SUFFICES ASSUME Init PROVE Inv
  OBVIOUS
<1>1. ContextInv
  BY InitContextInv
<1>2. OwnTypes
  BY NeutralType DEF Init, OwnTypes
<1>3. project = "unset" /\ pc[static] = "idle" /\ pc[scoring] = "idle"
      /\ \A t \in Guarded : pc[t] = "idle"
  BY TasksAssumed, SameWords DEF Init, C!Init
<1>4. PyPISays /\ Advisories /\ Outcome
  BY <1>3 DEF Init, PyPISays, Advisories, Outcome
<1>5. Reports
  BY <1>3 DEF Init, Reports, StaticReported, CaughtReported, ScoringReported,
              OnlyTheTruth, HighFound
<1> QED
  BY <1>1, <1>2, <1>4, <1>5 DEF Inv

-----------------------------------------------------------------------------
(* What a step of layer t leaves as it was. *)
LEMMA LayerFrame ==
  ASSUME Inv, NEW t \in C!Tasks, LayerStep(t)
  PROVE  /\ pc[t] \notin {"done", "raised"}
         /\ pc[t] = "cancelled" => pc'[t] = "cancelled"
         /\ \A u \in C!Tasks \ {t} : /\ pc'[u] = pc[u]
                                     /\ artifactGot'[u] = artifactGot[u]
                                     /\ projectGot'[u] = projectGot[u]
         /\ project' = project \/ project = "unset"
         /\ truth' = truth
         /\ stage \notin {"tagging", "answered"}
<1>1. C!Step(t)
  BY SameStep DEF LayerStep
<1>2. /\ pc[t] \notin {"done", "raised"}
      /\ pc[t] = "cancelled" => pc'[t] = "cancelled"
      /\ \A u \in C!Tasks \ {t} : /\ pc'[u] = pc[u]
                                  /\ artifactGot'[u] = artifactGot[u]
                                  /\ projectGot'[u] = projectGot[u]
      /\ project' = project \/ project = "unset"
  BY <1>1, TasksAssumed, C!StepFrame DEF Inv, ContextInv
<1>3. stage \notin {"tagging", "answered"}
  BY <1>2 DEF Inv, Outcome, ContextInv, C!TreeInv, C!Threads
<1> QED
  BY <1>2, <1>3 DEF LayerStep

(* What an error says of the project stays true of it. *)
LEMMA ErrorsStayTrue ==
  ASSUME Inv, NEW t \in C!Tasks, LayerStep(t), NEW e \in errors, e[2] = "missing"
  PROVE  project' = "missing"
BY LayerFrame DEF Inv, Reports, OnlyTheTruth

(* A layer is told that the project is missing only if it is. *)
LEMMA MissingIsTrue ==
  ASSUME ContextInv, NEW t \in C!Tasks, artifactGot[t] = "missing"
  PROVE  project = "missing"
BY DEF ContextInv, C!IInv, C!Told, C!SourceInv, C!Origin

LEMMA QuietStep ==
  ASSUME Inv, ContextInv', NEW t \in C!Tasks, LayerStep(t), ~Ends(t)
  PROVE  Inv'
<1> USE DEF Inv
<1>1. UNCHANGED own /\ PyPISays' /\ truth' = truth
  BY DEF LayerStep, Truthful, PyPISays
<1>2. pc[t] \notin {"done", "raised"} /\ pc'[t] \notin {"done", "raised"}
  BY LayerFrame, SameWords DEF Ends, C!Ended
<1>3. \A u \in C!Tasks : pc'[u] \in {"done", "raised"} =>
        /\ u # t /\ pc'[u] = pc[u]
        /\ artifactGot'[u] = artifactGot[u] /\ projectGot'[u] = projectGot[u]
  BY <1>2, LayerFrame
<1>4. OwnTypes' /\ Advisories'
  BY <1>1 DEF own, OwnTypes, Advisories
<1>5. Outcome'
  BY <1>1, LayerFrame DEF own, Outcome
<1>6. HighFound' = HighFound
  BY <1>1 DEF own, HighFound
<1>7. StaticReported' /\ CaughtReported'
  BY <1>1, <1>3, <1>6, TasksAssumed DEF own, Reports, StaticReported, CaughtReported
<1>8. ScoringReported'
  <2>1. CASE t = scoring
    <3>1. signals = Neutral
      BY <1>2, <2>1 DEF Reports, ScoringReported
    <3> QED
      BY <1>1, <1>2, <2>1, <3>1 DEF own, ScoringReported, Neutral
  <2>2. CASE t # scoring
    <3>1. /\ pc'[scoring] = pc[scoring]
          /\ artifactGot'[scoring] = artifactGot[scoring]
          /\ projectGot'[scoring] = projectGot[scoring]
      BY <2>2, LayerFrame, TasksAssumed
    <3>2. SignalsTold' = SignalsTold
      BY <1>1, <3>1 DEF SignalsTold, C!Projects
    <3> QED
      BY <1>1, <3>1, <3>2 DEF own, Reports, ScoringReported, Neutral
  <2> QED
    BY <2>1, <2>2
<1>9. OnlyTheTruth'
  <2>1. \A e \in errors' : e[2] = "missing" => project' = "missing"
    BY <1>1, ErrorsStayTrue DEF own
  <2>2. HighFound => /\ pc'[static] = pc[static]
                     /\ artifactGot'[static] = artifactGot[static]
    BY <1>2, LayerFrame, TasksAssumed DEF Reports, OnlyTheTruth
  <2> QED
    BY <1>1, <1>6, <2>1, <2>2 DEF Reports, OnlyTheTruth
<1> QED
  BY <1>1, <1>4, <1>5, <1>7, <1>8, <1>9 DEF Reports

(* What a layer's report leaves alone: nobody loses an error, and the other *)
(* layers' reports stand.                                                  *)
LEMMA EndFrame ==
  ASSUME Inv, ContextInv', NEW t \in C!Tasks, LayerStep(t), Ends(t)
  PROVE  /\ Report(t) /\ UNCHANGED <<cve, stage, vulns, verdict>>
         /\ PyPISays' /\ truth' = truth
         /\ stage \notin {"tagging", "answered"}
         /\ pc[t] \notin {"done", "raised"} /\ pc'[t] \in {"done", "raised"}
         /\ artifactGot'[t] = "missing" => project' = "missing"
<1>1. Report(t) /\ UNCHANGED <<cve, stage, vulns, verdict>>
  BY DEF LayerStep
<1>2. PyPISays' /\ truth' = truth
  BY DEF LayerStep, Truthful, PyPISays
<1>3. artifactGot'[t] = "missing" => project' = "missing"
  BY DEF ContextInv, C!IInv, C!Told, C!SourceInv, C!Origin
<1> QED
  BY <1>1, <1>2, <1>3, LayerFrame DEF Ends

(* So the types, the advisories and the outcome need only the error sets.  *)
LEMMA EndRest ==
  ASSUME Inv, ContextInv', NEW t \in C!Tasks, LayerStep(t), Ends(t),
         errors \subseteq errors',
         errors' \subseteq errors \cup
           ({t} \X (C!PyPIErrors \cup {"unreadable", "partial"})),
         findings' \subseteq Readers \X {"medium", "high"}, signals' \in RiskSignals,
         Reports'
  PROVE  Inv'
<1> USE DEF Inv
<1>1. /\ UNCHANGED <<cve, stage, vulns, verdict>>
      /\ PyPISays' /\ truth' = truth /\ stage \notin {"tagging", "answered"}
  BY EndFrame
<1>2. OwnTypes'
  BY <1>1 DEF OwnTypes
<1>3. Advisories'
  BY <1>1 DEF Advisories
<1>4. Outcome'
  BY <1>1 DEF Outcome
<1> QED
  BY <1>1, <1>2, <1>3, <1>4

LEMMA StaticEnds ==
  ASSUME Inv, ContextInv', static \in C!Tasks, LayerStep(static), Ends(static)
  PROVE  Inv'
<1> USE DEF Inv
<1> DEFINE got == artifactGot'[static]
<1>1. StaticReports /\ signals' = signals
  BY EndFrame, RunScanAssumption DEF Report
<1>2. \/ pc'[static] = "raised" /\ UNCHANGED <<errors, findings>>
      \/ /\ pc'[static] = "done" /\ got \in C!PyPIErrors
         /\ errors' = errors \cup {<<static, got>>} /\ findings' = findings
      \/ /\ pc'[static] = "done" /\ got = "none" /\ UNCHANGED <<errors, findings>>
      \/ /\ pc'[static] = "done" /\ got = "tree"
         /\ errors' \in {errors, errors \cup {<<static, "unreadable">>}}
         /\ findings' = findings \cup (IF truth.bad = "sized" THEN {<<static, "high">>} ELSE {})
      \/ /\ pc'[static] = "done" /\ got = "tree"
         /\ errors' = errors \cup {<<static, "unreadable">>} /\ findings' = findings
  BY <1>1, SameWords DEF StaticReports, Unread, NothingToRead, Analysed, Candidate, Tell, Silent
<1>3. /\ pc[static] \notin {"done", "raised"}
      /\ \A u \in C!Tasks \ {static} : /\ pc'[u] = pc[u]
                                       /\ artifactGot'[u] = artifactGot[u]
                                       /\ projectGot'[u] = projectGot[u]
      /\ truth' = truth
      /\ got = "missing" => project' = "missing"
  BY LayerFrame, EndFrame
<1>4. ~HighFound
  BY <1>3 DEF Reports, OnlyTheTruth
<1>5. /\ errors \subseteq errors'
      /\ errors' \subseteq errors \cup ({static} \X (C!PyPIErrors \cup {"unreadable", "partial"}))
      /\ findings' \subseteq Readers \X {"medium", "high"}
  BY <1>2, TasksAssumed DEF OwnTypes
<1>6. StaticReported'
  <2> SUFFICES ASSUME pc'[static] = "done"
               PROVE  /\ got \in C!PyPIErrors => <<static, got>> \in errors'
                      /\ got = "tree" /\ truth.bad = "sized" => HighFound' \/ errors' # {}
    BY <1>3 DEF StaticReported, C!PyPIErrors
  <2>1. got \in C!PyPIErrors => <<static, got>> \in errors'
    BY <1>2 DEF C!PyPIErrors
  <2>2. ASSUME got = "tree", truth.bad = "sized", errors' = {} PROVE HighFound'
    <3>1. <<static, "high">> \in findings'
      BY <1>2, <2>2 DEF C!PyPIErrors
    <3> QED
      BY <3>1 DEF HighFound
  <2> QED
    BY <2>1, <2>2
<1>7. CaughtReported'
  BY <1>3, <1>5, TasksAssumed DEF Reports, CaughtReported
<1>8. ScoringReported'
  <2>1. /\ pc'[scoring] = pc[scoring]
        /\ artifactGot'[scoring] = artifactGot[scoring]
        /\ projectGot'[scoring] = projectGot[scoring]
    BY <1>3, TasksAssumed
  <2>2. SignalsTold' = SignalsTold
    BY <1>3, <2>1 DEF SignalsTold, C!Projects
  <2> QED
    BY <1>1, <1>5, <2>1, <2>2 DEF Reports, ScoringReported, Neutral
<1>9. OnlyTheTruth'
  <2>1. \A e \in errors' : e[2] = "missing" => project' = "missing"
    <3> SUFFICES ASSUME NEW e \in errors', e[2] = "missing" PROVE project' = "missing"
      OBVIOUS
    <3>1. CASE e \in errors
      BY <3>1, ErrorsStayTrue
    <3>2. CASE e \notin errors
      BY <1>2, <1>3, <3>2
    <3> QED
      BY <3>1, <3>2
  <2>2. HighFound' => truth.bad = "sized" /\ got = "tree" /\ pc'[static] = "done"
    BY <1>2, <1>4 DEF HighFound
  <2> QED
    BY <1>3, <2>1, <2>2 DEF OnlyTheTruth
<1> QED
  BY <1>1, <1>5, <1>6, <1>7, <1>8, <1>9, EndRest DEF Reports, OwnTypes

LEMMA BanditEnds ==
  ASSUME Inv, ContextInv', bandit \in C!Tasks, LayerStep(bandit), Ends(bandit)
  PROVE  Inv'
<1> USE DEF Inv
<1> DEFINE got == artifactGot'[bandit]
<1>1. BanditReports /\ signals' = signals
  BY EndFrame, RunScanAssumption DEF Report
<1>2. /\ \/ errors' = errors
         \/ \E why \in C!PyPIErrors \cup {"partial"} :
              /\ errors' = errors \cup {<<bandit, why>>}
              /\ why = "missing" => got = "missing"
      /\ got = "broken" => <<bandit, "failed">> \in errors'
      /\ findings' \in {findings, findings \cup {<<bandit, "medium">>}}
  BY <1>1, SameWords
  DEF BanditReports, Unread, NothingToRead, Tell, Silent, Cap, C!PyPIErrors
<1>3. /\ \A u \in C!Tasks \ {bandit} : /\ pc'[u] = pc[u]
                                       /\ artifactGot'[u] = artifactGot[u]
                                       /\ projectGot'[u] = projectGot[u]
      /\ truth' = truth
      /\ got = "missing" => project' = "missing"
  BY LayerFrame, EndFrame
<1>4. /\ static # bandit /\ scoring # bandit /\ bandit \in Readers
      /\ static \in C!Tasks /\ scoring \in C!Tasks
  BY TasksAssumed, RunScanAssumption DEF Scorers
<1>5. /\ errors \subseteq errors'
      /\ errors' \subseteq errors \cup ({bandit} \X (C!PyPIErrors \cup {"unreadable", "partial"}))
      /\ findings' \subseteq Readers \X {"medium", "high"}
  BY <1>2, <1>4 DEF OwnTypes
<1>6. HighFound' = HighFound
  BY <1>2 DEF HighFound
<1>7. StaticReported'
  BY <1>3, <1>4, <1>5, <1>6 DEF Reports, StaticReported
<1>8. CaughtReported'
  <2>1. ASSUME got = "tree", truth.bad = "unsized" PROVE errors' # {}
    <3>1. Tell(bandit, "failed") \/ Tell(bandit, "partial")
      BY <1>1, <2>1, SameWords DEF BanditReports, Unread, NothingToRead, C!PyPIErrors
    <3> QED
      BY <3>1 DEF Tell
  <2> QED
    BY <1>2, <1>3, <1>5, <2>1, TasksAssumed DEF Reports, CaughtReported
<1>9. ScoringReported'
  <2>1. SignalsTold' = SignalsTold
    BY <1>3, <1>4 DEF SignalsTold, C!Projects
  <2> QED
    BY <1>1, <1>3, <1>4, <1>5, <2>1 DEF Reports, ScoringReported, Neutral
<1>10. OnlyTheTruth'
  <2>1. \A e \in errors' : e[2] = "missing" => project' = "missing"
    <3> SUFFICES ASSUME NEW e \in errors', e[2] = "missing" PROVE project' = "missing"
      OBVIOUS
    <3>1. CASE e \in errors
      BY <3>1, ErrorsStayTrue
    <3>2. CASE e \notin errors
      BY <1>2, <1>3, <3>2
    <3> QED
      BY <3>1, <3>2
  <2> QED
    BY <1>3, <1>4, <1>6, <2>1 DEF Reports, OnlyTheTruth
<1> QED
  BY <1>1, <1>5, <1>7, <1>8, <1>9, <1>10, EndRest DEF Reports, OwnTypes

LEMMA ScoringEnds ==
  ASSUME Inv, ContextInv', scoring \in C!Tasks, LayerStep(scoring), Ends(scoring)
  PROVE  Inv'
<1> USE DEF Inv
<1>1. ScoringReports /\ findings' = findings
  BY EndFrame, RunScanAssumption DEF Report
<1>2. /\ \A u \in C!Tasks \ {scoring} : /\ pc'[u] = pc[u]
                                        /\ artifactGot'[u] = artifactGot[u]
                                        /\ projectGot'[u] = projectGot[u]
      /\ pc'[scoring] \in {"done", "raised"} /\ truth' = truth
  BY LayerFrame, EndFrame
<1>3. static # scoring /\ static \in C!Tasks
  BY TasksAssumed, RunScanAssumption
<1>4. SignalsTold' \in RiskSignals
  BY <1>2, TruthTypes, SignalsType DEF SignalsTold, OwnTypes
<1>5. \/ errors' = errors \cup {<<scoring, "failed">>} /\ signals' = Neutral
      \/ /\ errors' = errors /\ signals' = SignalsTold'
         /\ projectGot'[scoring] # "broken" /\ artifactGot'[scoring] # "broken"
  <2>1. CASE ScoringRaises
    BY <2>1 DEF ScoringRaises, Tell
  <2>2. CASE ~ScoringRaises
    <3> DEFINE metadata == MetadataOf(projectGot'[scoring])
               known == projectGot'[scoring] \in C!Projects
    <3>1. /\ signals' = Signals(truth.typo, metadata.new, metadata.burst, SetupSeen)
          /\ errors' = errors
          /\ projectGot'[scoring] # "broken" /\ artifactGot'[scoring] # "broken"
      BY <1>1, <2>2 DEF ScoringReports, Silent
    <3>2. metadata = [new |-> known /\ truth.new, burst |-> known /\ truth.burst]
      <4>1. truth.new \in BOOLEAN /\ truth.burst \in BOOLEAN
        BY TruthTypes DEF OwnTypes
      <4>2. CASE known
        BY <4>1, <4>2 DEF MetadataOf, C!Projects
      <4>3. CASE ~known
        BY <4>1, <4>3 DEF MetadataOf, C!Projects
      <4> QED
        BY <4>2, <4>3
    <3>3. metadata.new = (known /\ truth.new) /\ metadata.burst = (known /\ truth.burst)
      BY <3>2
    <3>4. signals' = SignalsTold'
      BY <1>2, <3>1, <3>3 DEF SignalsTold, SetupSeen, C!Projects
    <3> QED
      BY <3>1, <3>4
  <2> QED
    BY <2>1, <2>2
<1>6. /\ errors \subseteq errors'
      /\ errors' \subseteq errors \cup ({scoring} \X (C!PyPIErrors \cup {"unreadable", "partial"}))
      /\ signals' \in RiskSignals
  BY <1>4, <1>5, NeutralType DEF C!PyPIErrors
<1>7. HighFound' = HighFound
  BY <1>1 DEF HighFound
<1>8. StaticReported'
  BY <1>2, <1>3, <1>6, <1>7 DEF Reports, StaticReported, C!PyPIErrors
<1>9. CaughtReported'
  BY <1>2, <1>5, <1>6, TasksAssumed, RunScanAssumption DEF Reports, CaughtReported
<1>10. ScoringReported'
  BY <1>2, <1>5 DEF ScoringReported, Neutral
<1>11. OnlyTheTruth'
  <2>1. \A e \in errors' : e[2] = "missing" => project' = "missing"
    BY <1>5, ErrorsStayTrue
  <2> QED
    BY <1>2, <1>3, <1>7, <2>1 DEF Reports, OnlyTheTruth
<1> QED
  BY <1>1, <1>6, <1>8, <1>9, <1>10, <1>11, EndRest DEF Reports, OwnTypes

LEMMA LayerInv ==
  ASSUME Inv, ContextInv', NEW t \in C!Tasks, LayerStep(t)
  PROVE  Inv'
<1>1. CASE ~Ends(t)
  BY <1>1, QuietStep
<1>2. CASE Ends(t)
  BY <1>2, TasksAssumed, StaticEnds, BanditEnds, ScoringEnds
<1> QED
  BY <1>1, <1>2

-----------------------------------------------------------------------------
(***************************************************************************)
(* Outside of the layers' steps nothing returns and nobody is told         *)
(* anything, so that the reports stand; OSV's error names no project.      *)
(***************************************************************************)
LEMMA OthersFrame ==
  ASSUME Inv, ContextInv',
         \/ UNCHANGED C!vars \/ C!Cancel \/ C!UnpackOrphaned \/ C!Finalize
         \/ \E how \in {"left", "abandoned"} : C!Exit(how),
         errors' \in {errors, errors \cup {<<"cve", "failed">>}},
         UNCHANGED <<truth, findings, signals>>
  PROVE  PyPISays' /\ Reports'
<1> USE DEF Inv
<1>1. /\ UNCHANGED <<project, artifactGot, projectGot>>
      /\ \A t \in C!Tasks : pc'[t] \in {pc[t], "cancelled"}
                            /\ (pc[t] \in {"done", "raised"} => pc'[t] = pc[t])
  BY DEF C!vars, C!Cancel, C!UnpackOrphaned, C!Finalize, C!Exit, C!Undisturbed, C!Ended
<1>2. HighFound' = HighFound /\ SignalsTold' = SignalsTold
  BY <1>1 DEF HighFound, SignalsTold, C!Projects
<1>3. errors \subseteq errors' /\ \A e \in errors' : e[2] = "missing" => e \in errors
  OBVIOUS
<1>4. static \in C!Tasks /\ scoring \in C!Tasks /\ Guarded \subseteq C!Tasks
  BY TasksAssumed
<1>5. PyPISays'
  BY <1>1 DEF PyPISays
<1>6. StaticReported' /\ CaughtReported'
  BY <1>1, <1>2, <1>3, <1>4 DEF Reports, StaticReported, CaughtReported, C!PyPIErrors
<1>7. ScoringReported'
  BY <1>1, <1>2, <1>3, <1>4 DEF Reports, ScoringReported, Neutral
<1>8. OnlyTheTruth'
  BY <1>1, <1>2, <1>3, <1>4 DEF Reports, OnlyTheTruth
<1> QED
  BY <1>5, <1>6, <1>7, <1>8 DEF Reports

LEMMA NextInv ==
  ASSUME Inv, [Next]_vars
  PROVE  Inv'
<1> USE DEF Inv
<1>1. ContextInv'
  BY NextContextInv
<1>2. ASSUME NEW t \in Context!Tasks, LayerStep(t) PROVE Inv'
  BY <1>1, <1>2, SameWords, LayerInv
<1>3. CASE CveAnswers
  <2>1. UNCHANGED C!vars /\ errors' \in {errors, errors \cup {<<"cve", "failed">>}}
        /\ UNCHANGED <<truth, findings, signals>>
    BY <1>3 DEF CveAnswers, Tell, Silent, ctx, C!vars
  <2>2. PyPISays' /\ Reports'
    BY <1>1, <2>1, OthersFrame
  <2>3. OwnTypes'
    BY <1>3, TruthTypes DEF CveAnswers, Tell, Silent, OwnTypes, C!PyPIErrors
  <2>4. Advisories'
    <3>1. CASE vulns' = truth.vulnerable
      BY <1>3, <3>1 DEF CveAnswers, Advisories
    <3>2. CASE Tell("cve", "failed") /\ vulns' = vulns
      BY <1>3, <3>2 DEF CveAnswers, Tell, Advisories
    <3> QED
      BY <1>3, <3>1, <3>2 DEF CveAnswers
  <2>5. Outcome'
    BY <1>3 DEF CveAnswers, Outcome
  <2> QED
    BY <1>1, <2>2, <2>3, <2>4, <2>5
<1>4. CASE CveRaises \/ TaggingRaises \/ Answer \/ Gathered \/ Abandoned \/ Cancel
           \/ Housekeeping \/ Over \/ UNCHANGED vars
  <2>1. UNCHANGED <<truth, errors, findings, signals, vulns>>
    BY <1>4 DEF CveRaises, TaggingRaises, Answer, Gathered, Abandoned, Cancel,
                Housekeeping, Over, vars, own
  <2>2. \/ UNCHANGED C!vars \/ C!Cancel \/ C!UnpackOrphaned \/ C!Finalize
        \/ \E how \in {"left", "abandoned"} : C!Exit(how)
    <3>1. CASE CveRaises \/ TaggingRaises \/ Answer \/ UNCHANGED vars
      BY <3>1 DEF CveRaises, TaggingRaises, Answer, vars, ctx, C!vars
    <3>2. CASE Gathered \/ Abandoned
      BY <3>2, SameOthers DEF Gathered, Abandoned, C!Leave, C!Escape, C!SiblingRaises
    <3>3. CASE Cancel
      BY <3>3, SameOthers DEF Cancel, C!SiblingRaises, ctx, C!vars
    <3>4. CASE Housekeeping \/ Over
      BY <3>4, SameOthers DEF Housekeeping, Over, C!Terminated
    <3> QED
      BY <1>4, <3>1, <3>2, <3>3, <3>4
  <2>3. PyPISays' /\ Reports'
    BY <1>1, <2>1, <2>2, OthersFrame
  <2>4. verdict' \in Verdicts \cup {"none"}
    <3>1. Decide(vulns, HighFound, ComputeScore(signals)) \in Verdicts
      BY ScoreBounds, VerdictType DEF OwnTypes, HighFound
    <3> QED
      BY <1>4, <3>1 DEF CveRaises, TaggingRaises, Answer, Gathered, Abandoned, Cancel,
                        Housekeeping, Over, vars, own, OwnTypes
  <2>5. OwnTypes'
    BY <1>4, <2>1, <2>4 DEF CveRaises, TaggingRaises, Answer, Gathered, Abandoned, Cancel,
                            Halted, Housekeeping, Over, vars, own, OwnTypes
  <2>6. Advisories'
    BY <1>4, <2>1 DEF CveRaises, TaggingRaises, Answer, Gathered, Abandoned, Cancel,
                      Housekeeping, Over, vars, own, Advisories
  <2>7. Outcome'
    <3>1. HighFound' = HighFound
      BY <2>1 DEF HighFound
    <3>2. CASE CveRaises \/ TaggingRaises \/ Answer
      BY <2>1, <3>1, <3>2 DEF CveRaises, TaggingRaises, Answer, ctx, Outcome
    <3>3. CASE Gathered
      BY <2>1, <3>1, <3>3, SameExit, SameOthers DEF Gathered, C!Leave, C!Exit, Outcome
    <3>4. CASE Abandoned
      BY <3>4 DEF Abandoned, Outcome
    <3>5. CASE Cancel
      <4>1. stage' \notin {"tagging"} /\ (stage' = "answered" => stage = "answered")
        BY <3>5 DEF Cancel, Halted, OwnTypes
      <4>2. scope = "left" => scope' = "left"
        BY <3>5, SameOthers DEF Cancel, C!Cancel, C!SiblingRaises, C!Exit, ctx
      <4> QED
        BY <2>1, <3>1, <3>5, <4>1, <4>2 DEF Cancel, Outcome
    <3>6. CASE Housekeeping \/ Over \/ UNCHANGED vars
      <4>1. scope' = scope /\ UNCHANGED own
        BY <3>6, SameOthers DEF Housekeeping, Over, C!UnpackOrphaned, C!Finalize,
                                C!Terminated, C!vars, vars, ctx
      <4> QED
        BY <3>1, <4>1 DEF own, Outcome
    <3> QED
      BY <1>4, <3>2, <3>3, <3>4, <3>5, <3>6
  <2> QED
    BY <1>1, <2>3, <2>5, <2>6, <2>7
<1> QED
  BY <1>2, <1>3, <1>4 DEF Next

LEMMA Invariance == Spec => []Inv
BY InitInv, NextInv, PTL DEF Spec

(* Every variable of a scan keeps its type, the context's included. *)
THEOREM TypeCorrect == Spec => []TypeOK
<1>1. Inv => TypeOK
  <2> SUFFICES ASSUME Inv PROVE TypeOK
    OBVIOUS
  <2>1. Context!TypeOK
    BY SameWords DEF Inv, ContextInv, C!IInv
  <2> QED
    BY <2>1, SameWords DEF Inv, OwnTypes, TypeOK
<1> QED
  BY <1>1, Invariance, PTL

-----------------------------------------------------------------------------
(***************************************************************************)
(* Once a scan has answered, every layer has returned and was told what    *)
(* the context knows by then; a published version is taken for empty only  *)
(* if some layer lost the artifact.                                        *)
(***************************************************************************)
LEMMA Settled ==
  ASSUME Inv, stage = "answered"
  PROVE  /\ \A t \in C!Tasks : pc[t] = "done"
         /\ artifactGot[static] = extracted
         /\ projectGot[scoring] = IF project = "unset" THEN "broken" ELSE project
         /\ artifactGot[scoring] \in {"pending", "broken", extracted}
         /\ projectGot[scoring] \in {"published", "bare"} => artifactGot[scoring] # "pending"
         /\ project \in C!PyPIErrors => extracted = project
         /\ extracted \in C!PyPIErrors =>
              <<static, extracted>> \in errors /\ errors # {}
         /\ errors = {} => projectGot[scoring] # "broken" /\ signals = SignalsTold
         /\ errors = {} /\ project = "published" => extracted # "none"
<1> USE DEF Inv, ContextInv
<1>1. scope = "left"
  BY DEF Outcome
<1>2. \A t \in C!Tasks : pc[t] = "done"
  BY <1>1 DEF C!TreeInv, C!Threads
<1>3. projectLock = Nobody /\ artifactLock = Nobody
  BY <1>2, TasksAssumed DEF C!IInv, C!TypeOK, C!Locks
<1>4. static \in C!Tasks /\ scoring \in C!Tasks
  BY TasksAssumed
<1>5. artifactGot[static] \notin {"pending", "broken"}
  BY <1>2, <1>4, TasksAssumed DEF C!SourceInv, C!Endings
<1>6. artifactGot[static] = extracted /\ extractDone
  BY <1>4, <1>5 DEF C!IInv, C!Told
<1>7. projectGot[scoring] # "pending"
  BY <1>2, <1>4, TasksAssumed DEF C!SourceInv, C!Endings
<1>8. projectGot[scoring] = IF project = "unset" THEN "broken" ELSE project
  BY <1>4, <1>7 DEF C!SourceInv, C!Asked, C!ToldOfProject
<1>9. artifactGot[scoring] \in {"pending", "broken", extracted}
  BY <1>4 DEF C!IInv, C!Told
<1>10. projectGot[scoring] \in {"published", "bare"} => artifactGot[scoring] # "pending"
  BY <1>2, <1>4, TasksAssumed DEF C!SourceInv, C!Endings
<1>11. /\ project \in C!PyPIErrors => extracted = project
       /\ project = "published" =>
            extracted # "none" \/ \E t \in C!Tasks : artifactGot[t] = "broken"
  BY <1>1, <1>3, <1>6 DEF C!SourceInv, C!Origin
<1>12. extracted \in C!PyPIErrors => <<static, extracted>> \in errors
  BY <1>2, <1>4, <1>6 DEF Reports, StaticReported
<1>13. \A t \in C!Tasks : artifactGot[t] = "broken" => errors # {}
  BY <1>2 DEF C!SourceInv, C!Endings, Reports, CaughtReported
<1>14. errors = {} => projectGot[scoring] # "broken" /\ signals = SignalsTold
  BY <1>2, <1>4 DEF Reports, ScoringReported
<1> QED
  BY <1>2, <1>6, <1>8, <1>9, <1>10, <1>11, <1>12, <1>13, <1>14

(* What the watcher recognises a removal by is there exactly if PyPI said so. *)
THEOREM RemovalsAreTold == Spec => []RemovalIsTold
<1>1. Inv => RemovalIsTold
  <2> SUFFICES ASSUME Inv, stage = "answered" PROVE Gone <=> project = "missing"
    BY DEF RemovalIsTold
  <2>1. Gone => project = "missing"
    BY DEF Gone, Inv, Reports, OnlyTheTruth
  <2>2. ASSUME project = "missing" PROVE Gone
    <3>1. <<static, "missing">> \in errors
      BY <2>2, Settled DEF C!PyPIErrors
    <3> QED
      BY <3>1 DEF Gone
  <2> QED
    BY <2>1, <2>2
<1> QED
  BY <1>1, Invariance, PTL

-----------------------------------------------------------------------------
(***************************************************************************)
(* Without a layer error the scan has seen the release as it is: PyPI told *)
(* what is true, and if there is an artifact the static layer has read it. *)
(***************************************************************************)
LEMMA FullScanSees ==
  ASSUME Inv, stage = "answered", errors = {}
  PROVE  /\ project = truth.kind /\ OnPyPI
         /\ HasArtifact <=> extracted = "tree"
<1> USE DEF Inv
<1>1. project = truth.kind /\ project \notin C!PyPIErrors
  <2>1. project # "unset"
    BY Settled
  <2>2. project \notin C!PyPIErrors
    BY Settled
  <2> QED
    BY <2>1, <2>2 DEF PyPISays, C!PyPIErrors
<1>2. extracted \in {"tree", "none"}
  BY Settled DEF ContextInv, C!IInv, C!TypeOK, C!Artifacts
<1>3. extracted = "tree" => project = "published"
  BY DEF ContextInv, C!SourceInv, C!Origin
<1>4. project = "published" => extracted # "none"
  BY Settled
<1> QED
  BY <1>1, <1>2, <1>3, <1>4 DEF HasArtifact, OnPyPI, C!PyPIErrors

(* The .py without a size that the rules keep silent about, Bandit tells,  *)
(* if it runs: it has the tree as well, or lost it and told that.          *)
LEMMA BanditTells ==
  ASSUME Inv, stage = "answered", errors = {}, extracted = "tree"
  PROVE  ~(truth.bad = "unsized" /\ WithBandit)
<1> SUFFICES ASSUME truth.bad = "unsized", WithBandit PROVE FALSE
  OBVIOUS
<1>1. bandit \in C!Tasks /\ bandit \in Guarded /\ bandit \in Readers
  BY TasksAssumed, RunScanAssumption DEF Guarded, Readers
<1>2. pc[bandit] = "done"
  BY <1>1, Settled
<1>3. artifactGot[bandit] # "pending"
  BY <1>1, <1>2, TasksAssumed DEF Inv, ContextInv, C!SourceInv, C!Endings
<1>4. artifactGot[bandit] # "broken"
  BY <1>1, <1>2 DEF Inv, Reports, CaughtReported
<1>5. artifactGot[bandit] = "tree"
  BY <1>1, <1>3, <1>4 DEF Inv, ContextInv, C!IInv, C!Told
<1> QED
  BY <1>1, <1>2, <1>5 DEF Inv, Reports, CaughtReported

(* If there is an artifact and the static layer did not read it, some layer *)
(* error says so.                                                          *)
THEOREM NotLookedIsAlwaysTold == Spec => []NotLookedIsTold
<1>1. Inv => NotLookedIsTold
  BY FullScanSees, Settled DEF NotLookedIsTold
<1> QED
  BY <1>1, Invariance, PTL

(* An answer without layer errors gives the verdict of a scan in which     *)
(* nothing failed, but for a file without a size that Bandit does not look *)
(* at, which the rules leave out in silence.                               *)
THEOREM FullScansAreRight == Spec => []FullScanIsRight
<1> DEFINE seen == HasArtifact /\ truth.bad # "none" /\ ~Overlooked
<1>1. ASSUME Inv, stage = "answered", errors = {} PROVE verdict = VerdictWith(seen)
  <2> USE DEF Inv
  <2>1. project = truth.kind /\ OnPyPI /\ (HasArtifact <=> extracted = "tree")
    BY <1>1, FullScanSees
  <2>2. vulns = truth.vulnerable
    BY <1>1 DEF Advisories, Outcome
  <2>3. HighFound = seen
    <3>1. HighFound => HasArtifact /\ truth.bad = "sized"
      BY <1>1, <2>1, Settled DEF Reports, OnlyTheTruth
    <3>2. HasArtifact /\ truth.bad = "sized" => HighFound
      BY <1>1, <2>1, TasksAssumed, Settled DEF Reports, StaticReported
    <3>3. ~(HasArtifact /\ truth.bad = "unsized" /\ WithBandit)
      BY <1>1, <2>1, BanditTells
    <3>4. truth.bad \in BadFiles
      BY <1>1, TruthTypes DEF OwnTypes
    <3> QED
      BY <3>1, <3>2, <3>3, <3>4 DEF HighFound, HasArtifact, Overlooked, BadFiles
  <2>4. signals = Signals(truth.typo, OnPyPI /\ truth.new, OnPyPI /\ truth.burst,
                          HasArtifact /\ truth.setup)
    <3>1. signals = SignalsTold /\ projectGot[scoring] = project
      BY <1>1, Settled
    <3>2. projectGot[scoring] \in C!Projects
      BY <1>1, <2>1, <3>1, TruthTypes DEF OwnTypes, Kinds, OnPyPI, C!Projects
    <3>3. artifactGot[scoring] = "tree" <=> HasArtifact
      <4>1. CASE HasArtifact
        <5>1. artifactGot[scoring] # "pending"
          BY <1>1, <2>1, <4>1, Settled DEF HasArtifact
        <5>2. artifactGot[scoring] # "broken"
          BY <1>1, TasksAssumed, Settled DEF Reports, CaughtReported
        <5> QED
          BY <1>1, <2>1, <4>1, <5>1, <5>2, Settled
      <4>2. CASE ~HasArtifact
        BY <1>1, <2>1, <4>2, Settled
      <4> QED
        BY <4>1, <4>2
    <3> QED
      BY <2>1, <3>1, <3>2, <3>3 DEF SignalsTold
  <2>5. verdict = Decide(vulns, HighFound, ComputeScore(signals))
    BY <1>1 DEF Outcome
  <2> QED
    BY <2>2, <2>3, <2>4, <2>5 DEF VerdictWith
<1>2. seen = IF Overlooked THEN FALSE ELSE HasArtifact /\ truth.bad # "none"
  BY DEF HasArtifact, Overlooked
<1>3. VerdictWith(seen) = IF Overlooked THEN VerdictWith(FALSE) ELSE TrueVerdict
  <2>1. CASE Overlooked
    <3>1. seen = FALSE
      BY <1>2, <2>1
    <3> QED
      BY <2>1, <3>1
  <2>2. CASE ~Overlooked
    <3>1. seen = (HasArtifact /\ truth.bad # "none")
      BY <1>2, <2>2
    <3> QED
      BY <2>2, <3>1 DEF TrueVerdict
  <2> QED
    BY <2>1, <2>2
<1>4. Inv => FullScanIsRight
  BY <1>1, <1>3 DEF FullScanIsRight
<1> QED
  BY <1>4, Invariance, PTL

(***************************************************************************)
(* Whatever fails, the scan has seen no more than there is: each finding,  *)
(* each advisory and each signal is one of the release.                    *)
(***************************************************************************)
THEOREM FailuresOnlySoften == Spec => []FailureOnlySoftens
<1>1. Inv => FailureOnlySoftens
  <2> DEFINE all == Signals(truth.typo, OnPyPI /\ truth.new, OnPyPI /\ truth.burst,
                            HasArtifact /\ truth.setup)
  <2> SUFFICES ASSUME Inv, stage = "answered"
               PROVE  Severity(verdict) <= Severity(TrueVerdict)
    BY DEF FailureOnlySoftens
  <2> USE DEF Inv
  <2>1. vulns => truth.vulnerable
    BY DEF Advisories
  <2>2. extracted = "tree" => HasArtifact
    BY DEF ContextInv, C!SourceInv, C!Origin, PyPISays, HasArtifact
  <2>3. HighFound => HasArtifact /\ truth.bad # "none"
    BY <2>2, Settled DEF Reports, OnlyTheTruth
  <2>4. projectGot[scoring] \in C!Projects => OnPyPI
    BY Settled DEF PyPISays, OnPyPI, C!Projects
  <2>5. artifactGot[scoring] = "tree" => HasArtifact
    BY <2>2, Settled
  <2>6. all \in RiskSignals /\ signals \in RiskSignals
    BY TruthTypes, SignalsType DEF OwnTypes, OnPyPI, HasArtifact
  <2>7. signals \in {Neutral, SignalsTold}
    BY DEF Reports, ScoringReported
  <2>8. /\ signals.is_new_account => all.is_new_account
        /\ signals.has_install_script => all.has_install_script
        /\ signals.release_burst => all.release_burst
        /\ signals.typosquat_score \in {0, all.typosquat_score}
    <3>1. CASE signals = Neutral
      BY <3>1 DEF Neutral, Signals
    <3>2. CASE signals = SignalsTold
      <4> DEFINE known == projectGot[scoring] \in C!Projects
                 tree == artifactGot[scoring] = "tree"
      <4>1. signals = Signals(truth.typo, known /\ truth.new, known /\ truth.burst,
                              tree /\ truth.setup)
        BY <3>2 DEF SignalsTold
      <4>2. (known => OnPyPI) /\ (tree => HasArtifact)
        BY <2>4, <2>5
      <4> HIDE DEF known, tree
      <4>3. /\ signals.is_new_account = (known /\ truth.new)
            /\ signals.has_install_script = (tree /\ truth.setup)
            /\ signals.release_burst = (known /\ truth.burst)
            /\ signals.typosquat_score = truth.typo
        BY <4>1 DEF Signals
      <4>4. /\ all.is_new_account = (OnPyPI /\ truth.new)
            /\ all.has_install_script = (HasArtifact /\ truth.setup)
            /\ all.release_burst = (OnPyPI /\ truth.burst)
            /\ all.typosquat_score = truth.typo
        BY DEF Signals
      <4> HIDE DEF all
      <4> QED
        BY <4>2, <4>3, <4>4
    <3> QED
      BY <2>7, <3>1, <3>2
  <2>9. ComputeScore(signals) <= ComputeScore(all)
    BY <2>6, <2>8, FewerSignals
  <2>10. ComputeScore(signals) \in 0..MAX_SCORE /\ ComputeScore(all) \in 0..MAX_SCORE
    BY <2>6, ScoreBounds
  <2>11. /\ vulns \in BOOLEAN /\ HighFound \in BOOLEAN
         /\ truth.vulnerable \in BOOLEAN /\ (HasArtifact /\ truth.bad # "none") \in BOOLEAN
    BY TruthTypes DEF OwnTypes, HighFound
  <2>12. verdict = Decide(vulns, HighFound, ComputeScore(signals))
    BY DEF Outcome
  <2> HIDE DEF all
  <2>13. Severity(Decide(vulns, HighFound, ComputeScore(signals)))
           <= Severity(Decide(truth.vulnerable, HasArtifact /\ truth.bad # "none", ComputeScore(all)))
    BY <2>1, <2>3, <2>9, <2>10, <2>11, VerdictGrows
  <2> QED
    BY <2>12, <2>13 DEF TrueVerdict, VerdictWith, all
<1> QED
  BY <1>1, Invariance, PTL
=============================================================================
