--------------------------- MODULE Verdict_proofs ---------------------------
(***************************************************************************)
(* The properties of module Verdict, from the facts about the score.       *)
(***************************************************************************)
EXTENDS Verdict, Scoring_proofs

(* The evidence alone; that the score fits follows from it. *)
Evidence == signals \in RiskSignals /\ vulns \in BOOLEAN /\ high \in BOOLEAN

(* A scan that found nothing is evidence too. *)
LEMMA NothingIsEvidence == Init => Evidence
  <1>1. 0 \in Similarities
    BY DEF Similarities
  <1>2. [is_new_account |-> FALSE, typosquat_score |-> 0,
         has_install_script |-> FALSE, release_burst |-> FALSE] \in RiskSignals
    BY <1>1 DEF RiskSignals
  <1> QED
    BY <1>2, Zenon DEF Init, Evidence

(* One more finding leaves the signals signals: a flag is set, or the      *)
(* likeness of the names, which was below its bound, grows by a hundredth; *)
(* a vulnerability or a static finding leaves them alone.                  *)
LEMMA MoreIsEvidence == ASSUME Evidence, Next PROVE Evidence'
  <1> USE DEF Evidence, RiskSignals, Similarities
  <1>1. CASE Vulnerable \/ Found
    BY <1>1 DEF Vulnerable, Found
  <1>2. CASE Closer
    BY <1>2, SMT DEF Closer
  <1>3. CASE \E f \in Flags : Signal(f)
    <2>1. PICK f \in Flags : Signal(f)
      BY <1>3
    <2> QED
      BY <2>1 DEF Signal, Flags
  <1> QED
    BY <1>1, <1>2, <1>3 DEF Next

LEMMA EvidenceInvariant == Spec => []Evidence
  <1>1. ASSUME Evidence, UNCHANGED vars PROVE Evidence'
    BY <1>1 DEF Evidence, vars
  <1>2. Evidence /\ [Next]_vars => Evidence'
    BY <1>1, MoreIsEvidence
  <1> QED
    BY <1>2, NothingIsEvidence, PTL DEF Spec

(* The evidence is well typed and the score is always within 0..100. *)
THEOREM TypeCorrect == Spec => []TypeOK
  <1>1. Evidence => TypeOK
    BY ScoreBounds DEF Evidence, TypeOK, Score
  <1>2. QED
    BY <1>1, EvidenceInvariant, PTL

(* The floor of scorer.py reaches the threshold of _decide. *)
THEOREM LookalikesAreWarned == Spec => []LookalikeWarned
  <1>1. Evidence => LookalikeWarned
    <2> SUFFICES ASSUME Evidence, signals.typosquat_score >= HIGH_TYPOSQUAT
                 PROVE  Outcome # "safe"
      BY DEF LookalikeWarned
    <2>1. signals.typosquat_score \in 0..100 /\ Weighed(signals) \in 0..90
      BY WeighedBounds DEF Evidence, RiskSignals, Similarities
    <2>2. Score \in 40..100
      BY <2>1, SMT DEF Score, ComputeScore, Floored, Capped, MAX_SCORE,
                       TYPOSQUAT_WARN_FLOOR, HIGH_TYPOSQUAT
    <2>3. QED
      BY <2>2, SMT DEF Outcome, Decide, BLOCK_AT, WARN_AT, Evidence
  <1>2. QED
    BY <1>1, EvidenceInvariant, PTL

(* The metadata signals without the name add up to 60 of the 70 a block takes. *)
THEOREM BlocksHaveProof == Spec => []BlockNeedsProof
  <1>1. Evidence => BlockNeedsProof
    <2> SUFFICES ASSUME Evidence, ~high,
                        ~(signals.typosquat_score >= TYPOSQUAT_MIN_RATIO)
                 PROVE  Outcome # "block"
      BY DEF BlockNeedsProof
    <2>1. signals.typosquat_score \in 0..100
      BY DEF Evidence, RiskSignals, Similarities
    <2>2. Weighed(signals) \in 0..60
      BY <2>1, WeighedBounds, SMT DEF Evidence, TYPOSQUAT_MIN_RATIO
    <2>3. Score \in 0..60
      BY <2>1, <2>2, SMT DEF Score, ComputeScore, Floored, Capped, MAX_SCORE,
                       TYPOSQUAT_WARN_FLOOR, HIGH_TYPOSQUAT
    <2>4. QED
      BY <2>3, SMT DEF Outcome, Decide, BLOCK_AT, WARN_AT, Evidence
  <1>2. QED
    BY <1>1, EvidenceInvariant, PTL

(* One more piece of evidence never lowers the score or softens the verdict. *)
THEOREM EvidenceOnlyHardens == Spec => Monotone
  <1> DEFINE Harder == Score' >= Score /\ Severity(Outcome') >= Severity(Outcome)
  <1>1. Evidence /\ Evidence' /\ [Next]_vars => [Harder]_vars
    <2> SUFFICES ASSUME Evidence, Evidence', Next PROVE Harder
      OBVIOUS
    <2>1. Weighed(signals) \in 0..90 /\ Weighed(signals)' \in 0..90
      BY WeighedBounds DEF Evidence
    <2>2. /\ Weighed(signals) <= Weighed(signals)'
          /\ signals.typosquat_score <= signals'.typosquat_score
          /\ (vulns => vulns') /\ (high => high')
      <3>1. ASSUME NEW f \in Flags, Signal(f)
            PROVE  /\ Weighed(signals) <= Weighed(signals)'
                   /\ signals.typosquat_score = signals'.typosquat_score
                   /\ vulns = vulns' /\ high = high'
        <4>1. /\ signals'.typosquat_score = signals.typosquat_score
              /\ signals.is_new_account => signals'.is_new_account
              /\ signals.has_install_script => signals'.has_install_script
              /\ signals.release_burst => signals'.release_burst
          BY <3>1 DEF Signal, Flags, Evidence, RiskSignals
        <4>2. Similar(signals.typosquat_score) \in 0..30
          BY SimilarBounds DEF Evidence, RiskSignals
        <4>3. Similar(signals'.typosquat_score) = Similar(signals.typosquat_score)
          BY <4>1
        <4>4. Weighed(signals) <= Weighed(signals)'
          BY <4>1, <4>2, <4>3, SMT
            DEF Weighed, When, WEIGHT_NEW_ACCOUNT, WEIGHT_INSTALL_SCRIPT,
                WEIGHT_RELEASE_BURST
        <4>5. QED
          BY <3>1, <4>1, <4>4 DEF Signal
      <3>2. CASE Closer
        <4>1. /\ signals'.typosquat_score = signals.typosquat_score + 1
              /\ signals'.is_new_account = signals.is_new_account
              /\ signals'.has_install_script = signals.has_install_script
              /\ signals'.release_burst = signals.release_burst
              /\ signals.typosquat_score \in Similarities
              /\ signals'.typosquat_score \in Similarities
              /\ signals.typosquat_score < 100
          BY <3>2 DEF Closer, Evidence, RiskSignals
        <4>2. Similar(signals.typosquat_score) <= Similar(signals'.typosquat_score)
          BY <4>1, SimilarGrows
        <4>3. /\ Similar(signals.typosquat_score) \in 0..30
              /\ Similar(signals'.typosquat_score) \in 0..30
          BY <4>1, SimilarBounds
        <4>4. Weighed(signals) <= Weighed(signals)'
          BY <4>1, <4>2, <4>3, SMT
            DEF Weighed, When, WEIGHT_NEW_ACCOUNT, WEIGHT_INSTALL_SCRIPT,
                WEIGHT_RELEASE_BURST
        <4>5. QED
          BY <3>2, <4>1, <4>4, SMT DEF Closer, Similarities
      <3>3. CASE Vulnerable \/ Found
        BY <2>1, <3>3, SMT DEF Vulnerable, Found, Evidence, RiskSignals, Similarities
      <3>4. QED
        BY <3>1, <3>2, <3>3, SMT DEF Next, Evidence, RiskSignals, Similarities
    <2>3. Score <= Score'
      BY <2>2, ScoreGrows DEF Score, Evidence
    <2>4. Score \in 0..MAX_SCORE /\ Score' \in 0..MAX_SCORE
      BY ScoreBounds DEF Score, Evidence
    <2>5. Severity(Outcome) <= Severity(Outcome')
      BY <2>2, <2>3, <2>4, VerdictGrows DEF Outcome, Evidence
    <2>6. Severity(Outcome) \in 0..2 /\ Severity(Outcome') \in 0..2
      BY <2>4, SMT DEF Outcome, Severity, Decide, BLOCK_AT, WARN_AT, MAX_SCORE, Evidence
    <2>7. QED
      BY <2>3, <2>4, <2>5, <2>6, SMT DEF MAX_SCORE
  <1>2. QED
    BY <1>1, EvidenceInvariant, PTL DEF Spec, Monotone
=============================================================================
