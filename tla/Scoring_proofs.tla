--------------------------- MODULE Scoring_proofs ---------------------------
(***************************************************************************)
(* Facts about the score and the verdict, for every input.  The one that   *)
(* needs care is the rounding: it is monotone and stays between the parts  *)
(* it rounds.  Everything else is a sum of four terms against thresholds.  *)
(***************************************************************************)
EXTENDS Scoring, TLAPS

(* A rounded share lies within half a point of the exact one. *)
LEMMA ShareBounds ==
  ASSUME NEW s \in Similarities
  PROVE  /\ RoundedShare(WEIGHT_TYPOSQUAT, s) \in Int
         /\ 100 * RoundedShare(WEIGHT_TYPOSQUAT, s) <= 30 * s + 50
         /\ 100 * RoundedShare(WEIGHT_TYPOSQUAT, s) >= 30 * s - 50
  <1> DEFINE q == (30 * s) \div 100
             r == (30 * s) % 100
  <1>1. q \in Int /\ r \in 0..99 /\ 30 * s = 100 * q + r
    BY SMT DEF Similarities
  <1>2. q % 2 \in 0..1
    BY <1>1, SMT
  <1>3. RoundedShare(WEIGHT_TYPOSQUAT, s)
          = IF r > 50 \/ (r = 50 /\ q % 2 = 1) THEN q + 1 ELSE q
    BY DEF RoundedShare, WEIGHT_TYPOSQUAT
  <1> HIDE DEF q, r
  <1>4. QED
    BY <1>1, <1>2, <1>3, SMT DEF Similarities

(* Below the threshold a similarity counts nothing, above it at most 30. *)
LEMMA SimilarBounds ==
  ASSUME NEW s \in Similarities
  PROVE  Similar(s) \in 0..30 /\ (s < TYPOSQUAT_MIN_RATIO => Similar(s) = 0)
  <1>1. CASE s < 80
    BY <1>1 DEF Similar, When, TYPOSQUAT_MIN_RATIO, Similarities
  <1>2. CASE s >= 80
    <2>1. Similar(s) = RoundedShare(WEIGHT_TYPOSQUAT, s)
      BY <1>2 DEF Similar, When, TYPOSQUAT_MIN_RATIO
    <2>2. QED
      BY <1>2, <2>1, ShareBounds, SMT DEF Similarities, TYPOSQUAT_MIN_RATIO
  <1>3. QED
    BY <1>1, <1>2, SMT DEF Similarities

(* A closer name counts no less. *)
LEMMA SimilarGrows ==
  ASSUME NEW s \in Similarities, s < 100
  PROVE  Similar(s) <= Similar(s + 1)
  <1>1. s + 1 \in Similarities
    BY DEF Similarities
  <1>2. CASE s < 80
    BY <1>1, <1>2, SimilarBounds, SMT DEF TYPOSQUAT_MIN_RATIO, Similarities
  <1>3. CASE s >= 80
    <2>1. /\ Similar(s) = RoundedShare(WEIGHT_TYPOSQUAT, s)
          /\ Similar(s + 1) = RoundedShare(WEIGHT_TYPOSQUAT, s + 1)
      BY <1>3, SMT DEF Similar, When, TYPOSQUAT_MIN_RATIO, Similarities
    <2>2. /\ RoundedShare(WEIGHT_TYPOSQUAT, s) \in Int
          /\ 100 * RoundedShare(WEIGHT_TYPOSQUAT, s) <= 30 * s + 50
      BY ShareBounds
    <2>3. /\ RoundedShare(WEIGHT_TYPOSQUAT, s + 1) \in Int
          /\ 100 * RoundedShare(WEIGHT_TYPOSQUAT, s + 1) >= 30 * (s + 1) - 50
      BY <1>1, ShareBounds
    <2>4. QED
      BY <2>1, <2>2, <2>3, SMT DEF Similarities
  <1>4. QED
    BY <1>2, <1>3, SMT DEF Similarities

(* The weighted sum, and where it can come from. *)
LEMMA WeighedBounds ==
  ASSUME NEW sig \in RiskSignals
  PROVE  /\ Weighed(sig) \in 0..90
         /\ sig.typosquat_score < TYPOSQUAT_MIN_RATIO => Weighed(sig) <= 60
  <1>1. /\ sig.typosquat_score \in Similarities
        /\ sig.is_new_account \in BOOLEAN /\ sig.has_install_script \in BOOLEAN
        /\ sig.release_burst \in BOOLEAN
    BY DEF RiskSignals
  <1>2. /\ Similar(sig.typosquat_score) \in 0..30
        /\ sig.typosquat_score < TYPOSQUAT_MIN_RATIO => Similar(sig.typosquat_score) = 0
    BY <1>1, SimilarBounds
  <1>3. /\ When(sig.is_new_account, WEIGHT_NEW_ACCOUNT) \in {0, 25}
        /\ When(sig.has_install_script, WEIGHT_INSTALL_SCRIPT) \in {0, 20}
        /\ When(sig.release_burst, WEIGHT_RELEASE_BURST) \in {0, 15}
    BY DEF When, WEIGHT_NEW_ACCOUNT, WEIGHT_INSTALL_SCRIPT, WEIGHT_RELEASE_BURST
  <1>4. QED
    BY <1>2, <1>3, SMT DEF Weighed

LEMMA ScoreBounds ==
  ASSUME NEW sig \in RiskSignals
  PROVE  ComputeScore(sig) \in 0..MAX_SCORE
  BY WeighedBounds, SMT
    DEF ComputeScore, Floored, Capped, MAX_SCORE, TYPOSQUAT_WARN_FLOOR

(* Cap and floor keep the order of the sums, if the name comes no less close. *)
LEMMA ScoreGrows ==
  ASSUME NEW sig \in RiskSignals, NEW more \in RiskSignals,
         Weighed(sig) <= Weighed(more),
         sig.typosquat_score <= more.typosquat_score
  PROVE  ComputeScore(sig) <= ComputeScore(more)
  <1>1. sig.typosquat_score \in 0..100 /\ more.typosquat_score \in 0..100
    BY DEF RiskSignals, Similarities
  <1>2. Weighed(sig) \in 0..90 /\ Weighed(more) \in 0..90
    BY WeighedBounds
  <1>3. QED
    BY <1>1, <1>2, SMT DEF ComputeScore, Floored, Capped, MAX_SCORE,
                            TYPOSQUAT_WARN_FLOOR, HIGH_TYPOSQUAT

(* Signals that are missing, the likeness of the name included, weigh nothing. *)
LEMMA FewerSignals ==
  ASSUME NEW sig \in RiskSignals, NEW more \in RiskSignals,
         sig.is_new_account => more.is_new_account,
         sig.has_install_script => more.has_install_script,
         sig.release_burst => more.release_burst,
         sig.typosquat_score \in {0, more.typosquat_score}
  PROVE  ComputeScore(sig) <= ComputeScore(more)
  <1>1. sig.typosquat_score \in Similarities /\ more.typosquat_score \in Similarities
    BY DEF RiskSignals
  <1>2. Similar(more.typosquat_score) \in 0..30 /\ Similar(0) = 0
    BY <1>1, SimilarBounds DEF Similarities, TYPOSQUAT_MIN_RATIO
  <1>3. Similar(sig.typosquat_score) \in {0, Similar(more.typosquat_score)}
    BY <1>2
  <1>4. Weighed(sig) <= Weighed(more)
    BY <1>2, <1>3, SMT DEF Weighed, When, WEIGHT_NEW_ACCOUNT,
                           WEIGHT_INSTALL_SCRIPT, WEIGHT_RELEASE_BURST
  <1>5. sig.typosquat_score <= more.typosquat_score
    BY <1>1, SMT DEF Similarities
  <1>6. QED
    BY <1>4, <1>5, ScoreGrows

LEMMA VerdictGrows ==
  ASSUME NEW v1 \in BOOLEAN, NEW h1 \in BOOLEAN, NEW s1 \in 0..MAX_SCORE,
         NEW v2 \in BOOLEAN, NEW h2 \in BOOLEAN, NEW s2 \in 0..MAX_SCORE,
         v1 => v2, h1 => h2, s1 <= s2
  PROVE  Severity(Decide(v1, h1, s1)) <= Severity(Decide(v2, h2, s2))
  <1>1. CASE h2 \/ s2 >= 70
    <2>1. Decide(v2, h2, s2) = "block"
      BY <1>1 DEF Decide, BLOCK_AT, WARN_AT, MAX_SCORE
    <2>2. Decide(v1, h1, s1) \in Verdicts
      BY SMT DEF Decide, BLOCK_AT, WARN_AT, MAX_SCORE, Verdicts
    <2>3. QED
      BY <2>1, <2>2, SMT DEF Severity, Verdicts
  <1>2. CASE ~h2 /\ s2 < 70 /\ (v2 \/ s2 >= 40)
    <2>1. Decide(v2, h2, s2) = "warn"
      BY <1>2, SMT DEF Decide, BLOCK_AT, WARN_AT, MAX_SCORE
    <2>2. Decide(v1, h1, s1) \in {"safe", "warn"}
      BY <1>2, SMT DEF Decide, BLOCK_AT, WARN_AT, MAX_SCORE
    <2>3. QED
      BY <2>1, <2>2, SMT DEF Severity
  <1>3. CASE ~h2 /\ s2 < 40 /\ ~v2
    <2>1. Decide(v1, h1, s1) = "safe"
      BY <1>3, SMT DEF Decide, BLOCK_AT, WARN_AT, MAX_SCORE
    <2>2. Decide(v2, h2, s2) = "safe"
      BY <1>3, SMT DEF Decide, BLOCK_AT, WARN_AT, MAX_SCORE
    <2>3. QED
      BY <2>1, <2>2, SMT DEF Severity
  <1>4. QED
    BY <1>1, <1>2, <1>3, SMT DEF MAX_SCORE
=============================================================================
