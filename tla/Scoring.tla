------------------------------ MODULE Scoring ------------------------------
(***************************************************************************)
(* The two pure functions a scan ends with: compute_score                  *)
(* (scoring/scorer.py) adds up the risk signals, and _decide               *)
(* (api/routers/scan.py) joins the score with what the static and the CVE  *)
(* layers found.  The thresholds of the two live in different files.       *)
(*                                                                         *)
(* typosquat_score is rounded to two decimals in the code; here it is a    *)
(* number of hundredths.                                                   *)
(***************************************************************************)
EXTENDS Integers

WEIGHT_NEW_ACCOUNT    == 25
WEIGHT_TYPOSQUAT      == 30
WEIGHT_INSTALL_SCRIPT == 20
WEIGHT_RELEASE_BURST  == 15
MAX_SCORE             == 100

TYPOSQUAT_MIN_RATIO  == 80
HIGH_TYPOSQUAT       == 90
TYPOSQUAT_WARN_FLOOR == 40

WARN_AT  == 40
BLOCK_AT == 70

Similarities == 0..100

(* RiskSignals, without the dependency count, which the score ignores. *)
RiskSignals == [is_new_account : BOOLEAN, typosquat_score : Similarities,
                has_install_script : BOOLEAN, release_burst : BOOLEAN]

(* Python's round(): a half goes to the even neighbour. *)
RoundedShare(weight, s) ==
  LET q == (weight * s) \div 100
      r == (weight * s) % 100
  IN  IF r > 50 \/ (r = 50 /\ q % 2 = 1) THEN q + 1 ELSE q

When(b, points) == IF b THEN points ELSE 0

AnySimilarity(s) == RoundedShare(WEIGHT_TYPOSQUAT, s)
Similar(s) == When(s >= TYPOSQUAT_MIN_RATIO, RoundedShare(WEIGHT_TYPOSQUAT, s))

Weighed(sig) == When(sig.is_new_account, WEIGHT_NEW_ACCOUNT)
                + Similar(sig.typosquat_score)
                + When(sig.has_install_script, WEIGHT_INSTALL_SCRIPT)
                + When(sig.release_burst, WEIGHT_RELEASE_BURST)

Capped(score) == IF score > MAX_SCORE THEN MAX_SCORE ELSE score

(* A near-certain look-alike is raised to the warning, never lowered to it. *)
NoFloor(sig, score) == score
SetToFloor(sig, score) ==
  IF sig.typosquat_score >= HIGH_TYPOSQUAT THEN TYPOSQUAT_WARN_FLOOR ELSE score
Floored(sig, score) ==
  IF sig.typosquat_score >= HIGH_TYPOSQUAT /\ score < TYPOSQUAT_WARN_FLOOR
    THEN TYPOSQUAT_WARN_FLOOR ELSE score

ComputeScore(sig) == Floored(sig, Capped(Weighed(sig)))

(* vulns: OSV knows a vulnerability; high: a static finding is HIGH or worse. *)
Verdicts == {"safe", "warn", "block"}

ScoreFirst(vulns, high, score) ==
  CASE score >= BLOCK_AT          -> "block"
    [] score < BLOCK_AT /\ vulns  -> "warn"
    [] OTHER                      -> IF high THEN "block" ELSE "safe"
Decide(vulns, high, score) ==
  CASE high \/ score >= BLOCK_AT   -> "block"
    [] ~high /\ score < BLOCK_AT /\ (vulns \/ score >= WARN_AT) -> "warn"
    [] ~high /\ score < BLOCK_AT /\ ~vulns /\ score < WARN_AT   -> "safe"

Severity(verdict) == CASE verdict = "safe"  -> 0
                       [] verdict = "warn"  -> 1
                       [] verdict = "block" -> 2
=============================================================================
