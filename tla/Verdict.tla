------------------------------ MODULE Verdict ------------------------------
(***************************************************************************)
(* The verdict as a function of the evidence, walked over all its inputs.  *)
(* A step is not a step of the program: it adds one piece of evidence, so  *)
(* that an action property compares the verdicts of two scans of which one *)
(* knows more.  They differ so in practice, because a layer that fails     *)
(* contributes nothing (the defaults of PackageMetadata, _NEUTRAL_SIGNALS, *)
(* an empty list).                                                         *)
(***************************************************************************)
EXTENDS Scoring

VARIABLES signals,   \* RiskSignals
          vulns,     \* the CVE layer found something
          high       \* the static layer found something HIGH or CRITICAL

vars == <<signals, vulns, high>>

(* Nothing but the name is known: build_signals on a package not found. *)
Init == /\ signals = [is_new_account |-> FALSE, typosquat_score |-> 0,
                      has_install_script |-> FALSE, release_burst |-> FALSE]
        /\ vulns = FALSE /\ high = FALSE

Flags == {"is_new_account", "has_install_script", "release_burst"}

Signal(f) == /\ ~signals[f]
             /\ signals' = [signals EXCEPT ![f] = TRUE]
             /\ UNCHANGED <<vulns, high>>

Overshoot == /\ signals.typosquat_score <= 100
             /\ signals' = [signals EXCEPT !.typosquat_score = @ + 1]
             /\ UNCHANGED <<vulns, high>>
Closer == /\ signals.typosquat_score < 100
          /\ signals' = [signals EXCEPT !.typosquat_score = @ + 1]
          /\ UNCHANGED <<vulns, high>>

Vulnerable == ~vulns /\ vulns' = TRUE /\ UNCHANGED <<signals, high>>
Found == ~high /\ high' = TRUE /\ UNCHANGED <<signals, vulns>>

Next == (\E f \in Flags : Signal(f)) \/ Closer \/ Vulnerable \/ Found

Spec == Init /\ [][Next]_vars

Score == ComputeScore(signals)
Outcome == Decide(vulns, high, Score)

-----------------------------------------------------------------------------
(* The evidence has its type, and the score fits the response's 0..100. *)
TypeOK == /\ signals \in RiskSignals
          /\ vulns \in BOOLEAN /\ high \in BOOLEAN
          /\ Score \in 0..MAX_SCORE

(***************************************************************************)
(* More evidence never makes a package look better: neither the score nor  *)
(* the verdict goes down, across the rounding of the similarity, the cap   *)
(* and the floor.  Losing a layer can therefore only soften a verdict.     *)
(***************************************************************************)
Monotone == [][Score' >= Score /\ Severity(Outcome') >= Severity(Outcome)]_vars

(***************************************************************************)
(* A near-certain typosquat is at least a warning, whatever else is known  *)
(* or could not be found out: the floor of scorer.py and the threshold of  *)
(* _decide agree.                                                          *)
(***************************************************************************)
LookalikeWarned == signals.typosquat_score >= HIGH_TYPOSQUAT => Outcome # "safe"

(***************************************************************************)
(* Metadata alone never blocks a package whose name resembles no other:    *)
(* blocking a new project with a setup.py and a busy day takes a typosquat *)
(* or a static finding.                                                    *)
(***************************************************************************)
BlockNeedsProof ==
  Outcome = "block" => high \/ signals.typosquat_score >= TYPOSQUAT_MIN_RATIO
=============================================================================
