----------------------------- MODULE MCWatcher -----------------------------
(***************************************************************************)
(* Two names; feeds in which one project comes both as new and with two    *)
(* releases, one of which is another name's, with room for two scans.      *)
(* The records are one for each way a scan can end that run_cycle tells    *)
(* apart: clean, blocked for either of two rules, a look-alike, stopped by *)
(* the antivirus, gone from PyPI, and not analysed for an outage.          *)
(***************************************************************************)
EXTENDS Watcher

CONSTANTS a, b, v1, v2

Base == [verdict |-> "safe", highRules |-> {}, newProject |-> FALSE,
         similar |-> FALSE, antivirus |-> FALSE, gone |-> FALSE,
         analysed |-> TRUE]

Clean     == Base
Pth       == [Base EXCEPT !.verdict = "block", !.highRules = {"pth"}]
Obfuscated == [Base EXCEPT !.verdict = "block", !.highRules = {"obfuscated"}]
Squat     == [Base EXCEPT !.newProject = TRUE, !.similar = TRUE]
Unread    == [Base EXCEPT !.antivirus = TRUE]
Outage    == [Base EXCEPT !.analysed = FALSE]
Vanish    == [Outage EXCEPT !.gone = TRUE]

MCNames == {a, b}
MCVersions == {v1, v2}
MCInvalid == {<<b, v2>>}
MCRecords == {Clean, Pth, Obfuscated, Squat, Vanish}
AllRecords == {Clean, Pth, Squat, Unread, Outage, Vanish}

(* The new-projects feed comes first, then the updates feed. *)
Busy  == << <<a, Latest>>, <<b, v1>>, <<a, v2>>, <<a, v1>> >>
Fresh == << <<a, Latest>>, <<b, Latest>> >>
Twin  == << <<a, v1>>, <<a, v2>> >>
MCFeeds == {Busy, Fresh}
TwinFeeds == {Twin}
=============================================================================
