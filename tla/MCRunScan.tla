----------------------------- MODULE MCRunScan -----------------------------
(***************************************************************************)
(* Releases of every kind: a harmless one with a setup.py, a look-alike    *)
(* that is blocked for its score only if the setup.py is seen, one that    *)
(* the static rules block and OSV knows, and two that only the rules block *)
(* if they get the size of the file.                                       *)
(***************************************************************************)
EXTENDS RunScan

Release(kind, typo, young, setup, bad) ==
  [kind |-> kind, typo |-> typo, new |-> young, burst |-> young,
   setup |-> setup, bad |-> bad, vulnerable |-> bad = "sized"]

Harmless(kind)  == Release(kind, 0, FALSE, TRUE, "none")
Squat(kind)     == Release(kind, 94, TRUE, TRUE, "none")
Malicious(kind) == Release(kind, 0, TRUE, FALSE, "sized")
Unsized(bad)    == Release("published", 0, FALSE, FALSE, bad)

MCTruths == {Harmless(k) : k \in {"published", "unpublished"}}
            \cup {Squat(k) : k \in {"published", "missing"}}
            \cup {Malicious(k) : k \in {"published", "bare"}}
            \cup {Unsized(bad) : bad \in {"unsized", "unsized pth"}}
=============================================================================
