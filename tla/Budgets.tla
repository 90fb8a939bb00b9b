------------------------------ MODULE Budgets ------------------------------
(* Which Python files of a package the two static layers read, and what they *)
(* tell of those they leave out.                                             *)
EXTENDS Integers, SequencesExt

CONSTANTS MAX_BANDIT_FILES, Budget

\* Sizes: within all limits, above Bandit's, above MAX_FILE_BYTES, above
\* MAX_ENTRYPOINT_BYTES, or not to be had.  The cost is the time its tests take.
Sizes == {"small", "medium", "large", "huge", "unknown"}

\* Below a directory of NOT_EXECUTED_DIRS ("tests"); if not there, below one of
\* SKIP_DIRS ("venv"); or neither.
Places == {"code", "venv", "tests"}
Files == [depth : Nat, place : Places, entry : BOOLEAN, size : Sizes,
          readable : BOOLEAN, cost : Nat]

-----------------------------------------------------------------------------
(* analyze_tree, with the list of unreadable files analyze_package gives it. *)

Candidate(file) ==
  /\ file.place = "code"
  /\ file.size \in {"small", "medium"} \/ (file.entry /\ file.size = "large")

Analysed(file)   == Candidate(file) /\ file.readable
Unreadable(file) == Candidate(file) /\ ~file.readable

-----------------------------------------------------------------------------
(* _run_bandit: the numbers of files in its notes, and what it looked at.    *)

\* Of the directories the rules leave out Bandit leaves out only some.
Excluded(file) == file.place = "tests"

BigOnly(file) == file.size \notin {"small", "unknown"}
TooBig(file)  == file.size # "small"

\* Paths are ordered by depth, then by name; the name is the place in files.
Before(files, i, k) ==
  files[i].depth < files[k].depth \/ (files[i].depth = files[k].depth /\ i < k)

Earlier(files, some, i) == {k \in some : Before(files, k, i)}

Clock(files, seen) ==
  FoldLeft(LAMBDA clock, cost : clock + cost, 0,
           [i \in DOMAIN files |-> IF i \in seen THEN files[i].cost ELSE 0])

\* Of what is sorted the first MAX_BANDIT_FILES are kept, and the clock is looked
\* at before each of them: so a file is seen if the ones before it took less time.
RunBandit(files) ==
  LET inside == {i \in DOMAIN files : ~Excluded(files[i])}
      big    == {i \in inside : TooBig(files[i])}
      scoped == inside \ big
      kept   == {i \in scoped : Cardinality(Earlier(files, scoped, i)) < MAX_BANDIT_FILES}
      seen   == {i \in kept : Clock(files, Earlier(files, kept, i)) < Budget}
  IN  [seen |-> seen, clock |-> Clock(files, seen), oversized |-> big,
       cut  |-> Cardinality(scoped) - Cardinality(kept),
       late |-> Cardinality(kept) - Cardinality(seen)]

-----------------------------------------------------------------------------
\* Every Python file that is not below tests or a skipped directory is read by the
\* rules or told: what they leave out for its size, or because its size cannot be
\* had, is among the files Bandit tells oversized.  Below a skipped directory (venv,
\* node_modules) the rules read nothing and say nothing, and a file there is
\* Bandit's alone.  What Bandit leaves out, there too, is told in numbers that add
\* up; of what it leaves out for its number or for the time nothing lies above a
\* file it looked at, and the time is overrun by one file at most.  (scan.py:
\* "건너뛴 파일은 응답의 layer_errors 에 파일명까지 남아", "얕은 경로 우선")
SkippedIsTold(files) ==
  LET r == RunBandit(files)
      code == {i \in DOMAIN files : files[i].place # "tests"}
      left == {i \in code \ r.seen : files[i].size = "small"}
  IN  /\ r.seen \subseteq code
      /\ \A i \in DOMAIN files : files[i].place = "code" =>
           Analysed(files[i]) \/ Unreadable(files[i]) \/ i \in r.oversized
      /\ Cardinality(code \ r.seen) = Cardinality(r.oversized) + r.cut + r.late
      /\ \A i \in r.seen, k \in left : files[i].depth <= files[k].depth
      /\ r.seen # {} => \E i \in r.seen : r.clock - files[i].cost < Budget
=============================================================================
