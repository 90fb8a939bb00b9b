------------------------------ MODULE PipArgs ------------------------------
(* What guard makes of the arguments of pip install, which it hands to pip   *)
(* unchanged: the specs it scans, and the tokens it says it did not scan.  A *)
(* token, and a line of the requirements file, is known by its kind.         *)
EXTENDS Integers, SequencesExt

\* "spec"  a name, with or without a version       "path"  a path or a URL
\* "-t"    an option of _PIP_VALUE_FLAGS            "-U"    one without a value
\* "-x"    one with a value that guard does not know
\* "-r"    the requirements file follows            "-rF"   it is in the token
\* "-e"    a path to install in place follows
\* A URL in a file is a kind of its own: "https", in front of its colon, is a
\* name to _REQ_RE, which need not match to the end.  A line of a file may be an
\* option too: "-e" with its path, "-r" with one more file, which pip reads as it
\* does this one, or one that installs nothing ("-i").
Tokens == {"spec", "path", "-t", "-U", "-x", "-r", "-rF", "-e"}
Lines  == {"spec", "path", "url", "-e", "-r", "-i"}
Options == (Tokens \cup Lines) \ {"spec", "path", "url"}

FilesOnly == {"-r"}
PIP_VALUE_FLAGS == {"-t", "-e", "-r"}
LooksLikePypiSpec(token) == token = "spec"

\* What is found, by the token it comes from and the line in that file, or 0.
Direct(i) == <<i, 0>>

\* _specs_from_requirements: every line with an option is dropped, without a word;
\* so is all of a file that cannot be read, which is told and stops pip as well.
FromFile(i, lines) == {<<i, k>> : k \in {k \in DOMAIN lines : lines[k] \notin Options}}

\* The while loop, and pip's own: the tokens at which a reading stops that skips
\* one more behind the options in valued.
Stops(argv, valued) ==
  LET from[i \in 1 .. Len(argv) + 2] ==
        IF i > Len(argv) THEN {}
        ELSE {i} \cup from[IF argv[i] \in valued THEN i + 2 ELSE i + 1]
  IN  from[1]

ExtractSpecs(argv, lines) ==
  LET stops == Stops(argv, PIP_VALUE_FLAGS)
      named == {i \in stops : LooksLikePypiSpec(argv[i])}
      files == {i \in stops : argv[i] = "-r" /\ i < Len(argv)}
      other == {i \in stops \ named : argv[i] \notin Options}
  IN  [specs   |-> {Direct(i) : i \in named} \cup UNION {FromFile(i + 1, lines) : i \in files},
       skipped |-> {Direct(i) : i \in other}]

\* _resolve_spec finds no name in a path, and some name in everything else.
Named(spec, lines) == spec[2] = 0 \/ lines[spec[2]] # "path"

Guard(argv, lines) ==
  LET found == ExtractSpecs(argv, lines)
      scanned == {spec \in found.specs : Named(spec, lines)}
  IN  [scanned |-> scanned, told |-> found.skipped \cup (found.specs \ scanned)]

-----------------------------------------------------------------------------
(* pip's own reading of the arguments: what it installs.                     *)

TakesValue == {"-t", "-x", "-r", "-e"}
Wellformed(argv) ==
  \A i \in DOMAIN argv : argv[i] \in TakesValue =>
    i < Len(argv) /\ argv[i + 1] \notin Options

\* A line of a file that names a file stands for the packages of that one.
Installing(lines) == {k \in DOMAIN lines : lines[k] # "-i"}
PipInstalls(argv, lines) ==
  LET At(kinds) == {i \in Stops(argv, TakesValue) : argv[i] \in kinds}
  IN  {Direct(i) : i \in At({"spec", "path"})} \cup {Direct(i + 1) : i \in At({"-e"})}
      \cup {<<i + 1, k>> : i \in At({"-r"}), k \in Installing(lines)}
      \cup {<<i, k>> : i \in At({"-rF"}), k \in Installing(lines)}

\* Whatever pip will install guard scans or says that it does not, with four
\* exceptions, of which it says nothing: a path to install in place, among the
\* arguments or in the file, a file whose name is glued to its option, and a file
\* that the file names in turn.  And it scans nothing pip does not
\* install, as long as it knows which options have a value; a URL in the file is
\* scanned as a project of another name.  (su_scan.py, guard: "스캔 못 한 것을 조용히
\* 넘기면 검사했고 깨끗했다로 오해된다")
GuardAccounts(argv, lines) ==
  LET g == Guard(argv, lines)
      installed == PipInstalls(argv, lines)
      InPlace(p) == IF p[2] = 0 THEN p[1] > 1 /\ argv[p[1] - 1] = "-e" ELSE lines[p[2]] = "-e"
      Glued(p) == argv[p[1]] = "-rF" /\ p[2] > 0
      Nested(p) == p[2] > 0 /\ lines[p[2]] = "-r"
  IN  Wellformed(argv) =>
        /\ \A p \in installed : InPlace(p) \/ Glued(p) \/ Nested(p) \/ p \in g.scanned \cup g.told
        /\ "-x" \notin ToSet(argv) => g.scanned \cup g.told \subseteq installed
        /\ g.scanned \cap g.told = {}
=============================================================================
