---------------------------- MODULE MCAlgorithms ----------------------------
(* The algorithms of the program that are functions of their input, each     *)
(* walked over inputs that are small and have every case: a first step       *)
(* chooses an algorithm and an input for it, and there is no second.         *)
EXTENDS Integers, SequencesExt

CONSTANTS Absent, Broken, Functions, Variables,
          MAX_ARTIFACT_BYTES, MAX_MEMBERS, MAX_UNCOMPRESSED_BYTES, MAX_BODY_BYTES,
          MAX_BANDIT_FILES, Budget

ASSUME LimitsAssumption ==
  /\ MAX_ARTIFACT_BYTES \in Nat /\ MAX_MEMBERS \in Nat
  /\ MAX_UNCOMPRESSED_BYTES \in Nat /\ MAX_BODY_BYTES \in Nat
  /\ MAX_BANDIT_FILES \in Nat /\ Budget \in Nat

\* The names of functions, of variables, and of all else that is stated differ.
ASSUME NamesAssumption ==
  /\ IsFiniteSet(Functions) /\ {"f", "g"} \subseteq Functions
  /\ {"top", "main", "hook", "import", "import_f", "decoder"} \cap (Functions \cup Variables) = {}
  /\ {"v", "w"} \subseteq Variables /\ Functions \cap Variables = {}

F == INSTANCE Features
T == INSTANCE InstallTime
D == INSTANCE Decoders
L == INSTANCE Limits
B == INSTANCE Budgets
P == INSTANCE PipArgs
H == INSTANCE Hooks

VARIABLES subject, input
vars == <<subject, input>>

Init == subject = "none" /\ input = <<>>

Chooses(name, inputs) ==
  /\ subject = "none" /\ subject' = name
  /\ input' \in inputs

\* Equal times, the bound of the window, one hour more; and with seven releases
\* three are less than half of all.
Bursts ==
  Chooses("burst", SeqOf({0, 12, 24, 25, 48, 49}, 5) \cup [1 .. 7 -> {0, 24, 25, 60, 100}])

Name(w) == \A i \in DOMAIN w : w[i] = "-" => i \in 2 .. Len(w) - 1 /\ w[i + 1] # "-"
Names == {w \in SeqOf({"a", "b", "-"}, 5) \ {<<>>} : Name(w)}
Typos == Chooses("typo", Names \X Names)

File(top, main, hook, f, g) ==
  [b \in T!Bodies |-> CASE b = "top" -> top [] b = "main" -> main [] b = "hook" -> hook
                        [] b = "f" -> f [] b = "g" -> g [] OTHER -> {}]
Setup ==
  {File(a, b, c, d, e) :
     a \in SUBSET {"f", "import"}, b \in {{}, {"g"}}, c \in SUBSET {"g", "import_f"},
     d \in SUBSET {"f", "g", "import_f"}, e \in SUBSET {"f"}}
Module ==
  {File(a, {"g"}, {}, b, c) :
     a \in SUBSET {"g"}, b \in SUBSET {"f", "g"}, c \in SUBSET {"f"}}
Trees ==
  [file : Module \cup {Absent, Broken}, package : {Absent}] \cup
  [file : {Absent}, package : Module]
Script == [name |-> "setup.py", in_tests |-> FALSE, marker |-> TRUE, init |-> FALSE, setup |-> TRUE]
Scripts == Chooses("scope", {Script} \X Setup \X Trees)
Modules == Chooses("scope", T!Places \X Setup \X {[file |-> Absent, package |-> Absent]})

Orders == {o \in [1 .. Cardinality(Functions) -> Functions] : ToSet(o) = Functions}
Decodings ==
  Chooses("decoder",
    {[bodies |-> b, assigned |-> [x \in Variables |-> IF x = "v" THEN v ELSE {"decoder"}],
      argument |-> a, order |-> o] : o \in Orders,
       b \in [Functions -> (SUBSET Functions) \cup {{"decoder"}}],
       v \in {{}, {"g"}, {"w"}, {"decoder"}}, a \in {{"f"}, {"v"}, {"g", "v"}, {"decoder"}}})

Chunks == SeqOf({1, 3, 5}, 3)
Downloads == Chooses("download", {0, 5, 6} \X {L!Unsaid, 0, 5, 6} \X Chunks)
Bodies == Chooses("body", {L!Unsaid, L!NotANumber, 0, 3, 4, 5} \X Chunks)
Member == [kind : {"reg", "dir", "link"}, safe : BOOLEAN, size : {0, 2, 3}]
Archives == Chooses("archive", {"tar", "zip", "other"} \X SeqOf(Member, 3))

AnyFile == {f \in [depth : {1, 2}, place : B!Places, entry : BOOLEAN, size : B!Sizes,
                   readable : BOOLEAN, cost : {2}] : f.size = "unknown" => ~f.readable}
SmallFile == [depth : {1, 2}, place : {"code"}, entry : {FALSE}, size : {"small", "medium"},
              readable : {TRUE}, cost : {1, 3}]
Budgeted == Chooses("budget", SeqOf(AnyFile, 2) \cup SeqOf(SmallFile, 4))

Commands == Chooses("guard", SeqOf(P!Tokens, 4) \X SeqOf(P!Lines, 2))

\* A class that is given, one that is not, and one of another file.
Class == [name : {"A", "B"}, calls : {{}} \cup {{call} : call \in H!Calls}]
Entry == [command : H!Commands, class : {"A", "B", "other"}]
Overrides ==
  Chooses("hook",
    {[cmdclass |-> e, classes |-> c] : e \in SeqOf(Entry, 2), c \in SeqOf(Class, 2)})
Paths ==
  {Append(dirs, "x.pth") : dirs \in SeqOf(H!Parts \ {"x.pth"}, 3)}
Pths == Chooses("pth", Paths \X BOOLEAN \X SeqOf(H!Lines, 2))

Next ==
  \/ Bursts \/ Typos \/ Scripts \/ Modules \/ Decodings
  \/ Downloads \/ Bodies \/ Archives \/ Budgeted \/ Commands
  \/ Overrides \/ Pths

Spec == Init /\ [][Next]_vars

-----------------------------------------------------------------------------
\* has_release_burst finds the three releases of a day, and only them.
BurstIsDense == subject = "burst" => F!BurstIsDense(input)

\* A typing error is compared at full similarity, whatever the names share.
TyposAreSeen == subject = "typo" => F!TyposAreSeen(input[1], input[2])

\* The rule of install time looks at what runs, and at nothing else.
ScopeIsWhatRuns == subject = "scope" => T!ScopeIsWhatRuns(input[1], input[2], input[3])

\* A decoded value is found behind functions and a variable.
DecodersAreFound == subject = "decoder" => D!DecodersAreFound(input)

\* No download, no archive and no body passes its limit, and none below it fails.
LimitsHold ==
  /\ subject = "download" => L!DownloadHolds(input[1], input[2], input[3])
  /\ subject = "archive"  => L!ExtractHolds(input[1], input[2])
  /\ subject = "body"     => L!BodyHolds(input[1], input[2])

\* Every file is read by a layer or told by one, but below a skipped directory.
SkippedIsTold == subject = "budget" => B!SkippedIsTold(input)

\* Every argument of pip is scanned, told, or no package.
GuardAccounts == subject = "guard" => P!GuardAccounts(input[1], input[2])

\* What pip or Python would run of a package's hooks blocks it, and nothing else.
HooksAreGraded ==
  /\ subject = "hook" => H!HookIsGraded(input)
  /\ subject = "pth"  => H!PthIsGraded(input[1], input[2], input[3])
=============================================================================
