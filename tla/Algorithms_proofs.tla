-------------------------- MODULE Algorithms_proofs --------------------------
(***************************************************************************)
(* What the algorithms compute, for inputs of any length.  TLC walks over  *)
(* small inputs; the theorems here are about all of them.  Where a proof   *)
(* takes induction, it is by the least counterexample.                     *)
(***************************************************************************)
EXTENDS MCAlgorithms, FiniteSetTheorems, WellFoundedInduction,
        SequenceTheorems, TLAPS

(* Every set of natural numbers that is not empty has a least one. *)
LEMMA LeastNumber ==
  ASSUME NEW S \in SUBSET Nat, S # {}
  PROVE  \E n \in S : \A m \in S : n <= m
<1> DEFINE R == OpToRel(<, Nat)
<1>1. IsWellFoundedOn(R, Nat)
  BY NatLessThanWellFounded
<1>2. \A m, n \in Nat : m < n => <<m, n>> \in R
  BY DEF OpToRel
<1> HIDE DEF R
<1>3. PICK n \in S : \A m \in S : <<m, n>> \notin R
  BY <1>1, WFMin
<1>4. ASSUME NEW m \in S PROVE n <= m
  <2>1. m \in Nat /\ n \in Nat
    OBVIOUS
  <2>2. ~ (m < n)
    BY <1>2, <1>3, <2>1
  <2> QED
    BY <2>1, <2>2
<1> QED
  BY <1>4

(* So what holds of 0, and of n + 1 if of n, holds of all.  The statement  *)
(* is given as the set of the numbers it holds of.                         *)
LEMMA Induction ==
  ASSUME NEW S, 0 \in S, \A n \in Nat : n \in S => n + 1 \in S
  PROVE  Nat \subseteq S
<1>1. CASE Nat \ S # {}
  <2>1. PICK n \in Nat \ S : \A m \in Nat \ S : n <= m
    BY <1>1, LeastNumber
  <2> QED
    BY <2>1, n - 1 \in Nat
<1> QED
  BY <1>1

LEMMA Elements ==
  ASSUME NEW X, NEW s \in Seq(X)
  PROVE  /\ Len(s) \in Nat /\ DOMAIN s = 1 .. Len(s)
         /\ \A i \in DOMAIN s : i \in Nat /\ s[i] \in X
OBVIOUS

-----------------------------------------------------------------------------
(* Hooks: any number of overridden commands and of classes, under any name. *)

HookFiles(names) ==
  [cmdclass : Seq([command : H!Commands, class : names]),
   classes  : Seq([name : names, calls : SUBSET H!Calls])]

(* What counts as a sink is what executes something. *)
LEMMA SinksExecute ==
  ASSUME NEW names, NEW class \in [name : names, calls : SUBSET H!Calls]
  PROVE  H!CallsExecSink(class) <=> H!Executes(class)
<1>1. ASSUME NEW call \in H!Calls
      PROVE  H!IsExecSink(call) <=>
               \/ call.kind = "distinct" \/ <<call.kind, call.on>> = <<"generic", "module">>
               \/ call.kind = "builtin" /\ call.on # "module" /\ call.on # "object"
  BY DEF H!Calls, H!IsExecSink
<1> QED
  BY <1>1 DEF H!CallsExecSink, H!Executes

(* The grade is high exactly if an entry of install or develop leads to a  *)
(* class with a sink.                                                      *)
LEMMA HighMeansHit ==
  ASSUME NEW names, NEW file \in HookFiles(names)
  PROVE  H!SetupCommandHook(file) = "high" <=> H!SinkHit(file)
<1>1. H!SinkHit(file) => H!Overridden(file) \cap H!VICTIM_SIDE # {}
  BY DEF H!SinkHit, H!Overridden
<1>2. H!VICTIM_SIDE \subseteq H!HOOKED_COMMANDS
  BY DEF H!VICTIM_SIDE, H!HOOKED_COMMANDS
<1>3. H!SinkHit(file) => H!Overridden(file) \cap H!HOOKED_COMMANDS # {}
  BY <1>1, <1>2
<1>4. \/ H!SetupCommandHook(file) = "none" /\ ~ H!SinkHit(file)
      \/ H!SetupCommandHook(file) = "high" /\ H!SinkHit(file)
      \/ H!SetupCommandHook(file) = "medium" /\ ~ H!SinkHit(file)
  BY <1>1, <1>3 DEF H!SetupCommandHook
<1> QED
  BY <1>4

(* With one class of each name, the first class of a name is the class.    *)
LEMMA TheClass ==
  ASSUME NEW names, NEW file \in HookFiles(names), NEW k \in DOMAIN file.classes,
         \A i, j \in DOMAIN file.classes :
           file.classes[i].name = file.classes[j].name => i = j
  PROVE  H!HookClass(file, file.classes[k].name) = file.classes[k]
<1>1. H!Definitions(file, file.classes[k].name) = {k}
  BY DEF H!Definitions
<1>2. k \in Nat
  BY DEF HookFiles
<1>3. H!Min({k}) = k
  BY <1>2 DEF H!Min
<1> QED
  BY <1>1, <1>3 DEF H!HookClass

(***************************************************************************)
(* An override is blocked exactly if the class pip runs executes something, *)
(* and told exactly if it is of a command that runs at an installation or a *)
(* build: for every cmdclass and every file.                               *)
(***************************************************************************)
THEOREM EveryHookIsGraded ==
  ASSUME NEW names, NEW file \in HookFiles(names)
  PROVE  H!HookIsGraded(file)
<1> DEFINE once ==
      /\ \A i, k \in DOMAIN file.cmdclass :
           file.cmdclass[i].command = file.cmdclass[k].command => i = k
      /\ \A i, k \in DOMAIN file.classes :
           file.classes[i].name = file.classes[k].name => i = k
    Hit(i) == LET class == file.cmdclass[i].class IN
              /\ file.cmdclass[i].command \in H!VICTIM_SIDE
              /\ H!Definitions(file, class) # {}
              /\ H!CallsExecSink(H!HookClass(file, class))
<1>1. /\ file.cmdclass \in Seq([command : H!Commands, class : names])
      /\ file.classes \in Seq([name : names, calls : SUBSET H!Calls])
      /\ \A i \in DOMAIN file.cmdclass :
           i \in Nat /\ file.cmdclass[i] \in [command : H!Commands, class : names]
      /\ \A k \in DOMAIN file.classes :
           k \in Nat /\ file.classes[k] \in [name : names, calls : SUBSET H!Calls]
  BY Elements DEF HookFiles
<1>2. ASSUME once PROVE H!SinkHit(file) <=> \E class \in H!Running(file) : H!Executes(class)
  <2>1. ASSUME NEW i \in DOMAIN file.cmdclass, Hit(i)
        PROVE  \E class \in H!Running(file) : H!Executes(class)
    <3>1. PICK k \in DOMAIN file.classes : file.classes[k].name = file.cmdclass[i].class
      BY <2>1 DEF H!Definitions
    <3>2. file.classes[k] \in [name : names, calls : SUBSET H!Calls]
      BY <1>1
    <3>3. H!Executes(file.classes[k])
      BY <1>2, <2>1, <3>1, <3>2, TheClass, SinksExecute
    <3>4. file.classes[k] \in H!Running(file)
      <4>1. file.classes[k] \in H!ToSet(file.classes)
        BY DEF H!ToSet
      <4>2. \A j \in i + 1 .. Len(file.cmdclass) :
              file.cmdclass[j].command # file.cmdclass[i].command
        BY <1>1, <1>2
      <4>3. \A j \in k + 1 .. Len(file.classes) :
              file.classes[j].name # file.classes[k].name
        BY <1>1, <1>2
      <4>4. file.cmdclass[i].command \in {"install", "develop"}
        BY <2>1 DEF H!VICTIM_SIDE
      <4> QED
        BY <3>1, <4>1, <4>2, <4>3, <4>4 DEF H!Running
    <3> QED
      BY <3>3, <3>4
  <2>2. ASSUME NEW c \in H!Running(file), H!Executes(c)
        PROVE  \E i \in DOMAIN file.cmdclass : Hit(i)
    <3>1. PICK i \in DOMAIN file.cmdclass, k \in DOMAIN file.classes :
            /\ c = file.classes[k] /\ file.cmdclass[i].class = c.name
            /\ file.cmdclass[i].command \in {"install", "develop"}
      BY <2>2 DEF H!Running
    <3>2. H!HookClass(file, file.cmdclass[i].class) = c
      BY <1>2, <3>1, TheClass
    <3>3. c \in [name : names, calls : SUBSET H!Calls]
      BY <1>1, <3>1
    <3>4. k \in H!Definitions(file, file.cmdclass[i].class)
      BY <3>1 DEF H!Definitions
    <3> QED
      BY <2>2, <3>1, <3>2, <3>3, <3>4, SinksExecute DEF H!VICTIM_SIDE
  <2> QED
    BY <2>1, <2>2 DEF H!SinkHit
<1>3. H!SetupCommandHook(file) = "none" <=>
        \A i \in DOMAIN file.cmdclass : file.cmdclass[i].command = "build_ext"
  <2>1. \A i \in DOMAIN file.cmdclass :
          file.cmdclass[i].command \in H!HOOKED_COMMANDS \cup {"build_ext"}
    BY <1>1 DEF H!Commands
  <2>2. H!SetupCommandHook(file) = "none" <=>
          H!Overridden(file) \cap H!HOOKED_COMMANDS = {}
    BY DEF H!SetupCommandHook, H!VICTIM_SIDE, H!HOOKED_COMMANDS
  <2> QED
    BY <2>1, <2>2 DEF H!Overridden, H!HOOKED_COMMANDS
<1> HIDE DEF once
<1>4. once => (H!SetupCommandHook(file) = "high" <=>
                 \E class \in H!Running(file) : H!Executes(class))
  BY <1>2, HighMeansHit
<1> QED
  BY <1>3, <1>4 DEF H!HookIsGraded, once

(***************************************************************************)
(* A line of a .pth file is reported high exactly if Python runs it at its *)
(* start, wherever in the archive the file lies.                           *)
(***************************************************************************)
THEOREM EveryPthIsGraded ==
  ASSUME NEW path \in Seq(H!Parts), path # <<>>, path[Len(path)] = "x.pth",
         NEW in_wheel \in BOOLEAN, NEW lines \in Seq(H!Lines)
  PROVE  H!PthIsGraded(path, in_wheel, lines)
<1>1. Len(path) \in Nat \ {0}
  OBVIOUS
<1>2. H!InstallsAtRoot(path) <=> Len(H!Installed(path)) = 1
  <2>1. CASE path[1] # "d.data"
    BY <2>1, <1>1 DEF H!InstallsAtRoot, H!Installed
  <2>2. CASE path[1] = "d.data" /\ Len(path) > 2 /\ path[2] = "purelib"
    <3>1. Len(SubSeq(path, 3, Len(path))) = Len(path) - 2
      BY <1>1, <2>2
    <3> QED
      BY <1>1, <2>2, <3>1 DEF H!InstallsAtRoot, H!Installed
  <2>3. CASE path[1] = "d.data" /\ ~ (Len(path) > 2 /\ path[2] = "purelib")
    <3>1. Len(path) # 1
      BY <2>3
    <3>2. H!Installed(path) = <<>>
      BY <2>3 DEF H!Installed, H!Elsewhere
    <3> QED
      BY <1>1, <2>3, <3>1, <3>2 DEF H!InstallsAtRoot
  <2> QED
    BY <2>1, <2>2, <2>3
<1>3. DOMAIN H!PthAutoexec(path, in_wheel, lines) = {i \in DOMAIN lines : H!Importing(lines[i])}
  BY DEF H!PthAutoexec
<1>4. \A i \in DOMAIN H!PthAutoexec(path, in_wheel, lines) :
        H!PthAutoexec(path, in_wheel, lines)[i] =
          IF ~in_wheel \/ H!InstallsAtRoot(path) THEN "high" ELSE "medium"
  BY DEF H!PthAutoexec
<1> QED
  BY <1>2, <1>3, <1>4 DEF H!PthIsGraded, H!Importing
-----------------------------------------------------------------------------
(* The arguments of pip, of any number.                                    *)

(* A recursion that only looks ahead has a solution: it is built from its  *)
(* end, and the set in the proof is that of the lengths it was built for.  *)
LEMMA ReadingExists ==
  ASSUME NEW n \in Nat, NEW after, \A i \in 1 .. n : after[i] \in i + 1 .. n + 2
  PROVE  \E f : f = [i \in 1 .. n + 2 |-> IF i > n THEN {} ELSE {i} \cup f[after[i]]]
<1> DEFINE Solves(f, m) ==
      f = [i \in m .. n + 2 |-> IF i > n THEN {} ELSE {i} \cup f[after[i]]]
    S == {k \in Nat : k <= n + 1 => \E f : Solves(f, n + 2 - k)}
<1>1. 0 \in S
  <2> DEFINE f == [i \in n + 2 .. n + 2 |-> {}]
  <2>1. Solves(f, n + 2 - 0)
    OBVIOUS
  <2> QED
    BY <2>1
<1>2. ASSUME NEW k \in Nat, k \in S PROVE k + 1 \in S
  <2> SUFFICES ASSUME k + 1 <= n + 1 PROVE \E f : Solves(f, n + 2 - (k + 1))
    OBVIOUS
  <2> DEFINE m == n + 2 - k
  <2>1. PICK f : Solves(f, m)
    BY <1>2
  <2>2. m \in Nat /\ m - 1 \in 1 .. n + 1 /\ n + 2 - (k + 1) = m - 1
    OBVIOUS
  <2> DEFINE Value(i) == IF i > n THEN {} ELSE {i} \cup f[after[i]]
             g == [i \in m - 1 .. n + 2 |-> Value(i)]
  <2>3. ASSUME NEW i \in m .. n + 2 PROVE g[i] = f[i]
    <3>1. f[i] = Value(i)
      BY <2>1
    <3>2. i \in m - 1 .. n + 2
      BY <2>2
    <3> HIDE DEF Value, m
    <3> QED
      BY <3>1, <3>2
  <2>4. ASSUME NEW i \in m - 1 .. n + 2, i <= n PROVE g[after[i]] = f[after[i]]
    <3>1. i \in 1 .. n
      BY <2>2, <2>4
    <3>2. after[i] \in m .. n + 2
      BY <2>2, <3>1
    <3> QED
      BY <2>3, <3>2
  <2>5. g = [i \in m - 1 .. n + 2 |-> IF i > n THEN {} ELSE {i} \cup g[after[i]]]
    <3>1. ASSUME NEW i \in m - 1 .. n + 2
          PROVE  Value(i) = IF i > n THEN {} ELSE {i} \cup g[after[i]]
      <4>1. i \in Int /\ (i > n \/ i <= n)
        BY <2>2
      <4>2. CASE i > n
        BY <4>2
      <4>3. CASE i <= n
        <5>1. g[after[i]] = f[after[i]]
          BY <2>4, <4>3
        <5> HIDE DEF g
        <5> QED
          BY <5>1
      <4> QED
        BY <4>1, <4>2, <4>3
    <3> HIDE DEF Value
    <3> QED
      BY <3>1
  <2> HIDE DEF g
  <2> QED
    BY <2>2, <2>5
<1> HIDE DEF S
<1>3. n + 1 \in S
  BY <1>1, <1>2, Induction
<1> QED
  BY <1>3 DEF S

(* What it finds is the least set that has the first token and all that    *)
(* follow one in it.                                                       *)
LEMMA ReadingIsLeast ==
  ASSUME NEW n \in Nat, NEW after, \A i \in 1 .. n : after[i] \in i + 1 .. n + 2,
         NEW f, f = [i \in 1 .. n + 2 |-> IF i > n THEN {} ELSE {i} \cup f[after[i]]]
  PROVE  /\ f[1] \subseteq 1 .. n
         /\ n > 0 => 1 \in f[1]
         /\ \A i \in f[1] : after[i] <= n => after[i] \in f[1]
         /\ \A U : (n > 0 => 1 \in U) /\ (\A i \in U : i \in 1 .. n /\ after[i] <= n => after[i] \in U)
                     => f[1] \subseteq U
<1> DEFINE Good(i) ==
      /\ f[i] \subseteq 1 .. n
      /\ i <= n => i \in f[i]
      /\ \A j \in f[i] : after[j] <= n => after[j] \in f[i]
      /\ \A U : (i <= n => i \in U) /\ (\A j \in U : j \in 1 .. n /\ after[j] <= n => after[j] \in U)
                  => f[i] \subseteq U
    S == {k \in Nat : \A i \in 1 .. n + 2 : i + k > n => Good(i)}
<1>1. ASSUME NEW i \in 1 .. n + 2, i > n PROVE f[i] = {}
  BY <1>1
<1>2. ASSUME NEW i \in 1 .. n PROVE f[i] = {i} \cup f[after[i]]
  BY <1>2
<1>3. ASSUME NEW i \in 1 .. n + 2, i > n PROVE Good(i)
  BY <1>1, <1>3
<1>4. ASSUME NEW k \in Nat, k \in S, NEW i \in 1 .. n + 2, i + k = n PROVE Good(i)
  <2>1. i \in 1 .. n /\ i <= n /\ after[i] \in 1 .. n + 2 /\ after[i] + k > n
    <3>1. i \in 1 .. n /\ i <= n
      BY <1>4
    <3>2. after[i] \in i + 1 .. n + 2
      BY <3>1
    <3> QED
      BY <1>4, <3>1, <3>2
  <2>2. Good(after[i])
    BY <1>4, <2>1
  <2>3. f[i] = {i} \cup f[after[i]]
    BY <1>2, <2>1
  <2>4. f[i] \subseteq 1 .. n /\ i \in f[i]
    BY <2>1, <2>2, <2>3
  <2>5. \A j \in f[i] : after[j] <= n => after[j] \in f[i]
    BY <2>1, <2>2, <2>3
  <2>6. ASSUME NEW U, i \in U, \A j \in U : j \in 1 .. n /\ after[j] <= n => after[j] \in U
        PROVE  f[i] \subseteq U
    <3>1. after[i] <= n => after[i] \in U
      BY <2>1, <2>6
    <3> QED
      BY <2>2, <2>3, <2>6, <3>1
  <2> QED
    BY <2>1, <2>4, <2>5, <2>6
<1> HIDE DEF Good
<1>5. 0 \in S
  BY <1>3
<1>6. ASSUME NEW k \in Nat, k \in S PROVE k + 1 \in S
  BY <1>4, <1>6
<1>7. n \in S
  <2> HIDE DEF S
  <2> QED
    BY <1>5, <1>6, Induction
<1>8. Good(1)
  BY <1>7
<1>9. n > 0 <=> 1 <= n
  OBVIOUS
<1> QED
  BY <1>8, <1>9 DEF Good

After(argv, valued, i) == IF argv[i] \in valued THEN i + 2 ELSE i + 1

LEMMA StopsAreLeast ==
  ASSUME NEW argv \in Seq(P!Tokens), NEW valued
  PROVE  /\ P!Stops(argv, valued) \subseteq 1 .. Len(argv)
         /\ Len(argv) > 0 => 1 \in P!Stops(argv, valued)
         /\ \A i \in P!Stops(argv, valued) :
              After(argv, valued, i) <= Len(argv) => After(argv, valued, i) \in P!Stops(argv, valued)
         /\ \A U : /\ Len(argv) > 0 => 1 \in U
                   /\ \A i \in U : i \in 1 .. Len(argv) /\ After(argv, valued, i) <= Len(argv)
                        => After(argv, valued, i) \in U
                   => P!Stops(argv, valued) \subseteq U
<1> DEFINE n == Len(argv)
           after == [i \in 1 .. n |-> After(argv, valued, i)]
           Solves(f) == f = [i \in 1 .. n + 2 |->
                               IF i > n THEN {}
                               ELSE {i} \cup f[IF argv[i] \in valued THEN i + 2 ELSE i + 1]]
           from == CHOOSE f : Solves(f)
<1>1. n \in Nat
  OBVIOUS
<1>2. \A i \in 1 .. n : after[i] = After(argv, valued, i) /\ after[i] \in i + 1 .. n + 2
  BY <1>1 DEF After
<1>3. ASSUME NEW f PROVE Solves(f) <=> f = [i \in 1 .. n + 2 |-> IF i > n THEN {} ELSE {i} \cup f[after[i]]]
  <2>1. \A i \in 1 .. n + 2 : ~ (i > n) =>
          after[i] = IF argv[i] \in valued THEN i + 2 ELSE i + 1
    BY <1>1, <1>2 DEF After
  <2> HIDE DEF after
  <2> QED
    BY <2>1
<1> HIDE DEF after
<1>4. \E f : Solves(f)
  <2>1. \E f : f = [i \in 1 .. n + 2 |-> IF i > n THEN {} ELSE {i} \cup f[after[i]]]
    BY <1>1, <1>2, ReadingExists
  <2> HIDE DEF Solves
  <2> QED
    BY <1>3, <2>1
<1>5. Solves(from)
  BY <1>4
<1>6. P!Stops(argv, valued) = from[1]
  BY DEF P!Stops
<1> HIDE DEF from, Solves
<1>7. from = [i \in 1 .. n + 2 |-> IF i > n THEN {} ELSE {i} \cup from[after[i]]]
  BY <1>3, <1>5
<1>8. /\ from[1] \subseteq 1 .. n
      /\ n > 0 => 1 \in from[1]
      /\ \A i \in from[1] : after[i] <= n => after[i] \in from[1]
      /\ \A U : (n > 0 => 1 \in U) /\ (\A i \in U : i \in 1 .. n /\ after[i] <= n => after[i] \in U)
                  => from[1] \subseteq U
  BY <1>1, <1>2, <1>7, ReadingIsLeast
<1>9. \A i \in from[1] : After(argv, valued, i) <= n => After(argv, valued, i) \in from[1]
  BY <1>2, <1>8
<1>10. ASSUME NEW U, n > 0 => 1 \in U,
              \A i \in U : i \in 1 .. n /\ After(argv, valued, i) <= n => After(argv, valued, i) \in U
       PROVE  from[1] \subseteq U
  <2>1. \A i \in U : i \in 1 .. n /\ after[i] <= n => after[i] \in U
    BY <1>2, <1>10
  <2> QED
    BY <1>8, <1>10, <2>1
<1> QED
  BY <1>6, <1>8, <1>9, <1>10

(* Where pip stops, guard stops: a value guard takes for an argument is no *)
(* option, so it falls in with pip again behind it.  And as long as it     *)
(* knows all options with a value, it stops nowhere else.                  *)
LEMMA GuardStopsWithPip ==
  ASSUME NEW argv \in Seq(P!Tokens), P!Wellformed(argv)
  PROVE  /\ P!Stops(argv, P!TakesValue) \subseteq P!Stops(argv, P!PIP_VALUE_FLAGS)
         /\ (\A i \in DOMAIN argv : argv[i] # "-x") =>
              P!Stops(argv, P!PIP_VALUE_FLAGS) \subseteq P!Stops(argv, P!TakesValue)
<1> DEFINE n == Len(argv)
           G == P!Stops(argv, P!PIP_VALUE_FLAGS)
           Q == P!Stops(argv, P!TakesValue)
<1>1. n \in Nat /\ DOMAIN argv = 1 .. n
  OBVIOUS
<1>2. \A i \in 1 .. n : After(argv, P!PIP_VALUE_FLAGS, i) =
        IF argv[i] = "-x" THEN i + 1 ELSE After(argv, P!TakesValue, i)
  BY DEF After, P!PIP_VALUE_FLAGS, P!TakesValue
<1>3. /\ G \subseteq 1 .. n /\ (n > 0 => 1 \in G)
      /\ \A i \in G : After(argv, P!PIP_VALUE_FLAGS, i) <= n => After(argv, P!PIP_VALUE_FLAGS, i) \in G
      /\ \A U : /\ n > 0 => 1 \in U
                /\ \A i \in U : i \in 1 .. n /\ After(argv, P!PIP_VALUE_FLAGS, i) <= n
                     => After(argv, P!PIP_VALUE_FLAGS, i) \in U
                => G \subseteq U
  BY StopsAreLeast
<1>4. /\ Q \subseteq 1 .. n /\ (n > 0 => 1 \in Q)
      /\ \A i \in Q : After(argv, P!TakesValue, i) <= n => After(argv, P!TakesValue, i) \in Q
      /\ \A U : /\ n > 0 => 1 \in U
                /\ \A i \in U : i \in 1 .. n /\ After(argv, P!TakesValue, i) <= n
                     => After(argv, P!TakesValue, i) \in U
                => Q \subseteq U
  BY StopsAreLeast
<1> HIDE DEF G, Q
<1>5. ASSUME NEW i \in G, After(argv, P!TakesValue, i) <= n
      PROVE  After(argv, P!TakesValue, i) \in G
  <2>1. i \in 1 .. n
    BY <1>3
  <2>2. CASE argv[i] = "-x"
    <3>1. After(argv, P!TakesValue, i) = i + 2 /\ After(argv, P!PIP_VALUE_FLAGS, i) = i + 1
      BY <2>1, <2>2, <1>2 DEF After, P!TakesValue
    <3>2. i + 1 \in 1 .. n /\ argv[i + 1] \notin P!Options
      BY <1>1, <2>1, <2>2 DEF P!Wellformed, P!TakesValue
    <3>3. i + 1 \in G
      BY <1>3, <3>1, <3>2
    <3>4. After(argv, P!PIP_VALUE_FLAGS, i + 1) = i + 2
      BY <3>2, <2>1 DEF After, P!Options, P!Tokens, P!PIP_VALUE_FLAGS
    <3> QED
      BY <1>3, <1>5, <3>1, <3>3, <3>4
  <2>3. CASE argv[i] # "-x"
    BY <1>2, <1>3, <1>5, <2>1, <2>3
  <2> QED
    BY <2>2, <2>3
<1>6. Q \subseteq G
  BY <1>3, <1>4, <1>5
<1>7. (\A i \in DOMAIN argv : argv[i] # "-x") => G \subseteq Q
  BY <1>1, <1>2, <1>3, <1>4
<1> QED
  BY <1>6, <1>7 DEF G, Q

(***************************************************************************)
(* Of whatever is handed to pip, in any number and order, guard scans each *)
(* package or says that it did not, but for what is installed in place, a  *)
(* file whose name is glued to its option, and one that a file names.      *)
(***************************************************************************)
THEOREM EveryArgumentIsAccountedFor ==
  ASSUME NEW argv \in Seq(P!Tokens), NEW lines \in Seq(P!Lines)
  PROVE  P!GuardAccounts(argv, lines)
<1> SUFFICES ASSUME P!Wellformed(argv) PROVE P!GuardAccounts(argv, lines)
  BY DEF P!GuardAccounts
<1> DEFINE
    G == P!Stops(argv, P!PIP_VALUE_FLAGS)
    Q == P!Stops(argv, P!TakesValue)
    found == P!ExtractSpecs(argv, lines)
    guard == P!Guard(argv, lines)
    installed == P!PipInstalls(argv, lines)
    InPlace(p) == IF p[2] = 0 THEN p[1] > 1 /\ argv[p[1] - 1] = "-e" ELSE lines[p[2]] = "-e"
    Glued(p) == argv[p[1]] = "-rF" /\ p[2] > 0
    Nested(p) == p[2] > 0 /\ lines[p[2]] = "-r"
<1>1. /\ Len(argv) \in Nat /\ DOMAIN argv = 1 .. Len(argv)
      /\ \A i \in DOMAIN argv : argv[i] \in P!Tokens
      /\ \A k \in DOMAIN lines : k \in Nat \ {0} /\ lines[k] \in P!Lines
  OBVIOUS
<1>2. G \subseteq DOMAIN argv /\ Q \subseteq DOMAIN argv
  BY <1>1, StopsAreLeast
<1>3. Q \subseteq G /\ ((\A i \in DOMAIN argv : argv[i] # "-x") => G \subseteq Q)
  BY GuardStopsWithPip
<1> HIDE DEF G, Q
<1>4. /\ found.specs = {<<i, 0>> : i \in {i \in G : argv[i] = "spec"}} \cup
                       UNION {P!FromFile(i + 1, lines) :
                                i \in {i \in G : argv[i] = "-r" /\ i < Len(argv)}}
      /\ found.skipped = {<<i, 0>> : i \in {i \in G : argv[i] = "path"}}
  <2>1. {i \in G \ {i \in G : argv[i] = "spec"} : argv[i] \notin P!Options} =
          {i \in G : argv[i] = "path"}
    BY <1>1, <1>2 DEF P!Options, P!Tokens
  <2> QED
    BY <2>1 DEF P!ExtractSpecs, P!LooksLikePypiSpec, P!Direct, G
<1>5. installed = {<<i, 0>> : i \in {i \in Q : argv[i] \in {"spec", "path"}}}
                  \cup {<<i + 1, 0>> : i \in {i \in Q : argv[i] \in {"-e"}}}
                  \cup {<<i + 1, k>> : i \in {i \in Q : argv[i] \in {"-r"}}, k \in P!Installing(lines)}
                  \cup {<<i, k>> : i \in {i \in Q : argv[i] \in {"-rF"}}, k \in P!Installing(lines)}
  BY DEF P!PipInstalls, P!Direct, Q
<1>6. /\ guard.scanned \cup guard.told = found.specs \cup found.skipped
      /\ guard.scanned \subseteq found.specs
      /\ guard.scanned \cap guard.told \subseteq found.specs \cap found.skipped
  BY DEF P!Guard
<1> HIDE DEF found, guard, installed
<1>7. ASSUME NEW p \in installed
      PROVE  InPlace(p) \/ Glued(p) \/ Nested(p) \/ p \in found.specs \cup found.skipped
  <2>1. ASSUME NEW i \in Q, argv[i] \in {"spec", "path"}, p = <<i, 0>>
        PROVE  p \in found.specs \cup found.skipped
    BY <1>3, <1>4, <2>1
  <2>2. ASSUME NEW i \in Q, argv[i] = "-e", p = <<i + 1, 0>>
        PROVE  InPlace(p)
    <3>1. i \in Nat \ {0}
      BY <1>1, <1>2
    <3> QED
      BY <2>2, <3>1
  <2>3. ASSUME NEW i \in Q, NEW k \in P!Installing(lines), argv[i] = "-r", p = <<i + 1, k>>
        PROVE  InPlace(p) \/ Nested(p) \/ p \in found.specs
    <3> k \in DOMAIN lines /\ lines[k] # "-i"
      BY DEF P!Installing
    <3>1. CASE lines[k] \in {"-e", "-r"}
      BY <1>1, <2>3, <3>1
    <3>2. CASE lines[k] \notin {"-e", "-r"}
      <4>1. lines[k] \notin P!Options
        BY <1>1, <3>2 DEF P!Lines, P!Options, P!Tokens
      <4>2. p \in P!FromFile(i + 1, lines)
        BY <2>3, <4>1 DEF P!FromFile
      <4>3. i \in G /\ i < Len(argv)
        BY <1>2, <1>3, <2>3 DEF P!Wellformed, P!TakesValue
      <4> QED
        BY <1>4, <2>3, <4>2, <4>3
    <3> QED
      BY <3>1, <3>2
  <2>4. ASSUME NEW i \in Q, NEW k \in P!Installing(lines), argv[i] = "-rF", p = <<i, k>>
        PROVE  Glued(p)
    BY <1>1, <2>4 DEF P!Installing
  <2> QED
    BY <1>5, <2>1, <2>2, <2>3, <2>4
<1>8. ASSUME \A i \in DOMAIN argv : argv[i] # "-x", NEW p \in found.specs \cup found.skipped
      PROVE  p \in installed
  <2>1. G \subseteq Q
    BY <1>3, <1>8
  <2>2. ASSUME NEW i \in G, argv[i] \in {"spec", "path"}, p = <<i, 0>> PROVE p \in installed
    BY <1>5, <2>1, <2>2
  <2>3. ASSUME NEW i \in G, argv[i] = "-r", p \in P!FromFile(i + 1, lines) PROVE p \in installed
    <3>1. PICK k \in P!Installing(lines) : p = <<i + 1, k>>
      <4>1. PICK k \in DOMAIN lines : p = <<i + 1, k>> /\ lines[k] \notin P!Options
        BY <2>3 DEF P!FromFile
      <4> QED
        BY <4>1 DEF P!Options, P!Lines, P!Installing
    <3> QED
      BY <1>5, <2>1, <2>3, <3>1
  <2> QED
    BY <1>4, <1>8, <2>2, <2>3
<1>9. found.specs \cap found.skipped = {}
  <2>1. ASSUME NEW i, NEW p \in P!FromFile(i, lines) PROVE p \notin found.skipped
    BY <1>1, <1>4, <2>1 DEF P!FromFile
  <2> QED
    BY <1>4, <2>1
<1>10. "-x" \notin P!ToSet(argv) => \A i \in DOMAIN argv : argv[i] # "-x"
  BY DEF P!ToSet
<1>11. /\ \A p \in installed : InPlace(p) \/ Glued(p) \/ Nested(p) \/ p \in guard.scanned \cup guard.told
       /\ "-x" \notin P!ToSet(argv) => guard.scanned \cup guard.told \subseteq installed
       /\ guard.scanned \cap guard.told = {}
  BY <1>6, <1>7, <1>8, <1>9, <1>10
<1> QED
  BY <1>11 DEF P!GuardAccounts, guard, installed
-----------------------------------------------------------------------------
(* Folds over a sequence.                                                  *)

Greatest(s) == CHOOSE x \in s : \A y \in s : x >= y

LEMMA GreatestIsThere ==
  ASSUME NEW n \in Nat, NEW s \in SUBSET (1 .. n), s # {}
  PROVE  /\ Greatest(s) \in s
         /\ \A y \in s : y <= Greatest(s)
<1> DEFINE below == {n - x : x \in s}
<1>1. PICK m \in below : \A y \in below : m <= y
  <2>1. \A x \in s : n - x \in Nat
    OBVIOUS
  <2>2. below \in SUBSET Nat /\ below # {}
    BY <2>1
  <2> HIDE DEF below
  <2> QED
    BY <2>2, LeastNumber
<1>2. PICK x \in s : m = n - x
  BY <1>1
<1>3. \A y \in s : n - y \in below
  OBVIOUS
<1> HIDE DEF below
<1>4. \A y \in s : x >= y
  <2>1. \A y \in s : n - x <= n - y
    BY <1>1, <1>2, <1>3
  <2> QED
    BY <2>1
<1>5. Greatest(s) \in s /\ \A y \in s : Greatest(s) >= y
  BY <1>4 DEF Greatest
<1> QED
  BY <1>5

LEMMA WithoutGreatest ==
  ASSUME NEW k \in Nat, NEW s \in SUBSET (1 .. k + 1), s # {}
  PROVE  s \ {Greatest(s)} \in SUBSET (1 .. k) /\ Greatest(s) \in 1 .. k + 1
<1>1. Greatest(s) \in s /\ \A y \in s : y <= Greatest(s)
  BY GreatestIsThere, k + 1 \in Nat
<1>2. \A y \in s : y \in Int /\ 1 <= y /\ y <= k + 1
  OBVIOUS
<1> DEFINE top == Greatest(s)
<1>3. top \in s /\ \A y \in s : y <= top
  BY <1>1
<1> HIDE DEF top
<1>4. ASSUME NEW y \in s, y # top PROVE y \in 1 .. k
  BY <1>2, <1>3, <1>4
<1>5. s \ {top} \in SUBSET (1 .. k) /\ top \in 1 .. k + 1
  BY <1>2, <1>3, <1>4
<1> QED
  BY <1>5 DEF top

LEMMA GreatestOfRange ==
  ASSUME NEW n \in Nat, NEW k \in 1 .. n
  PROVE  Greatest(1 .. k) = k /\ (1 .. k) \ {Greatest(1 .. k)} = 1 .. k - 1
<1>1. 1 .. k \in SUBSET (1 .. n) /\ k \in 1 .. k
  OBVIOUS
<1>2. Greatest(1 .. k) \in 1 .. k /\ k <= Greatest(1 .. k)
  BY <1>1, GreatestIsThere
<1> QED
  BY <1>2

(* FoldLeft takes a set of places from its greatest one down.              *)
Folds(f, n, base, step) ==
  f = [s \in SUBSET (1 .. n) |->
         IF s = {} THEN base ELSE step[<<f[s \ {Greatest(s)}], Greatest(s)>>]]

LEMMA FoldExists ==
  ASSUME NEW n \in Nat, NEW V, NEW base \in V, NEW step \in [V \X (1 .. n) -> V]
  PROVE  \E f \in [SUBSET (1 .. n) -> V] : Folds(f, n, base, step)
<1> DEFINE Solved(k) == \E f \in [SUBSET (1 .. k) -> V] : Folds(f, k, base, step)
           S == {k \in Nat : k <= n => Solved(k)}
<1>1. Solved(0)
  <2> DEFINE f == [s \in SUBSET (1 .. 0) |-> base]
  <2>1. f \in [SUBSET (1 .. 0) -> V]
    OBVIOUS
  <2>2. \A s \in SUBSET (1 .. 0) : s = {}
    OBVIOUS
  <2>3. Folds(f, 0, base, step)
    BY <2>2 DEF Folds
  <2> QED
    BY <2>1, <2>3
<1>2. ASSUME NEW k \in Nat, k + 1 <= n, Solved(k) PROVE Solved(k + 1)
  <2>1. PICK f \in [SUBSET (1 .. k) -> V] : Folds(f, k, base, step)
    BY <1>2
  <2> DEFINE Value(s) == IF s = {} THEN base ELSE step[<<f[s \ {Greatest(s)}], Greatest(s)>>]
             g == [s \in SUBSET (1 .. k + 1) |-> Value(s)]
  <2>2. ASSUME NEW s \in SUBSET (1 .. k + 1), s # {}
        PROVE  s \ {Greatest(s)} \in SUBSET (1 .. k) /\ Greatest(s) \in 1 .. n
    <3>1. s \ {Greatest(s)} \in SUBSET (1 .. k) /\ Greatest(s) \in 1 .. k + 1
      BY <2>2, WithoutGreatest
    <3> QED
      BY <1>2, <3>1
  <2>3. ASSUME NEW s \in SUBSET (1 .. k) PROVE g[s] = f[s]
    <3>1. f[s] = Value(s)
      BY <2>1 DEF Folds
    <3>2. s \in SUBSET (1 .. k + 1)
      OBVIOUS
    <3> HIDE DEF Value
    <3> QED
      BY <3>1, <3>2
  <2>4. ASSUME NEW s \in SUBSET (1 .. k + 1)
        PROVE  /\ Value(s) \in V
               /\ Value(s) = IF s = {} THEN base ELSE step[<<g[s \ {Greatest(s)}], Greatest(s)>>]
    <3>1. CASE s = {}
      BY <3>1
    <3>2. CASE s # {}
      <4>1. s \ {Greatest(s)} \in SUBSET (1 .. k) /\ Greatest(s) \in 1 .. n
        BY <2>2, <3>2
      <4>2. g[s \ {Greatest(s)}] = f[s \ {Greatest(s)}]
        BY <2>3, <4>1
      <4> HIDE DEF g
      <4> QED
        BY <3>2, <4>1, <4>2
    <3> QED
      BY <3>1, <3>2
  <2>5. g \in [SUBSET (1 .. k + 1) -> V]
    <3> HIDE DEF Value
    <3> QED
      BY <2>4
  <2>6. Folds(g, k + 1, base, step)
    <3> DEFINE h == [s \in SUBSET (1 .. k + 1) |->
                       IF s = {} THEN base ELSE step[<<g[s \ {Greatest(s)}], Greatest(s)>>]]
    <3>1. g = h
      <4> HIDE DEF Value
      <4> QED
        BY <2>4
    <3> HIDE DEF g
    <3> QED
      BY <3>1 DEF Folds
  <2> QED
    BY <2>5, <2>6
<1> HIDE DEF Solved
<1>3. 0 \in S
  BY <1>1
<1>4. ASSUME NEW k \in Nat, k \in S PROVE k + 1 \in S
  BY <1>2, <1>4
<1>5. n \in S
  <2> HIDE DEF S
  <2> QED
    BY <1>3, <1>4, Induction
<1>6. Solved(n)
  BY <1>5
<1> QED
  BY <1>6 DEF Solved

(* Of such a fold, the places 1 to k give the result of the first k steps. *)
Runs(run, n, V, base, step, result) ==
  /\ run \in [0 .. n -> V]
  /\ run[0] = base
  /\ \A k \in 1 .. n : run[k] = step[<<run[k - 1], k>>]
  /\ run[n] = result

LEMMA Running ==
  ASSUME NEW n \in Nat, NEW V, NEW base \in V, NEW step \in [V \X (1 .. n) -> V],
         NEW iter, iter[{}] = base,
         \A s \in SUBSET (1 .. n) : s # {} /\ iter[s \ {Greatest(s)}] \in V =>
           iter[s] = step[<<iter[s \ {Greatest(s)}], Greatest(s)>>]
  PROVE  \E run : Runs(run, n, V, base, step, iter[1 .. n])
<1> DEFINE run == [k \in 0 .. n |-> iter[1 .. k]]
           S == {k \in Nat : k <= n => iter[1 .. k] \in V}
<1>1. iter[1 .. 0] = base
  <2>1. 1 .. 0 = {}
    OBVIOUS
  <2> QED
    BY <2>1
<1>2. ASSUME NEW k \in 1 .. n, iter[1 .. k - 1] \in V
      PROVE  iter[1 .. k] = step[<<iter[1 .. k - 1], k>>] /\ iter[1 .. k] \in V
  <2>1. 1 .. k \in SUBSET (1 .. n) /\ 1 .. k # {}
    OBVIOUS
  <2>2. Greatest(1 .. k) = k /\ (1 .. k) \ {Greatest(1 .. k)} = 1 .. k - 1
    BY GreatestOfRange
  <2> QED
    BY <1>2, <2>1, <2>2
<1>3. 0 \in S
  BY <1>1
<1>4. ASSUME NEW k \in Nat, k \in S PROVE k + 1 \in S
  <2>1. ASSUME k + 1 <= n PROVE iter[1 .. k + 1] \in V
    <3>1. k + 1 \in 1 .. n /\ (k + 1) - 1 = k /\ k <= n
      BY <2>1
    <3>2. iter[1 .. k] \in V
      BY <1>4, <3>1
    <3> QED
      BY <1>2, <3>1, <3>2
  <2> QED
    BY <2>1
<1>5. \A k \in 0 .. n : iter[1 .. k] \in V
  <2>1. Nat \subseteq S
    <3> HIDE DEF S
    <3> QED
      BY <1>3, <1>4, Induction
  <2> QED
    BY <2>1
<1>6. run \in [0 .. n -> V] /\ run[0] = base /\ run[n] = iter[1 .. n]
  BY <1>1, <1>5
<1>7. ASSUME NEW k \in 1 .. n PROVE run[k] = step[<<run[k - 1], k>>]
  <2>1. k - 1 \in 0 .. n /\ k \in 0 .. n
    OBVIOUS
  <2> QED
    BY <1>2, <1>5, <2>1
<1> HIDE DEF run
<1>8. Runs(run, n, V, base, step, iter[1 .. n])
  BY <1>6, <1>7 DEF Runs
<1> QED
  BY <1>8

-----------------------------------------------------------------------------
(* Limits: any number of pieces or members, of any size.                   *)

(* The total grows by each piece. *)
LEMMA TotalGrows ==
  ASSUME NEW sizes \in Seq(Nat)
  PROVE  \E sum \in [0 .. Len(sizes) -> Nat] :
           /\ sum[0] = 0
           /\ \A k \in 1 .. Len(sizes) : sum[k] = sum[k - 1] + sizes[k]
           /\ sum[Len(sizes)] = L!Total(sizes)
<1> DEFINE n == Len(sizes)
           step == [p \in Nat \X (1 .. n) |-> p[1] + sizes[p[2]]]
           Solves(f) == f = [s \in SUBSET DOMAIN sizes |->
                               IF s = {} THEN 0
                               ELSE f[s \ {L!Max(s)}] + sizes[L!Max(s)]]
           iter == CHOOSE f : Solves(f)
<1>1. n \in Nat /\ DOMAIN sizes = 1 .. n /\ \A k \in 1 .. n : sizes[k] \in Nat
  OBVIOUS
<1>2. \A s : L!Max(s) = Greatest(s)
  BY DEF L!Max, Greatest
<1>3. step \in [Nat \X (1 .. n) -> Nat]
  BY <1>1
<1>4. \A x \in Nat, k \in 1 .. n : step[<<x, k>>] = x + sizes[k]
  OBVIOUS
<1> HIDE DEF step
<1>5. \E f : Solves(f)
  <2>1. PICK f \in [SUBSET (1 .. n) -> Nat] : Folds(f, n, 0, step)
    BY <1>1, <1>3, FoldExists
  <2>2. ASSUME NEW s \in SUBSET (1 .. n), s # {}
        PROVE  step[<<f[s \ {Greatest(s)}], Greatest(s)>>] = f[s \ {L!Max(s)}] + sizes[L!Max(s)]
    <3>1. Greatest(s) \in 1 .. n /\ f[s \ {Greatest(s)}] \in Nat
      BY <1>1, <2>1, <2>2, GreatestIsThere
    <3> QED
      BY <1>2, <1>4, <3>1
  <2>3. Solves(f)
    BY <1>1, <2>1, <2>2 DEF Folds
  <2> QED
    BY <2>3
<1>6. Solves(iter)
  <2> HIDE DEF Solves
  <2> QED
    BY <1>5
<1>7. L!Total(sizes) = iter[1 .. n]
  BY <1>1 DEF L!Total, L!FoldLeft, L!MapThenFoldSet
<1> HIDE DEF iter
<1>8. iter[{}] = 0
  BY <1>6
<1>9. ASSUME NEW s \in SUBSET (1 .. n), s # {} /\ iter[s \ {Greatest(s)}] \in Nat
      PROVE  iter[s] = step[<<iter[s \ {Greatest(s)}], Greatest(s)>>]
  <2>1. Greatest(s) \in 1 .. n
    BY <1>1, <1>9, GreatestIsThere
  <2>2. iter[s] = iter[s \ {Greatest(s)}] + sizes[Greatest(s)]
    BY <1>1, <1>2, <1>6, <1>9
  <2> QED
    BY <1>4, <1>9, <2>1, <2>2
<1> HIDE DEF Solves
<1>10. PICK sum : Runs(sum, n, Nat, 0, step, iter[1 .. n])
  <2>1. \A s \in SUBSET (1 .. n) : s # {} /\ iter[s \ {Greatest(s)}] \in Nat =>
          iter[s] = step[<<iter[s \ {Greatest(s)}], Greatest(s)>>]
    BY <1>9
  <2> HIDE DEF n
  <2> QED
    BY <1>1, <1>3, <1>8, <2>1, 0 \in Nat, Running
<1>11. ASSUME NEW k \in 1 .. n PROVE sum[k] = sum[k - 1] + sizes[k]
  <2>1. sum[k - 1] \in Nat
    <3>1. k - 1 \in 0 .. n
      BY <1>1
    <3> QED
      BY <1>10, <3>1 DEF Runs
  <2> QED
    BY <1>4, <1>10, <2>1 DEF Runs
<1> QED
  BY <1>7, <1>10, <1>11 DEF Runs

(* So a total never falls, and what comes first of a sequence has the       *)
(* total it had when it had come.                                          *)
LEMMA TotalsOfPrefixes ==
  ASSUME NEW sizes \in Seq(Nat), NEW sum \in [0 .. Len(sizes) -> Nat], sum[0] = 0,
         \A k \in 1 .. Len(sizes) : sum[k] = sum[k - 1] + sizes[k]
  PROVE  /\ \A i, k \in 0 .. Len(sizes) : i <= k => sum[i] <= sum[k]
         /\ \A k \in 0 .. Len(sizes) : L!Total([i \in 1 .. k |-> sizes[i]]) = sum[k]
<1> DEFINE n == Len(sizes)
<1>1. n \in Nat /\ \A k \in 1 .. n : sizes[k] \in Nat
  OBVIOUS
<1>2. \A k \in 0 .. n : sum[k] \in Nat
  OBVIOUS
<1> HIDE DEF n
<1>3. ASSUME NEW i \in 0 .. n, NEW k \in 0 .. n, i <= k PROVE sum[i] <= sum[k]
  <2> DEFINE S == {j \in Nat : i + j <= n => sum[i] <= sum[i + j]}
  <2>1. 0 \in S
    BY <1>2
  <2>2. ASSUME NEW j \in Nat, j \in S PROVE j + 1 \in S
    <3>1. ASSUME i + (j + 1) <= n PROVE sum[i] <= sum[i + (j + 1)]
      <4>1. i + j \in 0 .. n /\ i + (j + 1) \in 1 .. n /\ (i + (j + 1)) - 1 = i + j /\ i + j <= n
        BY <1>1, <3>1
      <4>2. sum[i + (j + 1)] = sum[i + j] + sizes[i + (j + 1)]
        BY <4>1 DEF n
      <4> QED
        BY <1>1, <1>2, <2>2, <4>1, <4>2
    <3> QED
      BY <3>1
  <2>3. k - i \in S
    <3>1. k - i \in Nat
      BY <1>1, <1>3
    <3> HIDE DEF S
    <3> QED
      BY <2>1, <2>2, <3>1, Induction
  <2> QED
    BY <1>1, <1>3, <2>3
<1>4. ASSUME NEW k \in 0 .. n PROVE L!Total([i \in 1 .. k |-> sizes[i]]) = sum[k]
  <2> DEFINE first == [i \in 1 .. k |-> sizes[i]]
  <2>1. first \in Seq(Nat) /\ Len(first) = k /\ k \in Nat
    BY <1>1
  <2>2. \A j \in 1 .. k : first[j] = sizes[j]
    OBVIOUS
  <2> HIDE DEF first
  <2>3. PICK part \in [0 .. k -> Nat] :
          /\ part[0] = 0
          /\ \A j \in 1 .. k : part[j] = part[j - 1] + first[j]
          /\ part[k] = L!Total(first)
    BY <2>1, TotalGrows
  <2> DEFINE S == {j \in Nat : j <= k => part[j] = sum[j]}
  <2>4. 0 \in S
    BY <2>3
  <2>5. ASSUME NEW j \in Nat, j \in S PROVE j + 1 \in S
    <3>1. ASSUME j + 1 <= k PROVE part[j + 1] = sum[j + 1]
      <4>1. j + 1 \in 1 .. k /\ j + 1 \in 1 .. n /\ (j + 1) - 1 = j /\ j <= k
        BY <1>1, <2>1, <3>1
      <4>2. part[j + 1] = part[j] + sizes[j + 1]
        BY <2>2, <2>3, <4>1
      <4>3. sum[j + 1] = sum[j] + sizes[j + 1]
        BY <4>1 DEF n
      <4> QED
        BY <2>5, <4>1, <4>2, <4>3
    <3> QED
      BY <3>1
  <2>6. k \in S
    <3> HIDE DEF S
    <3> QED
      BY <2>1, <2>4, <2>5, Induction
  <2> QED
    BY <2>3, <2>6 DEF first
<1> QED
  BY <1>3, <1>4 DEF n

LEMMA LargestPiece ==
  ASSUME NEW chunks \in Seq(Nat)
  PROVE  /\ L!Max({0} \cup L!ToSet(chunks)) \in Nat
         /\ \A k \in 1 .. Len(chunks) : chunks[k] <= L!Max({0} \cup L!ToSet(chunks))
<1> DEFINE n == Len(chunks)
           all == {0} \cup L!ToSet(chunks)
           Bounds(m, k) == \A i \in 1 .. n : i <= k => chunks[i] <= m
           S == {k \in Nat : \E m \in all : Bounds(m, k)}
<1>1. n \in Nat /\ \A k \in 1 .. n : chunks[k] \in Nat
  OBVIOUS
<1>2. all \in SUBSET Nat /\ 0 \in all /\ \A k \in 1 .. n : chunks[k] \in all
  BY DEF L!ToSet
<1>3. \A x \in all : x = 0 \/ \E k \in 1 .. n : x = chunks[k]
  BY DEF L!ToSet
<1> HIDE DEF all, n
<1>4. 0 \in S
  BY <1>1, <1>2
<1>5. ASSUME NEW k \in Nat, k \in S PROVE k + 1 \in S
  <2>1. PICK m \in all : Bounds(m, k)
    BY <1>5
  <2>2. CASE k + 1 \in 1 .. n /\ chunks[k + 1] > m
    <3>1. Bounds(chunks[k + 1], k + 1)
      <4>1. ASSUME NEW i \in 1 .. n, i <= k + 1 PROVE chunks[i] <= chunks[k + 1]
        <5>1. CASE i = k + 1
          BY <1>1, <2>2, <5>1
        <5>2. CASE i # k + 1
          <6>1. chunks[i] <= m
            BY <1>1, <2>1, <4>1, <5>2
          <6> QED
            BY <1>1, <1>2, <2>2, <6>1
        <5> QED
          BY <5>1, <5>2
      <4> QED
        BY <4>1
    <3>2. chunks[k + 1] \in all
      BY <1>2, <2>2
    <3> HIDE DEF Bounds
    <3>3. \E x \in all : Bounds(x, k + 1)
      BY <3>1, <3>2
    <3> QED
      BY <3>3
  <2>3. CASE ~ (k + 1 \in 1 .. n /\ chunks[k + 1] > m)
    <3>1. ASSUME NEW i \in 1 .. n, i <= k + 1 PROVE chunks[i] <= m
      <4>1. m \in Nat /\ chunks[i] \in Nat
        BY <1>1, <1>2
      <4>2. CASE i = k + 1
        BY <2>3, <4>1, <4>2
      <4>3. CASE i # k + 1
        BY <1>1, <2>1, <3>1, <4>3
      <4> QED
        BY <4>2, <4>3
    <3>2. Bounds(m, k + 1)
      BY <3>1
    <3> HIDE DEF Bounds
    <3> QED
      BY <3>2
  <2> QED
    BY <2>2, <2>3
<1>6. n \in S
  <2> HIDE DEF S
  <2> QED
    BY <1>1, <1>4, <1>5, Induction
<1>7. PICK m \in all : \A y \in all : m >= y
  <2>1. PICK m \in all : Bounds(m, n)
    BY <1>6
  <2>2. \A y \in all : m >= y
    BY <1>1, <1>2, <1>3, <2>1
  <2> QED
    BY <2>2
<1>8. L!Max(all) \in all /\ \A y \in all : L!Max(all) >= y
  BY <1>7 DEF L!Max
<1> QED
  BY <1>1, <1>2, <1>8 DEF all, n

(* A transfer holds what has come as long as that is within the limit, and *)
(* from then on the one chunk more that it was broken off at.              *)
LEMMA DownloadRuns ==
  ASSUME NEW chunks \in Seq(Nat)
  PROVE  \E run :
           /\ run \in [0 .. Len(chunks) -> [held : Nat, ok : BOOLEAN]]
           /\ run[0] = [held |-> 0, ok |-> TRUE]
           /\ \A k \in 1 .. Len(chunks) : run[k] = L!Receives(run[k - 1], chunks[k])
           /\ run[Len(chunks)] = L!FoldLeft(L!Receives, [held |-> 0, ok |-> TRUE], chunks)
<1> DEFINE n == Len(chunks)
           V == [held : Nat, ok : BOOLEAN]
           base == [held |-> 0, ok |-> TRUE]
           step == [p \in V \X (1 .. n) |-> L!Receives(p[1], chunks[p[2]])]
           Solves(f) == f = [s \in SUBSET DOMAIN chunks |->
                               IF s = {} THEN base
                               ELSE L!Receives(f[s \ {L!Max(s)}], chunks[L!Max(s)])]
           iter == CHOOSE f : Solves(f)
<1>1. n \in Nat /\ DOMAIN chunks = 1 .. n /\ \A k \in 1 .. n : chunks[k] \in Nat
  OBVIOUS
<1>2. \A s : L!Max(s) = Greatest(s)
  BY DEF L!Max, Greatest
<1>3. step \in [V \X (1 .. n) -> V]
  <2>1. ASSUME NEW x \in V, NEW c \in Nat PROVE L!Receives(x, c) \in V
    BY LimitsAssumption DEF L!Receives
  <2> QED
    BY <1>1, <2>1
<1>4. \A x \in V, k \in 1 .. n : step[<<x, k>>] = L!Receives(x, chunks[k])
  OBVIOUS
<1>5. base \in V
  OBVIOUS
<1> HIDE DEF step, V, base
<1>6. \E f : Solves(f)
  <2>1. PICK f \in [SUBSET (1 .. n) -> V] : Folds(f, n, base, step)
    BY <1>1, <1>3, <1>5, FoldExists
  <2>2. ASSUME NEW s \in SUBSET (1 .. n), s # {}
        PROVE  step[<<f[s \ {Greatest(s)}], Greatest(s)>>]
                 = L!Receives(f[s \ {L!Max(s)}], chunks[L!Max(s)])
    <3>1. Greatest(s) \in 1 .. n /\ f[s \ {Greatest(s)}] \in V
      BY <1>1, <2>1, <2>2, GreatestIsThere
    <3> QED
      BY <1>2, <1>4, <3>1
  <2>3. Solves(f)
    BY <1>1, <2>1, <2>2 DEF Folds
  <2> QED
    BY <2>3
<1>7. Solves(iter)
  <2> HIDE DEF Solves
  <2> QED
    BY <1>6
<1>8. L!FoldLeft(L!Receives, base, chunks) = iter[1 .. n]
  BY <1>1 DEF L!FoldLeft, L!MapThenFoldSet
<1> HIDE DEF iter
<1>9. iter[{}] = base
  BY <1>7
<1>10. ASSUME NEW s \in SUBSET (1 .. n), s # {} /\ iter[s \ {Greatest(s)}] \in V
       PROVE  iter[s] = step[<<iter[s \ {Greatest(s)}], Greatest(s)>>]
  <2>1. Greatest(s) \in 1 .. n
    BY <1>1, <1>10, GreatestIsThere
  <2>2. iter[s] = L!Receives(iter[s \ {Greatest(s)}], chunks[Greatest(s)])
    BY <1>1, <1>2, <1>7, <1>10
  <2> QED
    BY <1>4, <1>10, <2>1, <2>2
<1> HIDE DEF Solves
<1>11. PICK run : Runs(run, n, V, base, step, iter[1 .. n])
  <2>1. \A s \in SUBSET (1 .. n) : s # {} /\ iter[s \ {Greatest(s)}] \in V =>
          iter[s] = step[<<iter[s \ {Greatest(s)}], Greatest(s)>>]
    BY <1>10
  <2> HIDE DEF n
  <2> QED
    BY <1>1, <1>3, <1>5, <1>9, <2>1, Running
<1>12. ASSUME NEW k \in 1 .. n PROVE run[k] = L!Receives(run[k - 1], chunks[k])
  <2>1. run[k - 1] \in V
    <3>1. k - 1 \in 0 .. n
      BY <1>1
    <3> QED
      BY <1>11, <3>1 DEF Runs
  <2> QED
    BY <1>4, <1>11, <2>1 DEF Runs
<1> QED
  BY <1>8, <1>11, <1>12 DEF Runs, V, base

(* For every limit, every size that is listed or declared, and every       *)
(* division of what comes: an artifact is taken whole or refused, it is    *)
(* refused if one of its three sizes exceeds the limit and only then, and  *)
(* at most one chunk above the limit was held (pypi.py, download).         *)
THEOREM EveryDownloadHolds ==
  ASSUME NEW listed \in Int, NEW declared \in Int, NEW chunks \in Seq(Nat)
  PROVE  L!DownloadHolds(listed, declared, chunks)
<1> DEFINE n == Len(chunks)
           most == L!Max({0} \cup L!ToSet(chunks))
           max == MAX_ARTIFACT_BYTES
<1>1. n \in Nat /\ \A k \in 1 .. n : chunks[k] \in Nat
  OBVIOUS
<1>2. most \in Nat /\ \A k \in 1 .. n : chunks[k] <= most
  BY LargestPiece
<1>3. max \in Nat
  BY LimitsAssumption
<1>4. PICK sum \in [0 .. n -> Nat] :
        /\ sum[0] = 0
        /\ \A k \in 1 .. n : sum[k] = sum[k - 1] + chunks[k]
        /\ sum[n] = L!Total(chunks)
  BY TotalGrows
<1>5. PICK run :
        /\ run \in [0 .. n -> [held : Nat, ok : BOOLEAN]]
        /\ run[0] = [held |-> 0, ok |-> TRUE]
        /\ \A k \in 1 .. n : run[k] = L!Receives(run[k - 1], chunks[k])
        /\ run[n] = L!FoldLeft(L!Receives, [held |-> 0, ok |-> TRUE], chunks)
  BY DownloadRuns
<1> DEFINE Held(k) == /\ run[k].ok <=> sum[k] <= max
                      /\ run[k].ok => run[k].held = sum[k]
                      /\ run[k].held <= max + most
           S == {k \in Nat : k <= n => Held(k)}
<1> HIDE DEF n, most, max
<1>6. 0 \in S
  BY <1>2, <1>3, <1>4, <1>5
<1>7. ASSUME NEW k \in Nat, k \in S PROVE k + 1 \in S
  <2>1. ASSUME k + 1 <= n PROVE Held(k + 1)
    <3>1. k + 1 \in 1 .. n /\ (k + 1) - 1 = k /\ k \in 0 .. n /\ k + 1 \in 0 .. n
      BY <1>1, <2>1
    <3>2. Held(k)
      BY <1>1, <1>7, <2>1
    <3>3. sum[k + 1] = sum[k] + chunks[k + 1] /\ sum[k] \in Nat
      BY <1>4, <3>1
    <3>4. run[k + 1] = L!Receives(run[k], chunks[k + 1])
      BY <1>5, <3>1
    <3>5. run[k] \in [held : Nat, ok : BOOLEAN]
      BY <1>5, <3>1
    <3>6. chunks[k + 1] \in Nat /\ chunks[k + 1] <= most
      BY <1>1, <1>2, <3>1
    <3>7. CASE ~ run[k].ok
      <4>1. run[k + 1] = run[k]
        BY <3>4, <3>7 DEF L!Receives
      <4> QED
        BY <1>3, <3>2, <3>3, <3>6, <3>7, <4>1
    <3>8. CASE run[k].ok
      <4>1. run[k + 1] = [held |-> run[k].held + chunks[k + 1],
                          ok |-> run[k].held + chunks[k + 1] <= max]
        BY <3>4, <3>8 DEF L!Receives, max
      <4>2. run[k].held = sum[k] /\ sum[k] <= max
        BY <3>2, <3>8
      <4>3. run[k].held + chunks[k + 1] = sum[k + 1]
        BY <3>3, <4>2
      <4>4. run[k + 1].held = sum[k + 1] /\ (run[k + 1].ok <=> sum[k + 1] <= max)
        <5> DEFINE now == run[k + 1]
                   within == sum[k + 1] <= max
        <5>1. now = [held |-> sum[k + 1], ok |-> within]
          BY <4>1, <4>3, Zenon
        <5> HIDE DEF now, within
        <5>2. now.held = sum[k + 1] /\ now.ok = within
          BY <5>1
        <5> QED
          BY <5>2 DEF now, within
      <4>5. \A x, c \in Nat : x <= max /\ c <= most => x + c <= max + most
        BY <1>2, <1>3
      <4>6. sum[k + 1] <= max + most
        BY <3>3, <3>6, <4>2, <4>5
      <4> QED
        BY <4>4, <4>6
    <3> QED
      BY <3>7, <3>8
  <2> QED
    BY <2>1
<1>8. Held(n)
  <2>1. n \in S
    <3> HIDE DEF S
    <3> QED
      BY <1>1, <1>6, <1>7, Induction
  <2> QED
    BY <1>1, <2>1
<1>9. CASE listed > max \/ declared > max
  <2>1. L!Download(listed, declared, chunks) = [held |-> 0, ok |-> FALSE]
    BY <1>9 DEF L!Download, L!Refused, max
  <2>2. ~ (listed <= max /\ declared <= max)
    BY <1>3, <1>9
  <2> QED
    BY <1>2, <1>3, <2>1, <2>2 DEF L!DownloadHolds, max, most
<1>10. CASE ~ (listed > max \/ declared > max)
  <2>1. L!Download(listed, declared, chunks) = run[n]
    BY <1>5, <1>10 DEF L!Download, max
  <2>2. listed <= max /\ declared <= max
    BY <1>3, <1>10
  <2>3. Held(n) /\ sum[n] = L!Total(chunks)
    BY <1>4, <1>8
  <2> QED
    BY <2>1, <2>2, <2>3 DEF L!DownloadHolds, max, most
<1> QED
  BY <1>9, <1>10

(* A body goes on to the application until a chunk passes the limit.       *)
LEMMA BodyRuns ==
  ASSUME NEW chunks \in Seq(Nat)
  PROVE  \E run :
           /\ run \in [0 .. Len(chunks) -> [answer : {"app", "413"}, got : Nat]]
           /\ run[0] = [answer |-> "app", got |-> 0]
           /\ \A k \in 1 .. Len(chunks) : run[k] = L!Counts(run[k - 1], chunks[k])
           /\ run[Len(chunks)] = L!FoldLeft(L!Counts, [answer |-> "app", got |-> 0], chunks)
<1> DEFINE n == Len(chunks)
           V == [answer : {"app", "413"}, got : Nat]
           base == [answer |-> "app", got |-> 0]
           step == [p \in V \X (1 .. n) |-> L!Counts(p[1], chunks[p[2]])]
           Solves(f) == f = [s \in SUBSET DOMAIN chunks |->
                               IF s = {} THEN base
                               ELSE L!Counts(f[s \ {L!Max(s)}], chunks[L!Max(s)])]
           iter == CHOOSE f : Solves(f)
<1>1. n \in Nat /\ DOMAIN chunks = 1 .. n /\ \A k \in 1 .. n : chunks[k] \in Nat
  OBVIOUS
<1>2. \A s : L!Max(s) = Greatest(s)
  BY DEF L!Max, Greatest
<1>3. step \in [V \X (1 .. n) -> V]
  <2>1. ASSUME NEW x \in V, NEW c \in Nat PROVE L!Counts(x, c) \in V
    <3>1. CASE x.answer # "app"
      BY <3>1 DEF L!Counts
    <3>2. CASE x.answer = "app" /\ x.got + c > MAX_BODY_BYTES
      BY <3>2 DEF L!Counts
    <3>3. CASE x.answer = "app" /\ ~ (x.got + c > MAX_BODY_BYTES)
      BY <3>3 DEF L!Counts
    <3> QED
      BY <3>1, <3>2, <3>3
  <2> QED
    BY <1>1, <2>1
<1>4. \A x \in V, k \in 1 .. n : step[<<x, k>>] = L!Counts(x, chunks[k])
  OBVIOUS
<1>5. base \in V
  OBVIOUS
<1> HIDE DEF step, V, base
<1>6. \E f : Solves(f)
  <2>1. PICK f \in [SUBSET (1 .. n) -> V] : Folds(f, n, base, step)
    BY <1>1, <1>3, <1>5, FoldExists
  <2>2. ASSUME NEW s \in SUBSET (1 .. n), s # {}
        PROVE  step[<<f[s \ {Greatest(s)}], Greatest(s)>>]
                 = L!Counts(f[s \ {L!Max(s)}], chunks[L!Max(s)])
    <3>1. Greatest(s) \in 1 .. n /\ f[s \ {Greatest(s)}] \in V
      BY <1>1, <2>1, <2>2, GreatestIsThere
    <3> QED
      BY <1>2, <1>4, <3>1
  <2>3. Solves(f)
    BY <1>1, <2>1, <2>2 DEF Folds
  <2> QED
    BY <2>3
<1>7. Solves(iter)
  <2> HIDE DEF Solves
  <2> QED
    BY <1>6
<1>8. L!FoldLeft(L!Counts, base, chunks) = iter[1 .. n]
  BY <1>1 DEF L!FoldLeft, L!MapThenFoldSet
<1> HIDE DEF iter
<1>9. iter[{}] = base
  BY <1>7
<1>10. ASSUME NEW s \in SUBSET (1 .. n), s # {} /\ iter[s \ {Greatest(s)}] \in V
       PROVE  iter[s] = step[<<iter[s \ {Greatest(s)}], Greatest(s)>>]
  <2>1. Greatest(s) \in 1 .. n
    BY <1>1, <1>10, GreatestIsThere
  <2>2. iter[s] = L!Counts(iter[s \ {Greatest(s)}], chunks[Greatest(s)])
    BY <1>1, <1>2, <1>7, <1>10
  <2> QED
    BY <1>4, <1>10, <2>1, <2>2
<1> HIDE DEF Solves
<1>11. PICK run : Runs(run, n, V, base, step, iter[1 .. n])
  <2>1. \A s \in SUBSET (1 .. n) : s # {} /\ iter[s \ {Greatest(s)}] \in V =>
          iter[s] = step[<<iter[s \ {Greatest(s)}], Greatest(s)>>]
    BY <1>10
  <2> HIDE DEF n
  <2> QED
    BY <1>1, <1>3, <1>5, <1>9, <2>1, Running
<1>12. ASSUME NEW k \in 1 .. n PROVE run[k] = L!Counts(run[k - 1], chunks[k])
  <2>1. run[k - 1] \in V
    <3>1. k - 1 \in 0 .. n
      BY <1>1
    <3> QED
      BY <1>11, <3>1 DEF Runs
  <2> QED
    BY <1>4, <1>11, <2>1 DEF Runs
<1> QED
  BY <1>8, <1>11, <1>12 DEF Runs, V, base

(* For every limit, every content-length or none, and every division of    *)
(* the body: the application never gets more than the limit, gets the      *)
(* whole of a body that is within it and answers that one, and no other    *)
(* (main.py, BodySizeLimitMiddleware).                                     *)
THEOREM EveryBodyHolds ==
  ASSUME NEW declared \in Nat \cup {L!Unsaid, L!NotANumber}, NEW chunks \in Seq(Nat)
  PROVE  L!BodyHolds(declared, chunks)
<1> DEFINE n == Len(chunks)
           max == MAX_BODY_BYTES
<1>1. n \in Nat /\ \A k \in 1 .. n : chunks[k] \in Nat
  OBVIOUS
<1>2. max \in Nat
  BY LimitsAssumption
<1>3. PICK sum \in [0 .. n -> Nat] :
        /\ sum[0] = 0
        /\ \A k \in 1 .. n : sum[k] = sum[k - 1] + chunks[k]
        /\ sum[n] = L!Total(chunks)
  BY TotalGrows
<1>4. PICK run :
        /\ run \in [0 .. n -> [answer : {"app", "413"}, got : Nat]]
        /\ run[0] = [answer |-> "app", got |-> 0]
        /\ \A k \in 1 .. n : run[k] = L!Counts(run[k - 1], chunks[k])
        /\ run[n] = L!FoldLeft(L!Counts, [answer |-> "app", got |-> 0], chunks)
  BY BodyRuns
<1> DEFINE Counted(k) == /\ run[k].answer = "app" <=> sum[k] <= max
                         /\ run[k].answer = "app" => run[k].got = sum[k]
                         /\ run[k].got <= max
           S == {k \in Nat : k <= n => Counted(k)}
<1> HIDE DEF n, max
<1>5. 0 \in S
  BY <1>2, <1>3, <1>4
<1>6. ASSUME NEW k \in Nat, k \in S PROVE k + 1 \in S
  <2>1. ASSUME k + 1 <= n PROVE Counted(k + 1)
    <3>1. k + 1 \in 1 .. n /\ (k + 1) - 1 = k /\ k \in 0 .. n
      BY <1>1, <2>1
    <3>2. Counted(k)
      BY <1>1, <1>6, <2>1
    <3>3. sum[k + 1] = sum[k] + chunks[k + 1] /\ sum[k] \in Nat
      BY <1>3, <3>1
    <3>4. run[k + 1] = L!Counts(run[k], chunks[k + 1])
      BY <1>4, <3>1
    <3>5. run[k] \in [answer : {"app", "413"}, got : Nat] /\ chunks[k + 1] \in Nat
      BY <1>1, <1>4, <3>1
    <3>6. CASE run[k].answer # "app"
      <4>1. run[k + 1] = run[k]
        BY <3>4, <3>6 DEF L!Counts
      <4> QED
        BY <1>2, <3>2, <3>3, <3>5, <3>6, <4>1
    <3>7. CASE run[k].answer = "app" /\ run[k].got + chunks[k + 1] > max
      <4>1. run[k + 1] = [run[k] EXCEPT !.answer = "413"]
        BY <3>4, <3>7 DEF L!Counts, max
      <4>2. run[k + 1].answer = "413" /\ run[k + 1].got = run[k].got
        BY <3>5, <4>1
      <4>3. sum[k + 1] > max
        BY <3>2, <3>3, <3>7
      <4>4. ~ (sum[k + 1] <= max)
        BY <1>2, <3>3, <3>5, <4>3
      <4> QED
        BY <3>2, <4>2, <4>4
    <3>8. CASE run[k].answer = "app" /\ ~ (run[k].got + chunks[k + 1] > max)
      <4>1. run[k + 1] = [run[k] EXCEPT !.got = @ + chunks[k + 1]]
        BY <3>4, <3>8 DEF L!Counts, max
      <4>2. run[k + 1].answer = "app" /\ run[k + 1].got = run[k].got + chunks[k + 1]
        BY <3>5, <3>8, <4>1
      <4>3. run[k].got = sum[k]
        BY <3>2, <3>8
      <4>4. sum[k + 1] <= max
        BY <1>2, <3>3, <3>5, <3>8, <4>3
      <4> QED
        BY <3>3, <4>2, <4>3, <4>4
    <3> QED
      BY <3>6, <3>7, <3>8
  <2> QED
    BY <2>1
<1>7. Counted(n)
  <2>1. n \in S
    <3> HIDE DEF S
    <3> QED
      BY <1>1, <1>5, <1>6, Induction
  <2> QED
    BY <1>1, <2>1
<1>8. CASE declared = L!NotANumber
  <2>1. L!Body(declared, chunks) = [answer |-> "400", got |-> 0]
    BY <1>2, <1>8 DEF L!Body, L!NotANumber, L!Unsaid, max
  <2> QED
    BY <1>2, <1>8, <2>1 DEF L!BodyHolds, max
<1>9. CASE declared \in Nat /\ declared > max
  <2>1. L!Body(declared, chunks) = [answer |-> "413", got |-> 0]
    BY <1>2, <1>9 DEF L!Body, L!Unsaid, max
  <2>2. ~ (declared <= max)
    BY <1>2, <1>9
  <2> QED
    BY <1>2, <2>1, <2>2 DEF L!BodyHolds, max
<1>10. CASE declared = L!Unsaid \/ (declared \in Nat /\ ~ (declared > max))
  <2>1. declared \in 0 .. max \cup {L!Unsaid} /\ declared <= max /\ ~ (declared > max)
    BY <1>2, <1>10 DEF L!Unsaid
  <2>2. ~ (declared # L!Unsaid /\ declared < 0) /\ declared # L!NotANumber
    BY <1>10 DEF L!Unsaid, L!NotANumber
  <2>3. L!Body(declared, chunks) = run[n]
    BY <1>4, <2>1, <2>2 DEF L!Body, max
  <2>4. Counted(n) /\ sum[n] = L!Total(chunks)
    BY <1>3, <1>7
  <2> QED
    BY <2>1, <2>2, <2>3, <2>4 DEF L!BodyHolds, max
<1> QED
  BY <1>2, <1>8, <1>9, <1>10

(* What is kept of an archive has the size it is counted at, member by     *)
(* member: so the limit is passed somewhere if and only if it is in the    *)
(* end.                                                                    *)
LEMMA PassedAtTheEnd ==
  ASSUME NEW members \in Seq(L!Members), NEW kept \in SUBSET DOMAIN members
  PROVE  (\E i \in kept : L!SizeUpTo(kept, members, i) > MAX_UNCOMPRESSED_BYTES)
           <=> ~ (L!Total([i \in DOMAIN members |-> IF i \in kept THEN members[i].size ELSE 0])
                    <= MAX_UNCOMPRESSED_BYTES)
<1> DEFINE n == Len(members)
           max == MAX_UNCOMPRESSED_BYTES
           sizes == [i \in DOMAIN members |-> IF i \in kept THEN members[i].size ELSE 0]
<1>1. n \in Nat /\ DOMAIN members = 1 .. n /\ \A i \in 1 .. n : members[i].size \in Nat
  <2>1. n \in Nat /\ DOMAIN members = 1 .. n /\ \A i \in 1 .. n : members[i] \in L!Members
    OBVIOUS
  <2> QED
    BY <2>1 DEF L!Members
<1>2. max \in Nat
  BY LimitsAssumption
<1>3. sizes \in Seq(Nat) /\ Len(sizes) = n
  BY <1>1
<1>4. \A i \in 1 .. n : sizes[i] = IF i \in kept THEN members[i].size ELSE 0
  BY <1>1
<1>5. \A i \in 1 .. n : sizes[i] \in Nat
  BY <1>1
<1> HIDE DEF sizes
<1>6. PICK sum \in [0 .. n -> Nat] :
        /\ sum[0] = 0
        /\ \A k \in 1 .. n : sum[k] = sum[k - 1] + sizes[k]
        /\ sum[n] = L!Total(sizes)
  BY <1>3, TotalGrows
<1>7. /\ \A i, k \in 0 .. n : i <= k => sum[i] <= sum[k]
      /\ \A k \in 0 .. n : L!Total([i \in 1 .. k |-> sizes[i]]) = sum[k]
  BY <1>3, <1>6, TotalsOfPrefixes
<1> HIDE DEF n
<1>8. \A i \in 1 .. n : L!SizeUpTo(kept, members, i) = sum[i]
  <2>1. ASSUME NEW i \in 1 .. n
        PROVE  [k \in 1 .. i |-> IF k \in kept THEN members[k].size ELSE 0]
                 = [k \in 1 .. i |-> sizes[k]]
    <3>1. \A k \in 1 .. i : k \in 1 .. n
      BY <1>1
    <3> QED
      BY <1>4, <3>1
  <2>2. \A i \in 1 .. n : i \in 0 .. n
    BY <1>1
  <2> QED
    BY <1>7, <2>1, <2>2 DEF L!SizeUpTo
<1>9. \A k \in 0 .. n : sum[k] \in Nat
  OBVIOUS
<1> HIDE DEF max
<1>10. ASSUME NEW i \in kept, sum[i] > max PROVE ~ (sum[n] <= max)
  <2>1. i \in 0 .. n /\ n \in 0 .. n /\ i <= n
    BY <1>1
  <2> QED
    BY <1>2, <1>7, <1>9, <1>10, <2>1
<1>11. ASSUME \A i \in kept : ~ (sum[i] > max) PROVE sum[n] <= max
  <2> DEFINE S == {k \in Nat : k <= n => sum[k] <= max}
  <2>1. 0 \in S
    BY <1>2, <1>6
  <2>2. ASSUME NEW k \in Nat, k \in S PROVE k + 1 \in S
    <3>1. ASSUME k + 1 <= n PROVE sum[k + 1] <= max
      <4>1. k + 1 \in 1 .. n /\ (k + 1) - 1 = k /\ k \in 0 .. n /\ k <= n /\ k + 1 \in 0 .. n
        BY <1>1, <3>1
      <4>2. CASE k + 1 \in kept
        BY <1>2, <1>9, <1>11, <4>1, <4>2
      <4>3. CASE k + 1 \notin kept
        <5>1. sizes[k + 1] = 0
          BY <1>4, <4>1, <4>3
        <5>2. sum[k + 1] = sum[k] + sizes[k + 1]
          BY <1>6, <4>1
        <5> QED
          BY <1>9, <2>2, <4>1, <5>1, <5>2
      <4> QED
        BY <4>2, <4>3
    <3> QED
      BY <3>1
  <2>3. n \in S
    <3> HIDE DEF S
    <3> QED
      BY <1>1, <2>1, <2>2, Induction
  <2> QED
    BY <1>1, <2>3
<1>12. \A i \in kept : L!SizeUpTo(kept, members, i) = sum[i]
  BY <1>1, <1>8
<1> QED
  BY <1>6, <1>10, <1>11, <1>12 DEF sizes, max

(* For every limit and every archive, of any number of members: all that   *)
(* is wanted of it is written if all of it is safe and the whole within    *)
(* the limits, and nothing otherwise (pypi.py, extract).                   *)
THEOREM EveryExtractHolds ==
  ASSUME NEW format, NEW members \in Seq(L!Members)
  PROVE  L!ExtractHolds(format, members)
<1> DEFINE wanted == {i \in DOMAIN members : format = "tar" => members[i].kind \in {"reg", "dir"}}
           sizes == [i \in DOMAIN members |-> IF i \in wanted THEN members[i].size ELSE 0]
           within == /\ format \in {"tar", "zip"} /\ \A i \in wanted : members[i].safe
                     /\ Len(members) <= MAX_MEMBERS /\ L!Total(sizes) <= MAX_UNCOMPRESSED_BYTES
<1>1. \A i \in DOMAIN members : members[i].kind \in {"reg", "dir", "link"}
  <2>1. \A i \in DOMAIN members : members[i] \in L!Members
    OBVIOUS
  <2> HIDE DEF wanted, sizes, within
  <2> QED
    BY <2>1 DEF L!Members
<1>2. wanted \in SUBSET DOMAIN members
  OBVIOUS
<1>3. format \in {"tar", "zip"} => L!Kept(format, members) = wanted
  BY <1>1 DEF L!Kept
<1>4. MAX_MEMBERS \in Nat /\ Len(members) \in Nat
  BY LimitsAssumption
<1>5. (\E i \in wanted : L!SizeUpTo(wanted, members, i) > MAX_UNCOMPRESSED_BYTES)
        <=> ~ (L!Total(sizes) <= MAX_UNCOMPRESSED_BYTES)
  <2> HIDE DEF wanted
  <2> QED
    BY <1>2, PassedAtTheEnd
<1> HIDE DEF wanted, sizes
<1>6. format \in {"tar", "zip"} => (L!Refuses(wanted, members) <=> ~ within)
  BY <1>4, <1>5 DEF L!Refuses
<1>7. L!Extract(format, members) = IF within THEN wanted ELSE {}
  BY <1>3, <1>6 DEF L!Extract
<1> QED
  BY <1>7 DEF L!ExtractHolds, wanted, sizes

-----------------------------------------------------------------------------
(* Budgets: any number of files, of any depth and cost.                    *)

LEMMA PlacesOfFiles ==
  ASSUME NEW files \in Seq(B!Files)
  PROVE  /\ Len(files) \in Nat /\ DOMAIN files = 1 .. Len(files)
         /\ IsFiniteSet(DOMAIN files)
         /\ \A i \in DOMAIN files :
              /\ i \in Nat /\ files[i].depth \in Nat /\ files[i].cost \in Nat
              /\ files[i].place \in B!Places /\ files[i].entry \in BOOLEAN
              /\ files[i].readable \in BOOLEAN /\ files[i].size \in B!Sizes
<1>1. /\ Len(files) \in Nat /\ DOMAIN files = 1 .. Len(files)
      /\ \A i \in DOMAIN files : i \in Nat /\ files[i] \in B!Files
  OBVIOUS
<1>2. IsFiniteSet(1 .. Len(files))
  BY <1>1, FS_Interval
<1> QED
  BY <1>1, <1>2 DEF B!Files

(* The clock shows the sum of the costs of what was seen.                  *)
LEMMA ClockRuns ==
  ASSUME NEW files \in Seq(B!Files), NEW seen \in SUBSET DOMAIN files
  PROVE  \E sum \in [0 .. Len(files) -> Nat] :
           /\ sum[0] = 0
           /\ \A k \in 1 .. Len(files) :
                sum[k] = sum[k - 1] + IF k \in seen THEN files[k].cost ELSE 0
           /\ sum[Len(files)] = B!Clock(files, seen)
<1> DEFINE costs == [i \in DOMAIN files |-> IF i \in seen THEN files[i].cost ELSE 0]
           n == Len(files)
<1>1. n \in Nat /\ DOMAIN files = 1 .. n /\ \A i \in 1 .. n : files[i].cost \in Nat
  BY PlacesOfFiles
<1>2. costs \in Seq(Nat) /\ Len(costs) = n
  BY <1>1
<1>3. \A i \in 1 .. n : costs[i] = IF i \in seen THEN files[i].cost ELSE 0
  BY <1>1
<1>4. B!Clock(files, seen) = L!Total(costs)
  BY DEF B!Clock, L!Total, B!FoldLeft, L!FoldLeft, B!MapThenFoldSet, L!MapThenFoldSet,
         B!Max, L!Max
<1> HIDE DEF costs, n
<1>5. PICK sum \in [0 .. n -> Nat] :
        /\ sum[0] = 0
        /\ \A k \in 1 .. n : sum[k] = sum[k - 1] + costs[k]
        /\ sum[n] = L!Total(costs)
  BY <1>2, TotalGrows
<1>6. \A k \in 1 .. n : sum[k] = sum[k - 1] + IF k \in seen THEN files[k].cost ELSE 0
  BY <1>3, <1>5
<1> QED
  BY <1>4, <1>5, <1>6 DEF n

(* So it shows more if more was seen, by the cost of what is added.        *)
LEMMA ClockGrows ==
  ASSUME NEW files \in Seq(B!Files), NEW seen \in SUBSET DOMAIN files
  PROVE  /\ B!Clock(files, seen) \in Nat
         /\ \A more \in SUBSET DOMAIN files :
              seen \subseteq more => B!Clock(files, seen) <= B!Clock(files, more)
         /\ \A i \in DOMAIN files \ seen :
              B!Clock(files, seen \cup {i}) = B!Clock(files, seen) + files[i].cost
<1> DEFINE n == Len(files)
           Cost(k, some) == IF k \in some THEN files[k].cost ELSE 0
<1>1. n \in Nat /\ DOMAIN files = 1 .. n /\ \A i \in 1 .. n : files[i].cost \in Nat
  BY PlacesOfFiles
<1>2. ASSUME NEW some \in SUBSET DOMAIN files
      PROVE  \E sum \in [0 .. n -> Nat] :
               /\ sum[0] = 0
               /\ \A k \in 1 .. n : sum[k] = sum[k - 1] + Cost(k, some)
               /\ sum[n] = B!Clock(files, some)
  BY ClockRuns
<1>3. \A some : \A k \in 1 .. n : Cost(k, some) \in Nat
  BY <1>1
<1> HIDE DEF n
<1>4. PICK sum \in [0 .. n -> Nat] :
        /\ sum[0] = 0
        /\ \A k \in 1 .. n : sum[k] = sum[k - 1] + Cost(k, seen)
        /\ sum[n] = B!Clock(files, seen)
  BY <1>2
<1>5. B!Clock(files, seen) \in Nat
  BY <1>1, <1>4
<1>6. ASSUME NEW more \in SUBSET DOMAIN files, seen \subseteq more
      PROVE  B!Clock(files, seen) <= B!Clock(files, more)
  <2>1. PICK all \in [0 .. n -> Nat] :
          /\ all[0] = 0
          /\ \A k \in 1 .. n : all[k] = all[k - 1] + Cost(k, more)
          /\ all[n] = B!Clock(files, more)
    BY <1>2
  <2>2. \A k \in 1 .. n : Cost(k, seen) <= Cost(k, more)
    BY <1>1, <1>6
  <2> DEFINE S == {k \in Nat : k <= n => sum[k] <= all[k]}
  <2> HIDE DEF Cost
  <2>3. 0 \in S
    BY <1>4, <2>1
  <2>4. ASSUME NEW k \in Nat, k \in S PROVE k + 1 \in S
    <3>1. ASSUME k + 1 <= n PROVE sum[k + 1] <= all[k + 1]
      <4>1. k + 1 \in 1 .. n /\ (k + 1) - 1 = k /\ k \in 0 .. n /\ k <= n
        BY <1>1, <3>1
      <4>2. /\ sum[k + 1] = sum[k] + Cost(k + 1, seen)
            /\ all[k + 1] = all[k] + Cost(k + 1, more)
        BY <1>4, <2>1, <4>1
      <4>3. /\ sum[k] \in Nat /\ all[k] \in Nat /\ sum[k] <= all[k]
            /\ Cost(k + 1, seen) \in Nat /\ Cost(k + 1, more) \in Nat
            /\ Cost(k + 1, seen) <= Cost(k + 1, more)
        BY <1>3, <2>2, <2>4, <4>1
      <4> QED
        BY <4>2, <4>3
    <3> QED
      BY <3>1
  <2>5. n \in S
    <3> HIDE DEF S
    <3> QED
      BY <1>1, <2>3, <2>4, Induction
  <2> QED
    BY <1>1, <1>4, <2>1, <2>5
<1>7. ASSUME NEW i \in DOMAIN files \ seen
      PROVE  B!Clock(files, seen \cup {i}) = B!Clock(files, seen) + files[i].cost
  <2> DEFINE more == seen \cup {i}
             Extra(k) == IF i <= k THEN files[i].cost ELSE 0
  <2>1. more \in SUBSET DOMAIN files /\ i \in 1 .. n /\ files[i].cost \in Nat
    BY <1>1
  <2>2. PICK all \in [0 .. n -> Nat] :
          /\ all[0] = 0
          /\ \A k \in 1 .. n : all[k] = all[k - 1] + Cost(k, more)
          /\ all[n] = B!Clock(files, more)
    BY <1>2, <2>1
  <2>3. \A k \in 1 .. n : Cost(k, more) = Cost(k, seen) + IF k = i THEN files[i].cost ELSE 0
    BY <1>1, <1>7
  <2>4. \A k \in 0 .. n : Extra(k) \in Nat
    BY <2>1
  <2> DEFINE S == {k \in Nat : k <= n => all[k] = sum[k] + Extra(k)}
  <2>5. 0 \in S
    BY <1>4, <2>1, <2>2
  <2>6. ASSUME NEW k \in Nat, k \in S PROVE k + 1 \in S
    <3>1. ASSUME k + 1 <= n PROVE all[k + 1] = sum[k + 1] + Extra(k + 1)
      <4>1. k + 1 \in 1 .. n /\ (k + 1) - 1 = k /\ k \in 0 .. n /\ k <= n
        BY <1>1, <3>1
      <4>2. /\ sum[k + 1] = sum[k] + Cost(k + 1, seen)
            /\ all[k + 1] = all[k] + Cost(k + 1, more)
        BY <1>4, <2>2, <4>1
      <4>3. Extra(k + 1) = Extra(k) + IF k + 1 = i THEN files[i].cost ELSE 0
        BY <2>1
      <4>4. /\ sum[k] \in Nat /\ Cost(k + 1, seen) \in Nat /\ Extra(k) \in Nat
            /\ all[k] = sum[k] + Extra(k)
            /\ Cost(k + 1, more) = Cost(k + 1, seen) + IF k + 1 = i THEN files[i].cost ELSE 0
        BY <1>3, <2>3, <2>4, <2>6, <4>1
      <4> HIDE DEF Cost, Extra
      <4> QED
        BY <2>1, <4>2, <4>3, <4>4
    <3> QED
      BY <3>1
  <2>7. n \in S
    <3> HIDE DEF S
    <3> QED
      BY <1>1, <2>5, <2>6, Induction
  <2>8. all[n] = sum[n] + files[i].cost
    BY <1>1, <2>1, <2>7
  <2> QED
    BY <1>4, <2>2, <2>8
<1> QED
  BY <1>5, <1>6, <1>7

(* The paths are in one order, and what comes before is less.              *)
LEMMA OneOrder ==
  ASSUME NEW files \in Seq(B!Files), NEW some \in SUBSET DOMAIN files
  PROVE  /\ \A i, k \in DOMAIN files :
              /\ i = k \/ B!Before(files, i, k) \/ B!Before(files, k, i)
              /\ B!Before(files, i, k) => files[i].depth <= files[k].depth /\ i # k
         /\ \A i, k \in DOMAIN files :
              B!Before(files, k, i) =>
                /\ B!Earlier(files, some, k) \subseteq B!Earlier(files, some, i)
                /\ k \notin B!Earlier(files, some, k)
                /\ k \in some => k \in B!Earlier(files, some, i)
         /\ \A i \in DOMAIN files : IsFiniteSet(B!Earlier(files, some, i))
<1>1. \A i \in DOMAIN files : i \in Nat /\ files[i].depth \in Nat
  BY PlacesOfFiles
<1>2. \A i \in DOMAIN files : B!Earlier(files, some, i) \in SUBSET DOMAIN files
  BY DEF B!Earlier
<1>3. \A i \in DOMAIN files : IsFiniteSet(B!Earlier(files, some, i))
  BY <1>2, PlacesOfFiles, FS_Subset
<1>4. \A i, k, j \in DOMAIN files :
        B!Before(files, i, k) /\ B!Before(files, k, j) => B!Before(files, i, j)
  BY <1>1 DEF B!Before
<1>5. \A i, k \in DOMAIN files :
        /\ i = k \/ B!Before(files, i, k) \/ B!Before(files, k, i)
        /\ B!Before(files, i, k) => files[i].depth <= files[k].depth /\ i # k
  BY <1>1 DEF B!Before
<1> QED
  BY <1>3, <1>4, <1>5 DEF B!Earlier

(* Of some files there is one that comes after all the others.             *)
LEMMA LastOfSome ==
  ASSUME NEW files \in Seq(B!Files), NEW some \in SUBSET DOMAIN files, some # {}
  PROVE  \E i \in some : \A k \in some : k = i \/ B!Before(files, k, i)
<1> DEFINE all == DOMAIN files
           Rank(i) == Cardinality(B!Earlier(files, all, i))
           n == Cardinality(all)
           left == {n - Rank(i) : i \in some}
<1>1. ASSUME NEW i \in all PROVE Rank(i) \in Nat /\ n \in Nat /\ n - Rank(i) \in Nat
  <2>1. B!Earlier(files, all, i) \in SUBSET all
    BY DEF B!Earlier
  <2>2. IsFiniteSet(all) /\ IsFiniteSet(B!Earlier(files, all, i))
    BY PlacesOfFiles, OneOrder
  <2>3. Rank(i) \in Nat /\ n \in Nat /\ Rank(i) <= n
    BY <2>1, <2>2, FS_CardinalityType, FS_Subset
  <2> HIDE DEF Rank, n
  <2> QED
    BY <2>3
<1>2. ASSUME NEW i \in all, NEW k \in all, B!Before(files, i, k) PROVE Rank(i) < Rank(k)
  <2>1. /\ B!Earlier(files, all, i) \in SUBSET B!Earlier(files, all, k)
        /\ B!Earlier(files, all, i) # B!Earlier(files, all, k)
        /\ IsFiniteSet(B!Earlier(files, all, k))
    BY <1>2, OneOrder
  <2>2. Rank(i) <= Rank(k) /\ Rank(i) # Rank(k)
    BY <2>1, FS_Subset
  <2>3. Rank(i) \in Nat /\ Rank(k) \in Nat
    BY <1>1
  <2> HIDE DEF Rank
  <2> QED
    BY <2>2, <2>3
<1> HIDE DEF Rank, n
<1>3. PICK m \in left : \A y \in left : m <= y
  <2>1. left \in SUBSET Nat /\ left # {}
    BY <1>1
  <2> HIDE DEF left
  <2> QED
    BY <2>1, LeastNumber
<1>4. PICK i \in some : m = n - Rank(i)
  BY <1>3
<1>5. ASSUME NEW k \in some PROVE k = i \/ B!Before(files, k, i)
  <2>1. n - Rank(i) <= n - Rank(k)
    BY <1>3, <1>4
  <2>2. ~ (Rank(i) < Rank(k))
    BY <1>1, <2>1
  <2>3. i \in all /\ k \in all
    OBVIOUS
  <2>4. k = i \/ B!Before(files, i, k) \/ B!Before(files, k, i)
    BY <2>3, OneOrder
  <2> QED
    BY <1>2, <2>2, <2>3, <2>4
<1> QED
  BY <1>5

(* Budgets counts as FiniteSets does.                                       *)
LEMMA SameCount == \A some : B!Cardinality(some) = Cardinality(some)
BY DEF B!Cardinality, Cardinality

(* For any files, any number of them that is looked at and any budget:     *)
(* what the rules leave out for its size is told, what Bandit leaves out   *)
(* is told with its right number, nothing that is left out lies above what *)
(* is seen, and the time is overrun by one file at most (scan.py,          *)
(* _run_bandit; static_analyzer.py, analyze_tree).                         *)
THEOREM EverySkippedIsTold ==
  ASSUME NEW files \in Seq(B!Files)
  PROVE  B!SkippedIsTold(files)
<1> DEFINE r == B!RunBandit(files)
           code == {i \in DOMAIN files : files[i].place # "tests"}
           inside == {i \in DOMAIN files : ~B!Excluded(files[i])}
           big == {i \in inside : B!TooBig(files[i])}
           scoped == inside \ big
           kept == {i \in scoped :
                      Cardinality(B!Earlier(files, scoped, i)) < MAX_BANDIT_FILES}
           seen == {i \in kept : B!Clock(files, B!Earlier(files, kept, i)) < Budget}
<1>1. r = [seen |-> seen, clock |-> B!Clock(files, seen), oversized |-> big,
           cut |-> Cardinality(scoped) - Cardinality(kept),
           late |-> Cardinality(kept) - Cardinality(seen)]
  BY SameCount DEF B!RunBandit
<1>2. code = inside
  BY DEF B!Excluded
<1>3. /\ seen \in SUBSET kept /\ kept \in SUBSET scoped /\ scoped \in SUBSET inside
      /\ big \in SUBSET inside /\ inside \in SUBSET DOMAIN files
      /\ scoped = inside \ big
  OBVIOUS
<1>4. /\ \A i \in scoped : i \in kept <=>
             Cardinality(B!Earlier(files, scoped, i)) < MAX_BANDIT_FILES
      /\ \A i \in kept : i \in seen <=> B!Clock(files, B!Earlier(files, kept, i)) < Budget
  OBVIOUS
<1>5. \A i \in inside : i \in big <=> files[i].size # "small"
  BY DEF B!TooBig
<1>6. ASSUME NEW i \in DOMAIN files, files[i].place = "code"
      PROVE  B!Analysed(files[i]) \/ B!Unreadable(files[i]) \/ i \in big
  <2>1. i \in inside
    BY <1>6 DEF B!Excluded
  <2> QED
    BY <1>5, <1>6, <2>1 DEF B!Analysed, B!Unreadable, B!Candidate
<1> HIDE DEF r, code, seen, kept, scoped, big, inside
<1>7. /\ IsFiniteSet(inside) /\ IsFiniteSet(big) /\ IsFiniteSet(scoped)
      /\ IsFiniteSet(kept) /\ IsFiniteSet(seen)
  <2>1. IsFiniteSet(DOMAIN files)
    BY PlacesOfFiles
  <2>2. IsFiniteSet(inside)
    BY <1>3, <2>1, FS_Subset
  <2>3. IsFiniteSet(big) /\ IsFiniteSet(scoped)
    BY <1>3, <2>2, FS_Subset
  <2>4. IsFiniteSet(kept)
    BY <1>3, <2>3, FS_Subset
  <2>5. IsFiniteSet(seen)
    BY <1>3, <2>4, FS_Subset
  <2> QED
    BY <2>2, <2>3, <2>4, <2>5
<1>8. Cardinality(code \ seen) =
        Cardinality(big) + (Cardinality(scoped) - Cardinality(kept))
          + (Cardinality(kept) - Cardinality(seen))
  <2>1. Cardinality(inside \ seen) = Cardinality(inside) - Cardinality(inside \cap seen)
    BY <1>7, FS_Difference
  <2>2. Cardinality(scoped) = Cardinality(inside) - Cardinality(inside \cap big)
    BY <1>3, <1>7, FS_Difference
  <2>3. inside \cap seen = seen /\ inside \cap big = big /\ code \ seen = inside \ seen
    BY <1>2, <1>3
  <2>4. /\ Cardinality(inside) \in Nat /\ Cardinality(big) \in Nat /\ Cardinality(scoped) \in Nat
        /\ Cardinality(kept) \in Nat /\ Cardinality(seen) \in Nat
    BY <1>7, FS_CardinalityType
  <2>5. \A a, b, c, d, e \in Nat : c = a - b => a - e = b + (c - d) + (d - e)
    OBVIOUS
  <2>6. /\ Cardinality(code \ seen) = Cardinality(inside) - Cardinality(seen)
        /\ Cardinality(scoped) = Cardinality(inside) - Cardinality(big)
    BY <2>1, <2>2, <2>3, Zenon
  <2> QED
    BY <2>4, <2>5, <2>6
<1>9. \A i \in DOMAIN files : /\ B!Earlier(files, scoped, i) \in SUBSET DOMAIN files
                              /\ B!Earlier(files, kept, i) \in SUBSET DOMAIN files
  BY <1>3 DEF B!Earlier
<1>10. \A i, k \in DOMAIN files :
         /\ i = k \/ B!Before(files, i, k) \/ B!Before(files, k, i)
         /\ B!Before(files, i, k) => files[i].depth <= files[k].depth /\ i # k
  BY OneOrder
<1>11. ASSUME NEW i \in kept, NEW k \in scoped, B!Before(files, k, i) PROVE k \in kept
  <2>1. i \in DOMAIN files /\ k \in DOMAIN files /\ i \in scoped /\ scoped \in SUBSET DOMAIN files
    BY <1>3
  <2>2. /\ B!Earlier(files, scoped, k) \in SUBSET B!Earlier(files, scoped, i)
        /\ IsFiniteSet(B!Earlier(files, scoped, i)) /\ IsFiniteSet(B!Earlier(files, scoped, k))
    BY <1>11, <2>1, OneOrder
  <2>3. /\ Cardinality(B!Earlier(files, scoped, k)) <= Cardinality(B!Earlier(files, scoped, i))
        /\ Cardinality(B!Earlier(files, scoped, k)) \in Nat
        /\ Cardinality(B!Earlier(files, scoped, i)) \in Nat
    BY <2>2, FS_Subset, FS_CardinalityType
  <2>4. Cardinality(B!Earlier(files, scoped, i)) < MAX_BANDIT_FILES
    BY <1>4, <2>1
  <2> QED
    BY <1>4, <2>3, <2>4, LimitsAssumption
<1>12. ASSUME NEW i \in seen, NEW k \in kept, B!Before(files, k, i) PROVE k \in seen
  <2>1. i \in DOMAIN files /\ k \in DOMAIN files /\ i \in kept /\ kept \in SUBSET DOMAIN files
    BY <1>3
  <2>2. B!Earlier(files, kept, k) \subseteq B!Earlier(files, kept, i)
    BY <1>12, <2>1, OneOrder
  <2>3. /\ B!Clock(files, B!Earlier(files, kept, k)) <= B!Clock(files, B!Earlier(files, kept, i))
        /\ B!Clock(files, B!Earlier(files, kept, k)) \in Nat
        /\ B!Clock(files, B!Earlier(files, kept, i)) \in Nat
    BY <1>9, <2>1, <2>2, ClockGrows
  <2>4. B!Clock(files, B!Earlier(files, kept, i)) < Budget
    BY <1>4, <2>1
  <2> QED
    BY <1>4, <2>3, <2>4, LimitsAssumption
<1>13. ASSUME NEW i \in seen, NEW k \in code \ seen, files[k].size = "small"
       PROVE  files[i].depth <= files[k].depth
  <2>1. i \in DOMAIN files /\ k \in DOMAIN files /\ i \in kept /\ k \in scoped
    BY <1>2, <1>3, <1>5, <1>13
  <2>2. ~ B!Before(files, k, i)
    BY <1>11, <1>12, <1>13, <2>1
  <2>3. i # k
    BY <1>13
  <2> QED
    BY <1>10, <2>1, <2>2, <2>3
<1>14. ASSUME seen # {} PROVE \E i \in seen : B!Clock(files, seen) - files[i].cost < Budget
  <2>1. seen \in SUBSET DOMAIN files
    BY <1>3
  <2>2. PICK i \in seen : \A k \in seen : k = i \/ B!Before(files, k, i)
    BY <1>14, <2>1, LastOfSome
  <2> DEFINE before == B!Earlier(files, kept, i)
  <2>3. i \in DOMAIN files /\ i \in kept
    BY <1>3, <2>1
  <2>4. seen = before \cup {i} /\ i \notin before
    <3>1. \A k \in seen : k = i \/ k \in before
      BY <1>3, <2>2 DEF B!Earlier
    <3>2. \A k \in before : k \in seen /\ k # i
      <4>1. \A k \in before : k \in kept /\ B!Before(files, k, i) /\ k \in DOMAIN files
        BY <1>3 DEF B!Earlier
      <4> QED
        BY <1>10, <1>12, <2>3, <4>1
    <3> HIDE DEF before
    <3> QED
      BY <3>1, <3>2
  <2>5. before \in SUBSET DOMAIN files /\ B!Clock(files, before) < Budget
    BY <1>4, <1>9, <2>3
  <2> HIDE DEF before
  <2>6. /\ B!Clock(files, before) \in Nat
        /\ B!Clock(files, seen) = B!Clock(files, before) + files[i].cost
    BY <2>3, <2>4, <2>5, ClockGrows
  <2>7. files[i].cost \in Nat
    BY <2>3, PlacesOfFiles
  <2>8. B!Clock(files, seen) - files[i].cost < Budget
    BY <2>5, <2>6, <2>7, LimitsAssumption
  <2> QED
    BY <2>8
<1>15. /\ r.seen = seen /\ r.clock = B!Clock(files, seen) /\ r.oversized = big
       /\ r.cut = Cardinality(scoped) - Cardinality(kept)
       /\ r.late = Cardinality(kept) - Cardinality(seen)
  BY <1>1
<1>16. seen \subseteq code
  BY <1>2, <1>3
<1> QED
  BY <1>6, <1>8, <1>13, <1>14, <1>15, <1>16, SameCount DEF B!SkippedIsTold, r, code

-----------------------------------------------------------------------------
(* The burst of releases.                                                  *)

(* Of some dates one is the first, as sorted() has them.                   *)
LEMMA FirstOfDates ==
  ASSUME NEW dates \in Seq(Nat), NEW some \in SUBSET DOMAIN dates, some # {}
  PROVE  \E i \in some : \A k \in some : ~F!Before(dates, k, i)
<1> DEFINE times == {dates[i] : i \in some}
<1>1. times \in SUBSET Nat /\ times # {}
  OBVIOUS
<1>2. PICK t \in times : \A u \in times : t <= u
  <2> HIDE DEF times
  <2> QED
    BY <1>1, LeastNumber
<1> DEFINE equal == {i \in some : dates[i] = t}
<1>3. equal \in SUBSET Nat /\ equal # {}
  OBVIOUS
<1>4. PICK i \in equal : \A k \in equal : i <= k
  <2> HIDE DEF equal
  <2> QED
    BY <1>3, LeastNumber
<1>5. ASSUME NEW k \in some PROVE ~F!Before(dates, k, i)
  <2>1. dates[i] = t /\ t <= dates[k]
    BY <1>2
  <2>2. dates[k] = t => i <= k
    BY <1>4
  <2>3. i \in Nat /\ k \in Nat /\ t \in Nat /\ dates[k] \in Nat
    BY <1>1, <1>3
  <2>4. ~ (dates[k] < dates[i]) /\ ~ (dates[k] = dates[i] /\ k < i)
    BY <2>1, <2>2, <2>3
  <2> QED
    BY <2>4, Zenon DEF F!Before
<1> QED
  BY <1>5

(* The burst of any number of releases at any times is some of them that   *)
(* lie a day apart at most, at least three and at least half of all        *)
(* (features.py, has_release_burst).                                       *)
THEOREM EveryBurstIsDense ==
  ASSUME NEW dates \in Seq(Nat)
  PROVE  F!BurstIsDense(dates)
<1> DEFINE n == Len(dates)
           all == DOMAIN dates
           Window(i) == {k \in all : ~F!Before(dates, k, i) /\ dates[k] - dates[i] <= 24}
           counts == {F!From(dates, i) : i \in all}
           busiest == Greatest(counts)
           Dense(S) == /\ Cardinality(S) >= 3 /\ 2 * Cardinality(S) >= n
                       /\ \A i, k \in S : dates[i] - dates[k] <= 24
<1>1. n \in Nat /\ all = 1 .. n /\ \A i \in all : i \in Nat /\ dates[i] \in Nat
  BY Elements
<1>2. IsFiniteSet(all) /\ Cardinality(all) = n
  <2>1. \A m \in Nat : IsFiniteSet(1 .. m) /\ Cardinality(1 .. m) = m
    BY FS_Interval
  <2> QED
    BY <1>1, <2>1
<1>3. \A i \in all : F!From(dates, i) = Cardinality(Window(i))
  <2>1. \A some : F!Cardinality(some) = Cardinality(some)
    BY DEF F!Cardinality, Cardinality
  <2> QED
    BY <2>1 DEF F!From, F!BURST_WINDOW
<1>4. /\ F!BurstIsDense(dates) <=>
           (F!HasReleaseBurst(dates) <=> \E S \in SUBSET all : Dense(S))
      /\ F!HasReleaseBurst(dates) <=> n >= 3 /\ busiest >= 3 /\ 2 * busiest >= n
  <2>1. \A some : F!Cardinality(some) = Cardinality(some)
    BY DEF F!Cardinality, Cardinality
  <2>2. F!Max(counts) = busiest
    BY DEF F!Max, Greatest
  <2> QED
    BY <2>1, <2>2 DEF F!BurstIsDense, F!HasReleaseBurst, F!BURST_COUNT, F!EnoughOf
<1>5. \A S \in SUBSET all : IsFiniteSet(S) /\ Cardinality(S) \in 0 .. n
  <2> SUFFICES ASSUME NEW S \in SUBSET all
               PROVE  IsFiniteSet(S) /\ Cardinality(S) \in 0 .. n
    OBVIOUS
  <2>1. IsFiniteSet(S) /\ Cardinality(S) <= n
    BY <1>2, FS_Subset
  <2>2. Cardinality(S) \in Nat
    BY <2>1, FS_CardinalityType
  <2> QED
    BY <1>1, <2>1, <2>2
<1>6. \A i \in all : i \in Window(i) /\ Window(i) \in SUBSET all
  BY <1>1 DEF F!Before
<1>7. \A i \in all : Cardinality(Window(i)) \in 1 .. n
  <2> SUFFICES ASSUME NEW i \in all PROVE Cardinality(Window(i)) \in 1 .. n
    OBVIOUS
  <2> DEFINE w == Window(i)
  <2>1. i \in w /\ w \in SUBSET all
    BY <1>6
  <2> HIDE DEF w
  <2>2. IsFiniteSet(w) /\ Cardinality(w) \in 0 .. n
    BY <1>5, <2>1
  <2>3. Cardinality(w) # 0
    BY <2>1, <2>2, FS_EmptySet
  <2>4. Cardinality(w) \in 1 .. n
    BY <1>1, <2>2, <2>3
  <2> QED
    BY <2>4 DEF w
<1>8. ASSUME all # {} PROVE busiest \in counts /\ \A c \in counts : c <= busiest
  <2>1. counts \in SUBSET (1 .. n) /\ counts # {}
    BY <1>3, <1>7, <1>8
  <2> HIDE DEF counts
  <2> QED
    BY <1>1, <2>1, GreatestIsThere
<1> HIDE DEF busiest
<1>9. ASSUME F!HasReleaseBurst(dates) PROVE \E S \in SUBSET all : Dense(S)
  <2>1. n >= 3 /\ busiest >= 3 /\ 2 * busiest >= n
    BY <1>4, <1>9
  <2>2. all # {}
    BY <1>1, <2>1
  <2>3. PICK i \in all : busiest = Cardinality(Window(i))
    BY <1>3, <1>8, <2>2
  <2>4. \A j \in Window(i) : dates[i] <= dates[j] /\ dates[j] - dates[i] <= 24
    BY <1>1 DEF F!Before
  <2>5. \A j, k \in Window(i) : dates[j] - dates[k] <= 24
    BY <1>1, <2>4
  <2> QED
    BY <1>6, <2>1, <2>3, <2>5
<1>10. ASSUME NEW S \in SUBSET all, Dense(S) PROVE F!HasReleaseBurst(dates)
  <2>1. IsFiniteSet(S) /\ Cardinality(S) \in 0 .. n /\ Cardinality(S) >= 3
    BY <1>5, <1>10
  <2>2. S # {}
    BY <2>1, FS_EmptySet
  <2>3. PICK i \in S : \A k \in S : ~F!Before(dates, k, i)
    BY <2>2, FirstOfDates
  <2>4. S \in SUBSET Window(i) /\ i \in all
    BY <1>10, <2>3
  <2>5. Cardinality(S) <= Cardinality(Window(i))
    BY <1>5, <1>6, <2>4, FS_Subset
  <2>6. Cardinality(Window(i)) \in counts /\ Cardinality(Window(i)) \in 1 .. n
    BY <1>3, <1>7, <2>4
  <2>7. Cardinality(Window(i)) <= busiest /\ busiest \in 1 .. n
    BY <1>3, <1>7, <1>8, <2>4, <2>6
  <2>8. 2 * Cardinality(S) >= n
    BY <1>10
  <2>9. \A c, w, b, m \in Nat :
          c <= m /\ c >= 3 /\ 2 * c >= m /\ c <= w /\ w <= b => m >= 3 /\ b >= 3 /\ 2 * b >= m
    OBVIOUS
  <2>10. /\ Cardinality(S) \in Nat /\ Cardinality(S) <= n
         /\ Cardinality(Window(i)) \in Nat /\ busiest \in Nat
    BY <1>1, <2>1, <2>6, <2>7
  <2> HIDE DEF Window, counts
  <2> QED
    BY <1>1, <1>4, <2>1, <2>5, <2>7, <2>8, <2>9, <2>10
<1> QED
  BY <1>4, <1>9, <1>10

-----------------------------------------------------------------------------
(* One typing error, by the places of the characters.                      *)

(* The first i characters of a and the first j of b are the same; those of *)
(* a are those of b and one more; one is replaced; two have been swapped.  *)
Same(a, b, i, j) == i = j /\ \A x \in 1 .. i : a[x] = b[x]
Longer(a, b, i, j) ==
  /\ i = j + 1
  /\ \E k \in 1 .. i : /\ \A x \in 1 .. k - 1 : a[x] = b[x]
                       /\ \A x \in k + 1 .. i : a[x] = b[x - 1]
Replaced(a, b, i, j) ==
  i = j /\ \E k \in 1 .. i : \A x \in 1 .. i : x = k \/ a[x] = b[x]
Turned(a, b, i, j) ==
  /\ i = j
  /\ \E k \in 1 .. i - 1 : /\ a[k] = b[k + 1] /\ a[k + 1] = b[k]
                           /\ \A x \in 1 .. i : x = k \/ x = k + 1 \/ a[x] = b[x]
Near(a, b, i, j) ==
  \/ Same(a, b, i, j) \/ Longer(a, b, i, j) \/ Longer(b, a, j, i)
  \/ Replaced(a, b, i, j) \/ Turned(a, b, i, j)

(* What one more character on each side does to them.                      *)
LEMMA OneMoreSame ==
  ASSUME NEW a, NEW b, NEW i \in Nat \ {0}, NEW j \in Nat \ {0}
  PROVE  Same(a, b, i, j) <=> a[i] = b[j] /\ Same(a, b, i - 1, j - 1)
BY DEF Same

(* Either the last character is the one too many, or the last two are equal.*)
LEMMA OneMoreLonger ==
  ASSUME NEW a, NEW b, NEW i \in Nat \ {0}, NEW j \in Nat \ {0}
  PROVE  Longer(a, b, i, j) <=>
           (a[i] = b[j] /\ Longer(a, b, i - 1, j - 1)) \/ Same(a, b, i - 1, j)
<1>1. ASSUME Longer(a, b, i, j)
      PROVE  (a[i] = b[j] /\ Longer(a, b, i - 1, j - 1)) \/ Same(a, b, i - 1, j)
  <2>1. PICK k \in 1 .. i : /\ i = j + 1
                            /\ \A x \in 1 .. k - 1 : a[x] = b[x]
                            /\ \A x \in k + 1 .. i : a[x] = b[x - 1]
    BY <1>1 DEF Longer
  <2>2. CASE k = i
    BY <2>1, <2>2 DEF Same
  <2>3. CASE k # i
    <3>1. k \in 1 .. i - 1 /\ i \in k + 1 .. i /\ i - 1 = j /\ i - 1 = (j - 1) + 1
      BY <2>1, <2>3
    <3>2. a[i] = b[j]
      BY <2>1, <3>1
    <3>3. \A x \in k + 1 .. i - 1 : a[x] = b[x - 1]
      BY <2>1
    <3> QED
      BY <2>1, <3>1, <3>2, <3>3 DEF Longer
  <2> QED
    BY <2>2, <2>3
<1>2. ASSUME a[i] = b[j], Longer(a, b, i - 1, j - 1) PROVE Longer(a, b, i, j)
  <2>1. PICK k \in 1 .. i - 1 : /\ i - 1 = (j - 1) + 1
                                /\ \A x \in 1 .. k - 1 : a[x] = b[x]
                                /\ \A x \in k + 1 .. i - 1 : a[x] = b[x - 1]
    BY <1>2 DEF Longer
  <2>2. i = j + 1 /\ k \in 1 .. i /\ \A x \in k + 1 .. i : x \in k + 1 .. i - 1 \/ x = i
    BY <2>1
  <2>3. \A x \in k + 1 .. i : a[x] = b[x - 1]
    BY <1>2, <2>1, <2>2
  <2> QED
    BY <2>1, <2>2, <2>3 DEF Longer
<1>3. ASSUME Same(a, b, i - 1, j) PROVE Longer(a, b, i, j)
  <2>1. i = j + 1 /\ i \in 1 .. i /\ i + 1 .. i = {} /\ \A x \in 1 .. i - 1 : a[x] = b[x]
    BY <1>3 DEF Same
  <2> QED
    BY <2>1 DEF Longer
<1> QED
  BY <1>1, <1>2, <1>3

(* Either the last character is the replaced one, or the last two are equal.*)
LEMMA OneMoreReplaced ==
  ASSUME NEW a, NEW b, NEW i \in Nat \ {0}, NEW j \in Nat \ {0}
  PROVE  Replaced(a, b, i, j) <=>
           (a[i] = b[j] /\ Replaced(a, b, i - 1, j - 1)) \/ Same(a, b, i - 1, j - 1)
<1>1. ASSUME Replaced(a, b, i, j)
      PROVE  (a[i] = b[j] /\ Replaced(a, b, i - 1, j - 1)) \/ Same(a, b, i - 1, j - 1)
  <2>1. PICK k \in 1 .. i : i = j /\ \A x \in 1 .. i : x = k \/ a[x] = b[x]
    BY <1>1 DEF Replaced
  <2>2. CASE k = i
    BY <2>1, <2>2 DEF Same
  <2>3. CASE k # i
    <3>1. k \in 1 .. i - 1 /\ a[i] = b[j] /\ \A x \in 1 .. i - 1 : x = k \/ a[x] = b[x]
      BY <2>1, <2>3
    <3> QED
      BY <2>1, <3>1 DEF Replaced
  <2> QED
    BY <2>2, <2>3
<1>2. ASSUME a[i] = b[j], Replaced(a, b, i - 1, j - 1) PROVE Replaced(a, b, i, j)
  <2>1. PICK k \in 1 .. i - 1 : i - 1 = j - 1 /\ \A x \in 1 .. i - 1 : x = k \/ a[x] = b[x]
    BY <1>2 DEF Replaced
  <2>2. i = j /\ k \in 1 .. i /\ \A x \in 1 .. i : x \in 1 .. i - 1 \/ x = i
    BY <2>1
  <2> QED
    BY <1>2, <2>1, <2>2 DEF Replaced
<1>3. ASSUME Same(a, b, i - 1, j - 1) PROVE Replaced(a, b, i, j)
  <2>1. i = j /\ i \in 1 .. i /\ \A x \in 1 .. i : x = i \/ a[x] = b[x]
    BY <1>3 DEF Same
  <2> QED
    BY <2>1 DEF Replaced
<1> QED
  BY <1>1, <1>2, <1>3

(* Either the last two characters are the swapped ones, or the last are equal.*)
LEMMA OneMoreTurned ==
  ASSUME NEW a, NEW b, NEW i \in Nat \ {0}, NEW j \in Nat \ {0}
  PROVE  Turned(a, b, i, j) <=>
           \/ a[i] = b[j] /\ Turned(a, b, i - 1, j - 1)
           \/ F!Swapped(a, b, i, j) /\ Same(a, b, i - 2, j - 2)
<1>1. ASSUME Turned(a, b, i, j)
      PROVE  \/ a[i] = b[j] /\ Turned(a, b, i - 1, j - 1)
             \/ F!Swapped(a, b, i, j) /\ Same(a, b, i - 2, j - 2)
  <2>1. PICK k \in 1 .. i - 1 :
          /\ i = j /\ a[k] = b[k + 1] /\ a[k + 1] = b[k]
          /\ \A x \in 1 .. i : x = k \/ x = k + 1 \/ a[x] = b[x]
    BY <1>1 DEF Turned
  <2>2. CASE k = i - 1
    <3>1. k + 1 = i /\ i > 1 /\ j > 1 /\ j - 1 = k /\ i - 1 = k
      BY <2>1, <2>2
    <3>2. F!Swapped(a, b, i, j)
      BY <2>1, <3>1 DEF F!Swapped
    <3>3. Same(a, b, i - 2, j - 2)
      BY <2>1, <3>1 DEF Same
    <3> QED
      BY <3>2, <3>3
  <2>3. CASE k # i - 1
    <3>1. /\ k \in 1 .. (i - 1) - 1 /\ a[i] = b[j]
          /\ \A x \in 1 .. i - 1 : x = k \/ x = k + 1 \/ a[x] = b[x]
      BY <2>1, <2>3
    <3> QED
      BY <2>1, <3>1 DEF Turned
  <2> QED
    BY <2>2, <2>3
<1>2. ASSUME a[i] = b[j], Turned(a, b, i - 1, j - 1) PROVE Turned(a, b, i, j)
  <2>1. PICK k \in 1 .. (i - 1) - 1 :
          /\ i - 1 = j - 1 /\ a[k] = b[k + 1] /\ a[k + 1] = b[k]
          /\ \A x \in 1 .. i - 1 : x = k \/ x = k + 1 \/ a[x] = b[x]
    BY <1>2 DEF Turned
  <2>2. i = j /\ k \in 1 .. i - 1 /\ \A x \in 1 .. i : x \in 1 .. i - 1 \/ x = i
    BY <2>1
  <2> QED
    BY <1>2, <2>1, <2>2 DEF Turned
<1>3. ASSUME F!Swapped(a, b, i, j), Same(a, b, i - 2, j - 2) PROVE Turned(a, b, i, j)
  <2>1. i = j /\ i > 1 /\ a[i] = b[i - 1] /\ a[i - 1] = b[i] /\ (i - 1) + 1 = i
    BY <1>3 DEF F!Swapped, Same
  <2>2. \A x \in 1 .. i : x = i - 1 \/ x = i \/ a[x] = b[x]
    BY <1>3, <2>1 DEF Same
  <2>3. i - 1 \in 1 .. i - 1
    BY <2>1
  <2> QED
    BY <2>1, <2>2, <2>3 DEF Turned
<1> QED
  BY <1>1, <1>2, <1>3

(* All five together: the shape of the recursion of _edit_distance.        *)
LEMMA OneMoreNear ==
  ASSUME NEW a, NEW b, NEW i \in Nat \ {0}, NEW j \in Nat \ {0}
  PROVE  Near(a, b, i, j) <=>
           \/ a[i] = b[j] /\ Near(a, b, i - 1, j - 1)
           \/ Same(a, b, i - 1, j - 1) \/ Same(a, b, i - 1, j) \/ Same(a, b, i, j - 1)
           \/ F!Swapped(a, b, i, j) /\ Same(a, b, i - 2, j - 2)
<1>1. Same(b, a, j - 1, i) <=> Same(a, b, i, j - 1)
  BY DEF Same
<1>2. Longer(b, a, j, i) <=>
        (a[i] = b[j] /\ Longer(b, a, j - 1, i - 1)) \/ Same(a, b, i, j - 1)
  BY <1>1, OneMoreLonger
<1> QED
  BY <1>2, OneMoreSame, OneMoreLonger, OneMoreReplaced, OneMoreTurned DEF Near

(* The distances exist: each is computed from those of shorter beginnings. *)
Cells(a, b) == (0 .. Len(a)) \X (0 .. Len(b))
NextDistance(a, b, d, i, j) ==
  IF i = 0 \/ j = 0 THEN i + j ELSE F!Min(F!Candidates(a, b, d, i, j))

(* The minimum of numbers is one of them.                                  *)
LEMMA LeastIsThere ==
  ASSUME NEW S \in SUBSET Nat, S # {}
  PROVE  F!Min(S) \in S /\ \A x \in S : F!Min(S) <= x
<1>1. PICK n \in S : \A x \in S : n <= x
  BY LeastNumber
<1> QED
  BY <1>1 DEF F!Min

(* What the least candidate says of the distances of shorter beginnings.   *)
FromShorter(a, b, d, i, j, least) ==
  /\ least = 0 <=> a[i] = b[j] /\ d[<<i - 1, j - 1>>] = 0
  /\ least <= 1 <=>
       \/ a[i] = b[j] /\ d[<<i - 1, j - 1>>] <= 1
       \/ d[<<i - 1, j - 1>>] = 0 \/ d[<<i - 1, j>>] = 0 \/ d[<<i, j - 1>>] = 0
       \/ F!Swapped(a, b, i, j) /\ d[<<i - 2, j - 2>>] = 0

LEMMA CandidatesAre ==
  ASSUME NEW a, NEW b, NEW d, NEW i \in Nat \ {0}, NEW j \in Nat \ {0},
         d[<<i, j - 1>>] \in Nat, d[<<i - 1, j>>] \in Nat, d[<<i - 1, j - 1>>] \in Nat,
         F!Swapped(a, b, i, j) => d[<<i - 2, j - 2>>] \in Nat,
         NEW least, least = F!Min(F!Candidates(a, b, d, i, j))
  PROVE  least \in Nat /\ FromShorter(a, b, d, i, j, least)
<1> DEFINE x == d[<<i, j - 1>>]
           y == d[<<i - 1, j>>]
           z == d[<<i - 1, j - 1>>]
           w == d[<<i - 2, j - 2>>]
           cost == IF a[i] = b[j] THEN 0 ELSE 1
           all == {x + 1, y + 1, z + cost} \cup (IF F!Swapped(a, b, i, j) THEN {w + 1} ELSE {})
<1>1. x \in Nat /\ y \in Nat /\ z \in Nat
  OBVIOUS
<1>2. ASSUME F!Swapped(a, b, i, j) PROVE w \in Nat
  BY <1>2
<1>3. F!Candidates(a, b, d, i, j) = all
  BY DEF F!Candidates
<1> HIDE DEF x, y, z, w
<1>4. all \in SUBSET Nat /\ all # {}
  BY <1>1, <1>2
<1>0. least = F!Min(all)
  BY <1>3
<1>5. least \in all /\ \A v \in all : least <= v
  <2> HIDE DEF all
  <2>1. F!Min(all) \in all /\ \A v \in all : F!Min(all) <= v
    BY <1>4, LeastIsThere
  <2> QED
    BY <1>0, <2>1
<1>6. /\ least = x + 1 \/ least = y + 1 \/ least = z + cost
           \/ (F!Swapped(a, b, i, j) /\ least = w + 1)
      /\ least <= x + 1 /\ least <= y + 1 /\ least <= z + cost
      /\ F!Swapped(a, b, i, j) => least <= w + 1
  BY <1>5
<1>7. least \in Nat
  BY <1>4, <1>5
<1>8. least = 0 <=> a[i] = b[j] /\ z = 0
  BY <1>1, <1>2, <1>6, <1>7
<1>9. least <= 1 <=> \/ a[i] = b[j] /\ z <= 1
                     \/ z = 0 \/ y = 0 \/ x = 0
                     \/ F!Swapped(a, b, i, j) /\ w = 0
  BY <1>1, <1>2, <1>6, <1>7
<1> QED
  BY <1>7, <1>8, <1>9 DEF FromShorter, x, y, z, w

(* By induction over the sum of the two lengths, one diagonal at a time.   *)
LEMMA DistancesExist ==
  ASSUME NEW X, NEW a \in Seq(X), NEW b \in Seq(X)
  PROVE  \E d : d = [c \in Cells(a, b) |-> NextDistance(a, b, d, c[1], c[2])]
<1> DEFINE m == Len(a)
           n == Len(b)
           Right(f, k) == \A i \in 0 .. m, j \in 0 .. n :
                            i + j <= k => f[<<i, j>>] = NextDistance(a, b, f, i, j)
           S == {k \in Nat : \E f \in [Cells(a, b) -> Nat] : Right(f, k)}
<1>1. m \in Nat /\ n \in Nat
  OBVIOUS
<1> HIDE DEF m, n
<1>2. Cells(a, b) = (0 .. m) \X (0 .. n)
  BY DEF Cells, m, n
<1>3. 0 \in S
  <2> DEFINE f == [c \in Cells(a, b) |-> 0]
  <2>1. f \in [Cells(a, b) -> Nat]
    OBVIOUS
  <2>2. Right(f, 0)
    <3> SUFFICES ASSUME NEW i \in 0 .. m, NEW j \in 0 .. n, i + j <= 0
                 PROVE  f[<<i, j>>] = NextDistance(a, b, f, i, j)
      OBVIOUS
    <3>1. i = 0 /\ j = 0 /\ <<i, j>> \in Cells(a, b)
      BY <1>1, <1>2
    <3>2. f[<<i, j>>] = 0
      BY <3>1
    <3> QED
      BY <3>1, <3>2 DEF NextDistance
  <2> QED
    BY <2>1, <2>2
<1>4. ASSUME NEW k \in Nat, k \in S PROVE k + 1 \in S
  <2>1. PICK f \in [Cells(a, b) -> Nat] : Right(f, k)
    BY <1>4
  <2> DEFINE g == [c \in Cells(a, b) |->
                     IF c[1] + c[2] = k + 1 THEN NextDistance(a, b, f, c[1], c[2]) ELSE f[c]]
  <2>0. \A i \in 0 .. m, j \in 0 .. n : f[<<i, j>>] \in Nat
    BY <1>2
  <2>2. ASSUME NEW i \in 0 .. m, NEW j \in 0 .. n
        PROVE  /\ <<i, j>> \in Cells(a, b) /\ f[<<i, j>>] \in Nat
               /\ g[<<i, j>>] = IF i + j = k + 1 THEN NextDistance(a, b, f, i, j)
                                                  ELSE f[<<i, j>>]
    <3>1. <<i, j>> \in Cells(a, b)
      BY <1>2
    <3> QED
      BY <3>1
  <2>3. ASSUME NEW i \in 0 .. m, NEW j \in 0 .. n
        PROVE  NextDistance(a, b, f, i, j) \in Nat
    <3>1. CASE i = 0 \/ j = 0
      BY <1>1, <3>1 DEF NextDistance
    <3>2. CASE ~ (i = 0 \/ j = 0)
      <4>1. i \in Nat \ {0} /\ j \in Nat \ {0}
        BY <1>1, <3>2
      <4>2. /\ f[<<i, j - 1>>] \in Nat /\ f[<<i - 1, j>>] \in Nat
            /\ f[<<i - 1, j - 1>>] \in Nat
            /\ F!Swapped(a, b, i, j) => f[<<i - 2, j - 2>>] \in Nat
        <5>1. i - 1 \in 0 .. m /\ j - 1 \in 0 .. n
          BY <1>1, <4>1
        <5>2. F!Swapped(a, b, i, j) => i - 2 \in 0 .. m /\ j - 2 \in 0 .. n
          BY <1>1, <4>1 DEF F!Swapped
        <5> QED
          BY <2>0, <5>1, <5>2
      <4>3. F!Min(F!Candidates(a, b, f, i, j)) \in Nat
        BY <4>1, <4>2, CandidatesAre
      <4> QED
        BY <3>2, <4>3 DEF NextDistance
    <3> QED
      BY <3>1, <3>2
  <2>4. g \in [Cells(a, b) -> Nat]
    <3>1. ASSUME NEW c \in Cells(a, b)
          PROVE  (IF c[1] + c[2] = k + 1 THEN NextDistance(a, b, f, c[1], c[2]) ELSE f[c]) \in Nat
      <4>1. c[1] \in 0 .. m /\ c[2] \in 0 .. n /\ f[c] \in Nat
        BY <1>2
      <4> QED
        BY <2>3, <4>1
    <3> QED
      BY <3>1
  <2> HIDE DEF g
  <2>5. ASSUME NEW i \in 0 .. m, NEW j \in 0 .. n, i + j <= k + 1
        PROVE  NextDistance(a, b, g, i, j) = NextDistance(a, b, f, i, j)
    <3>1. CASE i = 0 \/ j = 0
      BY <3>1 DEF NextDistance
    <3>2. CASE ~ (i = 0 \/ j = 0)
      <4>1. \A x \in 0 .. i, y \in 0 .. j : x + y < i + j => g[<<x, y>>] = f[<<x, y>>]
        <5> SUFFICES ASSUME NEW x \in 0 .. i, NEW y \in 0 .. j, x + y < i + j
                     PROVE  g[<<x, y>>] = f[<<x, y>>]
          OBVIOUS
        <5>1. x \in 0 .. m /\ y \in 0 .. n /\ x + y # k + 1
          BY <1>1, <2>5
        <5> QED
          BY <2>2, <5>1
      <4>2. /\ g[<<i, j - 1>>] = f[<<i, j - 1>>]
            /\ g[<<i - 1, j>>] = f[<<i - 1, j>>]
            /\ g[<<i - 1, j - 1>>] = f[<<i - 1, j - 1>>]
        BY <1>1, <3>2, <4>1
      <4>3. F!Swapped(a, b, i, j) => g[<<i - 2, j - 2>>] = f[<<i - 2, j - 2>>]
        <5>1. F!Swapped(a, b, i, j) => i - 2 \in 0 .. i /\ j - 2 \in 0 .. j
          BY <1>1, <3>2 DEF F!Swapped
        <5>2. (i - 2) + (j - 2) < i + j
          BY <1>1
        <5> QED
          BY <4>1, <5>1, <5>2
      <4>4. F!Candidates(a, b, g, i, j) = F!Candidates(a, b, f, i, j)
        BY <4>2, <4>3, Zenon DEF F!Candidates
      <4> QED
        BY <3>2, <4>4 DEF NextDistance
    <3> QED
      BY <3>1, <3>2
  <2>6. Right(g, k + 1)
    <3> SUFFICES ASSUME NEW i \in 0 .. m, NEW j \in 0 .. n, i + j <= k + 1
                 PROVE  g[<<i, j>>] = NextDistance(a, b, g, i, j)
      OBVIOUS
    <3>1. CASE i + j = k + 1
      BY <2>2, <2>5, <3>1
    <3>2. CASE i + j # k + 1
      <4>1. i + j <= k
        BY <1>1, <3>2
      <4> QED
        BY <2>1, <2>2, <2>5, <3>2, <4>1
    <3> QED
      BY <3>1, <3>2
  <2> HIDE DEF Right
  <2> QED
    BY <2>4, <2>6
<1>5. m + n \in S
  <2> HIDE DEF S
  <2> QED
    BY <1>1, <1>3, <1>4, Induction
<1>6. PICK f \in [Cells(a, b) -> Nat] : Right(f, m + n)
  BY <1>5
<1>7. ASSUME NEW c \in Cells(a, b) PROVE f[c] = NextDistance(a, b, f, c[1], c[2])
  <2>1. c = <<c[1], c[2]>> /\ c[1] \in 0 .. m /\ c[2] \in 0 .. n
    BY <1>2
  <2>2. c[1] + c[2] <= m + n
    BY <1>1, <2>1
  <2> QED
    BY <1>6, <2>1, <2>2
<1>8. f = [c \in Cells(a, b) |-> NextDistance(a, b, f, c[1], c[2])]
  BY <1>7
<1> QED
  BY <1>8

(* The distance is none for equal beginnings, and at most one for those    *)
(* that a typing error turns into each other.                              *)
LEMMA DistanceTells ==
  ASSUME NEW X, NEW a \in Seq(X), NEW b \in Seq(X)
  PROVE  /\ F!EditDistance(a, b) \in Nat
         /\ F!EditDistance(a, b) <= 1 <=> Near(a, b, Len(a), Len(b))
<1> DEFINE m == Len(a)
           n == Len(b)
           d == CHOOSE f : f = [c \in Cells(a, b) |->
                  IF c[1] = 0 \/ c[2] = 0 THEN c[1] + c[2]
                  ELSE F!Min(F!Candidates(a, b, f, c[1], c[2]))]
           Told(i, j) == /\ d[<<i, j>>] \in Nat
                         /\ d[<<i, j>>] = 0 <=> Same(a, b, i, j)
                         /\ d[<<i, j>>] <= 1 <=> Near(a, b, i, j)
           S == {k \in Nat : \A i \in 0 .. m, j \in 0 .. n : i + j <= k => Told(i, j)}
<1>1. m \in Nat /\ n \in Nat
  OBVIOUS
<1>2. F!EditDistance(a, b) = d[<<m, n>>]
  BY DEF F!EditDistance, Cells
<1>3. d = [c \in Cells(a, b) |-> NextDistance(a, b, d, c[1], c[2])]
  BY DistancesExist DEF NextDistance
<1> HIDE DEF d, m, n
<1>4. ASSUME NEW i \in 0 .. m, NEW j \in 0 .. n
      PROVE  d[<<i, j>>] = NextDistance(a, b, d, i, j)
  <2>1. <<i, j>> \in Cells(a, b)
    BY DEF Cells, m, n
  <2> QED
    BY <1>3, <2>1
<1>5. ASSUME NEW i \in 0 .. m, NEW j \in 0 .. n, i = 0 \/ j = 0 PROVE Told(i, j)
  <2>1. d[<<i, j>>] = i + j
    BY <1>4, <1>5 DEF NextDistance
  <2>2. Same(a, b, i, j) <=> i + j = 0
    BY <1>1, <1>5 DEF Same
  <2>3. Near(a, b, i, j) => i + j <= 1
    BY <1>1, <1>5 DEF Near, Same, Longer, Replaced, Turned
  <2>4. i + j <= 1 => Near(a, b, i, j)
    <3>1. CASE i = 1 /\ j = 0
      <4>1. 1 \in 1 .. 1 /\ 1 .. 1 - 1 = {} /\ 1 + 1 .. 1 = {}
        OBVIOUS
      <4> QED
        BY <3>1, <4>1 DEF Near, Longer
    <3>2. CASE i = 0 /\ j = 1
      <4>1. 1 \in 1 .. 1 /\ 1 .. 1 - 1 = {} /\ 1 + 1 .. 1 = {}
        OBVIOUS
      <4> QED
        BY <3>2, <4>1 DEF Near, Longer
    <3>3. CASE i = 0 /\ j = 0
      BY <3>3 DEF Near, Same
    <3> QED
      BY <1>1, <1>5, <3>1, <3>2, <3>3
  <2> QED
    BY <1>1, <2>1, <2>2, <2>3, <2>4
<1>6. 0 \in S
  BY <1>1, <1>5
<1>7. ASSUME NEW k \in Nat, k \in S PROVE k + 1 \in S
  <2>1. ASSUME NEW i \in 0 .. m, NEW j \in 0 .. n, i + j = k + 1, i # 0, j # 0
        PROVE  Told(i, j)
    <3>1. \A x \in 0 .. i, y \in 0 .. j : x + y < i + j => Told(x, y)
      BY <1>1, <1>7, <2>1
    <3>2. i \in 1 .. m /\ j \in 1 .. n /\ i \in Nat \ {0} /\ j \in Nat \ {0}
      BY <1>1, <2>1
    <3>4. d[<<i, j>>] = F!Min(F!Candidates(a, b, d, i, j))
      BY <1>4, <2>1 DEF NextDistance
    <3>6. Told(i - 1, j - 1) /\ Told(i - 1, j) /\ Told(i, j - 1)
      <4>1. /\ i - 1 \in 0 .. i /\ j - 1 \in 0 .. j /\ i \in 0 .. i /\ j \in 0 .. j
            /\ (i - 1) + (j - 1) < i + j /\ (i - 1) + j < i + j /\ i + (j - 1) < i + j
        BY <3>2
      <4> HIDE DEF Told
      <4> QED
        BY <3>1, <4>1
    <3>7. F!Swapped(a, b, i, j) => Told(i - 2, j - 2)
      <4>1. F!Swapped(a, b, i, j) => i - 2 \in 0 .. i /\ j - 2 \in 0 .. j
        BY <3>2 DEF F!Swapped
      <4>2. (i - 2) + (j - 2) < i + j
        BY <3>2
      <4> HIDE DEF Told
      <4> QED
        BY <3>1, <4>1, <4>2
    <3>5. /\ d[<<i, j>>] \in Nat
          /\ d[<<i, j>>] = 0 <=> a[i] = b[j] /\ d[<<i - 1, j - 1>>] = 0
          /\ d[<<i, j>>] <= 1 <=>
               \/ a[i] = b[j] /\ d[<<i - 1, j - 1>>] <= 1
               \/ d[<<i - 1, j - 1>>] = 0 \/ d[<<i - 1, j>>] = 0 \/ d[<<i, j - 1>>] = 0
               \/ F!Swapped(a, b, i, j) /\ d[<<i - 2, j - 2>>] = 0
      <4>1. /\ d[<<i, j - 1>>] \in Nat /\ d[<<i - 1, j>>] \in Nat
            /\ d[<<i - 1, j - 1>>] \in Nat
            /\ F!Swapped(a, b, i, j) => d[<<i - 2, j - 2>>] \in Nat
        BY <3>6, <3>7
      <4> HIDE DEF Told
      <4> DEFINE least == F!Min(F!Candidates(a, b, d, i, j))
      <4>2. least \in Nat /\ FromShorter(a, b, d, i, j, least)
        BY <3>2, <4>1, CandidatesAre, Zenon
      <4> HIDE DEF least
      <4> QED
        BY <3>4, <4>2 DEF least, FromShorter
    <3>8. d[<<i, j>>] = 0 <=> Same(a, b, i, j)
      <4>1. Same(a, b, i, j) <=> a[i] = b[j] /\ Same(a, b, i - 1, j - 1)
        BY <3>2, OneMoreSame
      <4> QED
        BY <3>5, <3>6, <4>1
    <3>9. d[<<i, j>>] <= 1 <=> Near(a, b, i, j)
      <4>1. Near(a, b, i, j) <=>
              \/ a[i] = b[j] /\ Near(a, b, i - 1, j - 1)
              \/ Same(a, b, i - 1, j - 1) \/ Same(a, b, i - 1, j) \/ Same(a, b, i, j - 1)
              \/ F!Swapped(a, b, i, j) /\ Same(a, b, i - 2, j - 2)
        BY <3>2, OneMoreNear
      <4> QED
        BY <3>5, <3>6, <3>7, <4>1
    <3> QED
      BY <3>5, <3>8, <3>9
  <2>2. ASSUME NEW i \in 0 .. m, NEW j \in 0 .. n, i + j <= k + 1 PROVE Told(i, j)
    <3> HIDE DEF Told
    <3>1. CASE i = 0 \/ j = 0
      BY <1>5, <3>1
    <3>2. CASE i + j <= k
      BY <1>7, <3>2
    <3>3. CASE i + j = k + 1 /\ i # 0 /\ j # 0
      BY <2>1, <3>3
    <3>4. i + j <= k \/ i + j = k + 1
      BY <1>1, <2>2
    <3> QED
      BY <3>1, <3>2, <3>3, <3>4
  <2> QED
    BY <2>2
<1>8. m + n \in S
  <2> HIDE DEF S
  <2> QED
    BY <1>1, <1>6, <1>7, Induction
<1>9. Told(m, n)
  <2>1. m \in 0 .. m /\ n \in 0 .. n /\ m + n <= m + n
    BY <1>1
  <2> HIDE DEF Told
  <2> QED
    BY <1>8, <2>1
<1> QED
  BY <1>2, <1>9 DEF m, n

(* One typing error is told by the places.                                 *)
LEMMA SameSeqs ==
  ASSUME NEW X, NEW a \in Seq(X), NEW b \in Seq(X)
  PROVE  a = b <=> Len(a) = Len(b) /\ \A x \in 1 .. Len(a) : a[x] = b[x]
BY SeqEqual

(* What a sequence looks like with its k-th member removed.                *)
LEMMA RemovedAt ==
  ASSUME NEW X, NEW a \in Seq(X), NEW k \in 1 .. Len(a)
  PROVE  /\ F!RemoveAt(a, k) \in Seq(X) /\ Len(F!RemoveAt(a, k)) = Len(a) - 1
         /\ \A x \in 1 .. k - 1 : F!RemoveAt(a, k)[x] = a[x]
         /\ \A x \in k + 1 .. Len(a) : F!RemoveAt(a, k)[x - 1] = a[x]
<1> DEFINE front == SubSeq(a, 1, k - 1)
           back == SubSeq(a, k + 1, Len(a))
<1>1. F!RemoveAt(a, k) = front \o back
  BY DEF F!RemoveAt
<1>2. /\ front \in Seq(X) /\ Len(front) = k - 1
      /\ \A x \in 1 .. k - 1 : front[x] = a[x]
  OBVIOUS
<1>3. /\ back \in Seq(X) /\ Len(back) = Len(a) - k
      /\ \A x \in 1 .. Len(a) - k : back[x] = a[k + x]
  OBVIOUS
<1> HIDE DEF front, back
<1>4. front \o back \in Seq(X) /\ Len(front \o back) = Len(a) - 1
  <2>1. (k - 1) + (Len(a) - k) = Len(a) - 1
    OBVIOUS
  <2>2. front \o back \in Seq(X) /\ Len(front \o back) = Len(front) + Len(back)
    BY <1>2, <1>3, ConcatProperties
  <2> QED
    BY <1>2, <1>3, <2>1, <2>2
<1>5. \A x \in 1 .. k - 1 : (front \o back)[x] = front[x]
  BY <1>2, <1>3
<1>6. \A x \in k + 1 .. Len(a) : (front \o back)[x - 1] = back[x - k]
  BY <1>2, <1>3
<1>7. \A x \in k + 1 .. Len(a) : back[x - k] = a[x]
  BY <1>3
<1> QED
  BY <1>1, <1>2, <1>4, <1>5, <1>6, <1>7

(* One deletion, in the words of SequencesExt and by the places.           *)
LEMMA RemovedIsLonger ==
  ASSUME NEW X, NEW a \in Seq(X), NEW b \in Seq(X)
  PROVE  (\E k \in DOMAIN a : F!RemoveAt(a, k) = b) <=> Longer(a, b, Len(a), Len(b))
<1>1. ASSUME NEW k \in 1 .. Len(a)
      PROVE  F!RemoveAt(a, k) = b <=>
               /\ Len(a) = Len(b) + 1
               /\ \A x \in 1 .. k - 1 : a[x] = b[x]
               /\ \A x \in k + 1 .. Len(a) : a[x] = b[x - 1]
  <2> DEFINE r == F!RemoveAt(a, k)
  <2>1. /\ r \in Seq(X) /\ Len(r) = Len(a) - 1
        /\ \A x \in 1 .. k - 1 : r[x] = a[x]
        /\ \A x \in k + 1 .. Len(a) : r[x - 1] = a[x]
    BY RemovedAt
  <2> HIDE DEF r
  <2>2. ASSUME Len(a) = Len(b) + 1,
               \A x \in 1 .. k - 1 : a[x] = b[x],
               \A x \in k + 1 .. Len(a) : a[x] = b[x - 1]
        PROVE  r = b
    <3>1. ASSUME NEW x \in 1 .. Len(r) PROVE r[x] = b[x]
      <4>1. CASE x \in 1 .. k - 1
        BY <2>1, <2>2, <4>1
      <4>2. CASE x + 1 \in k + 1 .. Len(a)
        <5>1. (x + 1) - 1 = x
          OBVIOUS
        <5> QED
          BY <2>1, <2>2, <4>2, <5>1
      <4> QED
        BY <2>1, <4>1, <4>2
    <3> QED
      BY <2>1, <2>2, <3>1, SameSeqs
  <2>3. ASSUME r = b
        PROVE  /\ Len(a) = Len(b) + 1
               /\ \A x \in 1 .. k - 1 : a[x] = b[x]
               /\ \A x \in k + 1 .. Len(a) : a[x] = b[x - 1]
    BY <2>1, <2>3
  <2> QED
    BY <2>2, <2>3 DEF r
<1>2. DOMAIN a = 1 .. Len(a)
  OBVIOUS
<1> QED
  BY <1>1, <1>2, Zenon DEF Longer

(* One substitution.                                                       *)
LEMMA ChangedIsReplaced ==
  ASSUME NEW X, NEW a \in Seq(X), NEW b \in Seq(X)
  PROVE  Len(a) = Len(b) /\ (\E k \in DOMAIN a : [a EXCEPT ![k] = b[k]] = b) <=>
           Replaced(a, b, Len(a), Len(b))
<1>1. ASSUME NEW k \in 1 .. Len(a), Len(a) = Len(b)
      PROVE  [a EXCEPT ![k] = b[k]] = b <=> \A x \in 1 .. Len(a) : x = k \/ a[x] = b[x]
  <2>1. [a EXCEPT ![k] = b[k]] \in Seq(X) /\ Len([a EXCEPT ![k] = b[k]]) = Len(a)
    BY <1>1
  <2>2. \A x \in 1 .. Len(a) : [a EXCEPT ![k] = b[k]][x] = IF x = k THEN b[k] ELSE a[x]
    OBVIOUS
  <2> QED
    BY <1>1, <2>1, <2>2, SameSeqs
<1> QED
  BY <1>1 DEF Replaced

(* One swap of neighbours.                                                 *)
LEMMA ChangedIsTurned ==
  ASSUME NEW X, NEW a \in Seq(X), NEW b \in Seq(X)
  PROVE  Turned(a, b, Len(a), Len(b)) <=>
           \E k \in DOMAIN a \ {Len(a)} : [a EXCEPT ![k] = a[k + 1], ![k + 1] = a[k]] = b
<1>1. ASSUME NEW k \in 1 .. Len(a) - 1
      PROVE  [a EXCEPT ![k] = a[k + 1], ![k + 1] = a[k]] = b <=>
               /\ Len(a) = Len(b) /\ a[k] = b[k + 1] /\ a[k + 1] = b[k]
               /\ \A x \in 1 .. Len(a) : x = k \/ x = k + 1 \/ a[x] = b[x]
  <2> DEFINE r == [a EXCEPT ![k] = a[k + 1], ![k + 1] = a[k]]
  <2>1. k \in 1 .. Len(a) /\ k + 1 \in 1 .. Len(a) /\ k # k + 1
    OBVIOUS
  <2>2. r \in Seq(X) /\ Len(r) = Len(a)
    BY <2>1
  <2>3. /\ r[k] = a[k + 1] /\ r[k + 1] = a[k]
        /\ \A x \in 1 .. Len(a) : x = k \/ x = k + 1 \/ r[x] = a[x]
    BY <2>1
  <2> HIDE DEF r
  <2> QED
    BY <2>1, <2>2, <2>3, SameSeqs DEF r
<1>2. DOMAIN a \ {Len(a)} = 1 .. Len(a) - 1
  OBVIOUS
<1> QED
  BY <1>1, <1>2 DEF Turned

(* So a typing error between two names is told by the places.              *)
LEMMA TypoIsNear ==
  ASSUME NEW X, NEW a \in Seq(X), NEW b \in Seq(X)
  PROVE  F!OneTypo(a, b) <=> Near(a, b, Len(a), Len(b))
<1>1. a = b <=> Same(a, b, Len(a), Len(b))
  BY SameSeqs DEF Same
<1> QED
  BY <1>1, RemovedIsLonger, ChangedIsReplaced, ChangedIsTurned DEF F!OneTypo, Near

(* The edit distance is at most one for two names that are equal or that   *)
(* one typing error turns into each other, and for no others, whatever the *)
(* lengths (features.py, _edit_distance).                                  *)
THEOREM DistanceTellsTypos ==
  ASSUME NEW X, NEW a \in Seq(X), NEW b \in Seq(X)
  PROVE  F!EditDistance(a, b) <= 1 <=> F!OneTypo(a, b)
BY DistanceTells, TypoIsNear

(* What two names begin with in common takes no part in a typing error: r  *)
(* and s are what a and b go on with after their first e characters.       *)
PastTheSame(a, b, r, s, e, m, n) ==
  /\ \A x \in 1 .. e : a[x] = b[x]
  /\ \A x \in 1 .. m : a[x + e] = r[x]
  /\ \A x \in 1 .. n : b[x + e] = s[x]

LEMMA SamePastTheSame ==
  ASSUME NEW a, NEW b, NEW r, NEW s, NEW e \in Nat, NEW m \in Nat, NEW n \in Nat,
         PastTheSame(a, b, r, s, e, m, n)
  PROVE  Same(a, b, e + m, e + n) <=> Same(r, s, m, n)
<1>1. \A x \in 1 .. m : x + e \in 1 .. e + m
  OBVIOUS
<1>2. \A x \in 1 .. e + m : x \in 1 .. e \/ (x - e \in 1 .. m /\ (x - e) + e = x)
  OBVIOUS
<1>3. e + m = e + n <=> m = n
  OBVIOUS
<1> QED
  BY <1>1, <1>2, <1>3 DEF Same, PastTheSame

(* A character too many within the common part is one right behind it.     *)
LEMMA LongerPastTheSame ==
  ASSUME NEW a, NEW b, NEW r, NEW s, NEW e \in Nat, NEW m \in Nat, NEW n \in Nat,
         PastTheSame(a, b, r, s, e, m, n)
  PROVE  Longer(a, b, e + m, e + n) <=> Longer(r, s, m, n)
<1>1. ASSUME Longer(a, b, e + m, e + n) PROVE Longer(r, s, m, n)
  <2>1. PICK k \in 1 .. e + m : /\ e + m = (e + n) + 1
                                /\ \A x \in 1 .. k - 1 : a[x] = b[x]
                                /\ \A x \in k + 1 .. e + m : a[x] = b[x - 1]
    BY <1>1 DEF Longer
  <2>2. m = n + 1
    BY <2>1
  <2>3. ASSUME NEW x \in 2 .. m, k < x + e PROVE r[x] = s[x - 1]
    <3>1. /\ x \in 1 .. m /\ x - 1 \in 1 .. n /\ x + e \in k + 1 .. e + m
          /\ (x - 1) + e = (x + e) - 1
      BY <2>2, <2>3
    <3> QED
      BY <2>1, <3>1 DEF PastTheSame
  <2>4. CASE k <= e
    <3>1. 1 \in 1 .. m /\ \A x \in 1 .. 1 - 1 : r[x] = s[x]
      BY <2>2
    <3>2. \A x \in 1 + 1 .. m : r[x] = s[x - 1]
      BY <2>3, <2>4
    <3> QED
      BY <2>2, <3>1, <3>2 DEF Longer
  <2>5. CASE k > e
    <3>1. k - e \in 1 .. m
      BY <2>5
    <3>2. \A x \in 1 .. (k - e) - 1 : /\ x \in 1 .. m /\ x \in 1 .. n
                                      /\ x + e \in 1 .. k - 1
      BY <2>2, <2>5
    <3>3. \A x \in 1 .. (k - e) - 1 : r[x] = s[x]
      BY <2>1, <3>2 DEF PastTheSame
    <3>4. \A x \in (k - e) + 1 .. m : r[x] = s[x - 1]
      BY <2>3, <2>5
    <3> QED
      BY <2>2, <3>1, <3>3, <3>4 DEF Longer
  <2> QED
    BY <2>4, <2>5
<1>2. ASSUME Longer(r, s, m, n) PROVE Longer(a, b, e + m, e + n)
  <2>1. PICK k \in 1 .. m : /\ m = n + 1
                            /\ \A x \in 1 .. k - 1 : r[x] = s[x]
                            /\ \A x \in k + 1 .. m : r[x] = s[x - 1]
    BY <1>2 DEF Longer
  <2>2. k + e \in 1 .. e + m /\ e + m = (e + n) + 1
    BY <2>1
  <2>3. ASSUME NEW x \in 1 .. (k + e) - 1 PROVE a[x] = b[x]
    <3>1. CASE x \in 1 .. e
      BY <3>1 DEF PastTheSame
    <3>2. CASE x \notin 1 .. e
      <4>1. x - e \in 1 .. k - 1 /\ x - e \in 1 .. m /\ x - e \in 1 .. n /\ (x - e) + e = x
        BY <2>1, <3>2
      <4> QED
        BY <2>1, <4>1 DEF PastTheSame
    <3> QED
      BY <3>1, <3>2
  <2>4. ASSUME NEW x \in (k + e) + 1 .. e + m PROVE a[x] = b[x - 1]
    <3>1. /\ x - e \in k + 1 .. m /\ x - e \in 1 .. m /\ (x - e) - 1 \in 1 .. n
          /\ (x - e) + e = x /\ ((x - e) - 1) + e = x - 1
      BY <2>1
    <3> QED
      BY <2>1, <3>1 DEF PastTheSame
  <2> QED
    BY <2>2, <2>3, <2>4 DEF Longer
<1> QED
  BY <1>1, <1>2

(* A replacement within the common part is none.                           *)
LEMMA ReplacedPastTheSame ==
  ASSUME NEW a, NEW b, NEW r, NEW s, NEW e \in Nat, NEW m \in Nat, NEW n \in Nat,
         PastTheSame(a, b, r, s, e, m, n)
  PROVE  /\ Replaced(a, b, e + m, e + n) => Same(r, s, m, n) \/ Replaced(r, s, m, n)
         /\ Replaced(r, s, m, n) => Replaced(a, b, e + m, e + n)
<1>1. ASSUME Replaced(a, b, e + m, e + n) PROVE Same(r, s, m, n) \/ Replaced(r, s, m, n)
  <2>1. PICK k \in 1 .. e + m : /\ e + m = e + n
                                /\ \A x \in 1 .. e + m : x = k \/ a[x] = b[x]
    BY <1>1 DEF Replaced
  <2>2. m = n
    BY <2>1
  <2>3. ASSUME NEW x \in 1 .. m, x + e # k PROVE r[x] = s[x]
    <3>1. x + e \in 1 .. e + m
      OBVIOUS
    <3> QED
      BY <2>1, <2>2, <2>3, <3>1 DEF PastTheSame
  <2>4. CASE k <= e
    BY <2>2, <2>3, <2>4 DEF Same
  <2>5. CASE k > e
    <3>1. k - e \in 1 .. m /\ \A x \in 1 .. m : x = k - e \/ x + e # k
      BY <2>5
    <3> QED
      BY <2>2, <2>3, <3>1 DEF Replaced
  <2> QED
    BY <2>4, <2>5
<1>2. ASSUME Replaced(r, s, m, n) PROVE Replaced(a, b, e + m, e + n)
  <2>1. PICK k \in 1 .. m : m = n /\ \A x \in 1 .. m : x = k \/ r[x] = s[x]
    BY <1>2 DEF Replaced
  <2>2. k + e \in 1 .. e + m /\ e + m = e + n
    BY <2>1
  <2>3. ASSUME NEW x \in 1 .. e + m PROVE x = k + e \/ a[x] = b[x]
    <3>1. x \in 1 .. e \/ (x - e \in 1 .. m /\ (x - e) + e = x)
      OBVIOUS
    <3> QED
      BY <2>1, <3>1 DEF PastTheSame
  <2> QED
    BY <2>2, <2>3 DEF Replaced
<1> QED
  BY <1>1, <1>2

(* Nor is a swap within it, or over its end: two equal neighbours.         *)
LEMMA TurnedPastTheSame ==
  ASSUME NEW a, NEW b, NEW r, NEW s, NEW e \in Nat, NEW m \in Nat, NEW n \in Nat,
         PastTheSame(a, b, r, s, e, m, n)
  PROVE  /\ Turned(a, b, e + m, e + n) => Same(r, s, m, n) \/ Turned(r, s, m, n)
         /\ Turned(r, s, m, n) => Turned(a, b, e + m, e + n)
<1>1. ASSUME Turned(a, b, e + m, e + n) PROVE Same(r, s, m, n) \/ Turned(r, s, m, n)
  <2>1. PICK k \in 1 .. (e + m) - 1 :
          /\ e + m = e + n /\ a[k] = b[k + 1] /\ a[k + 1] = b[k]
          /\ \A x \in 1 .. e + m : x = k \/ x = k + 1 \/ a[x] = b[x]
    BY <1>1 DEF Turned
  <2>2. m = n
    BY <2>1
  <2>3. ASSUME NEW x \in 1 .. m, a[x + e] = b[x + e] PROVE r[x] = s[x]
    BY <2>2, <2>3 DEF PastTheSame
  <2>4. CASE k <= e
    <3>1. a[k] = b[k]
      BY <2>4 DEF PastTheSame
    <3>2. a[k + 1] = b[k + 1]
      BY <2>1, <3>1
    <3>3. \A x \in 1 .. m : a[x + e] = b[x + e]
      <4>1. \A x \in 1 .. m : x + e \in 1 .. e + m
        OBVIOUS
      <4> QED
        BY <2>1, <3>1, <3>2, <4>1
    <3> QED
      BY <2>2, <2>3, <3>3 DEF Same
  <2>5. CASE k > e
    <3>1. k - e \in 1 .. m - 1 /\ k - e \in 1 .. m /\ (k - e) + 1 \in 1 .. m
          /\ (k - e) + e = k /\ ((k - e) + 1) + e = k + 1
      BY <2>5
    <3>2. r[k - e] = s[(k - e) + 1] /\ r[(k - e) + 1] = s[k - e]
      BY <2>1, <2>2, <3>1 DEF PastTheSame
    <3>3. ASSUME NEW x \in 1 .. m PROVE x = k - e \/ x = (k - e) + 1 \/ r[x] = s[x]
      <4>1. x + e \in 1 .. e + m /\ (x + e = k => x = k - e)
            /\ (x + e = k + 1 => x = (k - e) + 1)
        OBVIOUS
      <4> QED
        BY <2>1, <2>3, <4>1
    <3> QED
      BY <2>2, <3>1, <3>2, <3>3 DEF Turned
  <2> QED
    BY <2>4, <2>5
<1>2. ASSUME Turned(r, s, m, n) PROVE Turned(a, b, e + m, e + n)
  <2>1. PICK k \in 1 .. m - 1 :
          /\ m = n /\ r[k] = s[k + 1] /\ r[k + 1] = s[k]
          /\ \A x \in 1 .. m : x = k \/ x = k + 1 \/ r[x] = s[x]
    BY <1>2 DEF Turned
  <2>2. /\ k + e \in 1 .. (e + m) - 1 /\ e + m = e + n
        /\ k \in 1 .. m /\ k + 1 \in 1 .. m /\ (k + e) + 1 = (k + 1) + e
    BY <2>1
  <2>3. a[k + e] = b[(k + e) + 1] /\ a[(k + e) + 1] = b[k + e]
    BY <2>1, <2>2 DEF PastTheSame
  <2>4. ASSUME NEW x \in 1 .. e + m PROVE x = k + e \/ x = (k + e) + 1 \/ a[x] = b[x]
    <3>1. x \in 1 .. e \/ (x - e \in 1 .. m /\ (x - e) + e = x)
      OBVIOUS
    <3> QED
      BY <2>1, <2>2, <3>1 DEF PastTheSame
  <2> QED
    BY <2>2, <2>3, <2>4 DEF Turned
<1> QED
  BY <1>1, <1>2

(* So a typing error of the names is one of what they go on with.          *)
LEMMA NearPastTheSame ==
  ASSUME NEW a, NEW b, NEW r, NEW s, NEW e \in Nat, NEW m \in Nat, NEW n \in Nat,
         PastTheSame(a, b, r, s, e, m, n)
  PROVE  Near(a, b, e + m, e + n) <=> Near(r, s, m, n)
<1>1. PastTheSame(b, a, s, r, e, n, m)
  BY DEF PastTheSame
<1>2. Longer(b, a, e + n, e + m) <=> Longer(s, r, n, m)
  BY <1>1, LongerPastTheSame
<1> QED
  BY <1>2, SamePastTheSame, LongerPastTheSame, ReplacedPastTheSame, TurnedPastTheSame DEF Near

(* The place where the shared segments end: none, or the end of a segment  *)
(* in both names, which are the same up to there.                          *)
LEMMA SharedIsCommon ==
  ASSUME NEW X, NEW target \in Seq(X), NEW popular \in Seq(X),
         F!Shared(target, popular) # 0
  PROVE  /\ F!Shared(target, popular) \in Nat \ {0}
         /\ F!Shared(target, popular) \in F!Ends(target) \cap F!Ends(popular)
         /\ \A k \in 1 .. F!Shared(target, popular) - 1 : target[k] = popular[k]
<1> DEFINE n == Len(target) + 1
           common == {i \in F!Ends(target) \cap F!Ends(popular) :
                        \A k \in 1 .. i - 1 : target[k] = popular[k]}
           places == {0} \cup common
           below == {n - i : i \in places}
<1>1. n \in Nat /\ \A i \in F!Ends(target) : i \in 1 .. n
  BY DEF F!Ends
<1>2. common \subseteq 1 .. n
  BY <1>1
<1> HIDE DEF n, common
<1>3. \A i \in places : i \in 0 .. n
  BY <1>1, <1>2
<1>4. below \in SUBSET Nat /\ below # {}
  <2>1. \A i \in places : n - i \in Nat
    BY <1>1, <1>3
  <2>2. n - 0 \in below
    OBVIOUS
  <2> QED
    BY <2>1, <2>2
<1>5. PICK least \in below : \A y \in below : least <= y
  <2> HIDE DEF below
  <2> QED
    BY <1>4, LeastNumber
<1>6. PICK m \in places : least = n - m
  BY <1>5
<1>7. \A y \in places : y <= m
  <2>1. ASSUME NEW y \in places PROVE y <= m
    <3>1. n - m <= n - y
      BY <1>5, <1>6
    <3> QED
      BY <1>1, <1>3, <3>1
  <2> QED
    BY <2>1
<1> HIDE DEF places
<1>8. F!Max(places) \in places
  BY <1>7 DEF F!Max
<1>9. F!Shared(target, popular) = F!Max(places)
  BY DEF F!Shared, places, common
<1>10. F!Shared(target, popular) \in common
  BY <1>8, <1>9 DEF places
<1> QED
  BY <1>1, <1>2, <1>10 DEF common

(* One typing error in the name of a popular package is compared at full   *)
(* similarity wherever it is, and in names of one family nothing else is:  *)
(* whatever the length and the segments of two names that do not end in a  *)
(* dash, which the schema of a package name excludes (features.py,         *)
(* _namespaced_ratio and _edit_distance; schemas.py:60).                   *)
THEOREM EveryTypoIsSeen ==
  ASSUME NEW X, NEW target \in Seq(X), NEW popular \in Seq(X),
         target # <<>> => target[Len(target)] # "-",
         popular # <<>> => popular[Len(popular)] # "-"
  PROVE  F!TyposAreSeen(target, popular)
<1> DEFINE e == F!Shared(target, popular)
           r == F!Rest(target, e)
           s == F!Rest(popular, e)
<1>1. CASE e = 0
  BY <1>1 DEF F!TyposAreSeen, F!Compared
<1>2. CASE e # 0
  <2>1. /\ e \in Nat \ {0} /\ e \in F!Ends(target) /\ e \in F!Ends(popular)
        /\ \A k \in 1 .. e - 1 : target[k] = popular[k]
    BY <1>2, SharedIsCommon
  <2> HIDE DEF e
  <2>2. F!OneTypo(target, popular) <=> Near(target, popular, Len(target), Len(popular))
    BY TypoIsNear
  <2>3. /\ e = Len(target) + 1 \/ (e \in 1 .. Len(target) - 1 /\ target[e] = "-")
        /\ e = Len(popular) + 1 \/ (e \in 1 .. Len(popular) - 1 /\ popular[e] = "-")
    BY <2>1 DEF F!Ends
  <2>4. /\ r \in Seq(X) /\ Len(r) = (IF e < Len(target) THEN Len(target) - e ELSE 0)
        /\ \A x \in 1 .. Len(r) : target[x + e] = r[x]
    BY <2>1 DEF F!Rest
  <2>5. /\ s \in Seq(X) /\ Len(s) = (IF e < Len(popular) THEN Len(popular) - e ELSE 0)
        /\ \A x \in 1 .. Len(s) : popular[x + e] = s[x]
    BY <2>1 DEF F!Rest
  <2>6. F!Compared(target, popular) = IF r = <<>> \/ s = <<>> THEN "nothing"
                                      ELSE IF F!EditDistance(r, s) <= 1 THEN "whole" ELSE "rests"
    BY <2>1 DEF F!Compared, e
  <2> HIDE DEF r, s
  <2>7. CASE e = Len(target) + 1 /\ e = Len(popular) + 1
    <3>1. target = popular
      BY <2>1, <2>7, SameSeqs
    <3> QED
      BY <3>1 DEF F!TyposAreSeen
  <2>8. CASE \/ e = Len(target) + 1 /\ e \in 1 .. Len(popular) - 1
             \/ e = Len(popular) + 1 /\ e \in 1 .. Len(target) - 1
    <3>1. r = <<>> \/ s = <<>>
      <4>1. Len(r) = 0 \/ Len(s) = 0
        BY <2>1, <2>4, <2>5, <2>8
      <4> QED
        BY <2>4, <2>5, <4>1
    <3>2. ~ Near(target, popular, Len(target), Len(popular))
      <4>1. /\ Len(target) # Len(popular) /\ Len(target) # Len(popular) + 1
            /\ Len(popular) # Len(target) + 1
        BY <2>8
      <4> QED
        BY <4>1 DEF Near, Same, Longer, Replaced, Turned
    <3> QED
      BY <2>2, <2>6, <3>1, <3>2 DEF F!TyposAreSeen
  <2>9. CASE /\ e \in 1 .. Len(target) - 1 /\ target[e] = "-"
             /\ e \in 1 .. Len(popular) - 1 /\ popular[e] = "-"
    <3>1. /\ Len(r) \in Nat \ {0} /\ e + Len(r) = Len(target)
          /\ Len(s) \in Nat \ {0} /\ e + Len(s) = Len(popular)
      BY <2>4, <2>5, <2>9
    <3>2. r # <<>> /\ s # <<>>
      BY <2>4, <2>5, <3>1
    <3>3. \A x \in 1 .. e : target[x] = popular[x]
      <4>1. \A x \in 1 .. e : x \in 1 .. e - 1 \/ x = e
        BY <2>1
      <4> QED
        BY <2>1, <2>9, <4>1
    <3>4. PastTheSame(target, popular, r, s, e, Len(r), Len(s))
      BY <2>4, <2>5, <3>3 DEF PastTheSame
    <3>5. Near(target, popular, Len(target), Len(popular)) <=> Near(r, s, Len(r), Len(s))
      BY <2>1, <3>1, <3>4, NearPastTheSame
    <3>6. F!EditDistance(r, s) <= 1 <=> Near(r, s, Len(r), Len(s))
      BY <2>4, <2>5, DistanceTells
    <3> QED
      BY <2>2, <2>6, <3>2, <3>5, <3>6 DEF F!TyposAreSeen
  <2> QED
    BY <2>3, <2>7, <2>8, <2>9
<1> QED
  BY <1>1, <1>2

-----------------------------------------------------------------------------
(* The inputs that are walked over are among those the theorems speak of.  *)

Inputs ==
  /\ subject = "burst"    => input \in Seq(Nat)
  /\ subject = "typo"     =>
       /\ input \in Seq({"a", "b", "-"}) \X Seq({"a", "b", "-"})
       /\ \A i \in {1, 2} : input[i] # <<>> => input[i][Len(input[i])] # "-"
  /\ subject = "download" => input \in Int \X Int \X Seq(Nat)
  /\ subject = "archive"  => input \in {"tar", "zip", "other"} \X Seq(L!Members)
  /\ subject = "body"     => input \in (Nat \cup {L!Unsaid, L!NotANumber}) \X Seq(Nat)
  /\ subject = "budget"   => input \in Seq(B!Files)
  /\ subject = "guard"    => input \in Seq(P!Tokens) \X Seq(P!Lines)
  /\ subject = "hook"     => input \in HookFiles({"A", "B", "other"})
  /\ subject = "pth"      =>
       /\ input \in Seq(H!Parts) \X BOOLEAN \X Seq(H!Lines)
       /\ input[1] # <<>> /\ input[1][Len(input[1])] = "x.pth"

LEMMA SeqOfIsSeq ==
  ASSUME NEW X, NEW Y, X \subseteq Y, NEW n \in Nat
  PROVE  SeqOf(X, n) \subseteq Seq(Y)
BY DEF SeqOf

LEMMA InputsFromTheStart == Init => Inputs
BY DEF Init, Inputs

LEMMA InputsAlways == Inputs /\ [Next]_vars => Inputs'
<1> SUFFICES ASSUME Inputs, [Next]_vars PROVE Inputs'
  OBVIOUS
<1> USE DEF Chooses
<1>1. CASE Downloads
  <2>1. Chunks \subseteq Seq(Nat)
    BY SeqOfIsSeq DEF Chunks
  <2>2. {0, 5, 6} \subseteq Int /\ {L!Unsaid, 0, 5, 6} \subseteq Int
    BY DEF L!Unsaid
  <2>3. subject' = "download" /\ input' \in {0, 5, 6} \X {L!Unsaid, 0, 5, 6} \X Chunks
    BY <1>1 DEF Downloads
  <2> QED
    BY <2>1, <2>2, <2>3 DEF Inputs
<1>2. CASE Archives
  <2>1. Member \subseteq L!Members
    BY DEF Member, L!Members
  <2>2. SeqOf(Member, 3) \subseteq Seq(L!Members)
    BY <2>1, SeqOfIsSeq
  <2>3. subject' = "archive" /\ input' \in {"tar", "zip", "other"} \X SeqOf(Member, 3)
    BY <1>2 DEF Archives
  <2> QED
    BY <2>2, <2>3 DEF Inputs
<1>3. CASE Bodies
  <2>1. Chunks \subseteq Seq(Nat)
    BY SeqOfIsSeq DEF Chunks
  <2>2. subject' = "body" /\ input' \in {L!Unsaid, L!NotANumber, 0, 3, 4, 5} \X Chunks
    BY <1>3 DEF Bodies
  <2> QED
    BY <2>1, <2>2 DEF Inputs
<1>4. CASE Commands
  <2>1. SeqOf(P!Tokens, 4) \subseteq Seq(P!Tokens) /\ SeqOf(P!Lines, 2) \subseteq Seq(P!Lines)
    BY SeqOfIsSeq
  <2>2. subject' = "guard" /\ input' \in SeqOf(P!Tokens, 4) \X SeqOf(P!Lines, 2)
    BY <1>4 DEF Commands
  <2> QED
    BY <2>1, <2>2 DEF Inputs
<1>5. CASE Overrides
  <2> DEFINE names == {"A", "B", "other"}
  <2>1. Entry \subseteq [command : H!Commands, class : names]
    BY DEF Entry
  <2>2. Class \subseteq [name : names, calls : SUBSET H!Calls]
    BY DEF Class
  <2>3. /\ SeqOf(Entry, 2) \subseteq Seq([command : H!Commands, class : names])
        /\ SeqOf(Class, 2) \subseteq Seq([name : names, calls : SUBSET H!Calls])
    BY <2>1, <2>2, SeqOfIsSeq
  <2>4. subject' = "hook"
        /\ \E e \in SeqOf(Entry, 2), c \in SeqOf(Class, 2) :
             input' = [cmdclass |-> e, classes |-> c]
    BY <1>5 DEF Overrides
  <2> HIDE DEF names
  <2>5. input' \in HookFiles(names)
    <3>1. PICK e \in SeqOf(Entry, 2), c \in SeqOf(Class, 2) :
            input' = [cmdclass |-> e, classes |-> c]
      BY <2>4
    <3>2. /\ e \in Seq([command : H!Commands, class : names])
          /\ c \in Seq([name : names, calls : SUBSET H!Calls])
      BY <2>3
    <3>3. [cmdclass |-> e, classes |-> c] \in HookFiles(names)
      BY <3>2, Zenon DEF HookFiles
    <3> QED
      BY <3>1, <3>3
  <2> QED
    BY <2>4, <2>5 DEF Inputs, names
<1>6. CASE Pths
  <2>1. SeqOf(H!Parts \ {"x.pth"}, 3) \subseteq Seq(H!Parts)
        /\ SeqOf(H!Lines, 2) \subseteq Seq(H!Lines)
    BY SeqOfIsSeq
  <2>2. subject' = "pth" /\ input' \in Paths \X BOOLEAN \X SeqOf(H!Lines, 2)
    BY <1>6 DEF Pths
  <2>3. ASSUME NEW path \in Paths
        PROVE  path \in Seq(H!Parts) /\ path # <<>> /\ path[Len(path)] = "x.pth"
    <3>1. PICK dirs \in SeqOf(H!Parts \ {"x.pth"}, 3) : path = Append(dirs, "x.pth")
      BY DEF Paths
    <3>2. dirs \in Seq(H!Parts) /\ "x.pth" \in H!Parts
      BY <2>1, <3>1 DEF H!Parts
    <3> QED
      BY <3>1, <3>2
  <2>4. input'[1] \in Paths /\ input' \in Seq(H!Parts) \X BOOLEAN \X Seq(H!Lines)
    BY <2>1, <2>2, <2>3
  <2> QED
    BY <2>2, <2>3, <2>4 DEF Inputs
<1>9. CASE Budgeted
  <2>1. AnyFile \subseteq B!Files /\ SmallFile \subseteq B!Files
    <3>1. ASSUME NEW f \in AnyFile PROVE f \in B!Files
      <4>1. f \in [depth : {1, 2}, place : B!Places, entry : BOOLEAN, size : B!Sizes,
                   readable : BOOLEAN, cost : Nat]
        BY DEF AnyFile
      <4> QED
        BY <4>1 DEF B!Files
    <3>2. ASSUME NEW f \in SmallFile PROVE f \in B!Files
      <4>1. {1, 2} \subseteq Nat /\ {1, 3} \subseteq Nat /\ {FALSE} \subseteq BOOLEAN
            /\ {TRUE} \subseteq BOOLEAN /\ {"small", "medium"} \subseteq B!Sizes
            /\ {"code"} \subseteq B!Places
        BY DEF B!Sizes, B!Places
      <4> QED
        BY <4>1, Zenon DEF SmallFile, B!Files
    <3> QED
      BY <3>1, <3>2
  <2>2. SeqOf(AnyFile, 2) \subseteq Seq(B!Files) /\ SeqOf(SmallFile, 4) \subseteq Seq(B!Files)
    BY <2>1, SeqOfIsSeq
  <2>3. subject' = "budget" /\ input' \in SeqOf(AnyFile, 2) \cup SeqOf(SmallFile, 4)
    BY <1>9 DEF Budgeted
  <2> QED
    BY <2>2, <2>3 DEF Inputs
<1>10. CASE Bursts
  <2>1. SeqOf({0, 12, 24, 25, 48, 49}, 5) \subseteq Seq(Nat)
    BY SeqOfIsSeq
  <2>2. [1 .. 7 -> {0, 24, 25, 60, 100}] \subseteq Seq(Nat)
    <3>1. [1 .. 7 -> {0, 24, 25, 60, 100}] \subseteq [1 .. 7 -> Nat]
      OBVIOUS
    <3>2. [1 .. 7 -> Nat] \subseteq Seq(Nat)
      <4>1. ASSUME NEW d \in [1 .. 7 -> Nat] PROVE d \in Seq(Nat)
        <5>1. d = [i \in 1 .. 7 |-> d[i]] /\ \A i \in 1 .. 7 : d[i] \in Nat
          OBVIOUS
        <5> QED
          BY <5>1
      <4> QED
        BY <4>1
    <3> QED
      BY <3>1, <3>2
  <2>3. subject' = "burst"
        /\ input' \in SeqOf({0, 12, 24, 25, 48, 49}, 5) \cup [1 .. 7 -> {0, 24, 25, 60, 100}]
    BY <1>10 DEF Bursts
  <2> QED
    BY <2>1, <2>2, <2>3 DEF Inputs
<1>11. CASE Typos
  <2>1. ASSUME NEW w \in Names
        PROVE  w \in Seq({"a", "b", "-"}) /\ (w # <<>> => w[Len(w)] # "-")
    <3>1. w \in Seq({"a", "b", "-"}) /\ Name(w)
      <4>1. SeqOf({"a", "b", "-"}, 5) \subseteq Seq({"a", "b", "-"})
        BY SeqOfIsSeq
      <4> QED
        BY <4>1 DEF Names
    <3>2. w # <<>> => Len(w) \in DOMAIN w /\ Len(w) \notin 2 .. Len(w) - 1
      BY <3>1
    <3> QED
      BY <3>1, <3>2 DEF Name
  <2>2. subject' = "typo" /\ input' \in Names \X Names
    BY <1>11 DEF Typos
  <2>3. input'[1] \in Names /\ input'[2] \in Names /\ input' = <<input'[1], input'[2]>>
    BY <2>2
  <2> QED
    BY <2>1, <2>2, <2>3 DEF Inputs
<1>7. CASE \/ Scripts \/ Modules \/ Decodings
  BY <1>7 DEF Scripts, Modules, Decodings, Inputs
<1>8. CASE UNCHANGED vars
  BY <1>8 DEF Inputs, vars
<1> QED
  BY <1>1, <1>2, <1>3, <1>4, <1>5, <1>6, <1>7, <1>8, <1>9, <1>10, <1>11 DEF Next

(* The limits on downloads, archives and bodies hold of every input that   *)
(* is walked over, whatever the limits are (pypi.py, main.py).             *)
THEOREM LimitsAlwaysHold == Spec => []LimitsHold
<1>1. Inputs => LimitsHold
  <2> SUFFICES ASSUME Inputs PROVE LimitsHold
    OBVIOUS
  <2>1. ASSUME subject = "download" PROVE L!DownloadHolds(input[1], input[2], input[3])
    BY <2>1, EveryDownloadHolds DEF Inputs
  <2>2. ASSUME subject = "archive" PROVE L!ExtractHolds(input[1], input[2])
    BY <2>2, EveryExtractHolds DEF Inputs
  <2>3. ASSUME subject = "body" PROVE L!BodyHolds(input[1], input[2])
    <3>1. input[1] \in Nat \cup {L!Unsaid, L!NotANumber} /\ input[2] \in Seq(Nat)
      BY <2>3 DEF Inputs
    <3> QED
      BY <3>1, EveryBodyHolds
  <2> QED
    BY <2>1, <2>2, <2>3 DEF LimitsHold
<1> QED
  BY <1>1, InputsFromTheStart, InputsAlways, PTL DEF Spec

(* The burst is found, and only the burst (features.py, has_release_burst). *)
THEOREM BurstIsAlwaysDense == Spec => []BurstIsDense
<1>1. Inputs => BurstIsDense
  BY EveryBurstIsDense DEF Inputs, BurstIsDense
<1> QED
  BY <1>1, InputsFromTheStart, InputsAlways, PTL DEF Spec

(* A typing error is compared at full similarity, wherever it is and       *)
(* whatever the names share (features.py, _namespaced_ratio).              *)
THEOREM TyposAreAlwaysSeen == Spec => []TyposAreSeen
<1>1. Inputs => TyposAreSeen
  <2> SUFFICES ASSUME Inputs, subject = "typo"
               PROVE  F!TyposAreSeen(input[1], input[2])
    BY DEF TyposAreSeen
  <2>1. input[1] \in Seq({"a", "b", "-"}) /\ input[2] \in Seq({"a", "b", "-"})
    BY DEF Inputs
  <2>2. /\ input[1] # <<>> => input[1][Len(input[1])] # "-"
        /\ input[2] # <<>> => input[2][Len(input[2])] # "-"
    BY DEF Inputs
  <2> QED
    BY <2>1, <2>2, EveryTypoIsSeen
<1> QED
  BY <1>1, InputsFromTheStart, InputsAlways, PTL DEF Spec

(* Every file is read by a layer or told by one (scan.py, _run_bandit).     *)
THEOREM SkippedIsAlwaysTold == Spec => []SkippedIsTold
<1>1. Inputs => SkippedIsTold
  BY EverySkippedIsTold DEF Inputs, SkippedIsTold
<1> QED
  BY <1>1, InputsFromTheStart, InputsAlways, PTL DEF Spec

(* guard scans or tells every argument of every command (su_scan.py).      *)
THEOREM GuardAlwaysAccounts == Spec => []GuardAccounts
<1>1. Inputs => GuardAccounts
  BY EveryArgumentIsAccountedFor DEF Inputs, GuardAccounts
<1> QED
  BY <1>1, InputsFromTheStart, InputsAlways, PTL DEF Spec

(* Hooks and .pth files are graded by what they run (install_hooks.py).    *)
THEOREM HooksAreAlwaysGraded == Spec => []HooksAreGraded
<1>1. Inputs => HooksAreGraded
  <2> SUFFICES ASSUME Inputs PROVE HooksAreGraded
    OBVIOUS
  <2>1. ASSUME subject = "hook" PROVE H!HookIsGraded(input)
    BY <2>1, EveryHookIsGraded DEF Inputs
  <2>2. ASSUME subject = "pth" PROVE H!PthIsGraded(input[1], input[2], input[3])
    <3>1. /\ input[1] \in Seq(H!Parts) /\ input[1] # <<>> /\ input[1][Len(input[1])] = "x.pth"
          /\ input[2] \in BOOLEAN /\ input[3] \in Seq(H!Lines)
      BY <2>2 DEF Inputs
    <3> QED
      BY <3>1, EveryPthIsGraded
  <2> QED
    BY <2>1, <2>2 DEF HooksAreGraded
<1> QED
  BY <1>1, InputsFromTheStart, InputsAlways, PTL DEF Spec
=============================================================================
