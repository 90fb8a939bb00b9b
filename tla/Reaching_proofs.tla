--------------------------- MODULE Reaching_proofs ---------------------------
(***************************************************************************)
(* The two searches that follow the calls of a file's functions: into what *)
(* is run at installation, and back to what decodes.  Each is an iteration *)
(* that ends when nothing is added, and each finds what is reachable,      *)
(* whatever number of functions there is and however they call each other. *)
(***************************************************************************)
EXTENDS Algorithms_proofs

(* An iteration that only adds has one result: any two functions that      *)
(* satisfy its equation agree.                                             *)
Grows(X, next) ==
  next \in [SUBSET X -> SUBSET X] /\ \A s \in SUBSET X : s \subseteq next[s]
Iterates(X, next, f) ==
  \A s \in SUBSET X : f[s] = IF next[s] = s THEN s ELSE f[next[s]]

LEMMA OneResult ==
  ASSUME NEW X, IsFiniteSet(X), NEW next, Grows(X, next),
         NEW f, Iterates(X, next, f), NEW g, Iterates(X, next, g)
  PROVE  \A s \in SUBSET X : f[s] = g[s]
<1> USE DEF Grows, Iterates
<1> DEFINE Left(s) == Cardinality(X \ s)
           S == {k \in Nat : \A s \in SUBSET X : Left(s) <= k => f[s] = g[s]}
<1>1. ASSUME NEW s \in SUBSET X
      PROVE  /\ Left(s) \in Nat
             /\ next[s] # s => Left(next[s]) < Left(s)
  <2>1. IsFiniteSet(X \ s) /\ Left(s) \in Nat
    BY FS_Difference, FS_CardinalityType
  <2>2. ASSUME next[s] # s PROVE Left(next[s]) < Left(s)
    <3>1. X \ next[s] \in SUBSET (X \ s) /\ X \ next[s] # X \ s
      BY <2>2
    <3>2. /\ Left(next[s]) <= Left(s)
          /\ Left(s) = Left(next[s]) => X \ s = X \ next[s]
      BY <2>1, <3>1, FS_Subset
    <3>3. IsFiniteSet(X \ next[s]) /\ Left(next[s]) \in Nat
      BY FS_Difference, FS_CardinalityType
    <3> HIDE DEF Left
    <3> QED
      BY <2>1, <3>1, <3>2, <3>3
  <2> QED
    BY <2>1, <2>2
<1> HIDE DEF Left
<1>2. 0 \in S
  <2>1. ASSUME NEW s \in SUBSET X, Left(s) <= 0 PROVE f[s] = g[s]
    <3>1. next[s] = s
      BY <1>1, <2>1, next[s] \in SUBSET X
    <3> QED
      BY <3>1
  <2> QED
    BY <2>1
<1>3. ASSUME NEW k \in Nat, k \in S PROVE k + 1 \in S
  <2>1. ASSUME NEW s \in SUBSET X, Left(s) <= k + 1 PROVE f[s] = g[s]
    <3>1. CASE next[s] = s
      BY <3>1
    <3>2. CASE next[s] # s
      <4>1. next[s] \in SUBSET X /\ Left(next[s]) <= k
        BY <1>1, <2>1, <3>2, next[s] \in SUBSET X
      <4>2. f[next[s]] = g[next[s]]
        BY <1>3, <4>1
      <4> QED
        BY <3>2, <4>2
    <3> QED
      BY <3>1, <3>2
  <2> QED
    BY <2>1
<1>4. Nat \subseteq S
  <2> HIDE DEF S
  <2> QED
    BY <1>2, <1>3, Induction
<1> QED
  <2> TAKE s \in SUBSET X
  <2>1. Left(s) \in S /\ Left(s) <= Left(s)
    BY <1>1, <1>4
  <2> QED
    BY <2>1

-----------------------------------------------------------------------------
(* InstallTime.                                                            *)

(* The sets of functions that hold all that is called from the roots and   *)
(* from themselves.                                                        *)
Holding(file, roots) ==
  {S \in SUBSET Functions : T!Stated(file, roots \cup S) \cap Functions \subseteq S}

(* _follow_local_calls adds a function only if it is called, and ends when *)
(* none is left: the scope is what the roots reach.                        *)
LEMMA FollowReaches ==
  ASSUME NEW file \in T!Files, NEW scope \in SUBSET T!Bodies
  PROVE  T!Follow(file, scope) = T!Reached(file, scope)
<1> DEFINE todo(done) == (T!Stated(file, scope \cup done) \cap Functions) \ done
           next == [done \in SUBSET Functions |->
                      IF todo(done) = {} THEN done
                      ELSE done \cup {CHOOSE fn \in todo(done) : TRUE}]
           Solves(f) == f = [done \in SUBSET Functions |->
                               IF todo(done) = {} THEN done
                               ELSE f[done \cup {CHOOSE fn \in todo(done) : TRUE}]]
           more == CHOOSE f : Solves(f)
           closed == Holding(file, scope)
           least == [done \in SUBSET Functions |->
                       {fn \in Functions : \A S \in closed : done \subseteq S => fn \in S}]
<1>1. ASSUME NEW a, NEW b, a \subseteq b PROVE T!Stated(file, a) \subseteq T!Stated(file, b)
  BY <1>1 DEF T!Stated
<1>2. ASSUME NEW done \in SUBSET Functions
      PROVE  /\ next[done] \in SUBSET Functions /\ done \subseteq next[done]
             /\ next[done] = done <=> todo(done) = {}
             /\ todo(done) # {} =>
                  next[done] = done \cup {CHOOSE fn \in todo(done) : TRUE}
             /\ \A S \in closed : done \subseteq S => next[done] \subseteq S
             /\ done \in closed <=> todo(done) = {}
  <2>1. todo(done) \subseteq Functions /\ done \cap todo(done) = {}
    OBVIOUS
  <2>2. ASSUME NEW S \in closed, done \subseteq S PROVE todo(done) \subseteq S
    <3>1. T!Stated(file, scope \cup done) \subseteq T!Stated(file, scope \cup S)
      BY <1>1, <2>2
    <3> QED
      BY <3>1 DEF Holding
  <2>3. done \in closed <=> todo(done) = {}
    BY DEF Holding
  <2>4. next[done] = IF todo(done) = {} THEN done
                     ELSE done \cup {CHOOSE fn \in todo(done) : TRUE}
    OBVIOUS
  <2> HIDE DEF next, todo, closed
  <2>5. CASE todo(done) = {}
    BY <2>3, <2>4, <2>5
  <2>6. CASE todo(done) # {}
    <3> DEFINE fn == CHOOSE fn \in todo(done) : TRUE
    <3>1. fn \in todo(done)
      BY <2>6
    <3>2. next[done] = done \cup {fn}
      BY <2>4, <2>6
    <3> HIDE DEF fn
    <3> QED
      BY <2>1, <2>2, <2>3, <2>6, <3>1, <3>2 DEF fn
  <2> QED
    BY <2>5, <2>6
<1>3. next \in [SUBSET Functions -> SUBSET Functions]
  <2>1. \A done \in SUBSET Functions : next[done] \in SUBSET Functions
    BY <1>2
  <2> HIDE DEF todo
  <2> QED
    BY <2>1
<1>4. ASSUME NEW done \in SUBSET Functions
      PROVE  least[done] = IF next[done] = done THEN done ELSE least[next[done]]
  <2> HIDE DEF next, todo, closed
  <2>1. CASE next[done] = done
    BY <1>2, <2>1
  <2>2. CASE next[done] # done
    <3>1. \A S \in closed : done \subseteq S <=> next[done] \subseteq S
      BY <1>2
    <3> QED
      BY <1>2, <2>2, <3>1
  <2> QED
    BY <2>1, <2>2
<1>5. Solves(more)
  <2>1. ASSUME NEW done \in SUBSET Functions
        PROVE  least[done] = IF todo(done) = {} THEN done
                             ELSE least[done \cup {CHOOSE fn \in todo(done) : TRUE}]
    <3> HIDE DEF next, least, todo
    <3> QED
      BY <1>2, <1>4
  <2>2. least = [done \in SUBSET Functions |-> least[done]]
    OBVIOUS
  <2>3. Solves(least)
    <3> HIDE DEF least, todo
    <3> QED
      BY <2>1, <2>2
  <2>4. \E f : Solves(f)
    BY <2>3
  <2> HIDE DEF Solves
  <2> QED
    BY <2>4
<1>6. T!Follow(file, scope) = scope \cup more[{}]
  BY DEF T!Follow
<1>7. ASSUME NEW done \in SUBSET Functions
      PROVE  more[done] = IF next[done] = done THEN done ELSE more[next[done]]
  <2>1. more[done] = IF todo(done) = {} THEN done
                     ELSE more[done \cup {CHOOSE fn \in todo(done) : TRUE}]
    <3> HIDE DEF more, todo
    <3> QED
      BY <1>5
  <2>2. /\ next[done] = done <=> todo(done) = {}
        /\ todo(done) # {} => next[done] = done \cup {CHOOSE fn \in todo(done) : TRUE}
    BY <1>2
  <2> HIDE DEF more, todo, next
  <2> QED
    BY <2>1, <2>2, Zenon
<1>8. IsFiniteSet(Functions)
  BY NamesAssumption
<1>9. more[{}] = least[{}]
  <2> HIDE DEF more, next, least
  <2>1. /\ Grows(Functions, next)
        /\ Iterates(Functions, next, more) /\ Iterates(Functions, next, least)
    BY <1>2, <1>3, <1>4, <1>7 DEF Grows, Iterates
  <2>2. \A s \in SUBSET Functions : more[s] = least[s]
    BY <1>8, <2>1, OneResult
  <2>3. {} \in SUBSET Functions
    OBVIOUS
  <2> QED
    BY <2>2, <2>3, Zenon
<1>10. T!Reached(file, scope) = scope \cup least[{}]
  <2>1. Functions \in closed /\ Functions \subseteq T!Bodies
    BY DEF Holding, T!Bodies
  <2>2. T!Reached(file, scope) = {b \in T!Bodies : \A S \in closed : b \in scope \cup S}
    BY DEF T!Reached, Holding
  <2>3. least[{}] = {fn \in Functions : \A S \in closed : fn \in S}
    OBVIOUS
  <2> HIDE DEF closed, least
  <2> QED
    BY <2>1, <2>2, <2>3
<1> QED
  BY <1>6, <1>9, <1>10

(* What lies beside the setup.py: the local module, as a file or a package. *)
Beside == LET read == T!Files \cup {Absent, Broken} IN [file : read, package : read]

(* For any functions, however they call each other, and whatever lies      *)
(* beside the file: the rule of install time looks at exactly what runs    *)
(* (install_time.py, install_time_exec).                                   *)
THEOREM EveryScopeIsWhatRuns ==
  ASSUME NEW p \in T!Places, NEW file \in T!Files, NEW tree \in Beside
  PROVE  T!ScopeIsWhatRuns(p, file, tree)
<1>1. \A scope \in SUBSET T!Bodies : T!Follow(file, scope) = T!Reached(file, scope)
  BY FollowReaches
<1>2. {"top"} \in SUBSET T!Bodies /\ {"top", "main"} \in SUBSET T!Bodies
      /\ {"hook"} \in SUBSET T!Bodies
  BY DEF T!Bodies
<1>3. T!Follow(file, {"top", "main"}) \cup T!Follow(file, {"hook"})
        = T!Reached(file, {"top", "main", "hook"})
  <2> DEFINE a == {"top", "main"}
             b == {"hook"}
             all == {"top", "main", "hook"}
  <2>1. \A S \in SUBSET Functions :
          T!Stated(file, all \cup S) = T!Stated(file, a \cup S) \cup T!Stated(file, b \cup S)
    BY DEF T!Stated
  <2>2. T!Reached(file, a) \cup T!Reached(file, b) \subseteq T!Reached(file, all)
    BY <2>1 DEF T!Reached
  <2>3. T!Reached(file, all) \subseteq T!Reached(file, a) \cup T!Reached(file, b)
    <3> SUFFICES ASSUME NEW x \in T!Reached(file, all),
                        NEW S \in Holding(file, a), x \notin a \cup S,
                        NEW R \in Holding(file, b), x \notin b \cup R
                 PROVE  FALSE
      BY DEF T!Reached, Holding
    <3>1. S \cup R \in SUBSET Functions
      BY DEF Holding
    <3>2. T!Stated(file, all \cup (S \cup R)) = T!Stated(file, a \cup S) \cup T!Stated(file, b \cup R)
      BY DEF T!Stated
    <3>3. T!Stated(file, all \cup (S \cup R)) \cap Functions \subseteq S \cup R
      BY <3>2 DEF Holding
    <3> QED
      BY <3>1, <3>3 DEF T!Reached
  <2> HIDE DEF all
  <2> QED
    BY <1>1, <1>2, <2>2, <2>3 DEF all
<1> DEFINE scope == T!Reached(file, {"top", "main", "hook"})
           stated == T!Stated(file, scope)
           m == T!Chosen(tree)
           called == IF "import_f" \in stated THEN {"f"} ELSE {}
           none == stated \cap {"import", "import_f"} = {} \/ m \in {Absent, Broken}
<1>4. called \in SUBSET Functions /\ {"top"} \cup called \in SUBSET T!Bodies
  BY NamesAssumption DEF T!Bodies
<1>5. m \notin {Absent, Broken} => m \in T!Files
  BY DEF T!Chosen, Beside
<1>6. T!ModuleScope(tree, stated) = IF none THEN {} ELSE T!Reached(m, {"top"} \cup called)
  <2>1. CASE none
    BY <2>1 DEF T!ModuleScope
  <2>2. CASE ~none
    <3>1. T!Follow(m, {"top"} \cup called) = T!Reached(m, {"top"} \cup called)
      BY <1>4, <1>5, <2>2, FollowReaches
    <3> QED
      BY <2>2, <3>1 DEF T!ModuleScope
  <2> QED
    BY <2>1, <2>2
<1>7. T!IsInstallScript(p) =>
        T!Looked(p, file, tree) =
          T!Own(scope) \cup (IF none THEN {} ELSE {"module"} \X T!Reached(m, {"top"} \cup called))
  <2>1. T!IsInstallScript(p) =>
          T!Looked(p, file, tree) = T!Own(scope) \cup ({"module"} \X T!ModuleScope(tree, stated))
    BY <1>3 DEF T!Looked
  <2>2. {"module"} \X {} = {}
    OBVIOUS
  <2> HIDE DEF scope, stated, none, m, called
  <2> QED
    BY <1>6, <2>1, <2>2
<1>8. ASSUME T!IsInstallScript(p), Absent \in {tree.file, tree.package}
      PROVE  T!Looked(p, file, tree) = T!RunsAtInstall(file, tree)
  <2>1. T!Imported(tree) = m
    BY <1>8 DEF T!Imported, T!Chosen
  <2>2. T!RunsAtInstall(file, tree) =
          T!Own(scope) \cup (IF none THEN {} ELSE {"module"} \X T!Reached(m, {"top"} \cup called))
    <3> HIDE DEF scope, m
    <3> QED
      BY <2>1 DEF T!RunsAtInstall, scope
  <2> QED
    BY <1>7, <1>8, <2>2
<1>9. ~T!IsInstallScript(p) => T!Looked(p, file, tree) \in {{}, T!Own(T!Reached(file, {"top"}))}
  BY <1>1, <1>2 DEF T!Looked
<1>10. ASSUME p.name = "setup.py", p.setup, ~p.in_tests
       PROVE  T!Own(T!Reached(file, {"top"})) \subseteq T!Looked(p, file, tree)
  <2>1. CASE T!IsInstallScript(p)
    <3>1. T!Reached(file, {"top"}) \subseteq scope
      BY DEF T!Reached, T!Stated
    <3> QED
      BY <1>7, <2>1, <3>1 DEF T!Own
  <2>2. CASE ~T!IsInstallScript(p)
    <3>1. T!IsPackageModule(p)
      BY <1>10 DEF T!IsPackageModule, T!IsTestFile
    <3> QED
      BY <1>1, <1>2, <2>2, <3>1 DEF T!Looked
  <2> QED
    BY <2>1, <2>2
<1> QED
  BY <1>8, <1>9, <1>10 DEF T!ScopeIsWhatRuns

-----------------------------------------------------------------------------
(* Decoders.                                                               *)

(* A module whose order lists all of its functions. *)
Parsed == {m \in D!Modules : D!ToSet(m.order) = Functions}

(* What the k-th function adds to what is known when its turn comes. *)
Learns(m, known, k) ==
  IF D!Direct(m.bodies[m.order[k]], known) THEN known \cup {m.order[k]} ELSE known

(* A turn goes through the functions one by one. *)
LEMMA TurnRuns ==
  ASSUME NEW m \in Parsed, NEW local \in SUBSET Functions
  PROVE  \E run :
           /\ run \in [0 .. Len(m.order) -> SUBSET Functions]
           /\ run[0] = local
           /\ \A k \in 1 .. Len(m.order) : run[k] = Learns(m, run[k - 1], k)
           /\ run[Len(m.order)] = D!Turn(m, local)
<1> DEFINE n == Len(m.order)
           V == SUBSET Functions
           step == [p \in V \X (1 .. n) |-> Learns(m, p[1], p[2])]
           Solves(f) == f = [s \in SUBSET DOMAIN m.order |->
                               IF s = {} THEN local
                               ELSE Learns(m, f[s \ {D!Max(s)}], D!Max(s))]
           iter == CHOOSE f : Solves(f)
<1>1. n \in Nat /\ DOMAIN m.order = 1 .. n /\ \A k \in 1 .. n : m.order[k] \in Functions
  <2>1. m.order \in Seq(Functions)
    BY DEF Parsed, D!Modules
  <2> QED
    BY <2>1
<1>2. \A s : D!Max(s) = Greatest(s)
  BY DEF D!Max, Greatest
<1>3. step \in [V \X (1 .. n) -> V]
  <2>1. ASSUME NEW x \in V, NEW k \in 1 .. n PROVE Learns(m, x, k) \in V
    BY <1>1 DEF Learns
  <2> QED
    BY <2>1
<1>4. \A x \in V, k \in 1 .. n : step[<<x, k>>] = Learns(m, x, k)
  OBVIOUS
<1>5. local \in V
  OBVIOUS
<1> HIDE DEF step, V, n
<1>6. \E f : Solves(f)
  <2>1. PICK f \in [SUBSET (1 .. n) -> V] : Folds(f, n, local, step)
    BY <1>1, <1>3, <1>5, FoldExists
  <2>2. ASSUME NEW s \in SUBSET (1 .. n), s # {}
        PROVE  step[<<f[s \ {Greatest(s)}], Greatest(s)>>]
                 = Learns(m, f[s \ {D!Max(s)}], D!Max(s))
    <3>1. Greatest(s) \in 1 .. n /\ f[s \ {Greatest(s)}] \in V
      BY <1>1, <2>1, <2>2, GreatestIsThere
    <3> QED
      BY <1>2, <1>4, <3>1
  <2>3. Solves(f)
    BY <1>1, <2>1, <2>2 DEF Folds
  <2> QED
    BY <2>3
<1>7. Solves(iter)
  <2> HIDE DEF Solves
  <2> QED
    BY <1>6
<1>8. D!Turn(m, local) = iter[1 .. n]
  BY <1>1 DEF D!Turn, D!FoldLeft, D!MapThenFoldSet, Learns
<1> HIDE DEF iter
<1>9. iter[{}] = local
  BY <1>7
<1>10. ASSUME NEW s \in SUBSET (1 .. n), s # {} /\ iter[s \ {Greatest(s)}] \in V
       PROVE  iter[s] = step[<<iter[s \ {Greatest(s)}], Greatest(s)>>]
  <2>1. Greatest(s) \in 1 .. n
    BY <1>1, <1>10, GreatestIsThere
  <2>2. iter[s] = Learns(m, iter[s \ {Greatest(s)}], Greatest(s))
    BY <1>1, <1>2, <1>7, <1>10
  <2> QED
    BY <1>4, <1>10, <2>1, <2>2
<1> HIDE DEF Solves
<1>11. PICK run : Runs(run, n, V, local, step, iter[1 .. n])
  <2>1. \A s \in SUBSET (1 .. n) : s # {} /\ iter[s \ {Greatest(s)}] \in V =>
          iter[s] = step[<<iter[s \ {Greatest(s)}], Greatest(s)>>]
    BY <1>10
  <2> QED
    BY <1>1, <1>3, <1>5, <1>9, <2>1, Running
<1>12. ASSUME NEW k \in 1 .. n PROVE run[k] = Learns(m, run[k - 1], k)
  <2>1. run[k - 1] \in V
    <3>1. k - 1 \in 0 .. n
      BY <1>1
    <3> QED
      BY <1>11, <3>1 DEF Runs
  <2> QED
    BY <1>4, <1>11, <2>1 DEF Runs
<1> QED
  BY <1>8, <1>11, <1>12 DEF Runs, V, n

(* The sets of functions that hold every function with a decoded value in  *)
(* its body.                                                               *)
ClosedSets(m) ==
  {S \in SUBSET Functions : \A f \in Functions : D!Direct(m.bodies[f], S) => f \in S}

(* A turn only adds, adds nothing that a closed set has not, and if it adds *)
(* nothing what is known is closed.                                        *)
LEMMA TurnAdds ==
  ASSUME NEW m \in Parsed, NEW local \in SUBSET Functions
  PROVE  /\ D!Turn(m, local) \in SUBSET Functions
         /\ local \subseteq D!Turn(m, local)
         /\ \A S \in ClosedSets(m) : local \subseteq S => D!Turn(m, local) \subseteq S
         /\ D!Turn(m, local) = local => local \in ClosedSets(m)
<1> DEFINE n == Len(m.order)
<1>1. n \in Nat /\ \A k \in 1 .. n : m.order[k] \in Functions
  BY DEF Parsed, D!Modules
<1>2. \A f \in Functions : \E k \in 1 .. n : m.order[k] = f
  <2>1. m.order \in Seq(Functions) /\ D!ToSet(m.order) = Functions
    BY DEF Parsed, D!Modules
  <2> QED
    BY <2>1 DEF D!ToSet
<1>3. PICK run \in [0 .. n -> SUBSET Functions] :
        /\ run[0] = local
        /\ \A k \in 1 .. n : run[k] = Learns(m, run[k - 1], k)
        /\ run[n] = D!Turn(m, local)
  BY TurnRuns
<1> HIDE DEF n
<1>4. ASSUME NEW i \in 0 .. n, NEW k \in 0 .. n, i <= k PROVE run[i] \subseteq run[k]
  <2> DEFINE S == {j \in Nat : i + j <= n => run[i] \subseteq run[i + j]}
  <2>1. 0 \in S
    BY <1>1
  <2>2. ASSUME NEW j \in Nat, j \in S PROVE j + 1 \in S
    <3>1. ASSUME i + (j + 1) <= n PROVE run[i] \subseteq run[i + (j + 1)]
      <4>1. i + j \in 0 .. n /\ i + (j + 1) \in 1 .. n /\ (i + (j + 1)) - 1 = i + j /\ i + j <= n
        BY <1>1, <3>1
      <4>2. run[i + (j + 1)] = Learns(m, run[i + j], i + (j + 1))
        BY <1>3, <4>1
      <4>3. run[i] \subseteq run[i + j]
        BY <2>2, <4>1
      <4> QED
        BY <4>2, <4>3 DEF Learns
    <3> QED
      BY <3>1
  <2>3. k - i \in S
    <3>1. k - i \in Nat
      BY <1>1, <1>4
    <3> HIDE DEF S
    <3> QED
      BY <2>1, <2>2, <3>1, Induction
  <2> QED
    BY <1>1, <1>4, <2>3
<1>5. ASSUME NEW C \in ClosedSets(m), local \subseteq C PROVE run[n] \subseteq C
  <2> DEFINE S == {j \in Nat : j <= n => run[j] \subseteq C}
  <2>1. 0 \in S
    BY <1>3, <1>5
  <2>2. ASSUME NEW j \in Nat, j \in S PROVE j + 1 \in S
    <3>1. ASSUME j + 1 <= n PROVE run[j + 1] \subseteq C
      <4>1. j + 1 \in 1 .. n /\ (j + 1) - 1 = j /\ j \in 0 .. n /\ j <= n
        BY <1>1, <3>1
      <4>2. run[j + 1] = Learns(m, run[j], j + 1) /\ run[j] \subseteq C
        BY <1>3, <2>2, <4>1
      <4>3. CASE D!Direct(m.bodies[m.order[j + 1]], run[j])
        <5>1. D!Direct(m.bodies[m.order[j + 1]], C)
          BY <4>2, <4>3 DEF D!Direct
        <5>2. m.order[j + 1] \in C
          BY <1>1, <4>1, <5>1 DEF ClosedSets
        <5> QED
          BY <4>2, <5>2 DEF Learns
      <4>4. CASE ~ D!Direct(m.bodies[m.order[j + 1]], run[j])
        BY <4>2, <4>4 DEF Learns
      <4> QED
        BY <4>3, <4>4
    <3> QED
      BY <3>1
  <2>3. n \in S
    <3> HIDE DEF S
    <3> QED
      BY <1>1, <2>1, <2>2, Induction
  <2> QED
    BY <1>1, <2>3
<1>6. run[n] \in SUBSET Functions /\ local \subseteq run[n]
  BY <1>1, <1>3, <1>4
<1>7. ASSUME run[n] = local PROVE local \in ClosedSets(m)
  <2>1. ASSUME NEW f \in Functions, D!Direct(m.bodies[f], local) PROVE f \in local
    <3>1. PICK k \in 1 .. n : m.order[k] = f
      BY <1>2
    <3>2. k - 1 \in 0 .. n /\ k \in 0 .. n /\ 0 \in 0 .. n /\ n \in 0 .. n
          /\ 0 <= k - 1 /\ k - 1 <= n /\ k <= n
      BY <1>1
    <3>3. run[k - 1] = local /\ run[k] \subseteq local
      <4>1. run[0] \subseteq run[k - 1] /\ run[k - 1] \subseteq run[n] /\ run[k] \subseteq run[n]
        BY <1>4, <3>2
      <4>2. run[0] = local
        BY <1>3
      <4> QED
        BY <1>7, <4>1, <4>2
    <3>4. f \in run[k]
      BY <1>3, <2>1, <3>1, <3>3 DEF Learns
    <3> QED
      BY <3>3, <3>4
  <2> QED
    BY <2>1 DEF ClosedSets
<1> QED
  BY <1>3, <1>5, <1>6, <1>7

(* The turns end with the functions from which a decoder is reached. *)
LEMMA LocalIsReaching ==
  ASSUME NEW m \in Parsed
  PROVE  D!Local(m) = D!Reaching(m)
<1> DEFINE next == [local \in SUBSET Functions |-> D!Turn(m, local)]
           Solves(f) == f = [local \in SUBSET Functions |->
                               IF D!Turn(m, local) = local THEN local ELSE f[D!Turn(m, local)]]
           converge == CHOOSE f : Solves(f)
           least == [local \in SUBSET Functions |->
                       {fn \in Functions : \A S \in ClosedSets(m) : local \subseteq S => fn \in S}]
<1>1. \A local \in SUBSET Functions :
        /\ next[local] = D!Turn(m, local)
        /\ next[local] \in SUBSET Functions
        /\ local \subseteq next[local]
        /\ \A S \in ClosedSets(m) : local \subseteq S => next[local] \subseteq S
        /\ next[local] = local => local \in ClosedSets(m)
  BY TurnAdds
<1>2. Grows(Functions, next)
  BY <1>1 DEF Grows
<1> HIDE DEF next
<1>3. ASSUME NEW local \in SUBSET Functions
      PROVE  least[local] = IF next[local] = local THEN local ELSE least[next[local]]
  <2>1. CASE next[local] = local
    BY <1>1, <2>1
  <2>2. CASE next[local] # local
    <3>1. \A S \in ClosedSets(m) : local \subseteq S <=> next[local] \subseteq S
      BY <1>1
    <3>2. next[local] \in SUBSET Functions
      BY <1>1
    <3> QED
      BY <2>2, <3>1, <3>2
  <2> QED
    BY <2>1, <2>2
<1>4. Solves(converge)
  <2>1. \A local \in SUBSET Functions :
          least[local] = IF D!Turn(m, local) = local THEN local ELSE least[D!Turn(m, local)]
    <3> HIDE DEF least
    <3> QED
      BY <1>1, <1>3
  <2>2. least = [local \in SUBSET Functions |-> least[local]]
    OBVIOUS
  <2>3. Solves(least)
    <3> HIDE DEF least
    <3> QED
      BY <2>1, <2>2
  <2>4. \E f : Solves(f)
    BY <2>3
  <2> HIDE DEF Solves
  <2> QED
    BY <2>4
<1>5. D!Local(m) = converge[{}]
  BY DEF D!Local
<1> HIDE DEF converge
<1>6. Iterates(Functions, next, converge)
  <2>1. \A local \in SUBSET Functions :
          converge[local] = IF D!Turn(m, local) = local THEN local ELSE converge[D!Turn(m, local)]
    BY <1>4
  <2> QED
    BY <1>1, <2>1 DEF Iterates
<1>7. converge[{}] = least[{}]
  <2> HIDE DEF least
  <2>1. Iterates(Functions, next, least)
    BY <1>3 DEF Iterates
  <2>2. IsFiniteSet(Functions)
    BY NamesAssumption
  <2>3. \A local \in SUBSET Functions : converge[local] = least[local]
    BY <1>2, <1>6, <2>1, <2>2, OneResult
  <2>4. {} \in SUBSET Functions
    OBVIOUS
  <2> QED
    BY <2>3, <2>4, Zenon
<1>8. D!Reaching(m) = {fn \in Functions : \A S \in ClosedSets(m) : fn \in S}
  BY DEF D!Reaching, ClosedSets
<1>9. least[{}] = {fn \in Functions : \A S \in ClosedSets(m) : fn \in S}
  OBVIOUS
<1> QED
  BY <1>5, <1>7, <1>8, <1>9

(* For any functions and variables, in any order: a payload is found if    *)
(* and only if what is executed, or a variable in it, is decoded, over any *)
(* number of calls (code_patterns.py, _DecoderIndex).                      *)
THEOREM EveryDecoderIsFound ==
  ASSUME NEW m \in Parsed
  PROVE  D!DecodersAreFound(m)
<1> DEFINE values == m.argument \cup UNION {m.assigned[v] : v \in m.argument \cap Variables}
<1>1. D!Find(m) <=>
        \/ D!Direct(m.argument, D!Reaching(m))
        \/ \E v \in m.argument \cap Variables : D!Direct(m.assigned[v], D!Reaching(m))
  BY LocalIsReaching DEF D!Find
<1>2. D!Find(m) <=> "decoder" \in values \/ values \cap D!Reaching(m) # {}
  BY <1>1 DEF D!Direct
<1> QED
  BY <1>2 DEF D!DecodersAreFound

-----------------------------------------------------------------------------
(* The files and modules that are walked over are among those.             *)

Searched ==
  /\ subject = "scope"   => input \in T!Places \X T!Files \X Beside
  /\ subject = "decoder" => input \in Parsed

LEMMA SearchedFromTheStart == Init => Searched
BY DEF Init, Searched

LEMMA FilesAreFiles ==
  ASSUME NEW top \in SUBSET T!Statements, NEW main \in SUBSET T!Statements,
         NEW hook \in SUBSET T!Statements, NEW f \in SUBSET T!Statements,
         NEW g \in SUBSET T!Statements
  PROVE  File(top, main, hook, f, g) \in T!Files
<1>1. ASSUME NEW b \in T!Bodies
      PROVE  (CASE b = "top" -> top [] b = "main" -> main [] b = "hook" -> hook
                [] b = "f" -> f [] b = "g" -> g [] OTHER -> {}) \in SUBSET T!Statements
  OBVIOUS
<1> QED
  BY <1>1, Zenon DEF File, T!Files

LEMMA ScriptsAreFiles == Setup \subseteq T!Files /\ Module \subseteq T!Files /\ Trees \subseteq Beside
<1>1. {"f", "g", "import", "import_f"} \subseteq T!Statements
  BY NamesAssumption DEF T!Statements
<1> HIDE DEF T!Statements
<1>2. ASSUME NEW file \in Setup PROVE file \in T!Files
  <2>1. PICK a \in SUBSET {"f", "import"}, b \in {{}, {"g"}}, c \in SUBSET {"g", "import_f"},
             d \in SUBSET {"f", "g", "import_f"}, e \in SUBSET {"f"} :
          file = File(a, b, c, d, e)
    BY <1>2 DEF Setup
  <2>2. /\ a \in SUBSET T!Statements /\ b \in SUBSET T!Statements /\ c \in SUBSET T!Statements
        /\ d \in SUBSET T!Statements /\ e \in SUBSET T!Statements
    BY <1>1
  <2> QED
    BY <2>1, <2>2, FilesAreFiles
<1>3. ASSUME NEW file \in Module PROVE file \in T!Files
  <2>1. PICK a \in SUBSET {"g"}, b \in SUBSET {"f", "g"}, c \in SUBSET {"f"} :
          file = File(a, {"g"}, {}, b, c)
    BY <1>3 DEF Module
  <2>2. /\ a \in SUBSET T!Statements /\ {"g"} \in SUBSET T!Statements
        /\ {} \in SUBSET T!Statements /\ b \in SUBSET T!Statements /\ c \in SUBSET T!Statements
    BY <1>1
  <2> QED
    BY <2>1, <2>2, FilesAreFiles
<1> QED
  BY <1>2, <1>3 DEF Trees, Beside

LEMMA SearchedAlways == Searched /\ [Next]_vars => Searched'
<1> SUFFICES ASSUME Searched, [Next]_vars PROVE Searched'
  OBVIOUS
<1> USE DEF Chooses
<1>1. CASE Scripts
  <2>1. Script \in T!Places
    BY DEF Script, T!Places
  <2>2. subject' = "scope" /\ input' \in {Script} \X Setup \X Trees
    BY <1>1 DEF Scripts
  <2> QED
    BY <2>1, <2>2, ScriptsAreFiles DEF Searched
<1>2. CASE Modules
  <2>1. {[file |-> Absent, package |-> Absent]} \subseteq Beside
    BY DEF Beside
  <2>2. subject' = "scope"
        /\ input' \in T!Places \X Setup \X {[file |-> Absent, package |-> Absent]}
    BY <1>2 DEF Modules
  <2> QED
    BY <2>1, <2>2, ScriptsAreFiles DEF Searched
<1>3. CASE \/ Bursts \/ Typos \/ Downloads \/ Bodies \/ Archives \/ Budgeted
           \/ Commands \/ Overrides \/ Pths
  BY <1>3 DEF Bursts, Typos, Downloads, Bodies, Archives, Budgeted, Commands, Overrides, Pths,
              Searched
<1>4. CASE UNCHANGED vars
  BY <1>4 DEF Searched, vars
<1>5. CASE Decodings
  <2>1. PICK b \in [Functions -> (SUBSET Functions) \cup {{"decoder"}}],
             v \in {{}, {"g"}, {"w"}, {"decoder"}}, a \in {{"f"}, {"v"}, {"g", "v"}, {"decoder"}},
             order \in Orders :
          input' = [bodies |-> b,
                    assigned |-> [x \in Variables |-> IF x = "v" THEN v ELSE {"decoder"}],
                    argument |-> a, order |-> order]
    BY <1>5 DEF Decodings
  <2> DEFINE assigned == [x \in Variables |-> IF x = "v" THEN v ELSE {"decoder"}]
  <2>2. {"decoder", "f", "g", "v", "w"} \subseteq D!Parts /\ Functions \subseteq D!Parts
    BY NamesAssumption DEF D!Parts
  <2>3. b \in [Functions -> SUBSET D!Parts] /\ assigned \in [Variables -> SUBSET D!Parts]
        /\ a \in SUBSET D!Parts
    BY <2>2
  <2>4. order \in Seq(Functions) /\ D!ToSet(order) = Functions
    <3>1. Cardinality(Functions) \in Nat
      BY NamesAssumption, FS_CardinalityType
    <3> QED
      BY <3>1 DEF Orders, ToSet, D!ToSet
  <2>5. subject' = "decoder"
    BY <1>5 DEF Decodings
  <2> HIDE DEF assigned
  <2>6. [bodies |-> b, assigned |-> assigned, argument |-> a, order |-> order] \in D!Modules
    BY <2>3, <2>4 DEF D!Modules
  <2> QED
    BY <2>1, <2>4, <2>5, <2>6 DEF Searched, Parsed, assigned
<1> QED
  BY <1>1, <1>2, <1>3, <1>4, <1>5 DEF Next

(* The rule of install time looks at what runs, and at nothing else, in    *)
(* every file that is walked over (install_time.py, install_time_exec).    *)
THEOREM ScopeIsAlwaysWhatRuns == Spec => []ScopeIsWhatRuns
<1>1. Searched => ScopeIsWhatRuns
  BY EveryScopeIsWhatRuns DEF Searched, ScopeIsWhatRuns
<1> QED
  BY <1>1, SearchedFromTheStart, SearchedAlways, PTL DEF Spec

(* A decoder is found behind any calls and one variable, in every module   *)
(* that is walked over (code_patterns.py, _DecoderIndex).                  *)
THEOREM DecodersAreAlwaysFound == Spec => []DecodersAreFound
<1>1. Searched => DecodersAreFound
  BY EveryDecoderIsFound DEF Searched, DecodersAreFound
<1> QED
  BY <1>1, SearchedFromTheStart, SearchedAlways, PTL DEF Spec
=============================================================================
