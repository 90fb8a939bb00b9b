---------------------------- MODULE InstallTime ----------------------------
(* Which code of a package runs when it is installed or imported, as the     *)
(* rule install_time_exec sees it.  A body holds a set of statements that    *)
(* lead on: a call of a function of the same file by its name, an import of  *)
(* the local module m, or an import and a call of m's function f.            *)
EXTENDS FiniteSets

CONSTANTS Absent,     \* no such file
          Broken,     \* a file with a syntax error
          Functions   \* the names of the functions of the files, "f" among them

Statements == {"import", "import_f"} \cup Functions

\* What runs by itself: the top of the file, what stands under
\* if __name__ == "__main__", and the classes setup(cmdclass=...) names.  The
\* body of any other class is in no scope.
Bodies == {"top", "main", "hook"} \cup Functions
Files  == [Bodies -> SUBSET Statements]

Stated(file, scope) == UNION {file[b] : b \in scope}

\* _follow_local_calls: todo is what the scope states, done the functions added.
JustOnce(file, scope) == scope \cup (Stated(file, scope) \cap Functions)
Follow(file, scope) ==
  LET more[done \in SUBSET Functions] ==
        LET todo == (Stated(file, scope \cup done) \cap Functions) \ done
        IN  IF todo = {} THEN done ELSE more[done \cup {CHOOSE fn \in todo : TRUE}]
  IN  scope \cup more[{}]

-----------------------------------------------------------------------------
(* Which of the scopes a file gets, from its name and what lies beside it.   *)

Places ==
  {p \in [name : {"setup.py", "__init__.py", "__main__.py", "test_x.py", "x.py"},
          in_tests : BOOLEAN, marker : BOOLEAN, init : BOOLEAN, setup : BOOLEAN] :
     (p.name = "setup.py" => p.setup) /\ (p.name = "__init__.py" => p.init)}

IsInstallScript(p) == p.name = "setup.py" /\ p.marker
IsTestFile(p) == p.name = "test_x.py" \/ p.in_tests
IsPackageModule(p) ==
  /\ p.name # "__main__.py" /\ ~IsTestFile(p)
  /\ p.name = "__init__.py" \/ p.init \/ p.setup

(* The local module: m.py if it is there, else m/__init__.py.  One that is    *)
(* broken gives no scope, and the other is not looked at.                    *)

Chosen(tree) == IF tree.file # Absent THEN tree.file ELSE tree.package

ModuleScope(tree, stated) ==
  LET m == Chosen(tree)
      called == IF "import_f" \in stated THEN {"f"} ELSE {}
  IN  IF stated \cap {"import", "import_f"} = {} \/ m \in {Absent, Broken} THEN {}
      ELSE Follow(m, {"top"} \cup called)

\* install_time_exec: the bodies in which it looks, as <<file, body>>.
Own(scope) == {"own"} \X scope
Looked(p, file, tree) ==
  CASE IsInstallScript(p) ->
         LET scope == Follow(file, {"top", "main"}) \cup Follow(file, {"hook"})
         IN  Own(scope) \cup ({"module"} \X ModuleScope(tree, Stated(file, scope)))
    [] ~IsInstallScript(p) /\ IsPackageModule(p) -> Own(Follow(file, {"top"}))
    [] OTHER -> {}

-----------------------------------------------------------------------------
\* The bodies reached from some by calls: those in every set closed under them.
Reached(file, roots) ==
  {b \in Bodies :
     \A S \in SUBSET Functions :
       Stated(file, roots \cup S) \cap Functions \subseteq S => b \in roots \cup S}

\* What runs when pip runs setup.py, as far as its own file and the one it
\* imports go.  Of m.py and m/__init__.py Python imports the second.
Imported(tree) == IF tree.package # Absent THEN tree.package ELSE tree.file
RunsAtInstall(file, tree) ==
  LET own == Reached(file, {"top", "main", "hook"})
      stated == Stated(file, own)
      m == Imported(tree)
      roots == {"top"} \cup (IF "import_f" \in stated THEN {"f"} ELSE {})
  IN  Own(own) \cup
      (IF m \in {Absent, Broken} \/ {"import", "import_f"} \cap stated = {} THEN {}
       ELSE {"module"} \X Reached(m, roots))

\* The rule looks exactly where code runs: through any number of calls within a
\* file, recursion and mutual recursion included, into the module setup.py
\* loads and the function it calls there, and into no function that is only
\* defined.  A setup.py outside of the tests is looked at in any case: as a
\* script if it is one, else as a module.  Not covered: a module that exists both
\* as m.py and as m/__init__.py.  (install_time.py: "실제로 실행되는 코드만")
ScopeIsWhatRuns(p, file, tree) ==
  /\ IsInstallScript(p) /\ Absent \in {tree.file, tree.package} =>
       Looked(p, file, tree) = RunsAtInstall(file, tree)
  /\ ~IsInstallScript(p) => Looked(p, file, tree) \in {{}, Own(Reached(file, {"top"}))}
  /\ p.name = "setup.py" /\ p.setup /\ ~p.in_tests =>
       Own(Reached(file, {"top"})) \subseteq Looked(p, file, tree)
=============================================================================
