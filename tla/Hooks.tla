------------------------------- MODULE Hooks -------------------------------
(* The rules on hooks, which grade what they report: a command of setuptools *)
(* that setup.py overrides, and a .pth file.  A finding that is "high" blocks *)
(* the package, one that is "medium" does not.                               *)
EXTENDS Integers, SequencesExt

-----------------------------------------------------------------------------
(* _is_exec_sink: how a function is called, its name's kind, and on what.    *)

Calls == [kind : {"builtin", "distinct", "generic", "other"},
          on : {"nothing", "builtins", "module", "object"}]

IsExecSink(call) ==
  \/ call.kind = "distinct"
  \/ call.kind = "builtin" /\ call.on \in {"nothing", "builtins"}
  \/ call.kind = "generic" /\ call.on = "module"

(* setup_command_hook: the entries of cmdclass, and the classes of the file   *)
(* in the order of ast.walk, each with the calls in it.                      *)

HOOKED_COMMANDS == {"install", "develop", "build_py"}
VICTIM_SIDE     == {"install", "develop"}
Commands        == HOOKED_COMMANDS \cup {"build_ext"}

Definitions(file, name) == {i \in DOMAIN file.classes : file.classes[i].name = name}
HookClass(file, name) == file.classes[Min(Definitions(file, name))]
CallsExecSink(class) == \E call \in class.calls : IsExecSink(call)

Overridden(file) == {file.cmdclass[i].command : i \in DOMAIN file.cmdclass}

SinkInAnyHook(file) ==
  \E i \in DOMAIN file.cmdclass :
    LET class == file.cmdclass[i].class IN
    Definitions(file, class) # {} /\ CallsExecSink(HookClass(file, class))
SinkHit(file) ==
  \E i \in DOMAIN file.cmdclass :
    LET class == file.cmdclass[i].class IN
    /\ file.cmdclass[i].command \in VICTIM_SIDE
    /\ Definitions(file, class) # {} /\ CallsExecSink(HookClass(file, class))

SetupCommandHook(file) ==
  CASE Overridden(file) \cap HOOKED_COMMANDS = {} -> "none"
    [] Overridden(file) \cap VICTIM_SIDE # {} /\ SinkHit(file) -> "high"
    [] OTHER -> "medium"

\* What pip runs on the machine of who installs, in the terms of the code, which
\* counts egg_info and the building commands as the publisher's: of two entries,
\* and of two classes of one name, Python takes the last.
Running(file) ==
  {c \in ToSet(file.classes) :
     \E i \in DOMAIN file.cmdclass, k \in DOMAIN file.classes :
       /\ c = file.classes[k] /\ file.cmdclass[i].class = c.name
       /\ file.cmdclass[i].command \in {"install", "develop"}
       /\ \A j \in i + 1 .. Len(file.cmdclass) :
            file.cmdclass[j].command # file.cmdclass[i].command
       /\ \A j \in k + 1 .. Len(file.classes) : file.classes[j].name # c.name}

\* What a call does, whatever it is called: the call with which an override
\* hands on to setuptools, install.run(self), is generic on an object.  A function
\* of subprocess that was imported by its bare name is left out, as the code says.
Executes(class) ==
  \E call \in class.calls :
    \/ call.kind = "distinct" \/ <<call.kind, call.on>> = <<"generic", "module">>
    \/ call.kind = "builtin" /\ call.on # "module" /\ call.on # "object"

\* An override of what runs while pip installs is blocked exactly if the class
\* that runs executes something or opens a connection; that of a command which
\* runs at the publisher, or one that only hands on to setuptools, is told and not
\* blocked, whatever the other entries do.  Not covered: a command or a class that
\* is there twice; the rule reads the first class and every entry.
\* (install_hooks.py: "존재가 아니라 조합이 신호다")
HookIsGraded(file) ==
  LET grade == SetupCommandHook(file)
      Once(names) == \A i, k \in DOMAIN names : names[i] = names[k] => i = k
      once == /\ Once([i \in DOMAIN file.cmdclass |-> file.cmdclass[i].command])
              /\ Once([i \in DOMAIN file.classes |-> file.classes[i].name])
  IN  /\ once => (grade = "high" <=> \E class \in Running(file) : Executes(class))
      /\ grade = "none" <=> \A i \in DOMAIN file.cmdclass : file.cmdclass[i].command = "build_ext"

-----------------------------------------------------------------------------
(* pth_autoexec: a path is the sequence of its parts, the file's name last.  *)

Parts  == {"x.pth", "pkg", "d.data", "purelib", "scripts"}
Lines  == {"import", "indented import", "path"}

Importing(line) == line \in {"import", "indented import"}
InstallsAtRoot(path) ==
  \/ Len(path) = 1
  \/ Len(path) = 3 /\ path[1] = "d.data" /\ path[2] = "purelib"

\* The grades of the lines that are reported.
PthAutoexec(path, in_wheel, lines) ==
  [i \in {i \in DOMAIN lines : Importing(lines[i])} |->
     IF ~in_wheel \/ InstallsAtRoot(path) THEN "high" ELSE "medium"]

\* Where an installer puts a wheel's file, relative to site-packages; what goes
\* somewhere else, the data scheme included, has no place there.
Elsewhere == <<>>
Installed(path) ==
  CASE path[1] # "d.data" -> path
    [] path[1] = "d.data" /\ Len(path) > 2 /\ path[2] = "purelib" -> SubSeq(path, 3, Len(path))
    [] OTHER -> Elsewhere

\* What Python runs at its start is reported high: the lines that start with
\* import, of the .pth files a wheel puts directly into site-packages, and of any
\* of an sdist, whose setup may put them there.  A .pth deeper in a wheel blocks
\* nothing.  (install_hooks.py: "site.py 는 site-packages 최상위의 .pth 만 처리한다")
PthIsGraded(path, in_wheel, lines) ==
  LET grades == PthAutoexec(path, in_wheel, lines)
      starts == in_wheel => Len(Installed(path)) = 1
  IN  /\ \A i \in DOMAIN lines : lines[i] = "import" /\ starts =>
           i \in DOMAIN grades /\ grades[i] = "high"
      /\ \A i \in DOMAIN grades : grades[i] = "high" => starts
=============================================================================
