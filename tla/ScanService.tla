---------------------------- MODULE ScanService ----------------------------
(* What stands around run_scan: the API server (POST /scan and the pip proxy *)
(* gate), the CLI commands that scan in their own process or through the     *)
(* server, and the table `scans` they all write.  A scan itself is RunScan;  *)
(* here it gives any verdict, or raises.  Storing the answer takes two       *)
(* transactions: insert() writes the record with scan_id 0, because the id   *)
(* is the row's, and finalize() writes it again with its id.                 *)
EXTENDS Naturals, Sequences

CONSTANTS
  Clients,     \* whoever asks: pip, a browser, a shell
  Releases,    \* name==version
  Newest,      \* what PyPI calls the latest release of a release's project
  Rejected,    \* the releases ScanRequest refuses to be built for
  Odd,         \* a text in which no release can be read
  Elsewhere,   \* a URL that is not on an allowed host
  Jobs,        \* what each client may ask for
  PageSize,    \* the limit of a history page
  MaxStops     \* bound of the model: how often the server is stopped

Verdicts == {"safe", "warn", "block"}
Served   == {"post", "file"}
Shell    == {"check", "install", "check-file", "guard"}

\* A spec without an exact version: for check and install a bare name, of
\* whichever release of the project; for guard a condition like `<2`, with the
\* release pip will choose for it, which may be any.
Specs == [release: Releases \cup {Odd}, pin: BOOLEAN]

\* A request for a file names what it wants twice: the path, from which the
\* release to scan is read, and the URL of the file that is sent.
JobType == [command: Served \cup Shell, remote: BOOLEAN, wants: Seq(Specs),
            url: Releases \cup {Odd, Elsewhere}, yes: BOOLEAN, force: BOOLEAN]

ServiceAssumption ==
  /\ Rejected \subseteq Releases /\ Newest \in [Releases -> Releases]
  /\ Odd \notin Releases /\ Elsewhere \notin Releases \cup {Odd}
  /\ Jobs \in [Clients -> SUBSET JobType]
  /\ \A c \in Clients : \A j \in Jobs[c] :
       /\ j.command \in Served => j.remote
       /\ j.command \in Served => Len(j.wants) = 1 /\ j.wants[1].pin
       /\ j.command # "file" =>
            \A i \in DOMAIN j.wants : j.wants[i].pin => j.wants[i].release # Odd
       /\ j.yes \/ j.force => j.command \in {"install", "guard"}
  /\ PageSize \in Nat \ {0} /\ MaxStops \in Nat
ASSUME ServiceAssumption

VARIABLES
  up,        \* the API server runs
  stops,     \* how often it was stopped
  rows,      \* the table scans: row i has the id i, AUTOINCREMENT
  pc,        \* where a client's command is
  job,       \* the command
  left,      \* the specs it has still to scan
  response,  \* the record of the scan it is in
  answers,   \* the responses it got
  outcome    \* how the command ended

vars == <<up, stops, rows, pc, job, left, response, answers, outcome>>

Records  == [release: Releases, verdict: Verdicts, scan_id: Nat]
Blank    == [release |-> Odd, verdict |-> "safe", scan_id |-> 0]
Scanning == {"scanning", "insert", "stamp"}
Outcomes == {"none", "ok", "blocked", "declined", "refused", "failed",
             "crashed", "lost", "streamed", "installed"}

\* The exit code of a CLI command; a traceback exits with 1.
ExitCode ==
  [ok |-> 0, installed |-> 0, blocked |-> 1, declined |-> 1, crashed |-> 1,
   refused |-> 2, failed |-> 2]

-----------------------------------------------------------------------------
(* Readers of the table.                                                     *)

Get(id) == rows[id]
Recent(limit) ==
  [i \in 1 .. (IF Len(rows) < limit THEN Len(rows) ELSE limit) |-> rows[Len(rows) - i + 1]]

-----------------------------------------------------------------------------
Init ==
  /\ up = TRUE /\ stops = 0 /\ rows = <<>>
  /\ pc = [c \in Clients |-> "idle"]
  /\ job \in {f \in [Clients -> UNION {Jobs[c] : c \in Clients}] :
                \A c \in Clients : f[c] \in Jobs[c]}
  /\ left = [c \in Clients |-> job[c].wants]
  /\ response = [c \in Clients |-> Blank]
  /\ answers = [c \in Clients |-> <<>>]
  /\ outcome = [c \in Clients |-> "none"]

At(c, place) == pc[c] = place
Goes(c, place) == pc' = [pc EXCEPT ![c] = place]

\* A client that left, or gave up waiting, has had its outcome already.
Ends(c, how) ==
  /\ Goes(c, "done")
  /\ outcome' = [outcome EXCEPT ![c] = IF @ = "none" THEN how ELSE @]

LastToldIs(c, verdict) ==
  answers[c] # <<>> /\ answers[c][Len(answers[c])].verdict = verdict
Told(c, verdict) == \E i \in DOMAIN answers[c] : answers[c][i].verdict = verdict
Store   == <<up, stops, rows>>
Command == <<job, left, response, answers>>

Start(c) ==
  /\ At(c, "idle")
  /\ job[c].command \in Served => up
  /\ Goes(c, IF job[c].command = "file" THEN "gate" ELSE "next")
  /\ UNCHANGED <<Store, Command, outcome>>

(* The gate, before it scans. *)

AnyPath(j) == TRUE
PathMatches(j) == j.wants[1].release = j.url

GateRefuses(c) ==
  /\ At(c, "gate")
  /\ \/ job[c].url = Elsewhere
     \/ ~PathMatches(job[c])
     \/ job[c].wants[1].release = Odd
  /\ Ends(c, "refused")
  /\ UNCHANGED <<Store, Command>>

GateFailsOpen(c) ==
  /\ At(c, "gate") /\ job[c].url # Elsewhere /\ PathMatches(job[c])
  /\ Goes(c, "next")
  /\ UNCHANGED <<Store, Command, outcome>>
GateScans(c) ==
  /\ At(c, "gate")
  /\ job[c].url # Elsewhere
  /\ PathMatches(job[c])
  /\ job[c].wants[1].release # Odd
  /\ Goes(c, "next")
  /\ UNCHANGED <<Store, Command, outcome>>

(* A command goes through its specs.  The gate's is its one; those of guard  *)
(* are what ExtractSpecs of PipArgs finds in pip's arguments.                *)

Current(c) == Head(left[c])
Looking(c) == At(c, "next") /\ left[c] # <<>>

\* check-file reads pinned lines only; guard skips what is no PyPI name.
Skips(c) ==
  /\ Looking(c)
  /\ \/ job[c].command = "check-file" /\ ~Current(c).pin
     \/ job[c].command = "guard" /\ Current(c).release = Odd
  /\ left' = [left EXCEPT ![c] = Tail(@)]
  /\ UNCHANGED <<Store, pc, job, response, answers, outcome>>

\* A file that is not there is refused; one that cannot be read, or is no
\* UTF-8, ends check-file in a traceback; guard goes on without a file it
\* cannot open, but not after one that is no UTF-8.
NoFile(c) ==
  /\ Looking(c) /\ left[c] = job[c].wants
  /\ \/ job[c].command = "check-file" /\ \E how \in {"refused", "crashed"} : Ends(c, how)
     \/ job[c].command = "guard" /\ Ends(c, "crashed")
  /\ UNCHANGED <<Store, Command>>

\* The release that is scanned for a spec, whatever pip chooses for it.
Target(spec) ==
  IF spec.pin \/ spec.release = Odd THEN spec.release ELSE Newest[spec.release]

MustResolve(c) ==
  /\ Looking(c) /\ ~Current(c).pin
  /\ \/ job[c].command \in {"check", "install"}
     \/ job[c].command = "guard" /\ Current(c).release # Odd

Resolves(c) ==
  /\ MustResolve(c) /\ Current(c).release # Odd
  /\ left' = [left EXCEPT ![c][1] = [release |-> Target(@), pin |-> TRUE]]
  /\ UNCHANGED <<Store, pc, job, response, answers, outcome>>

\* An error of PyPI's is caught, a reply of another shape is not.
ResolveFails(c) ==
  /\ MustResolve(c)
  /\ \E how \in {"failed", "crashed"} : Ends(c, how)
  /\ UNCHANGED <<Store, Command>>

Ready(c) == Looking(c) /\ Current(c).pin

\* How a failed scan ends the command: an exception where the command scans
\* itself; through the server exit code 2, unless the reply is no JSON.
Fails(c) ==
  IF ~job[c].remote THEN {"crashed"}
  ELSE IF job[c].command \in Shell THEN {"failed", "crashed"} ELSE {"failed"}

\* A ScanRequest that cannot be built: 422 and exit code 2, but an error of
\* the gate, which builds it itself, and a traceback where the 422 is no JSON.
Invalid(c) ==
  /\ Ready(c) /\ Current(c).release \in Rejected
  /\ \/ Ends(c, IF job[c].command = "file" THEN "failed" ELSE "refused")
     \/ job[c].remote /\ job[c].command \in Shell /\ Ends(c, "crashed")
  /\ UNCHANGED <<Store, Command>>

WaitsForServer(c) == FALSE
Unreachable(c) ==
  /\ Ready(c) /\ job[c].remote /\ ~up
  /\ \E how \in Fails(c) : Ends(c, how)
  /\ UNCHANGED <<Store, Command>>

Sends(c) ==
  /\ Ready(c) /\ Current(c).release \notin Rejected
  /\ job[c].remote => up
  /\ Goes(c, "scanning")
  /\ UNCHANGED <<Store, Command, outcome>>

(* run_scan *)

Scans(c) ==
  /\ At(c, "scanning")
  /\ \E v \in Verdicts :
       response' = [response EXCEPT ![c] =
         [release |-> Current(c).release, verdict |-> v, scan_id |-> 0]]
  /\ Goes(c, "insert")
  /\ UNCHANGED <<Store, job, left, answers, outcome>>

Inserts(c) ==
  /\ At(c, "insert")
  /\ rows' = Append(rows, response[c])
  /\ response' = [response EXCEPT ![c].scan_id = Len(rows')]
  /\ Goes(c, "stamp")
  /\ UNCHANGED <<up, stops, job, left, answers, outcome>>

\* Back in the endpoint or in _scan: the response is whoever's asked for it.
Answers(c) ==
  /\ answers' = [answers EXCEPT ![c] = Append(@, response[c])]
  /\ left' = [left EXCEPT ![c] = Tail(@)]
  /\ Goes(c, IF outcome[c] = "none" \/ job[c].command = "file" THEN "next" ELSE "done")
  /\ UNCHANGED <<up, stops, job, response, outcome>>

StampsNewest(c) ==
  At(c, "stamp") /\ rows' = [rows EXCEPT ![Len(rows)] = response[c]] /\ Answers(c)
StampsEveryRow(c) ==
  At(c, "stamp") /\ rows' = [i \in DOMAIN rows |-> response[c]] /\ Answers(c)
Stamps(c) ==
  /\ At(c, "stamp")
  /\ rows' = [rows EXCEPT ![response[c].scan_id] = response[c]]
  /\ Answers(c)

\* An exception of a layer, of the tagging, or of SQLite when it stays locked.
Raises(c) ==
  /\ pc[c] \in Scanning
  /\ \E how \in Fails(c) : Ends(c, how)
  /\ UNCHANGED <<Store, Command>>

(* What a command makes of its answers. *)

Decided(c) == At(c, "next") /\ left[c] = <<>>
Stopped(c) == Told(c, "block") /\ ~job[c].force
Asks(c)    == Told(c, "warn") /\ ~job[c].yes /\ ~job[c].force

Refuses(c) ==
  /\ Decided(c) /\ job[c].command # "post" /\ Stopped(c)
  /\ Ends(c, "blocked")
  /\ UNCHANGED <<Store, Command>>

Passes(c) ==
  /\ Decided(c) /\ job[c].command \in {"post", "check", "check-file"}
  /\ job[c].command = "post" \/ ~Stopped(c)
  /\ Ends(c, "ok")
  /\ UNCHANGED <<Store, Command>>

Declines(c) ==
  /\ Decided(c) /\ job[c].command \in {"install", "guard"}
  /\ ~Stopped(c) /\ Asks(c)
  /\ Ends(c, "declined")
  /\ UNCHANGED <<Store, Command>>

\* pip runs: nothing blocks, and a warning was confirmed or waived.
Installs(c) ==
  /\ Decided(c) /\ job[c].command \in {"install", "guard"} /\ ~Stopped(c)
  /\ Ends(c, "installed")
  /\ UNCHANGED <<Store, Command>>

Fetches(c) ==
  /\ Decided(c) /\ job[c].command = "file" /\ ~Stopped(c)
  /\ \E how \in {"streamed", "failed"} : Ends(c, how)
  /\ UNCHANGED <<Store, Command>>

\* The table of results is printed as markup, which a text of the package's own
\* can break.
RenderFails(c) ==
  /\ Decided(c) /\ job[c].command \in Shell /\ answers[c] # <<>>
  /\ Ends(c, "crashed")
  /\ UNCHANGED <<Store, Command>>

(* Clients that leave, and the server's stops. *)

InServer(c) ==
  /\ job[c].remote /\ pc[c] \notin {"idle", "done"}
  /\ job[c].command \in Served \/ pc[c] \in Scanning

\* A closed connection or Ctrl-C, or a shell's request that times out or whose
\* answer it cannot read: what runs in the server goes on, what runs in the
\* client's own process ends.
Leaves(c) ==
  /\ pc[c] \notin {"idle", "done"} /\ outcome[c] = "none"
  /\ \E how \in IF InServer(c) /\ job[c].command \in Shell THEN {"lost"} \cup Fails(c)
                                                            ELSE {"lost"} :
       outcome' = [outcome EXCEPT ![c] = how]
  /\ Goes(c, IF InServer(c) THEN pc[c] ELSE "done")
  /\ UNCHANGED <<Store, Command>>

Stop ==
  /\ up /\ stops < MaxStops
  /\ up' = FALSE /\ stops' = stops + 1
  /\ pc' = [c \in Clients |-> IF InServer(c) THEN "done" ELSE pc[c]]
  /\ outcome' = [c \in Clients |->
       IF InServer(c) /\ outcome[c] = "none" THEN "failed" ELSE outcome[c]]
  /\ UNCHANGED <<rows, Command>>

Restart ==
  /\ ~up /\ up' = TRUE
  /\ UNCHANGED <<stops, rows, pc, Command, outcome>>

Progress(c) ==
  \/ GateRefuses(c) \/ GateScans(c)
  \/ Skips(c) \/ NoFile(c) \/ Resolves(c) \/ ResolveFails(c)
  \/ Invalid(c) \/ Unreachable(c) \/ Sends(c)
  \/ Scans(c) \/ Inserts(c) \/ Stamps(c) \/ Raises(c)
  \/ Refuses(c) \/ Passes(c) \/ Declines(c) \/ Installs(c)
  \/ Fetches(c) \/ RenderFails(c)

\* A last stuttering step, so that TLC tells the end from a deadlock.
Finished == (\A c \in Clients : At(c, "done")) /\ UNCHANGED vars

Next ==
  \/ \E c \in Clients : Start(c) \/ Progress(c) \/ Leaves(c)
  \/ Stop \/ Restart \/ Finished

\* httpx has a timeout on every request and SQLite on every lock, so what runs
\* comes to an end; nobody has to ask, to leave, or to restart the server.
Spec == Init /\ [][Next]_vars /\ \A c \in Clients : WF_vars(Progress(c))

-----------------------------------------------------------------------------
TypeOK ==
  /\ up \in BOOLEAN /\ stops \in 0 .. MaxStops
  /\ rows \in Seq(Records)
  /\ pc \in [Clients -> {"idle", "gate", "next", "done"} \cup Scanning]
  /\ \A c \in Clients : job[c] \in Jobs[c]
  /\ left \in [Clients -> Seq(Specs)]
  /\ response \in [Clients -> Records \cup {Blank}]
  /\ answers \in [Clients -> Seq(Records)]
  /\ outcome \in [Clients -> Outcomes]

\* Whoever was given a scan_id finds under it the record he was given, on the
\* first page of the history unless newer scans fill it, and shares the id with
\* nobody: not with a scan that was stored between the two transactions of his,
\* and whatever stopped meanwhile.  (storage.py: "scan_id in the response is now
\* a real scans.id row")
AnsweredIsStored ==
  \A c \in Clients : \A i \in DOMAIN answers[c] :
    LET a == answers[c][i] IN
    /\ a.scan_id \in DOMAIN rows /\ Get(a.scan_id) = a
    /\ Len(rows) - a.scan_id < PageSize =>
         \E k \in DOMAIN Recent(PageSize) : Recent(PageSize)[k] = a
    /\ \A d \in Clients : \A k \in DOMAIN answers[d] :
         answers[d][k].scan_id = a.scan_id => d = c /\ k = i

\* The history is only written forward: no step removes a row or changes a
\* release or a verdict, and the one change a row may see is that the 0 it was
\* stored with becomes its own id.  (storage.py, _insert and _finalize)
RecordsAreFinal ==
  [][\A i \in DOMAIN rows :
       /\ i \in DOMAIN rows'
       /\ \/ rows'[i] = rows[i]
          \/ rows[i].scan_id = 0 /\ rows'[i] = [rows[i] EXCEPT !.scan_id = i]]_vars

\* What a command hands to the user: the file at the URL; what install resolved;
\* or what pip makes of guard's unchanged arguments, those that name a release.
Delivered(c) ==
  CASE outcome[c] = "streamed" -> {[release |-> job[c].url, pin |-> TRUE]}
    [] outcome[c] = "installed" /\ job[c].command = "install" ->
         {[release |-> Target(job[c].wants[i]), pin |-> TRUE] : i \in DOMAIN job[c].wants}
    [] outcome[c] = "installed" /\ job[c].command = "guard" ->
         {s \in {job[c].wants[i] : i \in DOMAIN job[c].wants} : s.release # Odd}
    [] OTHER -> {}

\* Scanned for this very command, stored, and not blocked or overruled.
Cleared(c, release) ==
  \E i \in DOMAIN answers[c] :
    LET a == answers[c][i] IN
    /\ a.release = release /\ Get(a.scan_id) = a
    /\ a.verdict # "block" \/ job[c].force

\* Nothing is streamed or installed that was not scanned for this very command,
\* stored, and not blocked, unless the block was overruled: whatever the request
\* calls it, and whatever other commands do meanwhile.  The exception is what
\* guard lets pip choose: for `requests<2` the newest release was cleared, and
\* the one that is installed perhaps never scanned.  (proxy.py, gated_file;
\* su_scan.py, install, guard and _resolve_spec: "we cannot know which version
\* pip will choose")
NothingUnscanned ==
  \A c \in Clients : \A spec \in Delivered(c) :
    Cleared(c, IF spec.pin THEN spec.release ELSE Newest[spec.release])

\* check and check-file are gates of a pipeline: exit code 0 says that every
\* release they were to scan was scanned, the newest one of a bare name, and
\* that none blocks; exit code 1 that one does, or that the command ended in a
\* traceback, which has the same code.  (su_scan.py: "safe=0 / warn=0 / block=1")
ExitCodeTells ==
  \A c \in Clients :
    job[c].command \in {"check", "check-file"} /\ outcome[c] \in DOMAIN ExitCode =>
      /\ ExitCode[outcome[c]] = 0 =>
           \A i \in DOMAIN job[c].wants :
             job[c].wants[i].pin \/ job[c].command = "check" =>
               \E k \in DOMAIN answers[c] :
                 /\ answers[c][k].release = Target(job[c].wants[i])
                 /\ \A m \in DOMAIN answers[c] :
                      answers[c][m].release = answers[c][k].release =>
                        answers[c][m].verdict # "block"
      /\ ExitCode[outcome[c]] = 1 => Told(c, "block") \/ outcome[c] = "crashed"

\* Every command that started ends: no request waits for a server that is gone,
\* and no scan for a client that is.  (su_scan.py, _scan_remote; proxy.py)
EveryCommandEnds == \A c \in Clients : pc[c] # "idle" ~> pc[c] = "done"
=============================================================================
