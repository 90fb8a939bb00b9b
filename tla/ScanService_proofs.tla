------------------------- MODULE ScanService_proofs -------------------------
(***************************************************************************)
(* Proofs about ScanService for any clients, jobs and releases, any number *)
(* of stops of the server and any page size.                               *)
(***************************************************************************)
EXTENDS ScanService, TLAPS

Deciding == {"next"} \cup Scanning

(* The specs a command has left, and what it is scanning, can be scanned. *)
LineOf(c) ==
  /\ pc[c] \in {"idle", "gate"} => left[c] = job[c].wants
  /\ pc[c] = "gate" => job[c].command = "file"
  /\ pc[c] \in Deciding =>
       /\ \A k \in DOMAIN left[c] : left[c][k].pin => left[c][k].release # Odd
       /\ job[c].command = "file" => PathMatches(job[c])
  /\ pc[c] \in Scanning =>
       left[c] # <<>> /\ Current(c).pin /\ Current(c).release \in Releases
  /\ pc[c] \in {"insert", "stamp"} =>
       response[c] \in Records /\ response[c].release = Current(c).release
Line == \A c \in Clients : LineOf(c)

(* Whose row is whose: the row of a client between its two transactions is   *)
(* the record it will be given, still without its id; no other client waits  *)
(* for it, and a row with an id is nobody's to stamp.                        *)
Pending ==
  /\ \A c \in Clients : pc[c] = "insert" => response[c].scan_id = 0
  /\ \A c \in Clients : pc[c] = "stamp" =>
       /\ response[c].scan_id \in DOMAIN rows
       /\ rows[response[c].scan_id] = [response[c] EXCEPT !.scan_id = 0]
  /\ \A c, d \in Clients :
       pc[c] = "stamp" /\ pc[d] = "stamp" /\ response[c].scan_id = response[d].scan_id
         => c = d

Kept ==
  \A c \in Clients : \A i \in DOMAIN answers[c] :
    /\ answers[c][i].scan_id \in DOMAIN rows
    /\ rows[answers[c][i].scan_id] = answers[c][i]

Unique ==
  \A c, d \in Clients : \A i \in DOMAIN answers[c] : \A k \in DOMAIN answers[d] :
    answers[c][i].scan_id = answers[d][k].scan_id => c = d /\ i = k

Ledger == Pending /\ Kept /\ Unique

(* Every spec a command must have scanned was answered or is still to come, *)
(* resolved or not.                                                          *)
Due(c, spec) ==
  /\ job[c].command = "guard" => spec.release # Odd
  /\ job[c].command = "check-file" => spec.pin
Answered(c, release) == \E k \in DOMAIN answers[c] : answers[c][k].release = release
Covered ==
  \A c \in Clients : \A i \in DOMAIN job[c].wants :
    Due(c, job[c].wants[i]) =>
      \/ Answered(c, Target(job[c].wants[i]))
      \/ \E k \in DOMAIN left[c] :
           Target(left[c][k]) = Target(job[c].wants[i]) /\ Due(c, left[c][k])

(* What an outcome says of the command that had it. *)
Justified(c, how) ==
  /\ how \in {"ok", "installed", "streamed"} => left[c] = <<>>
  /\ how \in {"installed", "streamed"} => ~Stopped(c)
  /\ how = "streamed" => job[c].command = "file" /\ PathMatches(job[c])
  /\ how \in {"installed", "declined"} => job[c].command \in {"install", "guard"}
  /\ how = "ok" /\ job[c].command # "post" => ~Told(c, "block")
  /\ how = "blocked" => Told(c, "block")
Settled ==
  \A c \in Clients :
    /\ outcome[c] \in {"ok", "installed", "streamed"} => pc[c] = "done"
    /\ \A how \in Outcomes : outcome[c] = how => Justified(c, how)

IInv == TypeOK /\ Line /\ Ledger /\ Covered /\ Settled

-----------------------------------------------------------------------------
LEMMA JobFacts ==
  ASSUME TypeOK, NEW c \in Clients
  PROVE  /\ job[c] \in JobType /\ job[c].wants \in Seq(Specs)
         /\ job[c].command = "file" => Len(job[c].wants) = 1 /\ job[c].wants[1].pin
         /\ job[c].command # "file" =>
              \A i \in DOMAIN job[c].wants :
                job[c].wants[i].pin => job[c].wants[i].release # Odd
         /\ job[c].command \in {"check", "check-file"} => ~job[c].force
<1>1. job[c] \in Jobs[c] /\ Jobs[c] \subseteq JobType
  BY ServiceAssumption DEF TypeOK, ServiceAssumption
<1> QED
  BY <1>1, ServiceAssumption DEF ServiceAssumption, JobType, Served

(* The steps that end a command change nothing else, and give an outcome that *)
(* the command's answers justify.                                             *)
Closes(c) ==
  \/ GateRefuses(c) \/ NoFile(c) \/ ResolveFails(c) \/ Invalid(c) \/ Unreachable(c)
  \/ Raises(c) \/ Refuses(c) \/ Passes(c) \/ Declines(c) \/ Installs(c) \/ Fetches(c)
  \/ RenderFails(c)

(* The steps that only go on: to the gate, to the first spec, to a scan. *)
Moves(c) == Start(c) \/ GateScans(c) \/ Sends(c)

LEMMA ClosesShape ==
  ASSUME TypeOK, Line, NEW c \in Clients, Closes(c)
  PROVE  /\ UNCHANGED <<Store, Command>>
         /\ \E how \in Outcomes : Ends(c, how) /\ Justified(c, how)
<1> USE DEF Justified, Outcomes
<1>1. CASE GateRefuses(c)
  BY <1>1 DEF GateRefuses
<1>2. CASE NoFile(c)
  BY <1>2 DEF NoFile
<1>3. CASE ResolveFails(c)
  BY <1>3 DEF ResolveFails
<1>4. CASE Invalid(c)
  BY <1>4 DEF Invalid
<1>5. CASE Unreachable(c)
  BY <1>5 DEF Unreachable, Fails
<1>6. CASE Raises(c)
  BY <1>6 DEF Raises, Fails
<1>7. CASE Refuses(c)
  BY <1>7 DEF Refuses, Stopped
<1>8. CASE Passes(c)
  BY <1>8, JobFacts DEF Passes, Decided, Stopped
<1>9. CASE Declines(c)
  BY <1>9 DEF Declines
<1>10. CASE Installs(c)
  BY <1>10 DEF Installs, Decided
<1>11. CASE Fetches(c)
  <2>1. /\ UNCHANGED <<Store, Command>> /\ left[c] = <<>> /\ ~Stopped(c)
        /\ job[c].command = "file" /\ pc[c] = "next"
    BY <1>11 DEF Fetches, Decided, At
  <2>2. PathMatches(job[c])
    BY <2>1 DEF Line, LineOf, Deciding
  <2>3. PICK how \in {"streamed", "failed"} : Ends(c, how)
    BY <1>11 DEF Fetches
  <2> QED
    BY <2>1, <2>2, <2>3
<1>12. CASE RenderFails(c)
  BY <1>12 DEF RenderFails
<1> QED
  BY <1>1, <1>2, <1>3, <1>4, <1>5, <1>6, <1>7, <1>8, <1>9, <1>10, <1>11, <1>12 DEF Closes

LEMMA MovesShape ==
  ASSUME TypeOK, Line, NEW c \in Clients, Moves(c)
  PROVE  /\ UNCHANGED <<Store, Command, outcome>>
         /\ pc' = [pc EXCEPT ![c] = pc'[c]]
         /\ pc[c] \in {"idle", "gate", "next"}
         /\ pc'[c] \in {"gate", "next", "scanning"}
<1>1. CASE Start(c)
  BY <1>1 DEF Start, Goes, At, TypeOK
<1>2. CASE GateScans(c)
  BY <1>2 DEF GateScans, Goes, At, TypeOK
<1>3. CASE Sends(c)
  BY <1>3 DEF Sends, Ready, Looking, Goes, At, TypeOK
<1> QED
  BY <1>1, <1>2, <1>3 DEF Moves

(* Every step is one of nine. *)
LEMMA StepShape ==
  ASSUME Next
  PROVE  \/ \E c \in Clients : \/ Moves(c) \/ Closes(c) \/ Skips(c) \/ Resolves(c)
                               \/ Scans(c) \/ Inserts(c) \/ Stamps(c) \/ Leaves(c)
         \/ Stop \/ Restart \/ UNCHANGED vars
BY DEF Next, Progress, Finished, Moves, Closes

(* What each of the other steps does, spelled out. *)
LEMMA SkipsShape ==
  ASSUME TypeOK, NEW c \in Clients, Skips(c)
  PROVE  /\ UNCHANGED <<Store, pc, job, response, answers, outcome>>
         /\ pc[c] = "next" /\ left[c] # <<>> /\ ~Due(c, Current(c))
         /\ left' = [left EXCEPT ![c] = Tail(left[c])]
BY DEF Skips, Looking, At, Due

LEMMA ResolvesShape ==
  ASSUME TypeOK, NEW c \in Clients, Resolves(c)
  PROVE  /\ UNCHANGED <<Store, pc, job, response, answers, outcome>>
         /\ pc[c] = "next" /\ left[c] # <<>> /\ Current(c).release # Odd
         /\ job[c].command # "check-file"
         /\ \E l \in Seq(Specs) :
              /\ left' = [left EXCEPT ![c] = l] /\ DOMAIN l = DOMAIN left[c]
              /\ l[1].release # Odd
              /\ \A k \in DOMAIN l : /\ Target(l[k]) = Target(left[c][k])
                                     /\ k # 1 => l[k] = left[c][k]
<1> DEFINE spec == [release |-> Target(left[c][1]), pin |-> TRUE]
           l    == [left[c] EXCEPT ![1] = spec]
<1>1. left[c] \in Seq(Specs) /\ left[c] # <<>>
  BY DEF TypeOK, Resolves, MustResolve, Looking
<1>2. 1 \in DOMAIN left[c] /\ left[c][1] \in Specs
  BY <1>1
<1>3. ~left[c][1].pin /\ left[c][1].release # Odd
  BY <1>1 DEF Resolves, MustResolve, Current
<1>4. Target(left[c][1]) \in Releases
  BY <1>2, <1>3, ServiceAssumption DEF Target, Specs, ServiceAssumption
<1>5. spec \in Specs /\ spec.release # Odd /\ Target(spec) = Target(left[c][1])
  BY <1>4, ServiceAssumption DEF Target, Specs, ServiceAssumption
<1> HIDE DEF spec
<1>6. l \in Seq(Specs) /\ DOMAIN l = DOMAIN left[c] /\ l[1] = spec
      /\ \A k \in DOMAIN l : k # 1 => l[k] = left[c][k]
  BY <1>1, <1>2, <1>5
<1>7. \A k \in DOMAIN l : Target(l[k]) = Target(left[c][k])
  BY <1>5, <1>6
<1>8. left' = [left EXCEPT ![c] = l]
  BY DEF Resolves, spec
<1> QED
  BY <1>1, <1>5, <1>6, <1>7, <1>8 DEF Resolves, MustResolve, Looking, At

LEMMA ScansShape ==
  ASSUME TypeOK, Line, NEW c \in Clients, Scans(c)
  PROVE  /\ UNCHANGED <<Store, job, left, answers, outcome>>
         /\ pc[c] = "scanning" /\ pc' = [pc EXCEPT ![c] = "insert"]
         /\ \E r \in Records : /\ r.release = Current(c).release /\ r.scan_id = 0
                               /\ response' = [response EXCEPT ![c] = r]
<1>1. PICK v \in Verdicts : response' = [response EXCEPT ![c] =
             [release |-> Current(c).release, verdict |-> v, scan_id |-> 0]]
  BY DEF Scans
<1>2. pc[c] = "scanning" /\ Current(c).release \in Releases
  BY DEF Scans, At, Line, LineOf, Scanning
<1> QED
  BY <1>1, <1>2 DEF Scans, Goes, Records

LEMMA InsertsShape ==
  ASSUME TypeOK, Line, NEW c \in Clients, Inserts(c)
  PROVE  /\ UNCHANGED <<up, stops, job, left, answers, outcome>>
         /\ pc[c] = "insert" /\ pc' = [pc EXCEPT ![c] = "stamp"]
         /\ rows' = Append(rows, response[c])
         /\ rows' \in Seq(Records) /\ Len(rows') = Len(rows) + 1
         /\ \E r \in Records : /\ r = [response[c] EXCEPT !.scan_id = Len(rows) + 1]
                               /\ r.release = response[c].release
                               /\ response' = [response EXCEPT ![c] = r]
<1>1. pc[c] = "insert" /\ response[c] \in Records /\ rows \in Seq(Records)
  BY DEF Inserts, At, Line, LineOf, TypeOK
<1>2. rows' = Append(rows, response[c]) /\ rows' \in Seq(Records)
      /\ Len(rows') = Len(rows) + 1 /\ Len(rows) + 1 \in Nat
  BY <1>1 DEF Inserts
<1>3. response' = [response EXCEPT ![c] = [response[c] EXCEPT !.scan_id = Len(rows) + 1]]
  BY <1>2 DEF Inserts
<1>4. [response[c] EXCEPT !.scan_id = Len(rows) + 1] \in Records
  BY <1>1, <1>2 DEF Records
<1> QED
  BY <1>1, <1>2, <1>3, <1>4 DEF Inserts, Goes, Records

LEMMA StampsShape ==
  ASSUME TypeOK, Line, Pending, NEW c \in Clients, Stamps(c)
  PROVE  /\ UNCHANGED <<up, stops, job, response, outcome>>
         /\ pc[c] = "stamp"
         /\ pc' = [pc EXCEPT ![c] = pc'[c]]
         /\ pc'[c] \in {"next", "done"}
         /\ response[c] \in Records /\ response[c].scan_id \in DOMAIN rows
         /\ rows' = [rows EXCEPT ![response[c].scan_id] = response[c]]
         /\ rows' \in Seq(Records) /\ Len(rows') = Len(rows)
         /\ left[c] # <<>> /\ left' = [left EXCEPT ![c] = Tail(left[c])]
         /\ answers' = [answers EXCEPT ![c] = Append(answers[c], response[c])]
<1>1. pc[c] = "stamp" /\ response[c] \in Records /\ rows \in Seq(Records) /\ left[c] # <<>>
      /\ response[c].scan_id \in DOMAIN rows
  BY DEF Stamps, At, Line, LineOf, Pending, TypeOK, Scanning
<1>2. rows' = [rows EXCEPT ![response[c].scan_id] = response[c]] /\ Answers(c)
  BY DEF Stamps
<1>3. rows' \in Seq(Records) /\ Len(rows') = Len(rows)
  BY <1>1, <1>2
<1> QED
  BY <1>1, <1>2, <1>3 DEF Answers, Goes, TypeOK

LEMMA LeavesShape ==
  ASSUME TypeOK, NEW c \in Clients, Leaves(c)
  PROVE  /\ UNCHANGED <<Store, Command>>
         /\ pc[c] \notin {"idle", "done"} /\ outcome[c] = "none"
         /\ \E how \in {"lost", "failed", "crashed"} : outcome' = [outcome EXCEPT ![c] = how]
         /\ pc' = [pc EXCEPT ![c] = pc'[c]] /\ pc'[c] \in {pc[c], "done"}
BY DEF Leaves, Fails, Goes, TypeOK

LEMMA StopShape ==
  ASSUME TypeOK, Stop
  PROVE  /\ UNCHANGED <<rows, Command>> /\ up' = FALSE /\ stops' \in 0 .. MaxStops
         /\ pc' \in [Clients -> {"idle", "gate", "next", "done"} \cup Scanning]
         /\ \A c \in Clients : pc'[c] \in {pc[c], "done"}
         /\ outcome' \in [Clients -> Outcomes]
         /\ \A c \in Clients : outcome'[c] = outcome[c] \/ outcome'[c] = "failed"
BY ServiceAssumption DEF Stop, TypeOK, Outcomes, ServiceAssumption

-----------------------------------------------------------------------------
LEMMA InitIInv == Init => IInv
<1> SUFFICES ASSUME Init PROVE IInv
  OBVIOUS
<1>1. TypeOK
  <2>1. \A c \in Clients : job[c] \in Jobs[c] /\ job[c] \in JobType
    BY ServiceAssumption DEF Init, ServiceAssumption
  <2>2. left \in [Clients -> Seq(Specs)]
    BY <2>1 DEF Init, JobType
  <2> QED
    BY <2>1, <2>2, ServiceAssumption DEF Init, TypeOK, Outcomes, ServiceAssumption
<1>2. Line
  BY DEF Init, Line, LineOf, Deciding, Scanning
<1>3. Ledger
  BY DEF Init, Ledger, Pending, Kept, Unique
<1>4. Covered
  BY DEF Init, Covered, Due
<1>5. Settled
  BY DEF Init, Settled, Justified
<1> QED
  BY <1>1, <1>2, <1>3, <1>4, <1>5 DEF IInv

(* job never changes, so what is said of it keeps its truth. *)
LEMMA TypeNext == TypeOK /\ Line /\ Pending /\ [Next]_vars => TypeOK'
<1> SUFFICES ASSUME TypeOK, Line, Pending, [Next]_vars PROVE TypeOK'
  OBVIOUS
<1> USE DEF Store, Command
<1>1. CASE \E c \in Clients : Moves(c)
  BY <1>1, MovesShape DEF TypeOK, Scanning
<1>2. CASE \E c \in Clients : Closes(c)
  <2>1. PICK c \in Clients, how \in Outcomes :
          UNCHANGED <<Store, Command>> /\ Ends(c, how)
    BY <1>2, ClosesShape
  <2> QED
    BY <2>1 DEF TypeOK, Ends, Goes
<1>3. CASE \E c \in Clients : Skips(c)
  <2>1. PICK c \in Clients : Skips(c)
    BY <1>3
  <2>2. Tail(left[c]) \in Seq(Specs)
    BY <2>1, SkipsShape DEF TypeOK
  <2> QED
    BY <2>1, <2>2, SkipsShape DEF TypeOK
<1>4. CASE \E c \in Clients : Resolves(c)
  BY <1>4, ResolvesShape DEF TypeOK
<1>5. CASE \E c \in Clients : Scans(c)
  BY <1>5, ScansShape DEF TypeOK, Scanning
<1>6. CASE \E c \in Clients : Inserts(c)
  BY <1>6, InsertsShape DEF TypeOK, Scanning
<1>7. CASE \E c \in Clients : Stamps(c)
  <2>1. PICK c \in Clients : Stamps(c)
    BY <1>7
  <2>2. Tail(left[c]) \in Seq(Specs) /\ Append(answers[c], response[c]) \in Seq(Records)
    BY <2>1, StampsShape DEF TypeOK
  <2> QED
    BY <2>1, <2>2, StampsShape DEF TypeOK
<1>8. CASE \E c \in Clients : Leaves(c)
  BY <1>8, LeavesShape DEF TypeOK, Outcomes
<1>9. CASE Stop
  BY <1>9, StopShape DEF TypeOK
<1>10. CASE Restart
  BY <1>10 DEF Restart, TypeOK
<1>11. CASE UNCHANGED vars
  BY <1>11 DEF vars, TypeOK
<1> QED
  BY <1>1, <1>2, <1>3, <1>4, <1>5, <1>6, <1>7, <1>8, <1>9, <1>10, <1>11, StepShape

-----------------------------------------------------------------------------
(* What holds of a client's line is a matter of its own variables. *)
LEMMA LineFrame ==
  ASSUME Line, NEW d \in Clients, job' = job, left'[d] = left[d],
         response'[d] = response[d], pc'[d] \in {pc[d], "done"}
  PROVE  LineOf(d)'
<1> USE DEF Deciding, Scanning
<1>1. LineOf(d)
  BY DEF Line
<1>2. CASE pc'[d] = "done"
  BY <1>2 DEF LineOf
<1>3. CASE pc'[d] = pc[d]
  <2>1. Current(d)' = Current(d) /\ job'[d] = job[d]
    BY DEF Current
  <2>2. PathMatches(job'[d]) <=> PathMatches(job[d])
    BY <2>1
  <2> QED
    BY <1>1, <1>3, <2>1, <2>2 DEF LineOf
<1> QED
  BY <1>2, <1>3

LEMMA LineMoves ==
  ASSUME TypeOK, Line, NEW c \in Clients, Moves(c)
  PROVE  LineOf(c)'
<1> USE DEF Store, Command, Deciding, Scanning, Current
<1>1. job' = job /\ left' = left /\ LineOf(c)
  BY MovesShape DEF Line
<1>2. CASE Start(c)
  <2>1. /\ pc[c] = "idle" /\ left[c] = job[c].wants
        /\ pc'[c] = IF job[c].command = "file" THEN "gate" ELSE "next"
    BY <1>1, <1>2 DEF Start, At, Goes, TypeOK, LineOf
  <2> QED
    BY <1>1, <2>1, JobFacts DEF LineOf
<1>3. CASE GateScans(c)
  <2>1. /\ pc[c] = "gate" /\ left[c] = job[c].wants /\ job[c].command = "file"
        /\ pc'[c] = "next" /\ PathMatches(job[c]) /\ job[c].wants[1].release # Odd
    BY <1>1, <1>3 DEF GateScans, At, Goes, TypeOK, LineOf
  <2>2. DOMAIN job[c].wants = {1}
    BY <2>1, JobFacts
  <2> QED
    BY <1>1, <2>1, <2>2 DEF LineOf
<1>4. CASE Sends(c)
  <2>1. /\ pc[c] = "next" /\ pc'[c] = "scanning" /\ left[c] # <<>> /\ Head(left[c]).pin
    BY <1>4 DEF Sends, Ready, Looking, At, Goes, TypeOK
  <2>2. left[c] \in Seq(Specs) /\ 1 \in DOMAIN left[c] /\ Head(left[c]) = left[c][1]
    BY <2>1 DEF TypeOK
  <2>3. /\ \A k \in DOMAIN left[c] : left[c][k].pin => left[c][k].release # Odd
        /\ job[c].command = "file" => PathMatches(job[c])
    BY <1>1, <2>1 DEF LineOf
  <2>4. Head(left[c]).release \in Releases
    <3>1. left[c][1] \in Specs
      BY <2>2
    <3>2. left[c][1].release # Odd
      BY <2>1, <2>2, <2>3
    <3> QED
      BY <2>2, <3>1, <3>2 DEF Specs
  <2> QED
    BY <1>1, <2>1, <2>3, <2>4 DEF LineOf
<1> QED
  BY <1>2, <1>3, <1>4 DEF Moves

(* A line that lost its first spec is still one that can be scanned. *)
LEMMA LineShortens ==
  ASSUME TypeOK, Line, NEW c \in Clients, job' = job, left[c] # <<>>,
         left'[c] = Tail(left[c]), pc[c] \in Deciding, pc'[c] \in {"next", "done"}
  PROVE  LineOf(c)'
<1>1. left[c] \in Seq(Specs)
  BY DEF TypeOK
<1>2. \A k \in DOMAIN Tail(left[c]) :
        k + 1 \in DOMAIN left[c] /\ Tail(left[c])[k] = left[c][k + 1]
  BY <1>1
<1>3. /\ \A k \in DOMAIN left[c] : left[c][k].pin => left[c][k].release # Odd
      /\ job[c].command = "file" => PathMatches(job[c])
  BY DEF Line, LineOf
<1> QED
  BY <1>2, <1>3 DEF LineOf, Deciding, Scanning

LEMMA LineNext == TypeOK /\ Line /\ Pending /\ [Next]_vars => Line'
<1> SUFFICES ASSUME TypeOK, Line, Pending, [Next]_vars, NEW d \in Clients
             PROVE  LineOf(d)'
  BY DEF Line
<1> USE DEF Store, Command
<1>1. CASE \E c \in Clients : Moves(c)
  <2>1. PICK c \in Clients : Moves(c)
    BY <1>1
  <2> QED
    BY <2>1, MovesShape, LineMoves, LineFrame DEF TypeOK
<1>2. CASE \E c \in Clients : Closes(c)
  <2>1. PICK c \in Clients, how \in Outcomes :
          UNCHANGED <<Store, Command>> /\ Ends(c, how)
    BY <1>2, ClosesShape
  <2> QED
    BY <2>1, LineFrame DEF TypeOK, Ends, Goes
<1>3. CASE \E c \in Clients : Skips(c)
  <2>1. PICK c \in Clients : Skips(c)
    BY <1>3
  <2> QED
    BY <2>1, SkipsShape, LineShortens, LineFrame DEF TypeOK, Deciding
<1>4. CASE \E c \in Clients : Resolves(c)
  <2>1. PICK c \in Clients : Resolves(c)
    BY <1>4
  <2>2. PICK l \in Seq(Specs) :
          /\ left' = [left EXCEPT ![c] = l] /\ DOMAIN l = DOMAIN left[c]
          /\ l[1].release # Odd
          /\ \A k \in DOMAIN l : k # 1 => l[k] = left[c][k]
    BY <2>1, ResolvesShape
  <2>3. /\ left[c] \in Seq(Specs) /\ left[c] # <<>>
        /\ pc[c] = "next" /\ UNCHANGED <<pc, job, response>>
    BY <2>1, ResolvesShape DEF TypeOK, Current
  <2>4. \A k \in DOMAIN left[c] : left[c][k].pin => left[c][k].release # Odd
    BY <2>3 DEF Line, LineOf, Deciding
  <2>5. \A k \in DOMAIN l : l[k].pin => l[k].release # Odd
    BY <2>2, <2>3, <2>4
  <2>6. job[c].command = "file" => PathMatches(job[c])
    BY <2>3 DEF Line, LineOf, Deciding
  <2>7. left'[c] = l /\ pc'[c] = "next" /\ job' = job
    BY <2>2, <2>3 DEF TypeOK
  <2>8. CASE d = c
    BY <2>5, <2>6, <2>7, <2>8 DEF LineOf, Deciding, Scanning
  <2>9. CASE d # c
    BY <2>2, <2>3, <2>9, LineFrame DEF TypeOK
  <2> QED
    BY <2>8, <2>9
<1>5. CASE \E c \in Clients : Scans(c)
  <2>1. PICK c \in Clients : Scans(c)
    BY <1>5
  <2>2. LineOf(c) /\ pc[c] = "scanning" /\ pc'[c] = "insert"
        /\ job' = job /\ left' = left /\ response'[c] \in Records
        /\ response'[c].release = Head(left[c]).release
    BY <2>1, ScansShape DEF TypeOK, Line, Current
  <2>3. LineOf(c)'
    BY <2>2 DEF LineOf, Deciding, Scanning, Current
  <2> QED
    BY <2>1, <2>3, ScansShape, LineFrame DEF TypeOK
<1>6. CASE \E c \in Clients : Inserts(c)
  <2>1. PICK c \in Clients : Inserts(c)
    BY <1>6
  <2>2. LineOf(c) /\ pc[c] = "insert" /\ pc'[c] = "stamp"
        /\ job' = job /\ left' = left /\ response'[c] \in Records
        /\ response'[c].release = response[c].release
    BY <2>1, InsertsShape DEF TypeOK, Line
  <2>3. LineOf(c)'
    BY <2>2 DEF LineOf, Deciding, Scanning, Current
  <2> QED
    BY <2>1, <2>3, InsertsShape, LineFrame DEF TypeOK
<1>7. CASE \E c \in Clients : Stamps(c)
  <2>1. PICK c \in Clients : Stamps(c)
    BY <1>7
  <2> QED
    <3>1. /\ job' = job /\ response' = response /\ pc' = [pc EXCEPT ![c] = pc'[c]]
          /\ pc[c] = "stamp" /\ pc'[c] \in {"next", "done"}
          /\ left[c] # <<>> /\ left' = [left EXCEPT ![c] = Tail(left[c])]
      BY <2>1, StampsShape
    <3>2. CASE d = c
      BY <3>1, <3>2, LineShortens DEF TypeOK, Deciding, Scanning
    <3>3. CASE d # c
      BY <3>1, <3>3, LineFrame DEF TypeOK
    <3> QED
      BY <3>2, <3>3
<1>8. CASE \E c \in Clients : Leaves(c)
  BY <1>8, LeavesShape, LineFrame DEF TypeOK
<1>9. CASE Stop
  BY <1>9, StopShape, LineFrame
<1>10. CASE Restart
  BY <1>10, LineFrame DEF Restart
<1>11. CASE UNCHANGED vars
  BY <1>11, LineFrame DEF vars
<1> QED
  BY <1>1, <1>2, <1>3, <1>4, <1>5, <1>6, <1>7, <1>8, <1>9, <1>10, <1>11, StepShape

(* The steps that write no row and give no answer leave the ledger alone. *)
LEMMA LedgerFrame ==
  ASSUME Ledger, UNCHANGED <<rows, response, answers>>,
         \A c \in Clients : pc'[c] \in {"insert", "stamp"} => pc'[c] = pc[c]
  PROVE  Ledger'
BY DEF Ledger, Pending, Kept, Unique

(* A new record has an id that no row and no answer had. *)
LEMMA LedgerInserts ==
  ASSUME TypeOK, Line, Ledger, NEW c \in Clients, Inserts(c)
  PROVE  Ledger'
<1> DEFINE id == Len(rows) + 1
<1>1. PICK r \in Records : /\ r = [response[c] EXCEPT !.scan_id = id]
                           /\ r.release = response[c].release
                           /\ response' = [response EXCEPT ![c] = r]
  BY InsertsShape
<1>2. /\ pc[c] = "insert" /\ pc' = [pc EXCEPT ![c] = "stamp"]
      /\ rows' = Append(rows, response[c]) /\ answers' = answers
  BY InsertsShape
<1>3. rows \in Seq(Records) /\ response[c] \in Records /\ response[c].scan_id = 0
  BY <1>2 DEF TypeOK, Line, LineOf, Ledger, Pending
<1>4. /\ DOMAIN rows' = DOMAIN rows \cup {id} /\ id \notin DOMAIN rows
      /\ \A i \in DOMAIN rows : rows'[i] = rows[i]
      /\ rows'[id] = response[c]
  BY <1>2, <1>3
<1>5. r.scan_id = id /\ [r EXCEPT !.scan_id = 0] = response[c]
  BY <1>1, <1>3 DEF Records
<1>6. \A d \in Clients : /\ d # c => response'[d] = response[d] /\ pc'[d] = pc[d]
                         /\ d = c => response'[d] = r /\ pc'[d] = "stamp"
  BY <1>1, <1>2 DEF TypeOK
<1>7. Pending'
  <2>1. \A d \in Clients : pc'[d] = "insert" => response'[d].scan_id = 0
    BY <1>6 DEF Ledger, Pending
  <2>2. \A d \in Clients : d # c /\ pc'[d] = "stamp" =>
          /\ response'[d].scan_id \in DOMAIN rows
          /\ rows'[response'[d].scan_id] = [response'[d] EXCEPT !.scan_id = 0]
    BY <1>4, <1>6 DEF Ledger, Pending
  <2>3. /\ response'[c].scan_id = id
        /\ rows'[id] = [response'[c] EXCEPT !.scan_id = 0]
    BY <1>4, <1>5, <1>6
  <2>4. \A d, e \in Clients :
          pc'[d] = "stamp" /\ pc'[e] = "stamp" /\ response'[d].scan_id = response'[e].scan_id
            => d = e
    <3>1. \A d, e \in Clients :
            pc[d] = "stamp" /\ pc[e] = "stamp" /\ response[d].scan_id = response[e].scan_id
              => d = e
      BY DEF Ledger, Pending
    <3>2. \A d \in Clients : d # c /\ pc'[d] = "stamp" =>
            /\ pc[d] = "stamp" /\ response'[d].scan_id = response[d].scan_id
            /\ response'[d].scan_id # response'[c].scan_id
      <4>1. \A d \in Clients : d # c => response'[d] = response[d] /\ pc'[d] = pc[d]
        BY <1>6
      <4>2. response'[c].scan_id \notin DOMAIN rows
        BY <1>4, <2>3
      <4> QED
        BY <2>2, <4>1, <4>2
    <3> QED
      BY <3>1, <3>2
  <2>5. \A d \in Clients : pc'[d] = "stamp" =>
          /\ response'[d].scan_id \in DOMAIN rows'
          /\ rows'[response'[d].scan_id] = [response'[d] EXCEPT !.scan_id = 0]
    <3> TAKE d \in Clients
    <3>1. CASE d = c
      BY <1>4, <2>3, <3>1
    <3>2. CASE d # c
      BY <1>4, <2>2, <3>2
    <3> QED
      BY <3>1, <3>2
  <2> QED
    BY <2>1, <2>4, <2>5 DEF Pending
<1>8. Kept'
  BY <1>2, <1>4 DEF Ledger, Kept
<1>9. Unique'
  BY <1>2 DEF Ledger, Unique
<1> QED
  BY <1>7, <1>8, <1>9 DEF Ledger

(* The row that is stamped had no id yet, so nobody was given it. *)
LEMMA LedgerStamps ==
  ASSUME TypeOK, Line, Ledger, NEW c \in Clients, Stamps(c)
  PROVE  Ledger'
<1> DEFINE id == response[c].scan_id
           n  == Len(answers[c]) + 1
<1>1. /\ pc[c] = "stamp" /\ pc'[c] \in {"next", "done"} /\ pc' = [pc EXCEPT ![c] = pc'[c]]
      /\ response' = response /\ response[c] \in Records /\ id \in DOMAIN rows
      /\ rows' = [rows EXCEPT ![id] = response[c]]
      /\ answers' = [answers EXCEPT ![c] = Append(answers[c], response[c])]
  BY StampsShape DEF Ledger
<1>2. rows \in Seq(Records) /\ answers[c] \in Seq(Records)
  BY DEF TypeOK
<1>3. rows[id].scan_id = 0 /\ id # 0
  <2>1. rows[id] = [response[c] EXCEPT !.scan_id = 0]
    BY <1>1 DEF Ledger, Pending
  <2> QED
    BY <1>1, <1>2, <2>1 DEF Records
<1>4. \A d \in Clients : \A i \in DOMAIN answers[d] : answers[d][i].scan_id # id
  BY <1>3 DEF Ledger, Kept
<1>5. /\ DOMAIN answers'[c] = DOMAIN answers[c] \cup {n} /\ n \notin DOMAIN answers[c]
      /\ \A i \in DOMAIN answers[c] : answers'[c][i] = answers[c][i]
      /\ answers'[c][n] = response[c]
      /\ \A d \in Clients : d # c => answers'[d] = answers[d] /\ pc'[d] = pc[d]
  BY <1>1, <1>2 DEF TypeOK
<1>6. /\ DOMAIN rows' = DOMAIN rows /\ rows'[id] = response[c]
      /\ \A i \in DOMAIN rows : i # id => rows'[i] = rows[i]
  BY <1>1, <1>2
<1>7. Pending'
  <2>1. \A d \in Clients : pc'[d] \in {"insert", "stamp"} => d # c /\ pc[d] = pc'[d]
    BY <1>1, <1>5
  <2>2. \A d \in Clients : pc'[d] = "stamp" => response[d].scan_id # id
    BY <1>1, <2>1 DEF Ledger, Pending
  <2> QED
    BY <1>1, <1>6, <2>1, <2>2 DEF Ledger, Pending
<1>8. Kept'
  BY <1>4, <1>5, <1>6, <1>1 DEF Ledger, Kept
<1>9. Unique'
  BY <1>4, <1>5 DEF Ledger, Unique
<1> QED
  BY <1>7, <1>8, <1>9 DEF Ledger

LEMMA LedgerNext == TypeOK /\ Line /\ Ledger /\ [Next]_vars => Ledger'
<1> SUFFICES ASSUME TypeOK, Line, Ledger, [Next]_vars PROVE Ledger'
  OBVIOUS
<1> USE DEF Store, Command
<1>1. CASE \E c \in Clients : Moves(c)
  BY <1>1, MovesShape, LedgerFrame DEF TypeOK
<1>2. CASE \E c \in Clients : Closes(c)
  <2>1. PICK c \in Clients, how \in Outcomes :
          UNCHANGED <<Store, Command>> /\ Ends(c, how)
    BY <1>2, ClosesShape
  <2> QED
    BY <2>1, LedgerFrame DEF TypeOK, Ends, Goes
<1>3. CASE \E c \in Clients : Skips(c)
  BY <1>3, SkipsShape, LedgerFrame
<1>4. CASE \E c \in Clients : Resolves(c)
  BY <1>4, ResolvesShape, LedgerFrame
<1>5. CASE \E c \in Clients : Scans(c)
  <2>1. PICK c \in Clients : Scans(c)
    BY <1>5
  <2>2. \A d \in Clients : /\ d # c => response'[d] = response[d] /\ pc'[d] = pc[d]
                           /\ d = c => response'[d].scan_id = 0 /\ pc'[d] = "insert"
    BY <2>1, ScansShape DEF TypeOK
  <2>3. rows' = rows /\ answers' = answers
    BY <2>1, ScansShape
  <2> QED
    BY <2>2, <2>3 DEF Ledger, Pending, Kept, Unique
<1>6. CASE \E c \in Clients : Inserts(c)
  BY <1>6, LedgerInserts
<1>7. CASE \E c \in Clients : Stamps(c)
  BY <1>7, LedgerStamps
<1>8. CASE \E c \in Clients : Leaves(c)
  BY <1>8, LeavesShape, LedgerFrame DEF TypeOK
<1>9. CASE Stop
  BY <1>9, StopShape, LedgerFrame
<1>10. CASE Restart
  BY <1>10, LedgerFrame DEF Restart
<1>11. CASE UNCHANGED vars
  BY <1>11, LedgerFrame DEF vars
<1> QED
  BY <1>1, <1>2, <1>3, <1>4, <1>5, <1>6, <1>7, <1>8, <1>9, <1>10, <1>11, StepShape

-----------------------------------------------------------------------------
(* What is due of one command stays so while its answers grow and its line  *)
(* keeps what is due.                                                        *)
LEMMA CoveredFrame ==
  ASSUME Covered, job' = job, answers' = answers, left' = left
  PROVE  Covered'
BY DEF Covered, Due, Answered

LEMMA CoveredNext == TypeOK /\ Line /\ Ledger /\ Covered /\ [Next]_vars => Covered'
<1> SUFFICES ASSUME TypeOK, Line, Ledger, Covered, [Next]_vars PROVE Covered'
  OBVIOUS
<1> USE DEF Store, Command
<1>1. CASE \E c \in Clients : Moves(c)
  BY <1>1, MovesShape, CoveredFrame
<1>2. CASE \E c \in Clients : Closes(c)
  BY <1>2, ClosesShape, CoveredFrame
<1>3. CASE \E c \in Clients : Skips(c)
  <2>1. PICK c \in Clients : Skips(c)
    BY <1>3
  <2>2. /\ job' = job /\ answers' = answers /\ left' = [left EXCEPT ![c] = Tail(left[c])]
        /\ left[c] \in Seq(Specs) /\ left[c] # <<>> /\ ~Due(c, left[c][1])
    BY <2>1, SkipsShape DEF TypeOK, Current
  <2>3. \A k \in DOMAIN left[c] :
          k # 1 => k - 1 \in DOMAIN Tail(left[c]) /\ Tail(left[c])[k - 1] = left[c][k]
    BY <2>2
  <2>4. SUFFICES ASSUME NEW d \in Clients, NEW i \in DOMAIN job[d].wants,
                        Due(d, job[d].wants[i]), ~Answered(d, Target(job[d].wants[i]))
                 PROVE  \E k \in DOMAIN left'[d] :
                          Target(left'[d][k]) = Target(job[d].wants[i]) /\ Due(d, left'[d][k])
    BY <2>2 DEF Covered, Due, Answered
  <2>5. PICK k \in DOMAIN left[d] :
          Target(left[d][k]) = Target(job[d].wants[i]) /\ Due(d, left[d][k])
    BY <2>4 DEF Covered
  <2>6. CASE d = c
    BY <2>2, <2>3, <2>5, <2>6 DEF TypeOK
  <2>7. CASE d # c
    BY <2>2, <2>5, <2>7 DEF TypeOK
  <2> QED
    BY <2>6, <2>7
<1>4. CASE \E c \in Clients : Resolves(c)
  <2>1. PICK c \in Clients : Resolves(c)
    BY <1>4
  <2>2. PICK l \in Seq(Specs) :
          /\ left' = [left EXCEPT ![c] = l] /\ DOMAIN l = DOMAIN left[c]
          /\ l[1].release # Odd
          /\ \A k \in DOMAIN l : /\ Target(l[k]) = Target(left[c][k])
                                 /\ k # 1 => l[k] = left[c][k]
    BY <2>1, ResolvesShape
  <2>3. UNCHANGED <<job, answers>> /\ job[c].command # "check-file"
    BY <2>1, ResolvesShape
  <2>4. SUFFICES ASSUME NEW d \in Clients, NEW i \in DOMAIN job[d].wants,
                        Due(d, job[d].wants[i]), ~Answered(d, Target(job[d].wants[i]))
                 PROVE  \E k \in DOMAIN left'[d] :
                          Target(left'[d][k]) = Target(job[d].wants[i]) /\ Due(d, left'[d][k])
    BY <2>3 DEF Covered, Due, Answered
  <2>5. PICK k \in DOMAIN left[d] :
          Target(left[d][k]) = Target(job[d].wants[i]) /\ Due(d, left[d][k])
    BY <2>4 DEF Covered
  <2>6. CASE d = c
    BY <2>2, <2>3, <2>5, <2>6 DEF TypeOK, Due
  <2>7. CASE d # c
    BY <2>2, <2>5, <2>7 DEF TypeOK
  <2> QED
    BY <2>6, <2>7
<1>5. CASE \E c \in Clients : Scans(c)
  BY <1>5, ScansShape, CoveredFrame
<1>6. CASE \E c \in Clients : Inserts(c)
  BY <1>6, InsertsShape, CoveredFrame
<1>7. CASE \E c \in Clients : Stamps(c)
  <2>1. PICK c \in Clients : Stamps(c)
    BY <1>7
  <2>2. /\ job' = job /\ left' = [left EXCEPT ![c] = Tail(left[c])] /\ left[c] # <<>>
        /\ answers' = [answers EXCEPT ![c] = Append(answers[c], response[c])]
        /\ left[c] \in Seq(Specs) /\ answers[c] \in Seq(Records)
        /\ response[c].release = Target(left[c][1])
    BY <2>1, StampsShape DEF TypeOK, Ledger, Line, LineOf, Current, Scanning, Target
  <2>3. \A k \in DOMAIN left[c] :
          k # 1 => k - 1 \in DOMAIN Tail(left[c]) /\ Tail(left[c])[k - 1] = left[c][k]
    BY <2>2
  <2>4. /\ \A k \in DOMAIN answers[c] : k \in DOMAIN answers'[c] /\ answers'[c][k] = answers[c][k]
        /\ Len(answers[c]) + 1 \in DOMAIN answers'[c]
        /\ answers'[c][Len(answers[c]) + 1] = response[c]
    BY <2>2 DEF TypeOK
  <2>5. SUFFICES ASSUME NEW d \in Clients, NEW i \in DOMAIN job[d].wants,
                        Due(d, job[d].wants[i]), ~Answered(d, Target(job[d].wants[i]))'
                 PROVE  \E k \in DOMAIN left'[d] :
                          Target(left'[d][k]) = Target(job[d].wants[i]) /\ Due(d, left'[d][k])
    BY <2>2 DEF Covered, Due, Answered
  <2>6. CASE d = c
    <3>1. /\ ~Answered(c, Target(job[c].wants[i]))
          /\ response[c].release # Target(job[c].wants[i])
      <4>1. \A k \in DOMAIN answers'[c] : answers'[c][k].release # Target(job[c].wants[i])
        BY <2>2, <2>5, <2>6 DEF Answered
      <4> QED
        BY <2>4, <4>1 DEF Answered
    <3>2. PICK k \in DOMAIN left[c] :
            Target(left[c][k]) = Target(job[c].wants[i]) /\ Due(c, left[c][k])
      BY <2>5, <2>6, <3>1 DEF Covered
    <3>3. k # 1
      BY <2>2, <3>1, <3>2
    <3> QED
      BY <2>2, <2>3, <2>6, <3>2, <3>3 DEF TypeOK
  <2>7. CASE d # c
    <3>1. answers'[d] = answers[d] /\ left'[d] = left[d]
      BY <2>2, <2>7 DEF TypeOK
    <3>2. ~Answered(d, Target(job[d].wants[i]))
      BY <2>2, <2>5, <3>1 DEF Answered
    <3>3. PICK k \in DOMAIN left[d] :
            Target(left[d][k]) = Target(job[d].wants[i]) /\ Due(d, left[d][k])
      BY <2>5, <3>2 DEF Covered
    <3> QED
      BY <3>1, <3>3
  <2> QED
    BY <2>6, <2>7
<1>8. CASE \E c \in Clients : Leaves(c)
  BY <1>8, LeavesShape, CoveredFrame
<1>9. CASE Stop
  BY <1>9, StopShape, CoveredFrame
<1>10. CASE Restart
  BY <1>10, CoveredFrame DEF Restart
<1>11. CASE UNCHANGED vars
  BY <1>11, CoveredFrame DEF vars
<1> QED
  BY <1>1, <1>2, <1>3, <1>4, <1>5, <1>6, <1>7, <1>8, <1>9, <1>10, <1>11, StepShape

(* What an outcome says does not depend on anything but the command's own line *)
(* and answers.                                                               *)
LEMMA JustifiedFrame ==
  ASSUME NEW c, NEW how, Justified(c, how), job' = job, left'[c] = left[c],
         answers'[c] = answers[c]
  PROVE  Justified(c, how)'
BY DEF Justified, Stopped, Told

LEMMA SettledNext ==
  TypeOK /\ Line /\ Ledger /\ Settled /\ [Next]_vars => Settled'
<1> SUFFICES ASSUME TypeOK, Line, Ledger, Settled, [Next]_vars, NEW d \in Clients,
                    NEW how \in Outcomes, outcome'[d] = how
             PROVE  /\ how \in {"ok", "installed", "streamed"} => pc'[d] = "done"
                    /\ Justified(d, how)'
  BY DEF Settled, Outcomes
<1>a. outcome[d] = how =>
        /\ how \in {"ok", "installed", "streamed"} => pc[d] = "done"
        /\ Justified(d, how)
  BY DEF Settled
<1> USE DEF Store, Command
<1>1. CASE \E c \in Clients : Moves(c)
  BY <1>1, <1>a, MovesShape, JustifiedFrame DEF TypeOK
<1>2. CASE \E c \in Clients : Closes(c)
  <2>1. PICK c \in Clients, end \in Outcomes :
          UNCHANGED <<Store, Command>> /\ Ends(c, end) /\ Justified(c, end)
    BY <1>2, ClosesShape
  <2>2. /\ pc' = [pc EXCEPT ![c] = "done"]
        /\ outcome' = [outcome EXCEPT ![c] = IF outcome[c] = "none" THEN end ELSE outcome[c]]
        /\ job' = job /\ left' = left /\ answers' = answers
    BY <2>1 DEF Ends, Goes
  <2>3. outcome[d] = how \/ (d = c /\ end = how)
    <3>1. outcome'[d] = IF d = c /\ outcome[d] = "none" THEN end ELSE outcome[d]
      BY <2>2 DEF TypeOK
    <3> QED
      BY <3>1
  <2>4. Justified(d, how)'
    BY <1>a, <2>1, <2>2, <2>3, JustifiedFrame
  <2>5. how \in {"ok", "installed", "streamed"} => pc'[d] = "done"
    BY <1>a, <2>2, <2>3 DEF TypeOK
  <2> QED
    BY <2>4, <2>5
<1>3. CASE \E c \in Clients : Skips(c)
  <2>1. PICK c \in Clients : Skips(c)
    BY <1>3
  <2>2. /\ UNCHANGED <<pc, job, answers, outcome>> /\ pc[c] = "next"
        /\ left' = [left EXCEPT ![c] = Tail(left[c])]
    BY <2>1, SkipsShape
  <2>3. CASE d = c
    BY <1>a, <2>2, <2>3 DEF Justified, Stopped, Told
  <2>4. CASE d # c
    BY <1>a, <2>2, <2>4, JustifiedFrame DEF TypeOK
  <2> QED
    BY <2>3, <2>4
<1>4. CASE \E c \in Clients : Resolves(c)
  <2>1. PICK c \in Clients, l \in Seq(Specs) :
          /\ UNCHANGED <<pc, job, answers, outcome>> /\ pc[c] = "next"
          /\ left' = [left EXCEPT ![c] = l]
    BY <1>4, ResolvesShape
  <2>2. CASE d = c
    BY <1>a, <2>1, <2>2 DEF Justified, Stopped, Told
  <2>3. CASE d # c
    BY <1>a, <2>1, <2>3, JustifiedFrame DEF TypeOK
  <2> QED
    BY <2>2, <2>3
<1>5. CASE \E c \in Clients : Scans(c)
  BY <1>5, <1>a, ScansShape, JustifiedFrame DEF TypeOK
<1>6. CASE \E c \in Clients : Inserts(c)
  BY <1>6, <1>a, InsertsShape, JustifiedFrame DEF TypeOK
<1>7. CASE \E c \in Clients : Stamps(c)
  <2>1. PICK c \in Clients : Stamps(c)
    BY <1>7
  <2>2. /\ job' = job /\ outcome' = outcome /\ pc[c] = "stamp"
        /\ pc' = [pc EXCEPT ![c] = pc'[c]]
        /\ left' = [left EXCEPT ![c] = Tail(left[c])]
        /\ answers' = [answers EXCEPT ![c] = Append(answers[c], response[c])]
        /\ answers[c] \in Seq(Records)
    BY <2>1, StampsShape DEF TypeOK, Ledger
  <2>3. CASE d = c
    <3>1. outcome[d] = how /\ how \notin {"ok", "installed", "streamed"}
      BY <1>a, <2>2, <2>3
    <3>2. Told(d, "block") => Told(d, "block")'
      <4>1. \A k \in DOMAIN answers[c] :
              k \in DOMAIN answers'[c] /\ answers'[c][k] = answers[c][k]
        BY <2>2 DEF TypeOK
      <4> QED
        BY <2>3, <4>1 DEF Told
    <3> QED
      BY <1>a, <2>2, <2>3, <3>1, <3>2 DEF Justified
  <2>4. CASE d # c
    BY <1>a, <2>2, <2>4, JustifiedFrame DEF TypeOK
  <2> QED
    BY <2>3, <2>4
<1>8. CASE \E c \in Clients : Leaves(c)
  <2>1. PICK c \in Clients : Leaves(c)
    BY <1>8
  <2>2. /\ UNCHANGED <<job, left, answers>> /\ pc' = [pc EXCEPT ![c] = pc'[c]]
        /\ \E end \in {"lost", "failed", "crashed"} : outcome' = [outcome EXCEPT ![c] = end]
    BY <2>1, LeavesShape
  <2>3. CASE d = c
    BY <2>2, <2>3 DEF TypeOK, Justified
  <2>4. CASE d # c
    BY <1>a, <2>2, <2>4, JustifiedFrame DEF TypeOK
  <2> QED
    BY <2>3, <2>4
<1>9. CASE Stop
  <2>1. /\ UNCHANGED <<job, left, answers>> /\ pc'[d] \in {pc[d], "done"}
        /\ outcome[d] = how \/ how = "failed"
    BY <1>9, StopShape
  <2>2. CASE outcome[d] = how
    BY <1>a, <2>1, <2>2, JustifiedFrame
  <2>3. CASE how = "failed"
    BY <2>3 DEF Justified
  <2> QED
    BY <2>1, <2>2, <2>3
<1>10. CASE Restart
  BY <1>10, <1>a, JustifiedFrame DEF Restart
<1>11. CASE UNCHANGED vars
  BY <1>11, <1>a, JustifiedFrame DEF vars
<1> QED
  BY <1>1, <1>2, <1>3, <1>4, <1>5, <1>6, <1>7, <1>8, <1>9, <1>10, <1>11, StepShape

-----------------------------------------------------------------------------
LEMMA Inductive == Spec => []IInv
<1>1. Init => IInv
  BY InitIInv
<1>2. IInv /\ [Next]_vars => IInv'
  BY TypeNext, LineNext, LedgerNext, CoveredNext, SettledNext DEF IInv, Ledger
<1> QED
  BY <1>1, <1>2, PTL DEF Spec

(* Types: rows and answers are whole records, of a release, at every step. *)
THEOREM TypeCorrect == Spec => []TypeOK
<1>1. IInv => TypeOK
  BY DEF IInv
<1> QED
  BY <1>1, Inductive, PTL

(* Whoever was given a scan_id finds his record under it, on the first page of *)
(* the history unless newer scans fill it, and shares it with nobody.          *)
THEOREM AnswersAreStored == Spec => []AnsweredIsStored
<1>1. IInv => AnsweredIsStored
  <2> SUFFICES ASSUME IInv, NEW c \in Clients, NEW i \in DOMAIN answers[c]
               PROVE  /\ answers[c][i].scan_id \in DOMAIN rows
                      /\ Get(answers[c][i].scan_id) = answers[c][i]
                      /\ Len(rows) - answers[c][i].scan_id < PageSize =>
                           \E k \in DOMAIN Recent(PageSize) :
                             Recent(PageSize)[k] = answers[c][i]
                      /\ \A d \in Clients : \A k \in DOMAIN answers[d] :
                           answers[d][k].scan_id = answers[c][i].scan_id => d = c /\ k = i
    BY DEF AnsweredIsStored
  <2> DEFINE a == answers[c][i]
  <2>1. a.scan_id \in DOMAIN rows /\ rows[a.scan_id] = a
    BY DEF IInv, Ledger, Kept
  <2>2. ASSUME Len(rows) - a.scan_id < PageSize
        PROVE  \E k \in DOMAIN Recent(PageSize) : Recent(PageSize)[k] = a
    <3> DEFINE k == Len(rows) - a.scan_id + 1
               n == IF Len(rows) < PageSize THEN Len(rows) ELSE PageSize
    <3>1. Len(rows) \in Nat /\ a.scan_id \in 1 .. Len(rows) /\ PageSize \in Nat
      BY <2>1, ServiceAssumption DEF IInv, TypeOK, ServiceAssumption
    <3>2. k \in 1 .. n /\ Len(rows) - k + 1 = a.scan_id
      BY <2>2, <3>1
    <3>3. Recent(PageSize) = [j \in 1 .. n |-> rows[Len(rows) - j + 1]]
      BY DEF Recent
    <3> HIDE DEF n, k
    <3>4. k \in DOMAIN Recent(PageSize) /\ Recent(PageSize)[k] = a
      BY <2>1, <3>2, <3>3
    <3> QED
      BY <3>4
  <2>3. \A d \in Clients : \A k \in DOMAIN answers[d] :
          answers[d][k].scan_id = a.scan_id => d = c /\ k = i
    BY DEF IInv, Ledger, Unique
  <2> QED
    BY <2>1, <2>2, <2>3 DEF Get
<1> QED
  BY <1>1, Inductive, PTL

(* The history is only written forward: a row's one change is from 0 to its id. *)
THEOREM RecordsStayFinal == Spec => RecordsAreFinal
<1> DEFINE Final ==
      \A i \in DOMAIN rows :
        /\ i \in DOMAIN rows'
        /\ \/ rows'[i] = rows[i]
           \/ rows[i].scan_id = 0 /\ rows'[i] = [rows[i] EXCEPT !.scan_id = i]
<1>1. ASSUME IInv, [Next]_vars
      PROVE  Final
  <2> USE DEF Store, Command
  <2>1. CASE \E c \in Clients : Inserts(c)
    <3>1. PICK c \in Clients : rows' = Append(rows, response[c])
      BY <1>1, <2>1, InsertsShape DEF IInv
    <3>2. rows \in Seq(Records)
      BY <1>1 DEF IInv, TypeOK
    <3> QED
      BY <3>1, <3>2
  <2>2. CASE \E c \in Clients : Stamps(c)
    <3>1. PICK c \in Clients : Stamps(c)
      BY <2>2
    <3> DEFINE id == response[c].scan_id
    <3>2. /\ pc[c] = "stamp" /\ response[c] \in Records /\ id \in DOMAIN rows
          /\ rows' = [rows EXCEPT ![id] = response[c]] /\ rows \in Seq(Records)
      BY <1>1, <3>1, StampsShape DEF IInv, Ledger, TypeOK
    <3>3. rows[id] = [response[c] EXCEPT !.scan_id = 0]
      BY <1>1, <3>2 DEF IInv, Ledger, Pending
    <3>4. rows[id].scan_id = 0 /\ response[c] = [rows[id] EXCEPT !.scan_id = id]
      BY <3>2, <3>3 DEF Records
    <3> HIDE DEF id
    <3> QED
      BY <3>2, <3>4
  <2>3. CASE rows' = rows
    BY <2>3
  <2>4. \/ \E c \in Clients : Inserts(c) \/ Stamps(c)
        \/ rows' = rows
    <3>1. TypeOK /\ Line
      BY <1>1 DEF IInv
    <3>2. ASSUME NEW c \in Clients,
                 \/ Moves(c) \/ Closes(c) \/ Skips(c) \/ Resolves(c) \/ Scans(c) \/ Leaves(c)
          PROVE  rows' = rows
      BY <3>1, <3>2, MovesShape, ClosesShape, SkipsShape, ResolvesShape, ScansShape, LeavesShape
    <3>3. Stop \/ Restart \/ UNCHANGED vars => rows' = rows
      BY DEF Stop, Restart, vars
    <3> QED
      BY <1>1, <3>2, <3>3, StepShape
  <2> QED
    BY <2>1, <2>2, <2>3, <2>4
<1>2. IInv /\ [Next]_vars => [Final]_vars
  BY <1>1
<1>3. Spec => [][Final]_vars
  BY <1>2, Inductive, PTL DEF Spec
<1> QED
  BY <1>3 DEF RecordsAreFinal

(* A command that has nothing left to scan has an answer for all that was due. *)
LEMMA AllAnswered ==
  ASSUME IInv, NEW c \in Clients, left[c] = <<>>, NEW i \in DOMAIN job[c].wants,
         Due(c, job[c].wants[i])
  PROVE  Answered(c, Target(job[c].wants[i]))
BY DEF IInv, Covered

(* Nothing is streamed or installed that this command did not have scanned,  *)
(* stored and passed, unless the user overruled a block; of what guard lets  *)
(* pip choose, that holds of the newest release, which need not be it.       *)
THEOREM DeliveredWasScanned == Spec => []NothingUnscanned
<1>1. IInv => NothingUnscanned
  <2> SUFFICES ASSUME IInv, NEW c \in Clients, NEW spec \in Delivered(c)
               PROVE  Cleared(c, IF spec.pin THEN spec.release ELSE Newest[spec.release])
    BY DEF NothingUnscanned
  <2>1. outcome[c] \in {"streamed", "installed"} /\ outcome[c] \in Outcomes
    BY DEF Delivered, Outcomes
  <2>2. /\ left[c] = <<>> /\ ~Stopped(c)
        /\ outcome[c] = "streamed" => job[c].command = "file" /\ PathMatches(job[c])
        /\ outcome[c] = "installed" => job[c].command \in {"install", "guard"}
    BY <2>1 DEF IInv, Settled, Justified
  <2>3. \E i \in DOMAIN job[c].wants :
          /\ Due(c, job[c].wants[i])
          /\ Target(job[c].wants[i]) = IF spec.pin THEN spec.release ELSE Newest[spec.release]
    <3>1. CASE outcome[c] = "streamed"
      <4>1. /\ spec = [release |-> job[c].url, pin |-> TRUE] /\ job[c].command = "file"
            /\ job[c].wants[1].release = job[c].url
        BY <2>2, <3>1 DEF Delivered, PathMatches
      <4>2. 1 \in DOMAIN job[c].wants /\ job[c].wants[1].pin
        BY <4>1, JobFacts DEF IInv
      <4> QED
        BY <4>1, <4>2 DEF Due, Target
    <3>2. CASE outcome[c] = "installed" /\ job[c].command = "install"
      <4>1. PICK i \in DOMAIN job[c].wants :
              spec = [release |-> Target(job[c].wants[i]), pin |-> TRUE]
        BY <3>2 DEF Delivered
      <4> QED
        BY <3>2, <4>1 DEF Due
    <3>3. CASE outcome[c] = "installed" /\ job[c].command = "guard"
      <4>1. PICK i \in DOMAIN job[c].wants : spec = job[c].wants[i] /\ spec.release # Odd
        BY <3>3 DEF Delivered
      <4> QED
        BY <3>3, <4>1 DEF Due, Target
    <3> QED
      BY <2>1, <2>2, <3>1, <3>2, <3>3
  <2> DEFINE release == IF spec.pin THEN spec.release ELSE Newest[spec.release]
  <2>4. PICK i \in DOMAIN answers[c] : answers[c][i].release = release
    BY <2>2, <2>3, AllAnswered DEF Answered
  <2>5. Get(answers[c][i].scan_id) = answers[c][i]
    BY DEF IInv, Ledger, Kept, Get
  <2>6. answers[c][i].verdict # "block" \/ job[c].force
    BY <2>2 DEF Stopped, Told
  <2> QED
    BY <2>4, <2>5, <2>6 DEF Cleared
<1> QED
  BY <1>1, Inductive, PTL

(* The exit code of check and check-file: 0 says that all was scanned, a bare *)
(* name at its newest, and none blocks; 1 that one does, or a traceback.      *)
THEOREM ExitCodesTell == Spec => []ExitCodeTells
<1>1. IInv => ExitCodeTells
  <2> SUFFICES ASSUME IInv, NEW c \in Clients,
                      job[c].command \in {"check", "check-file"},
                      outcome[c] \in DOMAIN ExitCode
               PROVE  /\ ExitCode[outcome[c]] = 0 =>
                           \A i \in DOMAIN job[c].wants :
                             job[c].wants[i].pin \/ job[c].command = "check" =>
                               \E k \in DOMAIN answers[c] :
                                 /\ answers[c][k].release = Target(job[c].wants[i])
                                 /\ \A m \in DOMAIN answers[c] :
                                      answers[c][m].release = answers[c][k].release =>
                                        answers[c][m].verdict # "block"
                      /\ ExitCode[outcome[c]] = 1 =>
                           Told(c, "block") \/ outcome[c] = "crashed"
    BY DEF ExitCodeTells
  <2>1. /\ outcome[c] \in Outcomes
        /\ \A how \in Outcomes : outcome[c] = how => Justified(c, how)
    BY DEF IInv, TypeOK, Settled
  <2>2. /\ ExitCode[outcome[c]] = 0 => outcome[c] \in {"ok", "installed"}
        /\ ExitCode[outcome[c]] = 1 => outcome[c] \in {"blocked", "declined", "crashed"}
    BY DEF ExitCode
  <2>3. ASSUME ExitCode[outcome[c]] = 0
        PROVE  left[c] = <<>> /\ ~Told(c, "block")
    BY <2>1, <2>2, <2>3 DEF Justified
  <2>4. ExitCode[outcome[c]] = 1 => Told(c, "block") \/ outcome[c] = "crashed"
    BY <2>1, <2>2 DEF Justified
  <2>5. ASSUME ExitCode[outcome[c]] = 0, NEW i \in DOMAIN job[c].wants,
               job[c].wants[i].pin \/ job[c].command = "check"
        PROVE  \E k \in DOMAIN answers[c] :
                 /\ answers[c][k].release = Target(job[c].wants[i])
                 /\ \A m \in DOMAIN answers[c] : answers[c][m].verdict # "block"
    BY <2>3, <2>5, AllAnswered DEF Due, Answered, Told
  <2> QED
    BY <2>4, <2>5
<1> QED
  BY <1>1, Inductive, PTL
=============================================================================
