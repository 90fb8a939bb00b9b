------------------------------ MODULE Watcher ------------------------------
(***************************************************************************)
(* watcher/runner.py, run_cycle, with the two tables of api/storage.py it  *)
(* keeps (watch_seen, watch_queue), the loop of `su watch` that runs one   *)
(* cycle after another (cli/su_scan.py) and the reviewer who PATCHes a     *)
(* row's status through api/routers/watch.py.                              *)
(*                                                                         *)
(* An item of the feed is <<name, version>>; the new-projects feed gives   *)
(* no version, which is written <<name, Latest>>.  One task runs for each  *)
(* item, first the lookups of those names, then the scans, under a         *)
(* semaphore made for the cycle.  Every statement of the store runs in a   *)
(* worker thread of its own and so is an action of its own: tasks          *)
(* interleave between them, and the process may stop between them.         *)
(***************************************************************************)
EXTENDS Integers, FiniteSets, Sequences, SequencesExt

CONSTANTS
  Names, Versions,
  Latest,       \* no version given (also the "?" of a removed project's row)
  Removed,      \* REMOVED_MARK
  Invalid,      \* releases whose name or version ScanRequest rejects
  Feeds,        \* what fetch() may return, duplicates removed
  Records,      \* the results a scan may have
  NoRecord,
  Statuses,     \* review statuses; "new" is the one a row starts with
  MaxScans, Concurrency,
  MaxCycles, MaxStops   \* bounds of the model

Releases == Names \X Versions
Projects == Names \X {Latest}
Items    == Releases \cup Projects

ASSUME ConstantsAssumption ==
  /\ IsFiniteSet(Names) /\ IsFiniteSet(Versions)
  /\ Latest \notin Versions /\ Removed \notin Versions /\ Removed # Latest
  /\ Feeds \subseteq Seq(Items)
  /\ NoRecord \notin Records /\ "new" \in Statuses
  /\ Concurrency \in Nat \ {0} /\ MaxScans \in Nat \ {0}
  /\ MaxCycles \in Nat /\ MaxStops \in Nat

VARIABLES
  phase,     \* "sleep", "resolving", "scanning" or "down"
  cycle,     \* cycles begun
  stops,     \* times the process stopped
  feed,      \* the items of this cycle, in feed order
  pc,        \* pc[i]: where the task of item i is
  permits,   \* value of the semaphore
  latest,    \* latest[n]: what resolve() answered, Latest while nothing
  result,    \* result[i]: the record of item i's scan
  failed,    \* report.failed of this cycle
  deferred,  \* the releases report.deferred counts
  seen,      \* watch_seen
  queue,     \* watch_queue, by id
  due        \* history: <<name, reason>> of all that called for a row

vars == <<phase, cycle, stops, feed, pc, permits, latest, result, failed,
          deferred, seen, queue, due>>
store  == <<seen, queue, due>>
report == <<failed, deferred>>

Name(i) == i[1]
IsProject(i) == i[2] = Latest

-----------------------------------------------------------------------------
(* Of a record: what makes it worth a person's time, and for which reason. *)
Lookalike(r) == r.newProject /\ r.similar
Suspicious(r) == r.verdict = "block" \/ Lookalike(r) \/ r.antivirus
Signature(r) == <<r.verdict, r.highRules, Lookalike(r), r.antivirus>>

(* A row of watch_queue; born is the cycle that inserted it (history). *)
Row(i, r) == [name |-> Name(i), version |-> i[2], record |-> r,
              status |-> "new", born |-> cycle]
IsRemoval(row) == row.record = NoRecord
Reason(row) == IF IsRemoval(row) THEN <<"removed">> ELSE Signature(row.record)

QueueRows == {queue[k] : k \in DOMAIN queue}

(* _enqueue_removed's SELECT; the reasons queued_records() finds for a name. *)
RemovalQueued(n) == \E row \in QueueRows : row.name = n /\ IsRemoval(row)
OpenReasons(n) == {Signature(row.record) : row \in
  {q \in QueueRows : q.name = n /\ ~IsRemoval(q) /\ q.status = "new"}}
QueuedReasons(n) == {Signature(row.record) : row \in
                       {q \in QueueRows : q.name = n /\ ~IsRemoval(q)}}

Known(n) == \E s \in seen : Name(s) = n

-----------------------------------------------------------------------------
(* The candidates of a cycle in the order of the code: the names resolved, *)
(* then the releases of the updates feed that are not among them.          *)
IsNew(r) == /\ <<Name(r), Latest>> \in ToSet(feed)
            /\ latest[Name(r)] = r[2]
Candidates == {r \in Releases : r \in ToSet(feed) \/ IsNew(r)}
Place(i) == CHOOSE k \in DOMAIN feed : feed[k] = i
FeedRank(r) == IF r \in ToSet(feed) THEN Place(r)
               ELSE Len(feed) + Place(<<Name(r), Latest>>)
Rank(r) == IF IsNew(r) THEN Place(<<Name(r), Latest>>)
           ELSE Len(feed) + Place(r)

Pending == (Candidates \ Invalid) \ seen
Before(r) == {q \in Pending : Rank(q) < Rank(r)}
OneShort == {r \in Pending : Cardinality(Before(r)) < MaxScans - 1}
Todo == {r \in Pending : Cardinality(Before(r)) < MaxScans}
Excess == {r \in Pending : Cardinality(Before(r)) >= MaxScans}

-----------------------------------------------------------------------------
Idle == \A i \in Items : pc[i] = "off"

Init ==
  /\ phase = "sleep" /\ cycle = 0 /\ stops = 0
  /\ feed = <<>>
  /\ pc = [i \in Items |-> "off"]
  /\ permits = Concurrency
  /\ latest = [n \in Names |-> Latest]
  /\ result = [i \in Items |-> NoRecord]
  /\ failed = {} /\ deferred = {}
  /\ seen = {} /\ queue = <<>> /\ due = {}

Goto(i, place) == pc' = [pc EXCEPT ![i] = place]

(* A task ends.  A lookup holds its permit to the end, a scan gave it back. *)
FinishHolding(i) == /\ Goto(i, "off")
                    /\ result' = [result EXCEPT ![i] = NoRecord]
                    /\ UNCHANGED permits
Finish(i) == /\ Goto(i, "off")
             /\ result' = [result EXCEPT ![i] = NoRecord]
             /\ permits' = IF IsProject(i) THEN permits + 1 ELSE permits

(* A cycle begins: fetch(), seen_names(), a new semaphore. *)
Fetch(f) ==
  /\ phase = "sleep" /\ cycle < MaxCycles
  /\ phase' = "resolving" /\ cycle' = cycle + 1
  /\ feed' = f
  /\ permits' = Concurrency
  /\ pc' = [i \in Items |-> IF i \in ToSet(f) /\ IsProject(i) /\ ~Known(Name(i))
                            THEN "wait" ELSE "off"]
  /\ latest' = [n \in Names |-> Latest]
  /\ failed' = {} /\ deferred' = {}
  /\ UNCHANGED <<stops, result, store>>

Acquire(i) ==
  /\ pc[i] = "wait" /\ permits > 0
  /\ permits' = permits - 1
  /\ Goto(i, "asking")
  /\ UNCHANGED <<phase, cycle, stops, feed, latest, result, report, store>>

(* resolve() answers: a version, no such project, or an error. *)
Resolved(i, v) ==
  /\ pc[i] = "asking" /\ IsProject(i)
  /\ latest' = [latest EXCEPT ![Name(i)] = v]
  /\ Finish(i)
  /\ UNCHANGED <<phase, cycle, stops, feed, report, store>>

ResolveMissing(i) ==
  /\ pc[i] = "asking" /\ IsProject(i)
  /\ Goto(i, "mark")
  /\ UNCHANGED <<phase, cycle, stops, feed, permits, latest, result, report, store>>

ResolveFails(i) ==
  /\ pc[i] = "asking" /\ IsProject(i)
  /\ failed' = failed \cup {i}
  /\ Finish(i)
  /\ UNCHANGED <<phase, cycle, stops, feed, latest, deferred, store>>

(* Every lookup has ended: unseen() and the cut at max_scans. *)
BeginScans ==
  /\ phase = "resolving" /\ Idle
  /\ phase' = "scanning"
  /\ pc' = [i \in Items |-> IF i \in Todo THEN "wait" ELSE "off"]
  /\ deferred' = Excess
  /\ UNCHANGED <<cycle, stops, feed, permits, latest, result, failed, store>>

(* Leaving `async with sem` after the scan, whatever came of it. *)
KeepPermit == UNCHANGED permits
ReleasePermit == permits' = permits + 1

(* scan() answers with record r, or raises. *)
Scanned(i, r) ==
  /\ pc[i] = "asking" /\ ~IsProject(i)
  /\ result' = [result EXCEPT ![i] = r]
  /\ ReleasePermit
  /\ Goto(i, "mark")
  /\ UNCHANGED <<phase, cycle, stops, feed, latest, report, store>>

MarkFailedSeen(i) ==
  /\ pc[i] = "asking" /\ ~IsProject(i)
  /\ failed' = failed \cup {i}
  /\ seen' = seen \cup {i}
  /\ ReleasePermit
  /\ Goto(i, "off")
  /\ UNCHANGED <<phase, cycle, stops, feed, latest, result, deferred, queue, due>>

ScanFails(i) ==
  /\ pc[i] = "asking" /\ ~IsProject(i)
  /\ failed' = failed \cup {i}
  /\ ReleasePermit
  /\ Goto(i, "off")
  /\ UNCHANGED <<phase, cycle, stops, feed, latest, result, deferred, store>>

(* What the task has found out, and the reason it gives for a row. *)
Vanished(i) == ~IsProject(i) => result[i].gone
ReasonOf(i) == IF Vanished(i) THEN <<"removed">> ELSE Signature(result[i])

(* The row mark_seen() inserts, if it is not there. *)
PlainMark(i) == {i}
CleanMark(i) == IF Vanished(i) \/ Suspicious(result[i]) THEN {} ELSE {i}
Mark(i) == {IF IsProject(i) THEN <<Name(i), Removed>> ELSE i}

Owe(i, place) == /\ due' = due \cup {<<Name(i), ReasonOf(i)>>}
                 /\ Goto(i, place)
                 /\ UNCHANGED <<result, permits>>

MarkSeen(i) ==
  /\ pc[i] = "mark"
  /\ seen' = seen \cup Mark(i)
  /\ \/ Vanished(i) /\ Owe(i, "select")
     \/ ~Vanished(i) /\ Suspicious(result[i]) /\ Owe(i, "read")
     \/ /\ ~Vanished(i) /\ ~Suspicious(result[i])
        /\ Finish(i) /\ UNCHANGED due
  /\ UNCHANGED <<phase, cycle, stops, feed, latest, report, queue>>

(***************************************************************************)
(* enqueue_removed(): sqlite3 opens the transaction at the INSERT, so the  *)
(* SELECT before it is a statement of its own.                             *)
(***************************************************************************)
SelectRemoved(i) ==
  /\ pc[i] = "select"
  /\ IF RemovalQueued(Name(i))
       THEN Finish(i)
       ELSE Goto(i, "insert") /\ UNCHANGED <<permits, result>>
  /\ UNCHANGED <<phase, cycle, stops, feed, latest, report, store>>

InsertRemoved(i) ==
  /\ pc[i] = "insert"
  /\ queue' = Append(queue, Row(i, NoRecord))
  /\ Finish(i)
  /\ UNCHANGED <<phase, cycle, stops, feed, latest, report, seen, due>>

(* queued_records() and the comparison of signatures. *)
SameVerdict(i) == \E row \in QueueRows :
                    /\ row.name = Name(i) /\ ~IsRemoval(row)
                    /\ row.record.verdict = result[i].verdict
Repeated(i) == Signature(result[i]) \in QueuedReasons(Name(i))

ReadQueue(i) ==
  /\ pc[i] = "read"
  /\ IF Repeated(i)
       THEN Finish(i)
       ELSE Goto(i, "enqueue") /\ UNCHANGED <<permits, result>>
  /\ UNCHANGED <<phase, cycle, stops, feed, latest, report, store>>

Enqueue(i) ==
  /\ pc[i] = "enqueue"
  /\ queue' = Append(queue, Row(i, result[i]))
  /\ Finish(i)
  /\ UNCHANGED <<phase, cycle, stops, feed, latest, report, seen, due>>

EndCycle ==
  /\ phase = "scanning" /\ Idle
  /\ phase' = "sleep"
  /\ UNCHANGED <<cycle, stops, feed, pc, permits, latest, result, report, store>>

-----------------------------------------------------------------------------
(* PATCH /api/v1/watch/queue/{id}, by the API server on the same database. *)
Review(k, s) ==
  /\ k \in DOMAIN queue
  /\ queue' = [queue EXCEPT ![k].status = s]
  /\ UNCHANGED <<phase, cycle, stops, feed, pc, permits, latest, result,
                 report, seen, due>>

(***************************************************************************)
(* Ctrl-C, a kill, or an exception run_cycle does not catch (any from the  *)
(* store, or from resolve() outside PyPIError and HTTPError): every task   *)
(* is lost where it stands, and the two tables stay.                       *)
(***************************************************************************)
Stop ==
  /\ phase # "down" /\ stops < MaxStops
  /\ phase' = "down" /\ stops' = stops + 1
  /\ feed' = <<>>
  /\ pc' = [i \in Items |-> "off"]
  /\ permits' = Concurrency
  /\ latest' = [n \in Names |-> Latest]
  /\ result' = [i \in Items |-> NoRecord]
  /\ failed' = {} /\ deferred' = {}
  /\ UNCHANGED <<cycle, store>>

Restart ==
  /\ phase = "down"
  /\ phase' = "sleep"
  /\ UNCHANGED <<cycle, stops, feed, pc, permits, latest, result, report, store>>

(* The bound of the model: no cycle after MaxCycles. *)
Bound == phase = "sleep" /\ cycle = MaxCycles /\ UNCHANGED vars

-----------------------------------------------------------------------------
Task(i) ==
  \/ Acquire(i)
  \/ \E v \in Versions : Resolved(i, v)
  \/ ResolveMissing(i) \/ ResolveFails(i)
  \/ \E r \in Records : Scanned(i, r)
  \/ ScanFails(i)
  \/ MarkSeen(i)
  \/ SelectRemoved(i) \/ InsertRemoved(i)
  \/ ReadQueue(i) \/ Enqueue(i)

Next == \/ \E f \in Feeds : Fetch(f)
        \/ \E i \in Items : Task(i)
        \/ BeginScans \/ EndCycle
        \/ \E k \in DOMAIN queue, s \in Statuses : Review(k, s)
        \/ Stop \/ Restart \/ Bound

(***************************************************************************)
(* Requests end in an answer or a timeout and threads return, so the event *)
(* loop never stands still while a cycle runs.  No single task needs more: *)
(* a cycle has finitely many.  Nothing makes the process stop, a scan fail *)
(* or the reviewer come.                                                   *)
(***************************************************************************)
Progress == (\E i \in Items : Task(i)) \/ BeginScans \/ EndCycle

Spec == Init /\ [][Next]_vars /\ WF_vars(Progress)

-----------------------------------------------------------------------------
(* The types of the variables above. *)
TypeOK ==
  /\ phase \in {"sleep", "resolving", "scanning", "down"}
  /\ cycle \in 0..MaxCycles /\ stops \in 0..MaxStops
  /\ feed \in Seq(Items)
  /\ pc \in [Items -> {"off", "wait", "asking", "mark", "select", "insert",
                       "read", "enqueue"}]
  /\ permits \in Int
  /\ latest \in [Names -> Versions \cup {Latest}]
  /\ result \in [Items -> Records \cup {NoRecord}]
  /\ failed \subseteq Items /\ deferred \subseteq Releases
  /\ seen \subseteq Releases \cup (Names \X {Removed})
  /\ queue \in Seq([name : Names, version : Versions \cup {Latest},
                    record : Records \cup {NoRecord}, status : Statuses,
                    born : 1..MaxCycles])
  /\ due \subseteq Names \X
       ({<<"removed">>} \cup {Signature(r) : r \in Records})

(***************************************************************************)
(* Every permit is either free or held by a lookup, to its end, or by a    *)
(* scan, while it runs: however they end, as many scans as `concurrency`   *)
(* can run again in the next moment, and never more.                       *)
(***************************************************************************)
Holders == {i \in Items : \/ pc[i] = "asking"
                          \/ IsProject(i) /\ pc[i] \in {"mark", "select", "insert"}}
PermitsAccounted == permits >= 0 /\ permits + Cardinality(Holders) = Concurrency

(***************************************************************************)
(* However often the watcher is stopped and restarted, a release gets one  *)
(* row of the queue at most, and a name whose project is gone one: what is *)
(* marked before it is queued is never queued again.                       *)
(***************************************************************************)
ReleaseQueuedOnce ==
  \A k, l \in DOMAIN queue :
    queue[k].name = queue[l].name /\ queue[k].version = queue[l].version => k = l

(***************************************************************************)
(* Two rows of one name for one reason come from the same cycle: between   *)
(* cycles a reason already queued is recognised, whatever the reviewer     *)
(* made of it and whenever the process stopped.                            *)
(***************************************************************************)
RepeatsOnlyWithinCycle ==
  \A k, l \in DOMAIN queue :
    queue[k].name = queue[l].name /\ Reason(queue[k]) = Reason(queue[l])
      => queue[k].born = queue[l].born

(***************************************************************************)
(* A release whose scan failed is not marked, so that the next cycle that  *)
(* reads it in the feed scans it again.                                    *)
(***************************************************************************)
FailedIsRetried == failed \cap seen = {}

(***************************************************************************)
(* When a cycle has ended, each item of its feed is accounted for: scanned *)
(* now or before, failed, deferred or rejected.  None is silently dropped  *)
(* between the two gathers.                                                *)
(***************************************************************************)
Accounted(r) == r \in seen \cup failed \cup deferred \cup Invalid
CycleAccounts ==
  phase = "sleep" =>
    \A i \in ToSet(feed) :
      IF IsProject(i)
      THEN i \in failed \/ Known(Name(i)) \/ \E v \in Versions : Accounted(<<Name(i), v>>)
      ELSE Accounted(i)

(***************************************************************************)
(* While a new project waits for the next cycle because of max_scans, no   *)
(* release of the updates feed is scanned in its place.                    *)
(***************************************************************************)
NewNamesFirst ==
  (\E r \in deferred : IsNew(r)) =>
    \A i \in Releases : pc[i] # "off" => IsNew(i)

(***************************************************************************)
(* While the watcher has not been stopped, all that called for a row has a *)
(* row for that reason, or a task that is about to compare or insert.      *)
(***************************************************************************)
Covered(d) ==
  \/ \E row \in QueueRows : row.name = d[1] /\ Reason(row) = d[2]
  \/ \E i \in Items : /\ pc[i] \in {"select", "insert", "read", "enqueue"}
                      /\ Name(i) = d[1] /\ ReasonOf(i) = d[2]
NothingLost == stops = 0 => \A d \in due : Covered(d)

(* A cycle ends, with its semaphore, lookups and scans, unless stopped. *)
CycleEnds == phase \in {"resolving", "scanning"} ~> phase \in {"sleep", "down"}

(***************************************************************************)
(* What the comments say without the exceptions the code makes.  None of   *)
(* the three holds of every behaviour.                                     *)
(***************************************************************************)

(* A package that comes up again for the same reason is not queued again. *)
OneRowPerReason ==
  \A k, l \in DOMAIN queue :
    queue[k].name = queue[l].name /\ Reason(queue[k]) = Reason(queue[l]) => k = l

(* A release is marked seen only once its code was looked at, or is gone. *)
MarkedWasAnalysed ==
  [][\A i \in Releases : i \in seen' \ seen =>
       result[i].analysed \/ result[i].gone]_vars

(* All that called for a row gets one, even if the watcher is stopped. *)
NothingMissed == \A d \in due : Covered(d)
=============================================================================
