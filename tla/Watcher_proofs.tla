--------------------------- MODULE Watcher_proofs ---------------------------
(***************************************************************************)
(* Proofs about Watcher for any feeds, names, versions, scan results and   *)
(* limits, and any number of cycles and restarts.                          *)
(***************************************************************************)
EXTENDS Watcher, FiniteSetTheorems, TLAPS

Early == {"wait", "asking", "mark"}
Late  == {"select", "insert", "read", "enqueue"}

(* Lookups run in the first half of a cycle, scans in the second. *)
Phases ==
  /\ phase \in {"sleep", "down"} => Idle
  /\ phase = "resolving" => \A i \in Items : pc[i] # "off" => IsProject(i)
  /\ phase = "resolving" => failed \subseteq Projects
  /\ phase = "scanning" => \A i \in Items : pc[i] # "off" => ~IsProject(i)
  /\ phase \in {"resolving", "scanning"} => cycle # 0

(* What a task knows of its item decides which insert it is on its way to. *)
Results ==
  \A i \in Items :
    /\ pc[i] \in {"mark"} \cup Late /\ ~IsProject(i) => result[i] \in Records
    /\ pc[i] \in {"select", "insert"} => Vanished(i)
    /\ pc[i] \in {"read", "enqueue"} => ~Vanished(i)

(***************************************************************************)
(* An item is marked before it is queued, and a task that has not marked   *)
(* its item is the only one that will.                                     *)
(***************************************************************************)
RowItem(row) == <<row.name, row.version>>
Marks ==
  /\ \A i \in Items : pc[i] \in Early => Mark(i) \cap seen = {}
  /\ \A i \in Items : pc[i] \in Late => /\ Mark(i) \subseteq seen
                                        /\ \A k \in DOMAIN queue : RowItem(queue[k]) # i
  /\ \A k \in DOMAIN queue : Mark(RowItem(queue[k])) \subseteq seen
  /\ \A i \in Items : pc[i] # "off" => i \notin failed

IInv == TypeOK /\ Phases /\ Results /\ Marks

-----------------------------------------------------------------------------
(* A project is not a release, and no two items have the same mark. *)
LEMMA ItemFacts ==
  /\ \A i \in Items : /\ Name(i) \in Names
                      /\ i[2] \in Versions \cup {Latest}
                      /\ i = <<Name(i), i[2]>>
                      /\ IsProject(i) <=> i \in Projects
                      /\ ~IsProject(i) <=> i \in Releases
  /\ \A i, j \in Items : Mark(i) = Mark(j) => i = j
<1>1. \A i \in Items : /\ Name(i) \in Names
                       /\ i[2] \in Versions \cup {Latest}
                       /\ i = <<Name(i), i[2]>>
                       /\ IsProject(i) <=> i \in Projects
                       /\ ~IsProject(i) <=> i \in Releases
  BY ConstantsAssumption DEF Items, Releases, Projects, Name, IsProject
<1>2. ASSUME NEW i \in Items, NEW j \in Items, Mark(i) = Mark(j)
      PROVE  i = j
  <2>1. (IF IsProject(i) THEN <<Name(i), Removed>> ELSE i)
          = (IF IsProject(j) THEN <<Name(j), Removed>> ELSE j)
    BY <1>2 DEF Mark
  <2>2. CASE IsProject(i) /\ IsProject(j)
    BY <1>1, <2>1, <2>2 DEF IsProject
  <2>3. CASE ~IsProject(i) /\ ~IsProject(j)
    BY <2>1, <2>3
  <2>4. CASE IsProject(i) /\ ~IsProject(j)
    BY <1>1, <2>1, <2>4, ConstantsAssumption DEF Releases
  <2>5. CASE ~IsProject(i) /\ IsProject(j)
    BY <1>1, <2>1, <2>5, ConstantsAssumption DEF Releases
  <2> QED
    BY <2>2, <2>3, <2>4, <2>5
<1> QED
  BY <1>1, <1>2

(* A task touches its own program counter and result, nobody else's. *)
LEMMA TaskFrame ==
  ASSUME TypeOK, NEW i \in Items, Task(i)
  PROVE  /\ UNCHANGED <<phase, cycle, stops, feed, deferred>>
         /\ pc' = [pc EXCEPT ![i] = pc'[i]]
         /\ \A j \in Items : j # i => pc'[j] = pc[j] /\ result'[j] = result[j]
         /\ pc[i] # "off"
         /\ IsProject(i) \/ latest' = latest
<1> USE DEF TypeOK, Goto, Finish, report, store
<1>1. CASE Acquire(i)
  BY <1>1 DEF Acquire
<1>2. CASE \E v \in Versions : Resolved(i, v)
  BY <1>2 DEF Resolved
<1>3. CASE ResolveMissing(i)
  BY <1>3 DEF ResolveMissing
<1>4. CASE ResolveFails(i)
  BY <1>4 DEF ResolveFails
<1>5. CASE \E r \in Records : Scanned(i, r)
  BY <1>5 DEF Scanned
<1>6. CASE ScanFails(i)
  BY <1>6 DEF ScanFails
<1>7. CASE MarkSeen(i)
  BY <1>7 DEF MarkSeen, Owe
<1>8. CASE SelectRemoved(i)
  BY <1>8 DEF SelectRemoved
<1>9. CASE InsertRemoved(i)
  BY <1>9 DEF InsertRemoved
<1>10. CASE ReadQueue(i)
  BY <1>10 DEF ReadQueue
<1>11. CASE Enqueue(i)
  BY <1>11 DEF Enqueue
<1> QED
  BY <1>1, <1>2, <1>3, <1>4, <1>5, <1>6, <1>7, <1>8, <1>9, <1>10, <1>11 DEF Task

-----------------------------------------------------------------------------
LEMMA InitIInv == Init => IInv
<1> SUFFICES ASSUME Init PROVE IInv
  OBVIOUS
<1>1. TypeOK
  BY ConstantsAssumption DEF Init, TypeOK
<1>2. Phases /\ Results /\ Marks
  BY DEF Init, Phases, Idle, Results, Marks, Early, Late
<1> QED
  BY <1>1, <1>2 DEF IInv

(* The rows the two inserts append are rows of the table. *)
RowType == [name : Names, version : Versions \cup {Latest},
            record : Records \cup {NoRecord}, status : Statuses,
            born : 1..MaxCycles]

LEMMA AppendType ==
  ASSUME IInv, NEW i \in Items, Task(i), NEW r \in Records \cup {NoRecord},
         queue' = Append(queue, Row(i, r))
  PROVE  /\ queue' \in Seq(RowType)
         /\ DOMAIN queue' = DOMAIN queue \cup {Len(queue) + 1}
         /\ Len(queue) + 1 \notin DOMAIN queue
         /\ \A k \in DOMAIN queue : queue'[k] = queue[k]
         /\ queue'[Len(queue) + 1] = Row(i, r)
<1>1. pc[i] # "off"
  BY TaskFrame DEF IInv
<1>2. cycle \in 1..MaxCycles
  BY <1>1, ConstantsAssumption DEF IInv, TypeOK, Phases, Idle
<1>3. Row(i, r) \in RowType
  BY <1>2, ItemFacts, ConstantsAssumption DEF Row, RowType
<1>4. queue \in Seq(RowType)
  BY DEF IInv, TypeOK, RowType
<1>5. Len(queue) \in Nat /\ DOMAIN queue = 1..Len(queue)
  BY <1>4
<1>6. queue' \in Seq(RowType)
  BY <1>3, <1>4
<1>7. Len(queue') = Len(queue) + 1 /\ DOMAIN queue' = 1..(Len(queue) + 1)
  BY <1>3, <1>4, <1>6
<1>8. /\ \A k \in DOMAIN queue : queue'[k] = queue[k]
      /\ queue'[Len(queue) + 1] = Row(i, r)
  BY <1>3, <1>4, <1>5
<1> QED
  BY <1>5, <1>6, <1>7, <1>8

LEMMA ReviewType ==
  ASSUME TypeOK, NEW k \in DOMAIN queue, NEW s \in Statuses, Review(k, s)
  PROVE  /\ queue' \in Seq(RowType)
         /\ DOMAIN queue' = DOMAIN queue
         /\ \A l \in DOMAIN queue :
              /\ queue'[l].name = queue[l].name
              /\ queue'[l].version = queue[l].version
              /\ queue'[l].record = queue[l].record
              /\ queue'[l].born = queue[l].born
<1>1. queue \in Seq(RowType)
  BY DEF TypeOK, RowType
<1>2. queue[k] \in RowType
  BY <1>1
<1>3. [queue[k] EXCEPT !.status = s] \in RowType
  BY <1>2 DEF RowType
<1>4. queue' = [queue EXCEPT ![k] = [queue[k] EXCEPT !.status = s]]
  BY DEF Review
<1>5. queue' \in Seq(RowType) /\ DOMAIN queue' = DOMAIN queue
  BY <1>1, <1>3, <1>4
<1>6. \A l \in DOMAIN queue :
              /\ queue'[l].name = queue[l].name
              /\ queue'[l].version = queue[l].version
              /\ queue'[l].record = queue[l].record
              /\ queue'[l].born = queue[l].born
  BY <1>1, <1>2, <1>4 DEF RowType
<1> QED
  BY <1>5, <1>6

LEMMA TaskType ==
  ASSUME IInv, NEW i \in Items, Task(i)
  PROVE  TypeOK'
<1> USE DEF TypeOK, Goto, Finish, ReleasePermit, report, store
<1>0. TypeOK /\ Results
  BY DEF IInv
<1>1. CASE Acquire(i)
  BY <1>0, <1>1 DEF Acquire
<1>2. ASSUME NEW v \in Versions, Resolved(i, v) PROVE TypeOK'
  BY <1>0, <1>2, ItemFacts DEF Resolved
<1>3. CASE ResolveMissing(i)
  BY <1>0, <1>3 DEF ResolveMissing
<1>4. CASE ResolveFails(i)
  BY <1>0, <1>4 DEF ResolveFails
<1>5. ASSUME NEW r \in Records, Scanned(i, r) PROVE TypeOK'
  BY <1>0, <1>5 DEF Scanned
<1>6. CASE ScanFails(i)
  BY <1>0, <1>6 DEF ScanFails
<1>7. CASE MarkSeen(i)
  <2>1. seen' \subseteq Releases \cup (Names \X {Removed})
    BY <1>0, <1>7, ItemFacts DEF MarkSeen, Mark
  <2>2. ReasonOf(i) \in {<<"removed">>} \cup {Signature(r) : r \in Records}
    BY <1>0, <1>7 DEF MarkSeen, ReasonOf, Vanished, Results, Late
  <2>3. due' \subseteq Names \X
          ({<<"removed">>} \cup {Signature(r) : r \in Records})
    BY <1>0, <1>7, <2>2, ItemFacts DEF MarkSeen, Owe
  <2>4. /\ pc' \in [Items -> {"off", "wait", "asking", "mark", "select", "insert",
                              "read", "enqueue"}]
        /\ permits' \in Int
        /\ result' \in [Items -> Records \cup {NoRecord}]
    <3>1. Owe(i, "select") \/ Owe(i, "read") \/ Finish(i)
      BY <1>7 DEF MarkSeen
    <3>2. CASE Owe(i, "select") \/ Owe(i, "read")
      BY <1>0, <3>2 DEF Owe
    <3>3. CASE Finish(i)
      BY <1>0, <3>3
    <3> QED
      BY <3>1, <3>2, <3>3
  <2> QED
    BY <1>0, <1>7, <2>1, <2>3, <2>4 DEF MarkSeen
<1>8. CASE SelectRemoved(i)
  BY <1>0, <1>8 DEF SelectRemoved
<1>9. CASE InsertRemoved(i)
  <2>1. queue' \in Seq(RowType)
    BY <1>9, AppendType DEF InsertRemoved
  <2> QED
    BY <1>0, <1>9, <2>1 DEF InsertRemoved, RowType
<1>10. CASE ReadQueue(i)
  BY <1>0, <1>10 DEF ReadQueue
<1>11. CASE Enqueue(i)
  <2>1. queue' \in Seq(RowType)
    BY <1>0, <1>11, AppendType DEF Enqueue
  <2> QED
    BY <1>0, <1>11, <2>1 DEF Enqueue, RowType
<1> QED
  BY <1>1, <1>2, <1>3, <1>4, <1>5, <1>6, <1>7, <1>8, <1>9, <1>10, <1>11 DEF Task

LEMMA NextType ==
  ASSUME IInv, [Next]_vars
  PROVE  TypeOK'
<1> USE DEF report, store
<1>0. TypeOK
  BY DEF IInv
<1>1. ASSUME NEW f \in Feeds, Fetch(f) PROVE TypeOK'
  BY <1>0, <1>1, ConstantsAssumption DEF Fetch, TypeOK
<1>2. ASSUME NEW i \in Items, Task(i) PROVE TypeOK'
  BY <1>2, TaskType
<1>3. CASE BeginScans
  <2>1. Excess \subseteq Releases
    BY DEF Excess, Pending, Candidates
  <2> QED
    BY <1>0, <1>3, <2>1 DEF BeginScans, TypeOK
<1>4. CASE EndCycle
  BY <1>0, <1>4 DEF EndCycle, TypeOK
<1>5. ASSUME NEW k \in DOMAIN queue, NEW s \in Statuses, Review(k, s) PROVE TypeOK'
  <2>1. queue' \in Seq(RowType)
    BY <1>0, <1>5, ReviewType
  <2> QED
    BY <1>0, <1>5, <2>1 DEF Review, TypeOK, RowType
<1>6. CASE Stop
  BY <1>0, <1>6, ConstantsAssumption DEF Stop, TypeOK
<1>7. CASE Restart
  BY <1>0, <1>7 DEF Restart, TypeOK
<1>8. CASE UNCHANGED vars
  BY <1>0, <1>8 DEF vars, TypeOK
<1> QED
  BY <1>1, <1>2, <1>3, <1>4, <1>5, <1>6, <1>7, <1>8 DEF Next, Bound

-----------------------------------------------------------------------------
(***************************************************************************)
(* The three parts of a task: up to the answer, the mark, and the queue.   *)
(***************************************************************************)
Asks(i) ==
  /\ pc[i] \in {"wait", "asking"} /\ pc'[i] \in Early \cup {"off"}
  /\ UNCHANGED <<seen, queue, due>>
  /\ \/ UNCHANGED failed
     \/ failed' = failed \cup {i} /\ pc'[i] = "off"
Writes(i) ==
  /\ pc[i] = "mark" /\ pc'[i] \in Late \cup {"off"}
  /\ seen' = seen \cup Mark(i)
  /\ UNCHANGED <<queue, failed, latest>>
Queues(i) ==
  /\ pc[i] \in Late /\ UNCHANGED <<seen, failed, due, latest>>
  /\ \/ UNCHANGED queue /\ pc'[i] \in Late \cup {"off"}
     \/ /\ pc'[i] = "off"
        /\ \E r \in Records \cup {NoRecord} : queue' = Append(queue, Row(i, r))

LEMMA TaskParts ==
  ASSUME IInv, NEW i \in Items, Task(i)
  PROVE  Asks(i) \/ Writes(i) \/ Queues(i)
<1> USE DEF Goto, Finish, report, store, Early, Late
<1>0. /\ pc \in [Items -> {"off", "wait", "asking", "mark", "select", "insert",
                           "read", "enqueue"}]
      /\ result \in [Items -> Records \cup {NoRecord}]
  BY DEF IInv, TypeOK
<1>1. CASE Acquire(i)
  BY <1>0, <1>1 DEF Acquire, Asks
<1>2. ASSUME NEW v \in Versions, Resolved(i, v) PROVE Asks(i)
  BY <1>0, <1>2 DEF Resolved, Asks
<1>3. CASE ResolveMissing(i)
  BY <1>0, <1>3 DEF ResolveMissing, Asks
<1>4. CASE ResolveFails(i)
  BY <1>0, <1>4 DEF ResolveFails, Asks
<1>5. ASSUME NEW r \in Records, Scanned(i, r) PROVE Asks(i)
  BY <1>0, <1>5 DEF Scanned, Asks
<1>6. CASE ScanFails(i)
  BY <1>0, <1>6 DEF ScanFails, Asks
<1>7. CASE MarkSeen(i)
  BY <1>0, <1>7 DEF MarkSeen, Owe, Writes
<1>8. CASE SelectRemoved(i)
  BY <1>0, <1>8 DEF SelectRemoved, Queues
<1>9. CASE InsertRemoved(i)
  BY <1>0, <1>9 DEF InsertRemoved, Queues
<1>10. CASE ReadQueue(i)
  BY <1>0, <1>10 DEF ReadQueue, Queues
<1>11. CASE Enqueue(i)
  BY <1>0, <1>11 DEF Enqueue, Queues
<1> QED
  BY <1>1, <1>2, <1>3, <1>4, <1>5, <1>6, <1>7, <1>8, <1>9, <1>10, <1>11 DEF Task

(* Marking leads to the first step of the queue's part, never to an insert. *)
LEMMA MarkGoesOn ==
  ASSUME TypeOK, NEW i \in Items, Task(i), pc[i] = "mark"
  PROVE  /\ MarkSeen(i)
         /\ pc'[i] \in {"off", "select", "read"}
         /\ pc'[i] # "off" => Owe(i, pc'[i])
         /\ pc'[i] = "off" => UNCHANGED due
<1>1. MarkSeen(i)
  BY DEF Task, Acquire, Resolved, ResolveMissing, ResolveFails, Scanned, ScanFails,
         SelectRemoved, InsertRemoved, ReadQueue, Enqueue
<1> QED
  BY <1>1 DEF MarkSeen, Owe, Goto, Finish, TypeOK

LEMMA NextPhases ==
  ASSUME IInv, [Next]_vars
  PROVE  Phases'
<1>0. TypeOK /\ Phases
  BY DEF IInv
<1>1. ASSUME NEW f \in Feeds, Fetch(f) PROVE Phases'
  BY <1>0, <1>1 DEF Fetch, Phases, TypeOK
<1>2. ASSUME NEW i \in Items, Task(i) PROVE Phases'
  <2>1. /\ UNCHANGED <<phase, cycle>>
        /\ pc[i] # "off"
        /\ \A j \in Items : pc'[j] # "off" => pc[j] # "off"
    BY <1>0, <1>2, TaskFrame
  <2>2. phase \in {"resolving", "scanning"}
    BY <1>0, <2>1 DEF Phases, Idle, TypeOK
  <2>3. phase = "resolving" => failed' \subseteq Projects
    BY <1>0, <1>2, <2>1, TaskParts, ItemFacts DEF Phases, Asks, Writes, Queues
  <2> QED
    BY <1>0, <2>1, <2>2, <2>3 DEF Phases
<1>3. CASE BeginScans
  <2>1. Todo \subseteq Releases
    BY DEF Todo, Pending, Candidates
  <2> QED
    BY <1>0, <1>3, <2>1, ItemFacts DEF BeginScans, Phases
<1>4. CASE EndCycle
  BY <1>0, <1>4 DEF EndCycle, Phases, Idle
<1>5. ASSUME NEW k \in DOMAIN queue, NEW s \in Statuses, Review(k, s) PROVE Phases'
  BY <1>0, <1>5 DEF Review, report, Phases, Idle
<1>6. CASE Stop
  BY <1>0, <1>6 DEF Stop, Phases, Idle
<1>7. CASE Restart
  BY <1>0, <1>7 DEF Restart, report, Phases, Idle
<1>8. CASE UNCHANGED vars
  BY <1>0, <1>8 DEF vars, Phases, Idle
<1> QED
  BY <1>1, <1>2, <1>3, <1>4, <1>5, <1>6, <1>7, <1>8 DEF Next, Bound

LEMMA NextResults ==
  ASSUME IInv, [Next]_vars
  PROVE  Results'
<1> USE DEF Late
<1>0. TypeOK /\ Results
  BY DEF IInv
<1>1. ASSUME NEW f \in Feeds, Fetch(f) PROVE Results'
  BY <1>0, <1>1 DEF Fetch, Results
<1>2. ASSUME NEW i \in Items, Task(i) PROVE Results'
  <2>1. ASSUME NEW j \in Items, j # i
        PROVE  pc'[j] = pc[j] /\ result'[j] = result[j]
    BY <1>0, <1>2, <2>1, TaskFrame
  <2> DEFINE Ok == /\ pc'[i] \in {"mark"} \cup Late /\ ~IsProject(i) => result'[i] \in Records
                   /\ pc'[i] \in {"select", "insert"} => Vanished(i)'
                   /\ pc'[i] \in {"read", "enqueue"} => ~Vanished(i)'
  <2>2. /\ pc \in [Items -> {"off", "wait", "asking", "mark", "select", "insert",
                             "read", "enqueue"}]
        /\ result \in [Items -> Records \cup {NoRecord}]
    BY <1>0 DEF TypeOK
  <2>3. Ok
    <3> USE DEF Goto, Finish, Vanished, Results
    <3>1. CASE Acquire(i)
      BY <1>0, <2>2, <3>1 DEF Acquire
    <3>2. ASSUME NEW v \in Versions, Resolved(i, v) PROVE Ok
      BY <2>2, <3>2 DEF Resolved
    <3>3. CASE ResolveMissing(i)
      BY <2>2, <3>3 DEF ResolveMissing
    <3>4. CASE ResolveFails(i)
      BY <2>2, <3>4 DEF ResolveFails
    <3>5. ASSUME NEW r \in Records, Scanned(i, r) PROVE Ok
      BY <2>2, <3>5 DEF Scanned
    <3>6. CASE ScanFails(i)
      BY <2>2, <3>6 DEF ScanFails
    <3>7. CASE MarkSeen(i)
      BY <1>0, <2>2, <3>7 DEF MarkSeen, Owe
    <3>8. CASE SelectRemoved(i)
      BY <1>0, <2>2, <3>8 DEF SelectRemoved
    <3>9. CASE InsertRemoved(i)
      BY <2>2, <3>9 DEF InsertRemoved
    <3>10. CASE ReadQueue(i)
      BY <1>0, <2>2, <3>10 DEF ReadQueue
    <3>11. CASE Enqueue(i)
      BY <2>2, <3>11 DEF Enqueue
    <3> QED
      BY <1>2, <3>1, <3>2, <3>3, <3>4, <3>5, <3>6, <3>7, <3>8, <3>9, <3>10, <3>11 DEF Task
  <2> QED
    BY <1>0, <2>1, <2>3 DEF Results, Vanished
<1>3. CASE BeginScans
  BY <1>0, <1>3 DEF BeginScans, Results
<1>4. CASE EndCycle
  BY <1>0, <1>4 DEF EndCycle, Results, Vanished
<1>5. ASSUME NEW k \in DOMAIN queue, NEW s \in Statuses, Review(k, s) PROVE Results'
  BY <1>0, <1>5 DEF Review, Results, Vanished
<1>6. CASE Stop
  BY <1>0, <1>6 DEF Stop, Results
<1>7. CASE Restart
  BY <1>0, <1>7 DEF Restart, Results, Vanished
<1>8. CASE UNCHANGED vars
  BY <1>0, <1>8 DEF vars, Results, Vanished
<1> QED
  BY <1>1, <1>2, <1>3, <1>4, <1>5, <1>6, <1>7, <1>8 DEF Next, Bound

(* A task of the second half of a cycle appends a row for its own item. *)
LEMMA QueueRow ==
  ASSUME IInv, NEW i \in Items, Task(i), NEW r \in Records \cup {NoRecord},
         queue' = Append(queue, Row(i, r))
  PROVE  /\ DOMAIN queue' = DOMAIN queue \cup {Len(queue) + 1}
         /\ Len(queue) + 1 \notin DOMAIN queue
         /\ \A k \in DOMAIN queue : queue'[k] = queue[k]
         /\ RowItem(queue'[Len(queue) + 1]) = i
         /\ queue'[Len(queue) + 1].born = cycle
         /\ queue'[Len(queue) + 1].name = Name(i)
         /\ queue'[Len(queue) + 1].record = r
BY AppendType, ItemFacts DEF Row, RowItem

LEMMA TaskMarks ==
  ASSUME IInv, NEW i \in Items, Task(i)
  PROVE  Marks'
<1>1. /\ pc[i] # "off"
      /\ \A j \in Items : j # i => pc'[j] = pc[j]
  BY TaskFrame DEF IInv
<1>2. Marks
  BY DEF IInv
<1>3. \A j \in Items : Mark(j)' = Mark(j)
  BY DEF Mark, IsProject, Name
<1>4. /\ \A j \in Items : j # i => Mark(j) \cap Mark(i) = {}
      /\ Mark(i) # {}
  BY ItemFacts DEF Mark
<1>5. CASE Asks(i)
  BY <1>1, <1>2, <1>3, <1>5 DEF Asks, Marks, Early, Late
<1>6. CASE Writes(i)
  <2>1. \A j \in Items : pc'[j] \in Early => Mark(j) \cap seen' = {}
    BY <1>1, <1>2, <1>4, <1>6 DEF Writes, Marks, Early, Late
  <2>2. \A k \in DOMAIN queue : RowItem(queue[k]) # i
    BY <1>2, <1>4, <1>6 DEF Writes, Marks, Early
  <2>3. \A j \in Items : pc'[j] \in Late =>
          /\ Mark(j) \subseteq seen'
          /\ \A k \in DOMAIN queue' : RowItem(queue'[k]) # j
    BY <1>1, <1>2, <1>6, <2>2 DEF Writes, Marks
  <2>4. \A k \in DOMAIN queue' : Mark(RowItem(queue'[k])) \subseteq seen'
    BY <1>2, <1>6 DEF Writes, Marks
  <2>5. \A j \in Items : pc'[j] # "off" => j \notin failed'
    BY <1>1, <1>2, <1>6 DEF Writes, Marks
  <2> QED
    BY <1>3, <2>1, <2>3, <2>4, <2>5 DEF Marks, Mark, IsProject, Name
<1>7. CASE Queues(i)
  <2>1. CASE UNCHANGED queue /\ pc'[i] \in Late \cup {"off"}
    BY <1>1, <1>2, <1>3, <1>7, <2>1 DEF Queues, Marks, Early, Late
  <2>2. ASSUME NEW r \in Records \cup {NoRecord},
               queue' = Append(queue, Row(i, r)), pc'[i] = "off"
        PROVE  Marks'
    <3>1. \A k \in DOMAIN queue' :
            IF k \in DOMAIN queue THEN queue'[k] = queue[k]
                                  ELSE RowItem(queue'[k]) = i
      BY <2>2, QueueRow
    <3>2. UNCHANGED <<seen, failed>> /\ pc[i] \in Late
      BY <1>7 DEF Queues
    <3>3. \A j \in Items : pc'[j] \in Early => Mark(j) \cap seen' = {}
      BY <1>1, <1>2, <2>2, <3>2 DEF Marks, Early
    <3>4. \A j \in Items : pc'[j] \in Late =>
            /\ Mark(j) \subseteq seen'
            /\ \A k \in DOMAIN queue' : RowItem(queue'[k]) # j
      BY <1>1, <1>2, <2>2, <3>1, <3>2 DEF Marks, Late
    <3>5. \A k \in DOMAIN queue' : Mark(RowItem(queue'[k])) \subseteq seen'
      BY <1>2, <3>1, <3>2 DEF Marks
    <3>6. \A j \in Items : pc'[j] # "off" => j \notin failed'
      BY <1>1, <1>2, <2>2, <3>2 DEF Marks
    <3> QED
      BY <1>3, <3>3, <3>4, <3>5, <3>6 DEF Marks, Mark, IsProject, Name
  <2> QED
    BY <1>7, <2>1, <2>2 DEF Queues
<1> QED
  BY <1>5, <1>6, <1>7, TaskParts

LEMMA NextMarks ==
  ASSUME IInv, [Next]_vars
  PROVE  Marks'
<1> USE DEF report, store, Early, Late, Mark, IsProject, Name
<1>0. TypeOK /\ Phases /\ Marks
  BY DEF IInv
<1>1. ASSUME NEW f \in Feeds, Fetch(f) PROVE Marks'
  <2>1. \A i \in Items : pc'[i] # "off" => pc'[i] = "wait" /\ Mark(i) \cap seen = {}
    BY <1>1 DEF Fetch, Known
  <2> QED
    BY <1>0, <1>1, <2>1 DEF Fetch, Marks, RowItem
<1>2. ASSUME NEW i \in Items, Task(i) PROVE Marks'
  BY <1>2, TaskMarks
<1>3. CASE BeginScans
  <2>1. \A i \in Items : i \in Todo => i \in Releases /\ i \notin seen
    BY DEF Todo, Pending, Candidates
  <2>2. \A i \in Items : i \in Todo => Mark(i) \cap seen = {} /\ i \notin failed
    BY <1>0, <1>3, <2>1, ItemFacts DEF Phases, BeginScans
  <2>3. \A i \in Items : pc'[i] # "off" => pc'[i] = "wait" /\ i \in Todo
    BY <1>3 DEF BeginScans
  <2>4. UNCHANGED <<failed, seen, queue>>
    BY <1>3 DEF BeginScans
  <2> QED
    BY <1>0, <2>2, <2>3, <2>4 DEF Marks, RowItem
<1>4. CASE EndCycle
  BY <1>0, <1>4 DEF EndCycle, Marks, RowItem
<1>5. ASSUME NEW k \in DOMAIN queue, NEW s \in Statuses, Review(k, s) PROVE Marks'
  <2>1. /\ DOMAIN queue' = DOMAIN queue
        /\ \A l \in DOMAIN queue : RowItem(queue'[l]) = RowItem(queue[l])
    BY <1>0, <1>5, ReviewType DEF RowItem
  <2>2. UNCHANGED <<pc, failed, seen>>
    BY <1>5 DEF Review
  <2> QED
    BY <1>0, <2>1, <2>2 DEF Marks
<1>6. CASE Stop
  BY <1>0, <1>6 DEF Stop, Marks, RowItem
<1>7. CASE Restart
  BY <1>0, <1>7 DEF Restart, Marks, RowItem
<1>8. CASE UNCHANGED vars
  BY <1>0, <1>8 DEF vars, Marks, RowItem
<1> QED
  BY <1>1, <1>2, <1>3, <1>4, <1>5, <1>6, <1>7, <1>8 DEF Next, Bound

THEOREM Invariance == Spec => []IInv
<1>1. IInv /\ [Next]_vars => IInv'
  BY NextType, NextPhases, NextResults, NextMarks DEF IInv
<1> QED
  BY InitIInv, <1>1, PTL DEF Spec

-----------------------------------------------------------------------------
(* The variables keep their types. *)
THEOREM TypeCorrect == Spec => []TypeOK
<1>1. IInv => TypeOK
  BY DEF IInv
<1> QED
  BY Invariance, <1>1, PTL

(***************************************************************************)
(* However often the process stops, a release or vanished name is queued   *)
(* at most once: its row implies its mark, and a marked item gets no task. *)
(***************************************************************************)
THEOREM QueuedOnce == Spec => []ReleaseQueuedOnce
<1>1. Init => ReleaseQueuedOnce
  BY DEF Init, ReleaseQueuedOnce
<1>2. ASSUME IInv, ReleaseQueuedOnce, [Next]_vars
      PROVE  ReleaseQueuedOnce'
  <2>1. ASSUME NEW i \in Items, Task(i) PROVE ReleaseQueuedOnce'
    <3>1. CASE UNCHANGED queue
      BY <1>2, <3>1 DEF ReleaseQueuedOnce
    <3>2. ASSUME NEW r \in Records \cup {NoRecord},
                 queue' = Append(queue, Row(i, r)), Queues(i)
          PROVE  ReleaseQueuedOnce'
      <4>1. \A k \in DOMAIN queue : RowItem(queue[k]) # i
        BY <1>2, <3>2 DEF IInv, Marks, Queues
      <4>2. /\ DOMAIN queue' = DOMAIN queue \cup {Len(queue) + 1}
            /\ \A k \in DOMAIN queue : queue'[k] = queue[k]
            /\ RowItem(queue'[Len(queue) + 1]) = i
        BY <1>2, <2>1, <3>2, QueueRow
      <4> QED
        BY <1>2, <4>1, <4>2 DEF ReleaseQueuedOnce, RowItem
    <3> QED
      BY <1>2, <2>1, <3>1, <3>2, TaskParts DEF Asks, Writes, Queues
  <2>2. ASSUME NEW k \in DOMAIN queue, NEW s \in Statuses, Review(k, s)
        PROVE  ReleaseQueuedOnce'
    BY <1>2, <2>2, ReviewType DEF IInv, ReleaseQueuedOnce
  <2>3. CASE UNCHANGED queue
    BY <1>2, <2>3 DEF ReleaseQueuedOnce
  <2> QED
    BY <1>2, <2>1, <2>2, <2>3
       DEF Next, Bound, vars, store, Fetch, BeginScans, EndCycle, Stop, Restart
<1> QED
  BY Invariance, <1>1, <1>2, PTL DEF Spec

(* A failed item is not marked, whichever other item is marked after it. *)
THEOREM FailedNotSeen == Spec => []FailedIsRetried
<1>1. Init => FailedIsRetried
  BY DEF Init, FailedIsRetried
<1>2. ASSUME IInv, FailedIsRetried, [Next]_vars
      PROVE  FailedIsRetried'
  <2>0. TypeOK /\ Marks
    BY <1>2 DEF IInv
  <2>1. ASSUME NEW i \in Items, Task(i) PROVE FailedIsRetried'
    <3>1. CASE Asks(i)
      <4>1. i \notin seen
        <5>1. CASE IsProject(i)
          BY <2>0, <5>1, ConstantsAssumption DEF TypeOK, IsProject, Releases
        <5>2. CASE ~IsProject(i)
          BY <2>0, <3>1, <5>2 DEF Asks, Marks, Early, Mark
        <5> QED
          BY <5>1, <5>2
      <4> QED
        BY <1>2, <3>1, <4>1 DEF Asks, FailedIsRetried
    <3>2. CASE Writes(i)
      <4>1. Mark(i) \cap failed = {}
        <5>1. CASE IsProject(i)
          BY <2>0, <5>1, ConstantsAssumption DEF TypeOK, Mark, Items, Releases, Projects
        <5>2. CASE ~IsProject(i)
          BY <2>0, <3>2, <5>2 DEF Writes, Marks, Mark
        <5> QED
          BY <5>1, <5>2
      <4> QED
        BY <1>2, <3>2, <4>1 DEF Writes, FailedIsRetried
    <3>3. CASE Queues(i)
      BY <1>2, <3>3 DEF Queues, FailedIsRetried
    <3> QED
      BY <1>2, <2>1, <3>1, <3>2, <3>3, TaskParts
  <2>2. CASE UNCHANGED <<failed, seen>>
    BY <1>2, <2>2 DEF FailedIsRetried
  <2>3. CASE failed' = {}
    BY <2>3 DEF FailedIsRetried
  <2> QED
    BY <1>2, <2>1, <2>2, <2>3
       DEF Next, Bound, vars, report, store, Fetch, BeginScans, EndCycle, Review, Stop, Restart
<1> QED
  BY Invariance, <1>1, <1>2, PTL DEF Spec

-----------------------------------------------------------------------------
(* No record's signature is the reason of a removal. *)
LEMMA ReasonsDiffer == \A r : Signature(r) # <<"removed">>
BY DEF Signature

HasRow(n, reason) ==
  \E k \in DOMAIN queue : queue[k].name = n /\ Reason(queue[k]) = reason

(***************************************************************************)
(* The second half of a task: it ends because the reason has a row, goes   *)
(* on because it has none, or inserts the row.                             *)
(***************************************************************************)
LEMMA QueueSteps ==
  ASSUME IInv, NEW i \in Items, Task(i), pc[i] \in Late
  PROVE  \/ /\ UNCHANGED queue /\ pc'[i] = "off"
            /\ HasRow(Name(i), ReasonOf(i))
         \/ /\ UNCHANGED <<queue, result>> /\ pc'[i] \in {"insert", "enqueue"}
            /\ ~HasRow(Name(i), ReasonOf(i))
         \/ /\ pc[i] \in {"insert", "enqueue"} /\ pc'[i] = "off"
            /\ \E r \in Records \cup {NoRecord} :
                 queue' = Append(queue, Row(i, r))
            /\ queue'[Len(queue) + 1].name = Name(i)
            /\ queue'[Len(queue) + 1].born = cycle
            /\ Reason(queue'[Len(queue) + 1]) = ReasonOf(i)
<1> USE DEF Goto, Finish, Late
<1>0. /\ pc \in [Items -> {"off", "wait", "asking", "mark", "select", "insert",
                           "read", "enqueue"}]
      /\ Results
  BY DEF IInv, TypeOK
<1>1. CASE SelectRemoved(i)
  <2>1. ReasonOf(i) = <<"removed">>
    BY <1>0, <1>1 DEF SelectRemoved, Results, ReasonOf
  <2>2. RemovalQueued(Name(i)) <=> HasRow(Name(i), ReasonOf(i))
    BY <2>1, ReasonsDiffer DEF RemovalQueued, QueueRows, HasRow, Reason
  <2> QED
    BY <1>0, <1>1, <2>2 DEF SelectRemoved, store
<1>2. CASE ReadQueue(i)
  <2>1. ReasonOf(i) = Signature(result[i])
    BY <1>0, <1>2 DEF ReadQueue, Results, ReasonOf
  <2>2. Repeated(i) <=> HasRow(Name(i), ReasonOf(i))
    BY <2>1, ReasonsDiffer DEF Repeated, QueuedReasons, QueueRows, HasRow, Reason
  <2> QED
    BY <1>0, <1>2, <2>2 DEF ReadQueue, store
<1>3. CASE InsertRemoved(i)
  <2>1. ReasonOf(i) = <<"removed">>
    BY <1>0, <1>3 DEF InsertRemoved, Results, ReasonOf
  <2>2. queue' = Append(queue, Row(i, NoRecord)) /\ pc'[i] = "off" /\ pc[i] = "insert"
    BY <1>0, <1>3 DEF InsertRemoved
  <2>3. /\ queue'[Len(queue) + 1].name = Name(i)
        /\ queue'[Len(queue) + 1].born = cycle
        /\ queue'[Len(queue) + 1].record = NoRecord
    BY <2>2, QueueRow
  <2> QED
    BY <2>1, <2>2, <2>3 DEF Reason, IsRemoval
<1>4. CASE Enqueue(i)
  <2>1. pc[i] = "enqueue"
    BY <1>4 DEF Enqueue
  <2>2. ~Vanished(i)
    BY <1>0, <2>1 DEF Results
  <2>3. result[i] \in Records /\ ReasonOf(i) = Signature(result[i])
    BY <1>0, <2>1, <2>2 DEF Results, Vanished, ReasonOf
  <2>4. queue' = Append(queue, Row(i, result[i])) /\ pc'[i] = "off"
    BY <1>0, <1>4 DEF Enqueue
  <2>5. /\ queue'[Len(queue) + 1].name = Name(i)
        /\ queue'[Len(queue) + 1].born = cycle
        /\ queue'[Len(queue) + 1].record = result[i]
    BY <2>3, <2>4, QueueRow
  <2> QED
    BY <2>1, <2>3, <2>4, <2>5, ConstantsAssumption DEF Reason, IsRemoval
<1> QED
  BY <1>1, <1>2, <1>3, <1>4
     DEF Task, Acquire, Resolved, ResolveMissing, ResolveFails, Scanned, ScanFails, MarkSeen

(* A task before its insert has seen every row for its reason but today's. *)
Current ==
  \A i \in Items, k \in DOMAIN queue :
    /\ pc[i] \in {"insert", "enqueue"}
    /\ queue[k].name = Name(i) /\ Reason(queue[k]) = ReasonOf(i)
    => queue[k].born = cycle

(* Review leaves what the rows are about alone. *)
LEMMA ReviewReasons ==
  ASSUME TypeOK, NEW k \in DOMAIN queue, NEW s \in Statuses, Review(k, s)
  PROVE  /\ DOMAIN queue' = DOMAIN queue
         /\ \A l \in DOMAIN queue :
              /\ queue'[l].name = queue[l].name
              /\ Reason(queue'[l]) = Reason(queue[l])
              /\ queue'[l].born = queue[l].born
BY ReviewType DEF Reason, IsRemoval

(***************************************************************************)
(* Across cycles and restarts a reason already queued for a name is not    *)
(* queued again: two rows for one reason were inserted in the same cycle.  *)
(***************************************************************************)
THEOREM RepeatsRecognised == Spec => []RepeatsOnlyWithinCycle
<1> DEFINE Inv == Current /\ RepeatsOnlyWithinCycle
<1>1. Init => Inv
  BY DEF Init, Current, RepeatsOnlyWithinCycle
<1>2. ASSUME IInv, Inv, [Next]_vars
      PROVE  Inv'
  <2>0. TypeOK /\ Phases
    BY <1>2 DEF IInv
  <2>1. ASSUME NEW i \in Items, Task(i) PROVE Inv'
    <3>1. /\ cycle' = cycle
          /\ \A j \in Items : j # i => pc'[j] = pc[j] /\ result'[j] = result[j]
      BY <2>0, <2>1, TaskFrame
    <3>2. \A j \in Items : j # i => ReasonOf(j)' = ReasonOf(j)
      BY <3>1 DEF ReasonOf, Vanished
    <3>3. CASE UNCHANGED queue /\ pc'[i] \notin {"insert", "enqueue"}
      BY <1>2, <3>1, <3>2, <3>3 DEF Current, RepeatsOnlyWithinCycle, Reason, IsRemoval
    <3>4. CASE /\ UNCHANGED <<queue, result>> /\ pc'[i] \in {"insert", "enqueue"}
               /\ ~HasRow(Name(i), ReasonOf(i))
      <4>1. ReasonOf(i)' = ReasonOf(i)
        BY <3>4 DEF ReasonOf, Vanished
      <4> QED
        BY <1>2, <3>1, <3>2, <3>4, <4>1
           DEF Current, RepeatsOnlyWithinCycle, HasRow, Reason, IsRemoval
    <3>5. CASE /\ pc[i] \in {"insert", "enqueue"} /\ pc'[i] = "off"
               /\ \E r \in Records \cup {NoRecord} : queue' = Append(queue, Row(i, r))
               /\ queue'[Len(queue) + 1].name = Name(i)
               /\ queue'[Len(queue) + 1].born = cycle
               /\ Reason(queue'[Len(queue) + 1]) = ReasonOf(i)
      <4>1. /\ DOMAIN queue' = DOMAIN queue \cup {Len(queue) + 1}
            /\ \A k \in DOMAIN queue : queue'[k] = queue[k]
        BY <1>2, <2>1, <3>5, QueueRow
      <4>2. \A k \in DOMAIN queue :
              /\ queue[k].name = Name(i) /\ Reason(queue[k]) = ReasonOf(i)
              => queue[k].born = cycle
        BY <1>2, <3>5 DEF Current
      <4>3. RepeatsOnlyWithinCycle'
        <5> SUFFICES ASSUME NEW k \in DOMAIN queue', NEW l \in DOMAIN queue',
                            queue'[k].name = queue'[l].name,
                            Reason(queue'[k]) = Reason(queue'[l])
                     PROVE  queue'[k].born = queue'[l].born
          BY DEF RepeatsOnlyWithinCycle, Reason, IsRemoval
        <5>1. CASE k \in DOMAIN queue /\ l \in DOMAIN queue
          BY <1>2, <4>1, <5>1 DEF RepeatsOnlyWithinCycle
        <5>2. CASE k \in DOMAIN queue /\ l = Len(queue) + 1
          BY <3>5, <4>1, <4>2, <5>2
        <5>3. CASE k = Len(queue) + 1 /\ l \in DOMAIN queue
          BY <3>5, <4>1, <4>2, <5>3
        <5> QED
          BY <4>1, <5>1, <5>2, <5>3
      <4>4. Current'
        <5> SUFFICES ASSUME NEW j \in Items, NEW k \in DOMAIN queue',
                            pc'[j] \in {"insert", "enqueue"},
                            queue'[k].name = Name(j),
                            Reason(queue'[k]) = ReasonOf(j)'
                     PROVE  queue'[k].born = cycle'
          BY DEF Current, Reason, IsRemoval, Name
        <5>1. j # i
          BY <3>5
        <5>2. CASE k = Len(queue) + 1
          BY <3>1, <3>5, <5>2
        <5>3. CASE k \in DOMAIN queue
          BY <1>2, <3>1, <3>2, <4>1, <5>1, <5>3 DEF Current
        <5> QED
          BY <4>1, <5>2, <5>3
      <4> QED
        BY <4>3, <4>4
    <3>6. pc[i] \notin Late => UNCHANGED queue /\ pc'[i] \notin {"insert", "enqueue"}
      BY <1>2, <2>0, <2>1, TaskParts, MarkGoesOn DEF Asks, Writes, Queues, Early
    <3> QED
      BY <1>2, <2>1, <3>3, <3>4, <3>5, <3>6, QueueSteps
  <2>2. ASSUME NEW k \in DOMAIN queue, NEW s \in Statuses, Review(k, s)
        PROVE  Inv'
    BY <1>2, <2>0, <2>2, ReviewReasons
       DEF Review, Current, RepeatsOnlyWithinCycle, Reason, IsRemoval, ReasonOf, Vanished
  <2>3. CASE UNCHANGED queue /\ Idle'
    BY <1>2, <2>3 DEF Current, RepeatsOnlyWithinCycle, Idle, Reason, IsRemoval
  <2>4. CASE UNCHANGED queue /\ \A i \in Items : pc'[i] \in {"off", "wait"}
    BY <1>2, <2>4 DEF Current, RepeatsOnlyWithinCycle, Reason, IsRemoval
  <2>5. CASE UNCHANGED vars
    BY <1>2, <2>5
       DEF vars, Current, RepeatsOnlyWithinCycle, Reason, IsRemoval, ReasonOf, Vanished
  <2> QED
    BY <1>2, <2>0, <2>1, <2>2, <2>3, <2>4, <2>5
       DEF Next, Bound, store, Phases, Idle, Fetch, BeginScans, EndCycle, Stop, Restart
<1> QED
  BY Invariance, <1>1, <1>2, PTL DEF Spec

-----------------------------------------------------------------------------
LEMMA ItemsFinite ==
  /\ IsFiniteSet(Items)
  /\ \A S \in SUBSET Items : IsFiniteSet(S) /\ Cardinality(S) \in Nat
<1>1. IsFiniteSet(Releases) /\ IsFiniteSet(Projects)
  BY ConstantsAssumption, FS_Product, FS_Singleton DEF Releases, Projects
<1>2. IsFiniteSet(Items)
  BY <1>1, FS_Union DEF Items
<1> QED
  BY <1>2, FS_Subset, FS_CardinalityType

(* A task takes one permit, gives one back, or leaves the semaphore alone. *)
LEMMA TaskPermits ==
  ASSUME IInv, NEW i \in Items, Task(i)
  PROVE  \/ i \notin Holders /\ i \in Holders' /\ permits > 0 /\ permits' = permits - 1
         \/ i \in Holders /\ i \notin Holders' /\ permits' = permits + 1
         \/ (i \in Holders <=> i \in Holders') /\ permits' = permits
<1> USE DEF Goto, Finish, Holders, IsProject, Late
<1>0. /\ pc \in [Items -> {"off", "wait", "asking", "mark", "select", "insert",
                           "read", "enqueue"}]
      /\ Results
  BY DEF IInv, TypeOK
<1>1. CASE Acquire(i)
  BY <1>0, <1>1 DEF Acquire
<1>2. ASSUME NEW v \in Versions, Resolved(i, v)
      PROVE  i \in Holders /\ i \notin Holders' /\ permits' = permits + 1
  BY <1>0, <1>2 DEF Resolved
<1>3. CASE ResolveMissing(i)
  BY <1>0, <1>3 DEF ResolveMissing
<1>4. CASE ResolveFails(i)
  BY <1>0, <1>4 DEF ResolveFails
<1>5. ASSUME NEW r \in Records, Scanned(i, r)
      PROVE  i \in Holders /\ i \notin Holders' /\ permits' = permits + 1
  BY <1>0, <1>5 DEF Scanned, ReleasePermit
<1>6. CASE ScanFails(i)
  BY <1>0, <1>6 DEF ScanFails, ReleasePermit
<1>7. CASE MarkSeen(i)
  BY <1>0, <1>7 DEF MarkSeen, Owe, Vanished
<1>8. CASE SelectRemoved(i)
  BY <1>0, <1>8 DEF SelectRemoved
<1>9. CASE InsertRemoved(i)
  BY <1>0, <1>9 DEF InsertRemoved
<1>10. CASE ReadQueue(i)
  BY <1>0, <1>10 DEF ReadQueue, Results, Vanished
<1>11. CASE Enqueue(i)
  BY <1>0, <1>11 DEF Enqueue, Results, Vanished
<1> QED
  BY <1>1, <1>2, <1>3, <1>4, <1>5, <1>6, <1>7, <1>8, <1>9, <1>10, <1>11 DEF Task

(* The semaphore never admits more than `concurrency`, and loses no permit. *)
THEOREM PermitsKept == Spec => []PermitsAccounted
<1>1. Init => PermitsAccounted
  <2> SUFFICES ASSUME Init PROVE PermitsAccounted
    OBVIOUS
  <2>1. Holders = {} /\ permits = Concurrency
    BY DEF Init, Holders
  <2> QED
    BY <2>1, FS_EmptySet, ConstantsAssumption DEF PermitsAccounted
<1>2. ASSUME IInv, PermitsAccounted, [Next]_vars
      PROVE  PermitsAccounted'
  <2>0. TypeOK /\ Phases
    BY <1>2 DEF IInv
  <2>1. ASSUME NEW i \in Items, Task(i) PROVE PermitsAccounted'
    <3>1. \A j \in Items : j # i => (j \in Holders <=> j \in Holders')
      BY <2>0, <2>1, TaskFrame DEF Holders, IsProject
    <3>2. IsFiniteSet(Holders) /\ Cardinality(Holders) \in Nat /\ permits \in Int
      BY <2>0, ItemsFinite DEF Holders, TypeOK
    <3>3. Holders \subseteq Items /\ Holders' \subseteq Items
      BY DEF Holders
    <3>4. CASE i \notin Holders /\ i \in Holders' /\ permits > 0 /\ permits' = permits - 1
      <4>1. Holders' = Holders \cup {i}
        BY <3>1, <3>3, <3>4
      <4>2. Cardinality(Holders') = Cardinality(Holders) + 1
        BY <3>2, <3>4, <4>1, FS_AddElement
      <4> QED
        BY <1>2, <3>2, <3>4, <4>2 DEF PermitsAccounted
    <3>5. CASE i \in Holders /\ i \notin Holders' /\ permits' = permits + 1
      <4>1. Holders' = Holders \ {i}
        BY <3>1, <3>3, <3>5
      <4>2. Cardinality(Holders') = Cardinality(Holders) - 1
        BY <3>2, <3>5, <4>1, FS_RemoveElement
      <4> QED
        BY <1>2, <3>2, <3>5, <4>2 DEF PermitsAccounted
    <3>6. CASE (i \in Holders <=> i \in Holders') /\ permits' = permits
      <4>1. Holders' = Holders
        BY <3>1, <3>3, <3>6
      <4> QED
        BY <1>2, <3>6, <4>1 DEF PermitsAccounted
    <3> QED
      BY <1>2, <2>1, <3>4, <3>5, <3>6, TaskPermits
  <2>2. CASE /\ \A i \in Items : pc'[i] \in {"off", "wait"}
             /\ permits' = Concurrency
    <3>1. Holders' = {}
      BY <2>2 DEF Holders
    <3> QED
      BY <2>2, <3>1, FS_EmptySet, ConstantsAssumption DEF PermitsAccounted
  <2>3. CASE BeginScans
    <3>1. Holders = {}
      BY <2>3 DEF BeginScans, Idle, Holders
    <3>2. permits' = Concurrency
      BY <1>2, <2>0, <2>3, <3>1, FS_EmptySet DEF BeginScans, PermitsAccounted, TypeOK
    <3> QED
      BY <2>2, <2>3, <3>2 DEF BeginScans
  <2>4. CASE UNCHANGED <<pc, permits>>
    BY <1>2, <2>4 DEF PermitsAccounted, Holders
  <2> QED
    BY <1>2, <2>1, <2>2, <2>3, <2>4
       DEF Next, Bound, vars, Fetch, EndCycle, Review, Stop, Restart
<1> QED
  BY Invariance, <1>1, <1>2, PTL DEF Spec

-----------------------------------------------------------------------------
(* A task between its mark and its last step covers its own reason. *)
OwnTask(d, i) == pc[i] \in Late /\ Name(i) = d[1] /\ ReasonOf(i) = d[2]

LEMMA CoveredEither ==
  \A d : Covered(d) <=> HasRow(d[1], d[2]) \/ \E i \in Items : OwnTask(d, i)
BY DEF Covered, HasRow, QueueRows, OwnTask, Late

LEMMA CoveredNext ==
  \A d : HasRow(d[1], d[2])' \/ (\E i \in Items : OwnTask(d, i)') => Covered(d)'
BY DEF Covered, HasRow, QueueRows, OwnTask, Late, Reason, IsRemoval, ReasonOf, Vanished

(***************************************************************************)
(* While the watcher is not stopped, what a cycle found suspicious or gone *)
(* reaches the queue: the comparison with earlier rows drops only repeats. *)
(***************************************************************************)
THEOREM NothingIsLost == Spec => []NothingLost
<1>1. Init => NothingLost
  BY DEF Init, NothingLost
<1>2. ASSUME IInv, NothingLost, [Next]_vars
      PROVE  NothingLost'
  <2>0. TypeOK /\ Phases /\ Results
    BY <1>2 DEF IInv
  <2>1. ASSUME NEW i \in Items, Task(i), stops' = 0, NEW d \in due'
        PROVE  Covered(d)'
    <3>1. /\ stops = 0
          /\ \A j \in Items : j # i => pc'[j] = pc[j] /\ result'[j] = result[j]
      BY <2>0, <2>1, TaskFrame
    <3>2. \A j \in Items : j # i /\ OwnTask(d, j) => OwnTask(d, j)'
      BY <3>1 DEF OwnTask, ReasonOf, Vanished
    <3>3. ASSUME HasRow(d[1], d[2]) PROVE HasRow(d[1], d[2])'
      <4>1. CASE UNCHANGED queue
        BY <3>3, <4>1 DEF HasRow, Reason, IsRemoval
      <4>2. ASSUME NEW r \in Records \cup {NoRecord}, queue' = Append(queue, Row(i, r))
            PROVE  HasRow(d[1], d[2])'
        BY <1>2, <2>1, <3>3, <4>2, QueueRow DEF HasRow, Reason, IsRemoval
      <4> QED
        BY <1>2, <2>1, <4>1, <4>2, TaskParts DEF Asks, Writes, Queues
    <3>4. CASE d \in due /\ ~OwnTask(d, i)
      BY <1>2, <3>1, <3>2, <3>3, <3>4, CoveredEither, CoveredNext DEF NothingLost
    <3>5. CASE pc[i] \in Late /\ OwnTask(d, i)
      <4>1. CASE UNCHANGED queue /\ HasRow(Name(i), ReasonOf(i))
        <5>1. HasRow(d[1], d[2])'
          BY <3>3, <3>5, <4>1 DEF OwnTask
        <5> QED
          BY <5>1, CoveredNext
      <4>2. CASE UNCHANGED <<queue, result>> /\ pc'[i] \in {"insert", "enqueue"}
        <5>1. OwnTask(d, i)'
          BY <3>5, <4>2 DEF OwnTask, ReasonOf, Vanished, Late
        <5> QED
          BY <5>1, CoveredNext
      <4>3. CASE /\ \E r \in Records \cup {NoRecord} : queue' = Append(queue, Row(i, r))
                 /\ queue'[Len(queue) + 1].name = Name(i)
                 /\ Reason(queue'[Len(queue) + 1]) = ReasonOf(i)
        <5>1. Len(queue) + 1 \in DOMAIN queue'
          BY <1>2, <2>1, <4>3, QueueRow
        <5>2. HasRow(d[1], d[2])'
          BY <3>5, <4>3, <5>1 DEF HasRow, OwnTask, Reason, IsRemoval
        <5> QED
          BY <5>2, CoveredNext
      <4> QED
        BY <1>2, <2>1, <3>5, <4>1, <4>2, <4>3, QueueSteps
    <3>6. CASE d \notin due
      <4>1. Writes(i) /\ pc'[i] # "off"
        BY <1>2, <2>0, <2>1, <3>6, TaskParts, MarkGoesOn DEF Asks, Queues, Writes
      <4>2. Owe(i, pc'[i]) /\ pc'[i] \in {"select", "read"}
        BY <2>0, <2>1, <4>1, MarkGoesOn DEF Writes
      <4>3. d = <<Name(i), ReasonOf(i)>> /\ UNCHANGED result
        BY <2>1, <3>6, <4>2 DEF Owe
      <4>4. OwnTask(d, i)'
        BY <4>2, <4>3 DEF OwnTask, ReasonOf, Vanished, Late
      <4> QED
        BY <4>4, CoveredNext
    <3> QED
      BY <3>4, <3>5, <3>6 DEF OwnTask
  <2>2. ASSUME UNCHANGED <<due, stops>>,
               \A d \in due : HasRow(d[1], d[2]) => HasRow(d[1], d[2])',
               \/ Idle
               \/ UNCHANGED <<pc, result>>
        PROVE  NothingLost'
    <3> SUFFICES ASSUME stops = 0, NEW d \in due PROVE Covered(d)'
      BY <2>2 DEF NothingLost
    <3>1. HasRow(d[1], d[2]) \/ \E i \in Items : OwnTask(d, i)
      BY <1>2, CoveredEither DEF NothingLost
    <3>2. CASE HasRow(d[1], d[2])
      BY <2>2, <3>2, CoveredNext
    <3>3. ASSUME NEW i \in Items, OwnTask(d, i) PROVE Covered(d)'
      <4>1. OwnTask(d, i)'
        BY <2>2, <3>3 DEF OwnTask, Idle, Late, ReasonOf, Vanished
      <4> QED
        BY <4>1, CoveredNext
    <3> QED
      BY <3>1, <3>2, <3>3
  <2>4. ASSUME UNCHANGED queue
        PROVE  \A d \in due : HasRow(d[1], d[2]) => HasRow(d[1], d[2])'
    BY <2>4 DEF HasRow, Reason, IsRemoval
  <2>5. ASSUME NEW f \in Feeds, Fetch(f) PROVE NothingLost'
    BY <2>0, <2>2, <2>4, <2>5 DEF Fetch, store, Phases
  <2>6. CASE BeginScans
    BY <2>2, <2>4, <2>6 DEF BeginScans, store
  <2>7. CASE EndCycle \/ Restart \/ UNCHANGED vars
    BY <2>2, <2>4, <2>7 DEF EndCycle, Restart, store, vars
  <2>8. ASSUME NEW k \in DOMAIN queue, NEW s \in Statuses, Review(k, s)
        PROVE  NothingLost'
    <3>1. \A d \in due : HasRow(d[1], d[2]) => HasRow(d[1], d[2])'
      BY <2>0, <2>8, ReviewReasons DEF HasRow, Reason, IsRemoval
    <3> QED
      BY <2>2, <2>8, <3>1 DEF Review
  <2>9. CASE Stop
    <3>1. stops' # 0
      BY <2>0, <2>9, ConstantsAssumption DEF Stop, TypeOK
    <3> QED
      BY <3>1 DEF NothingLost
  <2>10. ASSUME NEW i \in Items, Task(i) PROVE NothingLost'
    BY <2>1, <2>10 DEF NothingLost
  <2> QED
    BY <1>2, <2>5, <2>6, <2>7, <2>8, <2>9, <2>10 DEF Next, Bound
<1> QED
  BY Invariance, <1>1, <1>2, PTL DEF Spec

-----------------------------------------------------------------------------
(* What is settled of each item of the feed, once its task has ended. *)
Settled(i) == i \in failed \/ Known(Name(i)) \/ latest[Name(i)] # Latest
Sorted ==
  /\ phase # "down" => \A i \in ToSet(feed) \cap Projects : pc[i] # "off" \/ Settled(i)
  /\ phase \in {"scanning", "sleep"} => \A r \in Candidates : pc[r] # "off" \/ Accounted(r)
  /\ phase = "down" => feed = <<>>

(* A task that ends leaves its item settled, whatever branch it took. *)
LEMMA TaskSettles ==
  ASSUME IInv, NEW i \in Items, Task(i)
  PROVE  /\ seen \subseteq seen' /\ failed \subseteq failed'
         /\ \A n \in Names : latest[n] # Latest => latest'[n] # Latest
         /\ pc'[i] = "off" =>
              \/ i \in failed'
              \/ Mark(i) \subseteq seen'
              \/ IsProject(i) /\ latest'[Name(i)] # Latest
<1>0. TypeOK /\ Marks
  BY DEF IInv
<1>1. CASE Writes(i)
  BY <1>1 DEF Writes
<1>2. CASE Queues(i)
  BY <1>0, <1>2 DEF Queues, Marks
<1>3. CASE pc[i] \in {"wait", "asking"}
  <2> USE <1>0 DEF TypeOK, Goto, Finish, report, store
  <2>1. CASE Acquire(i)
    BY <2>1 DEF Acquire
  <2>2. ASSUME NEW v \in Versions, Resolved(i, v)
        PROVE  /\ seen \subseteq seen' /\ failed \subseteq failed'
               /\ \A n \in Names : latest[n] # Latest => latest'[n] # Latest
               /\ IsProject(i) /\ latest'[Name(i)] # Latest
    BY <2>2, ItemFacts, ConstantsAssumption DEF Resolved
  <2>3. CASE ResolveMissing(i)
    BY <2>3 DEF ResolveMissing
  <2>4. CASE ResolveFails(i)
    BY <2>4 DEF ResolveFails
  <2>5. CASE \E r \in Records : Scanned(i, r)
    BY <2>5 DEF Scanned
  <2>6. CASE ScanFails(i)
    BY <2>6 DEF ScanFails
  <2> QED
    BY <1>3, <2>1, <2>2, <2>3, <2>4, <2>5, <2>6
       DEF Task, MarkSeen, SelectRemoved, InsertRemoved, ReadQueue, Enqueue
<1> QED
  BY <1>1, <1>2, <1>3, TaskParts DEF Asks

(***************************************************************************)
(* No item of a feed is dropped: between the lookups and the scans each is *)
(* resolved, known or failed, and each candidate is rejected, seen,        *)
(* scanned or deferred.                                                    *)
(***************************************************************************)
THEOREM NothingDropped == Spec => []CycleAccounts
<1>1. Init => Sorted
  BY DEF Init, Sorted, Candidates, IsNew, ToSet
<1>2. ASSUME IInv, Sorted, [Next]_vars
      PROVE  Sorted'
  <2>0. TypeOK /\ Phases
    BY <1>2 DEF IInv
  <2>1. ASSUME NEW f \in Feeds, Fetch(f) PROVE Sorted'
    BY <2>0, <2>1 DEF Fetch, Sorted, Settled, Known, Items, IsProject, Projects, Name, store
  <2>2. ASSUME NEW i \in Items, Task(i) PROVE Sorted'
    <3>1. /\ UNCHANGED <<phase, feed, deferred>>
          /\ \A j \in Items : j # i => pc'[j] = pc[j]
          /\ IsProject(i) \/ latest' = latest
      BY <2>0, <2>2, TaskFrame
    <3>2. /\ seen \subseteq seen' /\ failed \subseteq failed'
          /\ \A n \in Names : latest[n] # Latest => latest'[n] # Latest
          /\ pc'[i] = "off" =>
               \/ i \in failed'
               \/ Mark(i) \subseteq seen'
               \/ IsProject(i) /\ latest'[Name(i)] # Latest
      BY <1>2, <2>2, TaskSettles
    <3>3. \A j \in Projects : Settled(j) => Settled(j)'
      BY <3>2, ItemFacts DEF Settled, Known, Items
    <3>4. i \in Projects => pc'[i] # "off" \/ Settled(i)'
      BY <3>2, ItemFacts DEF Settled, Known, Mark, Name
    <3>5. phase # "down" =>
            \A j \in ToSet(feed) \cap Projects : pc'[j] # "off" \/ Settled(j)'
      BY <1>2, <3>1, <3>3, <3>4 DEF Sorted, Items
    <3>6. ASSUME phase \in {"scanning", "sleep"}, NEW r \in Candidates'
          PROVE  pc'[r] # "off" \/ Accounted(r)'
      <4>1. ~IsProject(i) /\ latest' = latest
        BY <2>0, <2>2, <3>1, <3>6, TaskFrame DEF Phases, Idle
      <4>2. r \in Candidates /\ r \in Releases
        BY <3>1, <3>6, <4>1 DEF Candidates, IsNew
      <4>3. Accounted(r) => Accounted(r)'
        BY <3>1, <3>2 DEF Accounted
      <4>4. r = i /\ pc'[i] = "off" => Accounted(r)'
        BY <3>2, <4>1 DEF Accounted, Mark
      <4> QED
        BY <1>2, <3>1, <3>6, <4>2, <4>3, <4>4 DEF Sorted, Items
    <3> QED
      BY <1>2, <3>1, <3>5, <3>6 DEF Sorted
  <2>3. CASE BeginScans
    <3>1. UNCHANGED <<feed, latest, failed, seen>> /\ phase = "resolving" /\ Idle
      BY <2>3 DEF BeginScans, store
    <3>2. \A i \in ToSet(feed) \cap Projects : Settled(i)'
      BY <1>2, <3>1 DEF Sorted, Settled, Known, Idle, Items
    <3>3. ASSUME NEW r \in Candidates' PROVE pc'[r] # "off" \/ Accounted(r)'
      <4>1. r \in Candidates /\ r \in Items
        BY <3>1, <3>3 DEF Candidates, IsNew, Items
      <4>2. CASE r \notin Pending
        BY <3>1, <4>1, <4>2 DEF Pending, Accounted
      <4>3. CASE r \in Pending
        <5>1. Cardinality(Before(r)) \in Nat
          BY ItemsFinite DEF Before, Pending, Candidates, Items
        <5>2. r \in Todo \/ r \in Excess
          BY <4>3, <5>1, ConstantsAssumption DEF Todo, Excess
        <5> QED
          BY <2>3, <4>1, <5>2 DEF BeginScans, Accounted
      <4> QED
        BY <4>2, <4>3
    <3> QED
      BY <2>3, <3>1, <3>2, <3>3 DEF Sorted, BeginScans
  <2>4. CASE EndCycle
    BY <1>2, <2>4 DEF EndCycle, report, store, Sorted, Settled, Known, Candidates,
                      IsNew, Accounted
  <2>5. ASSUME NEW k \in DOMAIN queue, NEW s \in Statuses, Review(k, s) PROVE Sorted'
    BY <1>2, <2>5 DEF Review, report, Sorted, Settled, Known, Candidates, IsNew, Accounted
  <2>6. CASE Stop
    BY <2>6 DEF Stop, Sorted
  <2>7. CASE Restart
    <3>1. feed' = <<>>
      BY <1>2, <2>7 DEF Restart, Sorted
    <3>2. ToSet(feed)' = {} /\ Candidates' = {}
      BY <3>1 DEF ToSet, Candidates, IsNew
    <3> QED
      BY <2>7, <3>2 DEF Sorted, Restart
  <2>8. CASE UNCHANGED vars
    BY <1>2, <2>8 DEF vars, Sorted, Settled, Known, Candidates, IsNew, Accounted
  <2> QED
    BY <1>2, <2>1, <2>2, <2>3, <2>4, <2>5, <2>6, <2>7, <2>8 DEF Next, Bound
<1>3. ASSUME IInv, Sorted PROVE CycleAccounts
  <2> SUFFICES ASSUME phase = "sleep", NEW i \in ToSet(feed)
               PROVE  IF IsProject(i)
                      THEN \/ i \in failed \/ Known(Name(i))
                           \/ \E v \in Versions : Accounted(<<Name(i), v>>)
                      ELSE Accounted(i)
    BY DEF CycleAccounts
  <2>1. i \in Items /\ Idle
    BY <1>3 DEF IInv, TypeOK, Phases, ToSet
  <2>2. \A r \in Candidates : Accounted(r)
    BY <1>3, <2>1 DEF Sorted, Idle, Candidates, Items
  <2>3. CASE IsProject(i)
    <3>1. i \in Projects /\ Name(i) \in Names /\ i = <<Name(i), Latest>>
      BY <2>1, <2>3, ItemFacts DEF IsProject
    <3>2. Settled(i)
      BY <1>3, <2>1, <3>1 DEF Sorted, Idle
    <3>3. ASSUME latest[Name(i)] # Latest
          PROVE  \E v \in Versions : Accounted(<<Name(i), v>>)
      <4>1. latest[Name(i)] \in Versions
        BY <1>3, <3>1, <3>3 DEF IInv, TypeOK
      <4>2. <<Name(i), latest[Name(i)]>> \in Candidates
        BY <3>1, <4>1 DEF Candidates, Releases, IsNew, Name
      <4> QED
        BY <2>2, <4>1, <4>2
    <3> QED
      BY <2>3, <3>2, <3>3 DEF Settled
  <2>4. CASE ~IsProject(i)
    BY <2>1, <2>2, <2>4, ItemFacts DEF Candidates
  <2> QED
    BY <2>3, <2>4
<1> QED
  BY Invariance, <1>1, <1>2, <1>3, PTL DEF Spec

-----------------------------------------------------------------------------
LEMMA PlaceFacts ==
  ASSUME TypeOK, NEW i \in ToSet(feed)
  PROVE  Place(i) \in 1..Len(feed)
<1>1. DOMAIN feed = 1..Len(feed)
  BY DEF TypeOK
<1>2. \E k \in DOMAIN feed : feed[k] = i
  BY DEF ToSet
<1> QED
  BY <1>1, <1>2 DEF Place

(* Among the candidates, every new project ranks before every update. *)
LEMMA NewRanksFirst ==
  ASSUME TypeOK, NEW q \in Pending, NEW r \in Pending, IsNew(q), ~IsNew(r)
  PROVE  /\ Rank(q) < Rank(r)
         /\ Cardinality(Before(q)) <= Cardinality(Before(r))
<1>1. Place(<<Name(q), Latest>>) \in 1..Len(feed)
  BY PlaceFacts DEF IsNew
<1>2. r \in ToSet(feed)
  BY DEF Pending, Candidates
<1>3. Place(r) \in 1..Len(feed) /\ Len(feed) \in Nat
  BY <1>2, PlaceFacts DEF TypeOK
<1>4. Rank(q) < Rank(r)
  BY <1>1, <1>3 DEF Rank
<1>5. \A p \in Pending : Rank(p) \in Int
  <2> SUFFICES ASSUME NEW p \in Pending PROVE Rank(p) \in Int
    OBVIOUS
  <2>1. CASE IsNew(p)
    BY <2>1, PlaceFacts DEF Rank, IsNew
  <2>2. CASE ~IsNew(p)
    BY <1>3, <2>2, PlaceFacts DEF Rank, Pending, Candidates
  <2> QED
    BY <2>1, <2>2
<1>6. Before(q) \subseteq Before(r)
  BY <1>4, <1>5 DEF Before
<1>7. IsFiniteSet(Before(r))
  BY ItemsFinite DEF Before, Pending, Candidates, Items
<1> QED
  BY <1>4, <1>6, <1>7, FS_Subset

(***************************************************************************)
(* max_scans never lets an update in while a new project is put off.       *)
(***************************************************************************)
THEOREM NewProjectsFirst == Spec => []NewNamesFirst
<1> DEFINE Inv == NewNamesFirst /\ (phase = "resolving" => deferred = {})
<1>1. Init => Inv
  BY DEF Init, NewNamesFirst
<1>2. ASSUME IInv, Inv, [Next]_vars
      PROVE  Inv'
  <2>0. TypeOK /\ Phases
    BY <1>2 DEF IInv
  <2>1. ASSUME NEW f \in Feeds, Fetch(f) PROVE Inv'
    BY <2>1 DEF Fetch, NewNamesFirst
  <2>2. ASSUME NEW i \in Items, Task(i) PROVE Inv'
    <3>1. /\ UNCHANGED <<phase, feed, deferred>>
          /\ pc[i] # "off"
          /\ \A j \in Items : pc'[j] # "off" => pc[j] # "off"
          /\ IsProject(i) \/ latest' = latest
      BY <2>0, <2>2, TaskFrame
    <3>2. phase = "resolving" \/ ~IsProject(i)
      BY <2>0, <3>1 DEF Phases, Idle, TypeOK
    <3>3. CASE phase = "resolving"
      BY <1>2, <3>1, <3>3 DEF NewNamesFirst
    <3>4. CASE ~IsProject(i)
      BY <1>2, <3>1, <3>4 DEF NewNamesFirst, IsNew, Items
    <3> QED
      BY <3>2, <3>3, <3>4
  <2>3. CASE BeginScans
    <3>1. UNCHANGED <<feed, latest>> /\ phase' = "scanning" /\ deferred' = Excess
      BY <2>3 DEF BeginScans
    <3>2. ASSUME NEW q \in Excess, IsNew(q), NEW r \in Todo PROVE IsNew(r)
      <4> SUFFICES ASSUME ~IsNew(r) PROVE FALSE
        OBVIOUS
      <4>1. q \in Pending /\ r \in Pending
        BY DEF Excess, Todo
      <4>2. Cardinality(Before(q)) <= Cardinality(Before(r))
        BY <2>0, <3>2, <4>1, NewRanksFirst
      <4>3. Cardinality(Before(q)) \in Nat /\ Cardinality(Before(r)) \in Nat
        BY ItemsFinite DEF Before, Pending, Candidates, Items
      <4> QED
        BY <4>2, <4>3, ConstantsAssumption DEF Excess, Todo
    <3>3. \A r \in Releases : pc'[r] # "off" => r \in Todo
      BY <2>3 DEF BeginScans, Items
    <3> QED
      BY <3>1, <3>2, <3>3 DEF NewNamesFirst, IsNew
  <2>4. CASE EndCycle
    BY <1>2, <2>4 DEF EndCycle, report, NewNamesFirst, IsNew
  <2>5. ASSUME NEW k \in DOMAIN queue, NEW s \in Statuses, Review(k, s) PROVE Inv'
    BY <1>2, <2>5 DEF Review, report, NewNamesFirst, IsNew
  <2>6. CASE Stop
    BY <2>6 DEF Stop, NewNamesFirst
  <2>7. CASE Restart
    BY <1>2, <2>7 DEF Restart, report, NewNamesFirst, IsNew
  <2>8. CASE UNCHANGED vars
    BY <1>2, <2>8 DEF vars, NewNamesFirst, IsNew
  <2> QED
    BY <1>2, <2>1, <2>2, <2>3, <2>4, <2>5, <2>6, <2>7, <2>8 DEF Next, Bound
<1> QED
  BY Invariance, <1>1, <1>2, PTL DEF Spec
=============================================================================
