----------------------- MODULE PackageContext_proofs -----------------------
(***************************************************************************)
(* Proofs about PackageContext for any number of layers of either kind.    *)
(***************************************************************************)
EXTENDS PackageContext, TLAPS

(***************************************************************************)
(* Who holds a lock and where it is suspended: a lock is held exactly      *)
(* during the awaits of its critical section.                              *)
(***************************************************************************)
Locks ==
  /\ \A t \in Tasks : pc[t] = "fetching" <=> projectLock = t
  /\ \A t \in Tasks : artifactLock = t =>
        pc[t] \in {"needProject", "fetching", "downloading", "unpacking"}
  /\ \A t \in Tasks : pc[t] \in {"needProject", "downloading", "unpacking"} =>
        artifactLock = t

(***************************************************************************)
(* The flags are set before the first await, the results after the last:   *)
(* while a lock is held, its flag is set and its result is still unset.    *)
(***************************************************************************)
Flags ==
  /\ projectLock # Nobody => loaded
  /\ artifactLock # Nobody => extractDone
  /\ ~loaded \/ projectLock # Nobody => project = "unset"
  /\ ~extractDone \/ artifactLock # Nobody => extracted = "none"

(* The counters follow the flags. *)
Counters ==
  /\ fetches = IF loaded THEN 1 ELSE 0
  /\ downloads <= 1
  /\ ~extractDone => downloads = 0
  /\ \A t \in Tasks : artifactLock = t /\ pc[t] \in {"needProject", "fetching"} =>
        downloads = 0

(* Nobody is told anything before the result is stored, and then the result. *)
Told ==
  /\ ~extractDone \/ artifactLock # Nobody =>
        \A t \in Tasks : artifactGot[t] = "pending"
  /\ \A t \in Tasks : artifactGot[t] \in {"pending", "broken", extracted}

IInv == TypeOK /\ Locks /\ Flags /\ Counters /\ Told

LEMMA InitIInv == Init => IInv
<1> SUFFICES ASSUME Init PROVE IInv
  OBVIOUS
<1>1. TypeOK
  BY DEF Init, TypeOK, Tasks, Artifacts, Replies, Projects, PyPIErrors, Ended
<1>2. Locks
  BY TasksAssumption DEF Init, Locks
<1>3. Flags /\ Counters /\ Told
  BY DEF Init, Flags, Counters, Told
<1> QED
  BY <1>1, <1>2, <1>3 DEF IInv

(* Handing a result to a layer ends it or starts its analysis thread. *)
LEMMA HandType ==
  ASSUME TypeOK, NEW t \in Tasks, NEW r, Hand(t, r)
  PROVE  /\ pc' = [pc EXCEPT ![t] = pc'[t]]
         /\ pc'[t] \in {"reading", "raised", "done"}
         /\ pc'[t] = "reading" <=> (r = "tree" /\ t \in Readers)
         /\ reading' \in SUBSET Readers
BY DEF Hand, TypeOK

(***************************************************************************)
(* Leaving extracted_path() with result r preserves the invariant, given   *)
(* what the caller leaves alone.                                           *)
(***************************************************************************)
LEMMA FinishIInv ==
  ASSUME IInv, NEW t \in Tasks, artifactLock = t,
         NEW r \in Artifacts \cup {"broken"}, FinishArtifact(t, r),
         downloads' = downloads,
         pc[t] # "fetching" => UNCHANGED <<projectLock, project>>,
         pc[t] = "fetching" => /\ projectLock' = Nobody
                               /\ project' \in Projects \cup PyPIErrors \cup {"unset"},
         tmpdir' \in {"absent", "held", "removed"}, disk' \in BOOLEAN,
         unpacking' \in Tasks \cup {Nobody},
         projectGot' \in [Tasks -> Replies \cup {"pending"}],
         UNCHANGED <<loaded, extractDone, scope, fetches>>
  PROVE  IInv'
<1> USE DEF IInv
<1>1. Hand(t, r)
  BY DEF FinishArtifact
<1>2. /\ pc' = [pc EXCEPT ![t] = pc'[t]]
      /\ pc'[t] \in {"reading", "raised", "done"}
      /\ reading' \in SUBSET Readers
  BY <1>1, HandType
<1>3. artifactLock' = Nobody /\ extracted' \in Artifacts
  BY DEF FinishArtifact, Cached, TypeOK
<1>4. TypeOK'
  BY <1>2, <1>3 DEF TypeOK, FinishArtifact, Ended
<1>5. Locks'
  BY <1>2, <1>3, TasksAssumption DEF Locks, TypeOK
<1>6. Flags'
  BY <1>3, TasksAssumption DEF Flags, Locks, TypeOK
<1>7. Counters'
  BY <1>3, TasksAssumption DEF Counters, Flags, TypeOK
<1>8. Told'
  BY <1>3, TasksAssumption DEF Told, Flags, FinishArtifact, Cached, TypeOK, Artifacts
<1> QED
  BY <1>4, <1>5, <1>6, <1>7, <1>8

(* So does returning from project(), inside the critical section or not. *)
LEMMA AfterProjectIInv ==
  ASSUME IInv, NEW t \in Tasks, NEW p \in Replies, AfterProject(t, p),
         pc[t] \in {"idle", "needProject", "fetching"},
         pc[t] # "fetching" => UNCHANGED <<projectLock, project>>,
         pc[t] = "fetching" => /\ projectLock' = Nobody
                               /\ project' \in Projects \cup PyPIErrors \cup {"unset"},
         loaded,
         UNCHANGED <<loaded, extractDone, tmpdir, disk, unpacking, scope, fetches>>
  PROVE  IInv'
<1> USE DEF IInv
<1>1. projectGot' \in [Tasks -> Replies \cup {"pending"}]
  BY DEF AfterProject, TypeOK
<1>2. CASE artifactLock = t /\ p = "published"
  <2>1. /\ pc' = [pc EXCEPT ![t] = "downloading"]
        /\ downloads' = downloads + 1
        /\ UNCHANGED <<artifactLock, extracted, artifactGot, reading>>
    BY <1>2 DEF AfterProject
  <2>2. downloads = 0
    BY <1>2 DEF Counters, Locks
  <2>3. TypeOK'
    BY <1>1, <2>1, TasksAssumption DEF TypeOK
  <2>4. Locks'
    BY <1>2, <2>1, TasksAssumption DEF Locks, TypeOK
  <2>5. Flags' /\ Told'
    BY <1>2, <2>1, TasksAssumption DEF Flags, Told, TypeOK, Locks
  <2>6. Counters'
    BY <1>2, <2>1, <2>2, TasksAssumption DEF Counters, Flags, TypeOK
  <2> QED
    BY <2>3, <2>4, <2>5, <2>6
<1>3. CASE artifactLock = t /\ p # "published"
  <2> DEFINE r == IF p \in Projects THEN "none" ELSE p
  <2>1. FinishArtifact(t, r) /\ downloads' = downloads
    BY <1>3 DEF AfterProject
  <2>2. r \in Artifacts \cup {"broken"}
    BY DEF Replies, Artifacts
  <2> QED
    BY <1>1, <1>3, <2>1, <2>2, FinishIInv DEF TypeOK
<1>4. CASE artifactLock # t
  <2>1. /\ UNCHANGED <<artifactLock, extracted, artifactGot, downloads>>
        /\ \/ pc' = [pc EXCEPT ![t] = "needArtifact"] /\ UNCHANGED reading
           \/ Hand(t, p)
    BY <1>4 DEF AfterProject
  <2>2. /\ pc' = [pc EXCEPT ![t] = pc'[t]]
        /\ pc'[t] \in {"needArtifact", "reading", "raised", "done"}
        /\ reading' \in SUBSET Readers
    BY <2>1, HandType DEF TypeOK
  <2>3. TypeOK'
    BY <1>1, <2>1, <2>2, TasksAssumption DEF TypeOK, Ended
  <2>4. Locks'
    BY <1>4, <2>1, <2>2, TasksAssumption DEF Locks, TypeOK
  <2>5. Flags' /\ Told'
    BY <1>4, <2>1, <2>2, TasksAssumption DEF Flags, Told, TypeOK, Locks
  <2>6. Counters'
    BY <1>4, <2>1, <2>2, TasksAssumption DEF Counters, Flags, TypeOK
  <2> QED
    BY <2>3, <2>4, <2>5, <2>6
<1> QED
  BY <1>2, <1>3, <1>4

LEMMA StepIInv ==
  ASSUME IInv, NEW t \in Tasks, Step(t)
  PROVE  IInv'
<1> USE DEF IInv
<1>1. CASE ProjectHit(t)
  <2>1. (IF project = "unset" THEN "broken" ELSE project) \in Replies
    BY DEF TypeOK, Replies
  <2> QED
    BY <1>1, <2>1, AfterProjectIInv DEF ProjectHit, WantsProject
<1>2. CASE ProjectMiss(t)
  <2>1. projectLock = Nobody /\ pc[t] \in {"idle", "needProject"}
    BY <1>2 DEF ProjectMiss, Free, WantsProject
  <2>2. TypeOK'
    BY <1>2 DEF ProjectMiss, TypeOK
  <2>3. Locks'
    BY <1>2, <2>1, TasksAssumption DEF ProjectMiss, Locks, TypeOK
  <2>4. Flags' /\ Told'
    BY <1>2, <2>1 DEF ProjectMiss, Flags, Told
  <2>5. Counters'
    BY <1>2, <2>1 DEF ProjectMiss, Counters, Locks, TypeOK
  <2> QED
    BY <2>2, <2>3, <2>4, <2>5
<1>3. ASSUME NEW r \in Replies, FetchReply(t, r) PROVE IInv'
  <2>1. project' \in Projects \cup PyPIErrors \cup {"unset"}
    BY <1>3 DEF FetchReply, Cached, Replies, TypeOK
  <2>2. loaded
    BY <1>3, TasksAssumption DEF FetchReply, Locks, Flags
  <2> QED
    BY <1>3, <2>1, <2>2, AfterProjectIInv DEF FetchReply
<1>4. CASE ArtifactHit(t)
  <2>1. /\ pc' = [pc EXCEPT ![t] = pc'[t]]
        /\ pc'[t] \in {"reading", "raised", "done"}
        /\ reading' \in SUBSET Readers
    BY <1>4, HandType DEF ArtifactHit
  <2>2. artifactLock = Nobody /\ pc[t] \in {"idle", "needArtifact"}
    BY <1>4 DEF ArtifactHit, Free, WantsArtifact
  <2>3. TypeOK'
    BY <1>4, <2>1 DEF ArtifactHit, TypeOK, Ended
  <2>4. Locks'
    BY <1>4, <2>1, <2>2, TasksAssumption DEF ArtifactHit, Locks, TypeOK
  <2>5. Flags' /\ Told'
    BY <1>4, <2>2 DEF ArtifactHit, Flags, Told, TypeOK
  <2>6. Counters'
    BY <1>4, <2>1, <2>2, TasksAssumption DEF ArtifactHit, Counters, TypeOK
  <2> QED
    BY <2>3, <2>4, <2>5, <2>6
<1>5. CASE ArtifactMiss(t)
  <2>1. artifactLock = Nobody /\ pc[t] \in {"idle", "needArtifact"}
    BY <1>5 DEF ArtifactMiss, Free, WantsArtifact
  <2>2. TypeOK'
    BY <1>5 DEF ArtifactMiss, TypeOK
  <2>3. Locks'
    BY <1>5, <2>1, TasksAssumption DEF ArtifactMiss, Locks, TypeOK
  <2>4. Flags' /\ Told'
    BY <1>5, <2>1 DEF ArtifactMiss, Flags, Told
  <2>5. Counters'
    BY <1>5, <2>1 DEF ArtifactMiss, Counters
  <2> QED
    BY <2>2, <2>3, <2>4, <2>5
<1>6. CASE Downloaded(t)
  <2>1. artifactLock = t
    BY <1>6 DEF Downloaded, Locks
  <2>2. TypeOK'
    BY <1>6 DEF Downloaded, TypeOK
  <2>3. Locks'
    BY <1>6, <2>1, TasksAssumption DEF Downloaded, Locks, TypeOK
  <2>4. Flags' /\ Told' /\ Counters'
    BY <1>6, <2>1 DEF Downloaded, Flags, Told, Counters, TypeOK
  <2> QED
    BY <2>2, <2>3, <2>4
<1>7. ASSUME NEW r \in {"failed", "broken"}, DownloadFails(t, r) PROVE IInv'
  BY <1>7, FinishIInv DEF DownloadFails, Locks, TypeOK, Artifacts, PyPIErrors
<1>8. ASSUME NEW r \in {"tree", "failed", "broken"}, Unpacked(t, r) PROVE IInv'
  BY <1>8, FinishIInv
  DEF Unpacked, ThreadWrote, Locks, TypeOK, Artifacts, PyPIErrors
<1>9. ASSUME NEW ok \in BOOLEAN, ReadDone(t, ok) PROVE IInv'
  <2>1. /\ pc[t] = "reading"
        /\ pc' = [pc EXCEPT ![t] = pc'[t]]
        /\ pc'[t] \in {"done", "raised"}
    BY <1>9 DEF ReadDone, TypeOK
  <2>2. TypeOK'
    BY <1>9, <2>1 DEF ReadDone, TypeOK, Ended
  <2>3. Locks'
    BY <1>9, <2>1, TasksAssumption DEF ReadDone, Locks, TypeOK
  <2>4. Flags' /\ Told' /\ Counters'
    BY <1>9, <2>1 DEF ReadDone, Flags, Told, Counters, TypeOK
  <2> QED
    BY <2>2, <2>3, <2>4
<1>10. CASE ReadOrphaned(t)
  BY <1>10 DEF ReadOrphaned, TypeOK, Locks, Flags, Told, Counters
<1> QED
  BY <1>1, <1>2, <1>3, <1>4, <1>5, <1>6, <1>7, <1>8, <1>9, <1>10 DEF Step

(* Leaving the block touches the directory only. *)
LEMMA ExitIInv ==
  ASSUME IInv, NEW how \in {"left", "abandoned"}, Exit(how)
  PROVE  IInv'
BY DEF IInv, Exit, Cleanup, Undisturbed, TypeOK, Locks, Flags, Counters, Told

(* Cancellation frees both locks with the flags set and nothing stored. *)
LEMMA CancelIInv ==
  ASSUME IInv, Cancel
  PROVE  IInv'
<1> USE DEF IInv
<1>1. TypeOK'
  BY DEF Cancel, Cleanup, TypeOK, Ended
<1>2. Locks'
  BY TasksAssumption DEF Cancel, Locks, TypeOK, Ended
<1>3. Flags' /\ Counters' /\ Told'
  BY TasksAssumption DEF Cancel, Flags, Counters, Told, TypeOK
<1> QED
  BY <1>1, <1>2, <1>3

LEMMA NextIInv == IInv /\ [Next]_vars => IInv'
<1> SUFFICES ASSUME IInv, [Next]_vars PROVE IInv'
  OBVIOUS
<1>1. ASSUME NEW t \in Tasks, Step(t) PROVE IInv'
  BY <1>1, StepIInv
<1>2. CASE UnpackOrphaned
  BY <1>2 DEF UnpackOrphaned, ThreadWrote, IInv, TypeOK, Locks, Flags, Counters, Told
<1>3. CASE Leave \/ Escape \/ SiblingRaises
  BY <1>3, ExitIInv DEF Leave, Escape, SiblingRaises
<1>4. CASE Cancel
  BY <1>4, CancelIInv
<1>5. CASE Finalize
  BY <1>5 DEF Finalize, Cleanup, Undisturbed, IInv, TypeOK, Locks, Flags, Counters, Told
<1>6. CASE UNCHANGED vars
  BY <1>6 DEF vars, IInv, TypeOK, Locks, Flags, Counters, Told
<1> QED
  BY <1>1, <1>2, <1>3, <1>4, <1>5, <1>6 DEF Next, Terminated

LEMMA Invariance == Spec => []IInv
BY InitIInv, NextIInv, PTL DEF Spec

(* Every variable of the context keeps its type. *)
THEOREM TypeCorrect == Spec => []TypeOK
BY Invariance, PTL DEF IInv

(* One scan asks PyPI for the project and for an artifact at most once,    *)
(* whatever number of layers share the context.                            *)
THEOREM FetchedAtMostOnce == Spec => []AtMostOnce
<1>1. IInv => AtMostOnce
  BY DEF IInv, Counters, AtMostOnce
<1> QED
  BY <1>1, Invariance, PTL

(* Layers that are told anything about the artifact are told the same.     *)
THEOREM SameAnswer == Spec => []OneAnswer
<1>1. IInv => OneAnswer
  BY DEF IInv, Told, OneAnswer
<1> QED
  BY <1>1, Invariance, PTL

-----------------------------------------------------------------------------
(***************************************************************************)
(* The life of the extracted tree.  Threads run for layers that wait for   *)
(* them or were cancelled; while the block is open nobody was cancelled    *)
(* and the directory, once made, is there with its files.                  *)
(***************************************************************************)
Threads ==
  /\ \A t \in Tasks : pc[t] = "unpacking" => unpacking = t
  /\ \A t \in Tasks : unpacking = t => pc[t] \in {"unpacking", "cancelled"}
  /\ \A t \in Tasks : t \in reading => pc[t] \in {"reading", "cancelled"}
  /\ reading # {} => extracted = "tree"
  /\ scope \in {"open", "left"} => \A t \in Tasks : pc[t] # "cancelled"
  /\ scope = "left" => \A t \in Tasks : pc[t] = "done"

Directory ==
  /\ tmpdir = "absent" => ~disk
  /\ scope = "open" => /\ tmpdir # "removed"
                       /\ tmpdir = "held" => disk
                       /\ extracted = "tree" => tmpdir = "held"
                       /\ \A t \in Tasks : pc[t] = "unpacking" => tmpdir = "held"
  /\ scope = "left" => ~disk /\ tmpdir # "held"

TreeInv == Threads /\ Directory

LEMMA InitTreeInv == Init => TreeInv
BY TasksAssumption DEF Init, TreeInv, Threads, Directory

(* Handing out a result starts a thread on a tree that was stored. *)
LEMMA HandThreads ==
  ASSUME IInv, Threads, NEW t \in Tasks, NEW r, Hand(t, r),
         pc[t] \notin {"unpacking", "reading", "done", "cancelled"}
           \/ (pc[t] = "unpacking" /\ unpacking' = Nobody),
         pc[t] # "unpacking" => unpacking' = unpacking,
         r = "tree" => extracted' = "tree",
         reading # {} => extracted' = "tree",
         UNCHANGED scope
  PROVE  Threads'
<1>1. /\ pc' = [pc EXCEPT ![t] = pc'[t]]
      /\ pc'[t] \in {"reading", "raised", "done"}
      /\ pc'[t] = "reading" <=> (r = "tree" /\ t \in Readers)
      /\ reading' \in SUBSET Readers
  BY HandType DEF IInv
<1>2. reading' = IF r = "tree" /\ t \in Readers THEN reading \cup {t} ELSE reading
  BY DEF Hand
<1>3. scope # "left"
  BY DEF Threads
<1>4. t \notin reading
  BY DEF Threads
<1> QED
  BY <1>1, <1>2, <1>3, <1>4, TasksAssumption DEF Threads, IInv, TypeOK

LEMMA FinishTreeInv ==
  ASSUME IInv, TreeInv, NEW t \in Tasks, artifactLock = t, NEW r,
         FinishArtifact(t, r),
         r = "tree" => pc[t] = "unpacking",
         pc[t] = "unpacking" => unpacking' = Nobody,
         pc[t] # "unpacking" => unpacking' = unpacking,
         scope \in {"open", "left"} => UNCHANGED <<tmpdir, disk>>,
         tmpdir' = "absent" => ~disk',
         UNCHANGED scope
  PROVE  TreeInv'
<1> USE DEF IInv, TreeInv
<1>1. Hand(t, r) /\ extracted' = Cached(extracted, r)
  BY DEF FinishArtifact
<1>2. extracted = "none" /\ pc[t] \in {"needProject", "fetching", "downloading", "unpacking"}
  BY TasksAssumption DEF Flags, Locks
<1>3. Threads'
  BY <1>1, <1>2, HandThreads DEF Cached, Threads
<1>4. pc' = [pc EXCEPT ![t] = pc'[t]] /\ pc'[t] \in {"reading", "raised", "done"}
  BY <1>1, HandType
<1>5. Directory'
  BY <1>1, <1>2, <1>4 DEF Directory, Threads, Cached, TypeOK
<1> QED
  BY <1>3, <1>5

LEMMA AfterProjectTreeInv ==
  ASSUME IInv, TreeInv, NEW t \in Tasks, NEW p \in Replies, AfterProject(t, p),
         pc[t] \in {"idle", "needProject", "fetching"},
         UNCHANGED <<tmpdir, disk, unpacking, scope>>
  PROVE  TreeInv'
<1> USE DEF IInv, TreeInv
<1>1. CASE artifactLock = t /\ p # "published"
  BY <1>1, FinishTreeInv DEF AfterProject, Replies, Projects, PyPIErrors, Directory
<1>2. CASE artifactLock # t /\ p \notin {"published", "bare"}
  <2>1. Hand(t, p) /\ extracted' = extracted
    BY <1>2 DEF AfterProject
  <2>2. p # "tree"
    BY DEF Replies, Projects, PyPIErrors
  <2>3. Threads'
    BY <2>1, <2>2, HandThreads DEF Threads
  <2>4. pc' = [pc EXCEPT ![t] = pc'[t]] /\ pc'[t] \in {"reading", "raised", "done"}
    BY <2>1, HandType
  <2>5. Directory'
    BY <2>1, <2>4 DEF Directory, TypeOK
  <2> QED
    BY <2>3, <2>5
<1>3. CASE ~(artifactLock = t /\ p # "published")
           /\ ~(artifactLock # t /\ p \notin {"published", "bare"})
  <2>1. /\ pc' = [pc EXCEPT ![t] = pc'[t]]
        /\ pc'[t] \in {"downloading", "needArtifact"}
        /\ UNCHANGED <<extracted, reading>>
    BY <1>3 DEF AfterProject, TypeOK
  <2>2. Threads'
    BY <2>1 DEF Threads, TypeOK
  <2>3. Directory'
    BY <2>1 DEF Directory, TypeOK
  <2> QED
    BY <2>2, <2>3
<1> QED
  BY <1>1, <1>2, <1>3

LEMMA StepTreeInv ==
  ASSUME IInv, TreeInv, NEW t \in Tasks, Step(t)
  PROVE  TreeInv'
<1> USE DEF IInv, TreeInv
<1>1. CASE ProjectHit(t)
  <2>1. (IF project = "unset" THEN "broken" ELSE project) \in Replies
    BY DEF TypeOK, Replies
  <2> QED
    BY <1>1, <2>1, AfterProjectTreeInv DEF ProjectHit, WantsProject
<1>2. CASE ProjectMiss(t)
  BY <1>2 DEF ProjectMiss, WantsProject, Threads, Directory, TypeOK
<1>3. ASSUME NEW r \in Replies, FetchReply(t, r) PROVE TreeInv'
  BY <1>3, AfterProjectTreeInv DEF FetchReply
<1>4. CASE ArtifactHit(t)
  <2>1. Hand(t, extracted) /\ UNCHANGED <<extracted, unpacking, scope, tmpdir, disk>>
        /\ pc[t] \in {"idle", "needArtifact"}
    BY <1>4 DEF ArtifactHit, WantsArtifact
  <2>2. Threads'
    BY <2>1, HandThreads DEF Threads
  <2>3. pc' = [pc EXCEPT ![t] = pc'[t]] /\ pc'[t] \in {"reading", "raised", "done"}
    BY <2>1, HandType
  <2>4. Directory'
    BY <2>1, <2>3 DEF Directory, TypeOK
  <2> QED
    BY <2>2, <2>4
<1>5. CASE ArtifactMiss(t)
  BY <1>5 DEF ArtifactMiss, WantsArtifact, Threads, Directory, TypeOK
<1>6. CASE Downloaded(t)
  <2>1. pc[t] = "downloading" /\ artifactLock = t
    BY <1>6 DEF Downloaded, Locks
  <2>2. \A u \in Tasks : pc[u] = "unpacking" => u = t
    BY <2>1 DEF Locks
  <2>3. extracted = "none" /\ reading = {}
    BY <2>1, TasksAssumption DEF Flags, Threads
  <2>4. Threads'
    BY <1>6, <2>1, <2>2, <2>3, TasksAssumption DEF Downloaded, Threads, TypeOK
  <2>5. Directory'
    BY <1>6, <2>1 DEF Downloaded, Directory, Threads, TypeOK
  <2> QED
    BY <2>4, <2>5
<1>7. ASSUME NEW r \in {"failed", "broken"}, DownloadFails(t, r) PROVE TreeInv'
  BY <1>7, FinishTreeInv DEF DownloadFails, Locks, Directory
<1>8. ASSUME NEW r \in {"tree", "failed", "broken"}, Unpacked(t, r) PROVE TreeInv'
  BY <1>8, FinishTreeInv DEF Unpacked, ThreadWrote, Locks, Directory, Threads
<1>9. ASSUME NEW ok \in BOOLEAN, ReadDone(t, ok) PROVE TreeInv'
  <2>1. /\ pc[t] = "reading"
        /\ pc' = [pc EXCEPT ![t] = pc'[t]]
        /\ pc'[t] \in {"done", "raised"}
        /\ reading' = reading \ {t}
        /\ UNCHANGED <<extracted, unpacking, scope, tmpdir, disk>>
    BY <1>9 DEF ReadDone, TypeOK
  <2>2. Threads'
    BY <2>1, TasksAssumption DEF Threads, TypeOK
  <2>3. Directory'
    BY <2>1 DEF Directory, TypeOK
  <2> QED
    BY <2>2, <2>3
<1>10. CASE ReadOrphaned(t)
  BY <1>10 DEF ReadOrphaned, Threads, Directory
<1> QED
  BY <1>1, <1>2, <1>3, <1>4, <1>5, <1>6, <1>7, <1>8, <1>9, <1>10 DEF Step

LEMMA ExitTreeInv ==
  ASSUME IInv, TreeInv, NEW how \in {"left", "abandoned"}, Exit(how),
         how = "left" => \A t \in Tasks : pc[t] = "done"
  PROVE  TreeInv'
BY DEF IInv, TreeInv, Exit, Cleanup, Undisturbed, TypeOK, Threads, Directory

LEMMA CancelTreeInv ==
  ASSUME IInv, TreeInv, Cancel
  PROVE  TreeInv'
<1> USE DEF IInv, TreeInv
<1>1. Threads'
  BY DEF Cancel, Cleanup, Threads, TypeOK, Ended
<1>2. Directory'
  BY DEF Cancel, Cleanup, Directory, TypeOK
<1> QED
  BY <1>1, <1>2

LEMMA NextTreeInv == IInv /\ TreeInv /\ [Next]_vars => TreeInv'
<1> SUFFICES ASSUME IInv, TreeInv, [Next]_vars PROVE TreeInv'
  OBVIOUS
<1>1. ASSUME NEW t \in Tasks, Step(t) PROVE TreeInv'
  BY <1>1, StepTreeInv
<1>2. CASE UnpackOrphaned
  BY <1>2, TasksAssumption
  DEF UnpackOrphaned, ThreadWrote, IInv, TypeOK, TreeInv, Threads, Directory
<1>3. CASE Leave
  BY <1>3, ExitTreeInv DEF Leave
<1>4. CASE Escape \/ SiblingRaises
  BY <1>4, ExitTreeInv DEF Escape, SiblingRaises
<1>5. CASE Cancel
  BY <1>5, CancelTreeInv
<1>6. CASE Finalize
  BY <1>6 DEF Finalize, Cleanup, Undisturbed, IInv, TypeOK, TreeInv, Threads, Directory
<1>7. CASE UNCHANGED vars
  BY <1>7 DEF vars, TreeInv, Threads, Directory
<1> QED
  BY <1>1, <1>2, <1>3, <1>4, <1>5, <1>6, <1>7 DEF Next, Terminated

(* No layer reads a removed tree before the block is left, and a normal    *)
(* exit leaves neither files nor threads behind.                           *)
THEOREM ExitIsClean == Spec => []CleanExit
<1>1. IInv /\ TreeInv => CleanExit
  <2> SUFFICES ASSUME IInv, TreeInv PROVE CleanExit
    OBVIOUS
  <2>1. scope = "left" => reading = {} /\ unpacking = Nobody
    BY DEF IInv, TypeOK, TreeInv, Threads, Tasks
  <2> QED
    BY <2>1 DEF CleanExit, TreeInv, Threads, Directory
<1> QED
  BY <1>1, Invariance, InitTreeInv, NextTreeInv, PTL DEF Spec

-----------------------------------------------------------------------------
(***************************************************************************)
(* What a layer is told and where it comes from.  Nobody is told anything  *)
(* of the project before PyPI answered, and then that answer.              *)
(***************************************************************************)
ToldOfProject == IF project = "unset" THEN "broken" ELSE project

Asked ==
  /\ ~loaded \/ projectLock # Nobody => \A t \in Tasks : projectGot[t] = "pending"
  /\ \A t \in Tasks : projectGot[t] \in {"pending", ToldOfProject}

(***************************************************************************)
(* The artifact is what the project allows: there is a tree only of a      *)
(* published version, an error of PyPI is passed on, and a release is      *)
(* taken for empty only if it is, or if some layer lost its artifact to an *)
(* exception outside PyPIError.                                            *)
(***************************************************************************)
Origin ==
  /\ \A t \in Tasks : pc[t] \in {"downloading", "unpacking"} => project = "published"
  /\ extracted = "tree" => project = "published"
  /\ extracted = "missing" => project = "missing"
  /\ extracted = "failed" => project \in {"failed", "published"}
  /\ scope \in {"open", "left"} /\ extractDone /\ artifactLock = Nobody =>
       /\ loaded /\ projectLock = Nobody
       /\ project \in PyPIErrors => extracted = project
       /\ project \in {"published", "unset"} =>
            extracted # "none" \/ \E t \in Tasks : artifactGot[t] = "broken"

(* A layer returns only after it was told what it asks for.                *)
Endings ==
  \A t \in Tasks :
    /\ pc[t] \notin Ended \cup {"reading"} => artifactGot[t] = "pending"
    /\ pc[t] \in {"needArtifact", "downloading", "unpacking"} => projectGot[t] # "pending"
    /\ pc[t] = "needArtifact" => t \in Scorers
    /\ pc[t] = "fetching" /\ t \in Readers => artifactLock = t
    /\ pc[t] = "reading" => t \in Readers /\ artifactGot[t] = "tree"
    /\ pc[t] = "done" =>
         /\ t \in Readers => artifactGot[t] # "pending"
         /\ t \in Scorers => /\ projectGot[t] # "pending"
                             /\ projectGot[t] \in {"published", "bare"} =>
                                  artifactGot[t] # "pending"
         /\ artifactGot[t] = "broken" => t \in Guarded

SourceInv == Asked /\ Origin /\ Endings

LEMMA InitSourceInv == Init => SourceInv
BY TasksAssumption DEF Init, SourceInv, Asked, Origin, Endings, Ended, PyPIErrors

(* What project() gives layer t is new to it, or what others were told. *)
LEMMA ToldAsked ==
  ASSUME IInv, SourceInv, NEW t \in Tasks, NEW p \in Replies,
         projectGot' = [projectGot EXCEPT ![t] = p],
         p = ToldOfProject', loaded', projectLock' = Nobody,
         project' = project \/ (loaded /\ projectLock # Nobody)
  PROVE  Asked'
BY DEF IInv, TypeOK, SourceInv, Asked, ToldOfProject

(* The result of extracted_path() is stored when all is known of the project. *)
LEMMA FinishSource ==
  ASSUME IInv, TreeInv, SourceInv, NEW t \in Tasks, artifactLock = t,
         NEW r \in Artifacts \cup {"broken"}, FinishArtifact(t, r),
         Asked', loaded', projectLock' = Nobody, projectGot'[t] # "pending",
         \A u \in Tasks : u # t => projectGot'[u] = projectGot[u],
         project' = project \/ project = "unset",
         r = "tree" => project' = "published",
         r = "missing" => project' = "missing",
         r = "failed" => project' \in {"failed", "published"},
         project' \in PyPIErrors => r = project',
         project' \in {"published", "unset"} => r # "none",
         UNCHANGED <<extractDone, scope>>
  PROVE  SourceInv'
<1> USE DEF IInv, SourceInv
<1>1. /\ extracted = "none" /\ extractDone
      /\ extracted' = Cached(extracted, r)
      /\ artifactGot' = [artifactGot EXCEPT ![t] = r]
      /\ artifactLock' = Nobody
  BY TasksAssumption DEF Flags, FinishArtifact
<1>2. Hand(t, r)
  BY DEF FinishArtifact
<1>3. /\ pc' = [pc EXCEPT ![t] = pc'[t]]
      /\ pc'[t] \in {"reading", "raised", "done"}
      /\ pc'[t] = "reading" <=> (r = "tree" /\ t \in Readers)
  BY <1>2, HandType
<1>4. r = "broken" /\ t \notin Guarded => pc'[t] = "raised"
  BY <1>2 DEF Hand, TypeOK
<1>5. \A u \in Tasks : u # t => pc'[u] = pc[u] /\ artifactGot'[u] = artifactGot[u]
  BY <1>1, <1>3 DEF TypeOK
<1>6. artifactGot'[t] = r /\ r # "pending"
  BY <1>1 DEF TypeOK, Artifacts, PyPIErrors
<1>7. Origin'
  BY <1>1, <1>3, <1>5, <1>6 DEF Origin, Cached, Locks, Artifacts, PyPIErrors
<1>8. Endings'
  BY <1>1, <1>3, <1>4, <1>5, <1>6 DEF Endings, Ended, Locks
<1> QED
  BY <1>7, <1>8

(* So is what a layer is told of the project, inside the critical section or not. *)
LEMMA AfterProjectSource ==
  ASSUME IInv, TreeInv, SourceInv, NEW t \in Tasks, NEW p \in Replies,
         AfterProject(t, p),
         pc[t] \in {"idle", "needProject", "fetching"},
         pc[t] = "idle" => t \in Scorers,
         p = ToldOfProject', loaded', projectLock' = Nobody,
         project' = project \/ (project = "unset" /\ loaded /\ projectLock # Nobody),
         UNCHANGED <<extractDone, scope>>
  PROVE  SourceInv'
<1> USE DEF IInv, SourceInv
<1>1. projectGot' = [projectGot EXCEPT ![t] = p]
  BY DEF AfterProject
<1>2. Asked'
  BY <1>1, ToldAsked
<1>3. /\ projectGot'[t] = p /\ p # "pending"
      /\ \A u \in Tasks : u # t => projectGot'[u] = projectGot[u]
  BY <1>1 DEF TypeOK, Replies, Projects, PyPIErrors
<1>4. p = IF project' = "unset" THEN "broken" ELSE project'
  BY DEF ToldOfProject
<1>5. CASE artifactLock = t /\ p # "published"
  <2> DEFINE r == IF p \in Projects THEN "none" ELSE p
  <2>1. FinishArtifact(t, r) /\ r \in Artifacts \cup {"broken"}
    BY <1>5 DEF AfterProject, Replies, Artifacts
  <2>2. /\ r # "tree"
        /\ r = "missing" => project' = "missing"
        /\ r = "failed" => project' = "failed"
        /\ project' \in PyPIErrors => r = project'
        /\ project' \in {"published", "unset"} => r # "none"
    BY <1>4, <1>5 DEF Replies, Projects, PyPIErrors
  <2> HIDE DEF r
  <2> QED
    BY <1>2, <1>3, <1>5, <2>1, <2>2, FinishSource
<1>6. CASE artifactLock = t /\ p = "published"
  <2>1. /\ pc' = [pc EXCEPT ![t] = "downloading"]
        /\ UNCHANGED <<artifactLock, extracted, artifactGot>>
    BY <1>6 DEF AfterProject
  <2>2. project' = "published" /\ extracted = "none"
    BY <1>4, <1>6, TasksAssumption DEF Flags
  <2>3. Origin'
    BY <1>6, <2>1, <2>2, TasksAssumption DEF Origin, TypeOK
  <2>4. Endings'
    BY <1>3, <1>6, <2>1, TasksAssumption DEF Endings, TypeOK, Ended
  <2> QED
    BY <1>2, <2>3, <2>4
<1>7. CASE artifactLock # t
  <2>1. /\ UNCHANGED <<artifactLock, extracted, artifactGot>>
        /\ \/ p \in {"published", "bare"} /\ pc' = [pc EXCEPT ![t] = "needArtifact"]
           \/ p \notin {"published", "bare"} /\ Hand(t, p)
    BY <1>7 DEF AfterProject
  <2>2. /\ pc' = [pc EXCEPT ![t] = pc'[t]]
        /\ pc'[t] \in {"needArtifact", "raised", "done"}
        /\ pc'[t] = "done" => p \notin {"published", "bare"}
        /\ pc'[t] = "needArtifact" => p \in {"published", "bare"}
    BY <2>1, HandType DEF TypeOK, Replies, Projects, PyPIErrors
  <2>3. t \in Scorers
    BY <1>7 DEF Locks, Endings, Tasks
  <2>4. artifactGot[t] = "pending"
    BY DEF Endings, Ended
  <2>5. Origin'
    BY <2>1, <2>2 DEF Origin, TypeOK
  <2>6. Endings'
    BY <1>3, <2>1, <2>2, <2>3, <2>4, TasksAssumption DEF Endings, TypeOK, Ended
  <2> QED
    BY <1>2, <2>5, <2>6
<1> QED
  BY <1>5, <1>6, <1>7

LEMMA StepSource ==
  ASSUME IInv, TreeInv, SourceInv, NEW t \in Tasks, Step(t)
  PROVE  SourceInv'
<1> USE DEF IInv, SourceInv
<1>1. CASE ProjectHit(t)
  <2> DEFINE p == IF project = "unset" THEN "broken" ELSE project
  <2>1. p \in Replies /\ p = ToldOfProject'
    BY <1>1 DEF ProjectHit, ToldOfProject, TypeOK, Replies
  <2>2. AfterProject(t, p) /\ loaded' /\ projectLock' = Nobody /\ project' = project
        /\ UNCHANGED <<extractDone, scope>>
    BY <1>1 DEF ProjectHit, Free
  <2>3. pc[t] \in {"idle", "needProject"} /\ (pc[t] = "idle" => t \in Scorers)
    BY <1>1 DEF ProjectHit, WantsProject
  <2> HIDE DEF p
  <2> QED
    BY <2>1, <2>2, <2>3, AfterProjectSource
<1>2. CASE ProjectMiss(t)
  <2>1. /\ pc' = [pc EXCEPT ![t] = "fetching"]
        /\ pc[t] \in {"idle", "needProject"} /\ (pc[t] = "idle" => t \in Scorers)
        /\ ~loaded
        /\ UNCHANGED <<artifactLock, project, extractDone, extracted, scope,
                       projectGot, artifactGot>>
    BY <1>2 DEF ProjectMiss, WantsProject
  <2>2. Asked'
    BY <2>1 DEF Asked, ToldOfProject
  <2>3. Origin'
    BY <2>1 DEF Origin, TypeOK
  <2>4. Endings'
    BY <2>1, TasksAssumption DEF Endings, Locks, TypeOK, Ended
  <2> QED
    BY <2>2, <2>3, <2>4
<1>3. ASSUME NEW r \in Replies, FetchReply(t, r) PROVE SourceInv'
  <2>1. project = "unset" /\ loaded /\ projectLock # Nobody
    BY <1>3, TasksAssumption DEF FetchReply, Locks, Flags
  <2>2. r = ToldOfProject'
    BY <1>3, <2>1 DEF FetchReply, Cached, ToldOfProject, Replies, Projects, PyPIErrors
  <2> QED
    BY <1>3, <2>1, <2>2, AfterProjectSource DEF FetchReply
<1>4. CASE ArtifactHit(t)
  <2>1. /\ pc[t] \in {"idle", "needArtifact"} /\ (pc[t] = "idle" => t \in Readers)
        /\ Hand(t, extracted)
        /\ artifactGot' = [artifactGot EXCEPT ![t] = extracted]
        /\ UNCHANGED <<projectLock, artifactLock, loaded, project, extractDone,
                       extracted, scope, projectGot>>
    BY <1>4 DEF ArtifactHit, WantsArtifact
  <2>2. /\ pc' = [pc EXCEPT ![t] = pc'[t]]
        /\ pc'[t] \in {"reading", "raised", "done"}
        /\ pc'[t] = "reading" <=> (extracted = "tree" /\ t \in Readers)
    BY <2>1, HandType
  <2>3. extracted \notin {"pending", "broken"}
    BY DEF TypeOK, Artifacts, PyPIErrors
  <2>4. Asked'
    BY <2>1 DEF Asked, ToldOfProject
  <2>5. artifactGot[t] = "pending"
    BY <2>1 DEF Endings, Ended
  <2>6. Origin'
    BY <2>1, <2>2, <2>5 DEF Origin, TypeOK
  <2>7. Endings'
    BY <2>1, <2>2, <2>3, TasksAssumption DEF Endings, TypeOK, Ended
  <2> QED
    BY <2>4, <2>6, <2>7
<1>5. CASE ArtifactMiss(t)
  <2>1. /\ pc' = [pc EXCEPT ![t] = "needProject"]
        /\ pc[t] \in {"idle", "needArtifact"}
        /\ artifactLock = Nobody /\ artifactLock' = t
        /\ UNCHANGED <<projectLock, loaded, project, extracted, scope,
                       projectGot, artifactGot>>
    BY <1>5 DEF ArtifactMiss, WantsArtifact, Free
  <2>2. Asked'
    BY <2>1 DEF Asked, ToldOfProject
  <2>3. Origin'
    BY <2>1, TasksAssumption DEF Origin, TypeOK
  <2>4. Endings'
    BY <2>1, TasksAssumption DEF Endings, TypeOK, Ended
  <2> QED
    BY <2>2, <2>3, <2>4
<1>6. CASE Downloaded(t)
  <2>1. /\ pc' = [pc EXCEPT ![t] = "unpacking"] /\ pc[t] = "downloading"
        /\ UNCHANGED <<projectLock, artifactLock, loaded, project, extractDone,
                       extracted, scope, projectGot, artifactGot>>
    BY <1>6 DEF Downloaded
  <2> QED
    BY <2>1, TasksAssumption DEF Asked, ToldOfProject, Origin, Endings, TypeOK, Ended
<1>7. ASSUME NEW r \in {"failed", "broken", "tree"},
             DownloadFails(t, r) \/ Unpacked(t, r)
      PROVE  SourceInv'
  <2>1. /\ pc[t] \in {"downloading", "unpacking"} /\ FinishArtifact(t, r)
        /\ UNCHANGED <<projectLock, loaded, project, extractDone, scope, projectGot>>
    BY <1>7 DEF DownloadFails, Unpacked
  <2>2. /\ project = "published" /\ projectGot[t] # "pending"
        /\ loaded /\ projectLock = Nobody /\ artifactLock = t
    BY <2>1 DEF Origin, Endings, Asked, Locks
  <2>3. Asked'
    BY <2>1 DEF Asked, ToldOfProject
  <2>4. r \in Artifacts \cup {"broken"} /\ r \notin {"none", "missing"}
    BY DEF Artifacts, PyPIErrors
  <2>5. project' = "published" /\ project' \notin PyPIErrors
    BY <2>1, <2>2 DEF PyPIErrors
  <2> QED
    BY <2>1, <2>2, <2>3, <2>4, <2>5, FinishSource
<1>8. ASSUME NEW ok \in BOOLEAN, ReadDone(t, ok) PROVE SourceInv'
  <2>1. /\ pc[t] = "reading"
        /\ pc' = [pc EXCEPT ![t] = pc'[t]]
        /\ pc'[t] \in {"done", "raised"}
        /\ UNCHANGED <<projectLock, artifactLock, loaded, project, extractDone,
                       extracted, scope, projectGot, artifactGot>>
    BY <1>8 DEF ReadDone, TypeOK
  <2>2. Asked' /\ Origin'
    BY <2>1 DEF Asked, ToldOfProject, Origin, TypeOK
  <2>3. Endings'
    BY <2>1, TasksAssumption DEF Endings, TypeOK, Ended
  <2> QED
    BY <2>2, <2>3
<1>9. CASE ReadOrphaned(t)
  BY <1>9 DEF ReadOrphaned, Asked, ToldOfProject, Origin, Endings
<1> QED
  BY <1>1, <1>2, <1>3, <1>4, <1>5, <1>6, <1>7, <1>8, <1>9 DEF Step

LEMMA NextSourceInv == IInv /\ TreeInv /\ SourceInv /\ [Next]_vars => SourceInv'
<1> SUFFICES ASSUME IInv, TreeInv, SourceInv, [Next]_vars PROVE SourceInv'
  OBVIOUS
<1> USE DEF SourceInv
<1>1. ASSUME NEW t \in Tasks, Step(t) PROVE SourceInv'
  BY <1>1, StepSource
<1>2. CASE UnpackOrphaned \/ Finalize
  BY <1>2 DEF UnpackOrphaned, Finalize, Undisturbed, Asked, ToldOfProject, Origin, Endings
<1>3. CASE Leave \/ Escape \/ SiblingRaises
  BY <1>3 DEF Leave, Escape, SiblingRaises, Exit, Undisturbed, Asked, ToldOfProject,
              Origin, Endings
<1>4. CASE Cancel
  <2>1. Asked'
    BY <1>4 DEF Cancel, Asked, ToldOfProject
  <2>2. /\ scope' \notin {"open", "left"}
        /\ \A t \in Tasks : pc'[t] \in Ended /\ pc'[t] \in {pc[t], "cancelled"}
        /\ UNCHANGED <<project, extracted, projectGot, artifactGot>>
    BY <1>4 DEF Cancel, Ended, IInv, TypeOK
  <2>3. Origin' /\ Endings'
    BY <2>2 DEF Origin, Endings, Ended
  <2> QED
    BY <2>1, <2>3
<1>5. CASE UNCHANGED vars
  BY <1>5 DEF vars, Asked, ToldOfProject, Origin, Endings
<1> QED
  BY <1>1, <1>2, <1>3, <1>4, <1>5 DEF Next, Terminated

(* Every layer of a scan is told of the project what PyPI answered, of the *)
(* artifact what the project allows, and returns only when it was told.    *)
THEOREM AnswersHaveASource == Spec => [](Asked /\ Origin /\ Endings)
BY Invariance, InitTreeInv, NextTreeInv, InitSourceInv, NextSourceInv, PTL
DEF Spec, SourceInv

(***************************************************************************)
(* A step of one layer leaves the others where they are and what they were *)
(* told, and no layer that has returned makes a step.                      *)
(***************************************************************************)
LEMMA StepFrame ==
  ASSUME IInv, NEW t \in Tasks, Step(t)
  PROVE  /\ pc[t] \notin {"done", "raised"}
         /\ pc[t] = "cancelled" => pc'[t] = "cancelled"
         /\ \A u \in Tasks \ {t} : /\ pc'[u] = pc[u]
                                   /\ artifactGot'[u] = artifactGot[u]
                                   /\ projectGot'[u] = projectGot[u]
         /\ scope' = scope
         /\ project' = project \/ project = "unset"
<1> DEFINE Frame ==
      \A u \in Tasks \ {t} : /\ pc'[u] = pc[u]
                             /\ artifactGot'[u] = artifactGot[u]
                             /\ projectGot'[u] = projectGot[u]
<1>1. ASSUME NEW r, Hand(t, r)
      PROVE  \A u \in Tasks \ {t} : pc'[u] = pc[u]
  BY <1>1, HandType DEF IInv, TypeOK
<1>2. ASSUME NEW r, FinishArtifact(t, r)
      PROVE  \A u \in Tasks \ {t} : pc'[u] = pc[u] /\ artifactGot'[u] = artifactGot[u]
  BY <1>1, <1>2 DEF FinishArtifact, IInv, TypeOK
<1>3. ASSUME NEW p, AfterProject(t, p) PROVE Frame
  BY <1>1, <1>2, <1>3 DEF AfterProject, IInv, TypeOK
<1>4. CASE ProjectHit(t)
  BY <1>3, <1>4 DEF ProjectHit, WantsProject
<1>5. ASSUME NEW r \in Replies, FetchReply(t, r)
      PROVE  pc[t] = "fetching" /\ Frame /\ scope' = scope /\ project = "unset"
  BY <1>3, <1>5, TasksAssumption DEF FetchReply, IInv, Locks, Flags
<1>6. CASE ProjectMiss(t) \/ ArtifactMiss(t) \/ Downloaded(t)
  BY <1>6 DEF ProjectMiss, WantsProject, ArtifactMiss, WantsArtifact, Downloaded, IInv, TypeOK
<1>7. CASE ArtifactHit(t)
  BY <1>1, <1>7 DEF ArtifactHit, WantsArtifact, IInv, TypeOK
<1>8. ASSUME NEW r, DownloadFails(t, r) \/ Unpacked(t, r)
      PROVE  /\ pc[t] \in {"downloading", "unpacking"} /\ Frame
             /\ scope' = scope /\ project' = project
  BY <1>2, <1>8 DEF DownloadFails, Unpacked
<1>9. ASSUME NEW ok \in BOOLEAN, ReadDone(t, ok)
      PROVE  pc[t] = "reading" /\ Frame /\ scope' = scope /\ project' = project
  BY <1>9 DEF ReadDone, IInv, TypeOK
<1>10. CASE ReadOrphaned(t)
  BY <1>10 DEF ReadOrphaned
<1> QED
  BY <1>4, <1>5, <1>6, <1>7, <1>8, <1>9, <1>10 DEF Step

-----------------------------------------------------------------------------
(***************************************************************************)
(* The artifact is a OnceCell.  A step that leaves the lock, the flag, the *)
(* stored result and what was told alone stutters.                         *)
(***************************************************************************)
LEMMA ArtifactStutters ==
  ASSUME UNCHANGED <<extractDone, artifactLock, extracted, artifactGot>>
  PROVE  UNCHANGED ArtifactOnce!cvars
BY DEF ArtifactOnce!cvars, ArtifactCell

(* The holder of the lock fills the cell, or aborts. *)
LEMMA FinishRefines ==
  ASSUME IInv, NEW t \in Tasks, artifactLock = t,
         NEW r \in Artifacts \cup {"broken"}, FinishArtifact(t, r),
         UNCHANGED extractDone
  PROVE  ArtifactOnce!Next
<1>1. /\ ArtifactCell = "empty" /\ extractDone /\ extracted = "none"
      /\ ArtifactCell' = Cached(extracted, r)
      /\ artifactGot' = [artifactGot EXCEPT ![t] = r]
  BY TasksAssumption DEF IInv, Flags, FinishArtifact, ArtifactCell
<1>2. CASE r = "broken"
  BY <1>1, <1>2 DEF Cached, ArtifactOnce!Next, ArtifactOnce!Abort
<1>3. CASE r # "broken"
  BY <1>1, <1>3 DEF Cached, ArtifactOnce!Next, ArtifactOnce!Fill
<1> QED
  BY <1>2, <1>3

LEMMA AfterProjectRefinesArtifact ==
  ASSUME IInv, NEW t \in Tasks, NEW p \in Replies, AfterProject(t, p),
         UNCHANGED extractDone
  PROVE  ArtifactOnce!Next \/ UNCHANGED ArtifactOnce!cvars
<1>1. CASE artifactLock = t /\ p # "published"
  <2> DEFINE r == IF p \in Projects THEN "none" ELSE p
  <2>1. FinishArtifact(t, r) /\ r \in Artifacts \cup {"broken"}
    BY <1>1 DEF AfterProject, Replies, Artifacts
  <2> QED
    BY <1>1, <2>1, FinishRefines
<1>2. CASE ~(artifactLock = t /\ p # "published")
  <2>1. UNCHANGED <<artifactLock, extracted, artifactGot>>
    BY <1>2 DEF AfterProject
  <2> QED
    BY <2>1, ArtifactStutters
<1> QED
  BY <1>1, <1>2

LEMMA StepRefinesArtifact ==
  ASSUME IInv, NEW t \in Tasks, Step(t)
  PROVE  ArtifactOnce!Next \/ UNCHANGED ArtifactOnce!cvars
<1>1. CASE ProjectHit(t)
  <2>1. (IF project = "unset" THEN "broken" ELSE project) \in Replies
    BY DEF IInv, TypeOK, Replies
  <2> QED
    BY <1>1, <2>1, AfterProjectRefinesArtifact DEF ProjectHit
<1>2. CASE ProjectMiss(t) \/ Downloaded(t) \/ ReadOrphaned(t)
  BY <1>2, ArtifactStutters DEF ProjectMiss, Downloaded, ReadOrphaned
<1>3. ASSUME NEW r \in Replies, FetchReply(t, r)
      PROVE  ArtifactOnce!Next \/ UNCHANGED ArtifactOnce!cvars
  BY <1>3, AfterProjectRefinesArtifact DEF FetchReply
<1>4. CASE ArtifactHit(t)
  <2>1. /\ ArtifactCell = extracted /\ extracted # "empty"
        /\ ArtifactCell' = ArtifactCell
        /\ artifactGot' = [artifactGot EXCEPT ![t] = ArtifactCell]
    BY <1>4 DEF ArtifactHit, Free, ArtifactCell, IInv, TypeOK, Artifacts, PyPIErrors
  <2> QED
    BY <2>1 DEF ArtifactOnce!Next, ArtifactOnce!Get
<1>5. CASE ArtifactMiss(t)
  BY <1>5, TasksAssumption DEF ArtifactMiss, ArtifactOnce!cvars, ArtifactCell
<1>6. ASSUME NEW r \in {"failed", "broken"}, DownloadFails(t, r)
      PROVE  ArtifactOnce!Next \/ UNCHANGED ArtifactOnce!cvars
  BY <1>6, FinishRefines DEF DownloadFails, IInv, Locks, Artifacts, PyPIErrors
<1>7. ASSUME NEW r \in {"tree", "failed", "broken"}, Unpacked(t, r)
      PROVE  ArtifactOnce!Next \/ UNCHANGED ArtifactOnce!cvars
  BY <1>7, FinishRefines DEF Unpacked, IInv, Locks, Artifacts, PyPIErrors
<1>8. ASSUME NEW ok \in BOOLEAN, ReadDone(t, ok)
      PROVE  ArtifactOnce!Next \/ UNCHANGED ArtifactOnce!cvars
  BY <1>8, ArtifactStutters DEF ReadDone
<1> QED
  BY <1>1, <1>2, <1>3, <1>4, <1>5, <1>6, <1>7, <1>8 DEF Step

(* Cancelling the holder aborts; nobody is told. *)
LEMMA CancelRefinesArtifact ==
  ASSUME IInv, Cancel
  PROVE  ArtifactOnce!Next \/ UNCHANGED ArtifactOnce!cvars
<1>1. CASE artifactLock = Nobody
  BY <1>1, ArtifactStutters DEF Cancel
<1>2. CASE artifactLock # Nobody
  <2>1. /\ ArtifactCell = "empty" /\ ArtifactCell' = "none"
        /\ artifactGot' = artifactGot
        /\ artifactLock \in Tasks
    BY <1>2 DEF Cancel, ArtifactCell, IInv, TypeOK, Flags
  <2> QED
    BY <2>1 DEF ArtifactOnce!Next, ArtifactOnce!Abort
<1> QED
  BY <1>1, <1>2

(* extracted_path() computes its result once and shares it, expected       *)
(* failures included; only an exception outside PyPIError is lost.         *)
THEOREM ArtifactRefinesOnceCell == Spec => ArtifactIsOnceCell
<1>1. Init => ArtifactOnce!Init
  BY DEF Init, ArtifactOnce!Init, ArtifactCell
<1>2. IInv /\ [Next]_vars => [ArtifactOnce!Next]_(ArtifactOnce!cvars)
  <2> SUFFICES ASSUME IInv, [Next]_vars
               PROVE  ArtifactOnce!Next \/ UNCHANGED ArtifactOnce!cvars
    OBVIOUS
  <2>1. ASSUME NEW t \in Tasks, Step(t)
        PROVE  ArtifactOnce!Next \/ UNCHANGED ArtifactOnce!cvars
    BY <2>1, StepRefinesArtifact
  <2>2. CASE Cancel
    BY <2>2, CancelRefinesArtifact
  <2>3. CASE UnpackOrphaned \/ Leave \/ Escape \/ SiblingRaises \/ Finalize
             \/ UNCHANGED vars
    BY <2>3, ArtifactStutters
    DEF UnpackOrphaned, Leave, Escape, SiblingRaises, Exit, Finalize,
        Undisturbed, vars
  <2> QED
    BY <2>1, <2>2, <2>3 DEF Next, Terminated
<1> QED
  BY <1>1, <1>2, Invariance, PTL DEF Spec, ArtifactIsOnceCell, ArtifactOnce!Spec

-----------------------------------------------------------------------------
(* The project JSON is a OnceCell too: the same argument. *)
LEMMA ProjectStutters ==
  ASSUME UNCHANGED <<loaded, projectLock, project, projectGot>>
  PROVE  UNCHANGED ProjectOnce!cvars
BY DEF ProjectOnce!cvars, ProjectCell

LEMMA StepRefinesProject ==
  ASSUME IInv, NEW t \in Tasks, Step(t)
  PROVE  ProjectOnce!Next \/ UNCHANGED ProjectOnce!cvars
<1>1. CASE ProjectHit(t)
  <2> DEFINE p == IF project = "unset" THEN "broken" ELSE project
  <2>1. /\ ProjectCell = p /\ p # "empty"
        /\ ProjectCell' = ProjectCell
        /\ projectGot' = [projectGot EXCEPT ![t] = p]
    BY <1>1 DEF ProjectHit, AfterProject, Free, ProjectCell, IInv, TypeOK, Projects, PyPIErrors
  <2> QED
    BY <2>1 DEF ProjectOnce!Next, ProjectOnce!Get
<1>2. CASE ProjectMiss(t)
  BY <1>2, TasksAssumption DEF ProjectMiss, ProjectOnce!cvars, ProjectCell
<1>3. ASSUME NEW r \in Replies, FetchReply(t, r) PROVE ProjectOnce!Next
  <2>1. projectLock = t /\ loaded /\ project = "unset"
    BY <1>3, TasksAssumption DEF FetchReply, IInv, Locks, Flags
  <2>2. /\ ProjectCell = "empty"
        /\ projectLock' = Nobody /\ loaded' /\ project' = Cached(project, r)
        /\ projectGot' = [projectGot EXCEPT ![t] = r]
    BY <1>3, <2>1, TasksAssumption DEF FetchReply, AfterProject, ProjectCell
  <2>3. CASE r = "broken"
    BY <2>1, <2>2, <2>3 DEF ProjectCell, Cached, ProjectOnce!Next, ProjectOnce!Abort
  <2>4. CASE r # "broken"
    BY <2>1, <2>2, <2>4
    DEF ProjectCell, Cached, Replies, Projects, PyPIErrors, ProjectOnce!Next, ProjectOnce!Fill
  <2> QED
    BY <2>3, <2>4
<1>4. CASE ArtifactHit(t) \/ ArtifactMiss(t) \/ Downloaded(t) \/ ReadOrphaned(t)
  BY <1>4, ProjectStutters DEF ArtifactHit, ArtifactMiss, Downloaded, ReadOrphaned
<1>5. ASSUME NEW r, DownloadFails(t, r) \/ Unpacked(t, r) \/ ReadDone(t, r)
      PROVE  UNCHANGED ProjectOnce!cvars
  BY <1>5, ProjectStutters DEF DownloadFails, Unpacked, ReadDone
<1> QED
  BY <1>1, <1>2, <1>3, <1>4, <1>5 DEF Step

LEMMA CancelRefinesProject ==
  ASSUME IInv, Cancel
  PROVE  ProjectOnce!Next \/ UNCHANGED ProjectOnce!cvars
<1>1. CASE projectLock = Nobody
  BY <1>1, ProjectStutters DEF Cancel
<1>2. CASE projectLock # Nobody
  <2>1. /\ ProjectCell = "empty" /\ ProjectCell' = "broken"
        /\ projectGot' = projectGot
        /\ projectLock \in Tasks
    BY <1>2 DEF Cancel, ProjectCell, IInv, TypeOK, Flags
  <2> QED
    BY <2>1 DEF ProjectOnce!Next, ProjectOnce!Abort
<1> QED
  BY <1>1, <1>2

(* project() fetches once and gives every caller the same project or error. *)
THEOREM ProjectRefinesOnceCell == Spec => ProjectIsOnceCell
<1>1. Init => ProjectOnce!Init
  BY DEF Init, ProjectOnce!Init, ProjectCell
<1>2. IInv /\ [Next]_vars => [ProjectOnce!Next]_(ProjectOnce!cvars)
  <2> SUFFICES ASSUME IInv, [Next]_vars
               PROVE  ProjectOnce!Next \/ UNCHANGED ProjectOnce!cvars
    OBVIOUS
  <2>1. ASSUME NEW t \in Tasks, Step(t)
        PROVE  ProjectOnce!Next \/ UNCHANGED ProjectOnce!cvars
    BY <2>1, StepRefinesProject
  <2>2. CASE Cancel
    BY <2>2, CancelRefinesProject
  <2>3. CASE UnpackOrphaned \/ Leave \/ Escape \/ SiblingRaises \/ Finalize
             \/ UNCHANGED vars
    BY <2>3, ProjectStutters
    DEF UnpackOrphaned, Leave, Escape, SiblingRaises, Exit, Finalize,
        Undisturbed, vars
  <2> QED
    BY <2>1, <2>2, <2>3 DEF Next, Terminated
<1> QED
  BY <1>1, <1>2, Invariance, PTL DEF Spec, ProjectIsOnceCell, ProjectOnce!Spec

=============================================================================
