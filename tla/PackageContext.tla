--------------------------- MODULE PackageContext ---------------------------
(***************************************************************************)
(* common/pypi.py, class PackageContext: the PyPI state of one scan,       *)
(* fetched once and shared by the layers that run under one                *)
(* asyncio.gather inside `async with PackageContext(...)`                  *)
(* (api/routers/scan.py, run_scan).                                        *)
(*                                                                         *)
(* A task is one layer.  Readers (static analysis, Bandit) call            *)
(* extracted_path() and then read the tree from a worker thread; Scorers   *)
(* (metadata scoring) call project() and, when the version exists,         *)
(* archive_names().  Guarded tasks catch every Exception                   *)
(* (_layer_bandit, _layer_scoring); the others catch PyPIError only        *)
(* (_layer_static), so anything else escapes from the gather.              *)
(*                                                                         *)
(* One action is the code between two suspension points: asyncio runs it   *)
(* without interleaving.  The two asyncio.Locks are modelled by their      *)
(* holder; which waiter is served next is left open, so every FIFO order   *)
(* is among the behaviours.  Worker threads (asyncio.to_thread) are steps  *)
(* of their own, because cancelling the awaiting task does not stop them.  *)
(***************************************************************************)
EXTENDS Naturals

CONSTANTS Readers,   \* layers that read the extracted tree in a thread
          Scorers,   \* layers that need the project JSON first
          Guarded,   \* layers that catch every Exception
          Nobody     \* no holder

Tasks == Readers \cup Scorers

ASSUME TasksAssumption == /\ Readers \cap Scorers = {}
                          /\ Guarded \subseteq Tasks
                          /\ Nobody \notin Tasks

VARIABLES
  pc,            \* pc[t]: where layer t is suspended
  projectLock,   \* holder of _project_lock
  artifactLock,  \* holder of _artifact_lock
  loaded,        \* _loaded
  project,       \* _project or _project_error; "unset" while both are None
  extractDone,   \* _extract_done
  extracted,     \* _extracted or _extract_error; "none" while both are None
  tmpdir,        \* the TemporaryDirectory: "absent", "held" or "removed"
  disk,          \* files of the artifact are on disk
  unpacking,     \* the task whose extract() thread is running
  reading,       \* the tasks whose analysis thread is running
  scope,         \* the async with block: "open", or how it was left
  fetches,       \* history: number of project JSON requests
  downloads,     \* history: number of artifact downloads
  projectGot,    \* history: what project() gave each task last
  artifactGot    \* history: what extracted_path() gave each task

vars == <<pc, projectLock, artifactLock, loaded, project, extractDone,
          extracted, tmpdir, disk, unpacking, reading, scope, fetches,
          downloads, projectGot, artifactGot>>

(***************************************************************************)
(* "published": the version has files; "bare": it has none;                *)
(* "unpublished": the project has no such version.  "missing" is           *)
(* PackageNotFound, "failed" any other PyPIError (ArchiveError included),  *)
(* "broken" an exception outside that hierarchy.                           *)
(***************************************************************************)
Projects   == {"published", "bare", "unpublished"}
PyPIErrors == {"missing", "failed"}
Replies    == Projects \cup PyPIErrors \cup {"broken"}
Artifacts  == {"tree", "none"} \cup PyPIErrors
Ended      == {"done", "raised", "cancelled"}

AllEnded == \A t \in Tasks : pc[t] \in Ended

Init ==
  /\ pc = [t \in Tasks |-> "idle"]
  /\ projectLock = Nobody /\ artifactLock = Nobody
  /\ loaded = FALSE /\ project = "unset"
  /\ extractDone = FALSE /\ extracted = "none"
  /\ tmpdir = "absent" /\ disk = FALSE
  /\ unpacking = Nobody /\ reading = {}
  /\ scope = "open"
  /\ fetches = 0 /\ downloads = 0
  /\ projectGot  = [t \in Tasks |-> "pending"]
  /\ artifactGot = [t \in Tasks |-> "pending"]

-----------------------------------------------------------------------------
(* Acquiring an asyncio.Lock: the caller goes on only while nobody holds it. *)
NoMutualExclusion(lock) == TRUE
Free(lock) == lock = Nobody

(***************************************************************************)
(* What _cache keeps of a result: `except PyPIError` stores the value or   *)
(* the expected error, any other exception leaves the field as it was.     *)
(***************************************************************************)
CacheAnything(old, r) == r
CacheNothingOnError(old, r) == IF r \in PyPIErrors \cup {"broken"} THEN old ELSE r
Cached(old, r) == IF r = "broken" THEN old ELSE r

(* Layer t receives result r: it reads the tree, returns, or lets r escape. *)
Hand(t, r) ==
  /\ pc' = [pc EXCEPT ![t] =
       CASE r = "tree" /\ t \in Readers       -> "reading"
         [] r = "broken" /\ t \notin Guarded  -> "raised"
         [] OTHER                             -> "done"]
  /\ reading' = IF r = "tree" /\ t \in Readers THEN reading \cup {t} ELSE reading

(* extracted_path() leaves its critical section with result r. *)
FinishArtifact(t, r) ==
  /\ artifactLock' = Nobody
  /\ extracted' = Cached(extracted, r)
  /\ artifactGot' = [artifactGot EXCEPT ![t] = r]
  /\ Hand(t, r)

(***************************************************************************)
(* project() gives p to task t.  Inside _download_and_extract() (t holds   *)
(* the artifact lock) the artifact is selected and its download started,   *)
(* or there is none.  In _collect_with_context() a version that is not     *)
(* published ends the layer, one that is goes on to archive_names().       *)
(***************************************************************************)
AfterProject(t, p) ==
  /\ projectGot' = [projectGot EXCEPT ![t] = p]
  /\ \/ /\ artifactLock = t
        /\ \/ /\ p = "published"
              /\ pc' = [pc EXCEPT ![t] = "downloading"]
              /\ downloads' = downloads + 1
              /\ UNCHANGED <<artifactLock, extracted, artifactGot, reading>>
           \/ /\ p # "published"
              /\ FinishArtifact(t, IF p \in Projects THEN "none" ELSE p)
              /\ UNCHANGED downloads
     \/ /\ artifactLock # t
        /\ UNCHANGED <<artifactLock, extracted, artifactGot, downloads>>
        /\ \/ /\ p \in {"published", "bare"}
              /\ pc' = [pc EXCEPT ![t] = "needArtifact"]
              /\ UNCHANGED reading
           \/ p \notin {"published", "bare"} /\ Hand(t, p)

-----------------------------------------------------------------------------
(* project(), the part under the lock, for the layer that wants it next.   *)
WantsProject(t) == \/ pc[t] = "idle" /\ t \in Scorers
                   \/ pc[t] = "needProject"

ProjectHit(t) ==
  /\ WantsProject(t) /\ Free(projectLock)
  /\ loaded
  /\ AfterProject(t, IF project = "unset" THEN "broken" ELSE project)
  /\ UNCHANGED <<projectLock, loaded, project, extractDone, tmpdir, disk,
                 unpacking, scope, fetches>>

FetchEveryTime(t) ==
  /\ WantsProject(t) /\ Free(projectLock)
  /\ projectLock' = t
  /\ fetches' = fetches + 1
  /\ pc' = [pc EXCEPT ![t] = "fetching"]
  /\ UNCHANGED <<artifactLock, loaded, project, extractDone, extracted, tmpdir,
                 disk, unpacking, reading, scope, downloads, projectGot,
                 artifactGot>>

ProjectMiss(t) ==
  /\ WantsProject(t) /\ Free(projectLock)
  /\ ~loaded
  /\ loaded' = TRUE
  /\ projectLock' = t
  /\ fetches' = fetches + 1
  /\ pc' = [pc EXCEPT ![t] = "fetching"]
  /\ UNCHANGED <<artifactLock, project, extractDone, extracted, tmpdir, disk,
                 unpacking, reading, scope, downloads, projectGot, artifactGot>>

(* fetch_project() answers with r, whatever PyPI and the network make of it. *)
KeepLockOnError(t, r) ==
  /\ pc[t] = "fetching"
  /\ projectLock' = IF r \in Projects THEN Nobody ELSE t
  /\ project' = Cached(project, r)
  /\ AfterProject(t, r)
  /\ UNCHANGED <<loaded, extractDone, tmpdir, disk, unpacking, scope, fetches>>

FetchReply(t, r) ==
  /\ pc[t] = "fetching"
  /\ projectLock' = Nobody
  /\ project' = Cached(project, r)
  /\ AfterProject(t, r)
  /\ UNCHANGED <<loaded, extractDone, tmpdir, disk, unpacking, scope, fetches>>

-----------------------------------------------------------------------------
WantsArtifact(t) == \/ pc[t] = "idle" /\ t \in Readers
                    \/ pc[t] = "needArtifact"

(* extracted_path() after someone has been through it. *)
ArtifactHit(t) ==
  /\ WantsArtifact(t) /\ Free(artifactLock)
  /\ extractDone
  /\ artifactGot' = [artifactGot EXCEPT ![t] = extracted]
  /\ Hand(t, extracted)
  /\ UNCHANGED <<projectLock, artifactLock, loaded, project, extractDone,
                 extracted, tmpdir, disk, unpacking, scope, fetches, downloads,
                 projectGot>>

(* extracted_path(), first caller: the flag is set before anything is awaited. *)
ArtifactMiss(t) ==
  /\ WantsArtifact(t) /\ Free(artifactLock)
  /\ ~extractDone
  /\ extractDone' = TRUE
  /\ artifactLock' = t
  /\ pc' = [pc EXCEPT ![t] = "needProject"]
  /\ UNCHANGED <<projectLock, loaded, project, extracted, tmpdir, disk,
                 unpacking, reading, scope, fetches, downloads, projectGot,
                 artifactGot>>

(* download() is complete: the directory is created and the thread started. *)
Downloaded(t) ==
  /\ pc[t] = "downloading"
  /\ tmpdir' = "held" /\ disk' = TRUE
  /\ unpacking' = t
  /\ pc' = [pc EXCEPT ![t] = "unpacking"]
  /\ UNCHANGED <<projectLock, artifactLock, loaded, project, extractDone,
                 extracted, reading, scope, fetches, downloads, projectGot,
                 artifactGot>>

DownloadFails(t, r) ==
  /\ pc[t] = "downloading"
  /\ FinishArtifact(t, r)
  /\ UNCHANGED <<projectLock, loaded, project, extractDone, tmpdir, disk,
                 unpacking, scope, fetches, downloads, projectGot>>

(***************************************************************************)
(* The extract() thread ends.  If the directory was removed under it, the  *)
(* members it wrote afterwards recreated the path.                         *)
(***************************************************************************)
ThreadWrote == IF tmpdir = "removed" THEN disk' \in BOOLEAN ELSE disk' = disk

Unpacked(t, r) ==
  /\ pc[t] = "unpacking"
  /\ unpacking' = Nobody
  /\ ThreadWrote
  /\ FinishArtifact(t, r)
  /\ UNCHANGED <<projectLock, loaded, project, extractDone, tmpdir, scope,
                 fetches, downloads, projectGot>>

UnpackOrphaned ==
  /\ unpacking # Nobody /\ pc[unpacking] = "cancelled"
  /\ unpacking' = Nobody
  /\ ThreadWrote
  /\ UNCHANGED <<pc, projectLock, artifactLock, loaded, project, extractDone,
                 extracted, tmpdir, reading, scope, fetches, downloads,
                 projectGot, artifactGot>>

(* The analysis thread of layer t ends, normally or with an exception. *)
ReadDone(t, ok) ==
  /\ pc[t] = "reading"
  /\ reading' = reading \ {t}
  /\ pc' = [pc EXCEPT ![t] = IF ok \/ t \in Guarded THEN "done" ELSE "raised"]
  /\ UNCHANGED <<projectLock, artifactLock, loaded, project, extractDone,
                 extracted, tmpdir, disk, unpacking, scope, fetches, downloads,
                 projectGot, artifactGot>>

ReadOrphaned(t) ==
  /\ t \in reading /\ pc[t] = "cancelled"
  /\ reading' = reading \ {t}
  /\ UNCHANGED <<pc, projectLock, artifactLock, loaded, project, extractDone,
                 extracted, tmpdir, disk, unpacking, scope, fetches, downloads,
                 projectGot, artifactGot>>

-----------------------------------------------------------------------------
(* aclose(): the temporary directory is removed if there is one. *)
NoCleanup == UNCHANGED <<tmpdir, disk>>
Cleanup == IF tmpdir = "held" THEN tmpdir' = "removed" /\ disk' = FALSE
                              ELSE UNCHANGED <<tmpdir, disk>>

Undisturbed == <<projectLock, artifactLock, loaded, project, extractDone,
                 extracted, unpacking, reading, fetches, downloads, projectGot,
                 artifactGot>>

(* __aexit__: the block is left with outcome how, and aclose() runs. *)
Exit(how) == /\ scope = "open"
             /\ scope' = how
             /\ Cleanup
             /\ UNCHANGED <<pc, Undisturbed>>

(* gather returns when every layer has returned. *)
LeaveOnFirstResult == (\E t \in Tasks : pc[t] = "done") /\ Exit("left")
Leave == (\A t \in Tasks : pc[t] = "done") /\ Exit("left")

(***************************************************************************)
(* gather passes on the first exception at once, a layer's (Escape) or one *)
(* of _layer_cve, which shares the gather but not the context              *)
(* (SiblingRaises).  The other layers are not cancelled and run on.        *)
(***************************************************************************)
Escape == (\E t \in Tasks : pc[t] = "raised") /\ Exit("abandoned")
SiblingRaises == Exit("abandoned")

(***************************************************************************)
(* The event loop cancels what still runs (Ctrl-C in the CLI or the        *)
(* watcher, or asyncio.run after an exception escaped).  `async with`      *)
(* releases the locks; threads run on.                                     *)
(***************************************************************************)
Cancel ==
  /\ scope # "left" /\ ~AllEnded
  /\ pc' = [t \in Tasks |-> IF pc[t] \in Ended THEN pc[t] ELSE "cancelled"]
  /\ projectLock' = Nobody /\ artifactLock' = Nobody
  /\ IF scope = "open" THEN scope' = "cancelled" /\ Cleanup
                       ELSE UNCHANGED <<scope, tmpdir, disk>>
  /\ UNCHANGED <<loaded, project, extractDone, extracted, unpacking, reading,
                 fetches, downloads, projectGot, artifactGot>>

(* tempfile: a TemporaryDirectory nobody cleaned up is removed when freed. *)
Finalize ==
  /\ scope # "open" /\ AllEnded /\ tmpdir = "held"
  /\ Cleanup
  /\ UNCHANGED <<pc, scope, Undisturbed>>

Terminated == /\ scope # "open" /\ AllEnded /\ tmpdir # "held"
              /\ unpacking = Nobody /\ reading = {}
              /\ UNCHANGED vars

-----------------------------------------------------------------------------
(* One layer's own progress, thread included. *)
Step(t) ==
  \/ ProjectHit(t) \/ ProjectMiss(t)
  \/ \E r \in Replies : FetchReply(t, r)
  \/ ArtifactHit(t) \/ ArtifactMiss(t)
  \/ Downloaded(t)
  \/ \E r \in {"failed", "broken"} : DownloadFails(t, r)
  \/ \E r \in {"tree", "failed", "broken"} : Unpacked(t, r)
  \/ \E ok \in BOOLEAN : ReadDone(t, ok)
  \/ ReadOrphaned(t)

Next == \/ \E t \in Tasks : Step(t)
        \/ UnpackOrphaned
        \/ Leave \/ Escape \/ SiblingRaises \/ Cancel \/ Finalize
        \/ Terminated

(***************************************************************************)
(* The event loop runs every ready callback, httpx ends each request with  *)
(* an answer or a timeout, and worker threads return; nothing makes a      *)
(* layer fail or the user press Ctrl-C.                                    *)
(***************************************************************************)
Fairness == /\ \A t \in Tasks : WF_vars(Step(t))
            /\ WF_vars(UnpackOrphaned) /\ WF_vars(Finalize)
            /\ WF_vars(Leave) /\ WF_vars(Escape)

Spec == Init /\ [][Next]_vars /\ Fairness

-----------------------------------------------------------------------------
(* The types of the variables above. *)
TypeOK ==
  /\ pc \in [Tasks -> {"idle", "needProject", "fetching", "needArtifact",
                      "downloading", "unpacking", "reading"} \cup Ended]
  /\ projectLock \in Tasks \cup {Nobody}
  /\ artifactLock \in Tasks \cup {Nobody}
  /\ loaded \in BOOLEAN
  /\ project \in Projects \cup PyPIErrors \cup {"unset"}
  /\ extractDone \in BOOLEAN
  /\ extracted \in Artifacts
  /\ tmpdir \in {"absent", "held", "removed"}
  /\ disk \in BOOLEAN
  /\ unpacking \in Tasks \cup {Nobody}
  /\ reading \in SUBSET Readers
  /\ scope \in {"open", "left", "abandoned", "cancelled"}
  /\ fetches \in Nat /\ downloads \in Nat
  /\ projectGot \in [Tasks -> Replies \cup {"pending"}]
  /\ artifactGot \in [Tasks -> Artifacts \cup {"broken", "pending"}]

(***************************************************************************)
(* However the layers interleave, fail or are cancelled, one scan asks     *)
(* PyPI for the project JSON at most once and downloads at most one        *)
(* artifact ("Downloaded and unpacked at most once").                      *)
(***************************************************************************)
AtMostOnce == fetches <= 1 /\ downloads <= 1

(***************************************************************************)
(* Unless an exception outside PyPIError cost the scan its artifact, every *)
(* layer that asked was told the same thing: one layer never judges a tree *)
(* another was told is missing or unreadable.                              *)
(***************************************************************************)
OneAnswer ==
  (\A t \in Tasks : artifactGot[t] # "broken") =>
    \A s, t \in Tasks :
      artifactGot[s] = "pending" \/ artifactGot[t] = "pending"
        \/ artifactGot[s] = artifactGot[t]

(***************************************************************************)
(* While the block is open, and when it is left normally, no layer reads a *)
(* tree that was removed; and after a normal exit no file and no thread is *)
(* left behind.                                                            *)
(***************************************************************************)
CleanExit ==
  /\ scope \in {"open", "left"} /\ reading # {} => tmpdir = "held" /\ disk
  /\ scope = "left" => ~disk /\ reading = {} /\ unpacking = Nobody

(***************************************************************************)
(* The two locks never wait for each other: every layer returns, raises or *)
(* is cancelled, and the block is left.                                    *)
(***************************************************************************)
EveryLayerEnds == <>(AllEnded /\ scope # "open")

(***************************************************************************)
(* What the class promises of its two cached values, stated in OnceCell.   *)
(* A cell is empty until the caller that computes it releases the lock.    *)
(***************************************************************************)
ProjectCell  == IF ~loaded \/ projectLock # Nobody THEN "empty"
                ELSE IF project = "unset" THEN "broken" ELSE project
ArtifactCell == IF ~extractDone \/ artifactLock # Nobody THEN "empty" ELSE extracted

ProjectOnce == INSTANCE OnceCell WITH
  Callers <- Tasks, Values <- Projects \cup PyPIErrors, Default <- "broken",
  Empty <- "empty", Pending <- "pending", Broken <- "broken",
  cell <- ProjectCell, got <- projectGot
ArtifactOnce == INSTANCE OnceCell WITH
  Callers <- Tasks, Values <- Artifacts, Default <- "none",
  Empty <- "empty", Pending <- "pending", Broken <- "broken",
  cell <- ArtifactCell, got <- artifactGot

(* project(): "fetched at most once.  Re-raises the same error." *)
ProjectIsOnceCell == ProjectOnce!Spec

(* extracted_path(): "Failures are cached too". *)
ArtifactIsOnceCell == ArtifactOnce!Spec

(***************************************************************************)
(* The contract as its docstrings word it, without the exceptions the code *)
(* makes.  Neither holds of every behaviour.                               *)
(***************************************************************************)

(* A failure to get the artifact is told to every layer that asks: none is *)
(* told that the release has no artifact.                                  *)
FailureIsShared ==
  \A s, t \in Tasks : artifactGot[s] = "broken" => artifactGot[t] # "none"

(* However the block is left, the extracted tree is gone once every thread *)
(* and layer has ended.                                                    *)
TreeRemovedOnExit ==
  scope # "open" /\ AllEnded /\ unpacking = Nobody /\ tmpdir # "held" => ~disk
=============================================================================
