------------------------------ MODULE HeapJob ------------------------------
(***************************************************************************)
(* One background heap analysis of the backend, from the request that      *)
(* starts it to the last file it leaves behind: the worker of heap_jobs.py *)
(* and of main._run_heap_parse, the in-memory JobStore of sessions.py, the *)
(* saved report, object index and .job metadata of artifacts.py, and the   *)
(* HTTP handlers of main.py and heap_workbench.py that run beside it in    *)
(* the thread pool.  Jobs share nothing but the lock of artifacts.py, so   *)
(* one job and its one report are modelled; every write of a file or of    *)
(* the store is an action of its own and anything may happen in between.   *)
(***************************************************************************)
EXTENDS Naturals

CONSTANTS
    Requests,         \* handlers of the thread pool that can be in flight
    Values,           \* what a user may write: a note, capture data, a source
    Unset,            \* an annotation nobody has written
    Worker,           \* the analysis thread, as a holder of the lock
    Free,             \* the lock when nobody holds it
    Checkpoints,      \* reports one scan publishes, the complete one included
    IndexCheckpoint,  \* the checkpoint before which the object index is built
    MaxFaults,        \* bound: failed writes (a full disk) in a behaviour
    MaxRestarts       \* bound: crashes and restarts of the backend

ASSUME CheckpointsAssumption ==
    /\ Checkpoints \in Nat \ {0}
    /\ IndexCheckpoint \in 1..Checkpoints

ASSUME BoundsAssumption == MaxFaults \in Nat /\ MaxRestarts \in Nat

ASSUME NamesAssumption ==
    /\ Unset \notin Values
    /\ Worker \notin Requests
    /\ Free \notin Requests \cup {Worker}

VARIABLES
    status,     \* the JobStore's entry: the job's status, "none" without one
    result,     \* and the result it holds, whose revision is the job's
    callback,   \* a cancel callback is registered for the job
    cancelled,  \* HeapRun.cancelled, the event the callback sets
    jobfile,    \* the .job file: metadata that outlives the store
    disk,       \* the saved report, <analysis>.json
    index,      \* the object index, <analysis>.sqlite
    input,      \* the heap dump: an upload of the backend's or a server file
    lock,       \* holder of artifacts.LOCK
    pc,         \* where _run_heap_parse, HeapRun.publish or finish stands
    step,       \* the checkpoint the scan is working towards
    final,      \* what publish and finish were called with: "running" until
                \* the scan ends, then the status the job is to end with
    indexed,    \* the stages list says that the object index is complete
    draft,      \* the report publish is about to save
    base,       \* the saved report publish has read
    reqs,       \* what each handler in flight has read, and is about to do
    faults,     \* writes that have failed
    restarts,   \* restarts of the backend
    lost,       \* history: a report was saved over one its writer had not read
    deleted,    \* history: DELETE /api/analyses has removed the report
    acked       \* history: annotations whose request was answered with success

storeVars   == <<status, result, callback, cancelled>>
fileVars    == <<jobfile, disk, index, input>>
localVars   == <<step, final, indexed, draft, base>>
workerVars  == <<pc, localVars>>
boundVars   == <<faults, restarts>>
historyVars == <<lost, deleted, acked>>
vars == <<storeVars, fileVars, lock, workerVars, reqs, boundVars, historyVars>>

Annotation == Values \cup {Unset}

Terminal == {"done", "cancelled", "error"}

Status == {"none", "running"} \cup Terminal

(* A report: the revision it was published as, the fields users write, and *)
(* whether it names an object index and has no stage left pending.  What   *)
(* the stages found is not modelled.  Published revisions start at 1.      *)
Report == [rev : Nat, notes : Annotation, capture : Annotation,
           source : Annotation, index : BOOLEAN, closed : BOOLEAN]

NoReport == [rev |-> 0, notes |-> Unset, capture |-> Unset,
             source |-> Unset, index |-> FALSE, closed |-> FALSE]

Saved(r) == r.rev > 0

JobFile == [status : Status, rev : Nat]

(* The points at which the task has started and has not yet recorded how   *)
(* it ended.                                                               *)
Scanning == {"scan", "index", "check"}
Publishing == {"publish", "lock", "save", "advertise", "record"}
Active == Scanning \cup Publishing \cup {"finish", "settle"}

WorkerPc == Active \cup {"idle", "stillborn", "persist", "exit", "ended", "dead"}

RequestPc == {"idle", "cancelJob", "removeJob", "guardDelete", "unlinkReport",
              "unlinkIndex", "wait", "notes", "capture", "guardSource", "source"}

RequestState == [pc : RequestPc, copy : Report, value : Annotation]

Idle == [pc |-> "idle", copy |-> NoReport, value |-> Unset]

Init ==
    /\ status = "none" /\ result = NoReport
    /\ callback = FALSE /\ cancelled = FALSE
    /\ jobfile = [status |-> "none", rev |-> 0]
    /\ disk = NoReport
    /\ index = "none"
    /\ input = "none"
    /\ lock = Free
    /\ pc = "idle"
    /\ step = 1 /\ final = "running" /\ indexed = FALSE
    /\ draft = NoReport /\ base = NoReport
    /\ reqs = [r \in Requests |-> Idle]
    /\ faults = 0 /\ restarts = 0
    /\ lost = FALSE /\ deleted = FALSE
    /\ acked = [notes |-> Unset, capture |-> Unset]

-----------------------------------------------------------------------------
(* The job store.                                                          *)

(* JobStore.remove: forget the job, fire its callback, delete its upload. *)
RemoveJob ==
    /\ status' = "none"
    /\ result' = NoReport
    /\ callback' = FALSE
    /\ cancelled' = IF callback THEN TRUE ELSE cancelled
    /\ input' = IF input = "upload" /\ status # "none" THEN "removed" ELSE input

(* Mutant: the request itself ends the job, without looking whether it has *)
(* ended already.                                                          *)
CancelJobAnyStatus ==
    /\ cancelled' = IF callback THEN TRUE ELSE cancelled
    /\ status' = IF status # "none" THEN "cancelled" ELSE status
    /\ UNCHANGED <<result, callback>>

(* JobStore.cancel, under the store's lock. *)
CancelJob ==
    /\ cancelled' = IF status = "running" /\ callback THEN TRUE ELSE cancelled
    /\ UNCHANGED <<status, result, callback>>

(* saved_job and the background_job overlay of _artifact: the store's      *)
(* status, else the persisted one, in which a running job was interrupted. *)
BackgroundStatus ==
    CASE status # "none"            -> status
      [] status = "none" /\ jobfile.status = "running" -> "interrupted"
      [] OTHER                      -> jobfile.status

(* A write that raises OSError. *)
Fault == faults < MaxFaults /\ faults' = faults + 1

-----------------------------------------------------------------------------
(* Starting a job.                                                         *)

(* The request stores or finds the dump, creates the job and marks it      *)
(* running; HeapRun.__init__ registers the callback and persists the job.  *)
(* The client learns the job's id only after the task's first step, so     *)
(* nothing can come between.                                               *)
StartJob ==
    /\ pc = "idle"
    /\ \E kind \in {"upload", "server"} : input' = kind
    /\ status' = "running"
    /\ callback' = TRUE
    /\ \/ /\ jobfile' = [status |-> "running", rev |-> 0]
          /\ pc' = "scan"
          /\ UNCHANGED faults
       \/ /\ Fault   \* HeapRun() is outside the try: nothing finishes the job
          /\ pc' = "stillborn"
          /\ UNCHANGED jobfile
    /\ UNCHANGED <<result, cancelled, disk, index, lock, localVars, reqs, restarts, historyVars>>

(* The upload is refused or breaks: the job exists only to say so. *)
UploadFails ==
    /\ pc = "idle"
    /\ status' = "error"
    /\ pc' = "ended"
    /\ UNCHANGED <<result, callback, cancelled, fileVars, lock, localVars, reqs,
                   boundVars, historyVars>>

-----------------------------------------------------------------------------
(* The worker: parse_heap_dump between two checkpoints.                    *)

(* Mutant: no exception handler. *)
RaiseUnhandled(kind) ==
    /\ pc' = "exit"
    /\ UNCHANGED localVars

(* Where an exception takes the worker.  One raised by the scan or by      *)
(* finish('done') is handled by another finish; one raised by the finish   *)
(* of a handler leaves the task.                                           *)
Raise(kind) ==
    /\ \/ /\ final \in {"running", "done"}
          /\ pc' = "finish"
          /\ final' = kind
       \/ /\ final \notin {"running", "done"}
          /\ pc' = "exit"
          /\ final' = final
    /\ draft' = NoReport
    /\ base' = NoReport
    /\ UNCHANGED <<step, indexed>>

(* What a checkpoint publishes.  Only the complete one has no stage        *)
(* pending; it names the index if that stage has completed.                *)
Snapshot(withIndex) ==
    [rev |-> 0, notes |-> Unset, capture |-> Unset, source |-> Unset,
     index |-> withIndex, closed |-> (step = Checkpoints)]

(* The task is gone, and its local variables with it. *)
ForgetLocals ==
    /\ step' = 1 /\ final' = "running" /\ indexed' = FALSE
    /\ draft' = NoReport /\ base' = NoReport

(* The scan changes nothing that others see but the index. *)
ScanUnchanged ==
    UNCHANGED <<storeVars, jobfile, disk, input, lock, reqs, boundVars, historyVars>>

(* The scan reaches its next checkpoint.  The first (every read of the     *)
(* dump) and the last ("Finalizing report") always pass a cancel check;    *)
(* the stages between may all be gated off, and then none is made.         *)
ScanStage ==
    /\ pc = "scan"
    /\ step \in {1, Checkpoints} => ~cancelled
    /\ pc' = "publish"
    /\ draft' = Snapshot(indexed)
    /\ UNCHANGED <<step, final, indexed, base, index>>
    /\ ScanUnchanged

(* HeapRun.check inside a stage, an index build or the final run.check. *)
ScanCancelled ==
    /\ pc \in {"scan", "index", "check"}
    /\ cancelled
    /\ Raise("cancelled")
    /\ UNCHANGED index
    /\ ScanUnchanged

(* A malformed dump, or an analyzer outside the best-effort handlers. *)
ScanFails ==
    /\ pc = "scan"
    /\ Raise("error")
    /\ UNCHANGED index
    /\ ScanUnchanged

StartIndex ==
    /\ pc = "scan"
    /\ step = IndexCheckpoint
    /\ pc' = "index"
    /\ index' = "partial"
    /\ UNCHANGED localVars
    /\ ScanUnchanged

(* Mutant: the stages list forgets the index. *)
IndexCompletesUnlisted ==
    /\ pc = "index"
    /\ pc' = "publish"
    /\ index' = "complete"
    /\ draft' = Snapshot(TRUE)
    /\ UNCHANGED <<step, final, indexed, base>>
    /\ ScanUnchanged

IndexCompletes ==
    /\ pc = "index"
    /\ pc' = "publish"
    /\ index' = "complete"
    /\ indexed' = TRUE
    /\ draft' = Snapshot(TRUE)
    /\ UNCHANGED <<step, final, base>>
    /\ ScanUnchanged

(* Mutant: the stage is listed as completed although the build failed. *)
IndexFailsListed ==
    /\ pc = "index"
    /\ pc' = "publish"
    /\ index' = "none"
    /\ draft' = Snapshot(TRUE)
    /\ UNCHANGED <<step, final, indexed, base>>
    /\ ScanUnchanged

(* A budget, a corrupt record or an interrupted statement: the partial     *)
(* catalog is removed and the scan goes on without it.                     *)
IndexFails ==
    /\ pc = "index"
    /\ pc' = "publish"
    /\ index' = "none"
    /\ draft' = Snapshot(FALSE)
    /\ UNCHANGED <<step, final, indexed, base>>
    /\ ScanUnchanged

(* Mutant: no check after the complete report. *)
FinalCheckSkipped ==
    /\ pc = "check"
    /\ pc' = "finish"
    /\ final' = "done"
    /\ UNCHANGED <<step, indexed, draft, base, index>>
    /\ ScanUnchanged

(* The run.check() after the complete report was published. *)
FinalCheck ==
    /\ pc = "check"
    /\ ~cancelled
    /\ pc' = "finish"
    /\ final' = "done"
    /\ UNCHANGED <<step, indexed, draft, base, index>>
    /\ ScanUnchanged

-----------------------------------------------------------------------------
(* HeapRun.publish, called by a checkpoint and by finish.                  *)

(* Mutant: a report with a final status keeps its pending stages. *)
NumberedOpen(r) == [r EXCEPT !.rev = result.rev + 1]

(* The next revision; one with a final status has no stage left pending. *)
Numbered(r) ==
    [rev |-> result.rev + 1, notes |-> r.notes, capture |-> r.capture,
     source |-> r.source, index |-> r.index,
     closed |-> IF final = "running" THEN r.closed ELSE TRUE]

PublishGet ==
    /\ pc = "publish"
    /\ \/ /\ status = "none"
          /\ Raise("cancelled")
       \/ /\ status # "none"
          /\ pc' = "lock"
          /\ draft' = Numbered(draft)
          /\ UNCHANGED <<step, final, indexed, base>>
    /\ UNCHANGED index
    /\ ScanUnchanged

(* An annotation of the saved report replaces the draft's, if there is one. *)
Carried(previous, own) == IF previous # Unset THEN previous ELSE own

(* Mutant: the saved report's annotations are not looked at. *)
CarriedOverNothing(r) == r

CarriedOver(r) ==
    [rev |-> r.rev, notes |-> Carried(disk.notes, r.notes),
     capture |-> Carried(disk.capture, r.capture),
     source |-> r.source, index |-> r.index, closed |-> r.closed]

(* Mutant: the saved report is read without the lock. *)
PublishLockUnlocked ==
    /\ pc = "lock"
    /\ pc' = "save"
    /\ base' = disk
    /\ draft' = CarriedOver(draft)
    /\ UNCHANGED <<storeVars, fileVars, lock, step, final, indexed, reqs, boundVars, historyVars>>

(* Take the lock, read the saved report and carry its annotations over. *)
PublishLock ==
    /\ pc = "lock"
    /\ lock = Free
    /\ lock' = Worker
    /\ pc' = "save"
    /\ base' = disk
    /\ draft' = CarriedOver(draft)
    /\ UNCHANGED <<storeVars, fileVars, step, final, indexed, reqs, boundVars, historyVars>>

(* Mutant: a failed save is ignored. *)
PublishSaveIgnored ==
    /\ pc = "save"
    /\ lock' = Free
    /\ pc' = "advertise"
    /\ \/ /\ disk' = draft
          /\ lost' = IF disk = base THEN lost ELSE TRUE
          /\ UNCHANGED faults
       \/ Fault /\ UNCHANGED <<disk, lost>>
    /\ UNCHANGED <<storeVars, jobfile, index, input, localVars, reqs, restarts, deleted, acked>>

(* artifacts.save replaces the file in one step, or fails and leaves it. *)
PublishSave ==
    /\ pc = "save"
    /\ lock' = Free
    /\ \/ /\ disk' = draft
          /\ lost' = IF disk = base THEN lost ELSE TRUE
          /\ pc' = "advertise"
          /\ UNCHANGED <<localVars, faults>>
       \/ /\ Fault
          /\ Raise("error")
          /\ UNCHANGED <<disk, lost>>
    /\ UNCHANGED <<storeVars, jobfile, index, input, reqs, restarts, deleted, acked>>

(* The revision is advertised only once the report that has it is saved.   *)
(* JobStore.update does nothing to a job that has been removed.            *)
PublishAdvertise ==
    /\ pc = "advertise"
    /\ result' = IF status = "none" THEN result ELSE draft
    /\ pc' = "record"
    /\ draft' = NoReport
    /\ base' = NoReport
    /\ UNCHANGED <<status, callback, cancelled, fileVars, lock, step, final, indexed,
                   reqs, boundVars, historyVars>>

(* persist_job(JOBS.get(..)) raises if the write fails, and if the job has *)
(* been removed since.                                                     *)
PersistRaises ==
    /\ \/ status = "none" /\ UNCHANGED faults
       \/ Fault
    /\ Raise("error")
    /\ UNCHANGED jobfile

PersistJob ==
    /\ status # "none"
    /\ jobfile' = [status |-> status, rev |-> result.rev]
    /\ UNCHANGED faults

PersistUnchanged ==
    UNCHANGED <<storeVars, disk, index, input, lock, reqs, restarts, historyVars>>

(* publish() persists the revision and returns to finish, or to the scan   *)
(* for its next checkpoint, or to the last check of the scan.              *)
PublishRecord ==
    /\ pc = "record"
    /\ \/ /\ PersistJob
          /\ \/ final # "running" /\ pc' = "settle" /\ step' = step
             \/ final = "running" /\ step < Checkpoints /\ pc' = "scan" /\ step' = step + 1
             \/ final = "running" /\ step = Checkpoints /\ pc' = "check" /\ step' = step
          /\ UNCHANGED <<final, indexed, draft, base>>
       \/ PersistRaises
    /\ PersistUnchanged

-----------------------------------------------------------------------------
(* HeapRun.finish, on the event loop, and the finally of _run_heap_parse.  *)

(* Mutant: the index of a failed or cancelled build is left behind. *)
FinishGetKeepsIndex ==
    /\ pc = "finish"
    /\ \/ status = "none" /\ pc' = "exit" /\ UNCHANGED draft
       \/ /\ status # "none"
          /\ pc' = IF Saved(result) THEN "publish" ELSE "settle"
          /\ draft' = result
    /\ UNCHANGED <<step, final, indexed, base, index>>
    /\ ScanUnchanged

(* An index no saved result names is removed before anything else. *)
FinishGet ==
    /\ pc = "finish"
    /\ \/ status = "none" /\ pc' = "exit" /\ UNCHANGED <<index, draft>>
       \/ /\ status # "none"
          /\ index' = IF result.index THEN index ELSE "none"
          /\ pc' = IF Saved(result) THEN "publish" ELSE "settle"
          /\ draft' = result
    /\ UNCHANGED <<step, final, indexed, base>>
    /\ ScanUnchanged

FinishStatus ==
    /\ pc = "settle"
    /\ status' = IF status = "none" THEN status ELSE final
    /\ pc' = "persist"
    /\ UNCHANGED <<result, callback, cancelled, fileVars, lock, localVars, reqs,
                   boundVars, historyVars>>

(* Mutant: the final status is not persisted. *)
FinishUnpersisted ==
    /\ pc = "persist"
    /\ pc' = "exit"
    /\ UNCHANGED <<localVars, jobfile, faults>>
    /\ PersistUnchanged

FinishPersist ==
    /\ pc = "persist"
    /\ \/ PersistJob /\ pc' = "exit" /\ UNCHANGED localVars
       \/ PersistRaises
    /\ PersistUnchanged

(* Mutant: the upload is left to JobStore.remove. *)
RunExitKeepsInput ==
    /\ pc = "exit"
    /\ callback' = FALSE
    /\ cancelled' = FALSE
    /\ pc' = "ended"
    /\ ForgetLocals
    /\ UNCHANGED <<status, result, fileVars, lock, reqs, boundVars, historyVars>>

(* clear_cancel, and the upload is deleted; a server file never is.  The   *)
(* HeapRun is gone with its event.                                         *)
RunExit ==
    /\ pc = "exit"
    /\ callback' = FALSE
    /\ cancelled' = FALSE
    /\ input' = IF input = "upload" THEN "removed" ELSE input
    /\ pc' = "ended"
    /\ ForgetLocals
    /\ UNCHANGED <<status, result, jobfile, disk, index, lock, reqs, boundVars, historyVars>>

WorkerStep ==
    \/ ScanStage \/ ScanCancelled \/ ScanFails
    \/ StartIndex \/ IndexCompletes \/ IndexFails \/ FinalCheck
    \/ PublishGet \/ PublishLock \/ PublishSave \/ PublishAdvertise \/ PublishRecord
    \/ FinishGet \/ FinishStatus \/ FinishPersist \/ RunExit

-----------------------------------------------------------------------------
(* The handlers.  Each runs in a thread of its own.                        *)

Reply(r) == reqs' = [reqs EXCEPT ![r] = Idle]

(* r has read the report rep and will go on at the point p. *)
Hold(r, p, rep, v) ==
    reqs' = [reqs EXCEPT ![r] = [pc |-> p, copy |-> rep, value |-> v]]

(* POST /api/jobs/{id}/cancel *)
Cancel ==
    /\ BackgroundStatus # "none"
    /\ CancelJob
    /\ UNCHANGED <<fileVars, lock, workerVars, reqs, boundVars, historyVars>>

(* DELETE /api/jobs/{id} reads the status first and acts on it later. *)
DeleteJob(r) ==
    /\ reqs[r].pc = "idle"
    /\ pc # "idle"
    /\ Hold(r, IF status = "running" /\ jobfile.status # "none"
               THEN "cancelJob" ELSE "removeJob", NoReport, Unset)
    /\ UNCHANGED <<storeVars, fileVars, lock, workerVars, boundVars, historyVars>>

DeleteJobAct(r) ==
    /\ \/ reqs[r].pc = "cancelJob" /\ CancelJob /\ UNCHANGED input
       \/ reqs[r].pc = "removeJob" /\ RemoveJob
    /\ Reply(r)
    /\ UNCHANGED <<jobfile, disk, index, lock, workerVars, boundVars, historyVars>>

(* DELETE /api/analyses/{id}: read the report, look at the job, remove the *)
(* report and then its index, all without the lock.                        *)
DeleteAnalysis(r) ==
    /\ reqs[r].pc = "idle"
    /\ Saved(disk)
    /\ Hold(r, "guardDelete", NoReport, Unset)
    /\ UNCHANGED <<storeVars, fileVars, lock, workerVars, boundVars, historyVars>>

(* Mutant: a running job does not protect its report. *)
DeleteAnalysisUnguarded(r) ==
    /\ reqs[r].pc = "guardDelete"
    /\ Hold(r, "unlinkReport", NoReport, Unset)
    /\ UNCHANGED <<storeVars, fileVars, lock, workerVars, boundVars, historyVars>>

DeleteAnalysisGuard(r) ==
    /\ reqs[r].pc = "guardDelete"
    /\ IF BackgroundStatus = "running" THEN Reply(r)
       ELSE Hold(r, "unlinkReport", NoReport, Unset)
    /\ UNCHANGED <<storeVars, fileVars, lock, workerVars, boundVars, historyVars>>

UnlinkReport(r) ==
    /\ reqs[r].pc = "unlinkReport"
    /\ \/ /\ Saved(disk)
          /\ disk' = NoReport
          /\ deleted' = TRUE
          /\ Hold(r, "unlinkIndex", NoReport, Unset)
       \/ ~Saved(disk) /\ Reply(r) /\ UNCHANGED <<disk, deleted>>
    /\ UNCHANGED <<storeVars, jobfile, index, input, lock, workerVars, boundVars, lost, acked>>

UnlinkIndex(r) ==
    /\ reqs[r].pc = "unlinkIndex"
    /\ index' = "none"
    /\ Reply(r)
    /\ UNCHANGED <<storeVars, jobfile, disk, input, lock, workerVars, boundVars, historyVars>>

WithNotes(r, v) ==
    [rev |-> r.rev, notes |-> v, capture |-> r.capture, source |-> r.source,
     index |-> r.index, closed |-> r.closed]

(* What _artifact makes of the pending stages: those of an interrupted job *)
(* have failed.  The notes handler reads the file without it.              *)
Closed(r) == IF BackgroundStatus = "interrupted" THEN TRUE ELSE r.closed

WithCapture(r, v) ==
    [rev |-> r.rev, notes |-> r.notes, capture |-> v, source |-> r.source,
     index |-> r.index, closed |-> Closed(r)]

WithSource(r, v) ==
    [rev |-> r.rev, notes |-> r.notes, capture |-> r.capture, source |-> v,
     index |-> r.index, closed |-> Closed(r)]

(* PUT /api/heap/{id}/notes and POST /api/analyses/{id}/capture wait for   *)
(* the lock, read the report under it, change their field and save all of  *)
(* it.  The identifier is random: nobody asks before there is a job.       *)
Annotate(r) ==
    /\ reqs[r].pc = "idle"
    /\ pc # "idle"
    /\ Hold(r, "wait", NoReport, Unset)
    /\ UNCHANGED <<storeVars, fileVars, lock, workerVars, boundVars, historyVars>>

AnnotateRead(r) ==
    /\ reqs[r].pc = "wait"
    /\ lock = Free
    /\ \/ /\ Saved(disk)
          /\ lock' = r
          /\ \E field \in {"notes", "capture"}, v \in Values : Hold(r, field, disk, v)
       \/ Reply(r) /\ UNCHANGED lock   \* no such report, or an invalid time
    /\ UNCHANGED <<storeVars, fileVars, workerVars, boundVars, historyVars>>

AnnotateSave(r) ==
    /\ \/ /\ reqs[r].pc = "notes"
          /\ disk' = WithNotes(reqs[r].copy, reqs[r].value)
          /\ acked' = [notes |-> reqs[r].value, capture |-> acked.capture]
       \/ /\ reqs[r].pc = "capture"
          /\ disk' = WithCapture(reqs[r].copy, reqs[r].value)
          /\ acked' = [notes |-> acked.notes, capture |-> reqs[r].value]
    /\ lost' = IF disk = reqs[r].copy THEN lost ELSE TRUE
    /\ lock' = Free
    /\ Reply(r)
    /\ UNCHANGED <<storeVars, jobfile, index, input, workerVars, boundVars, deleted>>

(* POST /api/analyses/{id}/source/{session} does the same without the      *)
(* lock: it reads the report, refuses while the job runs and if the source *)
(* is unknown, looks up every location, and saves the report it read.      *)
AttachSource(r) ==
    /\ reqs[r].pc = "idle"
    /\ Saved(disk)
    /\ \E v \in Values : Hold(r, "guardSource", disk, v)
    /\ UNCHANGED <<storeVars, fileVars, lock, workerVars, boundVars, historyVars>>

(* Mutant: a source is attached to the report of a running job. *)
AttachSourceUnguarded(r) ==
    /\ reqs[r].pc = "guardSource"
    /\ Hold(r, "source", reqs[r].copy, reqs[r].value)
    /\ UNCHANGED <<storeVars, fileVars, lock, workerVars, boundVars, historyVars>>

AttachSourceGuard(r) ==
    /\ reqs[r].pc = "guardSource"
    /\ \/ Reply(r)
       \/ /\ BackgroundStatus # "running"
          /\ Hold(r, "source", reqs[r].copy, reqs[r].value)
    /\ UNCHANGED <<storeVars, fileVars, lock, workerVars, boundVars, historyVars>>

AttachSourceSave(r) ==
    /\ reqs[r].pc = "source"
    /\ disk' = WithSource(reqs[r].copy, reqs[r].value)
    /\ lost' = IF disk = reqs[r].copy THEN lost ELSE TRUE
    /\ Reply(r)
    /\ UNCHANGED <<storeVars, jobfile, index, input, lock, workerVars, boundVars, deleted, acked>>

(* Mutant: the lock is not released when the save raises. *)
RequestSaveFailsLocked(r) ==
    /\ reqs[r].pc \in {"notes", "capture", "source"}
    /\ Fault
    /\ Reply(r)
    /\ UNCHANGED <<storeVars, fileVars, lock, workerVars, restarts, historyVars>>

(* A save of a handler that raises: the lock is released, nothing changes. *)
RequestSaveFails(r) ==
    /\ reqs[r].pc \in {"notes", "capture", "source"}
    /\ Fault
    /\ lock' = IF lock = r THEN Free ELSE lock
    /\ Reply(r)
    /\ UNCHANGED <<storeVars, fileVars, workerVars, restarts, historyVars>>

RequestArrives(r) ==
    DeleteJob(r) \/ DeleteAnalysis(r) \/ Annotate(r) \/ AttachSource(r)

RequestStep(r) ==
    \/ DeleteJobAct(r)
    \/ DeleteAnalysisGuard(r) \/ UnlinkReport(r) \/ UnlinkIndex(r)
    \/ AnnotateRead(r) \/ AnnotateSave(r)
    \/ AttachSourceGuard(r) \/ AttachSourceSave(r)
    \/ RequestSaveFails(r)

-----------------------------------------------------------------------------
(* The garbage collector and the process.                                  *)

(* JobStore.gc runs on the event loop, which finish() does not yield, so a *)
(* job it drops has left its task; the age it asks for may have passed.    *)
CollectJob ==
    /\ status \in Terminal
    /\ pc = "ended"
    /\ RemoveJob
    /\ UNCHANGED <<jobfile, disk, index, lock, workerVars, reqs, boundVars, historyVars>>

(* The backend dies and starts again: memory is gone, files are as they    *)
(* were, and a scan is never resumed.                                      *)
Restart ==
    /\ restarts < MaxRestarts
    /\ restarts' = restarts + 1
    /\ status' = "none" /\ result' = NoReport
    /\ callback' = FALSE /\ cancelled' = FALSE
    /\ lock' = Free
    /\ pc' = "dead"
    /\ ForgetLocals
    /\ reqs' = [r \in Requests |-> Idle]
    /\ UNCHANGED <<fileVars, faults, historyVars>>

Next ==
    \/ StartJob \/ UploadFails
    \/ WorkerStep
    \/ Cancel
    \/ \E r \in Requests : RequestArrives(r) \/ RequestStep(r)
    \/ CollectJob
    \/ Restart

Spec == Init /\ [][Next]_vars

(* A thread that can take a step takes it, and one that waits for the lock *)
(* is not passed over for ever.  Users need not send any request.          *)
Fairness ==
    /\ WF_vars(WorkerStep)
    /\ SF_vars(PublishLock)
    /\ \A r \in Requests : WF_vars(RequestStep(r)) /\ SF_vars(AnnotateRead(r))

FairSpec == Spec /\ Fairness

-----------------------------------------------------------------------------
(* Properties.                                                             *)

(* Type invariant: every variable keeps the values its code gives it. *)
TypeOK ==
    /\ status \in Status /\ result \in Report
    /\ callback \in BOOLEAN /\ cancelled \in BOOLEAN
    /\ jobfile \in JobFile
    /\ disk \in Report
    /\ index \in {"none", "partial", "complete"}
    /\ input \in {"none", "upload", "server", "removed"}
    /\ lock \in Requests \cup {Worker, Free}
    /\ pc \in WorkerPc
    /\ step \in Nat /\ final \in Status \ {"none"} /\ indexed \in BOOLEAN
    /\ draft \in Report /\ base \in Report
    /\ reqs \in [Requests -> RequestState]
    /\ faults \in 0..MaxFaults
    /\ restarts \in 0..MaxRestarts
    /\ lost \in BOOLEAN /\ deleted \in BOOLEAN
    /\ acked \in [notes : Annotation, capture : Annotation]

(* While the job runs, no checkpoint and no handler overwrites a report it *)
(* has not read, and the report cannot be deleted: the lock orders         *)
(* publish() with the annotations, and the guards of attach_source and     *)
(* delete_analysis keep the unlocked writers out, whatever they read       *)
(* before and however long they take.                                      *)
NoLostUpdateWhileRunning == status = "running" => ~lost /\ ~deleted

(* Notes and capture data whose request succeeded are in the saved report, *)
(* through every later checkpoint, failure, cancellation and restart,      *)
(* until an unlocked save loses them or the report is deleted.             *)
AnnotationsKept ==
    ~lost /\ ~deleted =>
        disk.notes = acked.notes /\ disk.capture = acked.capture

(* A revision a client can be told of, by the store or after a restart by  *)
(* the .job file, is a revision it can fetch: publish() saves the report   *)
(* before it advertises it.                                                *)
AdvertisedRevisionSaved ==
    ~lost /\ ~deleted => result.rev <= disk.rev /\ jobfile.rev <= disk.rev

(* A saved report names an object index only while the complete index is   *)
(* there to be browsed: a partial one, or one removed by finish(), is      *)
(* never offered.                                                          *)
NamedIndexComplete == ~deleted /\ disk.index => index = "complete"

(* When the task is over, the only index left is one the report names:     *)
(* finish() removes the catalog of a cancelled or failed build.            *)
NoOrphanIndex ==
    pc = "ended" /\ ~lost /\ ~deleted /\ index # "none" => disk.index

(* A report whose job is over has no stage left pending. *)
TerminalReportClosed ==
    ~lost /\ ~deleted /\ Saved(disk)
          /\ (status \in Terminal \/ jobfile.status \in Terminal)
        => disk.closed

(* A task that is over, and whose writes all succeeded, leaves a .job file *)
(* that says what the store says, so the collector may forget the job.     *)
MetadataSettled ==
    pc = "ended" /\ faults = 0 /\ status \in Terminal
          /\ jobfile.status # "none"
        => jobfile = [status |-> status, rev |-> result.rev]

(* The dump is there while it is scanned, and an upload is gone when the   *)
(* task is over, whichever of its two owners deleted it.                   *)
InputHandled ==
    /\ pc \in {"scan", "index"} => input \in {"upload", "server"}
    /\ pc = "ended" => input # "upload"

(* When the task is over, its files agree: no index but the one the report *)
(* names, no upload, and a .job file that says what the store says.        *)
FilesSettle == NoOrphanIndex /\ InputHandled /\ MetadataSettled

(* "A removed job cannot resurrect itself or recreate deleted reports":    *)
(* unless a write has failed, the worker saves nothing once the report has *)
(* been deleted.                                                           *)
WorkerNeverRecreates ==
    [][deleted /\ faults' = 0 /\ pc' # pc => disk' = disk]_vars

(* The report only gains: an older revision, one with pending stages or    *)
(* one without the index never replaces a newer one, unless an unlocked    *)
(* save has lost an update.                                                *)
ReportNeverRegresses ==
    [][~lost' /\ ~deleted' =>
          /\ disk.rev <= disk'.rev
          /\ disk.closed => disk'.closed
          /\ disk.index => disk'.index]_vars

(* Unless a write has failed, a status a client has seen as final stays.   *)
TerminalStatusStable ==
    [][faults' = 0 /\ status \in Terminal
          => status' \in {status, "none"}]_vars

(* A cancellation accepted before the task's last check of it is honoured: *)
(* the job does not end "done".                                            *)
CancelHonoured ==
    [](cancelled /\ pc \in {"scan", "index", "check"} => [](status # "done"))

(* What a client was told of the end of a job stands: the final status and *)
(* the cancellation that was accepted.                                     *)
OutcomeStands == TerminalStatusStable /\ CancelHonoured

(* A job whose task is at work ends if no further write fails: the scan    *)
(* reaches its finish, and an exception is repaired by the finish of its   *)
(* handler.  A write that fails in that finish is not: the task exits and  *)
(* the job stays "running".                                                *)
JobEnds ==
    \A n \in 0..MaxFaults :
        pc \in Active /\ faults = n ~> status # "running" \/ faults > n

(* Every handler answers, those that wait for the lock included: whoever   *)
(* holds it gives it back, also when the save fails.                       *)
RequestsAnswered == \A r \in Requests : reqs[r].pc # "idle" ~> reqs[r].pc = "idle"

-----------------------------------------------------------------------------
(* What the documentation says and the code does not do.                   *)

(* README: notes are saved with the analysis and kept as findings arrive.  *)
(* attach_source saves the report it read before it looked up the source.  *)
AcknowledgedAnnotationsKept ==
    ~deleted => disk.notes = acked.notes /\ disk.capture = acked.capture

(* README: DELETE removes the saved report. A notes or capture request     *)
(* that read the report before saves it again after.                       *)
DeletedReportStaysDeleted == deleted => ~Saved(disk)
=============================================================================
