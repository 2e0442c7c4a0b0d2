---------------------------- MODULE ServerLogJob ----------------------------
(***************************************************************************)
(* The server logs of server_logs.py: uploads that arrive in chunks, jobs  *)
(* that queue for the one index built at a time, the thread that builds    *)
(* it, the report that publishes it, the handlers that browse and delete   *)
(* what was published, and the startup that discards what a crash left.    *)
(*                                                                         *)
(* Coroutines share the event loop: between two awaits a task of the loop  *)
(* is not interleaved with another, but threads (the one that builds the   *)
(* index, and every handler declared with `def`) run at any time.          *)
(***************************************************************************)
EXTENDS Naturals

CONSTANTS
    Jobs,        \* logs that are uploaded, each with its analysis
    Handlers,    \* handlers of the thread pool that can be in flight
    NoJob,       \* the semaphore when it is free; what an idle handler is at
    MaxFaults,   \* bound: failed saves of a report
    MaxCrashes   \* bound: crashes of the backend

ASSUME NoJobAssumption == NoJob \notin Jobs

ASSUME LimitsAssumption == MaxFaults \in Nat /\ MaxCrashes \in Nat

VARIABLES
    status,      \* the JobStore's status of a job, "none" without an entry
    callback,    \* a cancel callback is registered
    cancelled,   \* the threading.Event the callback sets
    upload,      \* the file log_<id>.upload is there
    index,       \* the event index <id>.log.sqlite
    report,      \* the saved report <id>.json is there
    pc,          \* where upload_log, then _run_log stands
    saved,       \* _run_log's local: the report has been saved
    semaphore,   \* holder of _worker_lock
    handlers,    \* what each handler in flight is about to do, and to which log
    backend,     \* the process: down, starting or up
    faults,      \* saves that have failed
    crashes,     \* crashes of the backend
    removed      \* history: the user has deleted the saved analysis

jobVars  == <<status, callback, cancelled>>
fileVars == <<upload, index, report>>
taskVars == <<pc, saved, semaphore>>
vars == <<jobVars, fileVars, taskVars, handlers, backend, faults, crashes, removed>>

Terminal == {"done", "error"}

Status == {"none", "queued", "running"} \cup Terminal

(* Where a task waits for something: the client, the semaphore, the thread. *)
Waiting == {"receive", "queue", "open", "scan", "returned", "raised"}

(* Where a task has the event loop. *)
OnLoop == {"check", "save", "done", "failed", "unlinkUpload", "unlinkIndex", "clear"}

TaskPc == {"new", "ended", "dead"} \cup Waiting \cup OnLoop

HandlerPc == {"idle", "unlinkReport", "unlinkIndex", "open"}

HandlerState == [pc : HandlerPc, job : Jobs \cup {NoJob}]

IdleHandler == [pc |-> "idle", job |-> NoJob]

Init ==
    /\ status = [j \in Jobs |-> "none"]
    /\ callback = [j \in Jobs |-> FALSE]
    /\ cancelled = [j \in Jobs |-> FALSE]
    /\ upload = [j \in Jobs |-> FALSE]
    /\ index = [j \in Jobs |-> "none"]
    /\ report = [j \in Jobs |-> FALSE]
    /\ pc = [j \in Jobs |-> "new"]
    /\ saved = [j \in Jobs |-> FALSE]
    /\ semaphore = NoJob
    /\ handlers = [h \in Handlers |-> IdleHandler]
    /\ backend = "up"
    /\ faults = 0 /\ crashes = 0
    /\ removed = [j \in Jobs |-> FALSE]

-----------------------------------------------------------------------------
(* The job store.                                                          *)

(* JobStore.mark_running, mark_done and mark_error: only if there is a job. *)
Mark(j, s) ==
    status' = [status EXCEPT ![j] = IF status[j] = "none" THEN "none" ELSE s]

(* JobStore.remove; a log's job has no tempfile, its task owns the upload. *)
RemoveJob(j) ==
    /\ status' = [status EXCEPT ![j] = "none"]
    /\ callback' = [callback EXCEPT ![j] = FALSE]
    /\ cancelled' = [cancelled EXCEPT ![j] = cancelled[j] \/ callback[j]]

Goto(j, p) == pc' = [pc EXCEPT ![j] = p]

(* No other task is between two awaits. *)
LoopFree == \A k \in Jobs : pc[k] \notin OnLoop

Fault == faults < MaxFaults /\ faults' = faults + 1

-----------------------------------------------------------------------------
(* upload_log.                                                             *)

StartUpload(j) ==
    /\ pc[j] = "new"
    /\ LoopFree
    /\ Goto(j, "receive")
    /\ upload' = [upload EXCEPT ![j] = TRUE]
    /\ UNCHANGED <<jobVars, index, report, saved, semaphore, handlers, faults, crashes, removed>>

(* The client goes away, the body is empty, too long or not of the length  *)
(* it was announced with, or the disk is full.                             *)
UploadBreaks(j) ==
    /\ pc[j] = "receive"
    /\ LoopFree
    /\ Goto(j, "ended")
    /\ upload' = [upload EXCEPT ![j] = FALSE]
    /\ UNCHANGED <<jobVars, index, report, saved, semaphore, handlers, faults, crashes, removed>>

(* The body is complete: create the job, register its callback and its task. *)
UploadEnds(j) ==
    /\ pc[j] = "receive"
    /\ LoopFree
    /\ Goto(j, "queue")
    /\ status' = [status EXCEPT ![j] = "queued"]
    /\ callback' = [callback EXCEPT ![j] = TRUE]
    /\ UNCHANGED <<cancelled, fileVars, saved, semaphore, handlers, faults, crashes, removed>>

-----------------------------------------------------------------------------
(* _run_log.                                                               *)

(* Mutant: the semaphore lets everybody in. *)
AdmitUnbounded(j) ==
    /\ pc[j] = "queue"
    /\ LoopFree
    /\ semaphore' = j
    /\ \/ cancelled[j] /\ Goto(j, "failed") /\ UNCHANGED status
       \/ ~cancelled[j] /\ Mark(j, "running") /\ Goto(j, "open")
    /\ UNCHANGED <<callback, cancelled, fileVars, saved, handlers, faults, crashes, removed>>

(* The task gets the semaphore.  One cancelled in the queue does not start. *)
Admit(j) ==
    /\ pc[j] = "queue"
    /\ LoopFree
    /\ semaphore = NoJob
    /\ semaphore' = j
    /\ \/ cancelled[j] /\ Goto(j, "failed") /\ UNCHANGED status
       \/ ~cancelled[j] /\ Mark(j, "running") /\ Goto(j, "open")
    /\ UNCHANGED <<callback, cancelled, fileVars, saved, handlers, faults, crashes, removed>>

(* The thread changes nothing but the index and its own control state. *)
ThreadUnchanged ==
    UNCHANGED <<jobVars, upload, report, saved, semaphore, handlers, faults, crashes, removed>>

(* The thread looks at the first bytes and connects to a new index. *)
OpenIndex(j) ==
    /\ pc[j] = "open"
    /\ \/ Goto(j, "scan") /\ index' = [index EXCEPT ![j] = "partial"]
       \/ Goto(j, "raised") /\ UNCHANGED index   \* compressed or binary input
    /\ ThreadUnchanged

(* End of file, everything committed, the sample of events read back. *)
ScanEnds(j) ==
    /\ pc[j] = "scan"
    /\ Goto(j, "returned")
    /\ index' = [index EXCEPT ![j] = "complete"]
    /\ ThreadUnchanged

(* The check before a line finds the event set, or sqlite or the disk fail. *)
ScanRaises(j) ==
    /\ pc[j] = "scan"
    /\ Goto(j, "raised")
    /\ UNCHANGED index
    /\ ThreadUnchanged

(* The loop comes back to the task that awaits the thread. *)
Resume(j) ==
    /\ pc[j] \in {"returned", "raised"}
    /\ LoopFree
    /\ Goto(j, IF pc[j] = "returned" THEN "check" ELSE "failed")
    /\ UNCHANGED <<index, jobVars, upload, report, saved, semaphore, handlers,
                   faults, crashes, removed>>

(* Mutant: what the thread returns is saved without another check. *)
CheckCancelSkipped(j) ==
    /\ pc[j] = "check"
    /\ Goto(j, "save")
    /\ UNCHANGED <<jobVars, fileVars, saved, semaphore, handlers, faults, crashes, removed>>

(* The last check before the report is saved. *)
CheckCancel(j) ==
    /\ pc[j] = "check"
    /\ Goto(j, IF cancelled[j] THEN "failed" ELSE "save")
    /\ UNCHANGED <<jobVars, fileVars, saved, semaphore, handlers, faults, crashes, removed>>

(* Mutant: a save that fails is not noticed. *)
SaveReportIgnored(j) ==
    /\ pc[j] = "save"
    /\ saved' = [saved EXCEPT ![j] = TRUE]
    /\ Goto(j, "done")
    /\ \/ report' = [report EXCEPT ![j] = TRUE] /\ UNCHANGED faults
       \/ Fault /\ UNCHANGED report
    /\ UNCHANGED <<jobVars, upload, index, semaphore, handlers, crashes, removed>>

SaveReport(j) ==
    /\ pc[j] = "save"
    /\ \/ /\ report' = [report EXCEPT ![j] = TRUE]
          /\ saved' = [saved EXCEPT ![j] = TRUE]
          /\ Goto(j, "done")
          /\ UNCHANGED faults
       \/ Fault /\ Goto(j, "failed") /\ UNCHANGED <<report, saved>>
    /\ UNCHANGED <<jobVars, upload, index, semaphore, handlers, crashes, removed>>

(* mark_done inside the semaphore, mark_error outside of it; nobody who    *)
(* waits for it can see the difference.                                    *)
MarkDone(j) ==
    /\ pc[j] = "done"
    /\ Mark(j, "done")
    /\ semaphore' = NoJob
    /\ Goto(j, "unlinkUpload")
    /\ UNCHANGED <<callback, cancelled, fileVars, saved, handlers, faults, crashes, removed>>

(* Mutant: a task that fails keeps the semaphore. *)
MarkErrorHolding(j) ==
    /\ pc[j] = "failed"
    /\ Mark(j, "error")
    /\ Goto(j, "unlinkUpload")
    /\ UNCHANGED <<callback, cancelled, fileVars, saved, semaphore, handlers,
                   faults, crashes, removed>>

MarkError(j) ==
    /\ pc[j] = "failed"
    /\ Mark(j, "error")
    /\ semaphore' = NoJob
    /\ Goto(j, "unlinkUpload")
    /\ UNCHANGED <<callback, cancelled, fileVars, saved, handlers, faults, crashes, removed>>

UnlinkUpload(j) ==
    /\ pc[j] = "unlinkUpload"
    /\ upload' = [upload EXCEPT ![j] = FALSE]
    /\ Goto(j, "unlinkIndex")
    /\ UNCHANGED <<jobVars, index, report, saved, semaphore, handlers, faults, crashes, removed>>

(* Mutant: only a partial index is removed, not one nobody published. *)
UnlinkIndexPartial(j) ==
    /\ pc[j] = "unlinkIndex"
    /\ index' = [index EXCEPT ![j] = IF index[j] = "partial" THEN "none" ELSE index[j]]
    /\ Goto(j, "clear")
    /\ UNCHANGED <<jobVars, upload, report, saved, semaphore, handlers, faults, crashes, removed>>

UnlinkIndex(j) ==
    /\ pc[j] = "unlinkIndex"
    /\ index' = [index EXCEPT ![j] = IF saved[j] THEN index[j] ELSE "none"]
    /\ Goto(j, "clear")
    /\ UNCHANGED <<jobVars, upload, report, saved, semaphore, handlers, faults, crashes, removed>>

ClearCancel(j) ==
    /\ pc[j] = "clear"
    /\ callback' = [callback EXCEPT ![j] = FALSE]
    /\ Goto(j, "ended")
    /\ UNCHANGED <<status, cancelled, fileVars, saved, semaphore, handlers, faults, crashes, removed>>

TaskStep(j) ==
    \/ Admit(j) \/ OpenIndex(j) \/ ScanEnds(j) \/ ScanRaises(j) \/ Resume(j)
    \/ CheckCancel(j) \/ SaveReport(j) \/ MarkDone(j) \/ MarkError(j)
    \/ UnlinkUpload(j) \/ UnlinkIndex(j) \/ ClearCancel(j)

-----------------------------------------------------------------------------
(* The handlers.                                                           *)

(* POST /api/jobs/{id}/cancel: JobStore.cancel ignores a queued job. *)
Cancel(j) ==
    /\ status[j] = "running" /\ callback[j]
    /\ cancelled' = [cancelled EXCEPT ![j] = TRUE]
    /\ UNCHANGED <<status, callback, fileVars, taskVars, handlers, faults, crashes, removed>>

(* DELETE /api/jobs/{id}: a log's job has no .job file, so it is removed   *)
(* in whatever state it is, which cancels its task.                        *)
DeleteJob(j) ==
    /\ status[j] # "none"
    /\ RemoveJob(j)
    /\ UNCHANGED <<fileVars, taskVars, handlers, faults, crashes, removed>>

(* JobStore.gc runs on the event loop. *)
CollectJob(j) ==
    /\ status[j] \in Terminal
    /\ LoopFree
    /\ RemoveJob(j)
    /\ UNCHANGED <<fileVars, taskVars, handlers, faults, crashes, removed>>

Handle(h, p, j) == handlers' = [handlers EXCEPT ![h] = [pc |-> p, job |-> j]]

Answer(h) == handlers' = [handlers EXCEPT ![h] = IdleHandler]

(* DELETE /api/analyses/{id} finds the report, unlinks it, then the index. *)
DeleteAnalysis(h, j) ==
    /\ handlers[h].pc = "idle"
    /\ report[j]
    /\ Handle(h, "unlinkReport", j)
    /\ UNCHANGED <<jobVars, fileVars, taskVars, faults, crashes, removed>>

DeleteReport(h) ==
    /\ handlers[h].pc = "unlinkReport"
    /\ LET j == handlers[h].job IN
       \/ /\ report[j]
          /\ report' = [report EXCEPT ![j] = FALSE]
          /\ removed' = [removed EXCEPT ![j] = TRUE]
          /\ Handle(h, "unlinkIndex", j)
       \/ ~report[j] /\ Answer(h) /\ UNCHANGED <<report, removed>>
    /\ UNCHANGED <<jobVars, upload, index, taskVars, faults, crashes>>

DeleteIndex(h) ==
    /\ handlers[h].pc = "unlinkIndex"
    /\ index' = [index EXCEPT ![handlers[h].job] = "none"]
    /\ Answer(h)
    /\ UNCHANGED <<jobVars, upload, report, taskVars, faults, crashes, removed>>

(* The events and incident handlers look for the report and its index ...  *)
Browse(h, j) ==
    /\ handlers[h].pc = "idle"
    /\ report[j] /\ index[j] # "none"
    /\ Handle(h, "open", j)
    /\ UNCHANGED <<jobVars, fileVars, taskVars, faults, crashes, removed>>

(* ... and connect to it, which creates an empty file if there is none.    *)
ConnectIndex(h) ==
    /\ handlers[h].pc = "open"
    /\ LET j == handlers[h].job IN
       index' = [index EXCEPT ![j] = IF index[j] = "none" THEN "empty" ELSE index[j]]
    /\ Answer(h)
    /\ UNCHANGED <<jobVars, upload, report, taskVars, faults, crashes, removed>>

HandlerStep(h) == DeleteReport(h) \/ DeleteIndex(h) \/ ConnectIndex(h)

-----------------------------------------------------------------------------
(* The process.                                                            *)

(* Memory is gone; files are as they were. *)
Crash ==
    /\ crashes < MaxCrashes
    /\ crashes' = crashes + 1
    /\ backend' = "starting"
    /\ status' = [j \in Jobs |-> "none"]
    /\ callback' = [j \in Jobs |-> FALSE]
    /\ cancelled' = [j \in Jobs |-> FALSE]
    /\ pc' = [j \in Jobs |-> IF pc[j] = "new" THEN "new" ELSE "dead"]
    /\ saved' = [j \in Jobs |-> FALSE]
    /\ semaphore' = NoJob
    /\ handlers' = [h \in Handlers |-> IdleHandler]
    /\ UNCHANGED <<fileVars, faults, removed>>

(* Mutant: every index found at a startup is discarded. *)
UnpublishedAny(j) == index[j] # "none"

Unpublished(j) == index[j] # "none" /\ ~report[j]

(* discard_interrupted_log_jobs, file by file, before any request is served. *)
DiscardUpload(j) ==
    /\ backend = "starting"
    /\ upload[j]
    /\ upload' = [upload EXCEPT ![j] = FALSE]
    /\ UNCHANGED <<jobVars, index, report, taskVars, handlers, backend, faults, crashes, removed>>

DiscardIndex(j) ==
    /\ backend = "starting"
    /\ \A k \in Jobs : ~upload[k]
    /\ Unpublished(j)
    /\ index' = [index EXCEPT ![j] = "none"]
    /\ UNCHANGED <<jobVars, upload, report, taskVars, handlers, backend, faults, crashes, removed>>

Serve ==
    /\ backend = "starting"
    /\ \A k \in Jobs : ~upload[k] /\ ~Unpublished(k)
    /\ backend' = "up"
    /\ UNCHANGED <<jobVars, fileVars, taskVars, handlers, faults, crashes, removed>>

Startup == Serve \/ \E j \in Jobs : DiscardUpload(j) \/ DiscardIndex(j)

Request ==
    \/ \E j \in Jobs :
          \/ StartUpload(j) \/ UploadBreaks(j) \/ UploadEnds(j)
          \/ Cancel(j) \/ DeleteJob(j) \/ CollectJob(j)
    \/ \E h \in Handlers, j \in Jobs : DeleteAnalysis(h, j) \/ Browse(h, j)

(* What happens while the backend is up. *)
Running ==
    /\ backend = "up"
    /\ \/ Request
       \/ \E j \in Jobs : TaskStep(j)
       \/ \E h \in Handlers : HandlerStep(h)
    /\ UNCHANGED backend

Next == Running \/ Crash \/ Startup

Spec == Init /\ [][Next]_vars

(* Tasks and their threads proceed.  Users need not do anything. *)
Fairness ==
    \A j \in Jobs : WF_vars(backend = "up" /\ TaskStep(j) /\ UNCHANGED backend)

FairSpec == Spec /\ Fairness

-----------------------------------------------------------------------------
(* Properties.                                                             *)

(* Type invariant: every variable keeps the values its code gives it. *)
TypeOK ==
    /\ status \in [Jobs -> Status]
    /\ callback \in [Jobs -> BOOLEAN] /\ cancelled \in [Jobs -> BOOLEAN]
    /\ upload \in [Jobs -> BOOLEAN] /\ report \in [Jobs -> BOOLEAN]
    /\ index \in [Jobs -> {"none", "empty", "partial", "complete"}]
    /\ pc \in [Jobs -> TaskPc]
    /\ saved \in [Jobs -> BOOLEAN]
    /\ semaphore \in Jobs \cup {NoJob}
    /\ handlers \in [Handlers -> HandlerState]
    /\ backend \in {"starting", "up"}
    /\ faults \in 0..MaxFaults /\ crashes \in 0..MaxCrashes
    /\ removed \in [Jobs -> BOOLEAN]

(* A saved analysis has its complete event index, whatever failed, crashed *)
(* or was discarded at a startup: the index is committed before the report *)
(* and goes after it.                                                      *)
ReportIndexed == \A j \in Jobs : report[j] => index[j] = "complete"

(* When a task is over, by its end or by a crash that the startup has      *)
(* cleaned up after, its upload is gone and an index is left only for a    *)
(* report; once the user has deleted that, browsing may leave an empty one. *)
NothingLeftBehind ==
    \A j \in Jobs :
        backend = "up" /\ pc[j] \in {"ended", "dead"} =>
            /\ ~upload[j]
            /\ index[j] # "none" => report[j] \/ removed[j]

(* "One server-log index runs at a time", also while one is cancelled,     *)
(* fails or leaves its thread.                                             *)
OneIndexAtATime ==
    \A j, k \in Jobs :
        pc[j] \in {"open", "scan", "returned", "raised"}
            /\ pc[k] \in {"open", "scan", "returned", "raised"} => j = k

(* What a client is told when the task is over is what it can find: a job  *)
(* is done if and only if its analysis was saved.                          *)
OutcomeTold ==
    \A j \in Jobs :
        pc[j] = "ended" /\ status[j] # "none" =>
            status[j] \in Terminal /\ (status[j] = "done" <=> report[j] \/ removed[j])

(* What a client is told can be found: a log that is done has its analysis *)
(* and a saved analysis has its index.                                     *)
DoneMeansFound == ReportIndexed /\ OutcomeTold

(* A log cancelled or removed before its task's last check is never        *)
(* published, not even by a thread that had already finished its index.    *)
CancelledNeverPublished ==
    \A j \in Jobs :
        [](cancelled[j] /\ pc[j] \in Waiting \cup {"check"} => []~report[j])

(* Every log that has been received is analysed, fails or is cancelled,    *)
(* unless the backend crashes: a job that fails or is cancelled lets the   *)
(* next one in.                                                            *)
LogSettles == \A j \in Jobs : pc[j] = "queue" ~> pc[j] \in {"ended", "dead"}
-----------------------------------------------------------------------------
(* The inductive invariant.                                                *)

(* A task is on the loop alone, and holds the semaphore from its admission *)
(* until its outcome is told.                                              *)
Admitted == {"open", "scan", "returned", "raised", "check", "save", "done", "failed"}

LoopInv ==
    /\ \A j, k \in Jobs : pc[j] \in OnLoop /\ pc[k] \in OnLoop => j = k
    /\ \A j \in Jobs : semaphore = j <=> pc[j] \in Admitted
    /\ backend = "starting" =>
          /\ \A j \in Jobs : pc[j] \in {"new", "dead"}
          /\ \A h \in Handlers : handlers[h] = IdleHandler

(* Who has reached the end, and how.                                       *)
Ending == {"unlinkUpload", "unlinkIndex", "clear", "ended"}

SavedInv ==
    \A j \in Jobs :
        /\ saved[j] => pc[j] \in Ending \cup {"done"}
        /\ pc[j] = "done" => saved[j]
        /\ saved[j] => report[j] \/ removed[j]
        /\ report[j] \/ removed[j] => saved[j] \/ pc[j] = "dead"
        /\ ~(report[j] /\ removed[j])

StatusInv ==
    \A j \in Jobs :
        /\ pc[j] \in {"new", "receive", "dead"} => status[j] = "none"
        /\ pc[j] \in Ending =>
              status[j] = "none" \/ status[j] = (IF saved[j] THEN "done" ELSE "error")

FilesInv ==
    \A j \in Jobs :
        /\ pc[j] \in {"new", "receive", "queue", "open"} => index[j] = "none"
        /\ pc[j] \in {"returned", "check", "save"} => index[j] = "complete"
        /\ report[j] => index[j] = "complete"
        /\ pc[j] \in {"new", "unlinkIndex", "clear", "ended"} => ~upload[j]
        /\ pc[j] \in {"clear", "ended"} /\ ~saved[j] => index[j] = "none"
        /\ backend = "up" /\ pc[j] = "dead" =>
              ~upload[j] /\ (index[j] # "none" => report[j] \/ removed[j])

(* A handler works on an analysis that is or was published. *)
HandlersInv ==
    \A h \in Handlers :
        handlers[h].pc # "idle" =>
            LET j == handlers[h].job IN
            /\ j \in Jobs
            /\ report[j] \/ removed[j]
            /\ handlers[h].pc = "unlinkIndex" => removed[j]

IInv == TypeOK /\ LoopInv /\ SavedInv /\ StatusInv /\ FilesInv /\ HandlersInv

(* What a log cancelled before its task's last check can still be. *)
Doomed(j) ==
    /\ ~report[j] /\ ~saved[j]
    /\ \/ cancelled[j] /\ pc[j] \in Waiting \cup {"check"}
       \/ pc[j] \in {"failed", "dead"} \cup Ending
=============================================================================
