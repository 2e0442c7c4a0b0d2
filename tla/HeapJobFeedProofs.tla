-------------------------- MODULE HeapJobFeedProofs --------------------------
(***************************************************************************)
(* HeapJob implements HeapFeed, for any handlers, values, checkpoints,     *)
(* faults and restarts: every step of the job, of its handlers and of a    *)
(* restart is a step of the feed or changes nothing a client is told.      *)
(* The lemmas go by what a step does to the store and the files; FeedStep  *)
(* has one step per action.                                                *)
(***************************************************************************)
EXTENDS HeapJobFeed, HeapJobProofs

(* What a client may see: everything the feed is made of. *)
seen == <<status, result, jobfile, disk, lost, deleted>>

FeedStepped == [Feed!FeedNext]_(Feed!feedVars)

(* What get_job answers, case by case. *)
LEMMA ToldOf ==
    /\ status # "none" => BackgroundStatus = status /\ ToldRevision = result.rev
    /\ status = "none" => ToldRevision = jobfile.rev
    /\ status = "none" /\ jobfile.status = "running" => BackgroundStatus = "interrupted"
    /\ status = "none" /\ jobfile.status # "running" => BackgroundStatus = jobfile.status
  BY DEF BackgroundStatus, ToldRevision

(* And after a step. *)
LEMMA ToldThen ==
    /\ status' # "none" => BackgroundStatus' = status' /\ ToldRevision' = result'.rev
    /\ status' = "none" => ToldRevision' = jobfile'.rev
    /\ status' = "none" /\ jobfile'.status = "running" => BackgroundStatus' = "interrupted"
    /\ status' = "none" /\ jobfile'.status # "running" => BackgroundStatus' = jobfile'.status
  BY DEF BackgroundStatus, ToldRevision

(* The stages of the report a client is given. *)
LEMMA ClosedThen ==
    /\ BackgroundStatus = "interrupted" => Closed(disk) = TRUE
    /\ BackgroundStatus # "interrupted" => Closed(disk) = disk.closed
    /\ BackgroundStatus' = "interrupted" => Closed(disk)' = TRUE
    /\ BackgroundStatus' # "interrupted" => Closed(disk)' = disk'.closed
  BY DEF Closed

(* What the clients are told has its types, before a step and after. *)
LEMMA SeenTypes ==
    ASSUME TypeOK, TypeOK'
    PROVE  /\ status \in Status /\ jobfile.status \in Status
           /\ ToldRevision \in Nat /\ ToldRevision' \in Nat
           /\ disk.rev \in Nat /\ disk'.rev \in Nat
           /\ disk.closed \in BOOLEAN /\ disk'.closed \in BOOLEAN
           /\ Closed(disk) \in BOOLEAN /\ Closed(disk)' \in BOOLEAN
           /\ lost \in BOOLEAN /\ deleted \in BOOLEAN
           /\ faults \in Nat /\ faults' \in Nat
<1>1. /\ status \in Status /\ jobfile.status \in Status
      /\ disk.rev \in Nat /\ disk'.rev \in Nat
      /\ disk.closed \in BOOLEAN /\ disk'.closed \in BOOLEAN
      /\ lost \in BOOLEAN /\ deleted \in BOOLEAN
      /\ faults \in Nat /\ faults' \in Nat
  BY BoundsAssumption DEF TypeOK, Report, JobFile
<1>2. ToldRevision \in Nat /\ ToldRevision' \in Nat
  BY DEF TypeOK, Report, JobFile, ToldRevision
<1>. QED
  BY <1>1, <1>2 DEF Closed

(* A step that changes nothing a client may see is a stutter. *)
LEMMA Unseen ==
    ASSUME UNCHANGED seen, UNCHANGED faults PROVE FeedStepped
<1>1. UNCHANGED <<BackgroundStatus, ToldRevision>>
  BY DEF seen, BackgroundStatus, ToldRevision
<1>2. UNCHANGED Closed(disk)
  BY <1>1 DEF seen, Closed
<1>. QED
  BY <1>1, <1>2 DEF seen, FeedStepped, Feed!feedVars

(* A failed write is all that a client could learn of one. *)
LEMMA UnseenFault ==
    ASSUME TypeOK, UNCHANGED seen, Fault PROVE FeedStepped
<1>1. UNCHANGED <<BackgroundStatus, ToldRevision>>
  BY DEF seen, BackgroundStatus, ToldRevision
<1>2. UNCHANGED Closed(disk)
  BY <1>1 DEF seen, Closed
<1>3. (faults' > 0) = TRUE
  BY BoundsAssumption DEF Fault, TypeOK
<1>4. Feed!FailWrite
  BY <1>1, <1>2, <1>3 DEF seen, Feed!FailWrite
<1>. QED
  BY <1>4 DEF FeedStepped, Feed!FeedNext

(* The .job file is not asked while the store has the job. *)
LEMMA UnseenFile ==
    ASSUME status # "none", UNCHANGED <<status, result, disk, lost, deleted, faults>>
    PROVE  FeedStepped
<1>1. UNCHANGED <<BackgroundStatus, ToldRevision>>
  BY ToldOf, ToldThen
<1>2. UNCHANGED Closed(disk)
  BY <1>1 DEF Closed
<1>. QED
  BY <1>1, <1>2 DEF FeedStepped, Feed!feedVars

(* A writer that did not read what it replaces, and one that deletes, act  *)
(* when the job is not running.                                            *)
LEMMA Withdrawn ==
    ASSUME TypeOK, TypeOK', UNCHANGED <<status, result, jobfile, faults>>,
           status # "running", lost' \/ deleted'
    PROVE  FeedStepped
<1>1. UNCHANGED BackgroundStatus
  BY DEF BackgroundStatus
<1>2. BackgroundStatus # "running"
  BY ToldOf, SeenTypes DEF Status, Terminal
<1>3. (lost' \/ deleted') = TRUE
  OBVIOUS
<1>4. Feed!Withdraw
  BY <1>1, <1>2, <1>3, SeenTypes DEF Feed!Withdraw
<1>. QED
  BY <1>4 DEF FeedStepped, Feed!FeedNext

(* A job the store forgets is told of by its file: as interrupted, as      *)
(* ended, or not at all.                                                   *)
LEMMA FeedForgotten ==
    ASSUME IInv, IInv', UNCHANGED <<jobfile, disk, lost, deleted, faults>>,
           status' = "none"
    PROVE  FeedStepped
<1>0. TypeOK /\ TypeOK' /\ StatusInv /\ FileInv /\ BeforeInv
  BY DEF IInv
<1>1. CASE status = "none"
  <2>1. UNCHANGED <<BackgroundStatus, ToldRevision>>
    BY <1>1 DEF BackgroundStatus, ToldRevision
  <2>2. UNCHANGED Closed(disk)
    BY <2>1 DEF Closed
  <2>. QED
    BY <2>1, <2>2 DEF FeedStepped, Feed!feedVars
<1>. SUFFICES ASSUME status # "none" PROVE FeedStepped
  BY <1>1
<1>2. /\ BackgroundStatus = status /\ ToldRevision = result.rev
      /\ ToldRevision' = jobfile.rev
      /\ status \in {"running", "done", "cancelled", "error"}
  BY <1>0, ToldOf, ToldThen, SeenTypes DEF Status, Terminal
<1>3. /\ ToldRevision' \in Nat /\ ToldRevision' <= ToldRevision
      /\ faults = 0 /\ ~(lost \/ deleted) => disk.rev <= ToldRevision' + 1
  BY <1>0, <1>2, SeenTypes DEF FileInv
<1>4. Feed!Lag
  BY <1>0, <1>3, SeenTypes DEF Feed!Lag
<1>5. CASE jobfile.status = "running"
  <2>1. BackgroundStatus' = "interrupted" /\ Closed(disk)' = TRUE
    BY <1>5, ToldThen, ClosedThen
  <2>2. Feed!Interrupt
    BY <1>2, <1>4, <2>1 DEF Feed!Interrupt
  <2>. QED
    BY <2>2 DEF FeedStepped, Feed!FeedNext
<1>6. CASE jobfile.status = "none"
  <2>1. disk.rev = 0 /\ ~lost /\ ~deleted
    BY <1>0, <1>6, SeenTypes DEF FileInv, Saved
  <2>2. status = "running" => faults > 0
    BY <1>0, <1>6 DEF StatusInv, FileInv
  <2>3. BackgroundStatus' = "none" /\ UNCHANGED Closed(disk)
    BY <1>2, <1>6, ToldThen, ClosedThen
  <2>4. Feed!Forget
    BY <1>2, <1>4, <2>1, <2>2, <2>3 DEF Feed!Forget
  <2>. QED
    BY <2>4 DEF FeedStepped, Feed!FeedNext
<1>7. CASE jobfile.status \in Terminal
  <2>1. status \in Terminal
    BY <1>0, <1>2, <1>7 DEF FileInv, Terminal
  <2>2. BackgroundStatus' = jobfile.status /\ UNCHANGED Closed(disk)
    BY <1>2, <1>7, <2>1, ToldThen, ClosedThen DEF Terminal
  <2>3. CASE faults > 0
    <3>1. Feed!Correct
      BY <1>2, <1>4, <1>7, <2>1, <2>2, <2>3 DEF Feed!Correct, Feed!Ended, Terminal
    <3>. QED
      BY <3>1 DEF FeedStepped, Feed!FeedNext
  <2>4. CASE faults = 0
    <3>1. pc \in {"exit", "ended"}
      <4>1. pc \in WorkerPc
        BY <1>0 DEF TypeOK
      <4>2. pc \notin Active \cup {"persist"}
        BY <1>0, <1>7, <2>4 DEF FileInv, Terminal
      <4>3. pc \notin {"idle", "stillborn", "dead"}
        BY <1>0, <2>4 DEF FileInv, BeforeInv
      <4>. QED
        BY <4>1, <4>2, <4>3 DEF WorkerPc
    <3>2. jobfile = [status |-> status, rev |-> result.rev]
      BY <1>0, <1>7, <2>4, <3>1 DEF StatusInv, Terminal
    <3>3. UNCHANGED <<BackgroundStatus, ToldRevision>>
      BY <1>2, <2>2, <3>2
    <3>. QED
      BY <2>2, <3>3 DEF FeedStepped, Feed!feedVars
  <2>. QED
    BY <1>0, <2>3, <2>4, SeenTypes
<1>. QED
  BY <1>0, <1>5, <1>6, <1>7, SeenTypes DEF Status

(* A job starts, or its upload is refused. *)
LEMMA FeedStart ==
    ASSUME IInv, IInv', StartJob \/ UploadFails PROVE FeedStepped
<1>0. TypeOK /\ TypeOK' /\ BeforeInv
  BY DEF IInv
<1>1. /\ pc = "idle" /\ status' \in {"running", "error"}
      /\ UNCHANGED <<result, disk, lost, deleted>>
  BY DEF StartJob, UploadFails, fileVars, historyVars
<1>2. /\ status = "none" /\ result.rev = 0
      /\ jobfile.status = "none" /\ jobfile.rev = 0
      /\ disk.rev = 0 /\ disk.closed = FALSE
  BY <1>0, <1>1 DEF BeforeInv, NoReport
<1>3. /\ BackgroundStatus = "none" /\ ToldRevision = 0
      /\ BackgroundStatus' = status' /\ ToldRevision' = 0
  BY <1>1, <1>2, ToldOf, ToldThen
<1>4. UNCHANGED Closed(disk)
  BY <1>1, <1>2, <1>3, ClosedThen
<1>5. (faults > 0)' \in {faults > 0, TRUE}
  <2>1. faults' = faults \/ faults' > 0
    BY <1>0, BoundsAssumption DEF StartJob, UploadFails, Fault, boundVars, TypeOK
  <2>. QED
    BY <2>1
<1>6. Feed!Submit
  BY <1>1, <1>2, <1>3, <1>4, <1>5 DEF Feed!Submit
<1>. QED
  BY <1>6 DEF FeedStepped, Feed!FeedNext

(* The worker is at work on a job that is running, or a write has failed. *)
LEMMA AtWork ==
    ASSUME IInv, pc \in Active \ {"finish"}
    PROVE  /\ BackgroundStatus # "none"
           /\ status = "running" \/ faults > 0
           /\ status = "running" => BackgroundStatus = "running"
           /\ status \notin {"none", "running"} =>
                 BackgroundStatus \in Feed!Ended /\ faults > 0
<1>1. TypeOK /\ StatusInv
  BY DEF IInv
<1>2. faults \in Nat /\ status \in Status
  BY <1>1, BoundsAssumption DEF TypeOK
<1>3. jobfile.status # "none" /\ (faults = 0 => status = "running")
  BY <1>1 DEF StatusInv
<1>. QED
  BY <1>2, <1>3, ToldOf DEF Status, Terminal, Feed!Ended

(* publish() saves its report: one more than is saved, with no stage       *)
(* pending that was not pending before.                                    *)
LEMMA FeedSave ==
    ASSUME IInv, IInv', PublishSave PROVE FeedStepped
<1>0. TypeOK /\ TypeOK' /\ RunningInv /\ RevisionInv /\ ClosedInv
  BY DEF IInv
<1>1. UNCHANGED <<status, result, jobfile, deleted>> /\ pc = "save"
  BY DEF PublishSave, storeVars
<1>2. CASE Fault /\ UNCHANGED <<disk, lost>>
  BY <1>0, <1>1, <1>2, UnseenFault DEF seen
<1>3. CASE disk' = draft /\ lost' = (IF disk = base THEN lost ELSE TRUE) /\ UNCHANGED faults
  <2>1. CASE lost' \/ deleted'
    <3>1. status # "running"
      BY <1>0, <1>1, <1>3, <2>1 DEF RunningInv
    <3>. QED
      BY <1>0, <1>1, <1>3, <2>1, <3>1, Withdrawn
  <2>2. CASE ~(lost' \/ deleted')
    <3>1. ~lost /\ ~deleted
      BY <1>1, <1>3, <2>2
    <3>2. disk'.rev = disk.rev + 1
      BY <1>0, <1>1, <1>3, <3>1 DEF RevisionInv
    <3>3. disk.closed => disk'.closed
      BY <1>0, <1>1, <1>3, <3>1 DEF ClosedInv
    <3>4. UNCHANGED <<BackgroundStatus, ToldRevision>>
      BY <1>1 DEF BackgroundStatus, ToldRevision
    <3>5. Closed(disk)' \in {Closed(disk), TRUE}
      BY <1>0, <3>3, <3>4, ClosedThen, SeenTypes
    <3>6. pc \in Active \ {"finish"}
      BY <1>1 DEF Active, Publishing
    <3>7. Feed!Save
      BY <1>0, <1>1, <1>3, <2>2, <3>1, <3>2, <3>4, <3>5, <3>6, AtWork, SeenTypes
      DEF Feed!Save
    <3>. QED
      BY <3>7 DEF FeedStepped, Feed!FeedNext
  <2>. QED
    BY <2>1, <2>2
<1>. QED
  BY <1>2, <1>3 DEF PublishSave

(* publish() tells of the report it has saved. *)
LEMMA FeedAdvertise ==
    ASSUME IInv, IInv', PublishAdvertise PROVE FeedStepped
<1>0. TypeOK /\ TypeOK' /\ RunningInv /\ RevisionInv
  BY DEF IInv
<1>1. /\ UNCHANGED <<status, jobfile, disk, lost, deleted, faults>>
      /\ pc = "advertise"
      /\ result' = IF status = "none" THEN result ELSE draft
  BY DEF PublishAdvertise, fileVars, historyVars, boundVars
<1>2. UNCHANGED BackgroundStatus
  BY <1>1 DEF BackgroundStatus
<1>3. CASE status = "none"
  BY <1>1, <1>3, Unseen DEF seen
<1>4. CASE status # "none"
  <2>1. ToldRevision' = draft.rev
    BY <1>1, <1>4, ToldThen
  <2>2. CASE lost \/ deleted
    <3>1. status # "running" /\ BackgroundStatus # "running"
      BY <1>0, <1>4, <2>2, ToldOf DEF RunningInv
    <3>2. ((lost \/ deleted)') = TRUE
      BY <1>1, <2>2
    <3>3. Feed!Withdraw
      BY <1>0, <1>1, <1>2, <3>1, <3>2, SeenTypes DEF Feed!Withdraw
    <3>. QED
      BY <3>3 DEF FeedStepped, Feed!FeedNext
  <2>3. CASE ~(lost \/ deleted)
    <3>1. ToldRevision' = disk.rev
      BY <1>0, <1>1, <2>1, <2>3 DEF RevisionInv
    <3>2. UNCHANGED Closed(disk)
      BY <1>1, <1>2 DEF Closed
    <3>3. pc \in Active \ {"finish"}
      BY <1>1 DEF Active, Publishing
    <3>4. Feed!Tell
      BY <1>1, <1>2, <1>4, <2>3, <3>1, <3>2, <3>3, AtWork DEF Feed!Tell
    <3>. QED
      BY <3>4 DEF FeedStepped, Feed!FeedNext
  <2>. QED
    BY <2>2, <2>3
<1>. QED
  BY <1>3, <1>4

(* The file is written, or the write raises. *)
LEMMA FeedPersist ==
    ASSUME IInv, PublishRecord \/ FinishPersist PROVE FeedStepped
<1>1. UNCHANGED <<status, result, disk, lost, deleted>>
  BY DEF PublishRecord, FinishPersist, PersistUnchanged, storeVars, historyVars
<1>2. CASE PersistJob
  BY <1>1, <1>2, UnseenFile DEF PersistJob
<1>3. CASE PersistRaises
  BY <1>1, <1>3, Unseen, UnseenFault DEF PersistRaises, IInv, seen
<1>. QED
  BY <1>2, <1>3 DEF PublishRecord, FinishPersist

(* finish() ends the job: its last report has been told of, and is closed. *)
LEMMA FeedEnd ==
    ASSUME IInv, IInv', FinishStatus PROVE FeedStepped
<1>0. TypeOK /\ TypeOK' /\ StatusInv /\ RevisionInv /\ ClosedInv
  BY DEF IInv
<1>1. /\ UNCHANGED <<result, jobfile, disk, lost, deleted, faults>>
      /\ pc = "settle" /\ status' = IF status = "none" THEN status ELSE final
  BY DEF FinishStatus, fileVars, historyVars, boundVars
<1>2. CASE status = "none"
  BY <1>1, <1>2, Unseen DEF seen
<1>3. CASE status # "none"
  <2>1. status' \in Feed!Ended
    BY <1>0, <1>1, <1>3 DEF TypeOK, StatusInv, Status, Terminal, Feed!Ended
  <2>2. /\ BackgroundStatus = status /\ ToldRevision = result.rev
        /\ BackgroundStatus' = status' /\ ToldRevision' = result.rev
    BY <1>1, <1>3, <2>1, ToldOf, ToldThen DEF Feed!Ended
  <2>3. Closed(disk) = disk.closed /\ UNCHANGED Closed(disk)
    BY <1>0, <1>1, <2>1, <2>2, ClosedThen, SeenTypes DEF Feed!Ended, Status, Terminal
  <2>4. ~(lost \/ deleted) => ToldRevision = disk.rev /\ (disk.rev > 0 => Closed(disk))
    BY <1>0, <1>1, <1>3, <2>2, <2>3 DEF RevisionInv, ClosedInv, Saved
  <2>5. pc \in Active \ {"finish"}
    BY <1>1 DEF Active
  <2>6. Feed!End
    BY <1>1, <1>3, <2>1, <2>2, <2>3, <2>4, <2>5, AtWork DEF Feed!End
  <2>. QED
    BY <2>6 DEF FeedStepped, Feed!FeedNext
<1>. QED
  BY <1>2, <1>3

(* DELETE of a job cancels it, which nobody is told of, or removes it. *)
LEMMA FeedDeleteJob ==
    ASSUME IInv, IInv', NEW r \in Requests, DeleteJobAct(r) PROVE FeedStepped
<1>1. UNCHANGED <<jobfile, disk, faults, lost, deleted>>
  BY DEF DeleteJobAct, boundVars, historyVars
<1>2. UNCHANGED <<status, result>> \/ status' = "none"
  BY DEF DeleteJobAct, CancelJob, RemoveJob
<1>. QED
  BY <1>1, <1>2, Unseen, FeedForgotten DEF seen

(* A handler saves the report it has read: the same report but for its     *)
(* annotations, or one that is not the job's any more.                     *)
LEMMA FeedHandlerSave ==
    ASSUME IInv, IInv', NEW r \in Requests, AnnotateSave(r) \/ AttachSourceSave(r)
    PROVE  FeedStepped
<1>0. TypeOK /\ TypeOK' /\ RunningInv
  BY DEF IInv
<1>1. UNCHANGED <<status, result, jobfile, deleted, faults>>
  BY DEF AnnotateSave, AttachSourceSave, storeVars, boundVars
<1>2. CASE lost' \/ deleted'
  <2>1. status # "running"
    BY <1>0, <1>1, <1>2
    DEF RunningInv, AnnotateSave, AttachSourceSave
  <2>. QED
    BY <1>0, <1>1, <1>2, <2>1, Withdrawn
<1>3. CASE ~(lost' \/ deleted')
  <2>0. ~lost' /\ lost' = IF disk = reqs[r].copy THEN lost ELSE TRUE
    BY <1>3 DEF AnnotateSave, AttachSourceSave
  <2>1. ~lost /\ disk'.rev = disk.rev /\ disk = reqs[r].copy
    BY <2>0, HandlerSavesFresh
  <2>2. UNCHANGED <<BackgroundStatus, ToldRevision>>
    BY <1>1 DEF BackgroundStatus, ToldRevision
  <2>3. disk'.closed = disk.closed \/ BackgroundStatus = "interrupted"
    <3>1. disk'.closed = disk.closed \/ disk'.closed = Closed(disk)
      BY <2>1 DEF AnnotateSave, AttachSourceSave, WithNotes, WithCapture, WithSource
    <3>. QED
      BY <3>1 DEF Closed
  <2>4. UNCHANGED Closed(disk)
    BY <2>2, <2>3 DEF Closed
  <2>. QED
    BY <1>1, <1>3, <2>1, <2>2, <2>4 DEF FeedStepped, Feed!feedVars
<1>. QED
  BY <1>2, <1>3

(* A report is deleted when its job is not running. *)
LEMMA FeedUnlink ==
    ASSUME IInv, IInv', NEW r \in Requests, UnlinkReport(r) PROVE FeedStepped
<1>0. TypeOK /\ TypeOK' /\ RunningInv
  BY DEF IInv
<1>1. UNCHANGED <<status, result, jobfile, lost, faults>> /\ status # "running"
  BY <1>0 DEF UnlinkReport, storeVars, boundVars, RunningInv
<1>2. CASE deleted'
  BY <1>0, <1>1, <1>2, Withdrawn
<1>3. CASE UNCHANGED <<disk, deleted>>
  BY <1>1, <1>3, Unseen DEF seen
<1>. QED
  BY <1>2, <1>3 DEF UnlinkReport

(* Every step of the job is one of the feed, or is not seen. *)
LEMMA FeedStep == IInv /\ IInv' /\ [Next]_vars => FeedStepped
<1>. SUFFICES ASSUME IInv, IInv', [Next]_vars PROVE FeedStepped
  OBVIOUS
<1>1. CASE StartJob \/ UploadFails
  BY <1>1, FeedStart
<1>2. CASE PublishSave
  BY <1>2, FeedSave
<1>3. CASE PublishAdvertise
  BY <1>3, FeedAdvertise
<1>4. CASE PublishRecord \/ FinishPersist
  BY <1>4, FeedPersist
<1>5. CASE FinishStatus
  BY <1>5, FeedEnd
<1>6. CASE CollectJob \/ Restart
  <2>1. UNCHANGED <<jobfile, disk, faults, lost, deleted>> /\ status' = "none"
    BY <1>6 DEF CollectJob, RemoveJob, Restart, fileVars, boundVars, historyVars
  <2>. QED
    BY <2>1, FeedForgotten
<1>7. CASE \/ ScanStage \/ ScanCancelled \/ ScanFails \/ StartIndex \/ IndexCompletes
           \/ IndexFails \/ FinalCheck \/ PublishGet \/ FinishGet
  <2>1. UNCHANGED seen /\ UNCHANGED faults
    BY <1>7
    DEF ScanStage, ScanCancelled, ScanFails, StartIndex, IndexCompletes, IndexFails,
        FinalCheck, PublishGet, FinishGet, ScanUnchanged, storeVars, boundVars, historyVars,
        seen
  <2>. QED
    BY <2>1, Unseen
<1>8. CASE PublishLock \/ RunExit \/ Cancel
  <2>1. UNCHANGED seen /\ UNCHANGED faults
    BY <1>8
    DEF PublishLock, RunExit, Cancel, CancelJob, storeVars, fileVars, boundVars,
        historyVars, seen
  <2>. QED
    BY <2>1, Unseen
<1>9. ASSUME NEW r \in Requests, DeleteJobAct(r) PROVE FeedStepped
  BY <1>9, FeedDeleteJob
<1>10. ASSUME NEW r \in Requests, AnnotateSave(r) \/ AttachSourceSave(r) PROVE FeedStepped
  BY <1>10, FeedHandlerSave
<1>11. ASSUME NEW r \in Requests, UnlinkReport(r) PROVE FeedStepped
  BY <1>11, FeedUnlink
<1>12. ASSUME NEW r \in Requests, RequestSaveFails(r) PROVE FeedStepped
  <2>1. UNCHANGED seen /\ Fault
    BY <1>12 DEF RequestSaveFails, storeVars, fileVars, historyVars, seen
  <2>. QED
    BY <2>1, UnseenFault DEF IInv
<1>13. ASSUME NEW r \in Requests,
              \/ DeleteJob(r) \/ DeleteAnalysis(r) \/ DeleteAnalysisGuard(r) \/ UnlinkIndex(r)
              \/ Annotate(r) \/ AnnotateRead(r) \/ AttachSource(r) \/ AttachSourceGuard(r)
       PROVE  FeedStepped
  <2>1. UNCHANGED seen /\ UNCHANGED faults
    BY <1>13
    DEF DeleteJob, DeleteAnalysis, DeleteAnalysisGuard, UnlinkIndex, Annotate, AnnotateRead,
        AttachSource, AttachSourceGuard, storeVars, fileVars, boundVars, historyVars, seen
  <2>. QED
    BY <2>1, Unseen
<1>14. CASE UNCHANGED vars
  BY <1>14, Unseen DEF vars, storeVars, fileVars, boundVars, historyVars, seen
<1>. QED
  BY <1>1, <1>2, <1>3, <1>4, <1>5, <1>6, <1>7, <1>8, <1>9, <1>10, <1>11, <1>12, <1>13,
     <1>14
  DEF Next, WorkerStep, RequestArrives, RequestStep

(* Nobody has been told of anything before the job. *)
LEMMA FeedInitially == Init => Feed!FeedInit
<1>. SUFFICES ASSUME Init PROVE Feed!FeedInit
  OBVIOUS
<1>1. status = "none" /\ jobfile.status = "none" /\ jobfile.rev = 0
  BY DEF Init
<1>2. BackgroundStatus = "none" /\ ToldRevision = 0
  BY <1>1, ToldOf
<1>3. disk.rev = 0 /\ Closed(disk) = FALSE
  BY <1>2 DEF Init, NoReport, Closed
<1>4. (lost \/ deleted) = FALSE /\ (faults > 0) = FALSE
  BY DEF Init
<1>. QED
  BY <1>2, <1>3, <1>4 DEF Feed!FeedInit

(* Whatever the job, its handlers, failing writes and restarts do, its     *)
(* clients see a behaviour of HeapFeed.                                    *)
THEOREM FeedImplemented == Spec => ImplementsFeed
<1>1. IInv /\ IInv' /\ [Next]_vars => [Feed!FeedNext]_(Feed!feedVars)
  BY FeedStep DEF FeedStepped
<1>. QED
  BY <1>1, FeedInitially, Invariant, PTL DEF Spec, ImplementsFeed, Feed!FeedSpec
=============================================================================
