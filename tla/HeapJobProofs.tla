---------------------------- MODULE HeapJobProofs ----------------------------
(***************************************************************************)
(* Proofs about HeapJob: IInv of HeapJobInv is preserved by every step for *)
(* any handlers, values, checkpoints, faults and restarts, and the safety  *)
(* properties follow.  Each part of IInv has a section: lemmas for the     *)
(* steps that can disturb it, then one step per action.                    *)
(***************************************************************************)
EXTENDS HeapJobInv, TLAPS

(* The record that stands for the absence of a report is one. *)
LEMMA NoReportType == NoReport \in Report
  BY DEF NoReport, Report, Annotation

(* What a checkpoint hands to publish() is a report. *)
LEMMA SnapshotType ==
    TypeOK => {Snapshot(TRUE), Snapshot(FALSE), Snapshot(indexed)} \subseteq Report
  BY DEF TypeOK, Snapshot, Report, Annotation

(* publish() numbers and closes a report into a report. *)
LEMMA NumberedType == ASSUME TypeOK, NEW x \in Report PROVE Numbered(x) \in Report
<1>1. (IF final = "running" THEN x.closed ELSE TRUE) \in BOOLEAN
  BY DEF Report
<1>2. result.rev + 1 \in Nat
  BY DEF TypeOK, Report
<1>. QED
  BY <1>1, <1>2 DEF Numbered, Report

(* A report with the annotations of the saved one is a report. *)
LEMMA CarriedOverType == ASSUME TypeOK, NEW x \in Report PROVE CarriedOver(x) \in Report
  BY DEF TypeOK, CarriedOver, Carried, Report

(* The handlers save reports. *)
LEMMA WithType ==
    ASSUME NEW x \in Report, NEW v \in Annotation
    PROVE  /\ WithNotes(x, v) \in Report
           /\ WithCapture(x, v) \in Report
           /\ WithSource(x, v) \in Report
<1>1. Closed(x) \in BOOLEAN
  BY DEF Closed, Report
<1>. QED
  BY <1>1 DEF WithNotes, WithCapture, WithSource, Report

(* What a user may write, and nothing, are annotations. *)
LEMMA UnsetType == Unset \in Annotation /\ Values \subseteq Annotation
  BY DEF Annotation

(* A handler that is not in flight has a state. *)
LEMMA IdleType == Idle \in RequestState
  BY NoReportType DEF Idle, RequestState, RequestPc, Annotation

(* The parts of a handler's state have their types. *)
LEMMA RequestType ==
    ASSUME TypeOK, NEW r \in Requests
    PROVE  reqs[r].pc \in RequestPc /\ reqs[r].copy \in Report /\ reqs[r].value \in Annotation
  BY DEF TypeOK, RequestState

(* Hold keeps the type of the handlers' states. *)
LEMMA HoldType ==
    ASSUME TypeOK, NEW r \in Requests, NEW p \in RequestPc, NEW x \in Report,
           NEW v \in Annotation, Hold(r, p, x, v)
    PROVE  reqs' \in [Requests -> RequestState]
  BY DEF Hold, TypeOK, RequestState

(* Reply keeps the type of the handlers' states. *)
LEMMA ReplyType ==
    ASSUME TypeOK, NEW r \in Requests, Reply(r)
    PROVE  reqs' \in [Requests -> RequestState]
  BY IdleType DEF Reply, TypeOK

(* Hold changes the state of one handler only. *)
LEMMA HoldReqs ==
    ASSUME TypeOK, NEW r \in Requests, NEW p, NEW x, NEW v, Hold(r, p, x, v),
           NEW q \in Requests
    PROVE  /\ q # r => reqs'[q] = reqs[q]
           /\ q = r => /\ reqs'[q].pc = p
                       /\ reqs'[q].copy = x
                       /\ reqs'[q].value = v
  BY DEF Hold, TypeOK

(* Reply changes the state of one handler only. *)
LEMMA ReplyReqs ==
    ASSUME TypeOK, NEW r \in Requests, Reply(r), NEW q \in Requests
    PROVE  /\ q # r => reqs'[q] = reqs[q]
           /\ q = r => /\ reqs'[q].pc = "idle"
                       /\ reqs'[q].copy = NoReport
                       /\ reqs'[q].value = Unset
  BY DEF Reply, TypeOK, Idle

(* An annotation leaves a report and what was acknowledged typed. *)
LEMMA AnnotateSaveType ==
    ASSUME TypeOK, NEW r \in Requests, AnnotateSave(r)
    PROVE  disk' \in Report /\ acked' \in [notes : Annotation, capture : Annotation]
<1>1. reqs[r].value \in Annotation /\ reqs[r].copy \in Report
  BY RequestType
<1>2. acked.notes \in Annotation /\ acked.capture \in Annotation
  BY DEF TypeOK
<1>3. acked' \in [notes : Annotation, capture : Annotation]
  BY <1>1, <1>2 DEF AnnotateSave
<1>. QED
  BY <1>1, <1>3, WithType DEF AnnotateSave

(* Every step keeps the types. *)
LEMMA TypeStep == TypeOK /\ [Next]_vars => TypeOK'
<1> SUFFICES ASSUME TypeOK, [Next]_vars PROVE TypeOK'
  OBVIOUS
<1> USE DEF TypeOK, storeVars, fileVars, localVars, workerVars, boundVars, historyVars
<1>1. CASE StartJob
  <2>1. faults' \in 0..MaxFaults
    BY <1>1, BoundsAssumption DEF StartJob, Fault
  <2>2. jobfile' \in JobFile /\ status' \in Status
    BY <1>1 DEF StartJob, JobFile, Status
  <2>. QED
    BY <1>1, <2>1, <2>2 DEF StartJob, WorkerPc, Active, Scanning
<1>2. CASE UploadFails
  BY <1>2
  DEF UploadFails, WorkerPc, Active, Scanning, Publishing, Status, Terminal
<1>3. CASE ScanStage
  <2>1. draft' \in Report
    BY <1>3, SnapshotType DEF ScanStage
  <2>. QED
    BY <1>3, <2>1
    DEF ScanStage, ScanUnchanged, WorkerPc, Active, Publishing
<1>4. CASE ScanCancelled
  BY <1>4, NoReportType
  DEF ScanCancelled, Raise, ScanUnchanged, WorkerPc, Active, Scanning,
      Publishing, Status, Terminal
<1>5. CASE ScanFails
  BY <1>5, NoReportType
  DEF ScanFails, Raise, ScanUnchanged, WorkerPc, Active, Scanning,
      Publishing, Status, Terminal
<1>6. CASE StartIndex
  BY <1>6
  DEF StartIndex, ScanUnchanged, WorkerPc, Active, Scanning, Publishing, Status,
      Terminal
<1>7. CASE IndexCompletes
  <2>1. draft' \in Report
    BY <1>7, SnapshotType DEF IndexCompletes
  <2>. QED
    BY <1>7, <2>1
    DEF IndexCompletes, ScanUnchanged, WorkerPc, Active, Publishing
<1>8. CASE IndexFails
  <2>1. draft' \in Report
    BY <1>8, SnapshotType DEF IndexFails
  <2>. QED
    BY <1>8, <2>1
    DEF IndexFails, ScanUnchanged, WorkerPc, Active, Publishing
<1>9. CASE FinalCheck
  BY <1>9
  DEF FinalCheck, ScanUnchanged, WorkerPc, Active, Scanning, Publishing, Status,
      Terminal
<1>10. CASE PublishGet
  <2>1. Numbered(draft) \in Report
    BY NumberedType
  <2>. QED
    BY <1>10, <2>1, NoReportType
    DEF PublishGet, Raise, ScanUnchanged, WorkerPc, Active, Scanning,
        Publishing, Status, Terminal
<1>11. CASE PublishLock
  BY <1>11, CarriedOverType
  DEF PublishLock, WorkerPc, Active, Scanning, Publishing, Status, Terminal
<1>12. CASE PublishSave
  <2>1. lost' \in BOOLEAN
    BY <1>12 DEF PublishSave
  <2>2. faults' \in 0..MaxFaults
    <3>1. CASE UNCHANGED faults
      BY <3>1
    <3>2. CASE Fault
      BY <3>2, BoundsAssumption DEF Fault
    <3>. QED
      BY <1>12, <3>1, <3>2 DEF PublishSave
  <2>3. disk' \in Report
    BY <1>12 DEF PublishSave
  <2>4. pc' \in WorkerPc
    BY <1>12 DEF PublishSave, Raise, WorkerPc, Active, Publishing
  <2>5. /\ step' \in Nat /\ final' \in Status \ {"none"} /\ indexed' \in BOOLEAN
        /\ draft' \in Report /\ base' \in Report
    BY <1>12, NoReportType DEF PublishSave, Raise, Status, Terminal
  <2>. QED
    BY <1>12, <2>1, <2>2, <2>3, <2>4, <2>5 DEF PublishSave
<1>13. CASE PublishAdvertise
  BY <1>13, NoReportType
  DEF PublishAdvertise, WorkerPc, Active, Scanning, Publishing, Status, Terminal
<1>14. CASE PublishRecord
  BY <1>14, BoundsAssumption, NoReportType
  DEF PublishRecord, PersistJob, PersistRaises, PersistUnchanged, Raise, Fault,
      JobFile, Report, WorkerPc, Active, Scanning, Publishing, Status, Terminal
<1>15. CASE FinishGet
  BY <1>15
  DEF FinishGet, ScanUnchanged, WorkerPc, Active, Scanning, Publishing, Status,
      Terminal
<1>16. CASE FinishStatus
  BY <1>16
  DEF FinishStatus, WorkerPc, Active, Scanning, Publishing, Status, Terminal
<1>17. CASE FinishPersist
  BY <1>17, BoundsAssumption, NoReportType
  DEF FinishPersist, PersistJob, PersistRaises, PersistUnchanged, Raise, Fault,
      JobFile, Report, WorkerPc, Active, Scanning, Publishing, Status, Terminal
<1>18. CASE RunExit
  BY <1>18, NoReportType
  DEF RunExit, ForgetLocals, WorkerPc, Active, Scanning, Publishing, Status,
      Terminal
<1>19. CASE Cancel
  BY <1>19
  DEF Cancel, CancelJob
<1>20. CASE CollectJob
  BY <1>20, NoReportType
  DEF CollectJob, RemoveJob, Status, Terminal
<1>21. CASE Restart
  <2>1. reqs' \in [Requests -> RequestState]
    BY <1>21, IdleType DEF Restart
  <2>2. restarts' \in 0..MaxRestarts
    BY <1>21, BoundsAssumption DEF Restart
  <2>. QED
    BY <1>21, <2>1, <2>2, NoReportType
    DEF Restart, ForgetLocals, WorkerPc, Active, Scanning, Publishing, Status,
        Terminal
<1>22. ASSUME NEW r \in Requests, DeleteJob(r) PROVE TypeOK'
  BY <1>22, HoldType, NoReportType, UnsetType
  DEF DeleteJob, RequestPc
<1>23. ASSUME NEW r \in Requests, DeleteJobAct(r) PROVE TypeOK'
  <2>1. reqs' \in [Requests -> RequestState]
    BY <1>23, ReplyType DEF DeleteJobAct
  <2>2. cancelled' \in BOOLEAN /\ callback' \in BOOLEAN
    BY <1>23 DEF DeleteJobAct, CancelJob, RemoveJob
  <2>3. result' \in Report /\ status' \in Status /\ input' \in {"none", "upload", "server", "removed"}
    BY <1>23, NoReportType
    DEF DeleteJobAct, CancelJob, RemoveJob, Status, Terminal
  <2>. QED
    BY <1>23, <2>1, <2>2, <2>3
    DEF DeleteJobAct
<1>24. ASSUME NEW r \in Requests, DeleteAnalysis(r) PROVE TypeOK'
  BY <1>24, HoldType, NoReportType, UnsetType
  DEF DeleteAnalysis, RequestPc
<1>25. ASSUME NEW r \in Requests, DeleteAnalysisGuard(r) PROVE TypeOK'
  BY <1>25, HoldType, ReplyType, NoReportType, UnsetType
  DEF DeleteAnalysisGuard, RequestPc
<1>26. ASSUME NEW r \in Requests, UnlinkReport(r) PROVE TypeOK'
  <2>1. reqs' \in [Requests -> RequestState]
    BY <1>26, ReplyType, HoldType, UnsetType, NoReportType
    DEF UnlinkReport, RequestPc
  <2>. QED
    BY <1>26, <2>1, NoReportType
    DEF UnlinkReport
<1>27. ASSUME NEW r \in Requests, UnlinkIndex(r) PROVE TypeOK'
  BY <1>27, ReplyType
  DEF UnlinkIndex
<1>28. ASSUME NEW r \in Requests, Annotate(r) PROVE TypeOK'
  BY <1>28, HoldType, NoReportType, UnsetType
  DEF Annotate, RequestPc
<1>29. ASSUME NEW r \in Requests, AnnotateRead(r) PROVE TypeOK'
  <2>1. reqs' \in [Requests -> RequestState]
    BY <1>29, HoldType, ReplyType, UnsetType DEF AnnotateRead, RequestPc
  <2>2. lock' \in Requests \cup {Worker, Free}
    BY <1>29 DEF AnnotateRead
  <2>. QED
    BY <1>29, <2>1, <2>2 DEF AnnotateRead
<1>30. ASSUME NEW r \in Requests, AnnotateSave(r) PROVE TypeOK'
  <2>1. reqs' \in [Requests -> RequestState]
    BY <1>30, ReplyType DEF AnnotateSave
  <2>2. disk' \in Report /\ acked' \in [notes : Annotation, capture : Annotation]
    BY <1>30, AnnotateSaveType
  <2>3. lost' \in BOOLEAN
    BY <1>30 DEF AnnotateSave
  <2>4. lock' \in Requests \cup {Worker, Free}
    BY <1>30 DEF AnnotateSave
  <2>. QED
    BY <1>30, <2>1, <2>2, <2>3, <2>4 DEF AnnotateSave
<1>31. ASSUME NEW r \in Requests, AttachSource(r) PROVE TypeOK'
  BY <1>31, HoldType, UnsetType
  DEF AttachSource, RequestPc
<1>32. ASSUME NEW r \in Requests, AttachSourceGuard(r) PROVE TypeOK'
  BY <1>32, HoldType, ReplyType, RequestType
  DEF AttachSourceGuard, RequestPc
<1>33. ASSUME NEW r \in Requests, AttachSourceSave(r) PROVE TypeOK'
  <2>1. reqs' \in [Requests -> RequestState]
    BY <1>33, ReplyType DEF AttachSourceSave
  <2>2. disk' \in Report
    BY <1>33, RequestType, WithType DEF AttachSourceSave
  <2>3. lost' \in BOOLEAN
    BY <1>33 DEF AttachSourceSave
  <2>. QED
    BY <1>33, <2>1, <2>2, <2>3
    DEF AttachSourceSave
<1>34. ASSUME NEW r \in Requests, RequestSaveFails(r) PROVE TypeOK'
  BY <1>34, ReplyType, BoundsAssumption
  DEF RequestSaveFails, Fault
<1>35. CASE UNCHANGED vars
  BY <1>35
  DEF vars
<1>. QED
  BY <1>1, <1>2, <1>3, <1>4, <1>5, <1>6, <1>7, <1>8, <1>9, <1>10, <1>11,
     <1>12, <1>13, <1>14, <1>15, <1>16, <1>17, <1>18, <1>19, <1>20, <1>21,
     <1>22, <1>23, <1>24, <1>25, <1>26, <1>27, <1>28, <1>30, <1>31, <1>32,
     <1>33, <1>34, <1>35, <1>29
  DEF Next, WorkerStep, RequestArrives, RequestStep

-----------------------------------------------------------------------------
(* Before a job there is nothing: no handler has anything to work on. *)

(* Before a job no handler is about to remove one. *)
LEMMA BeforeDeleteJob ==
    ASSUME BeforeInv, NEW r \in Requests, DeleteJobAct(r) PROVE BeforeInv'
<1>1. pc # "idle"
  BY DEF BeforeInv, Idle, DeleteJobAct
<1>2. pc' = pc
  BY DEF DeleteJobAct, workerVars
<1>. QED
  BY <1>1, <1>2 DEF BeforeInv

(* Every step keeps BeforeInv. *)
LEMMA BeforeStep == IInv /\ [Next]_vars => BeforeInv'
<1>. SUFFICES ASSUME IInv, [Next]_vars PROVE BeforeInv'
  OBVIOUS
<1>1. ASSUME NEW r \in Requests, DeleteJobAct(r) PROVE BeforeInv'
  BY <1>1, BeforeDeleteJob DEF IInv
<1>. USE DEF IInv, BeforeInv, Saved, NoReport, Idle, storeVars, fileVars,
             localVars, workerVars, boundVars, historyVars, Active, Scanning,
             Publishing
<1>2. CASE StartJob
  BY <1>2 DEF StartJob, Fault
<1>3. CASE UploadFails
  BY <1>3 DEF UploadFails
<1>4. CASE ScanStage
  BY <1>4 DEF ScanStage, ScanUnchanged
<1>5. CASE ScanCancelled
  BY <1>5 DEF ScanCancelled, Raise, ScanUnchanged
<1>6. CASE ScanFails
  BY <1>6 DEF ScanFails, Raise, ScanUnchanged
<1>7. CASE StartIndex
  BY <1>7 DEF StartIndex, ScanUnchanged
<1>8. CASE IndexCompletes
  BY <1>8 DEF IndexCompletes, ScanUnchanged
<1>9. CASE IndexFails
  BY <1>9 DEF IndexFails, ScanUnchanged
<1>10. CASE FinalCheck
  BY <1>10 DEF FinalCheck, ScanUnchanged
<1>11. CASE PublishGet
  BY <1>11 DEF PublishGet, Raise, ScanUnchanged
<1>12. CASE PublishLock
  BY <1>12 DEF PublishLock
<1>13. CASE PublishSave
  BY <1>13 DEF PublishSave, Raise, Fault
<1>14. CASE PublishAdvertise
  BY <1>14 DEF PublishAdvertise
<1>15. CASE PublishRecord
  BY <1>15
  DEF PublishRecord, PersistJob, PersistRaises, PersistUnchanged, Raise, Fault
<1>16. CASE FinishGet
  BY <1>16 DEF FinishGet, ScanUnchanged
<1>17. CASE FinishStatus
  BY <1>17 DEF FinishStatus
<1>18. CASE FinishPersist
  BY <1>18
  DEF FinishPersist, PersistJob, PersistRaises, PersistUnchanged, Raise, Fault
<1>19. CASE RunExit
  BY <1>19 DEF RunExit, ForgetLocals
<1>20. CASE Cancel
  BY <1>20 DEF Cancel, CancelJob
<1>21. CASE CollectJob
  BY <1>21 DEF CollectJob, RemoveJob
<1>22. CASE Restart
  BY <1>22 DEF Restart, ForgetLocals
<1>23. ASSUME NEW r \in Requests, DeleteJob(r) PROVE BeforeInv'
  BY <1>23, HoldReqs, NoReportType, UnsetType, RequestType
  DEF DeleteJob, RequestPc
<1>24. ASSUME NEW r \in Requests, DeleteAnalysis(r) PROVE BeforeInv'
  BY <1>24, HoldReqs, NoReportType, UnsetType, RequestType
  DEF DeleteAnalysis, RequestPc
<1>25. ASSUME NEW r \in Requests, DeleteAnalysisGuard(r) PROVE BeforeInv'
  BY <1>25, HoldReqs, NoReportType, UnsetType, ReplyReqs, RequestType
  DEF DeleteAnalysisGuard, RequestPc
<1>26. ASSUME NEW r \in Requests, UnlinkReport(r) PROVE BeforeInv'
  BY <1>26, HoldReqs, NoReportType, UnsetType, ReplyReqs, RequestType
  DEF UnlinkReport, RequestPc
<1>27. ASSUME NEW r \in Requests, UnlinkIndex(r) PROVE BeforeInv'
  BY <1>27, ReplyReqs, RequestType DEF UnlinkIndex
<1>28. ASSUME NEW r \in Requests, Annotate(r) PROVE BeforeInv'
  BY <1>28, HoldReqs, NoReportType, UnsetType, RequestType
  DEF Annotate, RequestPc
<1>29. ASSUME NEW r \in Requests, AnnotateRead(r) PROVE BeforeInv'
  BY <1>29, HoldReqs, NoReportType, UnsetType, ReplyReqs, RequestType
  DEF AnnotateRead, RequestPc
<1>30. ASSUME NEW r \in Requests, AnnotateSave(r) PROVE BeforeInv'
  BY <1>30, ReplyReqs, RequestType DEF AnnotateSave
<1>31. ASSUME NEW r \in Requests, AttachSource(r) PROVE BeforeInv'
  BY <1>31, HoldReqs, NoReportType, UnsetType, RequestType
  DEF AttachSource, RequestPc
<1>32. ASSUME NEW r \in Requests, AttachSourceGuard(r) PROVE BeforeInv'
  BY <1>32, HoldReqs, NoReportType, UnsetType, ReplyReqs, RequestType
  DEF AttachSourceGuard, RequestPc
<1>33. ASSUME NEW r \in Requests, AttachSourceSave(r) PROVE BeforeInv'
  BY <1>33, ReplyReqs, RequestType DEF AttachSourceSave
<1>34. ASSUME NEW r \in Requests, RequestSaveFails(r) PROVE BeforeInv'
  BY <1>34, ReplyReqs, RequestType DEF RequestSaveFails, Fault
<1>35. CASE UNCHANGED vars
  BY <1>35 DEF vars
<1>. QED
  BY <1>1, <1>2, <1>3, <1>4, <1>5, <1>6, <1>7, <1>8, <1>9, <1>10, <1>11,
     <1>12, <1>13, <1>14, <1>15, <1>16, <1>17, <1>18, <1>19, <1>20, <1>21,
     <1>22, <1>23, <1>24, <1>25, <1>26, <1>27, <1>28, <1>29, <1>30, <1>31,
     <1>32, <1>33, <1>34, <1>35
  DEF Next, WorkerStep, RequestArrives, RequestStep

-----------------------------------------------------------------------------
(* The lock is held between a read and its save, by nobody else. *)

(* publish() holds the lock from its read to its save. *)
LEMMA LockPublish ==
    ASSUME LockInv, PublishLock \/ PublishSave PROVE LockInv'
<1>1. CASE PublishLock
  BY <1>1, NamesAssumption DEF LockInv, PublishLock
<1>2. CASE PublishSave
  BY <1>2, NamesAssumption DEF LockInv, PublishSave, Raise
<1>. QED
  BY <1>1, <1>2

(* A restart frees the lock. *)
LEMMA LockRestart == ASSUME Restart PROVE LockInv'
  BY NamesAssumption DEF LockInv, Restart, Idle

(* An annotation holds the lock once it has read the report. *)
LEMMA LockAnnotate ==
    ASSUME TypeOK, LockInv, NEW r \in Requests, AnnotateRead(r) PROVE LockInv'
<1>1. lock = Free /\ pc' = pc
  BY DEF AnnotateRead, workerVars
<1>2. CASE lock' = r /\ \E field \in {"notes", "capture"}, v \in Values : Hold(r, field, disk, v)
  <2>1. PICK field \in {"notes", "capture"}, v \in Values : Hold(r, field, disk, v)
    BY <1>2
  <2>2. ASSUME NEW q \in Requests
        PROVE  lock' = q <=> reqs'[q].pc \in {"notes", "capture"}
    BY <1>1, <1>2, <2>1, HoldReqs, NamesAssumption DEF LockInv
  <2>. QED
    BY <1>1, <1>2, <2>2, NamesAssumption DEF LockInv
<1>3. CASE Reply(r) /\ UNCHANGED lock
  <2>1. ASSUME NEW q \in Requests
        PROVE  lock' = q <=> reqs'[q].pc \in {"notes", "capture"}
    BY <1>1, <1>3, ReplyReqs, NamesAssumption DEF LockInv
  <2>. QED
    BY <1>1, <1>3, <2>1, NamesAssumption DEF LockInv
<1>. QED
  BY <1>2, <1>3 DEF AnnotateRead

(* A handler that answers does not hold the lock. *)
LEMMA LockReplied ==
    ASSUME TypeOK, LockInv, NEW r \in Requests, AnnotateSave(r) \/ RequestSaveFails(r)
    PROVE  LockInv'
<1>1. Reply(r) /\ pc' = pc /\ lock' = IF lock = r THEN Free ELSE lock
  BY DEF AnnotateSave, RequestSaveFails, workerVars, LockInv
<1>2. ASSUME NEW q \in Requests
      PROVE  lock' = q <=> reqs'[q].pc \in {"notes", "capture"}
  BY <1>1, ReplyReqs, NamesAssumption DEF LockInv
<1>. QED
  BY <1>1, <1>2, NamesAssumption DEF LockInv

(* Every step keeps LockInv. *)
LEMMA LockStep == IInv /\ [Next]_vars => LockInv'
<1>. SUFFICES ASSUME IInv, [Next]_vars PROVE LockInv'
  OBVIOUS
<1>1. CASE PublishLock \/ PublishSave
  BY <1>1, LockPublish DEF IInv
<1>2. CASE Restart
  BY <1>2, LockRestart DEF IInv
<1>3. ASSUME NEW r \in Requests, AnnotateRead(r) PROVE LockInv'
  BY <1>3, LockAnnotate DEF IInv
<1>4. ASSUME NEW r \in Requests, AnnotateSave(r) \/ RequestSaveFails(r) PROVE LockInv'
  BY <1>4, LockReplied DEF IInv
<1>. USE DEF IInv, LockInv, Idle, storeVars, fileVars, localVars, workerVars,
             boundVars, historyVars, Active, Scanning, Publishing
<1>5. CASE StartJob
  BY <1>5 DEF StartJob, Fault
<1>6. CASE UploadFails
  BY <1>6 DEF UploadFails
<1>7. CASE ScanStage
  BY <1>7 DEF ScanStage, ScanUnchanged
<1>8. CASE ScanCancelled
  BY <1>8 DEF ScanCancelled, Raise, ScanUnchanged
<1>9. CASE ScanFails
  BY <1>9 DEF ScanFails, Raise, ScanUnchanged
<1>10. CASE StartIndex
  BY <1>10 DEF StartIndex, ScanUnchanged
<1>11. CASE IndexCompletes
  BY <1>11 DEF IndexCompletes, ScanUnchanged
<1>12. CASE IndexFails
  BY <1>12 DEF IndexFails, ScanUnchanged
<1>13. CASE FinalCheck
  BY <1>13 DEF FinalCheck, ScanUnchanged
<1>14. CASE PublishGet
  BY <1>14 DEF PublishGet, Raise, ScanUnchanged
<1>15. CASE PublishAdvertise
  BY <1>15 DEF PublishAdvertise
<1>16. CASE PublishRecord
  BY <1>16
  DEF PublishRecord, PersistJob, PersistRaises, PersistUnchanged, Raise, Fault
<1>17. CASE FinishGet
  BY <1>17 DEF FinishGet, ScanUnchanged
<1>18. CASE FinishStatus
  BY <1>18 DEF FinishStatus
<1>19. CASE FinishPersist
  BY <1>19
  DEF FinishPersist, PersistJob, PersistRaises, PersistUnchanged, Raise, Fault
<1>20. CASE RunExit
  BY <1>20 DEF RunExit, ForgetLocals
<1>21. CASE Cancel
  BY <1>21 DEF Cancel, CancelJob
<1>22. CASE CollectJob
  BY <1>22 DEF CollectJob, RemoveJob
<1>23. ASSUME NEW r \in Requests, DeleteJob(r) PROVE LockInv'
  BY <1>23, HoldReqs, NoReportType, UnsetType, RequestType
  DEF DeleteJob, RequestPc
<1>24. ASSUME NEW r \in Requests, DeleteJobAct(r) PROVE LockInv'
  BY <1>24, ReplyReqs, RequestType DEF DeleteJobAct, CancelJob, RemoveJob
<1>25. ASSUME NEW r \in Requests, DeleteAnalysis(r) PROVE LockInv'
  BY <1>25, HoldReqs, NoReportType, UnsetType, RequestType
  DEF DeleteAnalysis, RequestPc
<1>26. ASSUME NEW r \in Requests, DeleteAnalysisGuard(r) PROVE LockInv'
  BY <1>26, HoldReqs, NoReportType, UnsetType, ReplyReqs, RequestType
  DEF DeleteAnalysisGuard, RequestPc
<1>27. ASSUME NEW r \in Requests, UnlinkReport(r) PROVE LockInv'
  BY <1>27, HoldReqs, NoReportType, UnsetType, ReplyReqs, RequestType
  DEF UnlinkReport, RequestPc
<1>28. ASSUME NEW r \in Requests, UnlinkIndex(r) PROVE LockInv'
  BY <1>28, ReplyReqs, RequestType DEF UnlinkIndex
<1>29. ASSUME NEW r \in Requests, Annotate(r) PROVE LockInv'
  BY <1>29, HoldReqs, NoReportType, UnsetType, RequestType
  DEF Annotate, RequestPc
<1>30. ASSUME NEW r \in Requests, AttachSource(r) PROVE LockInv'
  BY <1>30, HoldReqs, NoReportType, UnsetType, RequestType
  DEF AttachSource, RequestPc
<1>31. ASSUME NEW r \in Requests, AttachSourceGuard(r) PROVE LockInv'
  BY <1>31, HoldReqs, NoReportType, UnsetType, ReplyReqs, RequestType
  DEF AttachSourceGuard, RequestPc
<1>32. ASSUME NEW r \in Requests, AttachSourceSave(r) PROVE LockInv'
  BY <1>32, ReplyReqs, RequestType DEF AttachSourceSave
<1>33. CASE UNCHANGED vars
  BY <1>33 DEF vars
<1>. QED
  BY <1>1, <1>2, <1>3, <1>4, <1>5, <1>6, <1>7, <1>8, <1>9, <1>10, <1>11,
     <1>12, <1>13, <1>14, <1>15, <1>16, <1>17, <1>18, <1>19, <1>20, <1>21,
     <1>22, <1>23, <1>24, <1>25, <1>26, <1>27, <1>28, <1>29, <1>30, <1>31,
     <1>32, <1>33
  DEF Next, WorkerStep, RequestArrives, RequestStep

-----------------------------------------------------------------------------
(* The task, the store and the .job file agree on how far the job is.  A   *)
(* fault is counted, so the parts about faults = 0 survive a failed write. *)

(* After a fault the count of faults is not zero. *)
LEMMA FaultCounts == ASSUME TypeOK, Fault PROVE faults' # 0
  BY BoundsAssumption DEF TypeOK, Fault

(* A started job is running for the store and for the file. *)
LEMMA StatusStart ==
    ASSUME TypeOK, BeforeInv, StatusInv, StartJob PROVE StatusInv'
<1>1. /\ pc = "idle" /\ status' = "running"
      /\ UNCHANGED <<result, step, final>>
  BY DEF StartJob, localVars
<1>2. step' \in 1..Checkpoints /\ final' = "running"
  BY <1>1, CheckpointsAssumption DEF BeforeInv
<1>3. CASE pc' = "scan" /\ jobfile' = [status |-> "running", rev |-> 0]
  BY <1>1, <1>2, <1>3 DEF StatusInv, Active, Scanning, Publishing
<1>4. CASE pc' = "stillborn"
  BY <1>1, <1>2, <1>4 DEF StatusInv, Active, Scanning, Publishing
<1>. QED
  BY <1>3, <1>4 DEF StartJob

(* A save that fails is a fault, or is handled as any exception. *)
LEMMA StatusSave ==
    ASSUME TypeOK, StatusInv, PublishSave PROVE StatusInv'
<1>1. CASE pc' = "advertise" /\ UNCHANGED <<localVars, faults>>
  BY <1>1 DEF StatusInv, PublishSave, Active, Scanning, Publishing, localVars, storeVars
<1>2. CASE Fault /\ Raise("error")
  BY <1>2, FaultCounts
  DEF StatusInv, PublishSave, Raise, Active, Scanning, Publishing, storeVars
<1>. QED
  BY <1>1, <1>2 DEF PublishSave

(* publish() persists what the store says. *)
LEMMA StatusRecord ==
    ASSUME TypeOK, StatusInv, PublishRecord PROVE StatusInv'
<1>1. CASE ~PersistRaises
  <2>1. /\ pc = "record" /\ status # "none"
        /\ UNCHANGED <<status, result, final, faults>>
    BY <1>1 DEF PublishRecord, PersistJob, PersistUnchanged, storeVars
  <2>2. jobfile'.status = status
    BY <1>1 DEF PublishRecord, PersistJob
  <2>3. /\ pc' \in {"settle", "scan", "check"} /\ step' \in 1..Checkpoints
        /\ pc' = "settle" <=> final # "running"
    BY <1>1, CheckpointsAssumption DEF PublishRecord, PersistJob, TypeOK, StatusInv
  <2>. QED
    BY <2>1, <2>2, <2>3 DEF StatusInv, Active, Scanning, Publishing
<1>2. CASE PersistRaises
  BY <1>2, FaultCounts
  DEF PublishRecord, PersistUnchanged, StatusInv, Active, Scanning, Publishing,
      storeVars, PersistRaises, Raise
<1>. QED
  BY <1>1, <1>2

(* finish() gives the job its final status unless it was removed. *)
LEMMA StatusFinish ==
    ASSUME TypeOK, StatusInv, FinishStatus PROVE StatusInv'
  BY DEF TypeOK, StatusInv, FinishStatus, Active, Scanning, Publishing, localVars, boundVars, fileVars

(* finish() persists the final status. *)
LEMMA StatusPersist ==
    ASSUME TypeOK, StatusInv, FinishPersist PROVE StatusInv'
<1>1. CASE PersistJob /\ pc' = "exit" /\ UNCHANGED localVars
  <2>1. /\ pc = "persist" /\ status # "none"
        /\ UNCHANGED <<status, result, final, step, faults>>
    BY <1>1 DEF FinishPersist, PersistJob, PersistUnchanged, storeVars, localVars
  <2>2. jobfile' = [status |-> status', rev |-> result'.rev]
    BY <1>1, <2>1 DEF PersistJob
  <2>3. status' \in Terminal
    BY <2>1 DEF StatusInv, TypeOK, Status
  <2>. QED
    BY <1>1, <2>1, <2>2, <2>3 DEF StatusInv, Active, Scanning, Publishing, Terminal
<1>2. CASE PersistRaises
  BY <1>2, FaultCounts
  DEF FinishPersist, PersistUnchanged, StatusInv, Active, Scanning, Publishing,
      storeVars, PersistRaises, Raise
<1>. QED
  BY <1>1, <1>2 DEF FinishPersist

(* The task leaves store and file as finish() left them. *)
LEMMA StatusExit ==
    ASSUME TypeOK, StatusInv, RunExit PROVE StatusInv'
  BY CheckpointsAssumption
  DEF StatusInv, RunExit, ForgetLocals, Active, Scanning, Publishing,
      boundVars

(* A restart forgets the store and the task. *)
LEMMA StatusRestart == ASSUME Restart PROVE StatusInv'
  BY CheckpointsAssumption DEF StatusInv, Restart, ForgetLocals, Active, Scanning, Publishing

(* A handler's failed save is a fault. *)
LEMMA StatusReplied ==
    ASSUME TypeOK, StatusInv, NEW r \in Requests, RequestSaveFails(r) PROVE StatusInv'
  BY FaultCounts
  DEF StatusInv, RequestSaveFails, Active, Scanning, Publishing, storeVars,
      workerVars, localVars, fileVars

(* Every step keeps StatusInv. *)
LEMMA StatusStep == IInv /\ [Next]_vars => StatusInv'
<1>. SUFFICES ASSUME IInv, [Next]_vars PROVE StatusInv'
  OBVIOUS
<1>1. CASE StartJob
  BY <1>1, StatusStart DEF IInv
<1>2. CASE PublishSave
  BY <1>2, StatusSave DEF IInv
<1>3. CASE PublishRecord
  BY <1>3, StatusRecord DEF IInv
<1>4. CASE FinishStatus
  BY <1>4, StatusFinish DEF IInv
<1>5. CASE FinishPersist
  BY <1>5, StatusPersist DEF IInv
<1>6. CASE RunExit
  BY <1>6, StatusExit DEF IInv
<1>7. CASE Restart
  BY <1>7, StatusRestart DEF IInv
<1>8. ASSUME NEW r \in Requests, RequestSaveFails(r) PROVE StatusInv'
  BY <1>8, StatusReplied DEF IInv
<1>. USE DEF IInv, StatusInv, BeforeInv, RunningInv, Terminal, NoReport,
             storeVars, fileVars, localVars, workerVars, boundVars,
             historyVars, Active, Scanning, Publishing
<1>9. CASE UploadFails
  BY <1>9 DEF UploadFails
<1>10. CASE ScanStage
  BY <1>10 DEF ScanStage, ScanUnchanged
<1>11. CASE ScanCancelled
  BY <1>11 DEF ScanCancelled, Raise, ScanUnchanged
<1>12. CASE ScanFails
  BY <1>12 DEF ScanFails, Raise, ScanUnchanged
<1>13. CASE StartIndex
  BY <1>13 DEF StartIndex, ScanUnchanged
<1>14. CASE IndexCompletes
  BY <1>14 DEF IndexCompletes, ScanUnchanged
<1>15. CASE IndexFails
  BY <1>15 DEF IndexFails, ScanUnchanged
<1>16. CASE FinalCheck
  BY <1>16 DEF FinalCheck, ScanUnchanged
<1>17. CASE PublishGet
  BY <1>17 DEF PublishGet, Raise, ScanUnchanged
<1>18. CASE PublishLock
  BY <1>18 DEF PublishLock
<1>19. CASE PublishAdvertise
  BY <1>19 DEF PublishAdvertise
<1>20. CASE FinishGet
  BY <1>20 DEF FinishGet, ScanUnchanged
<1>21. CASE Cancel
  BY <1>21 DEF Cancel, CancelJob
<1>22. CASE CollectJob
  BY <1>22 DEF CollectJob, RemoveJob
<1>23. ASSUME NEW r \in Requests, DeleteJob(r) PROVE StatusInv'
  BY <1>23, HoldReqs, NoReportType, UnsetType, RequestType
  DEF DeleteJob, RequestPc
<1>24. ASSUME NEW r \in Requests, DeleteJobAct(r) PROVE StatusInv'
  BY <1>24, ReplyReqs, RequestType DEF DeleteJobAct, CancelJob, RemoveJob
<1>25. ASSUME NEW r \in Requests, DeleteAnalysis(r) PROVE StatusInv'
  BY <1>25, HoldReqs, NoReportType, UnsetType, RequestType
  DEF DeleteAnalysis, RequestPc
<1>26. ASSUME NEW r \in Requests, DeleteAnalysisGuard(r) PROVE StatusInv'
  BY <1>26, HoldReqs, NoReportType, UnsetType, ReplyReqs, RequestType
  DEF DeleteAnalysisGuard, RequestPc
<1>27. ASSUME NEW r \in Requests, UnlinkReport(r) PROVE StatusInv'
  BY <1>27, HoldReqs, NoReportType, UnsetType, ReplyReqs, RequestType
  DEF UnlinkReport, RequestPc
<1>28. ASSUME NEW r \in Requests, UnlinkIndex(r) PROVE StatusInv'
  BY <1>28, ReplyReqs, RequestType DEF UnlinkIndex
<1>29. ASSUME NEW r \in Requests, Annotate(r) PROVE StatusInv'
  BY <1>29, HoldReqs, NoReportType, UnsetType, RequestType
  DEF Annotate, RequestPc
<1>30. ASSUME NEW r \in Requests, AnnotateRead(r) PROVE StatusInv'
  BY <1>30, HoldReqs, NoReportType, UnsetType, ReplyReqs, RequestType
  DEF AnnotateRead, RequestPc
<1>31. ASSUME NEW r \in Requests, AnnotateSave(r) PROVE StatusInv'
  BY <1>31, ReplyReqs, RequestType DEF AnnotateSave
<1>32. ASSUME NEW r \in Requests, AttachSource(r) PROVE StatusInv'
  BY <1>32, HoldReqs, NoReportType, UnsetType, RequestType
  DEF AttachSource, RequestPc
<1>33. ASSUME NEW r \in Requests, AttachSourceGuard(r) PROVE StatusInv'
  BY <1>33, HoldReqs, NoReportType, UnsetType, ReplyReqs, RequestType
  DEF AttachSourceGuard, RequestPc
<1>34. ASSUME NEW r \in Requests, AttachSourceSave(r) PROVE StatusInv'
  BY <1>34, ReplyReqs, RequestType DEF AttachSourceSave
<1>35. CASE UNCHANGED vars
  BY <1>35 DEF vars
<1>. QED
  BY <1>1, <1>2, <1>3, <1>4, <1>5, <1>6, <1>7, <1>8, <1>9, <1>10, <1>11,
     <1>12, <1>13, <1>14, <1>15, <1>16, <1>17, <1>18, <1>19, <1>20, <1>21,
     <1>22, <1>23, <1>24, <1>25, <1>26, <1>27, <1>28, <1>29, <1>30, <1>31,
     <1>32, <1>33, <1>34, <1>35
  DEF Next, WorkerStep, RequestArrives, RequestStep

-----------------------------------------------------------------------------
(* While the job runs the writers without the lock are kept out.  The lock *)
(* (LockInv) makes what a writer inside it has read be what is saved.      *)

(* The publisher has read what it overwrites. *)
LEMMA RunningSave ==
    ASSUME LockInv, RunningInv, PublishSave PROVE RunningInv'
<1>1. pc = "save" /\ pc' # "save" /\ UNCHANGED <<status, reqs, deleted>>
  BY DEF PublishSave, Raise, storeVars
<1>2. ASSUME NEW r \in Requests PROVE reqs[r].pc \notin {"notes", "capture"}
  BY <1>1, NamesAssumption DEF LockInv
<1>3. status = "running" => lost' = lost
  BY <1>1 DEF RunningInv, PublishSave
<1>. QED
  BY <1>1, <1>2, <1>3 DEF RunningInv

(* While the job runs an annotation overwrites what it has read. *)
LEMMA RunningAnnotateSave ==
    ASSUME TypeOK, LockInv, RunningInv, NEW r \in Requests, AnnotateSave(r)
    PROVE  RunningInv'
<1>1. Reply(r) /\ UNCHANGED <<status, pc, deleted>>
  BY DEF AnnotateSave, storeVars, workerVars
<1>2. reqs[r].pc \in {"notes", "capture"} /\ lock = r /\ pc # "save"
  BY NamesAssumption DEF AnnotateSave, LockInv
<1>3. status = "running" => lost' = lost
  BY <1>2 DEF RunningInv, AnnotateSave
<1>4. ASSUME NEW q \in Requests, q # r
      PROVE  reqs[q].pc \notin {"notes", "capture"} /\ reqs'[q] = reqs[q]
  BY <1>1, <1>2, <1>4, ReplyReqs DEF LockInv
<1>5. reqs'[r].pc = "idle"
  BY <1>1, ReplyReqs
<1>. QED
  BY <1>1, <1>2, <1>3, <1>4, <1>5 DEF RunningInv

(* DELETE of a job starts none and touches no report. *)
LEMMA RunningDeleteJob ==
    ASSUME TypeOK, RunningInv, NEW r \in Requests, DeleteJobAct(r) PROVE RunningInv'
<1>1. Reply(r) /\ UNCHANGED <<disk, base, pc, lost, deleted>>
  BY DEF DeleteJobAct, workerVars, localVars, historyVars
<1>2. status' = "running" => status = "running"
  BY DEF DeleteJobAct, CancelJob, RemoveJob
<1>3. ASSUME NEW q \in Requests
      PROVE  reqs'[q] = reqs[q] \/ reqs'[q].pc = "idle"
  BY <1>1, ReplyReqs
<1>. QED
  BY <1>1, <1>2, <1>3 DEF RunningInv

(* Every step keeps RunningInv. *)
LEMMA RunningStep == IInv /\ [Next]_vars => RunningInv'
<1>. SUFFICES ASSUME IInv, [Next]_vars PROVE RunningInv'
  OBVIOUS
<1>1. CASE PublishSave
  BY <1>1, RunningSave DEF IInv
<1>2. ASSUME NEW r \in Requests, DeleteJobAct(r) PROVE RunningInv'
  BY <1>2, RunningDeleteJob DEF IInv
<1>3. ASSUME NEW r \in Requests, AnnotateSave(r) PROVE RunningInv'
  BY <1>3, RunningAnnotateSave DEF IInv
<1>. USE DEF IInv, RunningInv, BeforeInv, LockInv, StatusInv, BackgroundStatus,
             Terminal, Idle, Saved, NoReport, storeVars, fileVars, localVars,
             workerVars, boundVars, historyVars, Active, Scanning, Publishing
<1>4. CASE StartJob
  BY <1>4 DEF StartJob, Fault
<1>5. CASE UploadFails
  BY <1>5 DEF UploadFails
<1>6. CASE ScanStage
  BY <1>6 DEF ScanStage, ScanUnchanged
<1>7. CASE ScanCancelled
  BY <1>7 DEF ScanCancelled, Raise, ScanUnchanged
<1>8. CASE ScanFails
  BY <1>8 DEF ScanFails, Raise, ScanUnchanged
<1>9. CASE StartIndex
  BY <1>9 DEF StartIndex, ScanUnchanged
<1>10. CASE IndexCompletes
  BY <1>10 DEF IndexCompletes, ScanUnchanged
<1>11. CASE IndexFails
  BY <1>11 DEF IndexFails, ScanUnchanged
<1>12. CASE FinalCheck
  BY <1>12 DEF FinalCheck, ScanUnchanged
<1>13. CASE PublishGet
  BY <1>13 DEF PublishGet, Raise, ScanUnchanged
<1>14. CASE PublishLock
  BY <1>14 DEF PublishLock
<1>15. CASE PublishAdvertise
  BY <1>15 DEF PublishAdvertise
<1>16. CASE PublishRecord
  BY <1>16
  DEF PublishRecord, PersistJob, PersistRaises, PersistUnchanged, Raise, Fault
<1>17. CASE FinishGet
  BY <1>17 DEF FinishGet, ScanUnchanged
<1>18. CASE FinishStatus
  BY <1>18 DEF FinishStatus
<1>19. CASE FinishPersist
  BY <1>19
  DEF FinishPersist, PersistJob, PersistRaises, PersistUnchanged, Raise, Fault
<1>20. CASE RunExit
  BY <1>20 DEF RunExit, ForgetLocals
<1>21. CASE Cancel
  BY <1>21 DEF Cancel, CancelJob
<1>22. CASE CollectJob
  BY <1>22 DEF CollectJob, RemoveJob
<1>23. CASE Restart
  BY <1>23 DEF Restart, ForgetLocals
<1>24. ASSUME NEW r \in Requests, DeleteJob(r) PROVE RunningInv'
  BY <1>24, HoldReqs, NoReportType, UnsetType, RequestType
  DEF DeleteJob, RequestPc
<1>25. ASSUME NEW r \in Requests, DeleteAnalysis(r) PROVE RunningInv'
  BY <1>25, HoldReqs, NoReportType, UnsetType, RequestType
  DEF DeleteAnalysis, RequestPc
<1>26. ASSUME NEW r \in Requests, DeleteAnalysisGuard(r) PROVE RunningInv'
  BY <1>26, HoldReqs, NoReportType, UnsetType, ReplyReqs, RequestType
  DEF DeleteAnalysisGuard, RequestPc
<1>27. ASSUME NEW r \in Requests, UnlinkReport(r) PROVE RunningInv'
  BY <1>27, HoldReqs, NoReportType, UnsetType, ReplyReqs, RequestType
  DEF UnlinkReport, RequestPc
<1>28. ASSUME NEW r \in Requests, UnlinkIndex(r) PROVE RunningInv'
  BY <1>28, ReplyReqs, RequestType DEF UnlinkIndex
<1>29. ASSUME NEW r \in Requests, Annotate(r) PROVE RunningInv'
  BY <1>29, HoldReqs, NoReportType, UnsetType, RequestType
  DEF Annotate, RequestPc
<1>30. ASSUME NEW r \in Requests, AnnotateRead(r) PROVE RunningInv'
  BY <1>30, HoldReqs, NoReportType, UnsetType, ReplyReqs, RequestType
  DEF AnnotateRead, RequestPc
<1>31. ASSUME NEW r \in Requests, AttachSource(r) PROVE RunningInv'
  BY <1>31, HoldReqs, NoReportType, UnsetType, RequestType
  DEF AttachSource, RequestPc
<1>32. ASSUME NEW r \in Requests, AttachSourceGuard(r) PROVE RunningInv'
  BY <1>32, HoldReqs, NoReportType, UnsetType, ReplyReqs, RequestType
  DEF AttachSourceGuard, RequestPc
<1>33. ASSUME NEW r \in Requests, AttachSourceSave(r) PROVE RunningInv'
  BY <1>33, ReplyReqs, RequestType DEF AttachSourceSave
<1>34. ASSUME NEW r \in Requests, RequestSaveFails(r) PROVE RunningInv'
  BY <1>34, ReplyReqs, RequestType DEF RequestSaveFails, Fault
<1>35. CASE UNCHANGED vars
  BY <1>35 DEF vars
<1>. QED
  BY <1>1, <1>2, <1>3, <1>4, <1>5, <1>6, <1>7, <1>8, <1>9, <1>10, <1>11,
     <1>12, <1>13, <1>14, <1>15, <1>16, <1>17, <1>18, <1>19, <1>20, <1>21,
     <1>22, <1>23, <1>24, <1>25, <1>26, <1>27, <1>28, <1>29, <1>30, <1>31,
     <1>32, <1>33, <1>34, <1>35
  DEF Next, WorkerStep, RequestArrives, RequestStep

-----------------------------------------------------------------------------
(* Annotations pass from copy to copy of the report and are not dropped.   *)

(* What the operators on reports do to the annotations. *)
LEMMA AnnotationsOf ==
    ASSUME NEW x
    PROVE  /\ Numbered(x).notes = x.notes /\ Numbered(x).capture = x.capture
           /\ CarriedOver(x).notes = Carried(disk.notes, x.notes)
           /\ CarriedOver(x).capture = Carried(disk.capture, x.capture)
  BY DEF Numbered, CarriedOver

(* A checkpoint's draft has no annotation yet. *)
LEMMA AckedDraft ==
    ASSUME AckedInv, ScanStage \/ IndexCompletes \/ IndexFails PROVE AckedInv'
<1>1. /\ UNCHANGED <<disk, result, reqs, acked, lost, deleted>>
      /\ pc' = "publish" /\ draft'.notes = Unset /\ draft'.capture = Unset
  BY DEF ScanStage, IndexCompletes, IndexFails, ScanUnchanged, Snapshot, storeVars, historyVars
<1>. QED
  BY <1>1 DEF AckedInv, Heard, AnnotationsKept

(* Numbering a draft keeps its annotations. *)
LEMMA AckedGet ==
    ASSUME AckedInv, PublishGet PROVE AckedInv'
<1>1. /\ UNCHANGED <<disk, result, reqs, acked, lost, deleted>> /\ pc' # "save"
  BY DEF PublishGet, Raise, ScanUnchanged, storeVars, historyVars
<1>2. Heard(draft)'
  BY <1>1, AnnotationsOf DEF PublishGet, Raise, AckedInv, Heard, NoReport
<1>. QED
  BY <1>1, <1>2 DEF AckedInv, Heard, AnnotationsKept

(* The draft takes the annotations of the saved report. *)
LEMMA AckedLock ==
    ASSUME AckedInv, PublishLock PROVE AckedInv'
<1>1. /\ UNCHANGED <<disk, result, reqs, acked, lost, deleted>> /\ base' = disk
      /\ draft' = CarriedOver(draft)
  BY DEF PublishLock, fileVars, storeVars, historyVars
<1>2. /\ base'.notes # Unset => draft'.notes = base'.notes
      /\ base'.capture # Unset => draft'.capture = base'.capture
  BY <1>1, AnnotationsOf DEF Carried
<1>3. Heard(draft)'
  BY <1>1, AnnotationsOf DEF Carried, AckedInv, Heard
<1>. QED
  BY <1>1, <1>2, <1>3 DEF AckedInv, Heard, AnnotationsKept

(* publish() saves the annotations it has read. *)
LEMMA AckedSave ==
    ASSUME AckedInv, PublishSave PROVE AckedInv'
<1>1. UNCHANGED <<result, reqs, acked, deleted>> /\ pc = "save" /\ pc' # "save"
  BY DEF PublishSave, Raise, storeVars
<1>2. CASE disk' = draft /\ draft' = draft /\ lost' = IF disk = base THEN lost ELSE TRUE
  <2>1. ASSUME ~lost', ~deleted'
        PROVE  draft.notes = acked.notes /\ draft.capture = acked.capture
    BY <1>1, <1>2, <2>1 DEF AckedInv, AnnotationsKept, Heard
  <2>. QED
    BY <1>1, <1>2, <2>1 DEF AckedInv, AnnotationsKept, Heard
<1>3. CASE UNCHANGED <<disk, lost>> /\ draft' = NoReport
  BY <1>1, <1>3 DEF AckedInv, AnnotationsKept, Heard, NoReport
<1>. QED
  BY <1>2, <1>3 DEF PublishSave, Raise, localVars

(* Removing a job drops copies of annotations, never the saved. *)
LEMMA AckedDeleteJob ==
    ASSUME TypeOK, AckedInv, NEW r \in Requests, DeleteJobAct(r) PROVE AckedInv'
<1>1. /\ Reply(r) /\ UNCHANGED <<disk, draft, base, pc, acked, lost, deleted>>
  BY DEF DeleteJobAct, workerVars, localVars, historyVars
<1>2. Heard(result)'
  <2>1. result' = result \/ result' = NoReport
    BY DEF DeleteJobAct, CancelJob, RemoveJob
  <2>. QED
    BY <1>1, <2>1 DEF AckedInv, Heard, NoReport
<1>3. ASSUME NEW q \in Requests
      PROVE  Heard(reqs[q].copy)' /\ (reqs'[q].pc \in {"notes", "capture"} => reqs'[q].value # Unset)
  BY <1>1, ReplyReqs DEF AckedInv, Heard, NoReport
<1>. QED
  BY <1>1, <1>2, <1>3 DEF AckedInv, Heard, AnnotationsKept

(* A handler's copy has the annotations of the saved report. *)
LEMMA AckedAnnotate ==
    ASSUME TypeOK, AckedInv, NEW r \in Requests, AnnotateRead(r) PROVE AckedInv'
<1>1. UNCHANGED <<disk, result, draft, base, pc, acked, lost, deleted>>
  BY DEF AnnotateRead, storeVars, fileVars, workerVars, localVars, historyVars
<1>2. ASSUME NEW q \in Requests
      PROVE  Heard(reqs[q].copy)' /\ (reqs'[q].pc \in {"notes", "capture"} => reqs'[q].value # Unset)
  <2>1. CASE \E field \in {"notes", "capture"}, v \in Values : Hold(r, field, disk, v)
    BY <1>1, <2>1, HoldReqs, NamesAssumption DEF AckedInv, Heard
  <2>2. CASE Reply(r)
    BY <1>1, <2>2, ReplyReqs DEF AckedInv, Heard, NoReport
  <2>. QED
    BY <2>1, <2>2 DEF AnnotateRead
<1>. QED
  BY <1>1, <1>2 DEF AckedInv, Heard, AnnotationsKept

(* An annotation is saved when it is acknowledged. *)
LEMMA AckedAnnotateSave ==
    ASSUME TypeOK, LockInv, AckedInv, NEW r \in Requests, AnnotateSave(r) PROVE AckedInv'
<1>1. UNCHANGED <<result, draft, base, pc, deleted>> /\ Reply(r)
  BY DEF AnnotateSave, storeVars, workerVars, localVars
<1>2. reqs[r].value # Unset /\ Heard(reqs[r].copy)
  BY DEF AckedInv, AnnotateSave
<1>3. /\ acked.notes # Unset => acked'.notes # Unset
      /\ acked.capture # Unset => acked'.capture # Unset
  BY <1>2 DEF AnnotateSave
<1>4. Heard(disk)' /\ AnnotationsKept'
  BY <1>1, <1>2, <1>3 DEF AnnotateSave, WithNotes, WithCapture, AckedInv, AnnotationsKept, Heard
<1>5. ASSUME NEW q \in Requests
      PROVE  Heard(reqs[q].copy)' /\ (reqs'[q].pc \in {"notes", "capture"} => reqs'[q].value # Unset)
  BY <1>1, <1>3, ReplyReqs DEF AckedInv, Heard, NoReport
<1>. QED
  BY <1>1, <1>3, <1>4, <1>5 DEF AckedInv, Heard

(* A source is attached to the report as it was read. *)
LEMMA AckedAttachSave ==
    ASSUME TypeOK, AckedInv, NEW r \in Requests, AttachSourceSave(r) PROVE AckedInv'
<1>1. UNCHANGED <<result, draft, base, pc, acked, deleted>> /\ Reply(r)
  BY DEF AttachSourceSave, storeVars, workerVars, localVars
<1>2. disk'.notes = reqs[r].copy.notes /\ disk'.capture = reqs[r].copy.capture
  BY DEF AttachSourceSave, WithSource
<1>3. Heard(disk)' /\ AnnotationsKept'
  BY <1>1, <1>2 DEF AttachSourceSave, AckedInv, AnnotationsKept, Heard
<1>4. ASSUME NEW q \in Requests
      PROVE  Heard(reqs[q].copy)' /\ (reqs'[q].pc \in {"notes", "capture"} => reqs'[q].value # Unset)
  BY <1>1, ReplyReqs DEF AckedInv, Heard, NoReport
<1>. QED
  BY <1>1, <1>3, <1>4 DEF AckedInv, Heard

(* Every step keeps AckedInv. *)
LEMMA AckedStep == IInv /\ [Next]_vars => AckedInv'
<1>. SUFFICES ASSUME IInv, [Next]_vars PROVE AckedInv'
  OBVIOUS
<1>1. CASE ScanStage \/ IndexCompletes \/ IndexFails
  BY <1>1, AckedDraft DEF IInv
<1>2. CASE PublishGet
  BY <1>2, AckedGet DEF IInv
<1>3. CASE PublishLock
  BY <1>3, AckedLock DEF IInv
<1>4. CASE PublishSave
  BY <1>4, AckedSave DEF IInv
<1>5. ASSUME NEW r \in Requests, DeleteJobAct(r) PROVE AckedInv'
  BY <1>5, AckedDeleteJob DEF IInv
<1>6. ASSUME NEW r \in Requests, AnnotateRead(r) PROVE AckedInv'
  BY <1>6, AckedAnnotate DEF IInv
<1>7. ASSUME NEW r \in Requests, AnnotateSave(r) PROVE AckedInv'
  BY <1>7, AckedAnnotateSave DEF IInv
<1>8. ASSUME NEW r \in Requests, AttachSourceSave(r) PROVE AckedInv'
  BY <1>8, AckedAttachSave DEF IInv
<1>. USE DEF IInv, AckedInv, BeforeInv, Heard, AnnotationsKept, NoReport, Idle,
             storeVars, fileVars, localVars, workerVars, boundVars,
             historyVars, Active, Scanning, Publishing
<1>9. CASE StartJob
  BY <1>9 DEF StartJob, Fault
<1>10. CASE UploadFails
  BY <1>10 DEF UploadFails
<1>11. CASE ScanCancelled
  BY <1>11 DEF ScanCancelled, Raise, ScanUnchanged
<1>12. CASE ScanFails
  BY <1>12 DEF ScanFails, Raise, ScanUnchanged
<1>13. CASE StartIndex
  BY <1>13 DEF StartIndex, ScanUnchanged
<1>14. CASE FinalCheck
  BY <1>14 DEF FinalCheck, ScanUnchanged
<1>15. CASE PublishAdvertise
  BY <1>15 DEF PublishAdvertise
<1>16. CASE PublishRecord
  BY <1>16
  DEF PublishRecord, PersistJob, PersistRaises, PersistUnchanged, Raise, Fault
<1>17. CASE FinishGet
  BY <1>17 DEF FinishGet, ScanUnchanged
<1>18. CASE FinishStatus
  BY <1>18 DEF FinishStatus
<1>19. CASE FinishPersist
  BY <1>19
  DEF FinishPersist, PersistJob, PersistRaises, PersistUnchanged, Raise, Fault
<1>20. CASE RunExit
  BY <1>20 DEF RunExit, ForgetLocals
<1>21. CASE Cancel
  BY <1>21 DEF Cancel, CancelJob
<1>22. CASE CollectJob
  BY <1>22 DEF CollectJob, RemoveJob
<1>23. CASE Restart
  BY <1>23 DEF Restart, ForgetLocals
<1>24. ASSUME NEW r \in Requests, DeleteJob(r) PROVE AckedInv'
  BY <1>24, HoldReqs, NoReportType, UnsetType, RequestType
  DEF DeleteJob, RequestPc
<1>25. ASSUME NEW r \in Requests, DeleteAnalysis(r) PROVE AckedInv'
  BY <1>25, HoldReqs, NoReportType, UnsetType, RequestType
  DEF DeleteAnalysis, RequestPc
<1>26. ASSUME NEW r \in Requests, DeleteAnalysisGuard(r) PROVE AckedInv'
  BY <1>26, HoldReqs, NoReportType, UnsetType, ReplyReqs, RequestType
  DEF DeleteAnalysisGuard, RequestPc
<1>27. ASSUME NEW r \in Requests, UnlinkReport(r) PROVE AckedInv'
  BY <1>27, HoldReqs, NoReportType, UnsetType, ReplyReqs, RequestType
  DEF UnlinkReport, RequestPc
<1>28. ASSUME NEW r \in Requests, UnlinkIndex(r) PROVE AckedInv'
  BY <1>28, ReplyReqs, RequestType DEF UnlinkIndex
<1>29. ASSUME NEW r \in Requests, Annotate(r) PROVE AckedInv'
  BY <1>29, HoldReqs, NoReportType, UnsetType, RequestType
  DEF Annotate, RequestPc
<1>30. ASSUME NEW r \in Requests, AttachSource(r) PROVE AckedInv'
  BY <1>30, HoldReqs, NoReportType, UnsetType, RequestType
  DEF AttachSource, RequestPc
<1>31. ASSUME NEW r \in Requests, AttachSourceGuard(r) PROVE AckedInv'
  BY <1>31, HoldReqs, NoReportType, UnsetType, ReplyReqs, RequestType
  DEF AttachSourceGuard, RequestPc
<1>32. ASSUME NEW r \in Requests, RequestSaveFails(r) PROVE AckedInv'
  BY <1>32, ReplyReqs, RequestType DEF RequestSaveFails, Fault
<1>33. CASE UNCHANGED vars
  BY <1>33 DEF vars
<1>. QED
  BY <1>1, <1>2, <1>3, <1>4, <1>5, <1>6, <1>7, <1>8, <1>9, <1>10, <1>11,
     <1>12, <1>13, <1>14, <1>15, <1>16, <1>17, <1>18, <1>19, <1>20, <1>21,
     <1>22, <1>23, <1>24, <1>25, <1>26, <1>27, <1>28, <1>29, <1>30, <1>31,
     <1>32, <1>33
  DEF Next, WorkerStep, RequestArrives, RequestStep

-----------------------------------------------------------------------------
(* The revisions of the saved report, the store and the .job file.         *)

(* What the operators on reports do to the revision. *)
LEMMA RevisionOf ==
    ASSUME NEW x
    PROVE  Numbered(x).rev = result.rev + 1 /\ CarriedOver(x).rev = x.rev
  BY DEF Numbered, CarriedOver

(* Revisions are natural numbers. *)
LEMMA RevisionTypes ==
    TypeOK => /\ result.rev \in Nat /\ disk.rev \in Nat /\ draft.rev \in Nat
              /\ jobfile.rev \in Nat
  BY DEF TypeOK, Report, JobFile

(* The next revision is beyond the saved one. *)
LEMMA RevisionGet ==
    ASSUME TypeOK, RevisionInv, PublishGet PROVE RevisionInv'
<1>1. UNCHANGED <<status, result, disk, jobfile, lost, deleted>> /\ pc = "publish"
  BY DEF PublishGet, ScanUnchanged, storeVars, historyVars
<1>2. CASE pc' = "lock" /\ status # "none" /\ draft' = Numbered(draft)
  BY <1>1, <1>2, RevisionOf, RevisionTypes DEF RevisionInv
<1>3. CASE pc' \in {"finish", "exit"}
  BY <1>1, <1>3 DEF RevisionInv
<1>. QED
  BY <1>2, <1>3 DEF PublishGet, Raise

(* The draft's revision is carried through the lock. *)
LEMMA RevisionLock ==
    ASSUME RevisionInv, PublishLock PROVE RevisionInv'
<1>1. /\ UNCHANGED <<status, result, disk, jobfile, lost, deleted>>
      /\ pc = "lock" /\ pc' = "save" /\ draft' = CarriedOver(draft)
  BY DEF PublishLock, storeVars, fileVars, historyVars
<1>. QED
  BY <1>1, RevisionOf DEF RevisionInv

(* The saved revision is the draft's. *)
LEMMA RevisionSave ==
    ASSUME TypeOK, RevisionInv, PublishSave PROVE RevisionInv'
<1>1. UNCHANGED <<status, result, jobfile, deleted>> /\ pc = "save"
  BY DEF PublishSave, storeVars
<1>2. CASE disk' = draft /\ draft' = draft /\ pc' = "advertise"
           /\ lost' = IF disk = base THEN lost ELSE TRUE
  BY <1>1, <1>2, RevisionTypes DEF RevisionInv
<1>3. CASE UNCHANGED <<disk, lost>> /\ pc' \in {"finish", "exit"}
  BY <1>1, <1>3 DEF RevisionInv
<1>. QED
  BY <1>2, <1>3 DEF PublishSave, Raise, localVars

(* What is advertised has been saved. *)
LEMMA RevisionAdvertise ==
    ASSUME TypeOK, RevisionInv, PublishAdvertise PROVE RevisionInv'
<1>1. /\ UNCHANGED <<status, jobfile, disk, lost, deleted>>
      /\ pc = "advertise" /\ pc' = "record"
      /\ result' = IF status = "none" THEN result ELSE draft
  BY DEF PublishAdvertise, fileVars, historyVars
<1>. QED
  BY <1>1, RevisionTypes DEF RevisionInv

(* A job that is forgotten advertises nothing. *)
LEMMA RevisionForgotten ==
    ASSUME TypeOK, RevisionInv,
           UNCHANGED <<jobfile, disk, lost, deleted>>,
           \/ UNCHANGED <<status, result, pc, draft>>
           \/ status' = "none" /\ result' = NoReport /\ UNCHANGED <<pc, draft>>
           \/ status' = "none" /\ result' = NoReport /\ pc' = "dead"
    PROVE  RevisionInv'
  BY RevisionTypes DEF RevisionInv, NoReport

(* DELETE of a job saves and advertises no revision. *)
LEMMA RevisionDeleteJob ==
    ASSUME TypeOK, RevisionInv, NEW r \in Requests, DeleteJobAct(r) PROVE RevisionInv'
<1>1. UNCHANGED <<jobfile, disk, pc, draft, lost, deleted>>
  BY DEF DeleteJobAct, workerVars, localVars, historyVars
<1>2. \/ UNCHANGED <<status, result>>
      \/ status' = "none" /\ result' = NoReport
  BY DEF DeleteJobAct, CancelJob, RemoveJob
<1>. QED
  BY <1>1, <1>2, RevisionForgotten

(* Collection and restart save and advertise no revision. *)
LEMMA RevisionRemoved ==
    ASSUME TypeOK, RevisionInv, CollectJob \/ Restart PROVE RevisionInv'
<1>1. /\ UNCHANGED <<jobfile, disk, lost, deleted>>
      /\ status' = "none" /\ result' = NoReport
      /\ pc' = "dead" \/ UNCHANGED <<pc, draft>>
  BY DEF CollectJob, RemoveJob, Restart, fileVars, workerVars, localVars, historyVars
<1>. QED
  BY <1>1, RevisionForgotten

(* A handler's save changes the annotations of the report it read. *)
LEMMA HandlerSaves ==
    ASSUME NEW r \in Requests, AnnotateSave(r) \/ AttachSourceSave(r)
    PROVE  /\ disk'.rev = reqs[r].copy.rev
           /\ disk'.index = reqs[r].copy.index
           /\ reqs[r].copy.closed => disk'.closed
           /\ status = "running" => (disk'.closed <=> reqs[r].copy.closed)
           /\ lost' = IF disk = reqs[r].copy THEN lost ELSE TRUE
           /\ UNCHANGED <<status, result, jobfile, index, pc, step, final, indexed, draft, deleted>>
           /\ Reply(r)
<1>1. /\ reqs[r].copy.closed => Closed(reqs[r].copy)
      /\ status = "running" => (Closed(reqs[r].copy) <=> reqs[r].copy.closed)
  BY DEF Closed, BackgroundStatus
<1>2. CASE AnnotateSave(r)
  BY <1>1, <1>2 DEF AnnotateSave, WithNotes, WithCapture, storeVars, workerVars, localVars
<1>3. CASE AttachSourceSave(r)
  BY <1>1, <1>3 DEF AttachSourceSave, WithSource, storeVars, workerVars, localVars
<1>. QED
  BY <1>2, <1>3

(* A handler's save that loses nothing keeps all but the annotations. *)
LEMMA HandlerSavesFresh ==
    ASSUME NEW r \in Requests, AnnotateSave(r) \/ AttachSourceSave(r), ~lost'
    PROVE  /\ ~lost
           /\ disk'.rev = disk.rev
           /\ disk'.index = disk.index
           /\ disk.closed => disk'.closed
<1>1. ~lost /\ disk = reqs[r].copy
  BY HandlerSaves
<1>. QED
  BY <1>1, HandlerSaves

(* A handler saves no new revision. *)
LEMMA RevisionHandlerSave ==
    ASSUME RevisionInv, NEW r \in Requests, AnnotateSave(r) \/ AttachSourceSave(r)
    PROVE  RevisionInv'
  BY HandlerSaves DEF RevisionInv

(* Every step keeps RevisionInv. *)
LEMMA RevisionStep == IInv /\ [Next]_vars => RevisionInv'
<1>. SUFFICES ASSUME IInv, [Next]_vars PROVE RevisionInv'
  OBVIOUS
<1>1. CASE PublishGet
  BY <1>1, RevisionGet DEF IInv
<1>2. CASE PublishLock
  BY <1>2, RevisionLock DEF IInv
<1>3. CASE PublishSave
  BY <1>3, RevisionSave DEF IInv
<1>4. CASE PublishAdvertise
  BY <1>4, RevisionAdvertise DEF IInv
<1>5. CASE CollectJob \/ Restart
  BY <1>5, RevisionRemoved DEF IInv
<1>6. ASSUME NEW r \in Requests, DeleteJobAct(r) PROVE RevisionInv'
  BY <1>6, RevisionDeleteJob DEF IInv
<1>7. ASSUME NEW r \in Requests, AnnotateSave(r) \/ AttachSourceSave(r) PROVE RevisionInv'
  BY <1>7, RevisionHandlerSave DEF IInv
<1>. USE DEF IInv, RevisionInv, BeforeInv, StatusInv, NoReport, storeVars,
             fileVars, localVars, workerVars, boundVars, historyVars, Active,
             Scanning, Publishing
<1>8. CASE StartJob
  BY <1>8 DEF StartJob, Fault
<1>9. CASE UploadFails
  BY <1>9 DEF UploadFails
<1>10. CASE ScanStage
  BY <1>10 DEF ScanStage, ScanUnchanged
<1>11. CASE ScanCancelled
  BY <1>11 DEF ScanCancelled, Raise, ScanUnchanged
<1>12. CASE ScanFails
  BY <1>12 DEF ScanFails, Raise, ScanUnchanged
<1>13. CASE StartIndex
  BY <1>13 DEF StartIndex, ScanUnchanged
<1>14. CASE IndexCompletes
  BY <1>14 DEF IndexCompletes, ScanUnchanged
<1>15. CASE IndexFails
  BY <1>15 DEF IndexFails, ScanUnchanged
<1>16. CASE FinalCheck
  BY <1>16 DEF FinalCheck, ScanUnchanged
<1>17. CASE PublishRecord
  BY <1>17
  DEF PublishRecord, PersistJob, PersistRaises, PersistUnchanged, Raise, Fault
<1>18. CASE FinishGet
  BY <1>18 DEF FinishGet, ScanUnchanged
<1>19. CASE FinishStatus
  BY <1>19 DEF FinishStatus
<1>20. CASE FinishPersist
  BY <1>20
  DEF FinishPersist, PersistJob, PersistRaises, PersistUnchanged, Raise, Fault
<1>21. CASE RunExit
  BY <1>21 DEF RunExit, ForgetLocals
<1>22. CASE Cancel
  BY <1>22 DEF Cancel, CancelJob
<1>23. ASSUME NEW r \in Requests, DeleteJob(r) PROVE RevisionInv'
  BY <1>23, HoldReqs, NoReportType, UnsetType, RequestType
  DEF DeleteJob, RequestPc
<1>24. ASSUME NEW r \in Requests, DeleteAnalysis(r) PROVE RevisionInv'
  BY <1>24, HoldReqs, NoReportType, UnsetType, RequestType
  DEF DeleteAnalysis, RequestPc
<1>25. ASSUME NEW r \in Requests, DeleteAnalysisGuard(r) PROVE RevisionInv'
  BY <1>25, HoldReqs, NoReportType, UnsetType, ReplyReqs, RequestType
  DEF DeleteAnalysisGuard, RequestPc
<1>26. ASSUME NEW r \in Requests, UnlinkReport(r) PROVE RevisionInv'
  BY <1>26, HoldReqs, NoReportType, UnsetType, ReplyReqs, RequestType
  DEF UnlinkReport, RequestPc
<1>27. ASSUME NEW r \in Requests, UnlinkIndex(r) PROVE RevisionInv'
  BY <1>27, ReplyReqs, RequestType DEF UnlinkIndex
<1>28. ASSUME NEW r \in Requests, Annotate(r) PROVE RevisionInv'
  BY <1>28, HoldReqs, NoReportType, UnsetType, RequestType
  DEF Annotate, RequestPc
<1>29. ASSUME NEW r \in Requests, AnnotateRead(r) PROVE RevisionInv'
  BY <1>29, HoldReqs, NoReportType, UnsetType, ReplyReqs, RequestType
  DEF AnnotateRead, RequestPc
<1>30. ASSUME NEW r \in Requests, AttachSource(r) PROVE RevisionInv'
  BY <1>30, HoldReqs, NoReportType, UnsetType, RequestType
  DEF AttachSource, RequestPc
<1>31. ASSUME NEW r \in Requests, AttachSourceGuard(r) PROVE RevisionInv'
  BY <1>31, HoldReqs, NoReportType, UnsetType, ReplyReqs, RequestType
  DEF AttachSourceGuard, RequestPc
<1>32. ASSUME NEW r \in Requests, RequestSaveFails(r) PROVE RevisionInv'
  BY <1>32, ReplyReqs, RequestType DEF RequestSaveFails, Fault
<1>33. CASE UNCHANGED vars
  BY <1>33 DEF vars
<1>. QED
  BY <1>1, <1>2, <1>3, <1>4, <1>5, <1>6, <1>7, <1>8, <1>9, <1>10, <1>11,
     <1>12, <1>13, <1>14, <1>15, <1>16, <1>17, <1>18, <1>19, <1>20, <1>21,
     <1>22, <1>23, <1>24, <1>25, <1>26, <1>27, <1>28, <1>29, <1>30, <1>31,
     <1>32, <1>33
  DEF Next, WorkerStep, RequestArrives, RequestStep

-----------------------------------------------------------------------------
(* Who names the object index.                                             *)

(* What the operators on reports do to the index. *)
LEMMA IndexOf ==
    ASSUME NEW x, NEW b \in BOOLEAN
    PROVE  /\ Numbered(x).index = x.index /\ CarriedOver(x).index = x.index
           /\ Snapshot(b).index = b
  BY DEF Numbered, CarriedOver, Snapshot

(* The handlers and the saved report decide whether an index is offered. *)
LEMMA OfferedKept ==
    ASSUME UNCHANGED <<disk, reqs>> PROVE Offered' = Offered
  BY DEF Offered

(* A checkpoint names the index if its stage is listed. *)
LEMMA IndexSnapshot ==
    ASSUME TypeOK, StatusInv, IndexInv, ScanStage PROVE IndexInv'
<1>1. /\ UNCHANGED <<status, result, disk, index, step, final, indexed, reqs, lost, deleted>>
      /\ pc = "scan" /\ pc' = "publish" /\ draft' = Snapshot(indexed)
  BY DEF ScanStage, ScanUnchanged, storeVars, historyVars
<1>2. final = "running" /\ draft'.index = indexed
  BY <1>1, IndexOf DEF StatusInv, Scanning, TypeOK
<1>3. UNCHANGED Offered
  BY <1>1, OfferedKept
<1>4. (\A r \in Requests : Names(reqs[r].copy))' /\ Names(disk)' /\ Names(result)'
  BY <1>1 DEF IndexInv, Names
<1>5. indexed => index = "complete"
  BY <1>1, <1>2 DEF IndexInv, Active, Scanning
<1>6. Names(draft)'
  BY <1>1, <1>2, <1>5 DEF Names
<1>7. indexed \/ (~Offered /\ ~result.index /\ ~draft.index)
  BY <1>1 DEF IndexInv, Active, Scanning
<1>8. step < IndexCheckpoint => ~indexed
  BY <1>1, CheckpointsAssumption DEF IndexInv, TypeOK
<1>. QED
  BY <1>1, <1>2, <1>3, <1>4, <1>5, <1>6, <1>7, <1>8 DEF IndexInv, Active, Publishing

(* A complete index is listed and named. *)
LEMMA IndexBuilt ==
    ASSUME TypeOK, StatusInv, IndexInv, IndexCompletes PROVE IndexInv'
<1>1. /\ UNCHANGED <<status, result, disk, step, final, reqs, lost, deleted>>
      /\ pc = "index" /\ pc' = "publish" /\ draft' = Snapshot(TRUE)
      /\ index' = "complete" /\ indexed' = TRUE
  BY DEF IndexCompletes, ScanUnchanged, storeVars, historyVars
<1>2. draft'.index = TRUE
  BY <1>1, IndexOf
<1>3. UNCHANGED Offered
  BY <1>1, OfferedKept
<1>4. (\A r \in Requests : Names(reqs[r].copy))' /\ Names(disk)' /\ Names(result)' /\ Names(draft)'
  BY <1>1 DEF Names
<1>5. step = IndexCheckpoint
  BY <1>1 DEF IndexInv
<1>6. ~(step' < IndexCheckpoint)
  BY <1>1, <1>5, CheckpointsAssumption
<1>. QED
  BY <1>1, <1>2, <1>3, <1>4, <1>6 DEF IndexInv

(* A failed build is neither listed nor named. *)
LEMMA IndexDropped ==
    ASSUME TypeOK, StatusInv, IndexInv, IndexFails PROVE IndexInv'
<1>1. /\ UNCHANGED <<status, result, disk, step, final, indexed, reqs, lost, deleted>>
      /\ pc = "index" /\ pc' = "publish" /\ draft' = Snapshot(FALSE)
      /\ index' = "none"
  BY DEF IndexFails, ScanUnchanged, storeVars, historyVars
<1>2. draft'.index = FALSE
  BY <1>1, IndexOf
<1>3. UNCHANGED Offered
  BY <1>1, OfferedKept
<1>4. ~indexed
  BY <1>1, CheckpointsAssumption DEF IndexInv
<1>5. ~Offered /\ ~result.index
  BY <1>1, <1>4 DEF IndexInv, Active, Scanning
<1>6. (\A r \in Requests : Names(reqs[r].copy))' /\ Names(disk)' /\ Names(result)' /\ Names(draft)'
  BY <1>1, <1>2, <1>5 DEF Names, Offered
<1>. QED
  BY <1>1, <1>2, <1>3, <1>4, <1>5, <1>6 DEF IndexInv

(* Numbering a draft keeps its index. *)
LEMMA IndexGet ==
    ASSUME IndexInv, PublishGet PROVE IndexInv'
<1>1. /\ UNCHANGED <<status, result, disk, index, step, indexed, reqs, lost, deleted>>
      /\ pc = "publish"
  BY DEF PublishGet, Raise, ScanUnchanged, storeVars, historyVars
<1>2. UNCHANGED Offered
  BY <1>1, OfferedKept
<1>3. (\A r \in Requests : Names(reqs[r].copy))' /\ Names(disk)' /\ Names(result)'
  BY <1>1 DEF IndexInv, Names
<1>4. CASE pc' = "lock" /\ draft' = Numbered(draft) /\ final' = final
  <2>1. draft'.index = draft.index
    BY <1>4, IndexOf
  <2>2. Names(draft)'
    BY <1>1, <2>1 DEF IndexInv, Names
  <2>. QED
    BY <1>1, <1>2, <1>3, <1>4, <2>1, <2>2 DEF IndexInv, Active, Publishing
<1>5. CASE pc' \in {"finish", "exit"} /\ draft' = NoReport /\ final' # "running"
  <2>1. draft'.index = FALSE
    BY <1>5 DEF NoReport
  <2>2. Names(draft)'
    BY <2>1 DEF Names
  <2>. QED
    BY <1>1, <1>2, <1>3, <1>5, <2>1, <2>2 DEF IndexInv, Active, Publishing
<1>. QED
  BY <1>4, <1>5 DEF PublishGet, Raise

(* Carrying annotations over keeps the draft's index. *)
LEMMA IndexLock ==
    ASSUME IndexInv, PublishLock PROVE IndexInv'
<1>1. /\ UNCHANGED <<status, result, disk, index, step, final, indexed, reqs, lost, deleted>>
      /\ pc = "lock" /\ pc' = "save"
  BY DEF PublishLock, storeVars, fileVars, historyVars
<1>2. draft'.index = draft.index
  BY IndexOf DEF PublishLock
<1>3. UNCHANGED Offered
  BY <1>1, OfferedKept
<1>4. (\A r \in Requests : Names(reqs[r].copy))' /\ Names(disk)' /\ Names(result)' /\ Names(draft)'
  BY <1>1, <1>2 DEF IndexInv, Names
<1>. QED
  BY <1>1, <1>2, <1>3, <1>4 DEF IndexInv, Active, Publishing

(* The saved report names the index the draft names. *)
LEMMA IndexSave ==
    ASSUME IndexInv, PublishSave PROVE IndexInv'
<1>1. /\ UNCHANGED <<status, result, index, step, indexed, reqs, deleted>>
      /\ pc = "save"
  BY DEF PublishSave, Raise, storeVars, localVars
<1>2. CASE disk' = draft /\ pc' = "advertise" /\ UNCHANGED <<draft, final>>
  <2>1. Offered' => draft.index
    BY <1>1, <1>2 DEF IndexInv, Publishing, Offered
  <2>2. (\A r \in Requests : Names(reqs[r].copy))' /\ Names(disk)' /\ Names(result)' /\ Names(draft)'
    BY <1>1, <1>2 DEF IndexInv, Names
  <2>. QED
    BY <1>1, <1>2, <2>1, <2>2 DEF IndexInv, Active, Publishing
<1>3. CASE /\ UNCHANGED <<disk, lost>> /\ draft' = NoReport
           /\ pc' \in {"finish", "exit"} /\ final' # "running"
  <2>1. UNCHANGED Offered
    BY <1>1, <1>3, OfferedKept
  <2>2. ~draft'.index
    BY <1>3 DEF NoReport
  <2>3. (\A r \in Requests : Names(reqs[r].copy))' /\ Names(disk)' /\ Names(result)' /\ Names(draft)'
    BY <1>1, <1>3, <2>2 DEF IndexInv, Names
  <2>. QED
    BY <1>1, <1>3, <2>1, <2>2, <2>3 DEF IndexInv, Active, Publishing
<1>. QED
  BY <1>2, <1>3 DEF PublishSave, Raise, localVars

(* The advertised report names the index the saved one names. *)
LEMMA IndexRecord ==
    ASSUME TypeOK, IndexInv, PublishRecord PROVE IndexInv'
<1>1. /\ UNCHANGED <<status, result, disk, index, indexed, reqs, lost, deleted>>
      /\ pc = "record"
  BY DEF PublishRecord, PersistUnchanged, PersistRaises, Raise, storeVars, historyVars
<1>2. UNCHANGED Offered
  BY <1>1, OfferedKept
<1>3. (\A r \in Requests : Names(reqs[r].copy))' /\ Names(disk)' /\ Names(result)'
  BY <1>1 DEF IndexInv, Names
<1>4. CASE ~PersistRaises
  <2>1. /\ UNCHANGED <<final, draft>>
        /\ \/ pc' \in {"settle", "check"} /\ step' = step
           \/ final = "running" /\ pc' = "scan" /\ step' = step + 1
    BY <1>4 DEF PublishRecord
  <2>2. pc' = "scan" /\ step' <= IndexCheckpoint => ~indexed
    BY <1>1, <2>1, CheckpointsAssumption DEF IndexInv, TypeOK, Publishing
  <2>3. Names(draft)'
    BY <1>1, <2>1 DEF IndexInv, Names
  <2>. QED
    BY <1>1, <1>2, <1>3, <2>1, <2>2, <2>3 DEF IndexInv, Active, Publishing, Scanning
<1>5. CASE PersistRaises
  <2>1. ~draft'.index /\ pc' \in {"finish", "exit"} /\ final' # "running"
    BY <1>5 DEF PersistRaises, Raise, NoReport
  <2>2. Names(draft)'
    BY <2>1 DEF Names
  <2>. QED
    BY <1>1, <1>2, <1>3, <2>1, <2>2 DEF IndexInv, Active, Publishing
<1>. QED
  BY <1>4, <1>5

(* Removing a job changes no report and no index. *)
LEMMA IndexDeleteJob ==
    ASSUME TypeOK, IndexInv, NEW r \in Requests, DeleteJobAct(r) PROVE IndexInv'
<1>1. /\ UNCHANGED <<disk, index, pc, step, final, indexed, draft, lost, deleted>>
      /\ Reply(r)
  BY DEF DeleteJobAct, workerVars, localVars, historyVars
<1>2. \/ UNCHANGED <<status, result>>
      \/ status' = "none" /\ result' = NoReport
  BY DEF DeleteJobAct, CancelJob, RemoveJob
<1>3. ASSUME NEW q \in Requests
      PROVE  Names(reqs[q].copy)' /\ (reqs'[q].copy.index => Offered)
  BY <1>1, ReplyReqs DEF IndexInv, Names, Offered, NoReport
<1>4. Offered' => Offered
  BY <1>1, <1>3 DEF Offered
<1>5. Names(disk)' /\ Names(result)' /\ Names(draft)' /\ (result'.index => result.index)
  BY <1>1, <1>2 DEF IndexInv, Names, NoReport
<1>. QED
  BY <1>1, <1>2, <1>3, <1>4, <1>5 DEF IndexInv

(* A handler saves the index of the report it read. *)
LEMMA IndexHandlerSave ==
    ASSUME TypeOK, IndexInv, NEW r \in Requests, AnnotateSave(r) \/ AttachSourceSave(r)
    PROVE  IndexInv'
<1>1. ASSUME NEW q \in Requests
      PROVE  Names(reqs[q].copy)' /\ (reqs'[q].copy.index => Offered)
  <2>1. Reply(r) /\ UNCHANGED <<index, deleted>>
    BY HandlerSaves
  <2>. QED
    BY <2>1, ReplyReqs DEF IndexInv, Names, Offered, NoReport
<1>2. Names(disk)' /\ Names(result)' /\ Names(draft)' /\ (disk'.index => Offered)
  BY HandlerSaves DEF IndexInv, Names, Offered
<1>3. Offered' => Offered
  BY <1>1, <1>2 DEF Offered
<1>4. disk.index => Offered
  BY DEF Offered
<1>5. ~lost' => ~lost /\ disk'.index = disk.index
  BY HandlerSavesFresh
<1>. QED
  BY <1>1, <1>2, <1>3, <1>4, <1>5, HandlerSaves DEF IndexInv

(* Every step keeps IndexInv. *)
LEMMA IndexStep == IInv /\ [Next]_vars => IndexInv'
<1>. SUFFICES ASSUME IInv, [Next]_vars PROVE IndexInv'
  OBVIOUS
<1>1. CASE ScanStage
  BY <1>1, IndexSnapshot DEF IInv
<1>2. CASE IndexCompletes
  BY <1>2, IndexBuilt DEF IInv
<1>3. CASE IndexFails
  BY <1>3, IndexDropped DEF IInv
<1>4. CASE PublishGet
  BY <1>4, IndexGet DEF IInv
<1>5. CASE PublishLock
  BY <1>5, IndexLock DEF IInv
<1>6. CASE PublishSave
  BY <1>6, IndexSave DEF IInv
<1>7. CASE PublishRecord
  BY <1>7, IndexRecord DEF IInv
<1>8. ASSUME NEW r \in Requests, DeleteJobAct(r) PROVE IndexInv'
  BY <1>8, IndexDeleteJob DEF IInv
<1>9. ASSUME NEW r \in Requests, AnnotateSave(r) \/ AttachSourceSave(r) PROVE IndexInv'
  BY <1>9, IndexHandlerSave DEF IInv
<1>. USE DEF IInv, IndexInv, BeforeInv, StatusInv, RunningInv, Names, Offered,
             NoReport, Idle, storeVars, fileVars, localVars, workerVars,
             boundVars, historyVars, Active, Scanning, Publishing
<1>10. CASE StartJob
  BY <1>10 DEF StartJob, Fault
<1>11. CASE UploadFails
  BY <1>11 DEF UploadFails
<1>12. CASE ScanCancelled
  BY <1>12 DEF ScanCancelled, Raise, ScanUnchanged
<1>13. CASE ScanFails
  BY <1>13 DEF ScanFails, Raise, ScanUnchanged
<1>14. CASE StartIndex
  BY <1>14 DEF StartIndex, ScanUnchanged
<1>15. CASE FinalCheck
  BY <1>15 DEF FinalCheck, ScanUnchanged
<1>16. CASE PublishAdvertise
  BY <1>16 DEF PublishAdvertise
<1>17. CASE FinishGet
  BY <1>17 DEF FinishGet, ScanUnchanged
<1>18. CASE FinishStatus
  BY <1>18 DEF FinishStatus
<1>19. CASE FinishPersist
  BY <1>19
  DEF FinishPersist, PersistJob, PersistRaises, PersistUnchanged, Raise, Fault
<1>20. CASE RunExit
  BY <1>20 DEF RunExit, ForgetLocals
<1>21. CASE Cancel
  BY <1>21 DEF Cancel, CancelJob
<1>22. CASE CollectJob
  BY <1>22 DEF CollectJob, RemoveJob
<1>23. CASE Restart
  BY <1>23 DEF Restart, ForgetLocals
<1>24. ASSUME NEW r \in Requests, DeleteJob(r) PROVE IndexInv'
  BY <1>24, HoldReqs, NoReportType, UnsetType, RequestType
  DEF DeleteJob, RequestPc
<1>25. ASSUME NEW r \in Requests, DeleteAnalysis(r) PROVE IndexInv'
  BY <1>25, HoldReqs, NoReportType, UnsetType, RequestType
  DEF DeleteAnalysis, RequestPc
<1>26. ASSUME NEW r \in Requests, DeleteAnalysisGuard(r) PROVE IndexInv'
  BY <1>26, HoldReqs, NoReportType, UnsetType, ReplyReqs, RequestType
  DEF DeleteAnalysisGuard, RequestPc
<1>27. ASSUME NEW r \in Requests, UnlinkReport(r) PROVE IndexInv'
  BY <1>27, HoldReqs, NoReportType, UnsetType, ReplyReqs, RequestType
  DEF UnlinkReport, RequestPc
<1>28. ASSUME NEW r \in Requests, UnlinkIndex(r) PROVE IndexInv'
  BY <1>28, ReplyReqs, RequestType DEF UnlinkIndex
<1>29. ASSUME NEW r \in Requests, Annotate(r) PROVE IndexInv'
  BY <1>29, HoldReqs, NoReportType, UnsetType, RequestType
  DEF Annotate, RequestPc
<1>30. ASSUME NEW r \in Requests, AnnotateRead(r) PROVE IndexInv'
  BY <1>30, HoldReqs, NoReportType, UnsetType, ReplyReqs, RequestType
  DEF AnnotateRead, RequestPc
<1>31. ASSUME NEW r \in Requests, AttachSource(r) PROVE IndexInv'
  BY <1>31, HoldReqs, NoReportType, UnsetType, RequestType
  DEF AttachSource, RequestPc
<1>32. ASSUME NEW r \in Requests, AttachSourceGuard(r) PROVE IndexInv'
  BY <1>32, HoldReqs, NoReportType, UnsetType, ReplyReqs, RequestType
  DEF AttachSourceGuard, RequestPc
<1>33. ASSUME NEW r \in Requests, RequestSaveFails(r) PROVE IndexInv'
  BY <1>33, ReplyReqs, RequestType DEF RequestSaveFails, Fault
<1>34. CASE UNCHANGED vars
  BY <1>34 DEF vars
<1>. QED
  BY <1>1, <1>2, <1>3, <1>4, <1>5, <1>6, <1>7, <1>8, <1>9, <1>10, <1>11,
     <1>12, <1>13, <1>14, <1>15, <1>16, <1>17, <1>18, <1>19, <1>20, <1>21,
     <1>22, <1>23, <1>24, <1>25, <1>26, <1>27, <1>28, <1>29, <1>30, <1>31,
     <1>32, <1>33, <1>34
  DEF Next, WorkerStep, RequestArrives, RequestStep

-----------------------------------------------------------------------------
(* The index after finish() has had its look.                              *)

(* While finish() has not looked at the index, no job is removed. *)
LEMMA OrphanDeleteJob ==
    ASSUME RunningInv, OrphanInv, NEW r \in Requests, DeleteJobAct(r) PROVE OrphanInv'
<1>1. UNCHANGED <<disk, index, pc, final, lost, deleted>>
  BY DEF DeleteJobAct, workerVars, localVars, historyVars
<1>2. pc = "finish" /\ status' # "running" => status # "running"
  BY DEF DeleteJobAct, CancelJob, RunningInv
<1>. QED
  BY <1>1, <1>2 DEF OrphanInv, Publishing

(* A handler's save drops no index from the report. *)
LEMMA OrphanHandlerSave ==
    ASSUME OrphanInv, NEW r \in Requests, AnnotateSave(r) \/ AttachSourceSave(r)
    PROVE  OrphanInv'
<1>1. ~lost' => ~lost /\ disk'.index = disk.index
  BY HandlerSavesFresh
<1>2. UNCHANGED <<status, index, pc, final, deleted>>
  BY HandlerSaves
<1>. QED
  BY <1>1, <1>2 DEF OrphanInv, Publishing

(* Every step keeps OrphanInv. *)
LEMMA OrphanStep == IInv /\ [Next]_vars => OrphanInv'
<1>. SUFFICES ASSUME IInv, [Next]_vars PROVE OrphanInv'
  OBVIOUS
<1>1. ASSUME NEW r \in Requests, DeleteJobAct(r) PROVE OrphanInv'
  BY <1>1, OrphanDeleteJob DEF IInv
<1>2. ASSUME NEW r \in Requests, AnnotateSave(r) \/ AttachSourceSave(r) PROVE OrphanInv'
  BY <1>2, OrphanHandlerSave DEF IInv
<1>. USE DEF IInv, OrphanInv, Offered, IndexInv, StatusInv, BeforeInv,
             storeVars, fileVars, localVars, workerVars, boundVars,
             historyVars, Active, Scanning, Publishing
<1>3. CASE StartJob
  BY <1>3 DEF StartJob, Fault
<1>4. CASE UploadFails
  BY <1>4 DEF UploadFails
<1>5. CASE ScanStage
  BY <1>5 DEF ScanStage, ScanUnchanged
<1>6. CASE ScanCancelled
  BY <1>6 DEF ScanCancelled, Raise, ScanUnchanged
<1>7. CASE ScanFails
  BY <1>7 DEF ScanFails, Raise, ScanUnchanged
<1>8. CASE StartIndex
  BY <1>8 DEF StartIndex, ScanUnchanged
<1>9. CASE IndexCompletes
  BY <1>9 DEF IndexCompletes, ScanUnchanged
<1>10. CASE IndexFails
  BY <1>10 DEF IndexFails, ScanUnchanged
<1>11. CASE FinalCheck
  BY <1>11 DEF FinalCheck, ScanUnchanged
<1>12. CASE PublishGet
  BY <1>12 DEF PublishGet, Raise, ScanUnchanged
<1>13. CASE PublishLock
  BY <1>13 DEF PublishLock
<1>14. CASE PublishSave
  BY <1>14 DEF PublishSave, Raise, Fault
<1>15. CASE PublishAdvertise
  BY <1>15 DEF PublishAdvertise
<1>16. CASE PublishRecord
  BY <1>16
  DEF PublishRecord, PersistJob, PersistRaises, PersistUnchanged, Raise, Fault
<1>17. CASE FinishGet
  BY <1>17 DEF FinishGet, ScanUnchanged
<1>18. CASE FinishStatus
  BY <1>18 DEF FinishStatus
<1>19. CASE FinishPersist
  BY <1>19
  DEF FinishPersist, PersistJob, PersistRaises, PersistUnchanged, Raise, Fault
<1>20. CASE RunExit
  BY <1>20 DEF RunExit, ForgetLocals
<1>21. CASE Cancel
  BY <1>21 DEF Cancel, CancelJob
<1>22. CASE CollectJob
  BY <1>22 DEF CollectJob, RemoveJob
<1>23. CASE Restart
  BY <1>23 DEF Restart, ForgetLocals
<1>24. ASSUME NEW r \in Requests, DeleteJob(r) PROVE OrphanInv'
  BY <1>24, HoldReqs, NoReportType, UnsetType, RequestType
  DEF DeleteJob, RequestPc
<1>25. ASSUME NEW r \in Requests, DeleteAnalysis(r) PROVE OrphanInv'
  BY <1>25, HoldReqs, NoReportType, UnsetType, RequestType
  DEF DeleteAnalysis, RequestPc
<1>26. ASSUME NEW r \in Requests, DeleteAnalysisGuard(r) PROVE OrphanInv'
  BY <1>26, HoldReqs, NoReportType, UnsetType, ReplyReqs, RequestType
  DEF DeleteAnalysisGuard, RequestPc
<1>27. ASSUME NEW r \in Requests, UnlinkReport(r) PROVE OrphanInv'
  BY <1>27, HoldReqs, NoReportType, UnsetType, ReplyReqs, RequestType
  DEF UnlinkReport, RequestPc
<1>28. ASSUME NEW r \in Requests, UnlinkIndex(r) PROVE OrphanInv'
  BY <1>28, ReplyReqs, RequestType DEF UnlinkIndex
<1>29. ASSUME NEW r \in Requests, Annotate(r) PROVE OrphanInv'
  BY <1>29, HoldReqs, NoReportType, UnsetType, RequestType
  DEF Annotate, RequestPc
<1>30. ASSUME NEW r \in Requests, AnnotateRead(r) PROVE OrphanInv'
  BY <1>30, HoldReqs, NoReportType, UnsetType, ReplyReqs, RequestType
  DEF AnnotateRead, RequestPc
<1>31. ASSUME NEW r \in Requests, AttachSource(r) PROVE OrphanInv'
  BY <1>31, HoldReqs, NoReportType, UnsetType, RequestType
  DEF AttachSource, RequestPc
<1>32. ASSUME NEW r \in Requests, AttachSourceGuard(r) PROVE OrphanInv'
  BY <1>32, HoldReqs, NoReportType, UnsetType, ReplyReqs, RequestType
  DEF AttachSourceGuard, RequestPc
<1>33. ASSUME NEW r \in Requests, RequestSaveFails(r) PROVE OrphanInv'
  BY <1>33, ReplyReqs, RequestType DEF RequestSaveFails, Fault
<1>34. CASE UNCHANGED vars
  BY <1>34 DEF vars
<1>. QED
  BY <1>1, <1>2, <1>3, <1>4, <1>5, <1>6, <1>7, <1>8, <1>9, <1>10, <1>11,
     <1>12, <1>13, <1>14, <1>15, <1>16, <1>17, <1>18, <1>19, <1>20, <1>21,
     <1>22, <1>23, <1>24, <1>25, <1>26, <1>27, <1>28, <1>29, <1>30, <1>31,
     <1>32, <1>33, <1>34
  DEF Next, WorkerStep, RequestArrives, RequestStep

-----------------------------------------------------------------------------
(* Which reports have stages pending.                                      *)

(* Only the complete checkpoint has no stage pending. *)
LEMMA SnapshotClosed ==
    ASSUME NEW b PROVE Snapshot(b).closed <=> step = Checkpoints
  BY DEF Snapshot

(* What the operators on reports do to the pending stages. *)
LEMMA ClosedOf ==
    ASSUME NEW x \in Report
    PROVE  /\ (Numbered(x).closed <=> final # "running" \/ x.closed)
           /\ (CarriedOver(x).closed <=> x.closed)
<1>1. x.closed \in BOOLEAN
  BY DEF Report
<1>. QED
  BY <1>1 DEF Numbered, CarriedOver

(* A job that starts, or never does, has no report. *)
LEMMA ClosedStart ==
    ASSUME BeforeInv, StartJob \/ UploadFails PROVE ClosedInv'
<1>1. disk' = NoReport /\ pc' \in {"scan", "stillborn", "ended"}
  BY DEF BeforeInv, StartJob, UploadFails, fileVars
<1>. QED
  BY <1>1 DEF ClosedInv, TerminalReportClosed, Saved, NoReport

(* A checkpoint's draft is closed when it is the complete one. *)
LEMMA ClosedSnapshot ==
    ASSUME TypeOK, StatusInv, ClosedInv, ScanStage \/ IndexCompletes \/ IndexFails
    PROVE  ClosedInv'
<1>1. /\ UNCHANGED <<status, jobfile, disk, step, final, lost, deleted>>
      /\ pc \in {"scan", "index"} /\ pc' = "publish"
      /\ draft' \in {Snapshot(TRUE), Snapshot(FALSE), Snapshot(indexed)}
  BY DEF ScanStage, IndexCompletes, IndexFails, ScanUnchanged, storeVars, historyVars
<1>2. draft'.closed <=> step = Checkpoints
  BY <1>1, SnapshotClosed
<1>. QED
  BY <1>1, <1>2 DEF ClosedInv, TerminalReportClosed, StatusInv, Scanning

(* Numbering closes a draft with a final status. *)
LEMMA ClosedGet ==
    ASSUME TypeOK, ClosedInv, PublishGet PROVE ClosedInv'
<1>1. UNCHANGED <<status, jobfile, disk, step, lost, deleted>> /\ pc = "publish"
  BY DEF PublishGet, Raise, ScanUnchanged, storeVars, historyVars
<1>2. CASE pc' = "lock" /\ draft' = Numbered(draft) /\ final' = final
  <2>1. draft'.closed <=> final # "running" \/ draft.closed
    BY <1>2, ClosedOf DEF TypeOK
  <2>. QED
    BY <1>1, <1>2, <2>1 DEF ClosedInv, TerminalReportClosed
<1>3. CASE pc' \in {"finish", "exit"} /\ final' # "running"
  BY <1>1, <1>3 DEF ClosedInv, TerminalReportClosed
<1>. QED
  BY <1>2, <1>3 DEF PublishGet, Raise

(* Carrying annotations over keeps the pending stages. *)
LEMMA ClosedLock ==
    ASSUME TypeOK, ClosedInv, PublishLock PROVE ClosedInv'
<1>1. /\ UNCHANGED <<status, jobfile, disk, step, final, lost, deleted>>
      /\ pc = "lock" /\ pc' = "save" /\ draft' = CarriedOver(draft)
  BY DEF PublishLock, storeVars, fileVars, historyVars
<1>2. draft'.closed <=> draft.closed
  BY <1>1, ClosedOf DEF TypeOK
<1>. QED
  BY <1>1, <1>2 DEF ClosedInv, TerminalReportClosed

(* The saved report has the pending stages of the draft. *)
LEMMA ClosedSave ==
    ASSUME TypeOK, StatusInv, ClosedInv, PublishSave PROVE ClosedInv'
<1>1. UNCHANGED <<status, jobfile, step, deleted>> /\ pc = "save"
  BY DEF PublishSave, Raise, storeVars, localVars
<1>2. CASE disk' = draft /\ pc' = "advertise" /\ final' = final
  <2>1. final = "running" => status \notin Terminal /\ jobfile.status \notin Terminal
    BY <1>1 DEF StatusInv, Active, Publishing, Terminal
  <2>2. final # "running" => disk'.closed
    BY <1>1, <1>2 DEF ClosedInv
  <2>3. final = "running" /\ step < Checkpoints => ~disk'.closed
    BY <1>1, <1>2, CheckpointsAssumption DEF ClosedInv, TypeOK
  <2>. QED
    BY <1>1, <1>2, <2>1, <2>2, <2>3 DEF ClosedInv, TerminalReportClosed
<1>3. CASE UNCHANGED <<disk, lost>> /\ pc' \in {"finish", "exit"} /\ final' # "running"
  BY <1>1, <1>3 DEF ClosedInv, TerminalReportClosed
<1>. QED
  BY <1>2, <1>3 DEF PublishSave, Raise, localVars

(* A handler's save reopens no stage. *)
LEMMA ClosedHandlerSave ==
    ASSUME TypeOK, StatusInv, RunningInv, ClosedInv,
           NEW r \in Requests, AnnotateSave(r) \/ AttachSourceSave(r)
    PROVE  ClosedInv'
<1>1. UNCHANGED <<status, jobfile, pc, step, final, draft, deleted>>
  BY HandlerSaves
<1>2. ~lost' => ~lost /\ (disk.closed => disk'.closed) /\ disk'.rev = disk.rev
  BY HandlerSavesFresh
<1>3. status = "running" => (disk'.closed <=> disk.closed)
  <2>1. ASSUME status = "running" PROVE reqs[r].copy = disk
    BY <2>1 DEF RunningInv, AnnotateSave, AttachSourceSave
  <2>. QED
    BY <2>1, HandlerSaves
<1>. QED
  BY <1>1, <1>2, <1>3
  DEF ClosedInv, TerminalReportClosed, Saved, StatusInv, Active, Publishing,
      Scanning

(* Every step keeps ClosedInv. *)
LEMMA ClosedStep == IInv /\ [Next]_vars => ClosedInv'
<1>. SUFFICES ASSUME IInv, [Next]_vars PROVE ClosedInv'
  OBVIOUS
<1>1. CASE StartJob \/ UploadFails
  BY <1>1, ClosedStart DEF IInv
<1>2. CASE ScanStage \/ IndexCompletes \/ IndexFails
  BY <1>2, ClosedSnapshot DEF IInv
<1>3. CASE PublishGet
  BY <1>3, ClosedGet DEF IInv
<1>4. CASE PublishLock
  BY <1>4, ClosedLock DEF IInv
<1>5. CASE PublishSave
  BY <1>5, ClosedSave DEF IInv
<1>6. ASSUME NEW r \in Requests, AnnotateSave(r) \/ AttachSourceSave(r) PROVE ClosedInv'
  BY <1>6, ClosedHandlerSave DEF IInv
<1>. USE DEF IInv, ClosedInv, BeforeInv, StatusInv, RunningInv, RevisionInv,
             TerminalReportClosed, Saved, Terminal, storeVars, fileVars,
             localVars, workerVars, boundVars, historyVars, Active, Scanning,
             Publishing
<1>7. CASE ScanCancelled
  BY <1>7 DEF ScanCancelled, Raise, ScanUnchanged
<1>8. CASE ScanFails
  BY <1>8 DEF ScanFails, Raise, ScanUnchanged
<1>9. CASE StartIndex
  BY <1>9 DEF StartIndex, ScanUnchanged
<1>10. CASE FinalCheck
  BY <1>10 DEF FinalCheck, ScanUnchanged
<1>11. CASE PublishAdvertise
  BY <1>11 DEF PublishAdvertise
<1>12. CASE PublishRecord
  BY <1>12
  DEF PublishRecord, PersistJob, PersistRaises, PersistUnchanged, Raise, Fault
<1>13. CASE FinishGet
  BY <1>13 DEF FinishGet, ScanUnchanged
<1>14. CASE FinishStatus
  BY <1>14 DEF FinishStatus
<1>15. CASE FinishPersist
  BY <1>15
  DEF FinishPersist, PersistJob, PersistRaises, PersistUnchanged, Raise, Fault
<1>16. CASE RunExit
  BY <1>16 DEF RunExit, ForgetLocals
<1>17. CASE Cancel
  BY <1>17 DEF Cancel, CancelJob
<1>18. CASE CollectJob
  BY <1>18 DEF CollectJob, RemoveJob
<1>19. CASE Restart
  BY <1>19 DEF Restart, ForgetLocals
<1>20. ASSUME NEW r \in Requests, DeleteJob(r) PROVE ClosedInv'
  BY <1>20, HoldReqs, NoReportType, UnsetType, RequestType
  DEF DeleteJob, RequestPc
<1>21. ASSUME NEW r \in Requests, DeleteJobAct(r) PROVE ClosedInv'
  BY <1>21, ReplyReqs, RequestType DEF DeleteJobAct, CancelJob, RemoveJob
<1>22. ASSUME NEW r \in Requests, DeleteAnalysis(r) PROVE ClosedInv'
  BY <1>22, HoldReqs, NoReportType, UnsetType, RequestType
  DEF DeleteAnalysis, RequestPc
<1>23. ASSUME NEW r \in Requests, DeleteAnalysisGuard(r) PROVE ClosedInv'
  BY <1>23, HoldReqs, NoReportType, UnsetType, ReplyReqs, RequestType
  DEF DeleteAnalysisGuard, RequestPc
<1>24. ASSUME NEW r \in Requests, UnlinkReport(r) PROVE ClosedInv'
  BY <1>24, HoldReqs, NoReportType, UnsetType, ReplyReqs, RequestType
  DEF UnlinkReport, RequestPc
<1>25. ASSUME NEW r \in Requests, UnlinkIndex(r) PROVE ClosedInv'
  BY <1>25, ReplyReqs, RequestType DEF UnlinkIndex
<1>26. ASSUME NEW r \in Requests, Annotate(r) PROVE ClosedInv'
  BY <1>26, HoldReqs, NoReportType, UnsetType, RequestType
  DEF Annotate, RequestPc
<1>27. ASSUME NEW r \in Requests, AnnotateRead(r) PROVE ClosedInv'
  BY <1>27, HoldReqs, NoReportType, UnsetType, ReplyReqs, RequestType
  DEF AnnotateRead, RequestPc
<1>28. ASSUME NEW r \in Requests, AttachSource(r) PROVE ClosedInv'
  BY <1>28, HoldReqs, NoReportType, UnsetType, RequestType
  DEF AttachSource, RequestPc
<1>29. ASSUME NEW r \in Requests, AttachSourceGuard(r) PROVE ClosedInv'
  BY <1>29, HoldReqs, NoReportType, UnsetType, ReplyReqs, RequestType
  DEF AttachSourceGuard, RequestPc
<1>30. ASSUME NEW r \in Requests, RequestSaveFails(r) PROVE ClosedInv'
  BY <1>30, ReplyReqs, RequestType DEF RequestSaveFails, Fault
<1>31. CASE UNCHANGED vars
  BY <1>31 DEF vars
<1>. QED
  BY <1>1, <1>2, <1>3, <1>4, <1>5, <1>6, <1>7, <1>8, <1>9, <1>10, <1>11,
     <1>12, <1>13, <1>14, <1>15, <1>16, <1>17, <1>18, <1>19, <1>20, <1>21,
     <1>22, <1>23, <1>24, <1>25, <1>26, <1>27, <1>28, <1>29, <1>30, <1>31
  DEF Next, WorkerStep, RequestArrives, RequestStep

-----------------------------------------------------------------------------
(* The heap dump.                                                          *)

(* Every step keeps InputInv. *)
LEMMA InputStep == IInv /\ [Next]_vars => InputInv'
<1>. SUFFICES ASSUME IInv, [Next]_vars PROVE InputInv'
  OBVIOUS
<1>. USE DEF IInv, InputInv, BeforeInv, StatusInv, RunningInv, storeVars,
             fileVars, localVars, workerVars, boundVars, historyVars, Active,
             Scanning, Publishing
<1>1. CASE StartJob
  BY <1>1 DEF StartJob, Fault
<1>2. CASE UploadFails
  BY <1>2 DEF UploadFails
<1>3. CASE ScanStage
  BY <1>3 DEF ScanStage, ScanUnchanged
<1>4. CASE ScanCancelled
  BY <1>4 DEF ScanCancelled, Raise, ScanUnchanged
<1>5. CASE ScanFails
  BY <1>5 DEF ScanFails, Raise, ScanUnchanged
<1>6. CASE StartIndex
  BY <1>6 DEF StartIndex, ScanUnchanged
<1>7. CASE IndexCompletes
  BY <1>7 DEF IndexCompletes, ScanUnchanged
<1>8. CASE IndexFails
  BY <1>8 DEF IndexFails, ScanUnchanged
<1>9. CASE FinalCheck
  BY <1>9 DEF FinalCheck, ScanUnchanged
<1>10. CASE PublishGet
  BY <1>10 DEF PublishGet, Raise, ScanUnchanged
<1>11. CASE PublishLock
  BY <1>11 DEF PublishLock
<1>12. CASE PublishSave
  BY <1>12 DEF PublishSave, Raise, Fault
<1>13. CASE PublishAdvertise
  BY <1>13 DEF PublishAdvertise
<1>14. CASE PublishRecord
  BY <1>14
  DEF PublishRecord, PersistJob, PersistRaises, PersistUnchanged, Raise, Fault
<1>15. CASE FinishGet
  BY <1>15 DEF FinishGet, ScanUnchanged
<1>16. CASE FinishStatus
  BY <1>16 DEF FinishStatus
<1>17. CASE FinishPersist
  BY <1>17
  DEF FinishPersist, PersistJob, PersistRaises, PersistUnchanged, Raise, Fault
<1>18. CASE RunExit
  BY <1>18 DEF RunExit, ForgetLocals
<1>19. CASE Cancel
  BY <1>19 DEF Cancel, CancelJob
<1>20. CASE CollectJob
  BY <1>20 DEF CollectJob, RemoveJob
<1>21. CASE Restart
  BY <1>21 DEF Restart, ForgetLocals
<1>22. ASSUME NEW r \in Requests, DeleteJob(r) PROVE InputInv'
  BY <1>22, HoldReqs, NoReportType, UnsetType, RequestType
  DEF DeleteJob, RequestPc
<1>23. ASSUME NEW r \in Requests, DeleteJobAct(r) PROVE InputInv'
  BY <1>23, ReplyReqs, RequestType DEF DeleteJobAct, CancelJob, RemoveJob
<1>24. ASSUME NEW r \in Requests, DeleteAnalysis(r) PROVE InputInv'
  BY <1>24, HoldReqs, NoReportType, UnsetType, RequestType
  DEF DeleteAnalysis, RequestPc
<1>25. ASSUME NEW r \in Requests, DeleteAnalysisGuard(r) PROVE InputInv'
  BY <1>25, HoldReqs, NoReportType, UnsetType, ReplyReqs, RequestType
  DEF DeleteAnalysisGuard, RequestPc
<1>26. ASSUME NEW r \in Requests, UnlinkReport(r) PROVE InputInv'
  BY <1>26, HoldReqs, NoReportType, UnsetType, ReplyReqs, RequestType
  DEF UnlinkReport, RequestPc
<1>27. ASSUME NEW r \in Requests, UnlinkIndex(r) PROVE InputInv'
  BY <1>27, ReplyReqs, RequestType DEF UnlinkIndex
<1>28. ASSUME NEW r \in Requests, Annotate(r) PROVE InputInv'
  BY <1>28, HoldReqs, NoReportType, UnsetType, RequestType
  DEF Annotate, RequestPc
<1>29. ASSUME NEW r \in Requests, AnnotateRead(r) PROVE InputInv'
  BY <1>29, HoldReqs, NoReportType, UnsetType, ReplyReqs, RequestType
  DEF AnnotateRead, RequestPc
<1>30. ASSUME NEW r \in Requests, AnnotateSave(r) PROVE InputInv'
  BY <1>30, ReplyReqs, RequestType DEF AnnotateSave
<1>31. ASSUME NEW r \in Requests, AttachSource(r) PROVE InputInv'
  BY <1>31, HoldReqs, NoReportType, UnsetType, RequestType
  DEF AttachSource, RequestPc
<1>32. ASSUME NEW r \in Requests, AttachSourceGuard(r) PROVE InputInv'
  BY <1>32, HoldReqs, NoReportType, UnsetType, ReplyReqs, RequestType
  DEF AttachSourceGuard, RequestPc
<1>33. ASSUME NEW r \in Requests, AttachSourceSave(r) PROVE InputInv'
  BY <1>33, ReplyReqs, RequestType DEF AttachSourceSave
<1>34. ASSUME NEW r \in Requests, RequestSaveFails(r) PROVE InputInv'
  BY <1>34, ReplyReqs, RequestType DEF RequestSaveFails, Fault
<1>35. CASE UNCHANGED vars
  BY <1>35 DEF vars
<1>. QED
  BY <1>1, <1>2, <1>3, <1>4, <1>5, <1>6, <1>7, <1>8, <1>9, <1>10, <1>11,
     <1>12, <1>13, <1>14, <1>15, <1>16, <1>17, <1>18, <1>19, <1>20, <1>21,
     <1>22, <1>23, <1>24, <1>25, <1>26, <1>27, <1>28, <1>29, <1>30, <1>31,
     <1>32, <1>33, <1>34, <1>35
  DEF Next, WorkerStep, RequestArrives, RequestStep

-----------------------------------------------------------------------------
(* The .job file behind the store.  Where no write has failed, StatusInv   *)
(* says that the job is running for the store, so publish() and finish()   *)
(* persist the revision they have advertised.                              *)

(* A started job has a file that says so, or its write has failed. *)
LEMMA FileStart ==
    ASSUME TypeOK, BeforeInv, FileInv, StartJob PROVE FileInv'
<1>1. /\ pc = "idle" /\ status' = "running"
      /\ UNCHANGED <<result, draft, disk, reqs, lost, deleted>>
      /\ result.rev = 0 /\ disk.rev = 0 /\ jobfile.status = "none" /\ jobfile.rev = 0
      /\ ~lost /\ ~deleted
      /\ \A r \in Requests : reqs[r].pc = "idle"
  BY DEF StartJob, BeforeInv, NoReport, Idle, localVars, historyVars
<1>2. CASE jobfile' = [status |-> "running", rev |-> 0] /\ pc' = "scan"
  BY <1>1, <1>2 DEF FileInv, Saved
<1>3. CASE Fault /\ pc' = "stillborn" /\ UNCHANGED jobfile
  <2>1. faults' > 0
    BY <1>3, BoundsAssumption DEF TypeOK, Fault
  <2>. QED
    BY <1>1, <1>3, <2>1 DEF FileInv, Saved, Active, Scanning, Publishing
<1>. QED
  BY <1>2, <1>3 DEF StartJob

(* publish() numbers its draft after what was advertised. *)
LEMMA FileGet ==
    ASSUME TypeOK, FileInv, StatusInv, PublishGet PROVE FileInv'
<1>1. /\ UNCHANGED <<status, result, jobfile, disk, reqs, faults, lost, deleted>>
      /\ pc = "publish"
  BY DEF PublishGet, ScanUnchanged, storeVars, boundVars, historyVars
<1>2. CASE pc' = "lock" /\ draft' = Numbered(draft)
  BY <1>1, <1>2, RevisionOf DEF FileInv, Active, Scanning, Publishing
<1>3. CASE pc' \in {"finish", "exit"}
  BY <1>1, <1>3 DEF FileInv, Active, Scanning, Publishing
<1>. QED
  BY <1>2, <1>3 DEF PublishGet, Raise

(* The annotations carried over leave the revision alone. *)
LEMMA FileLock ==
    ASSUME FileInv, PublishLock PROVE FileInv'
<1>1. /\ UNCHANGED <<status, result, jobfile, disk, reqs, faults, lost, deleted>>
      /\ pc = "lock" /\ pc' = "save" /\ draft' = CarriedOver(draft)
  BY DEF PublishLock, storeVars, fileVars, boundVars, historyVars
<1>. QED
  BY <1>1, RevisionOf DEF FileInv, Active, Scanning, Publishing

(* A report that is saved is one ahead of the file. *)
LEMMA FileSave ==
    ASSUME TypeOK, FileInv, StatusInv, RevisionInv, PublishSave PROVE FileInv'
<1>1. /\ UNCHANGED <<status, result, jobfile, reqs, deleted>> /\ pc = "save"
      /\ jobfile.status # "none"
  BY DEF PublishSave, storeVars, StatusInv, Active, Publishing
<1>2. CASE /\ disk' = draft /\ draft' = draft /\ pc' = "advertise" /\ faults' = faults
           /\ lost' = IF disk = base THEN lost ELSE TRUE
  <2>1. faults = 0 /\ ~lost /\ ~deleted => draft.rev = jobfile.rev + 1
    BY <1>1 DEF FileInv, RevisionInv, Active, Publishing
  <2>. QED
    BY <1>1, <1>2, <2>1, RevisionTypes DEF FileInv, Active, Scanning, Publishing
<1>3. CASE Fault /\ UNCHANGED <<disk, lost>> /\ pc' \in {"finish", "exit"}
  <2>1. faults' # 0
    BY <1>3, FaultCounts
  <2>. QED
    BY <1>1, <1>3, <2>1 DEF FileInv, Active, Scanning, Publishing
<1>. QED
  BY <1>2, <1>3 DEF PublishSave, Raise, localVars

(* What is advertised is one ahead of the file. *)
LEMMA FileAdvertise ==
    ASSUME TypeOK, FileInv, PublishAdvertise PROVE FileInv'
<1>1. /\ UNCHANGED <<status, jobfile, disk, reqs, faults, lost, deleted>>
      /\ pc = "advertise" /\ pc' = "record"
      /\ result' = IF status = "none" THEN result ELSE draft
  BY DEF PublishAdvertise, fileVars, boundVars, historyVars
<1>. QED
  BY <1>1, RevisionTypes DEF FileInv, Active, Scanning, Publishing

(* A persisted job is one the store has; anything else raises. *)
LEMMA FilePersisted ==
    ASSUME TypeOK, FileInv, StatusInv, RevisionInv,
           UNCHANGED <<status, result, draft, disk, reqs, lost, deleted>>,
           pc \in {"record", "persist"}, PersistJob,
           pc = "record" => pc' \in {"settle", "scan", "check"},
           pc = "persist" => pc' = "exit"
    PROVE  FileInv'
<1>1. /\ faults' = faults /\ status # "none"
      /\ jobfile'.status = status /\ jobfile'.rev = result.rev
  BY DEF PersistJob
<1>2. pc = "record" /\ faults = 0 => status = "running"
  BY DEF StatusInv, Active, Publishing
<1>3. ~lost /\ ~deleted => disk.rev = result.rev
  BY <1>1 DEF RevisionInv
<1>4. status = "running" => jobfile'.status = "running"
  BY <1>1
<1>. QED
  BY <1>1, <1>2, <1>3, <1>4, RevisionTypes DEF FileInv, Active, Scanning, Publishing

(* A job that cannot be persisted was removed, or its write has failed. *)
LEMMA FileRaises ==
    ASSUME TypeOK, FileInv, StatusInv,
           UNCHANGED <<status, result, disk, reqs, lost, deleted>>,
           pc \in {"record", "persist"}, PersistRaises
    PROVE  FileInv'
<1>1. UNCHANGED jobfile /\ pc' \in {"finish", "exit"}
  BY DEF PersistRaises, Raise
<1>2. CASE Fault
  <2>1. faults' # 0
    BY <1>2, FaultCounts
  <2>. QED
    BY <1>1, <2>1 DEF FileInv, Active, Scanning, Publishing
<1>3. CASE status = "none" /\ UNCHANGED faults
  <2>1. pc = "record" => faults # 0
    BY <1>3 DEF StatusInv, Active, Publishing
  <2>. QED
    BY <1>1, <1>3, <2>1 DEF FileInv, Active, Scanning, Publishing
<1>. QED
  BY <1>2, <1>3 DEF PersistRaises

(* publish() persists what it has advertised. *)
LEMMA FileRecord ==
    ASSUME TypeOK, FileInv, StatusInv, RevisionInv, PublishRecord PROVE FileInv'
<1>1. UNCHANGED <<status, result, disk, reqs, lost, deleted>> /\ pc = "record"
  BY DEF PublishRecord, PersistUnchanged, storeVars, historyVars
<1>2. CASE PersistRaises
  BY <1>1, <1>2, FileRaises
<1>3. CASE ~PersistRaises
  <2>1. PersistJob /\ UNCHANGED draft /\ pc' \in {"settle", "scan", "check"}
    BY <1>3 DEF PublishRecord
  <2>. QED
    BY <1>1, <2>1, FilePersisted
<1>. QED
  BY <1>2, <1>3

(* finish() persists how the job ended. *)
LEMMA FileEnd ==
    ASSUME TypeOK, FileInv, StatusInv, RevisionInv, FinishPersist PROVE FileInv'
<1>1. UNCHANGED <<status, result, disk, reqs, lost, deleted>> /\ pc = "persist"
  BY DEF FinishPersist, PersistUnchanged, storeVars, historyVars
<1>2. CASE PersistRaises
  BY <1>1, <1>2, FileRaises
<1>3. CASE ~PersistRaises
  <2>1. PersistJob /\ UNCHANGED draft /\ pc' = "exit"
    BY <1>3 DEF FinishPersist, localVars
  <2>. QED
    BY <1>1, <2>1, FilePersisted
<1>. QED
  BY <1>2, <1>3

(* A job that is removed leaves its file alone. *)
LEMMA FileRemoved ==
    ASSUME TypeOK, FileInv, StatusInv,
           UNCHANGED <<jobfile, disk, faults, lost, deleted>>,
           \A q \in Requests : reqs'[q].pc \in {reqs[q].pc, "idle"},
           status' = "none", UNCHANGED pc \/ pc' = "dead"
    PROVE  FileInv'
  BY DEF FileInv, Saved, Active, Scanning, Publishing

(* DELETE of a job cancels or removes it. *)
LEMMA FileDeleteJob ==
    ASSUME TypeOK, FileInv, StatusInv, NEW r \in Requests, DeleteJobAct(r) PROVE FileInv'
<1>1. UNCHANGED <<jobfile, disk, faults, lost, deleted, pc, draft>>
  BY DEF DeleteJobAct, workerVars, localVars, boundVars, historyVars
<1>2. \A q \in Requests : reqs'[q].pc \in {reqs[q].pc, "idle"}
  BY ReplyReqs DEF DeleteJobAct
<1>3. CASE UNCHANGED <<status, result>>
  BY <1>1, <1>2, <1>3 DEF FileInv, Saved, Active, Scanning, Publishing
<1>4. CASE status' = "none"
  BY <1>1, <1>2, <1>4, FileRemoved
<1>. QED
  BY <1>3, <1>4 DEF DeleteJobAct, CancelJob, RemoveJob

(* A collected job had ended. *)
LEMMA FileCollect ==
    ASSUME TypeOK, FileInv, StatusInv, CollectJob PROVE FileInv'
<1>1. /\ UNCHANGED <<jobfile, disk, faults, lost, deleted, pc, reqs>>
      /\ status' = "none"
  BY DEF CollectJob, RemoveJob, workerVars, boundVars, historyVars
<1>. QED
  BY <1>1, FileRemoved

(* A restart forgets the store, the handlers and the task. *)
LEMMA FileRestart ==
    ASSUME TypeOK, FileInv, StatusInv, Restart PROVE FileInv'
<1>1. /\ UNCHANGED <<jobfile, disk, faults, lost, deleted>>
      /\ status' = "none" /\ pc' = "dead"
  BY DEF Restart, fileVars, historyVars
<1>2. \A q \in Requests : reqs'[q].pc \in {reqs[q].pc, "idle"}
  BY DEF Restart, Idle
<1>. QED
  BY <1>1, <1>2, FileRemoved

(* A handler that saves or deletes nothing: it can have read a report only *)
(* if there is one, and then there is a file.                              *)
LEMMA FileHandler ==
    ASSUME TypeOK, FileInv,
           UNCHANGED <<status, result, jobfile, disk, pc, draft, faults, lost, deleted>>,
           NEW r \in Requests, \A q \in Requests \ {r} : reqs'[q] = reqs[q],
           \/ reqs'[r].pc \notin {"notes", "capture", "guardSource", "source"}
           \/ Saved(disk)
           \/ reqs[r].pc = "guardSource"
    PROVE  FileInv'
  BY DEF FileInv, Saved

(* A handler's save, or deletion, of a report: there is one already. *)
LEMMA FileHandlerSave ==
    ASSUME TypeOK, FileInv, NEW r \in Requests,
           AnnotateSave(r) \/ AttachSourceSave(r) \/ UnlinkReport(r)
    PROVE  FileInv'
<1>1. UNCHANGED <<status, result, jobfile, pc, draft, faults>>
  BY DEF AnnotateSave, AttachSourceSave, UnlinkReport, storeVars, workerVars, localVars,
         boundVars
<1>0. Reply(r) \/ Hold(r, "unlinkIndex", NoReport, Unset)
  BY DEF AnnotateSave, AttachSourceSave, UnlinkReport
<1>2. \A q \in Requests \ {r} : reqs'[q] = reqs[q]
  BY <1>0, HoldReqs, ReplyReqs
<1>3. reqs'[r].pc \in {"idle", "unlinkIndex"}
  BY <1>0 DEF Reply, Hold, Idle, TypeOK
<1>4. CASE AnnotateSave(r) \/ AttachSourceSave(r)
  <2>1. jobfile.status # "none"
    BY <1>4 DEF FileInv, AnnotateSave, AttachSourceSave
  <2>2. ~lost' /\ ~deleted' => ~lost /\ ~deleted /\ disk'.rev = disk.rev
    BY <1>4, HandlerSaves, HandlerSavesFresh
  <2>. QED
    BY <1>1, <1>2, <1>3, <2>1, <2>2 DEF FileInv, Saved
<1>5. CASE UnlinkReport(r)
  <2>1. \/ Saved(disk) /\ deleted'
        \/ UNCHANGED <<disk, lost, deleted>>
    BY <1>5 DEF UnlinkReport
  <2>. QED
    BY <1>1, <1>2, <1>3, <2>1 DEF FileInv
<1>. QED
  BY <1>4, <1>5

(* Every step keeps FileInv. *)
LEMMA FileStep == IInv /\ [Next]_vars => FileInv'
<1>. SUFFICES ASSUME IInv, [Next]_vars PROVE FileInv'
  OBVIOUS
<1>0. TypeOK /\ BeforeInv /\ StatusInv /\ RevisionInv /\ FileInv
  BY DEF IInv
<1>1. CASE StartJob
  BY <1>0, <1>1, FileStart
<1>2. CASE UploadFails
  <2>1. /\ pc = "idle" /\ pc' = "ended" /\ status' = "error"
        /\ UNCHANGED <<result, jobfile, disk, draft, reqs, faults, lost, deleted>>
    BY <1>2 DEF UploadFails, fileVars, localVars, boundVars, historyVars
  <2>2. result.rev = 0 /\ jobfile.rev = 0
    BY <1>0, <2>1 DEF BeforeInv, NoReport
  <2>. QED
    BY <1>0, <2>1, <2>2 DEF FileInv, Active, Scanning, Publishing
<1>3. CASE PublishGet
  BY <1>0, <1>3, FileGet
<1>4. CASE PublishLock
  BY <1>0, <1>4, FileLock
<1>5. CASE PublishSave
  BY <1>0, <1>5, FileSave
<1>6. CASE PublishAdvertise
  BY <1>0, <1>6, FileAdvertise
<1>7. CASE PublishRecord
  BY <1>0, <1>7, FileRecord
<1>8. CASE FinishPersist
  BY <1>0, <1>8, FileEnd
<1>9. CASE CollectJob
  BY <1>0, <1>9, FileCollect
<1>10. CASE Restart
  BY <1>0, <1>10, FileRestart
<1>11. CASE \/ ScanStage \/ ScanCancelled \/ ScanFails \/ StartIndex \/ IndexCompletes
            \/ IndexFails \/ FinalCheck \/ FinishGet
  <2>1. /\ UNCHANGED <<status, result, jobfile, disk, reqs, faults, lost, deleted>>
        /\ pc \in Scanning \cup {"finish"}
    BY <1>11
    DEF ScanStage, ScanCancelled, ScanFails, StartIndex, IndexCompletes, IndexFails,
        FinalCheck, FinishGet, ScanUnchanged, storeVars, boundVars, historyVars, Scanning
  <2>2. pc' \in {"publish", "index", "finish", "settle", "exit"}
    BY <1>11
    DEF ScanStage, ScanCancelled, ScanFails, StartIndex, IndexCompletes, IndexFails,
        FinalCheck, FinishGet, Raise
  <2>. QED
    BY <1>0, <2>1, <2>2 DEF FileInv, Active, Scanning, Publishing
<1>12. CASE FinishStatus
  <2>1. /\ pc = "settle" /\ pc' = "persist"
        /\ status' = IF status = "none" THEN status ELSE final
        /\ UNCHANGED <<result, jobfile, disk, draft, reqs, faults, lost, deleted>>
    BY <1>12 DEF FinishStatus, fileVars, localVars, boundVars, historyVars
  <2>2. final # "running"
    BY <1>0, <2>1 DEF StatusInv
  <2>. QED
    BY <1>0, <2>1, <2>2 DEF FileInv, Active, Scanning, Publishing
<1>13. CASE RunExit
  <2>1. /\ pc' = "ended"
        /\ UNCHANGED <<status, result, jobfile, disk, reqs, faults, lost, deleted>>
    BY <1>13 DEF RunExit, boundVars, historyVars
  <2>. QED
    BY <1>0, <2>1 DEF FileInv, Active, Scanning, Publishing
<1>14. CASE Cancel
  <2>1. UNCHANGED <<status, result, jobfile, disk, pc, draft, reqs, faults, lost, deleted>>
    BY <1>14 DEF Cancel, CancelJob, fileVars, workerVars, localVars, boundVars, historyVars
  <2>. QED
    BY <1>0, <2>1 DEF FileInv, Saved
<1>15. ASSUME NEW r \in Requests, DeleteJobAct(r) PROVE FileInv'
  BY <1>0, <1>15, FileDeleteJob
<1>16. ASSUME NEW r \in Requests,
              AnnotateSave(r) \/ AttachSourceSave(r) \/ UnlinkReport(r)
       PROVE  FileInv'
  BY <1>0, <1>16, FileHandlerSave
<1>17. ASSUME NEW r \in Requests, RequestSaveFails(r) PROVE FileInv'
  <2>1. UNCHANGED <<status, result, jobfile, disk, pc, draft, lost, deleted>>
    BY <1>17
    DEF RequestSaveFails, storeVars, fileVars, workerVars, localVars, historyVars
  <2>2. faults' > 0
    BY <1>0, <1>17, BoundsAssumption DEF RequestSaveFails, Fault, TypeOK
  <2>3. \A q \in Requests : reqs'[q].pc \in {reqs[q].pc, "idle"}
    BY <1>0, <1>17, ReplyReqs DEF RequestSaveFails
  <2>. QED
    BY <1>0, <2>1, <2>2, <2>3 DEF FileInv, Saved
<1>18. ASSUME NEW r \in Requests,
              \/ DeleteJob(r) \/ DeleteAnalysis(r) \/ DeleteAnalysisGuard(r) \/ UnlinkIndex(r)
              \/ Annotate(r) \/ AnnotateRead(r) \/ AttachSource(r) \/ AttachSourceGuard(r)
       PROVE  FileInv'
  <2>1. UNCHANGED <<status, result, jobfile, disk, pc, draft, faults, lost, deleted>>
    BY <1>18
    DEF DeleteJob, DeleteAnalysis, DeleteAnalysisGuard, UnlinkIndex, Annotate, AnnotateRead,
        AttachSource, AttachSourceGuard, storeVars, fileVars, workerVars, localVars,
        boundVars, historyVars
  <2>2. \A q \in Requests \ {r} : reqs'[q] = reqs[q]
    BY <1>0, <1>18, HoldReqs, ReplyReqs
    DEF DeleteJob, DeleteAnalysis, DeleteAnalysisGuard, UnlinkIndex, Annotate, AnnotateRead,
        AttachSource, AttachSourceGuard
  <2>3. \/ reqs'[r].pc \notin {"notes", "capture", "guardSource", "source"}
        \/ Saved(disk)
        \/ reqs[r].pc = "guardSource"
    <3>1. CASE AnnotateRead(r) \/ AttachSource(r) \/ AttachSourceGuard(r)
      BY <1>0, <3>1, ReplyReqs DEF AnnotateRead, AttachSource, AttachSourceGuard
    <3>2. CASE \/ DeleteJob(r) \/ DeleteAnalysis(r) \/ DeleteAnalysisGuard(r)
               \/ UnlinkIndex(r) \/ Annotate(r)
      BY <1>0, <3>2, HoldReqs, ReplyReqs
      DEF DeleteJob, DeleteAnalysis, DeleteAnalysisGuard, UnlinkIndex, Annotate
    <3>. QED
      BY <1>18, <3>1, <3>2
  <2>. QED
    BY <1>0, <2>1, <2>2, <2>3, FileHandler
<1>19. CASE UNCHANGED vars
  <2>1. UNCHANGED <<status, result, jobfile, disk, pc, draft, reqs, faults, lost, deleted>>
    BY <1>19
    DEF vars, storeVars, fileVars, workerVars, localVars, boundVars, historyVars
  <2>. QED
    BY <1>0, <2>1 DEF FileInv, Saved
<1>. QED
  BY <1>1, <1>2, <1>3, <1>4, <1>5, <1>6, <1>7, <1>8, <1>9, <1>10, <1>11, <1>12, <1>13,
     <1>14, <1>15, <1>16, <1>17, <1>18, <1>19
  DEF Next, WorkerStep, RequestArrives, RequestStep

-----------------------------------------------------------------------------
(* The invariant and what follows from it.                                 *)

(* The initial state satisfies the invariant. *)
LEMMA InitIInv == Init => IInv
<1>. SUFFICES ASSUME Init PROVE IInv
  OBVIOUS
<1>1. TypeOK
  <2>1. reqs \in [Requests -> RequestState]
    BY IdleType DEF Init
  <2>2. jobfile \in JobFile /\ acked \in [notes : Annotation, capture : Annotation]
    BY DEF Init, JobFile, Status, Annotation
  <2>3. faults \in 0..MaxFaults /\ restarts \in 0..MaxRestarts
    BY BoundsAssumption DEF Init
  <2>. QED
    BY <2>1, <2>2, <2>3, NoReportType DEF Init, TypeOK, Status, Terminal, WorkerPc
<1>2. \A r \in Requests : reqs[r] = Idle
  BY DEF Init
<1>3. BeforeInv /\ RunningInv /\ InputInv
  BY <1>2 DEF Init, BeforeInv, RunningInv, InputInv, Idle, Active, Scanning, Publishing
<1>4. LockInv
  BY <1>2, NamesAssumption DEF Init, LockInv, Idle
<1>5. StatusInv
  BY CheckpointsAssumption DEF Init, StatusInv, Active, Scanning, Publishing
<1>6. AckedInv
  BY <1>2 DEF Init, AckedInv, Heard, AnnotationsKept, Idle, NoReport
<1>7. RevisionInv
  BY DEF Init, RevisionInv, NoReport
<1>8. IndexInv
  BY <1>2 DEF Init, IndexInv, Names, Offered, Idle, NoReport, Active, Scanning, Publishing
<1>9. OrphanInv /\ ClosedInv
  BY DEF Init, OrphanInv, ClosedInv, TerminalReportClosed, Saved, NoReport, Publishing, Terminal
<1>10. FileInv
  BY <1>2
  DEF Init, FileInv, Idle, NoReport, Saved, Active, Scanning, Publishing
<1>. QED
  BY <1>1, <1>3, <1>4, <1>5, <1>6, <1>7, <1>8, <1>9, <1>10 DEF IInv

(* Every step keeps the invariant. *)
LEMMA IInvStep == IInv /\ [Next]_vars => IInv'
<1>1. IInv => TypeOK
  BY DEF IInv
<1>. QED
  BY <1>1, TypeStep, BeforeStep, LockStep, StatusStep, RunningStep, AckedStep, RevisionStep,
     IndexStep, OrphanStep, ClosedStep, InputStep, FileStep
  DEF IInv

(* Every variable keeps its type, whatever the handlers and faults do. *)
THEOREM TypeCorrect == Spec => []TypeOK
<1>1. Init => TypeOK
  BY InitIInv DEF IInv
<1>. QED
  BY <1>1, TypeStep, PTL DEF Spec

(* The inductive invariant of HeapJobInv holds in every reachable state. *)
THEOREM Invariant == Spec => []IInv
  BY InitIInv, IInvStep, PTL DEF Spec

(* While the job runs the saved report is never overwritten by a writer    *)
(* that has not read it, and is never deleted.                             *)
THEOREM NoLostUpdate == Spec => []NoLostUpdateWhileRunning
<1>1. IInv => NoLostUpdateWhileRunning
  BY DEF IInv, RunningInv, NoLostUpdateWhileRunning
<1>. QED
  BY <1>1, Invariant, PTL

(* Acknowledged notes and capture data stay in the saved report until an   *)
(* unlocked save loses them or the report is deleted.                      *)
THEOREM AnnotationsSurvive == Spec => []AnnotationsKept
<1>1. IInv => AnnotationsKept
  BY DEF IInv, AckedInv
<1>. QED
  BY <1>1, Invariant, PTL

(* No client is told of a revision that is not saved. *)
THEOREM RevisionsSaved == Spec => []AdvertisedRevisionSaved
<1>1. IInv => AdvertisedRevisionSaved
  BY DEF IInv, RevisionInv, AdvertisedRevisionSaved
<1>. QED
  BY <1>1, Invariant, PTL

(* A saved report offers an object index only when it is complete. *)
THEOREM IndexComplete == Spec => []NamedIndexComplete
<1>1. IInv => NamedIndexComplete
  BY DEF IInv, IndexInv, Names, NamedIndexComplete
<1>. QED
  BY <1>1, Invariant, PTL

(* A task that is over has left no index that no report names. *)
THEOREM NoIndexLeftBehind == Spec => []NoOrphanIndex
<1>1. IInv => NoOrphanIndex
  BY DEF IInv, OrphanInv, NoOrphanIndex
<1>. QED
  BY <1>1, Invariant, PTL

(* A report whose job is over has no stage pending. *)
THEOREM ReportClosed == Spec => []TerminalReportClosed
<1>1. IInv => TerminalReportClosed
  BY DEF IInv, ClosedInv
<1>. QED
  BY <1>1, Invariant, PTL

(* The .job file of a task that is over says what the store says. *)
THEOREM MetadataAgrees == Spec => []MetadataSettled
<1>1. IInv => MetadataSettled
  BY DEF IInv, StatusInv, MetadataSettled, Terminal
<1>. QED
  BY <1>1, Invariant, PTL

(* The dump outlives the scan and an upload does not outlive the task. *)
THEOREM InputIsHandled == Spec => []InputHandled
<1>1. IInv => InputHandled
  BY DEF IInv, InputInv, StatusInv, InputHandled, Active, Scanning
<1>. QED
  BY <1>1, Invariant, PTL

(* Who writes the saved report. *)
LEMMA DiskSteps ==
    ASSUME [Next]_vars
    PROVE  \/ disk' = disk
           \/ PublishSave /\ disk' = draft
           \/ \E r \in Requests : UnlinkReport(r) /\ deleted' /\ pc' = pc
           \/ \E r \in Requests : (AnnotateSave(r) \/ AttachSourceSave(r)) /\ pc' = pc
<1>1. CASE PublishSave
  BY <1>1 DEF PublishSave
<1>2. CASE \E r \in Requests : UnlinkReport(r)
  BY <1>2 DEF UnlinkReport, workerVars
<1>3. CASE \E r \in Requests : AnnotateSave(r) \/ AttachSourceSave(r)
  BY <1>3 DEF AnnotateSave, AttachSourceSave, workerVars
<1>4. CASE StartJob \/ UploadFails \/ Cancel \/ CollectJob \/ Restart
  BY <1>4 DEF StartJob, UploadFails, Cancel, CollectJob, Restart, fileVars
<1>5. CASE \/ ScanStage \/ ScanCancelled \/ ScanFails \/ StartIndex \/ IndexCompletes
           \/ IndexFails \/ FinalCheck \/ PublishGet \/ FinishGet
  BY <1>5
  DEF ScanStage, ScanCancelled, ScanFails, StartIndex, IndexCompletes, IndexFails,
      FinalCheck, PublishGet, FinishGet, ScanUnchanged
<1>6. CASE \/ PublishLock \/ PublishAdvertise \/ PublishRecord \/ FinishStatus
           \/ FinishPersist \/ RunExit
  BY <1>6
  DEF PublishLock, PublishAdvertise, PublishRecord, FinishStatus, FinishPersist,
      RunExit, PersistUnchanged, fileVars
<1>7. CASE \E r \in Requests : \/ DeleteJob(r) \/ DeleteJobAct(r) \/ DeleteAnalysis(r)
                              \/ DeleteAnalysisGuard(r) \/ UnlinkIndex(r) \/ Annotate(r)
                              \/ AnnotateRead(r)
                              \/ AttachSource(r) \/ AttachSourceGuard(r)
                              \/ RequestSaveFails(r)
  BY <1>7
  DEF DeleteJob, DeleteJobAct, DeleteAnalysis, DeleteAnalysisGuard, UnlinkIndex,
      Annotate, AnnotateRead,
      AttachSource, AttachSourceGuard, RequestSaveFails, fileVars
<1>8. CASE UNCHANGED vars
  BY <1>8 DEF vars, fileVars
<1>. QED
  BY <1>1, <1>2, <1>3, <1>4, <1>5, <1>6, <1>7, <1>8
  DEF Next, WorkerStep, RequestArrives, RequestStep

(* Unless a write has failed, the worker does not save a deleted report    *)
(* again: publish() saves only while the job runs.                         *)
THEOREM NeverRecreated == Spec => WorkerNeverRecreates
<1>1. ASSUME IInv, [Next]_vars
      PROVE  deleted /\ faults' = 0 /\ pc' # pc => disk' = disk
  <2>. SUFFICES ASSUME deleted, faults' = 0, pc' # pc, disk' # disk PROVE FALSE
    OBVIOUS
  <2>1. PublishSave
    BY <1>1, DiskSteps
  <2>2. pc = "save" /\ faults = 0
    BY <2>1, <1>1, FaultCounts DEF PublishSave, IInv
  <2>3. status = "running"
    BY <1>1, <2>2 DEF IInv, StatusInv, Active, Publishing
  <2>. QED
    BY <1>1, <2>3 DEF IInv, RunningInv
<1>. QED
  BY <1>1, Invariant, PTL DEF Spec, WorkerNeverRecreates

(* A newer, complete or indexed report is never replaced by an older, an   *)
(* unfinished or an unindexed one, unless an unlocked save loses it.       *)
THEOREM NeverRegresses == Spec => ReportNeverRegresses
<1>1. ASSUME IInv, [Next]_vars
      PROVE  ~lost' /\ ~deleted' =>
                /\ disk.rev <= disk'.rev
                /\ disk.closed => disk'.closed
                /\ disk.index => disk'.index
  <2>. SUFFICES ASSUME ~lost', ~deleted'
                PROVE  /\ disk.rev <= disk'.rev
                       /\ disk.closed => disk'.closed
                       /\ disk.index => disk'.index
    OBVIOUS
  <2>1. disk.rev \in Nat /\ disk'.rev \in Nat
    BY <1>1, TypeStep, RevisionTypes DEF IInv, TypeOK, Report
  <2>2. CASE disk' = disk
    BY <2>1, <2>2
  <2>3. CASE PublishSave /\ disk' = draft
    <3>1. pc = "save" /\ ~lost /\ ~deleted
      <4>1. pc = "save" /\ UNCHANGED deleted
        BY <2>3 DEF PublishSave
      <4>2. lost' = lost \/ lost' = IF disk = base THEN lost ELSE TRUE
        BY <2>3 DEF PublishSave
      <4>. QED
        BY <4>1, <4>2
    <3>2. draft.rev = disk.rev + 1
      BY <1>1, <3>1 DEF IInv, RevisionInv
    <3>3. disk.closed => draft.closed
      BY <1>1, <3>1 DEF IInv, ClosedInv
    <3>4. disk.index => draft.index
      BY <1>1, <3>1 DEF IInv, IndexInv, Offered, Publishing
    <3>. QED
      BY <2>1, <2>3, <3>2, <3>3, <3>4
  <2>4. ASSUME NEW r \in Requests, AnnotateSave(r) \/ AttachSourceSave(r)
        PROVE  disk'.rev = disk.rev /\ disk'.index = disk.index /\ (disk.closed => disk'.closed)
    BY <2>4, HandlerSavesFresh
  <2>5. \/ disk' = disk
        \/ PublishSave /\ disk' = draft
        \/ \E r \in Requests : AnnotateSave(r) \/ AttachSourceSave(r)
    BY <1>1, DiskSteps
  <2>. QED
    BY <2>1, <2>2, <2>3, <2>4, <2>5
<1>. QED
  BY <1>1, Invariant, PTL DEF Spec, ReportNeverRegresses

(* Who changes the job's status. *)
LEMMA StatusSteps ==
    ASSUME [Next]_vars
    PROVE  \/ status' = status
           \/ StartJob \/ UploadFails \/ FinishStatus \/ CollectJob \/ Restart
           \/ \E r \in Requests : DeleteJobAct(r)
<1>1. CASE \/ ScanStage \/ ScanCancelled \/ ScanFails \/ StartIndex \/ IndexCompletes
           \/ IndexFails \/ FinalCheck \/ PublishGet \/ FinishGet
  BY <1>1
  DEF ScanStage, ScanCancelled, ScanFails, StartIndex, IndexCompletes, IndexFails,
      FinalCheck, PublishGet, FinishGet, ScanUnchanged, storeVars
<1>2. CASE \/ PublishLock \/ PublishSave \/ PublishAdvertise \/ PublishRecord
           \/ FinishPersist \/ RunExit \/ Cancel
  BY <1>2
  DEF PublishLock, PublishSave, PublishAdvertise, PublishRecord, FinishPersist,
      RunExit, PersistUnchanged, Cancel, CancelJob, storeVars
<1>3. CASE \E r \in Requests : \/ DeleteJob(r) \/ DeleteAnalysis(r)
                              \/ DeleteAnalysisGuard(r) \/ UnlinkReport(r)
                              \/ UnlinkIndex(r) \/ Annotate(r) \/ AnnotateRead(r)
                              \/ AnnotateSave(r)
                              \/ AttachSource(r) \/ AttachSourceGuard(r)
                              \/ AttachSourceSave(r) \/ RequestSaveFails(r)
  BY <1>3
  DEF DeleteJob, DeleteAnalysis, DeleteAnalysisGuard, UnlinkReport, UnlinkIndex,
      Annotate, AnnotateRead,
      AnnotateSave, AttachSource, AttachSourceGuard, AttachSourceSave, RequestSaveFails,
      storeVars
<1>4. CASE UNCHANGED vars
  BY <1>4 DEF vars, storeVars
<1>. QED
  BY <1>1, <1>2, <1>3, <1>4 DEF Next, WorkerStep, RequestArrives, RequestStep

(* A terminal status stays until the job is forgotten, unless a write has  *)
(* failed: finish() is not called again.                                   *)
THEOREM StatusStable == Spec => TerminalStatusStable
<1>1. ASSUME IInv, [Next]_vars
      PROVE  faults' = 0 /\ status \in Terminal => status' \in {status, "none"}
  <2>. SUFFICES ASSUME faults' = 0, status \in Terminal
                PROVE  status' \in {status, "none"}
    OBVIOUS
  <2>1. CASE StartJob \/ UploadFails
    BY <1>1, <2>1 DEF StartJob, UploadFails, IInv, BeforeInv, Terminal
  <2>2. CASE FinishStatus
    <3>1. pc = "settle" /\ faults = 0
      BY <2>2 DEF FinishStatus, boundVars
    <3>. QED
      BY <1>1, <3>1 DEF IInv, StatusInv, Active, Terminal
  <2>3. CASE CollectJob \/ Restart
    BY <2>3 DEF CollectJob, RemoveJob, Restart
  <2>4. ASSUME NEW r \in Requests, DeleteJobAct(r) PROVE status' \in {status, "none"}
    BY <2>4 DEF DeleteJobAct, CancelJob, RemoveJob
  <2>. QED
    BY <1>1, <2>1, <2>2, <2>3, <2>4, StatusSteps
<1>. QED
  BY <1>1, Invariant, PTL DEF Spec, TerminalStatusStable

(* Once a job is on its way to another end, it is not done. *)
LEMMA DoomedStep == IInv /\ Doomed /\ [Next]_vars => Doomed'
<1>. SUFFICES ASSUME IInv, Doomed, [Next]_vars PROVE Doomed'
  OBVIOUS
<1>1. /\ pc # "idle"
      /\ pc \in {"finish", "settle", "persist"} => final # "running"
      /\ pc \in Scanning => final = "running"
  BY DEF IInv, StatusInv, Doomed, Active, Scanning, Publishing
<1>2. status' # "done"
  <2>1. CASE FinishStatus
    BY <1>1, <2>1 DEF FinishStatus, Doomed
  <2>2. CASE StartJob \/ UploadFails
    BY <1>1, <2>2 DEF StartJob, UploadFails
  <2>3. CASE CollectJob \/ Restart
    BY <2>3 DEF CollectJob, RemoveJob, Restart
  <2>4. ASSUME NEW r \in Requests, DeleteJobAct(r) PROVE status' # "done"
    BY <2>4 DEF Doomed, DeleteJobAct, CancelJob, RemoveJob
  <2>. QED
    BY <2>1, <2>2, <2>3, <2>4, StatusSteps DEF Doomed
<1>. USE DEF Doomed, Active, Scanning, Publishing, localVars, workerVars
<1>3. CASE StartJob \/ UploadFails
  BY <1>1, <1>3 DEF StartJob, UploadFails
<1>4. CASE \/ ScanStage \/ ScanCancelled \/ ScanFails \/ StartIndex \/ IndexCompletes
           \/ IndexFails \/ FinalCheck \/ PublishGet \/ FinishGet
  BY <1>1, <1>2, <1>4
  DEF ScanStage, ScanCancelled, ScanFails, StartIndex, IndexCompletes, IndexFails,
      FinalCheck, PublishGet, FinishGet, ScanUnchanged, Raise, storeVars
<1>5. CASE \/ PublishLock \/ PublishSave \/ PublishAdvertise \/ PublishRecord
           \/ FinishStatus \/ FinishPersist \/ RunExit
  BY <1>1, <1>2, <1>5
  DEF PublishLock, PublishSave, PublishAdvertise, PublishRecord, FinishStatus,
      FinishPersist, RunExit, PersistRaises, PersistUnchanged, Raise, storeVars
<1>6. CASE Cancel \/ CollectJob \/ Restart
  BY <1>2, <1>6 DEF Cancel, CancelJob, CollectJob, RemoveJob, Restart, ForgetLocals
<1>7. ASSUME NEW r \in Requests, DeleteJobAct(r) PROVE Doomed'
  BY <1>2, <1>7 DEF DeleteJobAct, CancelJob, RemoveJob
<1>8. ASSUME NEW r \in Requests,
             \/ DeleteJob(r) \/ DeleteAnalysis(r) \/ DeleteAnalysisGuard(r) \/ UnlinkReport(r)
             \/ UnlinkIndex(r) \/ Annotate(r) \/ AnnotateRead(r) \/ AnnotateSave(r)
             \/ AttachSource(r)
             \/ AttachSourceGuard(r) \/ AttachSourceSave(r) \/ RequestSaveFails(r)
      PROVE  Doomed'
  BY <1>8
  DEF DeleteJob, DeleteAnalysis, DeleteAnalysisGuard, UnlinkReport, UnlinkIndex,
      Annotate, AnnotateRead,
      AnnotateSave, AttachSource, AttachSourceGuard, AttachSourceSave, RequestSaveFails,
      storeVars
<1>9. CASE UNCHANGED vars
  BY <1>9 DEF vars, storeVars
<1>. QED
  BY <1>3, <1>4, <1>5, <1>6, <1>7, <1>8, <1>9
  DEF Next, WorkerStep, RequestArrives, RequestStep

(* A job cancelled before its task's last check never ends "done". *)
THEOREM CancellationHonoured == Spec => CancelHonoured
<1>1. IInv /\ cancelled /\ pc \in {"scan", "index", "check"} => Doomed
  BY DEF IInv, StatusInv, Doomed, Active, Scanning
<1>2. Doomed => status # "done"
  BY DEF Doomed
<1>. QED
  BY <1>1, <1>2, DoomedStep, Invariant, PTL DEF Spec, CancelHonoured

(* A task that is over leaves its files in order. *)
THEOREM TaskLeavesOrder == Spec => []FilesSettle
<1>. QED
  BY NoIndexLeftBehind, InputIsHandled, MetadataAgrees, PTL DEF FilesSettle

(* What a client was told of the end of a job stands. *)
THEOREM OutcomesStand == Spec => OutcomeStands
<1>. QED
  BY StatusStable, CancellationHonoured DEF OutcomeStands
=============================================================================
