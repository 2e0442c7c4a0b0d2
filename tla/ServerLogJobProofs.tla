------------------------- MODULE ServerLogJobProofs -------------------------
(***************************************************************************)
(* Proofs about ServerLogJob, for any logs, handlers and bounds.           *)
(*                                                                         *)
(* The properties follow from IInv, which every step preserves: one lemma  *)
(* for each of its parts, with one step for each action.  A log that was   *)
(* cancelled in time stays Doomed, which is the induction of the last      *)
(* theorem.                                                                *)
(***************************************************************************)
EXTENDS ServerLogJob, TLAPS

(* Nothing has been uploaded: every part of the invariant holds. *)
LEMMA InitIInv == Init => IInv
<1>. SUFFICES ASSUME Init PROVE IInv
  OBVIOUS
<1>1. TypeOK
  BY LimitsAssumption
  DEF Init, TypeOK, Status, TaskPc, HandlerState, HandlerPc, IdleHandler
<1>2. LoopInv
  BY NoJobAssumption DEF Init, LoopInv, OnLoop, Admitted
<1>3. SavedInv /\ StatusInv /\ FilesInv
  BY DEF Init, SavedInv, StatusInv, FilesInv, Ending
<1>4. HandlersInv
  BY DEF Init, HandlersInv, IdleHandler
<1>. QED
  BY <1>1, <1>2, <1>3, <1>4 DEF IInv

-----------------------------------------------------------------------------

(* _run_log's save of the report, which may fail within the bound. *)
LEMMA SaveReportType ==
    ASSUME IInv, NEW j \in Jobs, SaveReport(j), UNCHANGED backend PROVE TypeOK'
<1>1. faults' \in 0..MaxFaults
  BY LimitsAssumption DEF SaveReport, Fault, IInv, TypeOK
<1>2. /\ report' \in [Jobs -> BOOLEAN] /\ saved' \in [Jobs -> BOOLEAN]
      /\ pc' \in [Jobs -> TaskPc]
  BY DEF SaveReport, Goto, IInv, TypeOK, TaskPc, OnLoop
<1>. QED
  BY <1>1, <1>2 DEF SaveReport, IInv, TypeOK, jobVars

(* Deleting an analysis' report: the handler is at one of the logs. *)
LEMMA DeleteReportType ==
    ASSUME IInv, NEW h \in Handlers, DeleteReport(h), UNCHANGED backend PROVE TypeOK'
<1>1. handlers[h].job \in Jobs
  BY DEF DeleteReport, IInv, HandlersInv
<1>2. handlers' \in [Handlers -> HandlerState]
  BY <1>1
  DEF DeleteReport, Handle, Answer, IInv, TypeOK, HandlerState, HandlerPc, IdleHandler
<1>3. report' \in [Jobs -> BOOLEAN] /\ removed' \in [Jobs -> BOOLEAN]
  BY <1>1 DEF DeleteReport, IInv, TypeOK
<1>. QED
  BY <1>2, <1>3 DEF DeleteReport, IInv, TypeOK, jobVars, taskVars

(* Every variable keeps the values its code gives it. *)
LEMMA TypeStep ==
    IInv /\ [Next]_vars => TypeOK'
<1>. SUFFICES ASSUME IInv, [Next]_vars PROVE TypeOK'
  OBVIOUS
<1>. USE DEF IInv, TypeOK, jobVars, fileVars, taskVars, TaskPc, Waiting,
             OnLoop, Status, Terminal, HandlerState, HandlerPc, IdleHandler
<1>1. ASSUME NEW j \in Jobs, backend = "up", StartUpload(j), UNCHANGED backend
      PROVE  TypeOK'
  BY <1>1 DEF StartUpload, LoopFree, Goto
<1>2. ASSUME NEW j \in Jobs, backend = "up", UploadBreaks(j), UNCHANGED backend
      PROVE  TypeOK'
  BY <1>2 DEF UploadBreaks, Goto
<1>3. ASSUME NEW j \in Jobs, backend = "up", UploadEnds(j), UNCHANGED backend
      PROVE  TypeOK'
  BY <1>3 DEF UploadEnds, Goto
<1>4. ASSUME NEW j \in Jobs, backend = "up", Admit(j), UNCHANGED backend
      PROVE  TypeOK'
  BY <1>4 DEF Admit, LoopFree, Goto, Mark
<1>5. ASSUME NEW j \in Jobs, backend = "up", OpenIndex(j), UNCHANGED backend
      PROVE  TypeOK'
  BY <1>5 DEF OpenIndex, Goto, ThreadUnchanged
<1>6. ASSUME NEW j \in Jobs, backend = "up", ScanEnds(j), UNCHANGED backend
      PROVE  TypeOK'
  BY <1>6 DEF ScanEnds, Goto, ThreadUnchanged
<1>7. ASSUME NEW j \in Jobs, backend = "up", ScanRaises(j), UNCHANGED backend
      PROVE  TypeOK'
  BY <1>7 DEF ScanRaises, Goto, ThreadUnchanged
<1>8. ASSUME NEW j \in Jobs, backend = "up", Resume(j), UNCHANGED backend
      PROVE  TypeOK'
  BY <1>8 DEF Resume, LoopFree, Goto
<1>9. ASSUME NEW j \in Jobs, backend = "up", CheckCancel(j), UNCHANGED backend
      PROVE  TypeOK'
  BY <1>9 DEF CheckCancel, Goto
<1>10. ASSUME NEW j \in Jobs, backend = "up", SaveReport(j), UNCHANGED backend
       PROVE  TypeOK'
  BY <1>10, SaveReportType
<1>11. ASSUME NEW j \in Jobs, backend = "up", MarkDone(j), UNCHANGED backend
       PROVE  TypeOK'
  BY <1>11 DEF MarkDone, Goto, Mark
<1>12. ASSUME NEW j \in Jobs, backend = "up", MarkError(j), UNCHANGED backend
       PROVE  TypeOK'
  BY <1>12 DEF MarkError, Goto, Mark
<1>13. ASSUME NEW j \in Jobs, backend = "up", UnlinkUpload(j), UNCHANGED backend
       PROVE  TypeOK'
  BY <1>13 DEF UnlinkUpload, Goto
<1>14. ASSUME NEW j \in Jobs, backend = "up", UnlinkIndex(j), UNCHANGED backend
       PROVE  TypeOK'
  BY <1>14 DEF UnlinkIndex, Goto
<1>15. ASSUME NEW j \in Jobs, backend = "up", ClearCancel(j), UNCHANGED backend
       PROVE  TypeOK'
  BY <1>15 DEF ClearCancel, Goto
<1>16. ASSUME NEW j \in Jobs, backend = "up", Cancel(j), UNCHANGED backend
       PROVE  TypeOK'
  BY <1>16 DEF Cancel
<1>17. ASSUME NEW j \in Jobs, backend = "up", DeleteJob(j), UNCHANGED backend
       PROVE  TypeOK'
  BY <1>17 DEF DeleteJob, RemoveJob
<1>18. ASSUME NEW j \in Jobs, backend = "up", CollectJob(j), UNCHANGED backend
       PROVE  TypeOK'
  BY <1>18 DEF CollectJob, RemoveJob
<1>19. ASSUME NEW h \in Handlers, NEW j \in Jobs,
              backend = "up", DeleteAnalysis(h, j), UNCHANGED backend
       PROVE  TypeOK'
  BY <1>19 DEF DeleteAnalysis, Handle
<1>20. ASSUME NEW h \in Handlers, NEW j \in Jobs,
              backend = "up", Browse(h, j), UNCHANGED backend
       PROVE  TypeOK'
  BY <1>20 DEF Browse, Handle
<1>21. ASSUME NEW h \in Handlers, backend = "up", DeleteReport(h), UNCHANGED backend
       PROVE  TypeOK'
  BY <1>21, DeleteReportType
<1>22. ASSUME NEW h \in Handlers, backend = "up", DeleteIndex(h), UNCHANGED backend
       PROVE  TypeOK'
  BY <1>22 DEF DeleteIndex, Answer
<1>23. ASSUME NEW h \in Handlers, backend = "up", ConnectIndex(h), UNCHANGED backend
       PROVE  TypeOK'
  BY <1>23 DEF ConnectIndex, Answer
<1>24. ASSUME NEW j \in Jobs, DiscardUpload(j)
       PROVE  TypeOK'
  BY <1>24 DEF DiscardUpload
<1>25. ASSUME NEW j \in Jobs, DiscardIndex(j)
       PROVE  TypeOK'
  BY <1>25 DEF DiscardIndex, Unpublished
<1>26. CASE Crash
  BY <1>26, LimitsAssumption, NoJobAssumption DEF Crash
<1>27. CASE Serve
  BY <1>27 DEF Serve, Unpublished
<1>28. CASE UNCHANGED vars
  BY <1>28 DEF vars
<1>. QED
  BY <1>1, <1>2, <1>3, <1>4, <1>5, <1>6, <1>7, <1>8, <1>9, <1>10, <1>11,
     <1>12, <1>13, <1>14, <1>15, <1>16, <1>17, <1>18, <1>19, <1>20, <1>21,
     <1>22, <1>23, <1>24, <1>25, <1>26, <1>27, <1>28
  DEF Next, Running, Request, TaskStep, HandlerStep, Startup

(* A task is on the event loop alone, holds the semaphore exactly from
   its admission to its outcome, and none is alive while the backend
   starts. *)
LEMMA LoopStep ==
    IInv /\ [Next]_vars => LoopInv'
<1>. SUFFICES ASSUME IInv, [Next]_vars PROVE LoopInv'
  OBVIOUS
<1>. USE DEF IInv, TypeOK, LoopInv, jobVars, fileVars, taskVars, OnLoop,
             Admitted
<1>1. ASSUME NEW j \in Jobs, backend = "up", StartUpload(j), UNCHANGED backend
      PROVE  LoopInv'
  BY <1>1, NoJobAssumption DEF StartUpload, LoopFree, Goto
<1>2. ASSUME NEW j \in Jobs, backend = "up", UploadBreaks(j), UNCHANGED backend
      PROVE  LoopInv'
  BY <1>2, NoJobAssumption DEF UploadBreaks, Goto
<1>3. ASSUME NEW j \in Jobs, backend = "up", UploadEnds(j), UNCHANGED backend
      PROVE  LoopInv'
  BY <1>3, NoJobAssumption DEF UploadEnds, Goto
<1>4. ASSUME NEW j \in Jobs, backend = "up", Admit(j), UNCHANGED backend
      PROVE  LoopInv'
  BY <1>4, NoJobAssumption DEF Admit, LoopFree, Goto, Mark
<1>5. ASSUME NEW j \in Jobs, backend = "up", OpenIndex(j), UNCHANGED backend
      PROVE  LoopInv'
  BY <1>5, NoJobAssumption DEF OpenIndex, Goto, ThreadUnchanged
<1>6. ASSUME NEW j \in Jobs, backend = "up", ScanEnds(j), UNCHANGED backend
      PROVE  LoopInv'
  BY <1>6, NoJobAssumption DEF ScanEnds, Goto, ThreadUnchanged
<1>7. ASSUME NEW j \in Jobs, backend = "up", ScanRaises(j), UNCHANGED backend
      PROVE  LoopInv'
  BY <1>7, NoJobAssumption DEF ScanRaises, Goto, ThreadUnchanged
<1>8. ASSUME NEW j \in Jobs, backend = "up", Resume(j), UNCHANGED backend
      PROVE  LoopInv'
  BY <1>8, NoJobAssumption DEF Resume, LoopFree, Goto
<1>9. ASSUME NEW j \in Jobs, backend = "up", CheckCancel(j), UNCHANGED backend
      PROVE  LoopInv'
  BY <1>9, NoJobAssumption DEF CheckCancel, Goto
<1>10. ASSUME NEW j \in Jobs, backend = "up", SaveReport(j), UNCHANGED backend
       PROVE  LoopInv'
  BY <1>10, NoJobAssumption DEF SaveReport, Goto, Fault
<1>11. ASSUME NEW j \in Jobs, backend = "up", MarkDone(j), UNCHANGED backend
       PROVE  LoopInv'
  BY <1>11, NoJobAssumption DEF MarkDone, Goto, Mark
<1>12. ASSUME NEW j \in Jobs, backend = "up", MarkError(j), UNCHANGED backend
       PROVE  LoopInv'
  BY <1>12, NoJobAssumption DEF MarkError, Goto, Mark
<1>13. ASSUME NEW j \in Jobs, backend = "up", UnlinkUpload(j), UNCHANGED backend
       PROVE  LoopInv'
  BY <1>13, NoJobAssumption DEF UnlinkUpload, Goto
<1>14. ASSUME NEW j \in Jobs, backend = "up", UnlinkIndex(j), UNCHANGED backend
       PROVE  LoopInv'
  BY <1>14, NoJobAssumption DEF UnlinkIndex, Goto
<1>15. ASSUME NEW j \in Jobs, backend = "up", ClearCancel(j), UNCHANGED backend
       PROVE  LoopInv'
  BY <1>15, NoJobAssumption DEF ClearCancel, Goto
<1>16. ASSUME NEW j \in Jobs, backend = "up", Cancel(j), UNCHANGED backend
       PROVE  LoopInv'
  BY <1>16, NoJobAssumption DEF Cancel
<1>17. ASSUME NEW j \in Jobs, backend = "up", DeleteJob(j), UNCHANGED backend
       PROVE  LoopInv'
  BY <1>17, NoJobAssumption DEF DeleteJob, RemoveJob
<1>18. ASSUME NEW j \in Jobs, backend = "up", CollectJob(j), UNCHANGED backend
       PROVE  LoopInv'
  BY <1>18, NoJobAssumption DEF CollectJob, RemoveJob
<1>19. ASSUME NEW h \in Handlers, NEW j \in Jobs,
              backend = "up", DeleteAnalysis(h, j), UNCHANGED backend
       PROVE  LoopInv'
  BY <1>19, NoJobAssumption DEF DeleteAnalysis, Handle
<1>20. ASSUME NEW h \in Handlers, NEW j \in Jobs,
              backend = "up", Browse(h, j), UNCHANGED backend
       PROVE  LoopInv'
  BY <1>20, NoJobAssumption DEF Browse, Handle
<1>21. ASSUME NEW h \in Handlers, backend = "up", DeleteReport(h), UNCHANGED backend
       PROVE  LoopInv'
  BY <1>21, NoJobAssumption DEF DeleteReport, Handle, Answer
<1>22. ASSUME NEW h \in Handlers, backend = "up", DeleteIndex(h), UNCHANGED backend
       PROVE  LoopInv'
  BY <1>22, NoJobAssumption DEF DeleteIndex, Answer
<1>23. ASSUME NEW h \in Handlers, backend = "up", ConnectIndex(h), UNCHANGED backend
       PROVE  LoopInv'
  BY <1>23, NoJobAssumption DEF ConnectIndex, Answer
<1>24. ASSUME NEW j \in Jobs, DiscardUpload(j)
       PROVE  LoopInv'
  BY <1>24, NoJobAssumption DEF DiscardUpload
<1>25. ASSUME NEW j \in Jobs, DiscardIndex(j)
       PROVE  LoopInv'
  BY <1>25, NoJobAssumption DEF DiscardIndex, Unpublished
<1>26. CASE Crash
  BY <1>26, NoJobAssumption DEF Crash, IdleHandler
<1>27. CASE Serve
  BY <1>27, NoJobAssumption DEF Serve, Unpublished
<1>28. CASE UNCHANGED vars
  BY <1>28 DEF vars
<1>. QED
  BY <1>1, <1>2, <1>3, <1>4, <1>5, <1>6, <1>7, <1>8, <1>9, <1>10, <1>11,
     <1>12, <1>13, <1>14, <1>15, <1>16, <1>17, <1>18, <1>19, <1>20, <1>21,
     <1>22, <1>23, <1>24, <1>25, <1>26, <1>27, <1>28
  DEF Next, Running, Request, TaskStep, HandlerStep, Startup

(* _run_log's local flag agrees with the report it saved, until the user
   deletes that report or the backend dies. *)
LEMMA SavedStep ==
    IInv /\ [Next]_vars => SavedInv'
<1>. SUFFICES ASSUME IInv, [Next]_vars PROVE SavedInv'
  OBVIOUS
<1>. USE DEF IInv, TypeOK, SavedInv, jobVars, fileVars, taskVars, Ending
<1>1. ASSUME NEW j \in Jobs, backend = "up", StartUpload(j), UNCHANGED backend
      PROVE  SavedInv'
  BY <1>1 DEF StartUpload, LoopFree, Goto
<1>2. ASSUME NEW j \in Jobs, backend = "up", UploadBreaks(j), UNCHANGED backend
      PROVE  SavedInv'
  BY <1>2 DEF UploadBreaks, Goto
<1>3. ASSUME NEW j \in Jobs, backend = "up", UploadEnds(j), UNCHANGED backend
      PROVE  SavedInv'
  BY <1>3 DEF UploadEnds, Goto
<1>4. ASSUME NEW j \in Jobs, backend = "up", Admit(j), UNCHANGED backend
      PROVE  SavedInv'
  BY <1>4 DEF Admit, LoopFree, Goto, Mark
<1>5. ASSUME NEW j \in Jobs, backend = "up", OpenIndex(j), UNCHANGED backend
      PROVE  SavedInv'
  BY <1>5 DEF OpenIndex, Goto, ThreadUnchanged
<1>6. ASSUME NEW j \in Jobs, backend = "up", ScanEnds(j), UNCHANGED backend
      PROVE  SavedInv'
  BY <1>6 DEF ScanEnds, Goto, ThreadUnchanged
<1>7. ASSUME NEW j \in Jobs, backend = "up", ScanRaises(j), UNCHANGED backend
      PROVE  SavedInv'
  BY <1>7 DEF ScanRaises, Goto, ThreadUnchanged
<1>8. ASSUME NEW j \in Jobs, backend = "up", Resume(j), UNCHANGED backend
      PROVE  SavedInv'
  BY <1>8 DEF Resume, LoopFree, Goto
<1>9. ASSUME NEW j \in Jobs, backend = "up", CheckCancel(j), UNCHANGED backend
      PROVE  SavedInv'
  BY <1>9 DEF CheckCancel, Goto
<1>10. ASSUME NEW j \in Jobs, backend = "up", SaveReport(j), UNCHANGED backend
       PROVE  SavedInv'
  BY <1>10 DEF SaveReport, Goto, Fault
<1>11. ASSUME NEW j \in Jobs, backend = "up", MarkDone(j), UNCHANGED backend
       PROVE  SavedInv'
  BY <1>11 DEF MarkDone, Goto, Mark
<1>12. ASSUME NEW j \in Jobs, backend = "up", MarkError(j), UNCHANGED backend
       PROVE  SavedInv'
  BY <1>12 DEF MarkError, Goto, Mark
<1>13. ASSUME NEW j \in Jobs, backend = "up", UnlinkUpload(j), UNCHANGED backend
       PROVE  SavedInv'
  BY <1>13 DEF UnlinkUpload, Goto
<1>14. ASSUME NEW j \in Jobs, backend = "up", UnlinkIndex(j), UNCHANGED backend
       PROVE  SavedInv'
  BY <1>14 DEF UnlinkIndex, Goto
<1>15. ASSUME NEW j \in Jobs, backend = "up", ClearCancel(j), UNCHANGED backend
       PROVE  SavedInv'
  BY <1>15 DEF ClearCancel, Goto
<1>16. ASSUME NEW j \in Jobs, backend = "up", Cancel(j), UNCHANGED backend
       PROVE  SavedInv'
  BY <1>16 DEF Cancel
<1>17. ASSUME NEW j \in Jobs, backend = "up", DeleteJob(j), UNCHANGED backend
       PROVE  SavedInv'
  BY <1>17 DEF DeleteJob, RemoveJob
<1>18. ASSUME NEW j \in Jobs, backend = "up", CollectJob(j), UNCHANGED backend
       PROVE  SavedInv'
  BY <1>18 DEF CollectJob, RemoveJob
<1>19. ASSUME NEW h \in Handlers, NEW j \in Jobs,
              backend = "up", DeleteAnalysis(h, j), UNCHANGED backend
       PROVE  SavedInv'
  BY <1>19 DEF DeleteAnalysis, Handle
<1>20. ASSUME NEW h \in Handlers, NEW j \in Jobs,
              backend = "up", Browse(h, j), UNCHANGED backend
       PROVE  SavedInv'
  BY <1>20 DEF Browse, Handle
<1>21. ASSUME NEW h \in Handlers, backend = "up", DeleteReport(h), UNCHANGED backend
       PROVE  SavedInv'
  BY <1>21 DEF DeleteReport, Handle, Answer
<1>22. ASSUME NEW h \in Handlers, backend = "up", DeleteIndex(h), UNCHANGED backend
       PROVE  SavedInv'
  BY <1>22 DEF DeleteIndex, Answer
<1>23. ASSUME NEW h \in Handlers, backend = "up", ConnectIndex(h), UNCHANGED backend
       PROVE  SavedInv'
  BY <1>23 DEF ConnectIndex, Answer
<1>24. ASSUME NEW j \in Jobs, DiscardUpload(j)
       PROVE  SavedInv'
  BY <1>24 DEF DiscardUpload
<1>25. ASSUME NEW j \in Jobs, DiscardIndex(j)
       PROVE  SavedInv'
  BY <1>25 DEF DiscardIndex, Unpublished
<1>26. CASE Crash
  BY <1>26 DEF Crash
<1>27. CASE Serve
  BY <1>27 DEF Serve, Unpublished
<1>28. CASE UNCHANGED vars
  BY <1>28 DEF vars
<1>. QED
  BY <1>1, <1>2, <1>3, <1>4, <1>5, <1>6, <1>7, <1>8, <1>9, <1>10, <1>11,
     <1>12, <1>13, <1>14, <1>15, <1>16, <1>17, <1>18, <1>19, <1>20, <1>21,
     <1>22, <1>23, <1>24, <1>25, <1>26, <1>27, <1>28
  DEF Next, Running, Request, TaskStep, HandlerStep, Startup

(* The job store tells a task's outcome once it is known, and has no
   entry for an upload that is not complete or a task that died. *)
LEMMA StatusStep ==
    IInv /\ [Next]_vars => StatusInv'
<1>. SUFFICES ASSUME IInv, [Next]_vars PROVE StatusInv'
  OBVIOUS
<1>. USE DEF IInv, TypeOK, StatusInv, jobVars, fileVars, taskVars, Ending
<1>1. ASSUME NEW j \in Jobs, backend = "up", StartUpload(j), UNCHANGED backend
      PROVE  StatusInv'
  BY <1>1 DEF StartUpload, LoopFree, Goto
<1>2. ASSUME NEW j \in Jobs, backend = "up", UploadBreaks(j), UNCHANGED backend
      PROVE  StatusInv'
  BY <1>2 DEF UploadBreaks, Goto
<1>3. ASSUME NEW j \in Jobs, backend = "up", UploadEnds(j), UNCHANGED backend
      PROVE  StatusInv'
  BY <1>3 DEF UploadEnds, Goto
<1>4. ASSUME NEW j \in Jobs, backend = "up", Admit(j), UNCHANGED backend
      PROVE  StatusInv'
  BY <1>4 DEF Admit, LoopFree, Goto, Mark
<1>5. ASSUME NEW j \in Jobs, backend = "up", OpenIndex(j), UNCHANGED backend
      PROVE  StatusInv'
  BY <1>5 DEF OpenIndex, Goto, ThreadUnchanged
<1>6. ASSUME NEW j \in Jobs, backend = "up", ScanEnds(j), UNCHANGED backend
      PROVE  StatusInv'
  BY <1>6 DEF ScanEnds, Goto, ThreadUnchanged
<1>7. ASSUME NEW j \in Jobs, backend = "up", ScanRaises(j), UNCHANGED backend
      PROVE  StatusInv'
  BY <1>7 DEF ScanRaises, Goto, ThreadUnchanged
<1>8. ASSUME NEW j \in Jobs, backend = "up", Resume(j), UNCHANGED backend
      PROVE  StatusInv'
  BY <1>8 DEF Resume, LoopFree, Goto
<1>9. ASSUME NEW j \in Jobs, backend = "up", CheckCancel(j), UNCHANGED backend
      PROVE  StatusInv'
  BY <1>9 DEF CheckCancel, Goto
<1>10. ASSUME NEW j \in Jobs, backend = "up", SaveReport(j), UNCHANGED backend
       PROVE  StatusInv'
  BY <1>10 DEF SaveReport, Goto, Fault
<1>11. ASSUME NEW j \in Jobs, backend = "up", MarkDone(j), UNCHANGED backend
       PROVE  StatusInv'
  BY <1>11 DEF MarkDone, Goto, Mark, SavedInv
<1>12. ASSUME NEW j \in Jobs, backend = "up", MarkError(j), UNCHANGED backend
       PROVE  StatusInv'
  BY <1>12 DEF MarkError, Goto, Mark, SavedInv
<1>13. ASSUME NEW j \in Jobs, backend = "up", UnlinkUpload(j), UNCHANGED backend
       PROVE  StatusInv'
  BY <1>13 DEF UnlinkUpload, Goto
<1>14. ASSUME NEW j \in Jobs, backend = "up", UnlinkIndex(j), UNCHANGED backend
       PROVE  StatusInv'
  BY <1>14 DEF UnlinkIndex, Goto
<1>15. ASSUME NEW j \in Jobs, backend = "up", ClearCancel(j), UNCHANGED backend
       PROVE  StatusInv'
  BY <1>15 DEF ClearCancel, Goto
<1>16. ASSUME NEW j \in Jobs, backend = "up", Cancel(j), UNCHANGED backend
       PROVE  StatusInv'
  BY <1>16 DEF Cancel
<1>17. ASSUME NEW j \in Jobs, backend = "up", DeleteJob(j), UNCHANGED backend
       PROVE  StatusInv'
  BY <1>17 DEF DeleteJob, RemoveJob
<1>18. ASSUME NEW j \in Jobs, backend = "up", CollectJob(j), UNCHANGED backend
       PROVE  StatusInv'
  BY <1>18 DEF CollectJob, RemoveJob
<1>19. ASSUME NEW h \in Handlers, NEW j \in Jobs,
              backend = "up", DeleteAnalysis(h, j), UNCHANGED backend
       PROVE  StatusInv'
  BY <1>19 DEF DeleteAnalysis, Handle
<1>20. ASSUME NEW h \in Handlers, NEW j \in Jobs,
              backend = "up", Browse(h, j), UNCHANGED backend
       PROVE  StatusInv'
  BY <1>20 DEF Browse, Handle
<1>21. ASSUME NEW h \in Handlers, backend = "up", DeleteReport(h), UNCHANGED backend
       PROVE  StatusInv'
  BY <1>21 DEF DeleteReport, Handle, Answer
<1>22. ASSUME NEW h \in Handlers, backend = "up", DeleteIndex(h), UNCHANGED backend
       PROVE  StatusInv'
  BY <1>22 DEF DeleteIndex, Answer
<1>23. ASSUME NEW h \in Handlers, backend = "up", ConnectIndex(h), UNCHANGED backend
       PROVE  StatusInv'
  BY <1>23 DEF ConnectIndex, Answer
<1>24. ASSUME NEW j \in Jobs, DiscardUpload(j)
       PROVE  StatusInv'
  BY <1>24 DEF DiscardUpload
<1>25. ASSUME NEW j \in Jobs, DiscardIndex(j)
       PROVE  StatusInv'
  BY <1>25 DEF DiscardIndex, Unpublished
<1>26. CASE Crash
  BY <1>26 DEF Crash
<1>27. CASE Serve
  BY <1>27 DEF Serve, Unpublished
<1>28. CASE UNCHANGED vars
  BY <1>28 DEF vars
<1>. QED
  BY <1>1, <1>2, <1>3, <1>4, <1>5, <1>6, <1>7, <1>8, <1>9, <1>10, <1>11,
     <1>12, <1>13, <1>14, <1>15, <1>16, <1>17, <1>18, <1>19, <1>20, <1>21,
     <1>22, <1>23, <1>24, <1>25, <1>26, <1>27, <1>28
  DEF Next, Running, Request, TaskStep, HandlerStep, Startup

(* What is on disk at each point of a task: an index nobody published
   goes before the task ends, one that is published is complete. *)
LEMMA FilesStep ==
    IInv /\ [Next]_vars => FilesInv'
<1>. SUFFICES ASSUME IInv, [Next]_vars PROVE FilesInv'
  OBVIOUS
<1>. USE DEF IInv, TypeOK, LoopInv, SavedInv, FilesInv, HandlersInv, jobVars,
             fileVars, taskVars, Ending
<1>1. ASSUME NEW j \in Jobs, backend = "up", StartUpload(j), UNCHANGED backend
      PROVE  FilesInv'
  BY <1>1 DEF StartUpload, LoopFree, Goto
<1>2. ASSUME NEW j \in Jobs, backend = "up", UploadBreaks(j), UNCHANGED backend
      PROVE  FilesInv'
  BY <1>2 DEF UploadBreaks, Goto
<1>3. ASSUME NEW j \in Jobs, backend = "up", UploadEnds(j), UNCHANGED backend
      PROVE  FilesInv'
  BY <1>3 DEF UploadEnds, Goto
<1>4. ASSUME NEW j \in Jobs, backend = "up", Admit(j), UNCHANGED backend
      PROVE  FilesInv'
  BY <1>4 DEF Admit, LoopFree, Goto, Mark
<1>5. ASSUME NEW j \in Jobs, backend = "up", OpenIndex(j), UNCHANGED backend
      PROVE  FilesInv'
  BY <1>5 DEF OpenIndex, Goto, ThreadUnchanged
<1>6. ASSUME NEW j \in Jobs, backend = "up", ScanEnds(j), UNCHANGED backend
      PROVE  FilesInv'
  BY <1>6 DEF ScanEnds, Goto, ThreadUnchanged
<1>7. ASSUME NEW j \in Jobs, backend = "up", ScanRaises(j), UNCHANGED backend
      PROVE  FilesInv'
  BY <1>7 DEF ScanRaises, Goto, ThreadUnchanged
<1>8. ASSUME NEW j \in Jobs, backend = "up", Resume(j), UNCHANGED backend
      PROVE  FilesInv'
  BY <1>8 DEF Resume, LoopFree, Goto
<1>9. ASSUME NEW j \in Jobs, backend = "up", CheckCancel(j), UNCHANGED backend
      PROVE  FilesInv'
  BY <1>9 DEF CheckCancel, Goto
<1>10. ASSUME NEW j \in Jobs, backend = "up", SaveReport(j), UNCHANGED backend
       PROVE  FilesInv'
  BY <1>10 DEF SaveReport, Goto, Fault
<1>11. ASSUME NEW j \in Jobs, backend = "up", MarkDone(j), UNCHANGED backend
       PROVE  FilesInv'
  BY <1>11 DEF MarkDone, Goto, Mark
<1>12. ASSUME NEW j \in Jobs, backend = "up", MarkError(j), UNCHANGED backend
       PROVE  FilesInv'
  BY <1>12 DEF MarkError, Goto, Mark
<1>13. ASSUME NEW j \in Jobs, backend = "up", UnlinkUpload(j), UNCHANGED backend
       PROVE  FilesInv'
  BY <1>13 DEF UnlinkUpload, Goto
<1>14. ASSUME NEW j \in Jobs, backend = "up", UnlinkIndex(j), UNCHANGED backend
       PROVE  FilesInv'
  BY <1>14 DEF UnlinkIndex, Goto
<1>15. ASSUME NEW j \in Jobs, backend = "up", ClearCancel(j), UNCHANGED backend
       PROVE  FilesInv'
  BY <1>15 DEF ClearCancel, Goto
<1>16. ASSUME NEW j \in Jobs, backend = "up", Cancel(j), UNCHANGED backend
       PROVE  FilesInv'
  BY <1>16 DEF Cancel
<1>17. ASSUME NEW j \in Jobs, backend = "up", DeleteJob(j), UNCHANGED backend
       PROVE  FilesInv'
  BY <1>17 DEF DeleteJob, RemoveJob
<1>18. ASSUME NEW j \in Jobs, backend = "up", CollectJob(j), UNCHANGED backend
       PROVE  FilesInv'
  BY <1>18 DEF CollectJob, RemoveJob
<1>19. ASSUME NEW h \in Handlers, NEW j \in Jobs,
              backend = "up", DeleteAnalysis(h, j), UNCHANGED backend
       PROVE  FilesInv'
  BY <1>19 DEF DeleteAnalysis, Handle
<1>20. ASSUME NEW h \in Handlers, NEW j \in Jobs,
              backend = "up", Browse(h, j), UNCHANGED backend
       PROVE  FilesInv'
  BY <1>20 DEF Browse, Handle
<1>21. ASSUME NEW h \in Handlers, backend = "up", DeleteReport(h), UNCHANGED backend
       PROVE  FilesInv'
  BY <1>21 DEF DeleteReport, Handle, Answer
<1>22. ASSUME NEW h \in Handlers, backend = "up", DeleteIndex(h), UNCHANGED backend
       PROVE  FilesInv'
  BY <1>22 DEF DeleteIndex, Answer
<1>23. ASSUME NEW h \in Handlers, backend = "up", ConnectIndex(h), UNCHANGED backend
       PROVE  FilesInv'
  BY <1>23 DEF ConnectIndex, Answer
<1>24. ASSUME NEW j \in Jobs, DiscardUpload(j)
       PROVE  FilesInv'
  BY <1>24 DEF DiscardUpload
<1>25. ASSUME NEW j \in Jobs, DiscardIndex(j)
       PROVE  FilesInv'
  BY <1>25 DEF DiscardIndex, Unpublished
<1>26. CASE Crash
  BY <1>26 DEF Crash
<1>27. CASE Serve
  BY <1>27 DEF Serve, Unpublished
<1>28. CASE UNCHANGED vars
  BY <1>28 DEF vars
<1>. QED
  BY <1>1, <1>2, <1>3, <1>4, <1>5, <1>6, <1>7, <1>8, <1>9, <1>10, <1>11,
     <1>12, <1>13, <1>14, <1>15, <1>16, <1>17, <1>18, <1>19, <1>20, <1>21,
     <1>22, <1>23, <1>24, <1>25, <1>26, <1>27, <1>28
  DEF Next, Running, Request, TaskStep, HandlerStep, Startup

(* A handler that deletes or browses an analysis found its report. *)
LEMMA HandlersStep ==
    IInv /\ [Next]_vars => HandlersInv'
<1>. SUFFICES ASSUME IInv, [Next]_vars PROVE HandlersInv'
  OBVIOUS
<1>. USE DEF IInv, TypeOK, SavedInv, HandlersInv, jobVars, fileVars, taskVars,
             IdleHandler, HandlerState
<1>1. ASSUME NEW j \in Jobs, backend = "up", StartUpload(j), UNCHANGED backend
      PROVE  HandlersInv'
  BY <1>1 DEF StartUpload, LoopFree, Goto
<1>2. ASSUME NEW j \in Jobs, backend = "up", UploadBreaks(j), UNCHANGED backend
      PROVE  HandlersInv'
  BY <1>2 DEF UploadBreaks, Goto
<1>3. ASSUME NEW j \in Jobs, backend = "up", UploadEnds(j), UNCHANGED backend
      PROVE  HandlersInv'
  BY <1>3 DEF UploadEnds, Goto
<1>4. ASSUME NEW j \in Jobs, backend = "up", Admit(j), UNCHANGED backend
      PROVE  HandlersInv'
  BY <1>4 DEF Admit, LoopFree, Goto, Mark
<1>5. ASSUME NEW j \in Jobs, backend = "up", OpenIndex(j), UNCHANGED backend
      PROVE  HandlersInv'
  BY <1>5 DEF OpenIndex, Goto, ThreadUnchanged
<1>6. ASSUME NEW j \in Jobs, backend = "up", ScanEnds(j), UNCHANGED backend
      PROVE  HandlersInv'
  BY <1>6 DEF ScanEnds, Goto, ThreadUnchanged
<1>7. ASSUME NEW j \in Jobs, backend = "up", ScanRaises(j), UNCHANGED backend
      PROVE  HandlersInv'
  BY <1>7 DEF ScanRaises, Goto, ThreadUnchanged
<1>8. ASSUME NEW j \in Jobs, backend = "up", Resume(j), UNCHANGED backend
      PROVE  HandlersInv'
  BY <1>8 DEF Resume, LoopFree, Goto
<1>9. ASSUME NEW j \in Jobs, backend = "up", CheckCancel(j), UNCHANGED backend
      PROVE  HandlersInv'
  BY <1>9 DEF CheckCancel, Goto
<1>10. ASSUME NEW j \in Jobs, backend = "up", SaveReport(j), UNCHANGED backend
       PROVE  HandlersInv'
  BY <1>10 DEF SaveReport, Goto, Fault
<1>11. ASSUME NEW j \in Jobs, backend = "up", MarkDone(j), UNCHANGED backend
       PROVE  HandlersInv'
  BY <1>11 DEF MarkDone, Goto, Mark
<1>12. ASSUME NEW j \in Jobs, backend = "up", MarkError(j), UNCHANGED backend
       PROVE  HandlersInv'
  BY <1>12 DEF MarkError, Goto, Mark
<1>13. ASSUME NEW j \in Jobs, backend = "up", UnlinkUpload(j), UNCHANGED backend
       PROVE  HandlersInv'
  BY <1>13 DEF UnlinkUpload, Goto
<1>14. ASSUME NEW j \in Jobs, backend = "up", UnlinkIndex(j), UNCHANGED backend
       PROVE  HandlersInv'
  BY <1>14 DEF UnlinkIndex, Goto
<1>15. ASSUME NEW j \in Jobs, backend = "up", ClearCancel(j), UNCHANGED backend
       PROVE  HandlersInv'
  BY <1>15 DEF ClearCancel, Goto
<1>16. ASSUME NEW j \in Jobs, backend = "up", Cancel(j), UNCHANGED backend
       PROVE  HandlersInv'
  BY <1>16 DEF Cancel
<1>17. ASSUME NEW j \in Jobs, backend = "up", DeleteJob(j), UNCHANGED backend
       PROVE  HandlersInv'
  BY <1>17 DEF DeleteJob, RemoveJob
<1>18. ASSUME NEW j \in Jobs, backend = "up", CollectJob(j), UNCHANGED backend
       PROVE  HandlersInv'
  BY <1>18 DEF CollectJob, RemoveJob
<1>19. ASSUME NEW h \in Handlers, NEW j \in Jobs,
              backend = "up", DeleteAnalysis(h, j), UNCHANGED backend
       PROVE  HandlersInv'
  BY <1>19 DEF DeleteAnalysis, Handle
<1>20. ASSUME NEW h \in Handlers, NEW j \in Jobs,
              backend = "up", Browse(h, j), UNCHANGED backend
       PROVE  HandlersInv'
  BY <1>20 DEF Browse, Handle
<1>21. ASSUME NEW h \in Handlers, backend = "up", DeleteReport(h), UNCHANGED backend
       PROVE  HandlersInv'
  BY <1>21 DEF DeleteReport, Handle, Answer
<1>22. ASSUME NEW h \in Handlers, backend = "up", DeleteIndex(h), UNCHANGED backend
       PROVE  HandlersInv'
  BY <1>22 DEF DeleteIndex, Answer
<1>23. ASSUME NEW h \in Handlers, backend = "up", ConnectIndex(h), UNCHANGED backend
       PROVE  HandlersInv'
  BY <1>23 DEF ConnectIndex, Answer
<1>24. ASSUME NEW j \in Jobs, DiscardUpload(j)
       PROVE  HandlersInv'
  BY <1>24 DEF DiscardUpload
<1>25. ASSUME NEW j \in Jobs, DiscardIndex(j)
       PROVE  HandlersInv'
  BY <1>25 DEF DiscardIndex, Unpublished
<1>26. CASE Crash
  BY <1>26 DEF Crash
<1>27. CASE Serve
  BY <1>27 DEF Serve, Unpublished
<1>28. CASE UNCHANGED vars
  BY <1>28 DEF vars
<1>. QED
  BY <1>1, <1>2, <1>3, <1>4, <1>5, <1>6, <1>7, <1>8, <1>9, <1>10, <1>11,
     <1>12, <1>13, <1>14, <1>15, <1>16, <1>17, <1>18, <1>19, <1>20, <1>21,
     <1>22, <1>23, <1>24, <1>25, <1>26, <1>27, <1>28
  DEF Next, Running, Request, TaskStep, HandlerStep, Startup

-----------------------------------------------------------------------------

(* The induction step for all parts together. *)
LEMMA IInvStep == IInv /\ [Next]_vars => IInv'
  BY TypeStep, LoopStep, SavedStep, StatusStep, FilesStep, HandlersStep DEF IInv

(* The inductive invariant holds in every reachable state. *)
THEOREM InductiveInvariant == Spec => []IInv
  BY InitIInv, IInvStep, PTL DEF Spec

(* The type invariant. *)
THEOREM TypeCorrect == Spec => []TypeOK
<1>1. IInv => TypeOK
  BY DEF IInv
<1>. QED
  BY <1>1, InductiveInvariant, PTL

(* Startup, failures and deletions never leave a report without its
   complete index: the index is committed before the report is saved and
   goes after it. *)
THEOREM ReportsKeepTheirIndex == Spec => []ReportIndexed
<1>1. IInv => ReportIndexed
  BY DEF IInv, FilesInv, ReportIndexed
<1>. QED
  BY <1>1, InductiveInvariant, PTL

(* _run_log's finally clause and the startup's clean-up leave no upload
   and no index that no report names. *)
THEOREM FilesCleanedUp == Spec => []NothingLeftBehind
<1>1. IInv => NothingLeftBehind
  <2>. SUFFICES ASSUME IInv, NEW j \in Jobs,
                       backend = "up", pc[j] \in {"ended", "dead"}
                PROVE  ~upload[j] /\ (index[j] # "none" => report[j] \/ removed[j])
    BY DEF NothingLeftBehind
  <2>1. CASE pc[j] = "ended"
    BY <2>1 DEF IInv, FilesInv, SavedInv
  <2>2. CASE pc[j] = "dead"
    BY <2>2 DEF IInv, FilesInv
  <2>. QED
    BY <2>1, <2>2
<1>. QED
  BY <1>1, InductiveInvariant, PTL

(* _worker_lock lets one log at a time into the thread that builds the
   index, whatever is cancelled, fails or crashes. *)
THEOREM IndexesOneAtATime == Spec => []OneIndexAtATime
<1>1. IInv => OneIndexAtATime
  BY DEF IInv, LoopInv, OneIndexAtATime, Admitted
<1>. QED
  BY <1>1, InductiveInvariant, PTL

(* The status the job store tells of a finished task agrees with the
   saved analysis. *)
THEOREM OutcomesAgree == Spec => []OutcomeTold
<1>1. IInv => OutcomeTold
  BY DEF IInv, SavedInv, StatusInv, OutcomeTold, Ending, Terminal
<1>. QED
  BY <1>1, InductiveInvariant, PTL

-----------------------------------------------------------------------------

(* A log that was cancelled before its task's last check stays doomed:
   from there every path goes to the error branch or to a crash. *)
LEMMA DoomedStep ==
    ASSUME NEW i \in Jobs PROVE IInv /\ Doomed(i) /\ [Next]_vars => Doomed(i)'
<1>. SUFFICES ASSUME IInv, Doomed(i), [Next]_vars PROVE Doomed(i)'
  OBVIOUS
<1>. USE DEF IInv, TypeOK, Doomed, jobVars, fileVars, taskVars, Waiting, Ending
<1>1. ASSUME NEW j \in Jobs, StartUpload(j)
      PROVE  Doomed(i)'
  BY <1>1 DEF StartUpload, LoopFree, Goto
<1>2. ASSUME NEW j \in Jobs, UploadBreaks(j)
      PROVE  Doomed(i)'
  BY <1>2 DEF UploadBreaks, Goto
<1>3. ASSUME NEW j \in Jobs, UploadEnds(j)
      PROVE  Doomed(i)'
  BY <1>3 DEF UploadEnds, Goto
<1>4. ASSUME NEW j \in Jobs, Admit(j)
      PROVE  Doomed(i)'
  BY <1>4 DEF Admit, LoopFree, Goto, Mark
<1>5. ASSUME NEW j \in Jobs, OpenIndex(j)
      PROVE  Doomed(i)'
  BY <1>5 DEF OpenIndex, Goto, ThreadUnchanged
<1>6. ASSUME NEW j \in Jobs, ScanEnds(j)
      PROVE  Doomed(i)'
  BY <1>6 DEF ScanEnds, Goto, ThreadUnchanged
<1>7. ASSUME NEW j \in Jobs, ScanRaises(j)
      PROVE  Doomed(i)'
  BY <1>7 DEF ScanRaises, Goto, ThreadUnchanged
<1>8. ASSUME NEW j \in Jobs, Resume(j)
      PROVE  Doomed(i)'
  BY <1>8 DEF Resume, LoopFree, Goto
<1>9. ASSUME NEW j \in Jobs, CheckCancel(j)
      PROVE  Doomed(i)'
  BY <1>9 DEF CheckCancel, Goto
<1>10. ASSUME NEW j \in Jobs, SaveReport(j)
       PROVE  Doomed(i)'
  BY <1>10 DEF SaveReport, Goto, Fault
<1>11. ASSUME NEW j \in Jobs, MarkDone(j)
       PROVE  Doomed(i)'
  BY <1>11 DEF MarkDone, Goto, Mark
<1>12. ASSUME NEW j \in Jobs, MarkError(j)
       PROVE  Doomed(i)'
  BY <1>12 DEF MarkError, Goto, Mark
<1>13. ASSUME NEW j \in Jobs, UnlinkUpload(j)
       PROVE  Doomed(i)'
  BY <1>13 DEF UnlinkUpload, Goto
<1>14. ASSUME NEW j \in Jobs, UnlinkIndex(j)
       PROVE  Doomed(i)'
  BY <1>14 DEF UnlinkIndex, Goto
<1>15. ASSUME NEW j \in Jobs, ClearCancel(j)
       PROVE  Doomed(i)'
  BY <1>15 DEF ClearCancel, Goto
<1>16. ASSUME NEW j \in Jobs, Cancel(j)
       PROVE  Doomed(i)'
  BY <1>16 DEF Cancel
<1>17. ASSUME NEW j \in Jobs, DeleteJob(j)
       PROVE  Doomed(i)'
  BY <1>17 DEF DeleteJob, RemoveJob
<1>18. ASSUME NEW j \in Jobs, CollectJob(j)
       PROVE  Doomed(i)'
  BY <1>18 DEF CollectJob, RemoveJob
<1>19. ASSUME NEW h \in Handlers, NEW j \in Jobs, DeleteAnalysis(h, j)
       PROVE  Doomed(i)'
  BY <1>19 DEF DeleteAnalysis, Handle
<1>20. ASSUME NEW h \in Handlers, NEW j \in Jobs, Browse(h, j)
       PROVE  Doomed(i)'
  BY <1>20 DEF Browse, Handle
<1>21. ASSUME NEW h \in Handlers, DeleteReport(h)
       PROVE  Doomed(i)'
  BY <1>21 DEF DeleteReport, Handle, Answer
<1>22. ASSUME NEW h \in Handlers, DeleteIndex(h)
       PROVE  Doomed(i)'
  BY <1>22 DEF DeleteIndex, Answer
<1>23. ASSUME NEW h \in Handlers, ConnectIndex(h)
       PROVE  Doomed(i)'
  BY <1>23 DEF ConnectIndex, Answer
<1>24. ASSUME NEW j \in Jobs, DiscardUpload(j)
       PROVE  Doomed(i)'
  BY <1>24 DEF DiscardUpload
<1>25. ASSUME NEW j \in Jobs, DiscardIndex(j)
       PROVE  Doomed(i)'
  BY <1>25 DEF DiscardIndex
<1>26. CASE Crash
  BY <1>26 DEF Crash
<1>27. CASE Serve
  BY <1>27 DEF Serve
<1>28. CASE UNCHANGED vars
  BY <1>28 DEF vars
<1>. QED
  BY <1>1, <1>2, <1>3, <1>4, <1>5, <1>6, <1>7, <1>8, <1>9, <1>10, <1>11,
     <1>12, <1>13, <1>14, <1>15, <1>16, <1>17, <1>18, <1>19, <1>20, <1>21,
     <1>22, <1>23, <1>24, <1>25, <1>26, <1>27, <1>28
  DEF Next, Running, Request, TaskStep, HandlerStep, Startup

(* _run_log never publishes a log that was cancelled or removed before
   the check that follows the thread. *)
THEOREM CancelledStaysUnpublished == Spec => CancelledNeverPublished
<1>1. ASSUME NEW j \in Jobs
      PROVE  Spec => [](cancelled[j] /\ pc[j] \in Waiting \cup {"check"} => []~report[j])
  <2>1. IInv /\ cancelled[j] /\ pc[j] \in Waiting \cup {"check"} => Doomed(j)
    BY DEF IInv, TypeOK, SavedInv, Doomed, Waiting, Ending
  <2>2. Doomed(j) => ~report[j]
    BY DEF Doomed
  <2>3. IInv /\ Doomed(j) /\ [Next]_vars => Doomed(j)'
    BY DoomedStep
  <2>. QED
    BY <2>1, <2>2, <2>3, InductiveInvariant, PTL DEF Spec
<1>. QED
  BY <1>1 DEF CancelledNeverPublished

(* What a client is told of a log can be found. *)
THEOREM DoneIsFound == Spec => []DoneMeansFound
<1>. QED
  BY ReportsKeepTheirIndex, OutcomesAgree, PTL DEF DoneMeansFound
=============================================================================
