------------------------------ MODULE Reports -------------------------------
(***************************************************************************)
(* The analyses that turn one upload, or several saved reports, into one   *)
(* report (app/analyzers): the scan of a heap dump, its stages after the   *)
(* scan, its deployments, the diagnosis of a thread dump, the scan of a    *)
(* server log, and the captures that are read together.  Each request runs *)
(* one of them to its end, and they share no state.                        *)
(***************************************************************************)
EXTENDS HeapStages, HeapDeployments, ThreadDiagnosis, DumpScan, ServerLogScan, Captures

VARIABLE analysis

reportVars ==
    <<analysis, stageVars, deploymentVars, diagnosisVars, scanVars, logVars, captureVars>>

ReportsInit ==
    \/ /\ analysis = "stages" /\ StagesInit
       /\ DeploymentsIdle /\ DiagnosisIdle /\ ScanIdle /\ LogIdle /\ CapturesIdle
    \/ /\ analysis = "deployments" /\ DeploymentsInit
       /\ StagesIdle /\ DiagnosisIdle /\ ScanIdle /\ LogIdle /\ CapturesIdle
    \/ /\ analysis = "threads" /\ DiagnosisInit
       /\ StagesIdle /\ DeploymentsIdle /\ ScanIdle /\ LogIdle /\ CapturesIdle
    \/ /\ analysis = "scan" /\ ScanInit
       /\ StagesIdle /\ DeploymentsIdle /\ DiagnosisIdle /\ LogIdle /\ CapturesIdle
    \/ /\ analysis = "log" /\ LogInit
       /\ StagesIdle /\ DeploymentsIdle /\ DiagnosisIdle /\ ScanIdle /\ CapturesIdle
    \/ /\ analysis = "captures" /\ CapturesInit
       /\ StagesIdle /\ DeploymentsIdle /\ DiagnosisIdle /\ ScanIdle /\ LogIdle

ReportsNext ==
    \/ /\ analysis = "stages" /\ StagesNext
       /\ UNCHANGED <<analysis, deploymentVars, diagnosisVars, scanVars, logVars, captureVars>>
    \/ /\ analysis = "deployments" /\ DeploymentsNext
       /\ UNCHANGED <<analysis, stageVars, diagnosisVars, scanVars, logVars, captureVars>>
    \/ /\ analysis = "threads" /\ DiagnosisNext
       /\ UNCHANGED <<analysis, stageVars, deploymentVars, scanVars, logVars, captureVars>>
    \/ /\ analysis = "scan" /\ ScanNext
       /\ UNCHANGED <<analysis, stageVars, deploymentVars, diagnosisVars, logVars, captureVars>>
    \/ /\ analysis = "log" /\ LogNext
       /\ UNCHANGED <<analysis, stageVars, deploymentVars, diagnosisVars, scanVars, captureVars>>
    \/ /\ analysis = "captures" /\ CapturesNext
       /\ UNCHANGED <<analysis, stageVars, deploymentVars, diagnosisVars, scanVars, logVars>>

ReportsSpec == ReportsInit /\ [][ReportsNext]_reportVars
=============================================================================
