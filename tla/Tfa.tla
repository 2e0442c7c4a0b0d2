-------------------------------- MODULE Tfa --------------------------------
(***************************************************************************)
(* The command line of the thread flow analyser (pytfa/tfa/cli.py): one    *)
(* invocation runs one command to its end, the analysis of a directory     *)
(* (tfa analyze, explain, validate; segment, cluster, baseline and detect  *)
(* are its first stages) or the comparison of two flows (tfa compare).     *)
(* Of these, tfa analyze alone reads a suppressions file: the analysis is  *)
(* the same for all of them until it is ranked, with or without its rules  *)
(* (Rank of FlowVerdicts).                                                 *)
(***************************************************************************)
EXTENDS FlowVerdicts, FlowCompare

VARIABLE command

tfaVars == <<command, vars, compareVars>>

AnalyzeIdle ==
    /\ cfg = [strategy |-> "none"]
    /\ lines = <<>> /\ pos = 0 /\ pending = NoRecord /\ conts = <<>>
    /\ keys = <<>> /\ segs = <<>> /\ episodes = <<>> /\ streaming = FALSE
    /\ clusters = <<>> /\ detected = 0 /\ evaluated = {} /\ censored = {}
    /\ found = <<>> /\ suppressions = {} /\ ranked = <<>> /\ stage = "idle"

CompareIdle ==
    /\ corpus = <<>> /\ phase = "idle" /\ at = 0 /\ last = "none"
    /\ wanted = Nothing /\ links = Nothing /\ flows = Nothing /\ direct = Nothing
    /\ diffs = <<>>

TfaInit ==
    \/ command = "analyze" /\ Init /\ CompareIdle
    \/ command = "compare" /\ CompareInit /\ AnalyzeIdle

TfaNext ==
    \/ command = "analyze" /\ Next /\ UNCHANGED <<command, compareVars>>
    \/ command = "compare" /\ CompareNext /\ UNCHANGED <<command, vars>>

TfaSpec == TfaInit /\ [][TfaNext]_tfaVars
=============================================================================
