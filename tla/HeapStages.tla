----------------------------- MODULE HeapStages -----------------------------
(***************************************************************************)
(* The stages of parse_heap_dump (analyzers/heap_dump.py) after the scan   *)
(* of the records: source matching, object index, static fields, retention *)
(* tracing, duplicate arrays, dominators and deployments.  Each is gated   *)
(* by the dump and the configuration, works under one shared time budget   *)
(* (heap_control.within_budget), may fail by itself, and is followed by a  *)
(* checkpoint that publishes a snapshot of the report so far.              *)
(*                                                                         *)
(* A finding is its kind and its severity; the report keeps what a reader  *)
(* acts on: the findings, the status of every stage, the skipped list, the *)
(* verdict and whether it holds the numbers of a stage.  The order of the  *)
(* findings is left out.                                                   *)
(***************************************************************************)
EXTENDS Naturals, Sequences, FiniteSets, SequencesExt

CONSTANTS Setups,    \* the dumps and configurations examined
          NoReport   \* nothing published yet

\* The stages a reader is told of, in the order they run.
Stages == <<"source", "index", "retention", "waste", "dominators", "deployments">>
StageNames == ToSet(Stages)

VARIABLES setup,     \* the dump and the configuration
          next,      \* the stage to run: a name, "parse", "statics" or "done"
          late,      \* the time budget has run out
          indexed,   \* the object index is complete
          findings,  \* the findings so far, as <<kind, severity>>
          skipped,   \* the entries of skipped_analyses, as <<stage, status>>
          stages,    \* the entries of stages, as <<stage, status>>
          pending,   \* the stages still to come
          numbers,   \* which of wasted_bytes, retained sizes, deployments are set
          report,    \* the last snapshot published
          outcome    \* what became of each stage, for the properties

stageVars ==
    <<setup, next, late, indexed, findings, skipped, stages, pending, numbers, report, outcome>>

NoSetup == [truncated |-> FALSE]
NoFlags == <<"note", "info">>      \* "No obvious red flags"
Truncation == <<"truncation", "warning">>
Gaps == <<"gaps", "info">>      \* "deeper analysis stage(s) did not run"

\* "A concrete suspect supersedes the generic note."
WithoutNote(fs) == fs \ {NoFlags}
\* Mutant: a suspect replaces all that was found before.
OnlyTheSuspect(found) == found
Instead(found) == found \cup WithoutNote(findings)

Warns(fs) == \E f \in fs : f[2] \in {"warning", "critical"}

-----------------------------------------------------------------------------
(* snapshot *)

Visible ==
    LET found == IF setup.truncated THEN findings \cup {Truncation}
                 ELSE IF skipped # {} THEN findings \cup {Gaps} ELSE findings
    IN  IF pending # {} THEN WithoutNote(found) ELSE found

\* Mutant: the failed dominator stage is not recognised.
ExactName(entry, stage) == entry[1] = stage

\* A failed dominator stage is on the list under a shorter name.
Names(entry, stage) ==
    entry[1] \in {stage} \cup (IF stage = "dominators" THEN {"dominators (failed)"} ELSE {})

\* Tracing is a sample, and so is the duplicate scan without an index.
Sampled(stage) == \/ stage = "retention"
                  \/ stage = "waste" /\ ~indexed

\* The status the report gives a stage.
StatusOf(stage) ==
    LET explicit == {e \in stages : e[1] = stage}
        failure  == {e \in skipped : Names(e, stage)}
    IN  IF explicit # {} THEN (CHOOSE e \in explicit : TRUE)[2]
        ELSE IF stage \in pending THEN "pending"
        ELSE IF failure # {} THEN (CHOOSE e \in failure : TRUE)[2]
        ELSE IF Sampled(stage) THEN "partial" ELSE "completed"

\* Mutant: stages that did not run do not count.
BlindStageVerdict ==
    IF \E f \in Visible : f[2] = "critical" THEN "critical"
    ELSE IF Warns(Visible) THEN "degraded"
    ELSE IF pending # {} THEN "unknown" ELSE "healthy"

StageVerdict ==
    IF \E f \in Visible : f[2] = "critical" THEN "critical"
    ELSE IF Warns(Visible) THEN "degraded"
    ELSE IF pending # {} \/ skipped # {} THEN "unknown" ELSE "healthy"

Snapshot ==
    [findings |-> Visible,
     statuses |-> [s \in StageNames |-> StatusOf(s)],
     skipped  |-> skipped,
     verdict  |-> StageVerdict,
     numbers  |-> numbers]

\* checkpoint: the stage is no longer pending, and the report so far is published.
Checkpoint(stage) ==
    /\ pending' = pending \ {stage}
    /\ report' = Snapshot'

-----------------------------------------------------------------------------
(* Gates and the time budget *)

\* _deep_limit: deep analysis lifts the size ceiling of the streaming stages.
Lifted(stage) == setup.deep /\ stage \in {"retention", "waste"}

\* _gate_reason, and the object limits of the index and the dominators.
Gated(stage) ==
    \/ setup.limit[stage] = "off"
    \/ setup.truncated \/ ~setup.seekable
    \/ setup.limit[stage] = "below" /\ ~Lifted(stage)

\* within_budget: late before or after the work is late; a stage that fails
\* late is late too.
Enriched(stage, result) ==
    /\ late' \in {late} \cup {setup.budget}
    /\ result \in IF late' THEN {"partial"} ELSE {"completed", "failed"}
    /\ outcome' = [outcome EXCEPT ![stage] = result]

Without(stage, status) == outcome' = [outcome EXCEPT ![stage] = status]

-----------------------------------------------------------------------------
(* parse_heap_dump *)

StagesIdle ==
    /\ setup = NoSetup
    /\ next = "idle" /\ late = FALSE /\ indexed = FALSE
    /\ findings = {} /\ skipped = {} /\ stages = {}
    /\ pending = {} /\ numbers = {} /\ report = NoReport
    /\ outcome = [s \in StageNames |-> "waiting"]

StagesInit ==
    /\ setup \in Setups
    /\ next = "parse" /\ late = FALSE /\ indexed = FALSE
    /\ findings = {} /\ skipped = {} /\ stages = {}
    /\ pending = StageNames /\ numbers = {} /\ report = NoReport
    /\ outcome = [s \in StageNames |-> "waiting"]

\* The histogram pass, and _build_heap_findings: a dump without objects, one
\* that a class dominates, one with an oddity, or nothing to remark.
Parse ==
    /\ next = "parse"
    /\ late' \in {FALSE, setup.budget}
    /\ findings' \in (IF setup.empty THEN {{<<"histogram", "warning">>}}
                      ELSE {{<<"histogram", s>>} : s \in {"warning", "info"}}
                           \cup {{NoFlags}})
    /\ next' = "source"
    /\ UNCHANGED <<setup, indexed, skipped, stages, pending, numbers, outcome>>
    /\ report' = Snapshot'

\* Source matching works on the histogram and cannot fail: without a source it
\* has nothing to do, and a lookup that raises finds nothing (_attach_references).
\* Either way the stage counts as completed.
MatchSource ==
    /\ next = "source"
    /\ Without("source", "completed")
    /\ next' = "index"
    /\ UNCHANGED <<setup, late, indexed, findings, skipped, stages, numbers>>
    /\ Checkpoint("source")

\* An index that fails is removed; a gated one is on the skipped list only
\* when an index was asked for.
IndexObjects ==
    /\ next = "index"
    /\ \E status \in {"completed", "failed", "partial", "skipped"} :
           /\ IF ~setup.indexPath \/ Gated("index")
              THEN status = "skipped" /\ Without("index", status) /\ late' = late
              ELSE Enriched("index", status)
           /\ indexed' = (status = "completed")
           /\ stages' = stages \cup {<<"index", status>>}
           /\ skipped' = IF status = "completed" \/ ~setup.indexPath THEN skipped
                         ELSE skipped \cup {<<"index", status>>}
    /\ next' = "statics"
    /\ UNCHANGED <<setup, findings, numbers>>
    /\ Checkpoint("index")

\* _build_static_field_findings: a lead with the source, a nudge without it.
StaticFields ==
    /\ next = "statics"
    /\ findings' \in {findings,
                      Instead({<<"static", IF setup.source THEN "warning" ELSE "info">>})}
    /\ next' = "retention"
    /\ UNCHANGED <<setup, late, indexed, skipped, stages, pending, numbers, outcome>>
    /\ report' = Snapshot'

TraceRetention ==
    /\ next = "retention"
    /\ \/ /\ Gated("retention")
          /\ Without("retention", "skipped")
          /\ skipped' = skipped \cup {<<"retention", "skipped">>}
          /\ UNCHANGED <<late, findings>>
       \/ /\ ~Gated("retention") /\ setup.empty
          /\ Without("retention", "completed")
          /\ UNCHANGED <<late, findings, skipped>>
       \/ /\ ~Gated("retention") /\ ~setup.empty
          /\ \E result \in {"completed", "failed", "partial"} :
                 /\ Enriched("retention", result)
                 /\ findings' \in IF result = "completed"
                                  THEN {findings, Instead({<<"retention", "warning">>})}
                                  ELSE {findings}
                 /\ skipped' = IF result = "completed" THEN skipped
                               ELSE skipped \cup {<<"retention", result>>}
    /\ next' = "waste"
    /\ UNCHANGED <<setup, indexed, stages, numbers>>
    /\ Checkpoint("retention")

\* The index answers exactly; else the gated sample scans the file.  A dump
\* without byte and char arrays needs no scan.
FindWaste ==
    LET exact == indexed /\ setup.limit["waste"] # "off"
        gated == ~exact /\ Gated("waste")
        bare  == ~exact /\ ~gated /\ ~setup.arrays
    IN  /\ next = "waste"
        /\ \/ /\ gated
              /\ Without("waste", "skipped")
              /\ skipped' = skipped \cup {<<"waste", "skipped">>}
              /\ UNCHANGED <<late, findings, numbers>>
           \/ /\ bare
              /\ Without("waste", "completed")
              /\ numbers' = numbers \cup {"waste"}
              /\ UNCHANGED <<late, findings, skipped>>
           \/ /\ exact \/ (~gated /\ ~bare)
              /\ \E result \in {"completed", "failed", "partial"} :
                     /\ Enriched("waste", result)
                     /\ findings' \in IF result # "completed" THEN {findings}
                            ELSE IF exact THEN {findings, findings \cup {<<"duplicates", "info">>}}
                            ELSE {findings} \cup {Instead({<<"waste", s>>}) :
                                                      s \in {"warning", "critical"}}
                     /\ skipped' = IF result = "completed" THEN skipped
                                   ELSE skipped \cup {<<"waste", result>>}
                     /\ numbers' = IF result = "completed" THEN numbers \cup {"waste"}
                                   ELSE numbers
        /\ next' = "dominators"
        /\ UNCHANGED <<setup, indexed, stages>>
        /\ Checkpoint("waste")

\* An index that did not complete is not tried again here.
ComputeDominators ==
    LET unindexed == {e \in skipped : e[1] = "index" /\ e[2] \in {"failed", "partial"}}
    IN  /\ next = "dominators"
        /\ \/ /\ Gated("dominators") \/ unindexed # {}
              /\ LET status == IF Gated("dominators") THEN "skipped"
                               ELSE (CHOOSE e \in unindexed : TRUE)[2]
                 IN  /\ Without("dominators", status)
                     /\ skipped' = skipped \cup {<<"dominators", status>>}
              /\ UNCHANGED <<late, findings, numbers>>
           \/ /\ ~Gated("dominators") /\ unindexed = {}
              /\ \E result \in {"completed", "failed", "partial"} :
                     /\ Enriched("dominators", result)
                     /\ findings' \in IF result = "completed"
                            THEN {findings, Instead({<<"suspect", "warning">>})}
                            ELSE {findings}
                     /\ skipped' = IF result = "completed" THEN skipped
                                   ELSE skipped \cup {<<"dominators (failed)", result>>}
                     /\ numbers' = IF result = "completed" THEN numbers \cup {"dominators"}
                                   ELSE numbers
        /\ next' = "deployments"
        /\ UNCHANGED <<setup, indexed, stages>>
        /\ Checkpoint("dominators")

\* What analyze_deployments reports: a stale loader that threads pin, several
\* loaders of one artifact, who owns the threads.
DeploymentFindings == {{}} \cup {{<<"deployment", s>>} : s \in {"critical", "warning", "info"}}

\* A late stage falls back on what the histogram pass collected: without the
\* names no loader is known to be stale.  The last snapshot is returned.
AttributeDeployments ==
    /\ next = "deployments"
    /\ \E result \in {"completed", "failed", "partial"} :
           /\ Enriched("deployments", result)
           /\ findings' \in CASE result = "completed" ->
                                     {IF f = {} THEN findings ELSE Instead(f) :
                                          f \in DeploymentFindings}
                              [] result = "partial" ->
                                     {findings, findings \cup {<<"deployment", "info">>}}
                              [] OTHER -> {findings}
           /\ skipped' = IF result = "completed" THEN skipped
                         ELSE skipped \cup {<<"deployments", result>>}
           /\ numbers' = IF result = "failed" THEN numbers ELSE numbers \cup {"deployments"}
    /\ next' = "done"
    /\ UNCHANGED <<setup, indexed, stages>>
    /\ Checkpoint("deployments")

StagesNext ==
    \/ Parse \/ MatchSource \/ IndexObjects \/ StaticFields \/ TraceRetention
    \/ FindWaste \/ ComputeDominators \/ AttributeDeployments

-----------------------------------------------------------------------------
(* Properties *)

\* Every report tells of every stage what became of it: pending until it was
\* reached, completed only when its work ran to the end (source matching also
\* when there is no source to match), partial when it is a sample or ran out of
\* time, and skipped or failed when it was.  And only a whole dump, all of whose
\* stages that were asked for ran, is called healthy: nobody takes a stage that
\* did not run for one that found nothing (README.md: "exposes incomplete
\* analysis instead of calling it healthy").
StatusesAreTrue ==
    report # NoReport =>
        \A s \in StageNames :
            LET told == report.statuses[s] IN
            CASE outcome[s] = "waiting" -> told = "pending"
              [] outcome[s] = "completed" ->
                     told = IF Sampled(s) THEN "partial" ELSE "completed"
              [] OTHER -> told = outcome[s]

HealthyMeansWhole ==
    /\ StatusesAreTrue
    /\ report # NoReport /\ report.verdict = "healthy" =>
           /\ ~setup.truncated
           /\ \A s \in StageNames :
                  \/ outcome[s] = "completed"
                  \/ s = "index" /\ outcome[s] = "skipped" /\ ~setup.indexPath
           /\ ~Warns(report.findings)

\* A finding once published stays in every later report: stages add to what
\* the reader has seen and take nothing back but the remark that there is
\* nothing to see.
FindingsStay ==
    [][report # NoReport =>
           \A f \in report.findings : f \in report'.findings \/ f \in {NoFlags, Gaps}]_report

-----------------------------------------------------------------------------
(* The inductive invariant behind them.  ReportsProofs proves it.          *)

\* What did not complete is on the list of the skipped, under its name, and
\* nothing else is.  The index is told of there only if one was asked for.
SkippedAreListed ==
    /\ \A e \in skipped : \E s \in StageNames :
          Names(e, s) /\ e[2] = outcome[s] /\ outcome[s] \notin {"waiting", "completed"}
    /\ \A s \in StageNames :
          outcome[s] \notin {"waiting", "completed"} =>
              \/ \E e \in skipped : Names(e, s)
              \/ s = "index" /\ outcome[s] = "skipped" /\ ~setup.indexPath

\* The stages run in their order, after the histogram.
StagesLeft ==
    /\ next = "parse" => report = NoReport
    /\ next \in {"parse", "source"} => pending = StageNames
    /\ next = "index" => pending = StageNames \ {"source"}
    /\ next \in {"statics", "retention"} => pending = StageNames \ {"source", "index"}
    /\ next = "waste" => pending = {"waste", "dominators", "deployments"}
    /\ next = "dominators" => pending = {"dominators", "deployments"}
    /\ next = "deployments" => pending = {"deployments"}

StagesInv ==
    /\ StagesLeft
    /\ outcome \in [StageNames -> {"waiting", "completed", "failed", "partial", "skipped"}]
    /\ pending = {s \in StageNames : outcome[s] = "waiting"}
    /\ stages = {<<s, outcome[s]>> : s \in {"index"} \ pending}
    /\ SkippedAreListed
    /\ report # NoReport => report = Snapshot
=============================================================================
