--------------------------- MODULE ReportsProofs ---------------------------
(***************************************************************************)
(* Proofs about the components that Reports composes, whose run checks the *)
(* properties:                                                             *)
(*   HeapStages     for every dump, configuration and outcome of the       *)
(*                  stages, each report tells the truth about every stage, *)
(*                  only a whole dump is called healthy, and no report     *)
(*                  takes a finding back                                   *)
(*   ServerLogScan  for every log and every value of the limits the events *)
(*                  partition the lines, and what an event leaves out it   *)
(*                  says                                                   *)
(*   Captures       for all requests whose reports show the process as it  *)
(*                  was, what a comparison of heaps says grew did, the     *)
(*                  threads it pairs are one, and evidence of captures     *)
(*                  that disagree is never put together                    *)
(*   HeapDeployments  for every dump whose classes come first and whatever *)
(*                  the lookup of names finds, the report has all loaders  *)
(*                  and their classes, and its leaks are redeployments     *)
(***************************************************************************)
EXTENDS Reports, NumberLemmas

-----------------------------------------------------------------------------
(* HeapStages: the stages of a heap analysis.                              *)

(* There are six stages. *)
LEMMA SixStages ==
    StageNames = {"source", "index", "retention", "waste", "dominators", "deployments"}
<1>1. DOMAIN Stages = 1..6
  BY DEF Stages
<1>2. /\ Stages[1] = "source" /\ Stages[2] = "index" /\ Stages[3] = "retention"
      /\ Stages[4] = "waste" /\ Stages[5] = "dominators" /\ Stages[6] = "deployments"
  BY DEF Stages
<1>3. 1..6 = {1, 2, 3, 4, 5, 6}
  OBVIOUS
<1>. QED
  BY <1>1, <1>2, <1>3 DEF StageNames, ToSet

(* An entry of the skipped list names one stage. *)
LEMMA OneName ==
    ASSUME NEW e, NEW s \in StageNames, NEW t \in StageNames, Names(e, s), Names(e, t)
    PROVE  s = t
<1>1. e[1] = s \/ (s = "dominators" /\ e[1] = "dominators (failed)")
  BY DEF Names
<1>2. e[1] = t \/ (t = "dominators" /\ e[1] = "dominators (failed)")
  BY DEF Names
<1>3. s # "dominators (failed)" /\ t # "dominators (failed)"
  BY SixStages
<1>. QED
  BY <1>1, <1>2, <1>3

-----------------------------------------------------------------------------
(* What a report says.                                                     *)

(* The status that a report gives a stage is what became of it. *)
LEMMA StatusIsTrue ==
    ASSUME StagesInv, NEW s \in StageNames
    PROVE  StatusOf(s) = IF outcome[s] = "waiting" THEN "pending"
                         ELSE IF outcome[s] # "completed" THEN outcome[s]
                         ELSE IF Sampled(s) THEN "partial" ELSE "completed"
<1>. DEFINE explicit == {e \in stages : e[1] = s}
            failure == {e \in skipped : Names(e, s)}
<1>1. CASE explicit # {}
  <2>1. s = "index" /\ explicit = {<<s, outcome[s]>>} /\ outcome[s] # "waiting"
    <3>1. \A e \in stages : e = <<"index", outcome["index"]>> /\ "index" \notin pending
      BY DEF StagesInv
    <3>2. \A e \in explicit : e = <<s, outcome[s]>> /\ s = "index" /\ "index" \notin pending
      BY <3>1
    <3>. QED
      BY <1>1, <3>2 DEF StagesInv
  <2>2. (CHOOSE e \in explicit : TRUE) = <<s, outcome[s]>>
    BY <2>1
  <2>3. StatusOf(s) = <<s, outcome[s]>>[2]
    BY <1>1, <2>2 DEF StatusOf
  <2>4. ~Sampled(s)
    BY <2>1 DEF Sampled
  <2>. QED
    BY <2>1, <2>3, <2>4
<1>2. CASE explicit = {} /\ s \in pending
  BY <1>2 DEF StatusOf, StagesInv
<1>3. CASE explicit = {} /\ s \notin pending /\ failure # {}
  <2>1. \A e \in failure : e[2] = outcome[s] /\ outcome[s] \notin {"waiting", "completed"}
    BY OneName DEF StagesInv, SkippedAreListed
  <2>2. (CHOOSE e \in failure : TRUE)[2] = outcome[s] /\ outcome[s] \notin {"waiting", "completed"}
    BY <1>3, <2>1
  <2>3. StatusOf(s) = outcome[s]
    BY <1>3, <2>2 DEF StatusOf
  <2>. QED
    BY <2>2, <2>3
<1>4. CASE explicit = {} /\ s \notin pending /\ failure = {}
  <2>1. outcome[s] # "waiting" /\ s # "index"
    <3>1. outcome[s] # "waiting"
      BY <1>4 DEF StagesInv
    <3>2. s = "index" => <<s, outcome[s]>> \in stages
      BY <1>4 DEF StagesInv
    <3>3. <<s, outcome[s]>>[1] = s
      OBVIOUS
    <3>. QED
      BY <1>4, <3>1, <3>2, <3>3
  <2>2. outcome[s] = "completed"
    BY <1>4, <2>1 DEF StagesInv, SkippedAreListed
  <2>3. StatusOf(s) = IF Sampled(s) THEN "partial" ELSE "completed"
    BY <1>4 DEF StatusOf
  <2>. QED
    BY <2>2, <2>3
<1>. QED
  BY <1>1, <1>2, <1>3, <1>4

(* A report that says healthy is of a whole dump whose stages all ran. *)
LEMMA HealthyIsWhole ==
    ASSUME StagesInv, StageVerdict = "healthy"
    PROVE  /\ ~setup.truncated
           /\ \A s \in StageNames :
                  \/ outcome[s] = "completed"
                  \/ s = "index" /\ outcome[s] = "skipped" /\ ~setup.indexPath
           /\ ~Warns(Visible)
<1>1. ~Warns(Visible) /\ pending = {} /\ skipped = {}
  BY DEF StageVerdict
<1>2. ~setup.truncated
  <2>. SUFFICES ASSUME setup.truncated PROVE FALSE
    OBVIOUS
  <2>1. Truncation \in Visible
    BY <1>1 DEF Visible
  <2>2. Truncation[2] = "warning"
    BY DEF Truncation
  <2>. QED
    BY <1>1, <2>1, <2>2 DEF Warns
<1>3. ASSUME NEW s \in StageNames
      PROVE  \/ outcome[s] = "completed"
             \/ s = "index" /\ outcome[s] = "skipped" /\ ~setup.indexPath
  BY <1>1 DEF StagesInv, SkippedAreListed
<1>. QED
  BY <1>1, <1>2, <1>3

(* The invariant implies what the run checks. *)
LEMMA InvHealthy == StagesInv => HealthyMeansWhole
<1>. SUFFICES ASSUME StagesInv, report # NoReport
              PROVE  /\ \A s \in StageNames :
                           CASE outcome[s] = "waiting" -> report.statuses[s] = "pending"
                             [] outcome[s] = "completed" ->
                                    report.statuses[s] =
                                        IF Sampled(s) THEN "partial" ELSE "completed"
                             [] OTHER -> report.statuses[s] = outcome[s]
                     /\ report.verdict = "healthy" =>
                           /\ ~setup.truncated
                           /\ \A s \in StageNames :
                                  \/ outcome[s] = "completed"
                                  \/ s = "index" /\ outcome[s] = "skipped" /\ ~setup.indexPath
                           /\ ~Warns(report.findings)
  BY DEF HealthyMeansWhole, StatusesAreTrue
<1>1. report = Snapshot
  BY DEF StagesInv
<1>2. /\ \A s \in StageNames : report.statuses[s] = StatusOf(s)
      /\ report.verdict = StageVerdict /\ report.findings = Visible
  BY <1>1 DEF Snapshot
<1>3. ASSUME NEW s \in StageNames
      PROVE  CASE outcome[s] = "waiting" -> report.statuses[s] = "pending"
               [] outcome[s] = "completed" ->
                      report.statuses[s] = IF Sampled(s) THEN "partial" ELSE "completed"
               [] OTHER -> report.statuses[s] = outcome[s]
  BY <1>2, StatusIsTrue
<1>. QED
  BY <1>2, <1>3, HealthyIsWhole

-----------------------------------------------------------------------------
(* The steps.                                                              *)

(* Before the first stage nothing is told. *)
LEMMA StagesStart == StagesInit => StagesInv
<1>. SUFFICES ASSUME StagesInit PROVE StagesInv
  OBVIOUS
<1>1. /\ outcome = [s \in StageNames |-> "waiting"] /\ pending = StageNames
      /\ stages = {} /\ skipped = {} /\ report = NoReport
  BY DEF StagesInit
<1>2. "index" \in pending
  BY <1>1, SixStages
<1>3. SkippedAreListed
  BY <1>1 DEF SkippedAreListed
<1>4. StagesLeft
  BY <1>1 DEF StagesInit, StagesLeft
<1>. QED
  BY <1>1, <1>2, <1>3, <1>4 DEF StagesInv

(* A stage has ended with a result, and is on the list of the skipped if   *)
(* it did not complete.                                                    *)
LEMMA StageEnds ==
    ASSUME StagesInv, NEW s \in pending,
           NEW result \in {"completed", "failed", "partial", "skipped"}, NEW e,
           outcome' = [outcome EXCEPT ![s] = result],
           setup' = setup, pending' = pending \ {s},
           stages' = IF s = "index" THEN {<<s, result>>} ELSE stages,
           Names(e, s), e[2] = result,
           \/ skipped' = skipped \cup {e} /\ result # "completed"
           \/ skipped' = skipped
              /\ (result # "completed" => s = "index" /\ result = "skipped" /\ ~setup.indexPath),
           StagesLeft', report' = Snapshot'
    PROVE  StagesInv'
<1>1. s \in StageNames /\ outcome[s] = "waiting"
  BY DEF StagesInv
<1>2. /\ outcome' \in [StageNames -> {"waiting", "completed", "failed", "partial", "skipped"}]
      /\ outcome'[s] = result /\ result # "waiting"
      /\ \A t \in StageNames \ {s} : outcome'[t] = outcome[t]
  BY <1>1 DEF StagesInv
<1>3. pending' = {t \in StageNames : outcome'[t] = "waiting"}
  BY <1>2 DEF StagesInv
<1>4. stages' = {<<t, outcome'[t]>> : t \in {"index"} \ pending'}
  BY <1>1, <1>2, SixStages DEF StagesInv
<1>5. SkippedAreListed'
  <2>1. ASSUME NEW f \in skipped'
        PROVE  \E t \in StageNames :
                  /\ Names(f, t) /\ f[2] = outcome'[t]
                  /\ outcome'[t] \notin {"waiting", "completed"}
    <3>1. CASE f \in skipped
      <4>1. PICK t \in StageNames :
               /\ Names(f, t) /\ f[2] = outcome[t]
               /\ outcome[t] \notin {"waiting", "completed"}
        BY <3>1 DEF StagesInv, SkippedAreListed
      <4>. QED
        BY <1>1, <1>2, <4>1
    <3>2. CASE f \notin skipped
      BY <1>1, <1>2, <2>1, <3>2
    <3>. QED
      BY <3>1, <3>2
  <2>2. ASSUME NEW t \in StageNames, outcome'[t] \notin {"waiting", "completed"}
        PROVE  \/ \E f \in skipped' : Names(f, t)
               \/ t = "index" /\ outcome'[t] = "skipped" /\ ~setup'.indexPath
    <3>1. CASE t = s
      BY <1>2, <2>2, <3>1
    <3>2. CASE t # s
      BY <1>2, <2>2, <3>2 DEF StagesInv, SkippedAreListed
    <3>. QED
      BY <3>1, <3>2
  <2>. QED
    BY <2>1, <2>2 DEF SkippedAreListed, Names
<1>. QED
  BY <1>2, <1>3, <1>4, <1>5 DEF StagesInv

(* A step that ends no stage publishes what it found. *)
LEMMA NoStageEnds ==
    ASSUME StagesInv, UNCHANGED <<setup, outcome, pending, stages, skipped>>,
           StagesLeft', report' = Snapshot'
    PROVE  StagesInv'
<1>1. SkippedAreListed'
  BY DEF StagesInv, SkippedAreListed, Names
<1>. QED
  BY <1>1 DEF StagesInv

(* A step that changes nothing keeps the invariant. *)
LEMMA StagesKept ==
    ASSUME StagesInv, UNCHANGED stageVars PROVE StagesInv'
<1>2. \A s : StatusOf(s)' = StatusOf(s)
  BY DEF stageVars, StatusOf, Sampled, Names
<1>3. Visible' = Visible
  BY DEF stageVars, Visible, WithoutNote
<1>4. StageVerdict' = StageVerdict
  BY <1>3 DEF stageVars, StageVerdict
<1>5. Snapshot' = Snapshot
  BY <1>2, <1>3, <1>4 DEF stageVars, Snapshot
<1>6. SkippedAreListed' /\ StagesLeft'
  BY DEF stageVars, StagesInv, SkippedAreListed, StagesLeft, Names
<1>. QED
  BY <1>5, <1>6 DEF stageVars, StagesInv

(* The stage that runs next is pending, and its end leads to the next. *)
LEMMA EndsInOrder ==
    ASSUME StagesInv, NEW s \in StageNames,
           next = s, pending' = pending \ {s},
           \/ s = "source" /\ next' = "index"
           \/ s = "index" /\ next' = "statics"
           \/ s = "retention" /\ next' = "waste"
           \/ s = "waste" /\ next' = "dominators"
           \/ s = "dominators" /\ next' = "deployments"
           \/ s = "deployments" /\ next' = "done"
    PROVE  s \in pending /\ StagesLeft'
<1>1. StagesLeft
  BY DEF StagesInv
<1>. QED
  BY <1>1, SixStages DEF StagesLeft

(* Every step keeps the invariant. *)
LEMMA StagesStep == StagesInv /\ StagesNext => StagesInv'
<1>. SUFFICES ASSUME StagesInv, StagesNext PROVE StagesInv'
  OBVIOUS
<1>1. CASE Parse
  <2>1. StagesLeft'
    BY <1>1 DEF Parse, StagesInv, StagesLeft
  <2>. QED
    BY <1>1, <2>1, NoStageEnds DEF Parse
<1>2. CASE StaticFields
  <2>1. StagesLeft'
    BY <1>2 DEF StaticFields, StagesInv, StagesLeft
  <2>. QED
    BY <1>2, <2>1, NoStageEnds DEF StaticFields
<1>. USE DEF Checkpoint, Without, Enriched, Names
<1>3. CASE MatchSource
  <2>1. "source" \in pending /\ StagesLeft'
    BY <1>3, EndsInOrder, SixStages DEF MatchSource
  <2>. DEFINE e == <<"source", "completed">>
  <2>2. Names(e, "source") /\ e[2] = "completed"
    OBVIOUS
  <2>3. /\ outcome' = [outcome EXCEPT !["source"] = "completed"]
        /\ setup' = setup /\ pending' = pending \ {"source"}
        /\ stages' = stages /\ skipped' = skipped /\ report' = Snapshot'
    BY <1>3 DEF MatchSource
  <2>. HIDE DEF e, Names
  <2>. QED
    BY <2>1, <2>2, <2>3, StageEnds
<1>4. CASE IndexObjects
  <2>1. "index" \in pending /\ StagesLeft'
    BY <1>4, EndsInOrder, SixStages DEF IndexObjects
  <2>2. PICK status \in {"completed", "failed", "partial", "skipped"} :
           /\ outcome' = [outcome EXCEPT !["index"] = status]
           /\ ~setup.indexPath => status = "skipped"
           /\ stages' = stages \cup {<<"index", status>>}
           /\ skipped' = IF status = "completed" \/ ~setup.indexPath THEN skipped
                         ELSE skipped \cup {<<"index", status>>}
    BY <1>4 DEF IndexObjects
  <2>3. stages = {}
    BY <2>1 DEF StagesInv
  <2>. DEFINE e == <<"index", status>>
  <2>4. Names(e, "index") /\ e[2] = status
    OBVIOUS
  <2>5. /\ setup' = setup /\ pending' = pending \ {"index"} /\ report' = Snapshot'
    BY <1>4 DEF IndexObjects
  <2>6. stages' = {<<"index", status>>}
    BY <2>2, <2>3
  <2>7. \/ skipped' = skipped \cup {e} /\ status # "completed"
        \/ /\ skipped' = skipped
           /\ status # "completed" => status = "skipped" /\ ~setup.indexPath
    BY <2>2
  <2>. HIDE DEF e, Names
  <2>. QED
    BY <2>1, <2>2, <2>4, <2>5, <2>6, <2>7, StageEnds
<1>5. CASE TraceRetention
  <2>1. "retention" \in pending /\ StagesLeft'
    BY <1>5, EndsInOrder, SixStages DEF TraceRetention
  <2>2. PICK result \in {"completed", "failed", "partial", "skipped"} :
           /\ outcome' = [outcome EXCEPT !["retention"] = result]
           /\ skipped' = IF result = "completed" THEN skipped
                         ELSE skipped \cup {<<"retention", result>>}
    BY <1>5 DEF TraceRetention
  <2>. DEFINE e == <<"retention", result>>
  <2>3. Names(e, "retention") /\ e[2] = result
    OBVIOUS
  <2>4. /\ setup' = setup /\ pending' = pending \ {"retention"} /\ report' = Snapshot'
        /\ stages' = stages
    BY <1>5 DEF TraceRetention
  <2>. HIDE DEF e, Names
  <2>5. \/ skipped' = skipped \cup {e} /\ result # "completed"
        \/ skipped' = skipped /\ result = "completed"
    BY <2>2 DEF e
  <2>. QED
    BY <2>1, <2>2, <2>3, <2>4, <2>5, StageEnds
<1>6. CASE FindWaste
  <2>1. "waste" \in pending /\ StagesLeft'
    BY <1>6, EndsInOrder, SixStages DEF FindWaste
  <2>2. PICK result \in {"completed", "failed", "partial", "skipped"} :
           /\ outcome' = [outcome EXCEPT !["waste"] = result]
           /\ skipped' = IF result = "completed" THEN skipped
                         ELSE skipped \cup {<<"waste", result>>}
    BY <1>6 DEF FindWaste
  <2>. DEFINE e == <<"waste", result>>
  <2>3. Names(e, "waste") /\ e[2] = result
    OBVIOUS
  <2>4. /\ setup' = setup /\ pending' = pending \ {"waste"} /\ report' = Snapshot'
        /\ stages' = stages
    BY <1>6 DEF FindWaste
  <2>. HIDE DEF e, Names
  <2>5. \/ skipped' = skipped \cup {e} /\ result # "completed"
        \/ skipped' = skipped /\ result = "completed"
    BY <2>2 DEF e
  <2>. QED
    BY <2>1, <2>2, <2>3, <2>4, <2>5, StageEnds
<1>7. CASE ComputeDominators
  <2>1. "dominators" \in pending /\ StagesLeft'
    BY <1>7, EndsInOrder, SixStages DEF ComputeDominators
  <2>. DEFINE unindexed == {e \in skipped : e[1] = "index" /\ e[2] \in {"failed", "partial"}}
  <2>2. \/ \E status \in {"skipped", "failed", "partial"} :
              /\ outcome' = [outcome EXCEPT !["dominators"] = status]
              /\ skipped' = skipped \cup {<<"dominators", status>>}
        \/ \E result \in {"completed", "failed", "partial"} :
              /\ outcome' = [outcome EXCEPT !["dominators"] = result]
              /\ skipped' = IF result = "completed" THEN skipped
                            ELSE skipped \cup {<<"dominators (failed)", result>>}
    <3>1. unindexed # {} => (CHOOSE e \in unindexed : TRUE)[2] \in {"failed", "partial"}
      <4>1. unindexed # {} => (CHOOSE e \in unindexed : TRUE) \in unindexed
        OBVIOUS
      <4>. QED
        BY <4>1
    <3>. QED
      BY <1>7, <3>1 DEF ComputeDominators
  <2>3. PICK result \in {"completed", "failed", "partial", "skipped"} :
           \E name \in {"dominators", "dominators (failed)"} :
              /\ outcome' = [outcome EXCEPT !["dominators"] = result]
              /\ skipped' = IF result = "completed" THEN skipped
                            ELSE skipped \cup {<<name, result>>}
    BY <2>2
  <2>4. PICK e :
           /\ Names(e, "dominators") /\ e[2] = result
           /\ outcome' = [outcome EXCEPT !["dominators"] = result]
           /\ skipped' = IF result = "completed" THEN skipped ELSE skipped \cup {e}
    <3>1. \A name \in {"dominators", "dominators (failed)"} :
             Names(<<name, result>>, "dominators") /\ <<name, result>>[2] = result
      OBVIOUS
    <3>. HIDE DEF Names
    <3>. QED
      BY <2>3, <3>1
  <2>5. /\ setup' = setup /\ pending' = pending \ {"dominators"} /\ report' = Snapshot'
        /\ stages' = stages
    BY <1>7 DEF ComputeDominators
  <2>. HIDE DEF Names
  <2>6. \/ skipped' = skipped \cup {e} /\ result # "completed"
        \/ skipped' = skipped /\ result = "completed"
    BY <2>4
  <2>. QED
    BY <2>1, <2>4, <2>5, <2>6, StageEnds
<1>8. CASE AttributeDeployments
  <2>1. "deployments" \in pending /\ StagesLeft'
    BY <1>8, EndsInOrder, SixStages DEF AttributeDeployments
  <2>2. PICK result \in {"completed", "failed", "partial"} :
           /\ outcome' = [outcome EXCEPT !["deployments"] = result]
           /\ skipped' = IF result = "completed" THEN skipped
                         ELSE skipped \cup {<<"deployments", result>>}
    BY <1>8 DEF AttributeDeployments
  <2>. DEFINE e == <<"deployments", result>>
  <2>3. Names(e, "deployments") /\ e[2] = result
    OBVIOUS
  <2>4. /\ setup' = setup /\ pending' = pending \ {"deployments"} /\ report' = Snapshot'
        /\ stages' = stages
    BY <1>8 DEF AttributeDeployments
  <2>. HIDE DEF e, Names
  <2>5. \/ skipped' = skipped \cup {e} /\ result # "completed"
        \/ skipped' = skipped /\ result = "completed"
    BY <2>2 DEF e
  <2>. QED
    BY <2>1, <2>2, <2>3, <2>4, <2>5, StageEnds
<1>. QED
  BY <1>1, <1>2, <1>3, <1>4, <1>5, <1>6, <1>7, <1>8 DEF StagesNext

-----------------------------------------------------------------------------
(* What a reader has seen.                                                 *)

(* A stage adds to the findings, and takes back only the note. *)
LEMMA FindingsGrow ==
    ASSUME StagesNext, next # "parse"
    PROVE  WithoutNote(findings) \subseteq findings' /\ setup' = setup /\ report' = Snapshot'
<1>. USE DEF Checkpoint, WithoutNote, Instead
<1>1. CASE MatchSource \/ IndexObjects
  BY <1>1 DEF MatchSource, IndexObjects
<1>2. CASE StaticFields
  BY <1>2 DEF StaticFields
<1>3. CASE TraceRetention
  BY <1>3 DEF TraceRetention
<1>4. CASE FindWaste
  BY <1>4 DEF FindWaste
<1>5. CASE ComputeDominators
  BY <1>5 DEF ComputeDominators
<1>6. CASE AttributeDeployments
  BY <1>6 DEF AttributeDeployments
<1>. QED
  BY <1>1, <1>2, <1>3, <1>4, <1>5, <1>6 DEF StagesNext, Parse

(* What a report shows stays in the next one, but for the two remarks. *)
LEMMA FindingsStayStep ==
    ASSUME StagesInv, StagesNext, report # NoReport, NEW f \in report.findings
    PROVE  f \in report'.findings \/ f \in {NoFlags, Gaps}
<1>1. report = Snapshot /\ next # "parse"
  BY DEF StagesInv, StagesLeft
<1>2. WithoutNote(findings) \subseteq findings' /\ setup' = setup /\ report' = Snapshot'
  BY <1>1, FindingsGrow
<1>3. f \in Visible
  BY <1>1 DEF Snapshot
<1>4. report'.findings = Visible'
  BY <1>2 DEF Snapshot
<1>5. f \in findings \cup {Gaps} \/ (setup.truncated /\ f = Truncation)
  BY <1>3 DEF Visible, WithoutNote
<1>6. CASE f \in findings \ {NoFlags}
  <2>1. f \in WithoutNote(findings')
    BY <1>2, <1>6 DEF WithoutNote
  <2>. QED
    BY <1>4, <2>1 DEF Visible, WithoutNote
<1>7. CASE setup.truncated /\ f = Truncation
  <2>1. Truncation # NoFlags
    BY DEF Truncation, NoFlags
  <2>. QED
    BY <1>2, <1>4, <1>7, <2>1 DEF Visible, WithoutNote
<1>. QED
  BY <1>5, <1>6, <1>7

-----------------------------------------------------------------------------
(* The stages are one of the analyses of Reports.                          *)

(* The invariant of the stages, or no report if another analysis runs. *)
ReportStagesInv ==
    /\ analysis = "stages" => StagesInv
    /\ analysis # "stages" => report = NoReport

(* Nothing but the stages changes what they keep. *)
LEMMA OthersLeaveStages ==
    ASSUME [ReportsNext]_reportVars
    PROVE  /\ analysis' = analysis
           /\ UNCHANGED stageVars \/ (analysis = "stages" /\ StagesNext)
  BY DEF ReportsNext, reportVars

(* ReportStagesInv is inductive. *)
LEMMA StagesInductive ==
    /\ ReportsInit => ReportStagesInv
    /\ ReportStagesInv /\ [ReportsNext]_reportVars => ReportStagesInv'
<1>1. ASSUME ReportsInit PROVE ReportStagesInv
  BY <1>1, StagesStart DEF ReportsInit, StagesIdle, ReportStagesInv
<1>2. ASSUME ReportStagesInv, [ReportsNext]_reportVars PROVE ReportStagesInv'
  <2>1. CASE analysis = "stages" /\ StagesNext
    BY <1>2, <2>1, StagesStep, OthersLeaveStages DEF ReportStagesInv
  <2>2. CASE UNCHANGED stageVars
    BY <1>2, <2>2, StagesKept, OthersLeaveStages DEF ReportStagesInv, stageVars
  <2>. QED
    BY <1>2, <2>1, <2>2, OthersLeaveStages
<1>. QED
  BY <1>1, <1>2

(* Every report tells what became of every stage, and only a whole dump,   *)
(* all of whose stages ran, is called healthy: for every dump,             *)
(* configuration and outcome of the stages.                                *)
THEOREM HealthyReportsAreWhole == ReportsSpec => []HealthyMeansWhole
<1>1. ReportStagesInv => HealthyMeansWhole
  BY InvHealthy DEF ReportStagesInv, HealthyMeansWhole, StatusesAreTrue
<1>. QED
  BY <1>1, StagesInductive, PTL DEF ReportsSpec

(* A finding that was published stays in every later report. *)
THEOREM FindingsAreKept == ReportsSpec => FindingsStay
<1>1. ReportStagesInv /\ [ReportsNext]_reportVars =>
        [report # NoReport =>
           \A f \in report.findings : f \in report'.findings \/ f \in {NoFlags, Gaps}]_report
  BY FindingsStayStep, OthersLeaveStages DEF ReportStagesInv, stageVars
<1>. QED
  BY <1>1, StagesInductive, PTL DEF ReportsSpec, FindingsStay

-----------------------------------------------------------------------------
(* ServerLogScan: the splitting of a log into events.                      *)

-----------------------------------------------------------------------------
(* Lines and events one by one.                                            *)

(* The sizes and the frames of lines, and the frames of events, are numbers. *)
LEMMA CountsOfLines ==
    ASSUME NEW s \in Seq(LogLines)
    PROVE  /\ TextLengths(s) \in Seq(Nat) /\ Len(TextLengths(s)) = Len(s)
           /\ FrameCounts(s) \in Seq(Nat) /\ Len(FrameCounts(s)) = Len(s)
<1>1. \A i \in 1..Len(s) : s[i].text \in Nat /\ s[i].frames \in Nat
  <2>1. \A line \in LogLines : line.text \in Nat /\ line.frames \in Nat
    BY DEF LogLines
  <2>2. \A i \in 1..Len(s) : s[i] \in LogLines
    OBVIOUS
  <2>. QED
    BY <2>1, <2>2
<1>. QED
  BY <1>1 DEF TextLengths, FrameCounts

(* A slice of the log that grows by a line grows by its size and frames. *)
LEMMA SliceGrows ==
    ASSUME NEW l \in Seq(LogLines), NEW a \in Nat \ {0}, NEW n \in Nat,
           a <= n + 1, n + 1 <= Len(l)
    PROVE  LET slice == SubSeq(l, a, n)
               longer == SubSeq(l, a, n + 1)
           IN  /\ TextLengths(slice) \in Seq(Nat) /\ FrameCounts(slice) \in Seq(Nat)
               /\ SumOf(TextLengths(longer)) = SumOf(TextLengths(slice)) + l[n + 1].text
               /\ SumOf(FrameCounts(longer)) = SumOf(FrameCounts(slice)) + l[n + 1].frames
<1>. DEFINE slice == SubSeq(l, a, n)
            longer == SubSeq(l, a, n + 1)
<1>1. slice \in Seq(LogLines) /\ longer = Append(slice, l[n + 1]) /\ l[n + 1] \in LogLines
  <2>1. /\ longer \in Seq(LogLines) /\ slice \in Seq(LogLines)
        /\ Len(longer) = (n + 1) - a + 1 /\ Len(slice) = n - a + 1
        /\ \A i \in 1..Len(longer) : longer[i] = l[a + i - 1]
        /\ \A i \in 1..Len(slice) : slice[i] = l[a + i - 1]
    OBVIOUS
  <2>. DEFINE appended == Append(slice, l[n + 1])
  <2>2. l[n + 1] \in LogLines
    OBVIOUS
  <2>. HIDE DEF slice, longer
  <2>3. /\ appended \in Seq(LogLines) /\ Len(appended) = Len(slice) + 1
        /\ appended[Len(slice) + 1] = l[n + 1]
        /\ \A i \in 1..Len(slice) : appended[i] = slice[i]
    BY <2>1, <2>2, Appended
  <2>. HIDE DEF appended
  <2>4. Len(slice) \in Nat /\ Len(slice) = n + 1 - a /\ a + (Len(slice) + 1) - 1 = n + 1
    BY <2>1
  <2>5. ASSUME NEW i \in 1..Len(longer) PROVE longer[i] = appended[i]
    <3>1. CASE i = Len(slice) + 1
      BY <2>1, <2>3, <2>4, <3>1
    <3>2. CASE i \in 1..Len(slice)
      BY <2>1, <2>3, <2>4, <3>2
    <3>. QED
      BY <2>1, <2>4, <3>1, <3>2
  <2>6. Len(longer) = Len(appended)
    BY <2>1, <2>3, <2>4
  <2>7. longer = appended
    BY <2>1, <2>3, <2>5, <2>6, SameSequence
  <2>. QED
    BY <2>1, <2>2, <2>7 DEF appended
<1>. HIDE DEF slice, longer
<1>2. /\ TextLengths(slice) \in Seq(Nat) /\ FrameCounts(slice) \in Seq(Nat)
      /\ l[n + 1].text \in Nat /\ l[n + 1].frames \in Nat
  BY <1>1, CountsOfLines DEF LogLines
<1>3. TextLengths(longer) = Append(TextLengths(slice), l[n + 1].text)
  BY <1>1 DEF TextLengths
<1>4. FrameCounts(longer) = Append(FrameCounts(slice), l[n + 1].frames)
  BY <1>1 DEF FrameCounts
<1>. QED
  BY <1>2, <1>3, <1>4, SumOfAppend DEF slice, longer

(* A slice that ends before it starts has neither text nor frames. *)
LEMMA EmptySlice ==
    ASSUME NEW l \in Seq(LogLines), NEW a \in Nat \ {0}
    PROVE  /\ SumOf(TextLengths(SubSeq(l, a, a - 1))) = 0
           /\ SumOf(FrameCounts(SubSeq(l, a, a - 1))) = 0
<1>. DEFINE s == SubSeq(l, a, a - 1)
<1>1. s \in Seq(LogLines) /\ Len(s) = 0
  OBVIOUS
<1>. HIDE DEF s
<1>. QED
  BY <1>1, CountsOfLines, SumOfNothing DEF s

(* One more event adds its frames. *)
LEMMA EventsGrow ==
    ASSUME NEW Marks, NEW s \in Seq(Events(Marks)), NEW e \in Events(Marks)
    PROVE  /\ SumOf(FrameCounts(s)) \in Nat
           /\ SumOf(FrameCounts(Append(s, e))) = SumOf(FrameCounts(s)) + e.frames
<1>1. FrameCounts(s) \in Seq(Nat) /\ e.frames \in Nat
  <2>1. \A f \in Events(Marks) : f.frames \in Nat
    BY DEF Events
  <2>2. \A i \in 1..Len(s) : s[i] \in Events(Marks)
    OBVIOUS
  <2>. QED
    BY <2>1, <2>2 DEF FrameCounts
<1>2. FrameCounts(Append(s, e)) = Append(FrameCounts(s), e.frames)
  BY DEF FrameCounts
<1>. QED
  BY <1>1, <1>2, SumOfAppend

-----------------------------------------------------------------------------
(* Reading a line.                                                         *)

(* What the event being gathered says of its lines up to n. *)
Gathers(event, n) ==
    /\ event.start \in 1..n
    /\ ~event.truncated =>
           /\ event.excerpt = SumOf(TextLengths(SubSeq(log, event.start, n - 1)))
           /\ event.frames = SumOf(FrameCounts(SubSeq(log, event.start, n - 1)))

(* A line that is gathered is in the event, whole or marked. *)
LEMMA GatherLine ==
    ASSUME log \in Seq(LogLines), NEW n \in Nat \ {0}, n <= Len(log), NEW Marks,
           NEW event \in Events(Marks), Gathers(event, n)
    PROVE  LET gathered == Gathered(event, n, log[n])
           IN  /\ gathered \in Events(Marks \cup {gathered.marks})
               /\ gathered.start = event.start /\ gathered.end = n
               /\ ~gathered.truncated => Complete(gathered)
               /\ Overflow(event, log[n]) \in Nat
               /\ gathered.frames + Overflow(event, log[n]) = event.frames + log[n].frames
<1>. DEFINE line == log[n]
            gathered == Gathered(event, n, log[n])
            marks == Marked(event.marks, line.marks)
            truncated == \/ event.truncated \/ Oversized(line)
                         \/ Body(line) > EventChars - event.excerpt
                         \/ Overflow(event, line) > 0
<1>1. /\ line.text \in Nat /\ line.rest \in Nat /\ line.frames \in Nat
  <2>1. line \in LogLines
    OBVIOUS
  <2>. QED
    BY <2>1 DEF LogLines
<1>2. /\ event.start \in Nat \ {0} /\ event.lines \in Nat /\ event.excerpt \in 0..EventChars
      /\ event.frames \in Nat /\ event.truncated \in BOOLEAN /\ event.header \in BOOLEAN
  BY DEF Events
<1>3. gathered = [start |-> event.start, end |-> n, header |-> event.header,
                  lines |-> event.lines + 1,
                  excerpt |-> Capped(event.excerpt + Body(line), EventChars),
                  frames |-> Capped(event.frames + line.frames, MaxFrames),
                  marks |-> marks, truncated |-> truncated]
  <2>1. event = [start |-> event.start, end |-> event.end, header |-> event.header,
                 lines |-> event.lines, excerpt |-> event.excerpt, frames |-> event.frames,
                 marks |-> event.marks, truncated |-> event.truncated]
    BY DEF Events
  <2>2. gathered = [event EXCEPT !.end = n, !.lines = @ + 1,
                       !.excerpt = Capped(event.excerpt + Body(line), EventChars),
                       !.frames = Capped(event.frames + line.frames, MaxFrames),
                       !.marks = marks, !.truncated = truncated]
    BY DEF Gathered
  <2>. HIDE DEF line, gathered, marks, truncated
  <2>. QED
    BY <2>1, <2>2
<1>4. /\ Capped(event.excerpt + Body(line), EventChars) \in 0..EventChars
      /\ Capped(event.frames + line.frames, MaxFrames) \in Nat
      /\ Overflow(event, line) \in Nat
      /\ Capped(event.frames + line.frames, MaxFrames) + Overflow(event, line)
             = event.frames + line.frames
  <2>. HIDE DEF line
  <2>1. EventChars \in Nat /\ MaxFrames \in Nat /\ LineBytes \in Nat
    BY LogLimitsAssumption
  <2>2. Body(line) \in Nat
    BY <1>1, <2>1 DEF Body, Capped
  <2>3. Capped(event.excerpt + Body(line), EventChars) \in 0..EventChars
    BY <1>2, <2>1, <2>2 DEF Capped
  <2>4. /\ Capped(event.frames + line.frames, MaxFrames) \in Nat
        /\ Overflow(event, line) \in Nat
    <3>1. event.frames + line.frames \in Nat
      BY <1>1, <1>2
    <3>2. Capped(event.frames + line.frames, MaxFrames) \in Nat
      BY <2>1, <3>1 DEF Capped
    <3>3. Overflow(event, line) \in Nat
      <4>1. \A a, b \in Nat : (IF a + b > MaxFrames THEN a + b - MaxFrames ELSE 0) \in Nat
        BY <2>1
      <4>. QED
        BY <1>1, <1>2, <4>1 DEF Overflow
    <3>. QED
      BY <3>2, <3>3
  <2>5. Capped(event.frames + line.frames, MaxFrames) + Overflow(event, line)
             = event.frames + line.frames
    BY <1>1, <1>2, <2>1 DEF Capped, Overflow
  <2>. QED
    BY <2>3, <2>4, <2>5
<1>5. truncated \in BOOLEAN
  BY <1>2 DEF Oversized
<1>6. ~truncated =>
        /\ Capped(event.excerpt + Body(line), EventChars) = event.excerpt + line.text
        /\ Capped(event.frames + line.frames, MaxFrames) = event.frames + line.frames
  <2>1. SUFFICES ASSUME ~truncated
                 PROVE  /\ Capped(event.excerpt + Body(line), EventChars)
                               = event.excerpt + line.text
                        /\ Capped(event.frames + line.frames, MaxFrames)
                               = event.frames + line.frames
    OBVIOUS
  <2>2. /\ ~Oversized(line) /\ ~(Body(line) > EventChars - event.excerpt)
        /\ ~(Overflow(event, line) > 0)
    BY <2>1
  <2>. HIDE DEF line, truncated
  <2>3. EventChars \in Nat /\ MaxFrames \in Nat /\ LineBytes \in Nat
    BY LogLimitsAssumption
  <2>4. Body(line) = line.text
    BY <1>1, <2>2, <2>3 DEF Body, Capped, Oversized
  <2>5. Capped(event.excerpt + Body(line), EventChars) = event.excerpt + line.text
    BY <1>1, <1>2, <2>2, <2>3, <2>4 DEF Capped
  <2>6. Overflow(event, line) = 0
    BY <1>4, <2>2
  <2>7. Capped(event.frames + line.frames, MaxFrames) = event.frames + line.frames
    BY <1>4, <2>6, <1>1, <1>2, <2>3 DEF Capped
  <2>. QED
    BY <2>5, <2>7
<1>7. /\ SumOf(TextLengths(SubSeq(log, event.start, n)))
             = SumOf(TextLengths(SubSeq(log, event.start, n - 1))) + line.text
      /\ SumOf(FrameCounts(SubSeq(log, event.start, n)))
             = SumOf(FrameCounts(SubSeq(log, event.start, n - 1))) + line.frames
  <2>. DEFINE m == n - 1
              start == event.start
  <2>1. /\ m \in Nat /\ m + 1 = n /\ m + 1 <= Len(log)
        /\ start \in Nat \ {0} /\ start <= m + 1
    BY <1>2 DEF Gathers
  <2>. HIDE DEF m, start
  <2>2. /\ SumOf(TextLengths(SubSeq(log, start, m + 1)))
               = SumOf(TextLengths(SubSeq(log, start, m))) + log[m + 1].text
        /\ SumOf(FrameCounts(SubSeq(log, start, m + 1)))
               = SumOf(FrameCounts(SubSeq(log, start, m))) + log[m + 1].frames
    BY <2>1, SliceGrows
  <2>. QED
    BY <2>1, <2>2 DEF m, start
<1>. HIDE DEF marks, truncated, gathered
<1>8. /\ gathered.start = event.start /\ gathered.end = n /\ gathered.marks = marks
      /\ gathered.truncated = truncated
      /\ gathered.excerpt = Capped(event.excerpt + Body(line), EventChars)
      /\ gathered.frames = Capped(event.frames + line.frames, MaxFrames)
  BY <1>3
<1>9. gathered \in Events(Marks \cup {gathered.marks})
  BY <1>2, <1>3, <1>4, <1>5, <1>8 DEF Events
<1>10. ~gathered.truncated => Complete(gathered)
  <2>1. ~truncated => ~event.truncated
    BY DEF truncated
  <2>. QED
    BY <1>6, <1>7, <1>8, <2>1 DEF Complete, LinesOf, Gathers
<1>. QED
  BY <1>4, <1>8, <1>9, <1>10 DEF gathered, marks, truncated

(* An event that starts at a line has gathered nothing before it. *)
LEMMA FreshGathers ==
    ASSUME log \in Seq(LogLines), NEW n \in Nat \ {0}, n <= Len(log), NEW Marks
    PROVE  LET event == Fresh(n, log[n])
           IN  /\ event \in Events(Marks \cup {<<>>}) /\ Gathers(event, n)
               /\ event.start = n /\ event.frames = 0
<1>. DEFINE event == Fresh(n, log[n])
<1>1. log[n].header \in BOOLEAN
  <2>1. log[n] \in LogLines
    OBVIOUS
  <2>. QED
    BY <2>1 DEF LogLines
<1>2. event \in Events(Marks \cup {<<>>})
  BY <1>1, LogLimitsAssumption DEF Fresh, Events
<1>3. /\ event.start = n /\ event.frames = 0 /\ event.excerpt = 0
  BY DEF Fresh
<1>. HIDE DEF event
<1>4. Gathers(event, n)
  BY <1>3, EmptySlice DEF Gathers
<1>. QED
  BY <1>2, <1>3, <1>4 DEF event

(* Sound and Follows, of a given log and table. *)
SoundIn(l, lines, event) ==
    /\ event.start =< event.end /\ event.end =< lines
    /\ \A n \in event.start + 1 .. event.end : ~l[n].header
    /\ ~event.truncated =>
           /\ event.excerpt = SumOf(TextLengths(SubSeq(l, event.start, event.end)))
           /\ event.frames = SumOf(FrameCounts(SubSeq(l, event.start, event.end)))

FollowsIn(l, table, event, i) ==
    /\ event.start = IF i = 1 THEN 1 ELSE table[i - 1].end + 1
    /\ ~l[event.start].header => (i = 1 \/ table[i - 1].truncated)

(* An event of some marks is an event of more marks. *)
LEMMA MoreMarks ==
    ASSUME NEW Few, NEW Many, Few \subseteq Many
    PROVE  /\ Events(Few) \subseteq Events(Many)
           /\ Seq(Events(Few)) \subseteq Seq(Events(Many))
<1>1. Events(Few) \subseteq Events(Many)
  BY DEF Events
<1>. QED
  BY <1>1

(* An event that is closed is the event, but perhaps for its mark. *)
LEMMA ClosedEvent ==
    ASSUME NEW Marks, NEW event \in Events(Marks), NEW line
    PROVE  /\ Closed(event, line) \in Events(Marks)
           /\ Closed(event, line).start = event.start /\ Closed(event, line).end = event.end
           /\ Closed(event, line).frames = event.frames
           /\ Closed(event, line).excerpt = event.excerpt
           /\ event.truncated => Closed(event, line).truncated
           /\ ~line.header => Closed(event, line).truncated
<1>1. CASE line.header
  BY <1>1 DEF Closed
<1>2. CASE ~line.header
  <2>1. Closed(event, line) = [event EXCEPT !.truncated = TRUE]
    BY <1>2 DEF Closed
  <2>. QED
    BY <1>2, <2>1 DEF Events
<1>. QED
  BY <1>1, <1>2

(* Reading a line keeps the invariant. *)
LEMMA LineKeeps ==
    ASSUME LogInv, ReadLine
    PROVE  LogInv'
<1>. DEFINE n == read + 1
            line == log[n]
            flush == Pending /\ Closes(current, line)
            event == IF Pending /\ ~flush THEN current ELSE Fresh(n, line)
            gathered == Gathered(event, n, line)
<1>1. PICK Marks : events \in Seq(Events(Marks)) /\ (Pending => current \in Events(Marks))
  BY DEF LogInv, LogTypes
<1>2. /\ log \in Seq(LogLines) /\ read \in Nat /\ n \in Nat \ {0} /\ n <= Len(log)
      /\ omitted \in Nat /\ n - 1 = read /\ n # 0
  BY DEF LogInv, LogTypes, ReadLine
<1>3. line \in LogLines /\ line.header \in BOOLEAN /\ line.frames \in Nat
  <2>1. line \in LogLines
    BY <1>2
  <2>. QED
    BY <2>1 DEF LogLines
<1>4. /\ log' = log /\ read' = n /\ logState' = "reading"
      /\ events' = IF flush THEN Append(events, Closed(current, line)) ELSE events
      /\ current' = gathered /\ omitted' = omitted + Overflow(event, line)
  BY DEF ReadLine
<1>5. Pending => /\ SoundIn(log, read, current) /\ FollowsIn(log, events, current, Len(events) + 1)
                 /\ current.end = read
  BY DEF LogInv, Sound, Complete, LinesOf, Follows, SoundIn, FollowsIn
<1>6. \A i \in 1..Len(events) :
         SoundIn(log, read, events[i]) /\ FollowsIn(log, events, events[i], i)
  BY DEF LogInv, Sound, Complete, LinesOf, Follows, SoundIn, FollowsIn
<1>7. ~Pending => events = <<>> /\ read = 0
  BY DEF LogInv, LastEnd, ReadLine
<1>8. omitted + SumOf(FrameCounts(events)) + (IF Pending THEN current.frames ELSE 0)
           = SumOf(FrameCounts(SubSeq(log, 1, read)))
  BY DEF LogInv
<1>9. SumOf(FrameCounts(SubSeq(log, 1, n))) = SumOf(FrameCounts(SubSeq(log, 1, read))) + line.frames
  <2>1. 1 \in Nat \ {0} /\ 1 <= read + 1
    BY <1>2
  <2>. QED
    BY <1>2, <2>1, SliceGrows
<1>10. /\ event \in Events(Marks \cup {<<>>}) /\ Gathers(event, n)
       /\ flush \/ ~Pending => event.start = n /\ event.frames = 0
  <2>1. CASE Pending /\ ~flush
    <3>1. event = current /\ current \in Events(Marks) /\ current.start \in Nat \ {0}
      BY <1>1, <2>1 DEF Events
    <3>2. Gathers(current, n)
      BY <1>2, <1>5, <2>1, <3>1 DEF Gathers, SoundIn
    <3>. QED
      BY <2>1, <3>1, <3>2, MoreMarks
  <2>2. CASE flush \/ ~Pending
    <3>1. event = Fresh(n, line)
      BY <2>2
    <3>. QED
      BY <1>2, <3>1, FreshGathers
  <2>. QED
    BY <2>1, <2>2
<1>. HIDE DEF event
<1>11. /\ gathered \in Events((Marks \cup {<<>>}) \cup {gathered.marks})
       /\ gathered.start = event.start /\ gathered.end = n
       /\ ~gathered.truncated => Complete(gathered)
       /\ Overflow(event, line) \in Nat
       /\ gathered.frames + Overflow(event, line) = event.frames + line.frames
  BY <1>2, <1>10, GatherLine
<1>. DEFINE More == (Marks \cup {<<>>}) \cup {gathered.marks}
<1>. HIDE DEF gathered
<1>12. events \in Seq(Events(More)) /\ gathered \in Events(More)
       /\ (Pending => current \in Events(More) /\ Closed(current, line) \in Events(More))
  BY <1>1, <1>11, MoreMarks, ClosedEvent
<1>13. events' \in Seq(Events(More)) /\ current' \in Events(More)
  BY <1>4, <1>12
<1>14. gathered.start \in Nat \ {0} /\ gathered.frames \in Nat
  BY <1>12 DEF Events
<1>15. Pending'
  BY <1>4, <1>14 DEF Pending, NoEvent
<1>16. LogTypes'
  <2>1. log' \in Seq(LogLines) /\ read' \in 0..Len(log') /\ omitted' \in Nat
    BY <1>2, <1>4, <1>11
  <2>. QED
    BY <1>13, <1>15, <2>1 DEF LogTypes
<1>. HIDE DEF More
<1>17. ASSUME NEW i \in 1..Len(events')
       PROVE  SoundIn(log, n, events'[i]) /\ FollowsIn(log, events', events'[i], i)
  <2>1. CASE i \in 1..Len(events)
    <3>1. events[i] \in Events(More) /\ events[i].end \in Nat
      <4>1. events[i] \in Events(More)
        BY <1>12, <2>1
      <4>. QED
        BY <4>1 DEF Events
    <3>2. events'[i] = events[i] /\ (i # 1 => events'[i - 1] = events[i - 1])
      BY <1>4, <1>12, <2>1
    <3>. QED
      BY <1>2, <1>6, <2>1, <3>1, <3>2 DEF SoundIn, FollowsIn
  <2>2. CASE i \notin 1..Len(events)
    <3>1. flush /\ i = Len(events) + 1 /\ events'[i] = Closed(current, line)
          /\ (i # 1 => events'[i - 1] = events[i - 1])
      BY <1>4, <1>12, <2>2
    <3>2. current \in Events(More) /\ current.end \in Nat /\ current.start \in Nat
      BY <1>12, <3>1 DEF Events
    <3>3. /\ Closed(current, line).start = current.start
          /\ Closed(current, line).end = current.end
          /\ Closed(current, line).frames = current.frames
          /\ Closed(current, line).excerpt = current.excerpt
          /\ current.truncated => Closed(current, line).truncated
      BY <3>2, ClosedEvent
    <3>4. SoundIn(log, read, current) /\ FollowsIn(log, events, current, i)
      BY <1>5, <3>1
    <3>5. SoundIn(log, n, events'[i])
      BY <1>2, <3>1, <3>2, <3>3, <3>4 DEF SoundIn
    <3>6. FollowsIn(log, events', events'[i], i)
      BY <3>1, <3>3, <3>4 DEF FollowsIn
    <3>. QED
      BY <3>5, <3>6
  <2>. QED
    BY <2>1, <2>2
<1>18. SoundIn(log, n, gathered)
  <2>1. \A m \in event.start + 1 .. n : ~log[m].header
    <3>1. CASE flush \/ ~Pending
      BY <1>2, <1>10, <3>1
    <3>2. CASE Pending /\ ~flush
      <4>1. event = current /\ ~line.header
        BY <3>2 DEF event, Closes
      <4>2. \A m \in event.start + 1 .. read : ~log[m].header
        BY <1>5, <3>2, <4>1 DEF SoundIn
      <4>3. event.start \in Nat
        BY <1>11, <1>14
      <4>. QED
        BY <1>2, <4>1, <4>2, <4>3
    <3>. QED
      BY <3>1, <3>2
  <2>2. event.start <= n
    BY <1>2, <1>10 DEF Gathers
  <2>. QED
    BY <1>2, <1>11, <2>1, <2>2 DEF SoundIn, Complete, LinesOf
<1>19. FollowsIn(log, events', gathered, Len(events') + 1)
  <2>1. CASE ~Pending
    <3>1. events' = <<>> /\ gathered.start = 1
      BY <1>2, <1>4, <1>7, <1>10, <1>11, <2>1
    <3>2. Len(events') = 0
      BY <3>1
    <3>. QED
      BY <3>1, <3>2 DEF FollowsIn
  <2>2. CASE flush
    <3>. DEFINE closed == Closed(current, line)
    <3>1. /\ Len(events') = Len(events) + 1 /\ events'[Len(events) + 1] = closed
          /\ Len(events) \in Nat
      BY <1>4, <1>12, <2>2
    <3>2. closed.end = read /\ (~line.header => closed.truncated)
      BY <1>5, <1>12, <2>2, ClosedEvent
    <3>. HIDE DEF closed
    <3>3. gathered.start = n
      BY <1>10, <1>11, <2>2
    <3>. QED
      BY <1>2, <3>1, <3>2, <3>3 DEF FollowsIn
  <2>3. CASE Pending /\ ~flush
    <3>1. events' = events /\ gathered.start = current.start
      BY <1>4, <1>11, <2>3 DEF event
    <3>. QED
      BY <1>5, <2>3, <3>1 DEF FollowsIn
  <2>. QED
    BY <2>1, <2>2, <2>3
<1>20. omitted' + SumOf(FrameCounts(events')) + gathered.frames
          = SumOf(FrameCounts(SubSeq(log, 1, n)))
  <2>. DEFINE told == SumOf(FrameCounts(events))
              found == SumOf(FrameCounts(SubSeq(log, 1, read)))
  <2>1. told \in Nat
    BY <1>12, EventsGrow
  <2>2. CASE ~Pending
    <3>1. omitted + told = found /\ events' = events /\ event.frames = 0
      BY <1>2, <1>4, <1>8, <1>10, <2>1, <2>2
    <3>. HIDE DEF told, found
    <3>2. omitted + Overflow(event, line) + told + gathered.frames = found + line.frames
      BY <1>2, <1>3, <1>11, <1>14, <2>1, <3>1
    <3>. QED
      BY <1>4, <1>9, <3>1, <3>2 DEF told, found
  <2>3. CASE flush
    <3>1. /\ omitted + told + current.frames = found /\ event.frames = 0
          /\ current \in Events(More) /\ current.frames \in Nat
      BY <1>8, <1>10, <1>12, <2>3 DEF Events
    <3>2. SumOf(FrameCounts(events')) = told + current.frames
      <4>. DEFINE closed == Closed(current, line)
      <4>1. closed \in Events(More) /\ closed.frames = current.frames
        BY <3>1, ClosedEvent
      <4>2. events' = Append(events, closed)
        BY <1>4, <2>3
      <4>. HIDE DEF closed
      <4>. QED
        BY <1>12, <4>1, <4>2, EventsGrow
    <3>. HIDE DEF told, found
    <3>3. omitted + Overflow(event, line) + (told + current.frames) + gathered.frames
             = found + line.frames
      <4>. DEFINE overflow == Overflow(event, line)
      <4>1. /\ overflow \in Nat /\ gathered.frames + overflow = line.frames
            /\ omitted \in Nat /\ gathered.frames \in Nat /\ line.frames \in Nat
        BY <1>2, <1>3, <1>11, <1>14, <3>1
      <4>. HIDE DEF overflow, line
      <4>2. omitted + overflow + (told + current.frames) + gathered.frames = found + line.frames
        BY <2>1, <3>1, <4>1
      <4>. QED
        BY <4>2 DEF overflow
    <3>. QED
      BY <1>4, <1>9, <3>2, <3>3 DEF told, found
  <2>4. CASE Pending /\ ~flush
    <3>1. omitted + told + event.frames = found /\ events' = events /\ event.frames \in Nat
      BY <1>4, <1>8, <1>12, <2>4 DEF event, Events
    <3>. HIDE DEF told, found
    <3>2. omitted + Overflow(event, line) + told + gathered.frames = found + line.frames
      <4>. DEFINE overflow == Overflow(event, line)
      <4>1. /\ overflow \in Nat /\ gathered.frames + overflow = event.frames + line.frames
            /\ omitted \in Nat /\ gathered.frames \in Nat /\ line.frames \in Nat
        BY <1>2, <1>3, <1>11, <1>14
      <4>. HIDE DEF overflow, line
      <4>2. omitted + overflow + told + gathered.frames = found + line.frames
        BY <2>1, <3>1, <4>1
      <4>. QED
        BY <4>2 DEF overflow
    <3>. QED
      BY <1>4, <1>9, <3>1, <3>2 DEF told, found
  <2>. QED
    BY <2>2, <2>3, <2>4
<1>21. \A i \in 1..Len(events') : Sound(events[i])' /\ Follows(events[i], i)'
  BY <1>4, <1>17 DEF Sound, Complete, LinesOf, Follows, SoundIn, FollowsIn
<1>22. Sound(current)' /\ Follows(current, Len(events) + 1)' /\ current'.end = read'
  BY <1>4, <1>11, <1>18, <1>19 DEF Sound, Complete, LinesOf, Follows, SoundIn, FollowsIn
<1>. QED
  BY <1>4, <1>15, <1>16, <1>20, <1>21, <1>22 DEF LogInv

-----------------------------------------------------------------------------
(* The other steps.                                                        *)

(* An empty table holds no frames. *)
LEMMA NoFrames == SumOf(FrameCounts(<<>>)) = 0
<1>. DEFINE none == <<>>
<1>1. none \in Seq(LogLines) /\ Len(none) = 0
  OBVIOUS
<1>. HIDE DEF none
<1>. QED
  BY <1>1, CountsOfLines, SumOfNothing DEF none

(* Before the first line there is no event. *)
LEMMA LogStarts == LogInit \/ LogIdle => LogInv
<1>. SUFFICES ASSUME LogInit \/ LogIdle PROVE LogInv
  OBVIOUS
<1>1. /\ log \in Seq(LogLines) /\ read = 0 /\ current = NoEvent /\ events = <<>> /\ omitted = 0
  <2>1. <<>> \in Seq(LogLines)
    OBVIOUS
  <2>. QED
    BY <2>1, LogsAssumption DEF LogInit, LogIdle
<1>2. ~Pending /\ Len(events) = 0 /\ LastEnd = read
  BY <1>1 DEF Pending, LastEnd
<1>3. events \in Seq(Events({}))
  BY <1>1
<1>4. LogTypes
  BY <1>1, <1>2, <1>3 DEF LogTypes
<1>5. SumOf(FrameCounts(events)) = 0
  BY <1>1, NoFrames
<1>6. SumOf(FrameCounts(SubSeq(log, 1, read))) = 0
  <2>1. 1 \in Nat \ {0} /\ 1 - 1 = 0
    OBVIOUS
  <2>. QED
    BY <1>1, <2>1, EmptySlice
<1>. QED
  BY <1>1, <1>2, <1>4, <1>5, <1>6 DEF LogInv

(* The end of the log closes the last event. *)
LEMMA EndKeeps ==
    ASSUME LogInv, EndOfLog
    PROVE  LogInv'
<1>1. PICK Marks : events \in Seq(Events(Marks)) /\ (Pending => current \in Events(Marks))
  BY DEF LogInv, LogTypes
<1>2. /\ log' = log /\ read' = read /\ omitted' = omitted /\ logState' = "done"
      /\ current' = NoEvent /\ ~Pending'
      /\ events' = IF Pending THEN Append(events, current) ELSE events
  BY DEF EndOfLog, Pending
<1>3. events' \in Seq(Events(Marks))
  BY <1>1, <1>2
<1>4. LogTypes'
  BY <1>2, <1>3 DEF LogInv, LogTypes
<1>5. CASE Pending
  <2>1. /\ SoundIn(log, read, current) /\ FollowsIn(log, events, current, Len(events) + 1)
        /\ current.end = read
    BY <1>5 DEF LogInv, Sound, Complete, LinesOf, Follows, SoundIn, FollowsIn
  <2>2. \A i \in 1..Len(events) :
           SoundIn(log, read, events[i]) /\ FollowsIn(log, events, events[i], i)
    BY DEF LogInv, Sound, Complete, LinesOf, Follows, SoundIn, FollowsIn
  <2>3. /\ Len(events') = Len(events) + 1 /\ events'[Len(events) + 1] = current
        /\ \A i \in 1..Len(events) : events'[i] = events[i]
        /\ Len(events) \in Nat
    BY <1>1, <1>2, <1>5
  <2>4. ASSUME NEW i \in 1..Len(events')
        PROVE  SoundIn(log, read, events'[i]) /\ FollowsIn(log, events', events'[i], i)
    <3>1. i # 1 => events'[i - 1] = events[i - 1]
      BY <2>3
    <3>2. CASE i \in 1..Len(events)
      <4>1. events'[i] = events[i]
        BY <2>3, <3>2
      <4>. QED
        BY <2>2, <3>1, <3>2, <4>1 DEF FollowsIn
    <3>3. CASE i = Len(events) + 1
      <4>1. events'[i] = current
        BY <2>3, <3>3
      <4>. QED
        BY <2>1, <3>1, <3>3, <4>1 DEF FollowsIn
    <3>. QED
      BY <2>3, <3>2, <3>3
  <2>5. \A i \in 1..Len(events') : Sound(events[i])' /\ Follows(events[i], i)'
    BY <1>2, <2>4 DEF Sound, Complete, LinesOf, Follows, SoundIn, FollowsIn
  <2>6. LastEnd' = read'
    BY <1>2, <2>1, <2>3 DEF LastEnd
  <2>7. omitted' + SumOf(FrameCounts(events')) = SumOf(FrameCounts(SubSeq(log', 1, read')))
    <3>1. /\ SumOf(FrameCounts(events)) \in Nat
          /\ SumOf(FrameCounts(events')) = SumOf(FrameCounts(events)) + current.frames
      BY <1>1, <1>2, <1>5, EventsGrow
    <3>2. omitted \in Nat /\ current.frames \in Nat
      BY <1>1, <1>5 DEF LogInv, LogTypes, Events
    <3>3. omitted + SumOf(FrameCounts(events)) + current.frames
             = SumOf(FrameCounts(SubSeq(log, 1, read)))
      BY <1>5 DEF LogInv
    <3>. QED
      BY <1>2, <3>1, <3>2, <3>3
  <2>8. omitted' + SumOf(FrameCounts(events')) \in Nat
    <3>1. SumOf(FrameCounts(events')) \in Nat
      <4>1. /\ SumOf(FrameCounts(events)) \in Nat
            /\ SumOf(FrameCounts(events')) = SumOf(FrameCounts(events)) + current.frames
        BY <1>1, <1>2, <1>5, EventsGrow
      <4>2. current.frames \in Nat
        BY <1>1, <1>5 DEF Events
      <4>. QED
        BY <4>1, <4>2
    <3>. QED
      BY <1>2, <3>1 DEF LogInv, LogTypes
  <2>. QED
    BY <1>2, <1>4, <2>5, <2>6, <2>7, <2>8 DEF LogInv
<1>6. CASE ~Pending
  <2>1. events' = events
    BY <1>2, <1>6
  <2>2. \A i \in 1..Len(events') : Sound(events[i])' /\ Follows(events[i], i)'
    BY <1>2, <2>1 DEF LogInv, Sound, Complete, LinesOf, Follows
  <2>3. LastEnd' = read'
    BY <1>2, <1>6, <2>1 DEF LogInv, LastEnd
  <2>. QED
    BY <1>2, <1>4, <1>6, <2>1, <2>2, <2>3 DEF LogInv
<1>. QED
  BY <1>5, <1>6

(* A step that changes none of it, but perhaps the state of the scan. *)
LEMMA LogKept ==
    ASSUME LogInv, UNCHANGED <<log, read, current, events, omitted>>,
           logState' = "reading" => logState = "reading"
    PROVE  LogInv'
<1>1. LogTypes'
  BY DEF LogInv, LogTypes, Pending
<1>2. \A i \in 1..Len(events) : Sound(events[i])' /\ Follows(events[i], i)'
  BY DEF LogInv, Sound, Complete, LinesOf, Follows
<1>3. Pending' = Pending /\ LastEnd' = LastEnd
  BY DEF Pending, LastEnd
<1>4. Pending => Sound(current)' /\ Follows(current, Len(events) + 1)' /\ current'.end = read'
  BY DEF LogInv, Sound, Complete, LinesOf, Follows
<1>. QED
  BY <1>1, <1>2, <1>3, <1>4 DEF LogInv

(* The invariant implies what the run checks. *)
LEMMA InvOneEvent ==
    ASSUME LogInv
    PROVE  EveryLineInOneEvent
<1>. DEFINE all == Gathering
<1>1. PICK Marks : events \in Seq(Events(Marks)) /\ (Pending => current \in Events(Marks))
  BY DEF LogInv, LogTypes
<1>2. log \in Seq(LogLines) /\ read \in Nat /\ omitted \in Nat
  BY DEF LogInv, LogTypes
<1>3. \A i \in 1..Len(events) :
         SoundIn(log, read, events[i]) /\ FollowsIn(log, events, events[i], i)
  BY DEF LogInv, Sound, Complete, LinesOf, Follows, SoundIn, FollowsIn
<1>4. Pending => /\ SoundIn(log, read, current) /\ FollowsIn(log, events, current, Len(events) + 1)
                 /\ current.end = read
  BY DEF LogInv, Sound, Complete, LinesOf, Follows, SoundIn, FollowsIn
<1>5. all = IF Pending THEN Append(events, current) ELSE events
  <2>1. CASE Pending
    <3>1. events \o <<current>> = Append(events, current)
      BY <1>1, <2>1
    <3>. QED
      BY <2>1, <3>1 DEF Gathering
  <2>2. CASE ~Pending
    <3>1. events \o <<>> = events
      BY <1>1
    <3>. QED
      BY <2>2, <3>1 DEF Gathering
  <2>. QED
    BY <2>1, <2>2
<1>. HIDE DEF all
<1>6. all \in Seq(Events(Marks)) /\ Len(all) \in Nat /\ Len(events) \in Nat
  BY <1>1, <1>5
<1>7. /\ \A i \in 1..Len(events) : all[i] = events[i]
      /\ Pending => Len(all) = Len(events) + 1 /\ all[Len(all)] = current
      /\ ~Pending => Len(all) = Len(events)
  BY <1>1, <1>5
<1>8. ASSUME NEW i \in 1..Len(all)
      PROVE  SoundIn(log, read, all[i]) /\ FollowsIn(log, all, all[i], i)
             /\ all[i].start \in Nat \ {0} /\ all[i].end \in Nat
  <2>1. i # 1 => all[i - 1] = events[i - 1]
    BY <1>6, <1>7
  <2>2. SoundIn(log, read, all[i]) /\ FollowsIn(log, events, all[i], i)
    <3>1. CASE i \in 1..Len(events)
      BY <1>3, <1>7, <3>1
    <3>2. CASE i \notin 1..Len(events)
      <4>1. Pending /\ i = Len(events) + 1 /\ all[i] = current
        BY <1>6, <1>7, <3>2
      <4>. QED
        BY <1>4, <4>1
    <3>. QED
      BY <3>1, <3>2
  <2>3. FollowsIn(log, all, all[i], i)
    BY <2>1, <2>2 DEF FollowsIn
  <2>4. all[i] \in Events(Marks)
    BY <1>6
  <2>. QED
    BY <2>2, <2>3, <2>4 DEF Events
<1>9. /\ all # <<>> <=> Len(all) > 0
      /\ Last(all) = all[Len(all)]
  BY <1>6 DEF Last
<1>10. logState \in {"reading", "done"} =>
          /\ all # <<>> <=> read > 0
          /\ all # <<>> => all[1].start = 1 /\ Last(all).end = read
  <2>1. CASE all # <<>>
    <3>1. 1 \in 1..Len(all) /\ Len(all) \in 1..Len(all)
      BY <1>6, <1>9, <2>1
    <3>2. all[1].start = 1
      BY <1>8, <3>1 DEF FollowsIn
    <3>3. all[Len(all)].end = read
      <4>1. CASE Pending
        BY <1>4, <1>7, <4>1
      <4>2. CASE ~Pending
        <5>1. all = events
          BY <1>5, <4>2
        <5>. QED
          BY <2>1, <4>2, <5>1 DEF LogInv, LastEnd
      <4>. QED
        BY <4>1, <4>2
    <3>4. read > 0
      BY <1>2, <1>8, <3>1, <3>3 DEF SoundIn
    <3>. QED
      BY <1>9, <2>1, <3>2, <3>3, <3>4
  <2>2. CASE all = <<>>
    <3>1. ~Pending /\ events = <<>>
      <4>1. ~Pending
        BY <1>6, <1>7, <1>9, <2>2
      <4>. QED
        BY <1>5, <2>2, <4>1
    <3>2. read = 0
      BY <3>1 DEF LogInv, LastEnd
    <3>. QED
      BY <2>2, <3>2
  <2>. QED
    BY <2>1, <2>2
<1>11. ASSUME NEW i \in 1..Len(all)
       PROVE  /\ i > 1 => all[i].start = all[i - 1].end + 1
              /\ ~log[all[i].start].header => (i = 1 \/ all[i - 1].truncated)
              /\ \A n \in all[i].start + 1 .. all[i].end : ~log[n].header
              /\ ~all[i].truncated => Complete(all[i])
  BY <1>8 DEF SoundIn, FollowsIn, Complete, LinesOf
<1>12. omitted = SumOf(FrameCounts(SubSeq(log, 1, read))) - SumOf(FrameCounts(all))
  <2>1. SumOf(FrameCounts(events)) \in Nat
    <3>1. FrameCounts(events) \in Seq(Nat)
      <4>1. \A f \in Events(Marks) : f.frames \in Nat
        BY DEF Events
      <4>2. \A i \in 1..Len(events) : events[i] \in Events(Marks)
        BY <1>1
      <4>. QED
        BY <4>1, <4>2, <1>6 DEF FrameCounts
    <3>. QED
      BY <3>1, SumsAreNumbers DEF SumOf
  <2>2. CASE Pending
    <3>1. current \in Events(Marks) /\ current.frames \in Nat
      BY <1>1, <2>2 DEF Events
    <3>2. SumOf(FrameCounts(all)) = SumOf(FrameCounts(events)) + current.frames
      BY <1>1, <1>5, <2>2, <3>1, EventsGrow
    <3>3. omitted + SumOf(FrameCounts(events)) + current.frames
             = SumOf(FrameCounts(SubSeq(log, 1, read)))
      BY <2>2 DEF LogInv
    <3>. QED
      BY <1>2, <2>1, <3>1, <3>2, <3>3
  <2>3. CASE ~Pending
    <3>1. omitted + SumOf(FrameCounts(events)) + 0 = SumOf(FrameCounts(SubSeq(log, 1, read)))
      BY <2>3 DEF LogInv
    <3>. QED
      BY <1>2, <1>5, <2>1, <2>3, <3>1
  <2>. QED
    BY <2>2, <2>3
<1>. QED
  BY <1>10, <1>11, <1>12 DEF EveryLineInOneEvent, all

-----------------------------------------------------------------------------
(* The scan is one of the analyses of Reports.                             *)

(* Nothing but the scan of a log changes what it keeps. *)
LEMMA OthersLeaveLog ==
    ASSUME [ReportsNext]_reportVars
    PROVE  UNCHANGED logVars \/ LogNext
  BY DEF ReportsNext, reportVars

(* LogInv is inductive. *)
LEMMA LogInductive ==
    /\ ReportsInit => LogInv
    /\ LogInv /\ [ReportsNext]_reportVars => LogInv'
<1>1. ReportsInit => LogInv
  BY LogStarts DEF ReportsInit
<1>2. ASSUME LogInv, [ReportsNext]_reportVars PROVE LogInv'
  <2>1. CASE ReadLine
    BY <1>2, <2>1, LineKeeps
  <2>2. CASE EndOfLog
    BY <1>2, <2>2, EndKeeps
  <2>3. CASE CancelScan
    BY <1>2, <2>3, LogKept DEF CancelScan
  <2>4. CASE UNCHANGED logVars
    BY <1>2, <2>4, LogKept DEF logVars
  <2>. QED
    BY <1>2, <2>1, <2>2, <2>3, <2>4, OthersLeaveLog DEF LogNext
<1>. QED
  BY <1>1, <1>2

(* The events partition the lines of every log, each starts at a header,   *)
(* at the first line or where the one before it was cut, and what an event *)
(* leaves out it says: for every value of the limits.                      *)
THEOREM LinesAreInOneEvent == ReportsSpec => []EveryLineInOneEvent
<1>1. LogInv => EveryLineInOneEvent
  BY InvOneEvent
<1>. QED
  BY <1>1, LogInductive, PTL DEF ReportsSpec

-----------------------------------------------------------------------------
(* Captures: two dumps of the threads of one process.                      *)

(* A thread that is printed in both dumps with the same kind of identity   *)
(* has the same identity in both.                                          *)
KeepsIdentities(before, after) ==
    \A b \in ToSet(before), a \in ToSet(after) :
        (b.who = a.who /\ IdentityOf(b)[1] = IdentityOf(a)[1]) => IdentityOf(b) = IdentityOf(a)

(* The thread of an identity that is not ambiguous.                        *)
LEMMA OneOfItsIdentity ==
    ASSUME NEW threads, IsThreadList(threads), NEW key \in Identities(threads)
    PROVE  \E i \in DOMAIN threads :
              /\ ThreadAt(threads, key) = threads[i] /\ IdentityOf(threads[i]) = key
              /\ \A j \in DOMAIN threads : IdentityOf(threads[j]) = key => j = i
<1>1. PICK i \in DOMAIN threads : Bucket(threads, key) = {i}
  BY DEF Identities
<1>2. i \in Nat
  BY DEF IsThreadList, IsList
<1>3. Min({i}) = i
  <2>1. \E x \in {i} : \A y \in {i} : x =< y
    BY <1>2
  <2>. QED
    BY <2>1 DEF Min
<1>4. ThreadAt(threads, key) = threads[i]
  BY <1>1, <1>3 DEF ThreadAt
<1>5. \A j \in DOMAIN threads : j \in Bucket(threads, key) <=> IdentityOf(threads[j]) = key
  BY DEF Bucket
<1>. QED
  BY <1>1, <1>4, <1>5

(* Threads that are paired are one, or one of them is in one dump only.    *)
LEMMA PairedAreOne ==
    ASSUME NEW before, NEW after, IsThreadList(before), IsThreadList(after),
           KeepsIdentities(before, after),
           NEW key \in Identities(before) \cap Identities(after),
           NEW b, NEW a, b = ThreadAt(before, key), a = ThreadAt(after, key)
    PROVE  /\ b \in ToSet(before) /\ a \in ToSet(after) /\ IdentityOf(b) = IdentityOf(a)
           /\ b.who \in {t.who : t \in ToSet(after)} => b.who = a.who
<1>1. PICK i \in DOMAIN before : b = before[i] /\ IdentityOf(before[i]) = key
  BY OneOfItsIdentity
<1>2. PICK j \in DOMAIN after :
         /\ a = after[j] /\ IdentityOf(after[j]) = key
         /\ \A k \in DOMAIN after : IdentityOf(after[k]) = key => k = j
  BY OneOfItsIdentity
<1>3. b \in ToSet(before) /\ a \in ToSet(after)
  BY <1>1, <1>2 DEF ToSet
<1>4. ASSUME NEW c \in ToSet(after), c.who = b.who
      PROVE  b.who = a.who
  <2>1. PICK k \in DOMAIN after : c = after[k]
    BY DEF ToSet
  <2>2. IdentityOf(c)[1] = IdentityOf(a)[1]
    BY <2>1, <1>2 DEF IsThreadList
  <2>3. IdentityOf(b)[1] = IdentityOf(a)[1]
    BY <1>1, <1>2
  <2>4. IdentityOf(b) = IdentityOf(c)
    BY <1>3, <1>4, <2>2, <2>3 DEF KeepsIdentities
  <2>5. IdentityOf(after[k]) = key
    BY <2>4, <2>1, <1>1
  <2>. QED
    BY <2>5, <2>1, <1>2, <1>4
<1>. QED
  BY <1>1, <1>2, <1>3, <1>4

(* A comparison of thread dumps keeps stuck threads apart.                 *)
LEMMA ThreadsAreCompared ==
    ASSUME question \in Questions, CompareThreads
    PROVE  StuckIsOneThread'
<1>. DEFINE before == question.first.threads
            after == question.second.threads
<1>0. question' = question
  BY DEF CompareThreads
<1>1. IsThreadList(before) /\ IsThreadList(after) /\ KeepsIdentities(before, after)
  BY ThreadsAssumption DEF CompareThreads, KeepsIdentities
<1>2. \A s \in answer'.stuck : \E key \in Identities(before) \cap Identities(after) :
          s = StuckThread(key, ThreadAt(before, key), ThreadAt(after, key))
  BY DEF CompareThreads
<1>3. ASSUME ~Inherited, NEW s \in answer'.stuck
      PROVE  s.before = s.after
  <2>1. PICK key \in Identities(before) \cap Identities(after) :
            s = StuckThread(key, ThreadAt(before, key), ThreadAt(after, key))
    BY <1>2, <1>3
  <2>. DEFINE b == ThreadAt(before, key)
              a == ThreadAt(after, key)
  <2>2. s.before = b.who /\ s.after = a.who
    BY <2>1 DEF StuckThread
  <2>3. /\ b \in ToSet(before) /\ a \in ToSet(after) /\ IdentityOf(b) = IdentityOf(a)
        /\ b.who \in {t.who : t \in ToSet(after)} => b.who = a.who
    BY <1>1, PairedAreOne
  <2>4. b.who = a.who \/ b.who \in Survivors
    BY <1>3, <2>3 DEF Inherited
  <2>5. b.who \in Survivors => b.who \in {t.who : t \in ToSet(after)}
    BY DEF Survivors
  <2>. QED
    BY <2>2, <2>3, <2>4, <2>5
<1>4. Inherited' = Inherited
  BY <1>0 DEF Inherited, Survivors
<1>. QED
  BY <1>3, <1>4 DEF StuckIsOneThread

-----------------------------------------------------------------------------
(* Lists: what is picked and sorted of them.                               *)

(* The elements of s at the positions in S, in order.                      *)
PickedFrom(s, S) ==
    LET a == Ascending(S)
    IN  [k \in 1..Len(a) |-> s[a[k]]]

(* A comprehension keeps what passes, and nothing else.                    *)
LEMMA PickedAreKept ==
    ASSUME NEW s, NEW n \in Nat, NEW S \in SUBSET (1..n)
    PROVE  LET p == PickedFrom(s, S)
           IN  /\ Len(p) \in Nat /\ DOMAIN p = 1..Len(p)
               /\ Len(p) = Cardinality(S) /\ IsFiniteSet(S)
               /\ \A i \in S : \E k \in 1..Len(p) : p[k] = s[i]
               /\ \A k \in 1..Len(p) : \E i \in S : p[k] = s[i]
<1>. DEFINE a == Ascending(S)
            p == PickedFrom(s, S)
<1>0. /\ IsFiniteSet(S) /\ Len(a) \in Nat /\ Len(a) = Cardinality(S) /\ a \in [1..Len(a) -> S]
      /\ \A i \in S : \E k \in 1..Len(a) : a[k] = i
  BY KeptInOrder, Zenon
<1>1. /\ IsFiniteSet(S) /\ Len(a) \in Nat /\ Len(a) = Cardinality(S)
      /\ \A k \in 1..Len(a) : a[k] \in S
      /\ \A i \in S : \E k \in 1..Len(a) : a[k] = i
  BY <1>0
<1>2. p = [k \in 1..Len(a) |-> s[a[k]]]
  BY DEF PickedFrom
<1>. HIDE DEF a, p
<1>3. Len(p) = Len(a) /\ DOMAIN p = 1..Len(a) /\ \A k \in 1..Len(a) : p[k] = s[a[k]]
  BY <1>1, <1>2
<1>4. \A i \in S : \E k \in 1..Len(p) : p[k] = s[i]
  BY <1>1, <1>3
<1>5. \A k \in 1..Len(p) : \E i \in S : p[k] = s[i]
  BY <1>1, <1>3
<1>. QED
  BY <1>1, <1>3, <1>4, <1>5 DEF p

(* The first n elements of s in the order of R.                            *)
SortedBy(s, n, R) == [k \in 1..n |-> s[Arranged(1..n, R)[k]]]

(* Two sequences of n have the same members.                               *)
SameMembers(s, t, n) ==
    /\ \A i \in 1..n : \E k \in 1..n : t[k] = s[i]
    /\ \A k \in 1..n : \E i \in 1..n : t[k] = s[i]

(* Sorting moves the members of a sequence and keeps them.                 *)
LEMMA SortedAreKept ==
    ASSUME NEW s, NEW n \in Nat, NEW R, Orders(R, 1..n)
    PROVE  /\ Len(SortedBy(s, n, R)) = n /\ DOMAIN SortedBy(s, n, R) = 1..n
           /\ SameMembers(s, SortedBy(s, n, R), n)
<1>. DEFINE a == Arranged(1..n, R)
            t == SortedBy(s, n, R)
<1>1. IsFiniteSet(1..n) /\ Cardinality(1..n) = n
  BY FS_Interval
<1>2. a \in [1..n -> 1..n] /\ \A i \in 1..n : \E k \in 1..n : a[k] = i
  <2>1. a \in [1..Cardinality(1..n) -> 1..n] /\ \A i \in 1..n : \E k \in 1..Cardinality(1..n) : a[k] = i
    BY <1>1, ArrangedInOrder, Zenon
  <2>. QED
    BY <2>1, <1>1
<1>0. t = [k \in 1..n |-> s[a[k]]]
  BY DEF SortedBy
<1>. HIDE DEF a, t
<1>3. Len(t) = n /\ DOMAIN t = 1..n /\ \A k \in 1..n : t[k] = s[a[k]]
  BY <1>0
<1>4. ASSUME NEW i \in 1..n
      PROVE  \E k \in 1..n : t[k] = s[i]
  <2>1. PICK k \in 1..n : a[k] = i
    BY <1>2
  <2>2. t[k] = s[i]
    BY <2>1, <1>3
  <2>. QED
    BY <2>2
<1>5. \A k \in 1..n : \E i \in 1..n : t[k] = s[i]
  BY <1>2, <1>3
<1>6. SameMembers(s, t, n)
  BY <1>4, <1>5 DEF SameMembers
<1>. QED
  BY <1>3, <1>6 DEF t

(* Numbers that are all below a bound have a largest one.                  *)
LEMMA LargestNumber ==
    ASSUME NEW T \in SUBSET Nat, T # {}, NEW b \in Nat, \A x \in T : x <= b
    PROVE  Max(T) \in T /\ \A x \in T : x <= Max(T)
<1>. DEFINE B == {m \in Nat : \A x \in T : x <= m}
<1>1. PICK m \in B : \A k \in B : m <= k
  <2>1. B # {} /\ B \in SUBSET Nat
    OBVIOUS
  <2>. QED
    BY <2>1, LeastNumber
<1>2. m \in T
  <2>1. SUFFICES ASSUME m \notin T PROVE FALSE
    OBVIOUS
  <2>2. m # 0
    <3>1. PICK x \in T : TRUE
      OBVIOUS
    <3>. QED
      BY <3>1, <2>1, <1>1
  <2>3. \A x \in T : x <= m - 1
    BY <2>1, <1>1
  <2>4. m - 1 \in B
    BY <2>2, <2>3
  <2>. QED
    BY <2>4, <1>1
<1>3. \E x \in T : \A y \in T : x >= y
  BY <1>2
<1>4. Max(T) \in T /\ \A y \in T : Max(T) >= y
  BY <1>3 DEF Max
<1>. QED
  BY <1>4

-----------------------------------------------------------------------------
(* Captures: a heap, a thread dump, a GC log and a server log.             *)

(* A class that a thread executes is found among the frames.               *)
LEMMA ExecutingIsFound ==
    ASSUME NEW thread, IsList(thread.threads), NEW t \in ToSet(thread.threads),
           \A u \in ToSet(thread.threads) : IsList(u.stack), NEW i \in DOMAIN t.stack
    PROVE  Executing(thread, OuterOf[t.stack[i][1]]) # <<>>
<1>. DEFINE ts == thread.threads
            T == {[thread |-> u.name, frame |-> u.stack[j]] : u \in ToSet(ts), j \in Nat}
            ss == [k \in DOMAIN ts |->
                      [j \in DOMAIN ts[k].stack |-> [thread |-> ts[k].name, frame |-> ts[k].stack[j]]]]
            all == FramesOf(thread)
            c == OuterOf[t.stack[i][1]]
<1>1. ts \in Seq(ToSet(ts)) /\ DOMAIN ts = 1..Len(ts) /\ Len(ts) \in Nat
  BY DEF IsList
<1>2. \A k \in 1..Len(ts) : /\ ts[k] \in ToSet(ts) /\ Len(ts[k].stack) \in Nat
                            /\ DOMAIN ts[k].stack = 1..Len(ts[k].stack)
  BY <1>1 DEF IsList
<1>3. \A k \in 1..Len(ts) : \A j \in 1..Len(ts[k].stack) :
          [thread |-> ts[k].name, frame |-> ts[k].stack[j]] \in T
  BY <1>2
<1>4. ASSUME NEW k \in 1..Len(ts)
      PROVE  ss[k] \in Seq(T)
  <2>. DEFINE m == Len(ts[k].stack)
  <2>1. ss[k] = [j \in 1..m |-> [thread |-> ts[k].name, frame |-> ts[k].stack[j]]]
    BY <1>1, <1>2
  <2>2. \A j \in 1..m : [thread |-> ts[k].name, frame |-> ts[k].stack[j]] \in T
    BY <1>3
  <2>3. m \in Nat
    BY <1>2
  <2>. HIDE DEF T, m, ss
  <2>. QED
    BY <2>1, <2>2, <2>3
<1>5. ss \in Seq(Seq(T)) /\ Len(ss) = Len(ts)
  <2>1. ss = [k \in 1..Len(ts) |-> ss[k]]
    BY <1>1
  <2>. HIDE DEF T, ss
  <2>2. ss \in [1..Len(ts) -> Seq(T)]
    BY <1>4, <2>1
  <2>. QED
    BY <1>1, <2>2
<1>6. all = FlattenSeq(ss)
  BY DEF FramesOf
<1>7. PICK k \in 1..Len(ts) : t = ts[k]
  BY <1>1 DEF ToSet
<1>8. i \in 1..Len(ss[k]) /\ ss[k][i].frame = t.stack[i]
  BY <1>1, <1>2, <1>7
<1>. HIDE DEF ss, T, all
<1>9. all \in Seq(T) /\ \E n \in 1..Len(all) : all[n] = ss[k][i]
  <2>1. k \in 1..Len(ss)
    BY <1>5, <1>7
  <2>. QED
    BY <2>1, <1>5, <1>6, <1>8, FlattenHoldsTheParts
<1>10. PICK n \in 1..Len(all) : all[n].frame = t.stack[i]
  BY <1>8, <1>9
<1>. DEFINE S == {m \in 1..Len(all) : OuterOf[all[m].frame[1]] = c}
<1>11. n \in S /\ Len(all) \in Nat
  BY <1>9, <1>10
<1>12. Executing(thread, c) = PickedFrom(all, S)
  BY DEF Executing, Those, Positions, PickedFrom, all
<1>. HIDE DEF S, c
<1>13. \E m \in 1..Len(PickedFrom(all, S)) : TRUE
  <2>1. S \in SUBSET (1..Len(all))
    BY DEF S
  <2>. QED
    BY <2>1, <1>11, PickedAreKept
<1>14. PickedFrom(all, S) # <<>>
  BY <1>13
<1>. QED
  BY <1>12, <1>14 DEF c

(* What a list has, it has in its list without repetitions.                *)
LEMMA UniquelyKeeps ==
    ASSUME NEW s, IsList(s)
    PROVE  /\ IsList(Uniquely(s))
           /\ \A i \in 1..Len(s) : \E k \in 1..Len(Uniquely(s)) : Uniquely(s)[k] = s[i]
<1>. DEFINE S == {i \in 1..Len(s) : \A j \in 1..(i - 1) : s[j] # s[i]}
            u == Uniquely(s)
<1>1. Len(s) \in Nat /\ S \in SUBSET (1..Len(s))
  BY DEF IsList
<1>2. u = PickedFrom(s, S)
  BY DEF Uniquely, PickedFrom
<1>3. /\ Len(u) \in Nat /\ DOMAIN u = 1..Len(u)
      /\ \A i \in S : \E k \in 1..Len(u) : u[k] = s[i]
  <2>1. LET p == PickedFrom(s, S)
        IN  /\ Len(p) \in Nat /\ DOMAIN p = 1..Len(p)
            /\ \A i \in S : \E k \in 1..Len(p) : p[k] = s[i]
    BY <1>1, PickedAreKept, Zenon
  <2>. HIDE DEF S, u
  <2>. QED
    BY <1>2, <2>1
<1>4. u \in Seq(ToSet(u))
  <2>1. u = [k \in 1..Len(Ascending(S)) |-> s[Ascending(S)[k]]]
    BY DEF Uniquely
  <2>2. u = [k \in 1..Len(u) |-> u[k]]
    BY <2>1, <1>3
  <2>3. \A k \in 1..Len(u) : u[k] \in ToSet(u)
    BY <1>3 DEF ToSet
  <2>. HIDE DEF u
  <2>. QED
    BY <2>2, <2>3, <1>3
<1>5. ASSUME NEW i \in 1..Len(s)
      PROVE  \E k \in 1..Len(u) : u[k] = s[i]
  <2>. DEFINE E == {j \in 1..Len(s) : s[j] = s[i]}
  <2>1. PICK m \in E : \A j \in E : m <= j
    <3>1. E \in SUBSET Nat /\ i \in E
      BY <1>5
    <3>. HIDE DEF E
    <3>. QED
      BY <3>1, LeastNumber
  <2>2. m \in S
    BY <2>1, <1>1
  <2>. QED
    BY <2>1, <2>2, <1>3
<1>. QED
  BY <1>4, <1>5 DEF IsList

(* The members of a list are at its positions.                             *)
LEMMA ListMembers ==
    ASSUME NEW s, IsList(s)
    PROVE  /\ Len(s) \in Nat /\ DOMAIN s = 1..Len(s)
           /\ \A x : x \in ToSet(s) <=> \E i \in 1..Len(s) : s[i] = x
  BY DEF IsList, ToSet

(* A list joined to a list is a list of what both have.                    *)
LEMMA JoinedLists ==
    ASSUME NEW a, NEW b, IsList(a), IsList(b)
    PROVE  IsList(a \o b) /\ ToSet(a \o b) = ToSet(a) \cup ToSet(b)
<1>. DEFINE S == ToSet(a) \cup ToSet(b)
            c == a \o b
<1>1. a \in Seq(S) /\ b \in Seq(S)
  <2>1. a \in Seq(ToSet(a)) /\ b \in Seq(ToSet(b))
    BY DEF IsList
  <2>2. \A i \in 1..Len(a) : a[i] \in S
    BY <2>1
  <2>3. \A i \in 1..Len(b) : b[i] \in S
    BY <2>1
  <2>. HIDE DEF S
  <2>. QED
    BY <2>1, <2>2, <2>3
<1>2. /\ c \in Seq(S) /\ Len(c) = Len(a) + Len(b) /\ Len(a) \in Nat /\ Len(b) \in Nat
      /\ \A i \in 1..Len(a) : c[i] = a[i]
      /\ \A i \in 1..Len(b) : c[i + Len(a)] = b[i]
  <2>. HIDE DEF S
  <2>. QED
    BY <1>1
<1>3. \A x \in S : \E i \in 1..Len(c) : c[i] = x
  <2>1. ASSUME NEW x \in ToSet(a)
        PROVE  \E i \in 1..Len(c) : c[i] = x
    <3>1. PICK i \in 1..Len(a) : a[i] = x
      BY <2>1, ListMembers
    <3>2. i \in 1..Len(c) /\ c[i] = x
      BY <3>1, <1>2
    <3>. QED
      BY <3>2
  <2>2. ASSUME NEW x \in ToSet(b)
        PROVE  \E i \in 1..Len(c) : c[i] = x
    <3>1. PICK i \in 1..Len(b) : b[i] = x
      BY <2>2, ListMembers
    <3>2. i + Len(a) \in 1..Len(c) /\ c[i + Len(a)] = x
      BY <3>1, <1>2
    <3>. QED
      BY <3>2
  <2>. QED
    BY <2>1, <2>2
<1>. HIDE DEF S, c
<1>4. \A i \in 1..Len(c) : c[i] \in S
  BY <1>2
<1>5. \A x : x \in ToSet(c) <=> \E i \in 1..Len(c) : c[i] = x
  BY <1>2 DEF ToSet
<1>6. ToSet(c) = S
  BY <1>3, <1>4, <1>5
<1>. QED
  BY <1>2, <1>6 DEF IsList, S, c

(* What a comprehension picks is a list.                                   *)
LEMMA PickedIsList ==
    ASSUME NEW s, NEW n \in Nat, NEW S \in SUBSET (1..n)
    PROVE  IsList(PickedFrom(s, S))
<1>. DEFINE u == PickedFrom(s, S)
<1>1. u = [k \in 1..Len(Ascending(S)) |-> s[Ascending(S)[k]]]
  BY DEF PickedFrom
<1>2. Len(u) \in Nat /\ DOMAIN u = 1..Len(u)
  BY PickedAreKept, Zenon
<1>3. u = [k \in 1..Len(u) |-> u[k]]
  BY <1>1, <1>2
<1>4. \A k \in 1..Len(u) : u[k] \in ToSet(u)
  BY <1>2 DEF ToSet
<1>. HIDE DEF u
<1>5. u \in Seq(ToSet(u))
  BY <1>2, <1>3, <1>4
<1>. QED
  BY <1>5 DEF IsList, u

(* The application's classes are kept when names become outer classes.     *)
LEMMA OutersAreKept ==
    ASSUME NEW code, NEW cs, IsList(cs)
    PROVE  /\ IsList(OutersOf(code, cs))
           /\ \A d \in ToSet(cs) :
                  OuterOf[d] \in Application => OuterOf[d] \in ToSet(OutersOf(code, cs))
<1>. DEFINE s == [i \in DOMAIN cs |-> OuterOf[cs[i]]]
            S == {i \in 1..Len(s) : IsOurs(code, s[i])}
            u == PickedFrom(s, S)
<1>1. Len(cs) \in Nat /\ DOMAIN cs = 1..Len(cs)
  BY ListMembers
<1>2. Len(s) = Len(cs) /\ \A i \in 1..Len(cs) : s[i] = OuterOf[cs[i]]
  BY <1>1
<1>3. OutersOf(code, cs) = u
  BY DEF OutersOf, Those, Positions, PickedFrom
<1>4. Len(s) \in Nat /\ S \in SUBSET (1..Len(s))
  BY <1>1, <1>2
<1>5. IsList(u)
  <2>. HIDE DEF s, S
  <2>. QED
    BY <1>4, PickedIsList
<1>6. \A i \in S : \E k \in 1..Len(u) : u[k] = s[i]
  <2>. HIDE DEF s, S
  <2>. QED
    BY <1>4, PickedAreKept, Zenon
<1>7. ASSUME NEW d \in ToSet(cs), OuterOf[d] \in Application
      PROVE  OuterOf[d] \in ToSet(u)
  <2>1. PICK i \in 1..Len(cs) : cs[i] = d
    BY ListMembers
  <2>2. i \in S /\ s[i] = OuterOf[d]
    BY <2>1, <1>2, <1>7 DEF IsOurs
  <2>. HIDE DEF s, S, u
  <2>3. \E k \in 1..Len(u) : u[k] = OuterOf[d]
    BY <2>2, <1>6
  <2>. QED
    BY <2>3, <1>5, ListMembers
<1>. QED
  BY <1>3, <1>5, <1>7

(* A natural number is at most the sum it is part of.                      *)
LEMMA NumbersAreWithin ==
    ASSUME NEW s \in Seq(Nat), NEW i \in 1..Len(s)
    PROVE  s[i] <= SumOf(s)
<1>1. i \in 0..Len(s) /\ i - 1 \in 0..Len(s) /\ i # 0
  OBVIOUS
<1>2. PartialSums(s)[i] = PartialSums(s)[i - 1] + s[i]
  BY <1>1, PartialSumsDef
<1>3. PartialSums(s)[i - 1] \in Nat /\ PartialSums(s)[i] <= SumOf(s) /\ SumOf(s) \in Nat
  BY <1>1, SumsAreNumbers, SumsAreWithin DEF SumOf
<1>4. s[i] \in Nat
  OBVIOUS
<1>. QED
  BY <1>2, <1>3, <1>4

(* The lists of a heap.                                                    *)
HasLists(heap) ==
    /\ IsList(heap.bySize) /\ IsList(heap.byCount) /\ IsList(heap.suspects)
    /\ \A c \in ToSet(heap.bySize) \cup ToSet(heap.byCount) : heap.table[c][1] \in Nat

(* The largest count of the members of an outer class is a number.         *)
LEMMA CountsAreNumbers ==
    ASSUME NEW heap, HasLists(heap), NEW M \in SUBSET ToSet(heap.bySize \o heap.byCount), M # {}
    PROVE  Max({heap.table[d][1] : d \in M}) \in Nat
<1>. DEFINE shown == heap.bySize \o heap.byCount
            count(d) == heap.table[d][1]
            T == {count(d) : d \in M}
            s == [i \in 1..Len(shown) |-> count(shown[i])]
<1>1. IsList(shown) /\ ToSet(shown) = ToSet(heap.bySize) \cup ToSet(heap.byCount)
  BY JoinedLists DEF HasLists
<1>2. Len(shown) \in Nat /\ \A d \in M : \E i \in 1..Len(shown) : shown[i] = d
  BY <1>1, ListMembers
<1>3. \A d \in M : count(d) \in Nat
  BY <1>1 DEF HasLists
<1>4. \A i \in 1..Len(shown) : count(shown[i]) \in Nat
  <2>1. \A i \in 1..Len(shown) : shown[i] \in ToSet(shown)
    BY <1>1, ListMembers
  <2>. QED
    BY <2>1, <1>1 DEF HasLists
<1>5. s \in Seq(Nat) /\ Len(s) = Len(shown)
  <2>. HIDE DEF count, shown
  <2>. QED
    BY <1>2, <1>4
<1>6. ASSUME NEW x \in T
      PROVE  \E i \in 1..Len(s) : s[i] = x
  <2>1. PICK d \in M : x = count(d)
    OBVIOUS
  <2>2. PICK i \in 1..Len(shown) : shown[i] = d
    BY <1>2
  <2>3. i \in 1..Len(s) /\ s[i] = x
    BY <2>1, <2>2, <1>5
  <2>. QED
    BY <2>3
<1>7. T \in SUBSET Nat /\ T # {}
  BY <1>3
<1>. HIDE DEF T, s
<1>8. SumOf(s) \in Nat /\ \A x \in T : x <= SumOf(s)
  <2>1. SumOf(s) \in Nat
    <3>. HIDE DEF s, shown
    <3>1. Len(s) \in Nat
      BY <1>2, <1>5
    <3>2. Len(s) \in 0..Len(s)
      BY <3>1
    <3>. QED
      BY <3>2, <1>5, SumsAreNumbers DEF SumOf
  <2>2. \A i \in 1..Len(s) : s[i] <= SumOf(s)
    BY <1>5, NumbersAreWithin
  <2>. QED
    BY <2>1, <2>2, <1>6
<1>9. Max(T) \in Nat
  BY <1>7, <1>8, LargestNumber
<1>. QED
  BY <1>9 DEF T, count

(* Entries have counts and flags.                                          *)
AreEntries(es) ==
    /\ Len(es) \in Nat
    /\ \A k \in 1..Len(es) : es[k].count \in Nat /\ es[k].suspect \in BOOLEAN

(* Every class of the application that the heap's lists or its suspects    *)
(* name is a class of interest.                                            *)
LEMMA InterestIsMet ==
    ASSUME NEW heap, NEW code, HasLists(heap)
    PROVE  LET es == HeapClassesOfInterest(heap, code)
               shown == heap.bySize \o heap.byCount
           IN  /\ AreEntries(es)
               /\ \A d \in ToSet(shown) \cup ToSet(heap.suspects) :
                      OuterOf[d] \in Application => \E k \in 1..Len(es) : es[k].class = OuterOf[d]
<1>. DEFINE shown == heap.bySize \o heap.byCount
            Inner(c) == {d \in ToSet(shown) : OuterOf[d] = c}
            Entry(c) == [class |-> c,
                         count |-> IF Inner(c) = {} THEN 0
                                   ELSE Max({heap.table[d][1] : d \in Inner(c)}),
                         suspect |-> c \in ToSet(OutersOf(code, heap.suspects))]
            met == OutersOf(code, shown) \o OutersOf(code, heap.suspects)
            cs == Uniquely(met)
            es == [i \in DOMAIN cs |-> Entry(cs[i])]
<1>1. HeapClassesOfInterest(heap, code) = es
  BY DEF HeapClassesOfInterest
<1>2. IsList(shown) /\ IsList(heap.suspects)
  BY JoinedLists DEF HasLists
<1>3. /\ IsList(OutersOf(code, shown)) /\ IsList(OutersOf(code, heap.suspects))
      /\ \A d \in ToSet(shown) \cup ToSet(heap.suspects) : OuterOf[d] \in Application =>
             OuterOf[d] \in ToSet(OutersOf(code, shown)) \cup ToSet(OutersOf(code, heap.suspects))
  <2>. HIDE DEF shown
  <2>. QED
    BY <1>2, OutersAreKept
<1>4. /\ IsList(met)
      /\ \A d \in ToSet(shown) \cup ToSet(heap.suspects) :
             OuterOf[d] \in Application => OuterOf[d] \in ToSet(met)
  <2>1. ToSet(met) = ToSet(OutersOf(code, shown)) \cup ToSet(OutersOf(code, heap.suspects)) /\ IsList(met)
    BY <1>3, JoinedLists
  <2>. HIDE DEF shown, met
  <2>. QED
    BY <1>3, <2>1
<1>5. /\ Len(cs) \in Nat /\ DOMAIN cs = 1..Len(cs)
      /\ \A i \in 1..Len(met) : \E k \in 1..Len(cs) : cs[k] = met[i]
  <2>. HIDE DEF met
  <2>. QED
    BY <1>4, UniquelyKeeps, ListMembers
<1>6. \A c : Inner(c) # {} => Max({heap.table[d][1] : d \in Inner(c)}) \in Nat
  <2>1. ASSUME NEW c, Inner(c) # {}
        PROVE  Max({heap.table[d][1] : d \in Inner(c)}) \in Nat
    <3>1. Inner(c) \in SUBSET ToSet(heap.bySize \o heap.byCount)
      OBVIOUS
    <3>. HIDE DEF Inner
    <3>. QED
      BY <2>1, <3>1, CountsAreNumbers
  <2>. HIDE DEF Inner
  <2>. QED
    BY <2>1
<1>7. \A c : Entry(c).class = c /\ Entry(c).count \in Nat /\ Entry(c).suspect \in BOOLEAN
  <2>. HIDE DEF Inner
  <2>. QED
    BY <1>6
<1>. HIDE DEF Entry, cs
<1>8. Len(es) = Len(cs) /\ DOMAIN es = 1..Len(cs) /\ \A k \in 1..Len(cs) : es[k] = Entry(cs[k])
  BY <1>5
<1>. HIDE DEF es, met, shown
<1>9. ASSUME NEW d \in ToSet(shown) \cup ToSet(heap.suspects), OuterOf[d] \in Application
      PROVE  \E k \in 1..Len(es) : es[k].class = OuterOf[d]
  <2>1. PICK i \in 1..Len(met) : met[i] = OuterOf[d]
    BY <1>4, <1>9, ListMembers
  <2>2. PICK k \in 1..Len(cs) : cs[k] = OuterOf[d]
    BY <2>1, <1>5
  <2>3. k \in 1..Len(es) /\ es[k].class = OuterOf[d]
    BY <2>2, <1>8, <1>7
  <2>. QED
    BY <2>3
<1>10. \A k \in 1..Len(es) : es[k].count \in Nat /\ es[k].suspect \in BOOLEAN
  BY <1>7, <1>8
<1>11. Len(es) \in Nat /\ DOMAIN es = 1..Len(es)
  BY <1>5, <1>8
<1>. QED
  BY <1>1, <1>9, <1>10, <1>11 DEF shown, AreEntries

(* Sorting the classes of interest keeps them.                             *)
LEMMA EntriesAreKept ==
    ASSUME NEW es, AreEntries(es)
    PROVE  /\ Len(StableSort(es, Precedes)) = Len(es)
           /\ SameMembers(es, StableSort(es, Precedes), Len(es))
<1>. DEFINE n == Len(es)
            L == {p \in (1..n) \X (1..n) : Precedes(es[p[1]], es[p[2]])}
            R == {p \in (1..n) \X (1..n) :
                     <<p[1], p[2]>> \in L \/ (<<p[2], p[1]>> \notin L /\ p[1] < p[2])}
<1>0. n \in Nat /\ \A i \in 1..n : es[i].count \in Nat /\ es[i].suspect \in BOOLEAN
  BY DEF AreEntries
<1>1. \A i, j \in 1..n : <<i, j>> \in L <=> Precedes(es[i], es[j])
  OBVIOUS
<1>2. \A i, j \in 1..n : <<i, j>> \in L => <<j, i>> \notin L
  BY <1>0, <1>1 DEF Precedes
<1>3. \A i, j, k \in 1..n : <<i, j>> \in L /\ <<j, k>> \in L => <<i, k>> \in L
  BY <1>0, <1>1 DEF Precedes
<1>4. \A i, j, k \in 1..n : <<i, j>> \in L => <<i, k>> \in L \/ <<k, j>> \in L
  BY <1>0, <1>1 DEF Precedes
<1>5. R = Sooner(es, Precedes)
  BY <1>1 DEF Sooner
<1>. HIDE DEF L
<1>6. Orders(R, 1..n)
  BY <1>0, <1>2, <1>3, <1>4, SortedOrders
<1>. HIDE DEF R
<1>7. StableSort(es, Precedes) = SortedBy(es, n, R)
  BY <1>5 DEF StableSort, SortedBy
<1>. HIDE DEF n
<1>8. n \in Nat
  BY <1>0
<1>9. Orders(R, 1..n)
  BY <1>6
<1>10. Len(SortedBy(es, n, R)) = n
  BY <1>8, <1>9, SortedAreKept
<1>11. SameMembers(es, SortedBy(es, n, R), n)
  BY <1>8, <1>9, SortedAreKept
<1>. QED
  BY <1>7, <1>10, <1>11 DEF n

(* The frames that a dump prints.                                          *)
HasStacks(thread) ==
    IsList(thread.threads) /\ \A u \in ToSet(thread.threads) : IsList(u.stack)

(* A class of interest that a thread executes is matched.                  *)
LEMMA ExecutedAreMatched ==
    ASSUME NEW heap, NEW thread, NEW code, HasLists(heap), HasStacks(thread),
           NEW d \in ToSet(heap.bySize \o heap.byCount) \cup ToSet(heap.suspects),
           OuterOf[d] \in Application,
           NEW t \in ToSet(thread.threads), NEW i \in DOMAIN t.stack,
           OuterOf[t.stack[i][1]] = OuterOf[d]
    PROVE  Matches(heap, thread, code) # <<>>
<1>. DEFINE es == HeapClassesOfInterest(heap, code)
            entries == StableSort(es, Precedes)
            Direct(k) == Executing(thread, entries[k].class)
            unmet == {k \in 1..Len(entries) : Direct(k) = <<>>}
            searched == {k \in unmet : HasSource(code) /\ Cardinality({j \in unmet : j < k}) < Budget}
            Hits(k) == IF k \in searched THEN Allocating(thread, entries[k].class, code) ELSE Direct(k)
            S == {k \in 1..Len(entries) : Hits(k) # <<>>}
            matched == Ascending(S)
            m == IF Len(matched) < MaxMatched THEN Len(matched) ELSE MaxMatched
<1>1. AreEntries(es) /\ \E k \in 1..Len(es) : es[k].class = OuterOf[d]
  BY InterestIsMet
<1>2. Len(entries) = Len(es) /\ SameMembers(es, entries, Len(es)) /\ Len(es) \in Nat
  <2>. HIDE DEF es
  <2>. QED
    BY <1>1, EntriesAreKept DEF AreEntries
<1>3. PICK k \in 1..Len(entries) : entries[k].class = OuterOf[d]
  <2>. HIDE DEF es, entries
  <2>1. PICK k \in 1..Len(es) : es[k].class = OuterOf[d]
    BY <1>1
  <2>2. PICK j \in 1..Len(es) : entries[j] = es[k]
    BY <2>1, <1>2 DEF SameMembers
  <2>3. j \in 1..Len(entries) /\ entries[j].class = OuterOf[d]
    BY <2>1, <2>2, <1>2
  <2>. QED
    BY <2>3
<1>4. Direct(k) # <<>>
  <2>. HIDE DEF entries
  <2>. QED
    BY <1>3, ExecutingIsFound DEF HasStacks
<1>5. k \in S
  <2>1. k \notin unmet
    BY <1>4
  <2>2. Hits(k) = Direct(k)
    BY <2>1
  <2>3. Hits(k) # <<>>
    BY <2>2, <1>4
  <2>. HIDE DEF entries, Hits
  <2>. QED
    BY <1>3, <2>3
<1>6. S \in SUBSET (1..Len(entries)) /\ Len(entries) \in Nat
  <2>1. S \in SUBSET (1..Len(entries))
    OBVIOUS
  <2>. HIDE DEF S, entries, es
  <2>. QED
    BY <2>1, <1>2
<1>7. Len(matched) \in Nat \ {0}
  <2>. HIDE DEF S, entries
  <2>1. Len(Ascending(S)) \in Nat
    BY <1>6, KeptInOrder, Zenon
  <2>2. \E j \in 1..Len(Ascending(S)) : Ascending(S)[j] = k
    BY <1>5, <1>6, KeptInOrder, Zenon
  <2>. QED
    BY <2>1, <2>2
<1>8. m \in Nat \ {0}
  <2>. HIDE DEF matched
  <2>. QED
    BY <1>7, LimitsAssumption
<1>9. Matches(heap, thread, code) =
        [j \in 1..m |->
            LET p == matched[j]
            IN  [severity |-> Warn, class |-> entries[p].class,
                 kind |-> IF p \in searched THEN "allocating" ELSE "executing",
                 best |-> BestFrame(Hits(p)), threads |-> {h.thread : h \in ToSet(Hits(p))}]]
  BY DEF Matches, MatchesOf
<1>10. DOMAIN Matches(heap, thread, code) = 1..m
  <2>. HIDE DEF m, matched, entries, Hits, searched
  <2>. QED
    BY <1>9
<1>. HIDE DEF m
<1>. QED
  BY <1>8, <1>10

(* The captures of a question about several.                               *)
LEMMA JointCaptures ==
    ASSUME question \in Questions, question.ask \in {"correlate", "incident"}
    PROVE  HasLists(question.first) /\ HasStacks(question.second)
  BY JointAssumption DEF HasLists, HasStacks

(* No class of the heap's lists and suspects runs.                         *)
NothingRuns(heap, thread) ==
    LET ours == {OuterOf[c] : c \in ToSet(heap.bySize \o heap.byCount \o heap.suspects)} \cap Application
    IN  \A t \in ToSet(thread.threads) : \A i \in DOMAIN t.stack :
            OuterOf[t.stack[i][1]] \notin ours

(* Without an overlap nothing of the heap runs.                            *)
LEMMA NoneAreExecuted ==
    ASSUME NEW heap, NEW thread, NEW code, HasLists(heap), HasStacks(thread),
           Matches(heap, thread, code) = <<>>
    PROVE  NothingRuns(heap, thread)
<1>. DEFINE shown == heap.bySize \o heap.byCount
<1>1. ToSet(shown \o heap.suspects) = ToSet(shown) \cup ToSet(heap.suspects)
  <2>1. IsList(shown)
    BY JoinedLists DEF HasLists
  <2>. HIDE DEF shown
  <2>. QED
    BY <2>1, JoinedLists DEF HasLists
<1>2. SUFFICES ASSUME NEW t \in ToSet(thread.threads), NEW i \in DOMAIN t.stack,
                      NEW d \in ToSet(shown \o heap.suspects),
                      OuterOf[d] \in Application, OuterOf[t.stack[i][1]] = OuterOf[d]
               PROVE  FALSE
  BY DEF NothingRuns
<1>. QED
  BY <1>1, <1>2, ExecutedAreMatched

(* That two captures differ is so in either order, and none differs from   *)
(* itself.                                                                 *)
LEMMA DifferBothWays ==
    ASSUME NEW a, NEW b
    PROVE  (Differ(a, b) <=> Differ(b, a)) /\ ~Differ(a, a)
  BY DEF Differ, Known2

(* Only captures that do not differ are compatible.                        *)
LEMMA CompatibleAgree ==
    ASSUME NEW a, NEW b, Compatible(a, b, FALSE)
    PROVE  ~Differ(a, b)
  BY DEF Compatible

(* In each group nothing differs.                                          *)
AllAgree(groups) == \A group \in groups : \A a, b \in group : ~Differ(a, b)

(* Compatible captures make a group of which none differ.                  *)
LEMMA PairAgrees ==
    ASSUME NEW a, NEW b, Compatible(a, b, FALSE)
    PROVE  \A x, y \in {a, b} : ~Differ(x, y)
<1>1. ~Differ(a, b) /\ ~Differ(b, a) /\ ~Differ(a, a) /\ ~Differ(b, b)
  BY CompatibleAgree, DifferBothWays
<1>. QED
  BY <1>1

(* What a correlation says of its captures.                                *)
LEMMA Correlated ==
    ASSUME NEW heap, NEW thread, NEW gc, NEW code
    PROVE  LET c == Correlation(heap, thread, gc, code)
           IN  /\ c.status \in {"incompatible", "correlated"}
               /\ c.status = "correlated" => AllAgree(c.joined)
               /\ c.overlap = "none" => c.found = <<>> /\ c.found = Matches(heap, thread, code)
<1>. DEFINE found == Matches(heap, thread, code)
            gcJoins == gc # NoGc /\ Compatible(heap, gc, FALSE)
            gcTold == \/ gc # NoGc /\ ~gcJoins
                      \/ gcJoins /\ gc.rising
                      \/ gc = NoGc /\ thread.busyGc
            joined == {{heap, thread}} \cup (IF gcJoins THEN {{heap, gc}} ELSE {})
            c == Correlation(heap, thread, gc, code)
<1>1. CASE ~Compatible(heap, thread, FALSE)
  <2>1. c = [status |-> "incompatible", found |-> <<>>, joined |-> {}, overlap |-> "unknown"]
    BY <1>1 DEF Correlation
  <2>. HIDE DEF c
  <2>2. c.status = "incompatible" /\ c.overlap = "unknown"
    BY <2>1
  <2>. QED
    BY <2>2 DEF c
<1>2. CASE Compatible(heap, thread, FALSE)
  <2>1. c = [status |-> "correlated", found |-> found, joined |-> joined,
             overlap |-> IF found = <<>> /\ ~gcTold THEN "none" ELSE "told"]
    BY <1>2 DEF Correlation
  <2>2. AllAgree(joined)
    <3>1. \A a, b \in {heap, thread} : ~Differ(a, b)
      BY <1>2, PairAgrees
    <3>2. ASSUME gcJoins
          PROVE  \A a, b \in {heap, gc} : ~Differ(a, b)
      BY <3>2, PairAgrees
    <3>. QED
      BY <3>1, <3>2 DEF AllAgree
  <2>. HIDE DEF c, joined, found, gcTold
  <2>3. /\ c.status = "correlated" /\ c.joined = joined /\ c.found = found
        /\ c.overlap = "none" => found = <<>>
    BY <2>1
  <2>. QED
    BY <2>2, <2>3 DEF c, found
<1>. QED
  BY <1>1, <1>2

(* Evidence of captures belongs together when they are correlated ...      *)
LEMMA CorrelateKeepsApart ==
    ASSUME question \in Questions, Correlate
    PROVE  EvidenceBelongsTogether'
<1>. DEFINE heap == question.first
            thread == question.second
            c == Correlation(heap, thread, question.gc, question.code)
<1>1. answer' = c /\ question' = question
  BY DEF Correlate
<1>2. /\ c.status = "correlated" => AllAgree(c.joined)
      /\ c.overlap = "none" => Matches(heap, thread, question.code) = <<>>
  <2>. HIDE DEF heap, thread
  <2>. QED
    BY Correlated
<1>3. c.status # "completed"
  <2>. HIDE DEF heap, thread
  <2>. QED
    BY Correlated
<1>4. HasLists(heap) /\ HasStacks(thread)
  BY JointCaptures DEF Correlate
<1>. HIDE DEF c
<1>5. NoMixedEvidence'
  BY <1>1, <1>2, <1>3 DEF NoMixedEvidence, AllAgree
<1>6. ASSUME c.overlap = "none"
      PROVE  NoOverlapMeansNone'
  <2>. HIDE DEF heap, thread
  <2>1. NothingRuns(heap, thread)
    BY <1>2, <1>4, <1>6, NoneAreExecuted
  <2>. QED
    BY <1>1, <2>1 DEF NoOverlapMeansNone, NothingRuns, heap, thread
<1>7. NoOverlapMeansNone'
  BY <1>1, <1>6 DEF NoOverlapMeansNone
<1>. QED
  BY <1>5, <1>7 DEF EvidenceBelongsTogether

(* ... and when they are read with a server log.                           *)
LEMMA IncidentKeepsApart ==
    ASSUME question \in Questions, Incident
    PROVE  EvidenceBelongsTogether'
<1>. DEFINE heap == question.first
            thread == question.second
            journal == question.log
            all == {heap, thread, question.gc} \ {NoGc}
            c == Correlation(heap, thread, question.gc, question.code)
<1>1. /\ question' = question
      /\ answer' = IF Conflicts(journal, all)
                   THEN [status |-> "incompatible", found |-> <<>>, joined |-> {}, overlap |-> "unknown"]
                   ELSE [c EXCEPT !.status = "completed", !.joined = {all \cup {journal}}]
  BY DEF Incident
<1>2. CASE Conflicts(journal, all)
  <2>1. answer'.status = "incompatible"
    BY <1>1, <1>2
  <2>. QED
    BY <2>1 DEF EvidenceBelongsTogether, NoMixedEvidence, NoOverlapMeansNone
<1>3. CASE ~Conflicts(journal, all)
  <2>1. \A a, b \in all \cup {journal} : ~Differ(a, b)
    <3>. HIDE DEF all, journal
    <3>. QED
      BY <1>3, DifferBothWays DEF Conflicts
  <2>2. c = [status |-> c.status, found |-> c.found, joined |-> c.joined, overlap |-> c.overlap]
    BY DEF Correlation
  <2>3. answer' = [c EXCEPT !.status = "completed", !.joined = {all \cup {journal}}]
    BY <1>1, <1>3
  <2>4. c.overlap = "none" => Matches(heap, thread, question.code) = <<>>
    <3>. HIDE DEF heap, thread
    <3>. QED
      BY Correlated
  <2>5. answer'.joined = {all \cup {journal}} /\ answer'.overlap = c.overlap
    <3>. HIDE DEF c, all, journal
    <3>. QED
      BY <2>2, <2>3
  <2>6. HasLists(heap) /\ HasStacks(thread)
    BY JointCaptures DEF Incident
  <2>. HIDE DEF c
  <2>7. NoMixedEvidence'
    BY <2>1, <2>5 DEF NoMixedEvidence
  <2>8. ASSUME c.overlap = "none"
        PROVE  NoOverlapMeansNone'
    <3>. HIDE DEF heap, thread
    <3>1. NothingRuns(heap, thread)
      BY <2>4, <2>6, <2>8, NoneAreExecuted
    <3>. QED
      BY <1>1, <3>1 DEF NoOverlapMeansNone, NothingRuns, heap, thread
  <2>9. NoOverlapMeansNone'
    BY <2>5, <2>8 DEF NoOverlapMeansNone
  <2>. QED
    BY <2>7, <2>9 DEF EvidenceBelongsTogether
<1>. QED
  BY <1>2, <1>3

-----------------------------------------------------------------------------
(* Captures: two heaps of one process.                                     *)

(* An enumeration of a finite set has each member once.                    *)
LEMMA OrderOfAll ==
    ASSUME NEW S, IsFiniteSet(S), NEW order \in SetToSeqs(S)
    PROVE  /\ Cardinality(S) \in Nat /\ Len(order) = Cardinality(S)
           /\ order \in [1..Cardinality(S) -> S] /\ order \in Injection(1..Cardinality(S), S)
           /\ order \in Surjection(1..Cardinality(S), S)
<1>. DEFINE n == Cardinality(S)
<1>1. n \in Nat
  BY FS_CardinalityType
<1>2. order \in [1..n -> S] /\ \A i, j \in 1..n : i # j => order[i] # order[j]
  BY DEF SetToSeqs
<1>. HIDE DEF n
<1>3. order \in Injection(1..n, S)
  BY <1>2 DEF Injection, IsInjective
<1>4. Cardinality(1..n) = n
  BY <1>1, FS_Interval
<1>5. order \in Surjection(1..n, S)
  BY <1>3, <1>4, FS_Injection DEF n
<1>6. Len(order) = n
  BY <1>1, <1>2
<1>. QED
  BY <1>1, <1>2, <1>3, <1>5, <1>6 DEF n

(* The bytes of the first m of some things, each of a size of its own.     *)
Blocks(order, size, m) == UNION {{order[i]} \X (1..size[i]) : i \in 1..m}

(* Things that are different have different bytes.                         *)
LEMMA BlocksAreDifferent ==
    ASSUME NEW n \in Nat, NEW T, NEW order \in Injection(1..n, T),
           NEW size \in [1..n -> Nat], NEW m \in Nat, m + 1 <= n
    PROVE  /\ Blocks(order, size, m + 1) = Blocks(order, size, m) \cup ({order[m + 1]} \X (1..size[m + 1]))
           /\ Blocks(order, size, m) \cap ({order[m + 1]} \X (1..size[m + 1])) = {}
<1>1. 1..(m + 1) = (1..m) \cup {m + 1}
  OBVIOUS
<1>2. Blocks(order, size, m + 1) = Blocks(order, size, m) \cup ({order[m + 1]} \X (1..size[m + 1]))
  BY <1>1 DEF Blocks
<1>3. \A i \in 1..m : order[i] # order[m + 1]
  BY DEF Injection, IsInjective
<1>4. ASSUME NEW x \in Blocks(order, size, m), x \in {order[m + 1]} \X (1..size[m + 1])
      PROVE  FALSE
  <2>1. PICK i \in 1..m : x \in {order[i]} \X (1..size[i])
    BY DEF Blocks
  <2>2. x[1] = order[i] /\ x[1] = order[m + 1]
    BY <2>1, <1>4
  <2>. QED
    BY <2>2, <1>3
<1>. QED
  BY <1>2, <1>4

(* The bytes of one thing. *)
LEMMA OneBlock ==
    ASSUME NEW x, NEW w \in Nat
    PROVE  IsFiniteSet({x} \X (1..w)) /\ Cardinality({x} \X (1..w)) = w
<1>1. IsFiniteSet(1..w) /\ Cardinality(1..w) = w
  BY FS_Interval
<1>2. IsFiniteSet({x}) /\ Cardinality({x}) = 1
  BY FS_Singleton
<1>3. IsFiniteSet({x} \X (1..w)) /\ Cardinality({x} \X (1..w)) = Cardinality({x}) * Cardinality(1..w)
  BY <1>1, <1>2, FS_Product
<1>. QED
  BY <1>1, <1>2, <1>3

(* Sets that share nothing count together. *)
LEMMA DisjointCount ==
    ASSUME NEW B, NEW C, IsFiniteSet(B), IsFiniteSet(C), B \cap C = {}
    PROVE  IsFiniteSet(B \cup C) /\ Cardinality(B \cup C) = Cardinality(B) + Cardinality(C)
<1>1. IsFiniteSet(B \cup C) /\ Cardinality(B \cup C) = Cardinality(B) + Cardinality(C) - Cardinality(B \cap C)
  BY FS_Union
<1>2. Cardinality(B \cap C) = 0
  BY FS_EmptySet
<1>3. Cardinality(B) \in Nat /\ Cardinality(C) \in Nat
  BY FS_CardinalityType
<1>. QED
  BY <1>1, <1>2, <1>3

(* There are as many bytes as the sizes add up to.                         *)
LEMMA BlocksAddUp ==
    ASSUME NEW n \in Nat, NEW T, NEW order \in Injection(1..n, T), NEW size \in [1..n -> Nat]
    PROVE  /\ IsFiniteSet(Blocks(order, size, n))
           /\ Cardinality(Blocks(order, size, n)) = SumOf(size)
<1>. DEFINE Right(m) == /\ IsFiniteSet(Blocks(order, size, m))
                        /\ Cardinality(Blocks(order, size, m)) = PartialSums(size)[m]
            S == {m \in Nat : m <= n => Right(m)}
<1>1. size \in Seq(Nat) /\ Len(size) = n
  OBVIOUS
<1>2. 0 \in S
  <2>1. Blocks(order, size, 0) = {}
    BY DEF Blocks
  <2>2. 0 \in 0..Len(size) /\ PartialSums(size)[0] = 0
    BY <1>1, PartialSumsDef
  <2>. QED
    BY <2>1, <2>2, FS_EmptySet
<1>3. ASSUME NEW m \in S
      PROVE  m + 1 \in S
  <2>1. SUFFICES ASSUME m + 1 <= n
                 PROVE  Right(m + 1)
    OBVIOUS
  <2>. DEFINE B == Blocks(order, size, m)
              C == {order[m + 1]} \X (1..size[m + 1])
  <2>2. IsFiniteSet(B) /\ Cardinality(B) = PartialSums(size)[m]
    BY <2>1
  <2>3. IsFiniteSet(C) /\ Cardinality(C) = size[m + 1]
    <3>1. size[m + 1] \in Nat
      BY <2>1
    <3>. QED
      BY <3>1, OneBlock
  <2>4. Blocks(order, size, m + 1) = B \cup C /\ B \cap C = {}
    BY <2>1, BlocksAreDifferent
  <2>5. PartialSums(size)[m + 1] = PartialSums(size)[m] + size[m + 1] /\ PartialSums(size)[m] \in Nat
    <3>1. m + 1 \in 0..Len(size) /\ m + 1 # 0 /\ m \in 0..Len(size) /\ (m + 1) - 1 = m
      BY <1>1, <2>1
    <3>. QED
      BY <3>1, <1>1, PartialSumsDef, SumsAreNumbers
  <2>6. size[m + 1] \in Nat
    BY <2>1
  <2>. HIDE DEF B, C
  <2>7. IsFiniteSet(B \cup C) /\ Cardinality(B \cup C) = Cardinality(B) + Cardinality(C)
    BY <2>2, <2>3, <2>4, DisjointCount
  <2>8. IsFiniteSet(Blocks(order, size, m + 1)) /\ Cardinality(Blocks(order, size, m + 1)) = Cardinality(B) + Cardinality(C)
    BY <2>4, <2>7
  <2>. QED
    BY <2>2, <2>3, <2>5, <2>8
<1>. HIDE DEF S
<1>4. S \in SUBSET Nat /\ \A m \in S : m + 1 \in S
  BY <1>3 DEF S
<1>5. S = Nat
  BY <1>2, <1>4, Induction
<1>6. Right(n)
  BY <1>5 DEF S
<1>. QED
  BY <1>1, <1>6 DEF SumOf

(* s has k times the numbers of size.                                      *)
AreMultiples(s, size, n, k) == s = [i \in 1..n |-> k * size[i]]

(* A sum of multiples is the multiple of the sum.                          *)
LEMMA SumOfMultiples ==
    ASSUME NEW n \in Nat, NEW k \in Nat, NEW size \in [1..n -> Nat], NEW s \in [1..n -> Nat],
           AreMultiples(s, size, n, k)
    PROVE  SumOf(s) = k * SumOf(size) /\ SumOf(size) \in Nat
<1>. DEFINE S == {m \in Nat : m <= n => PartialSums(s)[m] = k * PartialSums(size)[m]}
<1>1. size \in Seq(Nat) /\ Len(size) = n /\ s \in Seq(Nat) /\ Len(s) = n
  OBVIOUS
<1>2. 0 \in S
  <2>1. 0 \in 0..n
    OBVIOUS
  <2>2. PartialSums(size)[0] = 0 /\ PartialSums(s)[0] = 0
    BY <1>1, <2>1, PartialSumsDef
  <2>. QED
    BY <2>2
<1>3. ASSUME NEW m \in S
      PROVE  m + 1 \in S
  <2>1. SUFFICES ASSUME m + 1 <= n
                 PROVE  PartialSums(s)[m + 1] = k * PartialSums(size)[m + 1]
    OBVIOUS
  <2>2. m + 1 \in 0..n /\ m + 1 # 0 /\ m \in 0..n /\ (m + 1) - 1 = m
    BY <2>1
  <2>3. /\ PartialSums(size)[m + 1] = PartialSums(size)[m] + size[m + 1]
        /\ PartialSums(s)[m + 1] = PartialSums(s)[m] + s[m + 1]
        /\ PartialSums(size)[m] \in Nat /\ PartialSums(s)[m] \in Nat
    BY <2>2, <1>1, PartialSumsDef, SumsAreNumbers
  <2>4. s[m + 1] = k * size[m + 1] /\ size[m + 1] \in Nat
    BY <2>1 DEF AreMultiples
  <2>5. PartialSums(s)[m] = k * PartialSums(size)[m]
    BY <2>1
  <2>6. \A a, b \in Nat : k * (a + b) = k * a + k * b
    OBVIOUS
  <2>. QED
    BY <2>3, <2>4, <2>5, <2>6
<1>. HIDE DEF S
<1>4. S \in SUBSET Nat /\ \A m \in S : m + 1 \in S
  BY <1>3 DEF S
<1>5. S = Nat
  BY <1>2, <1>4, Induction
<1>6. PartialSums(s)[n] = k * PartialSums(size)[n]
  <2>1. n \in S /\ n <= n
    BY <1>5
  <2>. QED
    BY <2>1 DEF S
<1>7. PartialSums(size)[n] \in Nat
  BY <1>1, SumsAreNumbers
<1>. QED
  BY <1>1, <1>6, <1>7 DEF SumOf

(* A multiple is larger if and only if the number is.                      *)
LEMMA LargerMultiples ==
    ASSUME NEW k \in Nat \ {0}, NEW a \in Nat, NEW b \in Nat
    PROVE  k * a < k * b <=> a < b
<1>1. CASE a < b
  <2>1. b - a \in Nat \ {0} /\ b = a + (b - a)
    BY <1>1
  <2>2. k * b = k * a + k * (b - a)
    BY <2>1
  <2>3. k * (b - a) > 0
    BY <2>1
  <2>. QED
    BY <2>2, <2>3, <1>1
<1>2. CASE ~(a < b)
  <2>1. a - b \in Nat /\ a = b + (a - b)
    BY <1>2
  <2>2. k * a = k * b + k * (a - b)
    BY <2>1
  <2>3. k * (a - b) >= 0
    BY <2>1
  <2>. QED
    BY <2>2, <2>3, <1>2
<1>. QED
  BY <1>1, <1>2

(* Sorting by a number, the largest first, orders the positions.           *)
LEMMA KeysOrder ==
    ASSUME NEW n \in Nat, NEW key \in [1..n -> Int]
    PROVE  Orders({p \in (1..n) \X (1..n) :
                      \/ key[p[1]] > key[p[2]]
                      \/ ~(key[p[2]] > key[p[1]]) /\ p[1] < p[2]}, 1..n)
<1>. DEFINE R == {p \in (1..n) \X (1..n) :
                      \/ key[p[1]] > key[p[2]]
                      \/ ~(key[p[2]] > key[p[1]]) /\ p[1] < p[2]}
<1>1. \A i, j \in 1..n : <<i, j>> \in R <=> (key[i] > key[j] \/ (~(key[j] > key[i]) /\ i < j))
  OBVIOUS
<1>2. \A i \in 1..n : key[i] \in Int
  OBVIOUS
<1>. HIDE DEF R
<1>3. Orders(R, 1..n)
  BY <1>1, <1>2 DEF Orders
<1>. QED
  BY <1>3 DEF R

(* The elements of t are elements of s.                                    *)
AllFrom(t, s) == \A k \in 1..Len(t) : \E i \in 1..Len(s) : t[k] = s[i]

(* The first w elements of s in the order of R.                            *)
TopOf(s, n, R, w) == SubSeq(SortedBy(s, n, R), 1, w)

(* The first elements of a sorted list are elements of the list.           *)
LEMMA FirstOfSorted ==
    ASSUME NEW s, NEW n \in Nat, Len(s) = n, NEW R, Orders(R, 1..n), NEW w \in 0..n
    PROVE  IsList(TopOf(s, n, R, w)) /\ Len(TopOf(s, n, R, w)) = w /\ AllFrom(TopOf(s, n, R, w), s)
<1>. DEFINE u == SortedBy(s, n, R)
            t == TopOf(s, n, R, w)
<1>1. Len(u) = n /\ DOMAIN u = 1..n
  BY SortedAreKept
<1>2. SameMembers(s, u, n)
  BY SortedAreKept
<1>3. u = [k \in 1..n |-> u[k]]
  BY DEF SortedBy
<1>. HIDE DEF u
<1>4. \A k \in 1..n : u[k] \in ToSet(u)
  BY <1>1 DEF ToSet
<1>5. u \in Seq(ToSet(u))
  BY <1>3, <1>4
<1>6. t \in Seq(ToSet(u)) /\ Len(t) = w /\ \A k \in 1..w : t[k] = u[k]
  <2>1. t = SubSeq(u, 1, w)
    BY DEF TopOf, u
  <2>. HIDE DEF t
  <2>. QED
    BY <1>1, <1>5, <2>1
<1>. HIDE DEF t
<1>7. t \in Seq(ToSet(t))
  <2>0. DOMAIN t = 1..Len(t) /\ t = [k \in 1..Len(t) |-> t[k]] /\ Len(t) \in Nat
    BY <1>6
  <2>1. \A k \in 1..Len(t) : t[k] \in ToSet(t)
    BY <2>0 DEF ToSet
  <2>2. \A T : (\A k \in 1..Len(t) : t[k] \in T) => t \in Seq(T)
    BY <2>0
  <2>. QED
    BY <2>1, <2>2
<1>8. ASSUME NEW k \in 1..Len(t)
      PROVE  \E i \in 1..Len(s) : t[k] = s[i]
  <2>1. k \in 1..n /\ t[k] = u[k]
    BY <1>6
  <2>2. \E i \in 1..n : u[k] = s[i]
    BY <2>1, <1>2, Zenon DEF SameMembers
  <2>3. PICK i \in 1..n : u[k] = s[i]
    BY <2>2
  <2>4. i \in 1..Len(s) /\ t[k] = s[i]
    BY <2>1, <2>3
  <2>. QED
    BY <2>4
<1>. QED
  BY <1>6, <1>7, <1>8 DEF IsList, AllFrom, t

(* The lists of a comparison: the first m by growth, and by bytes.         *)
ByGrowth(m, s) == FirstBy(m, s, LAMBDA d : d.bytes)
ByBytes(m, s) == FirstBy(m, s, LAMBDA d : d.after)
AreDeltas(s) == Len(s) \in Nat /\ \A i \in 1..Len(s) : s[i].bytes \in Int /\ s[i].after \in Int

(* What is listed by growth is of the deltas, as much as fits.             *)
LEMMA ByGrowthIsFrom ==
    ASSUME NEW s, AreDeltas(s), NEW m \in Nat
    PROVE  /\ IsList(ByGrowth(m, s)) /\ AllFrom(ByGrowth(m, s), s)
           /\ Len(ByGrowth(m, s)) = IF Len(s) < m THEN Len(s) ELSE m
<1>. DEFINE n == Len(s)
            key == [i \in 1..n |-> s[i].bytes]
            R == {p \in (1..n) \X (1..n) :
                     \/ key[p[1]] > key[p[2]]
                     \/ ~(key[p[2]] > key[p[1]]) /\ p[1] < p[2]}
            sorted == StableSort(s, LAMBDA d, e : d.bytes > e.bytes)
            w == IF n < m THEN n ELSE m
<1>1. n \in Nat /\ key \in [1..n -> Int]
  BY DEF AreDeltas
<1>2. Orders(R, 1..n)
  <2>. HIDE DEF n, key
  <2>. QED
    BY <1>1, KeysOrder
<1>3. R = Sooner(s, LAMBDA d, e : d.bytes > e.bytes)
  BY DEF Sooner
<1>4. sorted = SortedBy(s, n, R)
  BY <1>3 DEF StableSort, SortedBy
<1>5. Len(SortedBy(s, n, R)) = n
  <2>1. Orders(R, 1..n) /\ n \in Nat
    BY <1>1, <1>2
  <2>. HIDE DEF R, n
  <2>. QED
    BY <2>1, SortedAreKept
<1>6. ByGrowth(m, s) = SubSeq(sorted, 1, IF Len(sorted) < m THEN Len(sorted) ELSE m)
  BY DEF ByGrowth, FirstBy
<1>7. ByGrowth(m, s) = SubSeq(SortedBy(s, n, R), 1, w)
  BY <1>4, <1>5, <1>6
<1>8. w \in Nat /\ w = IF n < m THEN n ELSE m
  BY <1>1
<1>. HIDE DEF R, n, w
<1>9. n \in Nat /\ Orders(R, 1..n) /\ Len(s) = n
  BY <1>1, <1>2 DEF n
<1>10. w \in 0..n
  BY <1>8, <1>9
<1>11. ByGrowth(m, s) = TopOf(s, n, R, w)
  BY <1>7 DEF TopOf
<1>12. IsList(ByGrowth(m, s)) /\ Len(ByGrowth(m, s)) = w /\ AllFrom(ByGrowth(m, s), s)
  BY <1>9, <1>10, <1>11, FirstOfSorted
<1>13. w = IF Len(s) < m THEN Len(s) ELSE m
  BY DEF w, n
<1>. QED
  BY <1>12, <1>13

(* So is what is listed by bytes.                                          *)
LEMMA ByBytesIsFrom ==
    ASSUME NEW s, AreDeltas(s), NEW m \in Nat
    PROVE  /\ IsList(ByBytes(m, s)) /\ AllFrom(ByBytes(m, s), s)
           /\ Len(ByBytes(m, s)) = IF Len(s) < m THEN Len(s) ELSE m
<1>. DEFINE n == Len(s)
            key == [i \in 1..n |-> s[i].after]
            R == {p \in (1..n) \X (1..n) :
                     \/ key[p[1]] > key[p[2]]
                     \/ ~(key[p[2]] > key[p[1]]) /\ p[1] < p[2]}
            sorted == StableSort(s, LAMBDA d, e : d.after > e.after)
            w == IF n < m THEN n ELSE m
<1>1. n \in Nat /\ key \in [1..n -> Int]
  BY DEF AreDeltas
<1>2. Orders(R, 1..n)
  <2>. HIDE DEF n, key
  <2>. QED
    BY <1>1, KeysOrder
<1>3. R = Sooner(s, LAMBDA d, e : d.after > e.after)
  BY DEF Sooner
<1>4. sorted = SortedBy(s, n, R)
  BY <1>3 DEF StableSort, SortedBy
<1>5. Len(SortedBy(s, n, R)) = n
  <2>1. Orders(R, 1..n) /\ n \in Nat
    BY <1>1, <1>2
  <2>. HIDE DEF R, n
  <2>. QED
    BY <2>1, SortedAreKept
<1>6. ByBytes(m, s) = SubSeq(sorted, 1, IF Len(sorted) < m THEN Len(sorted) ELSE m)
  BY DEF ByBytes, FirstBy
<1>7. ByBytes(m, s) = SubSeq(SortedBy(s, n, R), 1, w)
  BY <1>4, <1>5, <1>6
<1>8. w \in Nat /\ w = IF n < m THEN n ELSE m
  BY <1>1
<1>. HIDE DEF R, n, w
<1>9. n \in Nat /\ Orders(R, 1..n) /\ Len(s) = n
  BY <1>1, <1>2 DEF n
<1>10. w \in 0..n
  BY <1>8, <1>9
<1>11. ByBytes(m, s) = TopOf(s, n, R, w)
  BY <1>7 DEF TopOf
<1>12. IsList(ByBytes(m, s)) /\ Len(ByBytes(m, s)) = w /\ AllFrom(ByBytes(m, s), s)
  BY <1>9, <1>10, <1>11, FirstOfSorted
<1>13. w = IF Len(s) < m THEN Len(s) ELSE m
  BY DEF w, n
<1>. QED
  BY <1>12, <1>13

(* What two histograms say of names: before r1 and after r2, times k.      *)
TrueReadings(bi, ai, cs, r1, r2, k) ==
    /\ k \in Nat \ {0} /\ cs \subseteq DOMAIN r1
    /\ \A c \in DOMAIN r1 : r1[c][2] \in Nat /\ r2[c][2] \in Nat
    /\ \A c \in cs : /\ Reading(bi, c)[2] = k * r1[c][2] /\ Reading(ai, c)[2] = k * r2[c][2]
                     /\ c \notin DOMAIN bi => r1[c][2] = 0

(* Nothing but the names holds bytes.                                      *)
AllRead(cs, r1, r2) == \A c \in DOMAIN r1 \ cs : r1[c][2] = 0 /\ r2[c][2] = 0

(* A class that a histogram has is read as it is, one that a complete      *)
(* histogram lacks has no bytes.                                           *)
LEMMA ReadingIsTrue ==
    ASSUME NEW heap, NEW real, NEW k \in Nat \ {0}, IsHistogram(heap, real, k), NEW c \in DOMAIN real,
           real[c] \in Nat \X Nat, real[c][1] = 0 => real[c][2] = 0
    PROVE  /\ c \in DOMAIN ClassIndex(heap) => Reading(ClassIndex(heap), c)[2] = k * real[c][2]
           /\ c \notin DOMAIN ClassIndex(heap) => Reading(ClassIndex(heap), c)[2] = 0
           /\ (heap.complete /\ c \notin DOMAIN ClassIndex(heap)) => real[c][2] = 0
<1>1. \A d \in DOMAIN ClassIndex(heap) : ClassIndex(heap)[d] = heap.table[d]
  BY DEF ClassIndex
<1>2. heap.complete => DOMAIN ClassIndex(heap) = DOMAIN heap.table
  BY DEF ClassIndex
<1>3. c \in DOMAIN ClassIndex(heap) => Reading(ClassIndex(heap), c)[2] = k * real[c][2]
  BY <1>1 DEF Reading, IsHistogram
<1>4. c \notin DOMAIN ClassIndex(heap) => Reading(ClassIndex(heap), c)[2] = 0
  BY DEF Reading
<1>5. ASSUME heap.complete, c \notin DOMAIN ClassIndex(heap)
      PROVE  real[c][2] = 0
  <2>1. real[c][1] \in Nat /\ ~(real[c][1] > 0)
    BY <1>2, <1>5 DEF IsHistogram
  <2>. QED
    BY <2>1
<1>. QED
  BY <1>3, <1>4, <1>5

(* What two heaps that may be compared say is true.                        *)
LEMMA ReadingsAreTrue ==
    ASSUME NEW q \in Questions, q.ask = "heaps", Compatible(q.first, q.second, TRUE),
           NEW complete, complete = (q.first.complete /\ q.second.complete),
           NEW bi, bi = ClassIndex(q.first), NEW ai, ai = ClassIndex(q.second),
           NEW cs, cs = Compared(complete, bi, ai)
    PROVE  /\ TrueReadings(bi, ai, cs, q.real[1], q.real[2], q.scale[1])
           /\ IsFiniteSet(cs)
           /\ complete => AllRead(cs, q.real[1], q.real[2])
           /\ DOMAIN q.real[2] = DOMAIN q.real[1]
<1>. DEFINE r1 == q.real[1]
            r2 == q.real[2]
            k == q.scale[1]
            all == DOMAIN r1
<1>1. ~Partial(q.first) /\ ~Partial(q.second) /\ ~SizingDiffers(q.first, q.second)
  BY DEF Compatible
<1>2. /\ DOMAIN r2 = all /\ IsFiniteSet(all) /\ k \in Nat \ {0} /\ q.scale[2] = k
      /\ IsHistogram(q.first, r1, k) /\ IsHistogram(q.second, r2, k)
  BY <1>1, HeapsAssumption
<1>3. \A c \in all : /\ r1[c] \in Nat \X Nat /\ r2[c] \in Nat \X Nat
                     /\ r1[c][1] = 0 => r1[c][2] = 0
                     /\ r2[c][1] = 0 => r2[c][2] = 0
  <2>1. \A i \in {1, 2} : \A c \in DOMAIN q.real[1] :
            q.real[i][c] \in Nat \X Nat /\ (q.real[i][c][1] = 0 => q.real[i][c][2] = 0)
    BY HeapsAssumption
  <2>. QED
    BY <2>1
<1>. HIDE DEF r1, r2, k
<1>4. DOMAIN bi \subseteq all /\ DOMAIN ai \subseteq all
  BY <1>2 DEF IsHistogram
<1>5. cs \subseteq all
  BY <1>4 DEF Compared
<1>6. ASSUME NEW c \in all
      PROVE  /\ c \in DOMAIN bi => Reading(bi, c)[2] = k * r1[c][2]
             /\ c \notin DOMAIN bi => Reading(bi, c)[2] = 0
             /\ (q.first.complete /\ c \notin DOMAIN bi) => r1[c][2] = 0
             /\ c \in DOMAIN ai => Reading(ai, c)[2] = k * r2[c][2]
             /\ c \notin DOMAIN ai => Reading(ai, c)[2] = 0
             /\ (q.second.complete /\ c \notin DOMAIN ai) => r2[c][2] = 0
  BY <1>2, <1>3, ReadingIsTrue
<1>7. k * 0 = 0
  BY <1>2
<1>8. ASSUME NEW c \in cs
      PROVE  /\ Reading(bi, c)[2] = k * r1[c][2] /\ Reading(ai, c)[2] = k * r2[c][2]
             /\ c \notin DOMAIN bi => r1[c][2] = 0
  <2>1. CASE complete
    BY <2>1, <1>5, <1>6, <1>7
  <2>2. CASE ~complete
    <3>1. c \in DOMAIN bi /\ c \in DOMAIN ai
      BY <2>2 DEF Compared
    <3>. QED
      BY <3>1, <1>5, <1>6
  <2>. QED
    BY <2>1, <2>2
<1>9. complete => AllRead(cs, r1, r2)
  <2>1. ASSUME complete, NEW c \in all \ cs
        PROVE  r1[c][2] = 0 /\ r2[c][2] = 0
    <3>1. c \notin DOMAIN bi /\ c \notin DOMAIN ai
      BY <2>1 DEF Compared
    <3>. QED
      BY <3>1, <2>1, <1>6
  <2>. QED
    BY <2>1 DEF AllRead
<1>10. IsFiniteSet(cs)
  BY <1>2, <1>5, FS_Subset
<1>11. \A c \in all : r1[c][2] \in Nat /\ r2[c][2] \in Nat
  BY <1>3
<1>12. TrueReadings(bi, ai, cs, r1, r2, k)
  BY <1>2, <1>5, <1>8, <1>11 DEF TrueReadings
<1>. QED
  BY <1>2, <1>9, <1>10, <1>12 DEF r1, r2, k

(* A delta of a class that held a bytes and holds b.                       *)
TrueDelta(d, c, a, b) ==
    /\ d.class = c /\ d.bytes \in Int /\ d.after \in Int /\ a \in Nat /\ b \in Nat
    /\ d.bytes > 0 <=> b > a
    /\ (d.new /\ d.after > 0) => a = 0 /\ b > 0

(* There is a true delta of the class at each position.                    *)
TrueDeltas(deltas, order, n, r1, r2) ==
    /\ Len(deltas) = n
    /\ \A i \in 1..n : TrueDelta(deltas[i], order[i], r1[order[i]][2], r2[order[i]][2])

(* A difference of multiples has the sign of the difference.               *)
LEMMA DifferenceIsTrue ==
    ASSUME NEW k \in Nat \ {0}, NEW a \in Nat, NEW b \in Nat, NEW x, NEW y, x = k * a, y = k * b
    PROVE  /\ x \in Nat /\ y \in Nat
           /\ y - x > 0 <=> b > a
           /\ y > 0 <=> b > 0
<1>1. k * a < k * b <=> a < b
  BY LargerMultiples
<1>2. k * 0 < k * b <=> 0 < b
  BY LargerMultiples
<1>3. k * a \in Nat /\ k * b \in Nat /\ k * 0 = 0
  OBVIOUS
<1>. QED
  BY <1>1, <1>2, <1>3

(* The delta of a class of which the readings are true.                    *)
LEMMA DeltaIsTrue ==
    ASSUME NEW bi, NEW ai, NEW c, NEW k \in Nat \ {0}, NEW a \in Nat, NEW b \in Nat,
           Reading(bi, c)[2] = k * a, Reading(ai, c)[2] = k * b, c \notin DOMAIN bi => a = 0
    PROVE  TrueDelta(Delta(bi, ai, c), c, a, b)
<1>. DEFINE d == Delta(bi, ai, c)
            x == Reading(bi, c)[2]
            y == Reading(ai, c)[2]
<1>1. d.class = c /\ d.after = y /\ d.bytes = y - x /\ (d.new = (c \in DOMAIN ai \ DOMAIN bi))
  BY DEF Delta
<1>2. x = k * a /\ y = k * b
  OBVIOUS
<1>. HIDE DEF x, y, d
<1>3. x = k * a /\ y = k * b /\ d.after = y /\ d.bytes = y - x
  BY <1>1, <1>2
<1>4. x \in Nat /\ y \in Nat /\ (y - x > 0 <=> b > a) /\ (y > 0 <=> b > 0)
  BY <1>3, DifferenceIsTrue
<1>5. d.new => a = 0
  BY <1>1
<1>7. d.class = c
  BY <1>1
<1>6. d.bytes \in Int /\ d.after \in Int /\ (d.bytes > 0 <=> b > a) /\ (d.after > 0 <=> b > 0)
  BY <1>3, <1>4
<1>8. TrueDelta(d, c, a, b)
  BY <1>5, <1>6, <1>7 DEF TrueDelta
<1>. QED
  BY <1>8 DEF d

(* The deltas of true readings are true.                                   *)
LEMMA DeltasAreTrue ==
    ASSUME NEW bi, NEW ai, NEW cs, NEW r1, NEW r2, NEW k, TrueReadings(bi, ai, cs, r1, r2, k),
           NEW n \in Nat, NEW order \in [1..n -> cs],
           NEW deltas, deltas = [i \in 1..n |-> Delta(bi, ai, order[i])]
    PROVE  TrueDeltas(deltas, order, n, r1, r2)
<1>1. Len(deltas) = n
  OBVIOUS
<1>2. ASSUME NEW i \in 1..n
      PROVE  TrueDelta(deltas[i], order[i], r1[order[i]][2], r2[order[i]][2])
  <2>1. deltas[i] = Delta(bi, ai, order[i]) /\ order[i] \in cs
    OBVIOUS
  <2>2. /\ k \in Nat \ {0} /\ r1[order[i]][2] \in Nat /\ r2[order[i]][2] \in Nat
        /\ Reading(bi, order[i])[2] = k * r1[order[i]][2]
        /\ Reading(ai, order[i])[2] = k * r2[order[i]][2]
        /\ order[i] \notin DOMAIN bi => r1[order[i]][2] = 0
    BY <2>1 DEF TrueReadings
  <2>3. TrueDelta(Delta(bi, ai, order[i]), order[i], r1[order[i]][2], r2[order[i]][2])
    BY <2>2, DeltaIsTrue
  <2>. QED
    BY <2>1, <2>3
<1>. QED
  BY <1>1, <1>2 DEF TrueDeltas

(* The lists of a comparison, of its deltas.                               *)
GrownAt(deltas) == {i \in 1..Len(deltas) : deltas[i].bytes > 0}
NewAt(deltas) == {i \in 1..Len(deltas) : deltas[i].new /\ deltas[i].after > 0}
GrowersOf(deltas) == ByGrowth(Len(deltas), PickedFrom(deltas, GrownAt(deltas)))
NewOf(deltas) == ByBytes(Listed, PickedFrom(deltas, NewAt(deltas)))
FirstListed(growers) == SubSeq(growers, 1, IF Len(growers) < Listed THEN Len(growers) ELSE Listed)

(* The growers and the new classes that are listed are such.               *)
GrewAsTold(growers, r1, r2) ==
    \A j \in 1..Len(growers) : r2[growers[j].class][2] - r1[growers[j].class][2] > 0
NewAsTold(fresh, r1, r2) ==
    \A j \in 1..Len(fresh) : r1[fresh[j].class][2] = 0 /\ r2[fresh[j].class][2] > 0

(* What is picked from deltas are deltas.                                  *)
LEMMA PickedAreDeltas ==
    ASSUME NEW deltas, NEW order, NEW n \in Nat, NEW r1, NEW r2,
           TrueDeltas(deltas, order, n, r1, r2), NEW S \in SUBSET (1..n)
    PROVE  AreDeltas(PickedFrom(deltas, S))
<1>. DEFINE p == PickedFrom(deltas, S)
<1>1. Len(p) \in Nat /\ \A j \in 1..Len(p) : \E i \in S : p[j] = deltas[i]
  BY PickedAreKept, Zenon
<1>. HIDE DEF p
<1>2. ASSUME NEW j \in 1..Len(p)
      PROVE  p[j].bytes \in Int /\ p[j].after \in Int
  <2>1. PICK i \in S : p[j] = deltas[i]
    BY <1>1, <1>2
  <2>2. TrueDelta(deltas[i], order[i], r1[order[i]][2], r2[order[i]][2])
    BY <2>1 DEF TrueDeltas
  <2>. QED
    BY <2>1, <2>2 DEF TrueDelta
<1>. QED
  BY <1>1, <1>2 DEF AreDeltas, p

(* x is an element of s at one of these positions.                         *)
OneFrom(x, s, S) == \E i \in S : x = s[i]

(* A list from what is picked of s has elements of s at these positions.   *)
LEMMA FromPicked ==
    ASSUME NEW s, NEW n \in Nat, NEW S \in SUBSET (1..n), NEW t, AllFrom(t, PickedFrom(s, S)),
           NEW j \in 1..Len(t)
    PROVE  OneFrom(t[j], s, S)
<1>. DEFINE p == PickedFrom(s, S)
<1>1. \A l \in 1..Len(p) : \E i \in S : p[l] = s[i]
  BY PickedAreKept, Zenon
<1>2. PICK l \in 1..Len(p) : t[j] = p[l]
  BY DEF AllFrom
<1>. HIDE DEF p
<1>3. PICK i \in S : p[l] = s[i]
  BY <1>1, <1>2
<1>. QED
  BY <1>2, <1>3 DEF OneFrom

(* The growers of true deltas grew, and none of them is missing.           *)
LEMMA GrowersGrew ==
    ASSUME NEW deltas, NEW order, NEW n \in Nat, NEW r1, NEW r2, TrueDeltas(deltas, order, n, r1, r2)
    PROVE  /\ IsList(GrowersOf(deltas)) /\ GrewAsTold(GrowersOf(deltas), r1, r2)
           /\ Len(GrowersOf(deltas)) = Cardinality(GrownAt(deltas))
           /\ Cardinality(GrownAt(deltas)) \in Nat
<1>. DEFINE S == GrownAt(deltas)
            p == PickedFrom(deltas, S)
            g == ByGrowth(n, p)
<1>0. Len(deltas) = n
  BY DEF TrueDeltas
<1>1. S \in SUBSET (1..n) /\ \A i \in S : deltas[i].bytes > 0
  BY <1>0 DEF GrownAt
<1>. HIDE DEF S
<1>2. Len(p) = Cardinality(S) /\ IsFiniteSet(S)
  BY <1>1, PickedAreKept, Zenon
<1>3. AreDeltas(p)
  BY <1>1, PickedAreDeltas
<1>4. Cardinality(S) \in Nat /\ Cardinality(S) <= n
  <2>1. IsFiniteSet(1..n) /\ Cardinality(1..n) = n
    BY FS_Interval
  <2>. QED
    BY <1>1, <1>2, <2>1, FS_Subset, FS_CardinalityType
<1>5. g = GrowersOf(deltas)
  BY <1>0 DEF GrowersOf, S
<1>6. IsList(g) /\ AllFrom(g, p) /\ Len(g) = IF Len(p) < n THEN Len(p) ELSE n
  BY <1>3, ByGrowthIsFrom
<1>7. Len(g) = Cardinality(S)
  BY <1>2, <1>4, <1>6
<1>. HIDE DEF g
<1>8. ASSUME NEW j \in 1..Len(g)
      PROVE  r2[g[j].class][2] - r1[g[j].class][2] > 0
  <2>0. AllFrom(g, PickedFrom(deltas, S)) /\ OneFrom(g[j], deltas, S)
    BY <1>1, <1>6, <1>8, FromPicked
  <2>1. PICK i \in S : g[j] = deltas[i]
    BY <2>0 DEF OneFrom
  <2>2. TrueDelta(deltas[i], order[i], r1[order[i]][2], r2[order[i]][2])
    BY <1>1, <2>1 DEF TrueDeltas
  <2>3. deltas[i].class = order[i] /\ r2[order[i]][2] - r1[order[i]][2] > 0
    BY <1>1, <2>1, <2>2 DEF TrueDelta
  <2>. QED
    BY <2>1, <2>3
<1>9. GrewAsTold(g, r1, r2)
  BY <1>8 DEF GrewAsTold
<1>. QED
  BY <1>4, <1>5, <1>6, <1>7, <1>9 DEF S

(* What a list shows of a list that is right is right.                     *)
LEMMA FirstListedAreRight ==
    ASSUME NEW growers, IsList(growers), NEW r1, NEW r2, GrewAsTold(growers, r1, r2)
    PROVE  /\ GrewAsTold(FirstListed(growers), r1, r2)
           /\ Len(FirstListed(growers)) = IF Len(growers) < Listed THEN Len(growers) ELSE Listed
           /\ DOMAIN FirstListed(growers) = 1..Len(FirstListed(growers))
<1>. DEFINE w == IF Len(growers) < Listed THEN Len(growers) ELSE Listed
            T == ToSet(growers)
            t == SubSeq(growers, 1, w)
<1>1. growers \in Seq(T)
  BY DEF IsList
<1>2. Listed \in Nat
  BY LimitsAssumption
<1>. HIDE DEF T
<1>3. Len(growers) \in Nat /\ w \in 0..Len(growers)
  BY <1>1, <1>2
<1>4. w = IF Len(growers) < Listed THEN Len(growers) ELSE Listed
  OBVIOUS
<1>5. t = FirstListed(growers)
  BY DEF FirstListed
<1>. HIDE DEF w
<1>6. Len(t) = w /\ DOMAIN t = 1..w /\ \A j \in 1..w : t[j] = growers[j] /\ j \in 1..Len(growers)
  BY <1>1, <1>3
<1>. HIDE DEF t
<1>7. GrewAsTold(t, r1, r2)
  BY <1>6 DEF GrewAsTold
<1>. QED
  BY <1>4, <1>5, <1>6, <1>7

(* The new classes that are listed are new.                                *)
LEMMA NewAreNew ==
    ASSUME NEW deltas, NEW order, NEW n \in Nat, NEW r1, NEW r2, TrueDeltas(deltas, order, n, r1, r2)
    PROVE  NewAsTold(NewOf(deltas), r1, r2) /\ DOMAIN NewOf(deltas) = 1..Len(NewOf(deltas))
<1>. DEFINE S == NewAt(deltas)
            p == PickedFrom(deltas, S)
            g == ByBytes(Listed, p)
<1>0. Len(deltas) = n /\ Listed \in Nat
  BY LimitsAssumption DEF TrueDeltas
<1>1. S \in SUBSET (1..n) /\ \A i \in S : deltas[i].new /\ deltas[i].after > 0
  BY <1>0 DEF NewAt
<1>. HIDE DEF S
<1>3. AreDeltas(p)
  BY <1>1, PickedAreDeltas
<1>5. g = NewOf(deltas)
  BY DEF NewOf, S
<1>6. IsList(g) /\ AllFrom(g, p)
  BY <1>0, <1>3, ByBytesIsFrom
<1>. HIDE DEF g
<1>7. DOMAIN g = 1..Len(g)
  <2>1. g \in Seq(ToSet(g))
    BY <1>6 DEF IsList
  <2>. QED
    BY <2>1
<1>8. ASSUME NEW j \in 1..Len(g)
      PROVE  r1[g[j].class][2] = 0 /\ r2[g[j].class][2] > 0
  <2>0. AllFrom(g, PickedFrom(deltas, S)) /\ OneFrom(g[j], deltas, S)
    BY <1>1, <1>6, <1>8, FromPicked
  <2>1. PICK i \in S : g[j] = deltas[i]
    BY <2>0 DEF OneFrom
  <2>2. TrueDelta(deltas[i], order[i], r1[order[i]][2], r2[order[i]][2])
    BY <1>1, <2>1 DEF TrueDeltas
  <2>3. deltas[i].class = order[i] /\ r1[order[i]][2] = 0 /\ r2[order[i]][2] > 0
    BY <1>1, <2>1, <2>2 DEF TrueDelta
  <2>. QED
    BY <2>1, <2>3
<1>9. NewAsTold(g, r1, r2)
  BY <1>8 DEF NewAsTold
<1>. QED
  BY <1>5, <1>7, <1>9

(* The classes that grew, of a complete comparison, are those of the       *)
(* deltas that grew.                                                       *)
LEMMA AllThatGrew ==
    ASSUME NEW bi, NEW ai, NEW cs, NEW r1, NEW r2, NEW k, TrueReadings(bi, ai, cs, r1, r2, k),
           AllRead(cs, r1, r2), NEW n \in Nat, NEW order \in [1..n -> cs],
           order \in Injection(1..n, cs), order \in Surjection(1..n, cs),
           NEW deltas, TrueDeltas(deltas, order, n, r1, r2)
    PROVE  Cardinality({c \in DOMAIN r1 : r2[c][2] - r1[c][2] > 0}) = Cardinality(GrownAt(deltas))
<1>. DEFINE S == GrownAt(deltas)
            grown == {c \in DOMAIN r1 : r2[c][2] - r1[c][2] > 0}
            f == [i \in S |-> order[i]]
<1>1. S \in SUBSET (1..n) /\ \A i \in 1..n : i \in S <=> deltas[i].bytes > 0
  BY DEF GrownAt, TrueDeltas
<1>2. \A c \in DOMAIN r1 : r1[c][2] \in Nat /\ r2[c][2] \in Nat
  BY DEF TrueReadings
<1>3. cs \subseteq DOMAIN r1
  BY DEF TrueReadings
<1>4. \A c \in grown : c \in cs
  BY <1>2 DEF AllRead
<1>5. ASSUME NEW i \in 1..n
      PROVE  order[i] \in cs /\ (i \in S <=> order[i] \in grown)
  <2>1. TrueDelta(deltas[i], order[i], r1[order[i]][2], r2[order[i]][2])
    BY DEF TrueDeltas
  <2>2. deltas[i].bytes > 0 <=> r2[order[i]][2] > r1[order[i]][2]
    BY <2>1 DEF TrueDelta
  <2>3. order[i] \in cs /\ order[i] \in DOMAIN r1
    BY <1>3
  <2>4. r1[order[i]][2] \in Nat /\ r2[order[i]][2] \in Nat
    BY <1>2, <2>3
  <2>5. order[i] \in grown <=> r2[order[i]][2] > r1[order[i]][2]
    BY <2>3, <2>4
  <2>. QED
    BY <1>1, <2>2, <2>3, <2>5
<1>6. \A i, j \in 1..n : order[i] = order[j] => i = j
  BY DEF Injection, IsInjective
<1>7. \A c \in cs : \E i \in 1..n : order[i] = c
  BY DEF Surjection
<1>. HIDE DEF S, grown
<1>8. f \in [S -> grown] /\ \A i \in S : f[i] = order[i]
  BY <1>1, <1>5
<1>. HIDE DEF f
<1>9. f \in Injection(S, grown)
  BY <1>1, <1>6, <1>8 DEF Injection, IsInjective
<1>10. \A c \in grown : \E i \in S : f[i] = c
  <2>1. SUFFICES ASSUME NEW c \in grown
                 PROVE  \E i \in S : f[i] = c
    OBVIOUS
  <2>2. PICK i \in 1..n : order[i] = c
    BY <1>4, <1>7
  <2>3. i \in S
    BY <2>2, <1>5
  <2>. QED
    BY <2>2, <2>3, <1>8
<1>11. f \in Surjection(S, grown)
  BY <1>8, <1>10 DEF Surjection
<1>12. ExistsBijection(S, grown)
  BY <1>9, <1>11 DEF ExistsBijection, Bijection
<1>13. IsFiniteSet(S)
  <2>1. IsFiniteSet(1..n)
    BY FS_Interval
  <2>. QED
    BY <2>1, <1>1, FS_Subset
<1>. QED
  BY <1>12, <1>13, FS_Bijection DEF S, grown

(* The bytes of what holds r.                                              *)
BytesOf(r, cs) == UNION {{c} \X (1..r[c][2]) : c \in cs}

(* A histogram shows of the classes cs k times what they hold, and no      *)
(* other class holds anything.                                             *)
ReadsAs(index, cs, r, k) ==
    /\ cs \subseteq DOMAIN r
    /\ \A c \in cs : r[c][2] \in Nat /\ Reading(index, c)[2] = k * r[c][2]
    /\ \A c \in DOMAIN r \ cs : r[c][2] = 0

(* The sum of true readings is a multiple of the bytes.                    *)
LEMMA SumIsTrue ==
    ASSUME NEW index, NEW cs, NEW r, NEW k \in Nat, ReadsAs(index, cs, r, k),
           NEW n \in Nat, NEW order \in [1..n -> cs],
           order \in Injection(1..n, cs), order \in Surjection(1..n, cs)
    PROVE  /\ Cardinality(BytesOf(r, DOMAIN r)) \in Nat
           /\ SumBytes(index, order) = k * Cardinality(BytesOf(r, DOMAIN r))
<1>. DEFINE size == [i \in 1..n |-> r[order[i]][2]]
            s == [i \in 1..n |-> k * size[i]]
<1>0. /\ cs \subseteq DOMAIN r
      /\ \A c \in cs : r[c][2] \in Nat /\ Reading(index, c)[2] = k * r[c][2]
      /\ \A c \in DOMAIN r \ cs : r[c][2] = 0
  BY DEF ReadsAs
<1>1. size \in [1..n -> Nat] /\ \A i \in 1..n : size[i] = r[order[i]][2]
  BY <1>0
<1>2. SumBytes(index, order) = SumOf(s)
  <2>1. [i \in DOMAIN order |-> Reading(index, order[i])[2]] = s
    BY <1>0
  <2>. QED
    BY <2>1 DEF SumBytes
<1>3. Blocks(order, size, n) = BytesOf(r, DOMAIN r)
  <2>1. ASSUME NEW x \in Blocks(order, size, n)
        PROVE  x \in BytesOf(r, DOMAIN r)
    <3>1. PICK i \in 1..n : x \in {order[i]} \X (1..size[i])
      BY DEF Blocks
    <3>2. order[i] \in DOMAIN r /\ size[i] = r[order[i]][2]
      BY <1>0, <1>1
    <3>3. x \in {order[i]} \X (1..r[order[i]][2])
      BY <3>1, <3>2
    <3>. QED
      BY <3>2, <3>3 DEF BytesOf
  <2>2. ASSUME NEW x \in BytesOf(r, DOMAIN r)
        PROVE  x \in Blocks(order, size, n)
    <3>1. PICK c \in DOMAIN r : x \in {c} \X (1..r[c][2])
      BY DEF BytesOf
    <3>2. c \in cs
      <4>1. SUFFICES ASSUME c \notin cs
                     PROVE  FALSE
        OBVIOUS
      <4>2. r[c][2] = 0
        BY <4>1, <1>0
      <4>. QED
        BY <3>1, <4>2
    <3>3. PICK i \in 1..n : order[i] = c
      BY <3>2 DEF Surjection
    <3>4. x \in {order[i]} \X (1..size[i])
      BY <3>1, <3>3, <1>1
    <3>. QED
      BY <3>3, <3>4 DEF Blocks
  <2>. QED
    BY <2>1, <2>2
<1>4. s \in [1..n -> Nat] /\ s = [i \in 1..n |-> k * size[i]]
  <2>. HIDE DEF size
  <2>1. \A i \in 1..n : k * size[i] \in Nat
    BY <1>1
  <2>. QED
    BY <2>1
<1>. HIDE DEF size, s
<1>7. size \in [1..n -> Nat] /\ s \in [1..n -> Nat] /\ AreMultiples(s, size, n, k)
  BY <1>1, <1>4 DEF AreMultiples
<1>5. SumOf(s) = k * SumOf(size) /\ SumOf(size) \in Nat
  BY <1>7, SumOfMultiples
<1>6. Cardinality(Blocks(order, size, n)) = SumOf(size)
  BY <1>7, BlocksAddUp
<1>. QED
  BY <1>2, <1>3, <1>5, <1>6

(* The net growth of a complete comparison has the sign of the real one.   *)
LEMMA NetGrowthIsTrue ==
    ASSUME NEW bi, NEW ai, NEW cs, NEW r1, NEW r2, NEW k, TrueReadings(bi, ai, cs, r1, r2, k),
           AllRead(cs, r1, r2), DOMAIN r2 = DOMAIN r1, NEW n \in Nat, NEW order \in [1..n -> cs],
           order \in Injection(1..n, cs), order \in Surjection(1..n, cs)
    PROVE  SumBytes(ai, order) - SumBytes(bi, order) > 0 <=>
               Cardinality(BytesOf(r2, DOMAIN r1)) > Cardinality(BytesOf(r1, DOMAIN r1))
<1>1. k \in Nat \ {0} /\ k \in Nat /\ ReadsAs(bi, cs, r1, k)
  BY DEF TrueReadings, AllRead, ReadsAs
<1>2. ReadsAs(ai, cs, r2, k)
  BY DEF TrueReadings, AllRead, ReadsAs
<1>3. /\ Cardinality(BytesOf(r1, DOMAIN r1)) \in Nat
      /\ SumBytes(bi, order) = k * Cardinality(BytesOf(r1, DOMAIN r1))
  BY <1>1, <1>2, SumIsTrue
<1>4. /\ Cardinality(BytesOf(r2, DOMAIN r2)) \in Nat
      /\ SumBytes(ai, order) = k * Cardinality(BytesOf(r2, DOMAIN r2))
  BY <1>1, <1>2, SumIsTrue
<1>. QED
  BY <1>1, <1>3, <1>4, DifferenceIsTrue

(* The deltas of a comparison in an order of its classes.                  *)
DeltasOf(before, after, order) ==
    [i \in DOMAIN order |-> Delta(ClassIndex(before), ClassIndex(after), order[i])]
NetGrowth(before, after, order) ==
    SumBytes(ClassIndex(after), order) - SumBytes(ClassIndex(before), order)

(* What findings on growers say.                                           *)
Severities(growers, growth, code) ==
    {f.severity : f \in ToSet(HeapDeltaFindings(growers, growth, code))}

(* c is the comparison that the lists of these deltas make.                *)
IsMadeOf(c, deltas, before, after, code, order) ==
    /\ c.growers = FirstListed(GrowersOf(deltas)) /\ c.new = NewOf(deltas)
    /\ c.growth = NetGrowth(before, after, order)
    /\ c.coverage = "complete" =>
           before.complete /\ after.complete /\ Compatible(before, after, TRUE)
    /\ c.verdict = "healthy" =>
           /\ before.complete /\ after.complete /\ Compatible(before, after, TRUE)
           /\ VerdictOf(Severities(GrowersOf(deltas), c.growth, code)) = "healthy"

(* A comparison is made of the lists of its deltas.                        *)
LEMMA ComparisonOfDeltas ==
    ASSUME NEW before, NEW after, NEW code, NEW order
    PROVE  IsMadeOf(HeapComparison(before, after, code, order), DeltasOf(before, after, order),
                    before, after, code, order)
<1>. DEFINE c == HeapComparison(before, after, code, order)
            deltas == DeltasOf(before, after, order)
<1>1. Those(deltas, LAMBDA d : d.bytes > 0) = PickedFrom(deltas, GrownAt(deltas))
  BY DEF Those, Positions, PickedFrom, GrownAt
<1>2. Those(deltas, LAMBDA d : d.new /\ d.after > 0) = PickedFrom(deltas, NewAt(deltas))
  BY DEF Those, Positions, PickedFrom, NewAt
<1>3. GrowersOf(deltas) = FirstBy(Len(deltas), Those(deltas, LAMBDA d : d.bytes > 0), LAMBDA d : d.bytes)
  BY <1>1 DEF GrowersOf, ByGrowth
<1>4. NewOf(deltas) = FirstBy(Listed, Those(deltas, LAMBDA d : d.new /\ d.after > 0), LAMBDA d : d.after)
  BY <1>2 DEF NewOf, ByBytes
<1>5. c.growers = FirstListed(GrowersOf(deltas))
  BY <1>3 DEF HeapComparison, DeltasOf, FirstListed
<1>6. c.new = NewOf(deltas)
  BY <1>4 DEF HeapComparison, DeltasOf
<1>7. c.growth = NetGrowth(before, after, order)
  BY DEF HeapComparison, NetGrowth
<1>8. c.coverage = "complete" => before.complete /\ after.complete /\ Compatible(before, after, TRUE)
  BY DEF HeapComparison
<1>9. ASSUME c.verdict = "healthy"
      PROVE  /\ before.complete /\ after.complete /\ Compatible(before, after, TRUE)
             /\ VerdictOf(Severities(GrowersOf(deltas), c.growth, code)) = "healthy"
  <2>1. before.complete /\ after.complete /\ Compatible(before, after, TRUE)
    BY <1>9 DEF HeapComparison
  <2>2. VerdictOf({f.severity : f \in ToSet(c.findings)}) = "healthy"
    BY <1>9 DEF HeapComparison
  <2>3. c.findings = HeapDeltaFindings(GrowersOf(deltas), NetGrowth(before, after, order), code)
    BY <2>1, <1>3 DEF HeapComparison, DeltasOf, NetGrowth
  <2>. QED
    BY <2>1, <2>2, <2>3, <1>7 DEF Severities
<1>. QED
  BY <1>5, <1>6, <1>7, <1>8, <1>9 DEF IsMadeOf

(* A grower is a warning.                                                  *)
LEMMA GrowersAreWarnedOf ==
    ASSUME NEW growers, IsList(growers), Len(growers) # 0, NEW growth, NEW code
    PROVE  VerdictOf(Severities(growers, growth, code)) # "healthy"
<1>. DEFINE T == ToSet(growers)
            w == IF Len(growers) < Blamed THEN Len(growers) ELSE Blamed
            blamed == SubSeq(growers, 1, w)
            ours == {i \in DOMAIN blamed : OuterOf[blamed[i].class] \in Application}
            looked == {i \in ours : Cardinality({j \in ours : j < i}) < Lookups}
            At(i) == IF i \in looked THEN Grower(code, blamed[i].class) ELSE Unknown
            told == [i \in DOMAIN blamed |->
                        [severity |-> Warn, class |-> blamed[i].class, at |-> At(i)]]
            last == [severity |-> Info, class |-> "net growth", at |-> Unknown]
            net == IF growth > 0 THEN <<last>> ELSE <<>>
            said == told \o net
<1>1. growers \in Seq(T) /\ growers # <<>> /\ Len(growers) \in Nat \ {0}
  BY DEF IsList
<1>2. HeapDeltaFindings(growers, growth, code) = said
  BY <1>1 DEF HeapDeltaFindings
<1>3. w \in 1..Len(growers)
  BY <1>1, LimitsAssumption
<1>4. DOMAIN blamed = 1..w
  <2>. HIDE DEF T, w
  <2>. QED
    BY <1>1, <1>3
<1>5. told[1].severity = Warn /\ DOMAIN told = 1..w
  <2>1. 1 \in DOMAIN blamed
    BY <1>3, <1>4
  <2>. QED
    BY <2>1, <1>4
<1>6. told = [i \in 1..w |-> told[i]]
  BY <1>4
<1>7. net \in Seq({last})
  <2>1. <<last>> \in Seq({last}) /\ << >> \in Seq({last})
    <3>. HIDE DEF last
    <3>. QED
      OBVIOUS
  <2>2. net = <<last>> \/ net = << >>
    <3>. HIDE DEF last
    <3>. QED
      BY Zenon
  <2>. QED
    BY <2>1, <2>2, Zenon
<1>. HIDE DEF last, told, net, w, blamed
<1>8. 1 \in DOMAIN said /\ said[1] = told[1]
  <2>1. w \in Nat /\ w >= 1
    BY <1>1, <1>3
  <2>2. told \in Seq({told[i] : i \in 1..w}) /\ Len(told) = w
    BY <2>1, <1>6
  <2>3. net \in Seq({last})
    BY <1>7
  <2>. QED
    BY <2>1, <2>2, <2>3
<1>. HIDE DEF said
<1>9. said[1] \in ToSet(said)
  BY <1>8 DEF ToSet
<1>10. Warn \in Severities(growers, growth, code)
  BY <1>2, <1>5, <1>8, <1>9 DEF Severities
<1>. QED
  BY <1>10 DEF VerdictOf

(* What the properties ask of an answer about heaps that hold r1, then r2. *)
GrowthTold(told, r1, r2) ==
    /\ GrewAsTold(told.growers, r1, r2) /\ DOMAIN told.growers = 1..Len(told.growers)
    /\ NewAsTold(told.new, r1, r2) /\ DOMAIN told.new = 1..Len(told.new)

(* What is more if the comparison says that it is complete.                *)
CoverageTold(told, r1, r2) ==
    told.coverage = "complete" =>
        LET grown == {c \in DOMAIN r1 : r2[c][2] - r1[c][2] > 0}
        IN  /\ told.growth > 0 <=>
                   Cardinality(BytesOf(r2, DOMAIN r1)) > Cardinality(BytesOf(r1, DOMAIN r1))
            /\ Len(told.growers) = IF Cardinality(grown) < Listed THEN Cardinality(grown) ELSE Listed

HealthTold(told, r1, r2) ==
    told.verdict = "healthy" => \A c \in DOMAIN r1 : r2[c][2] - r1[c][2] =< 0

(* The classes that a comparison of q compares.                            *)
NamesOf(q) ==
    IF Compatible(q.first, q.second, TRUE)
    THEN Compared(q.first.complete /\ q.second.complete, ClassIndex(q.first), ClassIndex(q.second))
    ELSE {}

(* An order of the classes of two heaps that may be compared.              *)
LEMMA OrderOfNames ==
    ASSUME NEW q \in Questions, q.ask = "heaps", Compatible(q.first, q.second, TRUE),
           NEW order \in SetToSeqs(NamesOf(q)), NEW n, n = Cardinality(NamesOf(q))
    PROVE  /\ TrueReadings(ClassIndex(q.first), ClassIndex(q.second), NamesOf(q),
                           q.real[1], q.real[2], q.scale[1])
           /\ (q.first.complete /\ q.second.complete) => AllRead(NamesOf(q), q.real[1], q.real[2])
           /\ DOMAIN q.real[2] = DOMAIN q.real[1] /\ IsFiniteSet(NamesOf(q))
           /\ n \in Nat /\ DOMAIN order = 1..n /\ order \in [1..n -> NamesOf(q)]
           /\ order \in Injection(1..n, NamesOf(q)) /\ order \in Surjection(1..n, NamesOf(q))
           /\ TrueDeltas(DeltasOf(q.first, q.second, order), order, n, q.real[1], q.real[2])
<1>. DEFINE bi == ClassIndex(q.first)
            ai == ClassIndex(q.second)
            complete == q.first.complete /\ q.second.complete
            cs == NamesOf(q)
            r1 == q.real[1]
            r2 == q.real[2]
            k == q.scale[1]
            deltas == DeltasOf(q.first, q.second, order)
<1>1. cs = Compared(complete, bi, ai)
  BY DEF NamesOf
<1>2. /\ TrueReadings(bi, ai, cs, r1, r2, k) /\ IsFiniteSet(cs)
      /\ complete => AllRead(cs, r1, r2)
      /\ DOMAIN r2 = DOMAIN r1
  BY <1>1, ReadingsAreTrue
<1>3. /\ n \in Nat /\ order \in [1..n -> cs] /\ order \in Injection(1..n, cs)
      /\ order \in Surjection(1..n, cs)
  BY <1>2, OrderOfAll
<1>4. DOMAIN order = 1..n
  BY <1>3
<1>5. deltas = [i \in 1..n |-> Delta(bi, ai, order[i])]
  BY <1>4 DEF DeltasOf
<1>. HIDE DEF bi, ai, cs, r1, r2, k, deltas
<1>6. TrueReadings(bi, ai, cs, r1, r2, k) /\ n \in Nat /\ order \in [1..n -> cs]
  BY <1>2, <1>3
<1>7. deltas = [i \in 1..n |-> Delta(bi, ai, order[i])]
  BY <1>5
<1>8. TrueDeltas(deltas, order, n, r1, r2)
  BY <1>6, <1>7, DeltasAreTrue
<1>. QED
  BY <1>2, <1>3, <1>4, <1>8 DEF bi, ai, cs, r1, r2, k, deltas

(* Heaps that may not be compared have no deltas.                          *)
LEMMA NothingIsCompared ==
    ASSUME NEW q, ~Compatible(q.first, q.second, TRUE), NEW order \in SetToSeqs(NamesOf(q)),
           NEW r1, NEW r2
    PROVE  TrueDeltas(DeltasOf(q.first, q.second, order), order, 0, r1, r2)
<1>1. NamesOf(q) = {}
  BY DEF NamesOf
<1>2. DOMAIN order = 1..0
  BY <1>1, FS_EmptySet DEF SetToSeqs
<1>3. Len(DeltasOf(q.first, q.second, order)) = 0
  BY <1>2 DEF DeltasOf
<1>. QED
  BY <1>3 DEF TrueDeltas

(* Lists of true deltas tell the truth.                                    *)
LEMMA ListsAreTrue ==
    ASSUME NEW deltas, NEW order, NEW n \in Nat, NEW r1, NEW r2, TrueDeltas(deltas, order, n, r1, r2),
           NEW told, told.growers = FirstListed(GrowersOf(deltas)), told.new = NewOf(deltas)
    PROVE  /\ GrowthTold(told, r1, r2)
           /\ Len(told.growers) = IF Cardinality(GrownAt(deltas)) < Listed
                                  THEN Cardinality(GrownAt(deltas)) ELSE Listed
<1>1. /\ IsList(GrowersOf(deltas)) /\ GrewAsTold(GrowersOf(deltas), r1, r2)
      /\ Len(GrowersOf(deltas)) = Cardinality(GrownAt(deltas))
  BY GrowersGrew
<1>2. /\ GrewAsTold(told.growers, r1, r2) /\ DOMAIN told.growers = 1..Len(told.growers)
      /\ Len(told.growers) = IF Len(GrowersOf(deltas)) < Listed
                             THEN Len(GrowersOf(deltas)) ELSE Listed
  BY <1>1, FirstListedAreRight
<1>3. NewAsTold(told.new, r1, r2) /\ DOMAIN told.new = 1..Len(told.new)
  BY NewAreNew
<1>. QED
  BY <1>1, <1>2, <1>3 DEF GrowthTold

(* No class that grew is missing from a complete comparison that finds no  *)
(* grower.                                                                 *)
LEMMA NoneGrew ==
    ASSUME NEW r1, NEW r2, NEW cs, IsFiniteSet(cs), AllRead(cs, r1, r2),
           \A c \in DOMAIN r1 : r1[c][2] \in Nat /\ r2[c][2] \in Nat,
           Cardinality({c \in DOMAIN r1 : r2[c][2] - r1[c][2] > 0}) = 0
    PROVE  \A c \in DOMAIN r1 : r2[c][2] - r1[c][2] =< 0
<1>. DEFINE grown == {c \in DOMAIN r1 : r2[c][2] - r1[c][2] > 0}
<1>1. grown \subseteq cs
  BY DEF AllRead
<1>2. grown = {}
  <2>. HIDE DEF grown
  <2>1. IsFiniteSet(grown)
    BY <1>1, FS_Subset
  <2>2. Cardinality(grown) = 0
    BY DEF grown
  <2>. QED
    BY <2>1, <2>2, FS_EmptySet
<1>3. ASSUME NEW c \in DOMAIN r1
      PROVE  r2[c][2] - r1[c][2] =< 0
  <2>1. ~(r2[c][2] - r1[c][2] > 0)
    BY <1>2
  <2>2. r1[c][2] \in Nat /\ r2[c][2] \in Nat
    OBVIOUS
  <2>. QED
    BY <2>1, <2>2
<1>. QED
  BY <1>3

(* A comparison of heaps tells what is true of them.                       *)
LEMMA ComparisonIsTrue ==
    ASSUME NEW q \in Questions, q.ask = "heaps", NEW order \in SetToSeqs(NamesOf(q)),
           NEW told, told = HeapComparison(q.first, q.second, q.code, order)
    PROVE  /\ GrowthTold(told, q.real[1], q.real[2])
           /\ CoverageTold(told, q.real[1], q.real[2])
           /\ HealthTold(told, q.real[1], q.real[2])
<1>. DEFINE bi == ClassIndex(q.first)
            ai == ClassIndex(q.second)
            both == q.first.complete /\ q.second.complete
            fits == Compatible(q.first, q.second, TRUE)
            cs == NamesOf(q)
            r1 == q.real[1]
            r2 == q.real[2]
            k == q.scale[1]
            n == IF fits THEN Cardinality(cs) ELSE 0
            deltas == DeltasOf(q.first, q.second, order)
            grown == {c \in DOMAIN r1 : r2[c][2] - r1[c][2] > 0}
<1>1. /\ told.growers = FirstListed(GrowersOf(deltas)) /\ told.new = NewOf(deltas)
      /\ told.growth = SumBytes(ai, order) - SumBytes(bi, order)
      /\ told.coverage = "complete" => both /\ fits
      /\ told.verdict = "healthy" =>
             both /\ fits /\ VerdictOf(Severities(GrowersOf(deltas), told.growth, q.code)) = "healthy"
  <2>1. IsMadeOf(told, DeltasOf(q.first, q.second, order), q.first, q.second, q.code, order)
    BY ComparisonOfDeltas
  <2>. QED
    BY <2>1 DEF IsMadeOf, NetGrowth
<1>2. n \in Nat /\ TrueDeltas(deltas, order, n, r1, r2)
  <2>1. CASE fits
    BY <2>1, OrderOfNames
  <2>2. CASE ~fits
    BY <2>2, NothingIsCompared
  <2>. QED
    BY <2>1, <2>2
<1>3. fits => /\ TrueReadings(bi, ai, cs, r1, r2, k) /\ IsFiniteSet(cs)
              /\ both => AllRead(cs, r1, r2)
              /\ DOMAIN r2 = DOMAIN r1 /\ order \in [1..n -> cs]
              /\ order \in Injection(1..n, cs) /\ order \in Surjection(1..n, cs)
  BY OrderOfNames
<1>. HIDE DEF bi, ai, both, fits, cs, r1, r2, k, n, deltas
<1>4. told.growers = FirstListed(GrowersOf(deltas)) /\ told.new = NewOf(deltas)
  BY <1>1
<1>5. n \in Nat /\ TrueDeltas(deltas, order, n, r1, r2)
  BY <1>2
<1>6. /\ GrowthTold(told, r1, r2)
      /\ Len(told.growers) = IF Cardinality(GrownAt(deltas)) < Listed
                             THEN Cardinality(GrownAt(deltas)) ELSE Listed
  BY <1>4, <1>5, ListsAreTrue
<1>7. ASSUME both, fits
      PROVE  /\ Cardinality(grown) = Cardinality(GrownAt(deltas))
             /\ told.growth > 0 <=>
                    Cardinality(BytesOf(r2, DOMAIN r1)) > Cardinality(BytesOf(r1, DOMAIN r1))
             /\ IsFiniteSet(cs) /\ AllRead(cs, r1, r2)
             /\ \A c \in DOMAIN r1 : r1[c][2] \in Nat /\ r2[c][2] \in Nat
  <2>1. /\ TrueReadings(bi, ai, cs, r1, r2, k) /\ AllRead(cs, r1, r2) /\ IsFiniteSet(cs)
        /\ DOMAIN r2 = DOMAIN r1 /\ order \in [1..n -> cs]
        /\ order \in Injection(1..n, cs) /\ order \in Surjection(1..n, cs)
    BY <1>3, <1>7
  <2>2. Cardinality(grown) = Cardinality(GrownAt(deltas))
    BY <2>1, <1>5, AllThatGrew
  <2>3. SumBytes(ai, order) - SumBytes(bi, order) > 0 <=>
            Cardinality(BytesOf(r2, DOMAIN r1)) > Cardinality(BytesOf(r1, DOMAIN r1))
    BY <2>1, <1>5, NetGrowthIsTrue
  <2>4. told.growth = SumBytes(ai, order) - SumBytes(bi, order)
    BY <1>1
  <2>. QED
    BY <2>1, <2>2, <2>3, <2>4 DEF TrueReadings
<1>8. CoverageTold(told, r1, r2)
  <2>1. SUFFICES ASSUME told.coverage = "complete"
                 PROVE  /\ told.growth > 0 <=>
                               Cardinality(BytesOf(r2, DOMAIN r1)) > Cardinality(BytesOf(r1, DOMAIN r1))
                        /\ Len(told.growers) = IF Cardinality(grown) < Listed
                                               THEN Cardinality(grown) ELSE Listed
    BY DEF CoverageTold
  <2>2. both /\ fits
    BY <1>1, <2>1
  <2>. QED
    BY <2>2, <1>6, <1>7
<1>9. HealthTold(told, r1, r2)
  <2>1. SUFFICES ASSUME told.verdict = "healthy"
                 PROVE  \A c \in DOMAIN r1 : r2[c][2] - r1[c][2] =< 0
    BY DEF HealthTold
  <2>2. both /\ fits /\ VerdictOf(Severities(GrowersOf(deltas), told.growth, q.code)) = "healthy"
    BY <1>1, <2>1
  <2>3. IsList(GrowersOf(deltas)) /\ Len(GrowersOf(deltas)) = Cardinality(GrownAt(deltas))
    BY <1>5, GrowersGrew
  <2>4. Len(GrowersOf(deltas)) = 0
    BY <2>2, <2>3, GrowersAreWarnedOf
  <2>5. Cardinality(grown) = 0
    BY <2>2, <2>3, <2>4, <1>7
  <2>6. IsFiniteSet(cs) /\ AllRead(cs, r1, r2) /\ \A c \in DOMAIN r1 : r1[c][2] \in Nat /\ r2[c][2] \in Nat
    BY <2>2, <1>7
  <2>. QED
    BY <2>5, <2>6, NoneGrew
<1>. QED
  BY <1>6, <1>8, <1>9 DEF r1, r2

(* A comparison of two heaps tells the truth.                              *)
LEMMA HeapsAreCompared ==
    ASSUME question \in Questions, CompareHeaps
    PROVE  GrowthIsReal'
<1>. DEFINE r1 == question.real[1]
            r2 == question.real[2]
<1>1. question' = question /\ question.ask = "heaps"
  BY DEF CompareHeaps
<1>2. PICK order \in SetToSeqs(NamesOf(question)) :
          answer' = HeapComparison(question.first, question.second, question.code, order)
  BY DEF CompareHeaps, NamesOf
<1>3. GrowthTold(answer', r1, r2) /\ CoverageTold(answer', r1, r2) /\ HealthTold(answer', r1, r2)
  BY <1>1, <1>2, ComparisonIsTrue
<1>4. \A d \in ToSet(answer'.growers) : r2[d.class][2] - r1[d.class][2] > 0
  BY <1>3 DEF GrowthTold, GrewAsTold, ToSet
<1>5. \A d \in ToSet(answer'.new) : r1[d.class][2] = 0 /\ r2[d.class][2] > 0
  BY <1>3 DEF GrowthTold, NewAsTold, ToSet
<1>6. /\ r1 = question'.real[1] /\ r2 = question'.real[2]
      /\ \A c : TrueGrowth(c)' = r2[c][2] - r1[c][2]
      /\ \A c : TrueBytes(1, c)' = r1[c][2] /\ TrueBytes(2, c)' = r2[c][2]
      /\ TrueClasses' = DOMAIN r1
      /\ HeapBytes(1)' = BytesOf(r1, DOMAIN r1) /\ HeapBytes(2)' = BytesOf(r2, DOMAIN r1)
  BY <1>1 DEF TrueGrowth, TrueBytes, TrueClasses, HeapBytes, BytesOf
<1>. HIDE DEF r1, r2
<1>7. \A d \in ToSet(answer'.growers) : TrueGrowth(d.class)' > 0
  BY <1>4, <1>6
<1>8. \A d \in ToSet(answer'.new) : TrueBytes(1, d.class)' = 0 /\ TrueBytes(2, d.class)' > 0
  BY <1>5, <1>6
<1>9. ASSUME answer'.coverage = "complete"
      PROVE  /\ (answer'.growth > 0) = (Cardinality(HeapBytes(2)') > Cardinality(HeapBytes(1)'))
             /\ LET grown == {c \in TrueClasses' : TrueGrowth(c)' > 0}
                IN  Len(answer'.growers) =
                        (IF Cardinality(grown) < Listed THEN Cardinality(grown) ELSE Listed)
  <2>1. {c \in TrueClasses' : TrueGrowth(c)' > 0} = {c \in DOMAIN r1 : r2[c][2] - r1[c][2] > 0}
    BY <1>6
  <2>2. /\ answer'.growth > 0 <=>
               Cardinality(BytesOf(r2, DOMAIN r1)) > Cardinality(BytesOf(r1, DOMAIN r1))
        /\ LET grown == {c \in DOMAIN r1 : r2[c][2] - r1[c][2] > 0}
           IN  Len(answer'.growers) =
                   (IF Cardinality(grown) < Listed THEN Cardinality(grown) ELSE Listed)
    BY <1>3, <1>9 DEF CoverageTold
  <2>3. (answer'.growth > 0) = (Cardinality(HeapBytes(2)') > Cardinality(HeapBytes(1)'))
    BY <2>2, <1>6
  <2>4. LET grown == {c \in TrueClasses' : TrueGrowth(c)' > 0}
        IN  Len(answer'.growers) =
                (IF Cardinality(grown) < Listed THEN Cardinality(grown) ELSE Listed)
    BY <2>1, <2>2, Zenon
  <2>. QED
    BY <2>3, <2>4
<1>10. answer'.verdict = "healthy" => \A c \in TrueClasses' : TrueGrowth(c)' =< 0
  BY <1>3, <1>6 DEF HealthTold
<1>. QED
  BY <1>7, <1>8, <1>9, <1>10 DEF GrowthIsReal

-----------------------------------------------------------------------------
(* The captures are one of the analyses of Reports.                        *)

(* What an answer says is of the kind of its question.                     *)
LEMMA KindsOfAnswers ==
    /\ NoAnswer.status = "none"
    /\ CompareHeaps => answer'.status = "heaps"
    /\ CompareThreads => answer'.status = "threads"
    /\ Correlate => answer'.status \in {"correlated", "incompatible"}
    /\ Incident => answer'.status \in {"completed", "incompatible"}
<1>1. CompareHeaps => answer'.status = "heaps"
  BY DEF CompareHeaps, HeapComparison
<1>2. CompareThreads => answer'.status = "threads"
  BY DEF CompareThreads
<1>3. Correlate => answer'.status \in {"correlated", "incompatible"}
  BY DEF Correlate, Correlation
<1>4. Incident => answer'.status \in {"completed", "incompatible"}
  BY DEF Incident, Correlation
<1>. QED
  BY <1>1, <1>2, <1>3, <1>4 DEF NoAnswer

(* What is true of captures while they wait for an answer and after it.    *)
CapturesInv ==
    /\ answer = NoAnswer \/ analysis = "captures"
    /\ (analysis = "captures" /\ answer = NoAnswer) => question \in Questions
    /\ GrowthIsReal /\ StuckIsOneThread /\ EvidenceBelongsTogether

(* Without an answer there is nothing to be wrong.                         *)
LEMMA NothingSaid ==
    ASSUME answer = NoAnswer
    PROVE  GrowthIsReal /\ StuckIsOneThread /\ EvidenceBelongsTogether
  BY KindsOfAnswers
     DEF GrowthIsReal, StuckIsOneThread, EvidenceBelongsTogether, NoMixedEvidence, NoOverlapMeansNone

(* Every answer is right.                                                  *)
LEMMA AnswersAreRight ==
    ASSUME question \in Questions, CapturesNext
    PROVE  GrowthIsReal' /\ StuckIsOneThread' /\ EvidenceBelongsTogether'
<1>1. CASE CompareHeaps
  <2>1. answer'.status = "heaps"
    BY <1>1, KindsOfAnswers
  <2>. QED
    BY <1>1, <2>1, HeapsAreCompared
       DEF StuckIsOneThread, EvidenceBelongsTogether, NoMixedEvidence, NoOverlapMeansNone
<1>2. CASE CompareThreads
  <2>1. answer'.status = "threads"
    BY <1>2, KindsOfAnswers
  <2>. QED
    BY <1>2, <2>1, ThreadsAreCompared
       DEF GrowthIsReal, EvidenceBelongsTogether, NoMixedEvidence, NoOverlapMeansNone
<1>3. CASE Correlate
  <2>1. answer'.status \in {"correlated", "incompatible"}
    BY <1>3, KindsOfAnswers
  <2>. QED
    BY <1>3, <2>1, CorrelateKeepsApart DEF GrowthIsReal, StuckIsOneThread
<1>4. CASE Incident
  <2>1. answer'.status \in {"completed", "incompatible"}
    BY <1>4, KindsOfAnswers
  <2>. QED
    BY <1>4, <2>1, IncidentKeepsApart DEF GrowthIsReal, StuckIsOneThread
<1>. QED
  BY <1>1, <1>2, <1>3, <1>4 DEF CapturesNext

(* What does not change stays right.                                       *)
LEMMA SaidStays ==
    ASSUME UNCHANGED captureVars, GrowthIsReal, StuckIsOneThread, EvidenceBelongsTogether
    PROVE  GrowthIsReal' /\ StuckIsOneThread' /\ EvidenceBelongsTogether'
<1>1. question' = question /\ answer' = answer
  BY DEF captureVars
<1>2. GrowthIsReal'
  BY <1>1 DEF GrowthIsReal, TrueGrowth, TrueBytes, TrueClasses, HeapBytes
<1>3. StuckIsOneThread'
  BY <1>1 DEF StuckIsOneThread, Inherited, Survivors
<1>4. EvidenceBelongsTogether'
  BY <1>1 DEF EvidenceBelongsTogether, NoMixedEvidence, NoOverlapMeansNone
<1>. QED
  BY <1>2, <1>3, <1>4

(* CapturesInv is inductive.                                               *)
LEMMA CapturesInductive ==
    /\ ReportsInit => CapturesInv
    /\ CapturesInv /\ [ReportsNext]_reportVars => CapturesInv'
<1>1. ASSUME ReportsInit PROVE CapturesInv
  <2>1. answer = NoAnswer /\ (analysis = "captures" => question \in Questions)
    BY <1>1 DEF ReportsInit, CapturesInit, CapturesIdle
  <2>. QED
    BY <2>1, NothingSaid DEF CapturesInv
<1>2. ASSUME CapturesInv, [ReportsNext]_reportVars PROVE CapturesInv'
  <2>1. \/ analysis = "captures" /\ analysis' = analysis /\ CapturesNext
        \/ analysis' = analysis /\ UNCHANGED captureVars
    BY <1>2 DEF ReportsNext, reportVars
  <2>2. CASE analysis = "captures" /\ analysis' = analysis /\ CapturesNext
    <3>1. answer = NoAnswer
      BY <2>2 DEF CapturesNext, CompareHeaps, CompareThreads, Correlate, Incident
    <3>2. question \in Questions
      BY <1>2, <2>2, <3>1 DEF CapturesInv
    <3>3. answer' # NoAnswer
      BY <2>2, KindsOfAnswers DEF CapturesNext
    <3>. QED
      BY <2>2, <3>2, <3>3, AnswersAreRight DEF CapturesInv
  <2>3. CASE analysis' = analysis /\ UNCHANGED captureVars
    <3>1. question' = question /\ answer' = answer
      BY <2>3 DEF captureVars
    <3>. QED
      BY <1>2, <2>3, <3>1, SaidStays DEF CapturesInv
  <2>. QED
    BY <2>1, <2>2, <2>3
<1>. QED
  BY <1>1, <1>2

(* Whatever part of their histograms two reports kept, a class that a      *)
(* comparison calls a grower grew, one that it calls new was not there,    *)
(* complete coverage has every grower and the sign of the net growth, and  *)
(* a healthy verdict means that no class grew (compare_heaps).             *)
THEOREM GrowthIsTrue == ReportsSpec => []GrowthIsReal
<1>1. CapturesInv => GrowthIsReal
  BY DEF CapturesInv
<1>. QED
  BY <1>1, CapturesInductive, PTL DEF ReportsSpec

(* The two halves of a thread that compare_threads calls stuck are one     *)
(* thread, for dumps of any threads with any identities.                   *)
THEOREM StuckThreadsAreOne == ReportsSpec => []StuckIsOneThread
<1>1. CapturesInv => StuckIsOneThread
  BY DEF CapturesInv
<1>. QED
  BY <1>1, CapturesInductive, PTL DEF ReportsSpec

(* Captures stand in one finding only if nothing that they state tells     *)
(* them apart, and "no direct overlap" is only said if no class of         *)
(* interest runs on a thread (correlate, analyze_incident).                *)
THEOREM EvidenceIsOfOneProcess == ReportsSpec => []EvidenceBelongsTogether
<1>1. CapturesInv => EvidenceBelongsTogether
  BY DEF CapturesInv
<1>. QED
  BY <1>1, CapturesInductive, PTL DEF ReportsSpec

-----------------------------------------------------------------------------
(* HeapDeployments: what the scan retains.                                 *)

(* What a file of the jobs promises.                                       *)
LEMMA FileFacts ==
    ASSUME job \in DeploymentJobs
    PROVE  /\ Len(job.file) \in Nat /\ DOMAIN job.file = 1..Len(job.file)
           /\ ObjectsFollowClasses(job.file)
           /\ \A i, k \in 1..Len(job.file) :
                  job.file[i].tag = "class" /\ job.file[k].tag = "class"
                      /\ job.file[i].cid = job.file[k].cid => i = k
           /\ \A i, k \in 1..Len(job.file) :
                  job.file[i].tag = "instance" /\ job.file[k].tag = "instance"
                      /\ job.file[i].oid = job.file[k].oid => i = k
           /\ \A i, k \in 1..Len(job.file) :
                  job.file[i].tag = "array" /\ job.file[k].tag = "array"
                      /\ job.file[i].oid = job.file[k].oid => i = k
           /\ \A i \in 1..Len(job.file) :
                  /\ job.file[i].tag = "instance" => job.file[i].oid # 0
                  /\ job.file[i].tag = "array" => job.file[i].text # None
<1>1. /\ job.file \in Seq(ToSet(job.file)) /\ ObjectsFollowClasses(job.file)
      /\ Alone(job.file, "class", "cid") /\ Alone(job.file, "instance", "oid")
      /\ Alone(job.file, "array", "oid")
      /\ \A r \in ToSet(job.file) :
             (r.tag = "instance" => r.oid # 0) /\ (r.tag = "array" => r.text # None)
  BY DumpsAssumption
<1>2. Len(job.file) \in Nat /\ DOMAIN job.file = 1..Len(job.file)
  BY <1>1
<1>3. \A i \in 1..Len(job.file) : job.file[i] \in ToSet(job.file)
  BY <1>2 DEF ToSet
<1>. QED
  BY <1>1, <1>2, <1>3 DEF Alone

(* The records of a kind are at their positions.                           *)
LEMMA RecordsAtPositions ==
    ASSUME job \in DeploymentJobs, NEW tag
    PROVE  /\ \A r \in RecordsOf(tag) : \E i \in 1..Len(job.file) : job.file[i] = r /\ r.tag = tag
           /\ \A i \in 1..Len(job.file) : job.file[i].tag = tag => job.file[i] \in RecordsOf(tag)
  BY FileFacts DEF RecordsOf, ToSet

(* An identifier is that of one record.                                    *)
LEMMA OneRecord ==
    ASSUME job \in DeploymentJobs
    PROVE  /\ \A r, q \in RecordsOf("class") : r.cid = q.cid => r = q
           /\ \A r, q \in RecordsOf("instance") : r.oid = q.oid => r = q
           /\ \A r, q \in RecordsOf("array") : r.oid = q.oid => r = q
<1>1. ASSUME NEW r \in RecordsOf("class"), NEW q \in RecordsOf("class"), r.cid = q.cid
      PROVE  r = q
  BY <1>1, RecordsAtPositions, FileFacts
<1>2. ASSUME NEW r \in RecordsOf("instance"), NEW q \in RecordsOf("instance"), r.oid = q.oid
      PROVE  r = q
  BY <1>2, RecordsAtPositions, FileFacts
<1>3. ASSUME NEW r \in RecordsOf("array"), NEW q \in RecordsOf("array"), r.oid = q.oid
      PROVE  r = q
  BY <1>3, RecordsAtPositions, FileFacts
<1>. QED
  BY <1>1, <1>2, <1>3

(* The first m records are the classes of the file.                        *)
ClassesEnd(m) ==
    m \in 0..Len(job.file) /\ \A i \in 1..Len(job.file) : job.file[i].tag = "class" <=> i =< m

FileUpto(n) == [i \in 1..n |-> job.file[i]]

(* The scan has kept what it wants of the first n records.                 *)
ClassesKept(n) == \E m : ClassesEnd(m) /\ scan.classes = FileUpto(Least(n, m))
RootsKept(n) == scan.roots = {job.file[i].oid : i \in {k \in 1..n : job.file[k].tag = "root"}}
ObjectsKept(n) ==
    /\ scan.retained \in Seq(RecordsOf("instance"))
    /\ scan.truncated \in BOOLEAN
    /\ scan.truncated = FALSE =>
       \A i \in 1..n : (job.file[i].tag = "instance" /\ Wants(scan, job.file[i].cid)) =>
           \E k \in 1..Len(scan.retained) : scan.retained[k] = job.file[i]
Kept(n) ==
    /\ n \in 0..Len(job.file)
    /\ scan = [classes |-> scan.classes, roots |-> scan.roots, retained |-> scan.retained,
               truncated |-> scan.truncated]
    /\ ClassesKept(n) /\ RootsKept(n) /\ ObjectsKept(n)

(* Before the first record nothing is kept.                                *)
LEMMA NothingKept ==
    ASSUME job \in DeploymentJobs, scan = NoScan
    PROVE  Kept(0)
<1>1. /\ scan.classes = <<>> /\ scan.roots = {} /\ scan.retained = <<>>
      /\ scan.truncated = FALSE
      /\ scan = [classes |-> scan.classes, roots |-> scan.roots, retained |-> scan.retained,
                 truncated |-> scan.truncated]
  BY DEF NoScan
<1>2. PICK m \in 0..Len(job.file) : \A i \in DOMAIN job.file : job.file[i].tag = "class" <=> i =< m
  BY FileFacts DEF ObjectsFollowClasses
<1>3. ClassesEnd(m) /\ FileUpto(Least(0, m)) = <<>>
  BY <1>2, FileFacts DEF ClassesEnd, FileUpto, Least
<1>4. ClassesKept(0)
  BY <1>1, <1>3 DEF ClassesKept
<1>5. RootsKept(0) /\ 0 \in 0..Len(job.file)
  BY <1>1, FileFacts DEF RootsKept
<1>6. ObjectsKept(0)
  <2>1. scan.retained \in Seq(RecordsOf("instance"))
    BY <1>1
  <2>2. \A i \in 1..0 : FALSE
    OBVIOUS
  <2>. QED
    BY <1>1, <2>1, <2>2 DEF ObjectsKept
<1>. QED
  BY <1>1, <1>4, <1>5, <1>6 DEF Kept

(* One record more.                                                        *)
LEMMA FileGrows ==
    ASSUME NEW n \in Nat
    PROVE  Append(FileUpto(n), job.file[n + 1]) = FileUpto(n + 1)
<1>. DEFINE S == {job.file[i] : i \in 1..(n + 1)}
            s == FileUpto(n)
            t == FileUpto(n + 1)
<1>1. /\ Len(s) = n /\ s \in Seq(S) /\ job.file[n + 1] \in S
      /\ \A i \in 1..n : s[i] = job.file[i]
  BY DEF FileUpto
<1>2. /\ Len(t) = n + 1 /\ t \in Seq(S)
      /\ \A i \in 1..(n + 1) : t[i] = job.file[i]
  BY DEF FileUpto
<1>. HIDE DEF S, s, t
<1>3. /\ Append(s, job.file[n + 1]) \in Seq(S) /\ Len(Append(s, job.file[n + 1])) = n + 1
      /\ \A i \in 1..(n + 1) : Append(s, job.file[n + 1])[i] = job.file[i]
  BY <1>1
<1>4. Append(s, job.file[n + 1]) = t
  BY <1>2, <1>3, SameSequence
<1>. QED
  BY <1>4 DEF s, t

(* Wanted is decided by the classes, and those are known.                  *)
LEMMA CaptureKeeps ==
    ASSUME job \in DeploymentJobs, NEW n, Kept(n), n < Len(job.file),
           scan' = Note(scan, job.file[n + 1]), job' = job
    PROVE  Kept(n + 1)'
<1>. DEFINE r == job.file[n + 1]
<1>1. n \in Nat /\ n + 1 \in 1..Len(job.file) /\ n \in 0..Len(job.file) /\ Len(job.file) \in Nat
  BY FileFacts DEF Kept
<1>2. PICK m : ClassesEnd(m) /\ scan.classes = FileUpto(Least(n, m))
  BY DEF Kept, ClassesKept
<1>3. m \in Nat /\ \A i \in 1..Len(job.file) : job.file[i].tag = "class" <=> i =< m
  BY <1>1, <1>2 DEF ClassesEnd
<1>4. /\ RootsKept(n) /\ ObjectsKept(n)
      /\ scan = [classes |-> scan.classes, roots |-> scan.roots, retained |-> scan.retained,
                 truncated |-> scan.truncated]
  BY DEF Kept
<1>5. ClassesEnd(m)' /\ \A k : FileUpto(k)' = FileUpto(k)
  BY <1>2 DEF ClassesEnd, FileUpto
<1>6. RecordsOf("instance")' = RecordsOf("instance")
  BY DEF RecordsOf
<1>7. CASE r.tag = "class"
  <2>1. scan' = [scan EXCEPT !.classes = Append(@, r)]
    BY <1>7 DEF Note
  <2>2. /\ scan'.classes = Append(scan.classes, r) /\ scan'.roots = scan.roots
        /\ scan'.retained = scan.retained /\ scan'.truncated = scan.truncated
        /\ scan' = [classes |-> scan'.classes, roots |-> scan'.roots, retained |-> scan'.retained,
                    truncated |-> scan'.truncated]
    BY <2>1, <1>4
  <2>3. n + 1 =< m
    BY <1>1, <1>3, <1>7
  <2>4. Least(n, m) = n /\ Least(n + 1, m) = n + 1
    BY <2>3, <1>1, <1>3 DEF Least
  <2>5. scan'.classes = FileUpto(n + 1)
    BY <2>2, <2>4, <1>1, <1>2, FileGrows
  <2>6. ClassesKept(n + 1)'
    BY <2>4, <2>5, <1>5 DEF ClassesKept
  <2>7. \A i \in 1..(n + 1) : job.file[i].tag = "class"
    BY <2>3, <1>1, <1>3
  <2>8. RootsKept(n + 1)'
    BY <2>2, <2>7, <1>1, <1>4 DEF RootsKept
  <2>9. ObjectsKept(n + 1)'
    BY <2>2, <2>7, <1>1, <1>4, <1>6 DEF ObjectsKept
  <2>. QED
    BY <1>1, <2>2, <2>6, <2>8, <2>9 DEF Kept
<1>8. CASE r.tag # "class"
  <2>1. m < n + 1 /\ Least(n, m) = m /\ Least(n + 1, m) = m
    BY <1>8, <1>1, <1>3 DEF Least
  <2>2. ASSUME scan'.classes = scan.classes
        PROVE  ClassesKept(n + 1)' /\ ClassesIn(scan)' = ClassesIn(scan)
               /\ \A c : Wants(scan, c)' = Wants(scan, c)
    <3>1. ClassesIn(scan)' = ClassesIn(scan)
      BY <2>2 DEF ClassesIn
    <3>2. \A c : Wants(scan, c)' = Wants(scan, c)
      BY <3>1 DEF Wants, NameIn
    <3>. QED
      BY <3>1, <3>2, <2>1, <2>2, <1>2, <1>5 DEF ClassesKept
  <2>3. CASE r.tag = "root"
    <3>1. scan' = [scan EXCEPT !.roots = @ \cup {r.oid}]
      BY <2>3 DEF Note
    <3>2. /\ scan'.classes = scan.classes /\ scan'.roots = scan.roots \cup {r.oid}
          /\ scan'.retained = scan.retained /\ scan'.truncated = scan.truncated
          /\ scan' = [classes |-> scan'.classes, roots |-> scan'.roots, retained |-> scan'.retained,
                      truncated |-> scan'.truncated]
      BY <3>1, <1>4
    <3>3. RootsKept(n + 1)'
      BY <3>2, <2>3, <1>1, <1>4 DEF RootsKept
    <3>4. \A i \in 1..(n + 1) : i # n + 1 => i \in 1..n
      BY <1>1
    <3>5. ObjectsKept(n + 1)'
      BY <3>2, <3>4, <2>2, <2>3, <1>4, <1>6 DEF ObjectsKept
    <3>. QED
      BY <1>1, <3>2, <2>2, <3>3, <3>5 DEF Kept
  <2>4. CASE r.tag = "instance" /\ Wants(scan, r.cid)
    <3>1. scan' = NoteInstance(scan, r)
      BY <2>4 DEF Note
    <3>2. /\ scan'.classes = scan.classes /\ scan'.roots = scan.roots
          /\ \/ scan'.retained = scan.retained /\ scan'.truncated = TRUE
             \/ scan'.retained = Append(scan.retained, r) /\ scan'.truncated = scan.truncated
          /\ scan' = [classes |-> scan'.classes, roots |-> scan'.roots, retained |-> scan'.retained,
                      truncated |-> scan'.truncated]
      BY <3>1, <1>4 DEF NoteInstance
    <3>3. \A i \in 1..(n + 1) : i # n + 1 => i \in 1..n
      BY <1>1
    <3>4. RootsKept(n + 1)'
      BY <3>2, <3>3, <2>4, <1>1, <1>4 DEF RootsKept
    <3>5. r \in RecordsOf("instance")
      BY <2>4, <1>1, RecordsAtPositions
    <3>6. ASSUME scan'.retained = scan.retained, scan'.truncated = TRUE
          PROVE  ObjectsKept(n + 1)'
      BY <3>6, <1>4, <1>6 DEF ObjectsKept
    <3>7. ASSUME scan'.retained = Append(scan.retained, r), scan'.truncated = scan.truncated
          PROVE  ObjectsKept(n + 1)'
      <4>1. scan.retained \in Seq(RecordsOf("instance"))
        BY <1>4 DEF ObjectsKept
      <4>2. /\ scan'.retained \in Seq(RecordsOf("instance"))
            /\ Len(scan'.retained) = Len(scan.retained) + 1 /\ Len(scan.retained) \in Nat
            /\ scan'.retained[Len(scan.retained) + 1] = r
            /\ \A i \in 1..Len(scan.retained) : scan'.retained[i] = scan.retained[i]
        BY <4>1, <3>5, <3>7
      <4>3. ASSUME scan.truncated = FALSE, NEW i \in 1..(n + 1), job.file[i].tag = "instance",
                   Wants(scan, job.file[i].cid)
            PROVE  \E k \in 1..Len(scan'.retained) : scan'.retained[k] = job.file[i]
        <5>1. CASE i = n + 1
          BY <5>1, <4>2
        <5>2. CASE i # n + 1
          <6>1. PICK k \in 1..Len(scan.retained) : scan.retained[k] = job.file[i]
            BY <5>2, <4>3, <3>3, <1>4 DEF ObjectsKept
          <6>2. k \in 1..Len(scan'.retained) /\ scan'.retained[k] = job.file[i]
            BY <6>1, <4>2
          <6>. QED
            BY <6>2
        <5>. QED
          BY <5>1, <5>2
      <4>. QED
        BY <4>2, <4>3, <3>2, <3>7, <2>2, <1>4, <1>6 DEF ObjectsKept
    <3>8. ObjectsKept(n + 1)'
      BY <3>2, <3>6, <3>7
    <3>. QED
      BY <1>1, <3>2, <2>2, <3>4, <3>8 DEF Kept
  <2>5. CASE r.tag # "root" /\ ~(r.tag = "instance" /\ Wants(scan, r.cid))
    <3>1. scan' = scan
      BY <2>5, <1>8 DEF Note
    <3>2. \A i \in 1..(n + 1) : i # n + 1 => i \in 1..n
      BY <1>1
    <3>3. RootsKept(n + 1)'
      BY <3>1, <3>2, <2>5, <1>1, <1>4 DEF RootsKept
    <3>4. ObjectsKept(n + 1)'
      BY <3>1, <3>2, <2>2, <2>5, <1>4, <1>6 DEF ObjectsKept
    <3>. QED
      BY <1>1, <1>4, <3>1, <2>2, <3>3, <3>4 DEF Kept
  <2>. QED
    BY <2>3, <2>4, <2>5
<1>. QED
  BY <1>7, <1>8

(* The positions up to m in ascending order.                               *)
LEMMA AllInOrder ==
    ASSUME NEW m \in Nat
    PROVE  Ascending(1..m) = [k \in 1..m |-> k]
<1>. DEFINE R == {p \in (1..m) \X (1..m) : p[1] < p[2]}
            place == [i \in 1..m |-> Cardinality({j \in 1..m : <<j, i>> \in R})]
<1>1. ASSUME NEW i \in 1..m
      PROVE  place[i] = i - 1
  <2>1. {j \in 1..m : <<j, i>> \in R} = 1..(i - 1)
    OBVIOUS
  <2>2. Cardinality(1..(i - 1)) = i - 1
    BY FS_Interval
  <2>. QED
    BY <2>1, <2>2
<1>2. Cardinality(1..m) = m
  BY FS_Interval
<1>3. Ascending(1..m) = [k \in 1..m |-> CHOOSE i \in 1..m : place[i] = k - 1]
  BY <1>2 DEF Ascending, Arranged
<1>. HIDE DEF place
<1>4. ASSUME NEW k \in 1..m
      PROVE  (CHOOSE i \in 1..m : place[i] = k - 1) = k
  <2>1. \A i \in 1..m : place[i] = k - 1 <=> i = k
    BY <1>1
  <2>2. \E i \in 1..m : place[i] = k - 1
    BY <2>1
  <2>3. /\ (CHOOSE i \in 1..m : place[i] = k - 1) \in 1..m
        /\ place[CHOOSE i \in 1..m : place[i] = k - 1] = k - 1
    BY <2>2
  <2>. QED
    BY <2>1, <2>3
<1>. QED
  BY <1>3, <1>4

(* A scan, or the whole file: instances of the file, in any order.         *)
HasRecords(s) == s.retained \in Seq(RecordsOf("instance"))

(* The whole file holds its classes and instances.                         *)
LEMMA EverythingThereIs ==
    ASSUME job \in DeploymentJobs
    PROVE  /\ \A m : ClassesEnd(m) => Everything.classes = FileUpto(m)
           /\ HasRecords(Everything)
           /\ \A r \in RecordsOf("instance") :
                  \E k \in 1..Len(Everything.retained) : Everything.retained[k] = r
<1>. DEFINE n == Len(job.file)
            C == {i \in 1..n : job.file[i].tag = "class"}
            O == {i \in 1..n : job.file[i].tag = "instance"}
            kept == PickedFrom(job.file, O)
<1>1. n \in Nat
  BY FileFacts
<1>2. Everything.classes = PickedFrom(job.file, C) /\ Everything.retained = kept
  BY DEF Everything, NoScan, Those, Positions, PickedFrom
<1>3. ASSUME NEW m, ClassesEnd(m)
      PROVE  Everything.classes = FileUpto(m)
  <2>1. C = 1..m /\ m \in Nat
    BY <1>1, <1>3 DEF ClassesEnd
  <2>2. PickedFrom(job.file, 1..m) = FileUpto(m)
    <3>1. Ascending(1..m) = [k \in 1..m |-> k] /\ Len(Ascending(1..m)) = m
      BY <2>1, AllInOrder
    <3>. QED
      BY <3>1, <2>1 DEF PickedFrom, FileUpto
  <2>. HIDE DEF C
  <2>. QED
    BY <1>2, <2>1, <2>2
<1>4. O \in SUBSET (1..n)
  OBVIOUS
<1>5. \A i \in O : i \in 1..n /\ job.file[i] \in RecordsOf("instance")
  BY RecordsAtPositions
<1>6. ASSUME NEW r \in RecordsOf("instance")
      PROVE  \E i \in O : job.file[i] = r
  BY RecordsAtPositions
<1>. HIDE DEF n, O
<1>7. /\ Len(kept) \in Nat /\ DOMAIN kept = 1..Len(kept)
      /\ \A i \in O : \E k \in 1..Len(kept) : kept[k] = job.file[i]
      /\ \A k \in 1..Len(kept) : \E i \in O : kept[k] = job.file[i]
  BY <1>1, <1>4, PickedAreKept, Zenon
<1>8. \A k \in 1..Len(kept) : kept[k] \in RecordsOf("instance")
  BY <1>5, <1>7
<1>9. kept = [k \in 1..Len(kept) |-> kept[k]]
  <2>1. kept = [k \in 1..Len(Ascending(O)) |-> job.file[Ascending(O)[k]]]
    BY DEF PickedFrom
  <2>. HIDE DEF kept
  <2>. QED
    BY <2>1, <1>7
<1>. HIDE DEF kept
<1>10. kept \in Seq(RecordsOf("instance"))
  BY <1>7, <1>8, <1>9
<1>11. ASSUME NEW r \in RecordsOf("instance")
       PROVE  \E k \in 1..Len(kept) : kept[k] = r
  BY <1>6, <1>7
<1>. QED
  BY <1>2, <1>3, <1>10, <1>11 DEF HasRecords

(* The object that an identifier is kept as.                               *)
LEMMA KeptIsRecord ==
    ASSUME NEW s, HasRecords(s), NEW oid, KeptAs(s, oid) # {}
    PROVE  /\ s.retained[Max(KeptAs(s, oid))] \in RecordsOf("instance")
           /\ s.retained[Max(KeptAs(s, oid))].oid = oid
<1>1. /\ Len(s.retained) \in Nat /\ DOMAIN s.retained = 1..Len(s.retained)
      /\ \A k \in 1..Len(s.retained) : s.retained[k] \in RecordsOf("instance")
  BY DEF HasRecords
<1>2. KeptAs(s, oid) \in SUBSET Nat /\ \A k \in KeptAs(s, oid) : k =< Len(s.retained)
  BY <1>1 DEF KeptAs
<1>3. Max(KeptAs(s, oid)) \in KeptAs(s, oid)
  BY <1>1, <1>2, LargestNumber
<1>. QED
  BY <1>1, <1>3 DEF KeptAs

(* A kept object has the fields it has in the file.                        *)
LEMMA FieldOfRecord ==
    ASSUME job \in DeploymentJobs, NEW s, HasRecords(s),
           NEW r \in RecordsOf("instance"), KeptAs(s, r.oid) # {}, NEW field
    PROVE  Field(s, r.oid, field) = Decoded(r.slots, field)
<1>1. /\ s.retained[Max(KeptAs(s, r.oid))] \in RecordsOf("instance")
      /\ s.retained[Max(KeptAs(s, r.oid))].oid = r.oid
  BY KeptIsRecord
<1>2. s.retained[Max(KeptAs(s, r.oid))] = r
  BY <1>1, OneRecord
<1>. QED
  BY <1>2 DEF Field

(* Null is no object.                                                      *)
LEMMA NullIsNotKept ==
    ASSUME job \in DeploymentJobs, NEW s, HasRecords(s), NEW field
    PROVE  Field(s, 0, field) = 0
<1>1. \A r \in RecordsOf("instance") : r.oid # 0
  BY RecordsAtPositions, FileFacts
<1>2. KeptAs(s, 0) = {}
  BY <1>1, KeptIsRecord
<1>. QED
  BY <1>2 DEF Field

(* The scan shows an object as the file has it, or not at all.             *)
LEMMA FieldsAgree ==
    ASSUME job \in DeploymentJobs, HasRecords(scan), NEW oid
    PROVE  \/ \A field : Field(scan, oid, field) = 0
           \/ \A field : Field(scan, oid, field) = Field(Everything, oid, field)
<1>1. CASE KeptAs(scan, oid) = {}
  BY <1>1 DEF Field
<1>2. CASE KeptAs(scan, oid) # {}
  <2>1. PICK r \in RecordsOf("instance") : r.oid = oid
    BY <1>2, KeptIsRecord
  <2>2. PICK k \in 1..Len(Everything.retained) : Everything.retained[k] = r
    BY <2>1, EverythingThereIs
  <2>3. Everything.retained \in Seq(RecordsOf("instance"))
    BY EverythingThereIs DEF HasRecords
  <2>4. DOMAIN Everything.retained = 1..Len(Everything.retained)
    BY <2>3
  <2>5. KeptAs(Everything, oid) # {}
    BY <2>1, <2>2, <2>4 DEF KeptAs
  <2>6. ASSUME NEW field
        PROVE  Field(scan, oid, field) = Field(Everything, oid, field)
    <3>1. KeptAs(scan, r.oid) # {} /\ KeptAs(Everything, r.oid) # {} /\ HasRecords(Everything)
      BY <1>2, <2>1, <2>5, EverythingThereIs
    <3>2. Field(scan, r.oid, field) = Decoded(r.slots, field)
      BY <3>1, FieldOfRecord
    <3>3. Field(Everything, r.oid, field) = Decoded(r.slots, field)
      BY <3>1, FieldOfRecord
    <3>. QED
      BY <3>2, <3>3, <2>1
  <2>. QED
    BY <2>6
<1>. QED
  BY <1>1, <1>2

(* Where a loader's classes come from, and what it is called: as the file  *)
(* has it, or unknown.                                                     *)
LEMMA OriginsAgree ==
    ASSUME job \in DeploymentJobs, HasRecords(scan), scan.classes = Everything.classes, NEW l
    PROVE  /\ LocationOf(scan, l) \in {0, LocationOf(Everything, l)}
           /\ ContextOf(scan, l) \in {0, ContextOf(Everything, l)}
<1>1. HasRecords(Everything)
  BY EverythingThereIs
<1>2. FirstOf(<<0, 0>>) = 0 /\ FirstOf(<<0, 0, 0>>) = 0
  BY DEF FirstOf
<1>3. ContextOf(scan, l) \in {0, ContextOf(Everything, l)}
  BY <1>2, FieldsAgree DEF ContextOf
<1>4. ProtectionDomainOf(scan, l) = ProtectionDomainOf(Everything, l)
  BY DEF ProtectionDomainOf
<1>. DEFINE pd == ProtectionDomainOf(scan, l)
            source == Field(Everything, pd, "codesource")
            url == Field(Everything, source, "location")
<1>5. Field(scan, pd, "codesource") \in {0, source}
  BY FieldsAgree
<1>6. Field(scan, Field(scan, pd, "codesource"), "location") \in {0, url}
  BY <1>5, FieldsAgree, NullIsNotKept
<1>7. /\ LocationOf(Everything, l) =
            FirstOf(<<Field(Everything, url, "file"), Field(Everything, url, "path")>>)
      /\ LocationOf(scan, l) =
            LET u == Field(scan, Field(scan, pd, "codesource"), "location")
            IN  FirstOf(<<Field(scan, u, "file"), Field(scan, u, "path")>>)
  BY <1>4 DEF LocationOf
<1>. HIDE DEF pd, source, url
<1>8. FirstOf(<<Field(scan, 0, "file"), Field(scan, 0, "path")>>) = 0
  BY <1>2, NullIsNotKept
<1>9. FirstOf(<<Field(scan, url, "file"), Field(scan, url, "path")>>)
        \in {0, FirstOf(<<Field(Everything, url, "file"), Field(Everything, url, "path")>>)}
  BY <1>2, FieldsAgree
<1>10. LocationOf(scan, l) \in {0, LocationOf(Everything, l)}
  BY <1>6, <1>7, <1>8, <1>9
<1>. QED
  BY <1>3, <1>10

-----------------------------------------------------------------------------
(* HeapDeployments: the lookup of names.                                   *)

(* What a string says of itself: where its text is.                        *)
StringBodies == {<<r.oid, Decoded(r.slots, "value")>> : r \in RecordsOf("instance")}

(* The texts found are those of the file.                                  *)
TextsAreTrue ==
    /\ names = [text |-> names.text, klass |-> names.klass]
    /\ \A oid \in DOMAIN names.text :
           oid # 0 /\ names.text[oid] = TrueText(oid) /\ names.text[oid] # None

(* The text of a string is that of its array.                              *)
LEMMA TextOfString ==
    ASSUME job \in DeploymentJobs, NEW r \in RecordsOf("instance"), NEW a \in RecordsOf("array"),
           Decoded(r.slots, "value") = a.oid
    PROVE  TrueText(r.oid) = a.text
<1>1. {q \in RecordsOf("instance") : q.oid = r.oid} = {r}
  BY OneRecord
<1>2. {b \in RecordsOf("array") : \E q \in {r} : Decoded(q.slots, "value") = b.oid} = {a}
  BY OneRecord
<1>3. {b.text : b \in {a}} = {a.text}
  OBVIOUS
<1>. QED
  BY <1>1, <1>2, <1>3 DEF TrueText

(* An array that is wanted is that of a string that was found.             *)
LEMMA StringIsFound ==
    ASSUME job \in DeploymentJobs, bodies \in Seq(StringBodies), NEW array \in ArraysOf(bodies)
    PROVE  \E r \in RecordsOf("instance") :
               StringOf(bodies, array) = r.oid /\ Decoded(r.slots, "value") = array
<1>. DEFINE S == {i \in DOMAIN bodies : bodies[i][2] = array}
<1>1. /\ Len(bodies) \in Nat /\ DOMAIN bodies = 1..Len(bodies)
      /\ \A i \in 1..Len(bodies) : bodies[i] \in StringBodies
  OBVIOUS
<1>2. S \in SUBSET Nat /\ \A i \in S : i =< Len(bodies)
  BY <1>1
<1>3. S # {}
  BY DEF ArraysOf
<1>4. Max(S) \in S
  <2>. HIDE DEF S
  <2>. QED
    BY <1>1, <1>2, <1>3, LargestNumber
<1>5. bodies[Max(S)] \in StringBodies /\ bodies[Max(S)][2] = array
  BY <1>1, <1>4
<1>6. StringOf(bodies, array) = bodies[Max(S)][1]
  BY DEF StringOf
<1>. HIDE DEF S
<1>. QED
  BY <1>5, <1>6 DEF StringBodies

(* One text more.                                                          *)
LEMMA TextsStayTrue ==
    ASSUME job \in DeploymentJobs, bodies \in Seq(StringBodies), TextsAreTrue,
           NEW a \in RecordsOf("array"), a.oid \in ArraysOf(bodies), job' = job,
           names' = [names EXCEPT !.text = Put(@, StringOf(bodies, a.oid), a.text)]
    PROVE  TextsAreTrue'
<1>1. PICK r \in RecordsOf("instance") :
          StringOf(bodies, a.oid) = r.oid /\ Decoded(r.slots, "value") = a.oid
  BY StringIsFound
<1>2. TrueText(r.oid) = a.text
  BY <1>1, TextOfString
<1>3. r.oid # 0 /\ a.text # None
  BY RecordsAtPositions, FileFacts
<1>4. names = [text |-> names.text, klass |-> names.klass]
  BY DEF TextsAreTrue
<1>5. /\ names'.text = Put(names.text, r.oid, a.text)
      /\ names' = [text |-> names'.text, klass |-> names'.klass]
  BY <1>1, <1>4
<1>6. /\ DOMAIN names'.text = {r.oid} \cup DOMAIN names.text
      /\ \A oid \in DOMAIN names'.text :
             names'.text[oid] = IF oid = r.oid THEN a.text ELSE names.text[oid]
  BY <1>5 DEF Put
<1>7. \A oid : TrueText(oid)' = TrueText(oid)
  BY DEF TrueText, RecordsOf
<1>8. \A oid \in DOMAIN names.text :
          oid # 0 /\ names.text[oid] = TrueText(oid) /\ names.text[oid] # None
  BY DEF TextsAreTrue
<1>9. ASSUME NEW oid \in DOMAIN names'.text
      PROVE  oid # 0 /\ names'.text[oid] = TrueText(oid)' /\ names'.text[oid] # None
  BY <1>2, <1>3, <1>6, <1>7, <1>8
<1>. QED
  BY <1>5, <1>9 DEF TextsAreTrue

(* Names of classes do not change the texts.                               *)
LEMMA TextsAreKept ==
    ASSUME TextsAreTrue, job' = job, names'.text = names.text,
           names' = [text |-> names'.text, klass |-> names'.klass]
    PROVE  TextsAreTrue'
<1>1. \A oid : TrueText(oid)' = TrueText(oid)
  BY DEF TrueText, RecordsOf
<1>2. \A oid \in DOMAIN names.text :
          oid # 0 /\ names.text[oid] = TrueText(oid) /\ names.text[oid] # None
  BY DEF TextsAreTrue
<1>3. ASSUME NEW oid \in DOMAIN names'.text
      PROVE  oid # 0 /\ names'.text[oid] = TrueText(oid)' /\ names'.text[oid] # None
  BY <1>1, <1>2
<1>. QED
  BY <1>3 DEF TextsAreTrue

(* The invariant of an analysis of deployments.                            *)
LookupInv ==
    /\ job \in DeploymentJobs
    /\ offset \in Nat \ {0}
    /\ pass = "scan" => offset =< Len(job.file) + 1 /\ Kept(offset - 1)
    /\ pass # "scan" => Kept(Len(job.file))
    /\ bodies \in Seq(StringBodies)
    /\ TextsAreTrue
    /\ pass = "arrays" => wanted \subseteq ArraysOf(bodies)
    /\ pass = "done" => ownership = Analysis(scan, names)

DeploymentsInv ==
    /\ pass \in {"idle", "scan", "instances", "arrays", "report", "done"}
    /\ pass # "idle" => LookupInv

(* No names are true names.                                                *)
LEMMA NoNamesAreTrue ==
    /\ names = NoNames => TextsAreTrue
    /\ names' = NoNames => TextsAreTrue'
<1>1. NoNames.text = <<>> /\ NoNames = [text |-> NoNames.text, klass |-> NoNames.klass]
  BY DEF NoNames
<1>2. DOMAIN NoNames.text = {}
  BY <1>1
<1>. QED
  BY <1>1, <1>2 DEF TextsAreTrue

LEMMA DeploymentsStart == DeploymentsInit \/ DeploymentsIdle => DeploymentsInv
<1>1. CASE DeploymentsInit
  <2>1. /\ job \in DeploymentJobs /\ pass = "scan" /\ offset = 1 /\ scan = NoScan
        /\ bodies = <<>> /\ names = NoNames
    BY <1>1 DEF DeploymentsInit
  <2>2. Kept(offset - 1) /\ offset =< Len(job.file) + 1
    BY <2>1, NothingKept, FileFacts
  <2>. QED
    BY <2>1, <2>2, NoNamesAreTrue DEF DeploymentsInv, LookupInv
<1>2. CASE DeploymentsIdle
  BY <1>2 DEF DeploymentsIdle, DeploymentsInv
<1>. QED
  BY <1>1, <1>2

(* The scan and the job stay after the scan.                               *)
LEMMA KeptStays ==
    ASSUME job' = job, scan' = scan
    PROVE  /\ Kept(Len(job.file)) => Kept(Len(job.file))'
           /\ offset' = offset /\ Kept(offset - 1) => Kept(offset - 1)'
  BY DEF Kept, ClassesKept, RootsKept, ObjectsKept, ClassesEnd, FileUpto, Least, RecordsOf,
         Wants, NameIn, ClassesIn

(* Every step keeps it.                                                    *)
LEMMA DeploymentsStep == ASSUME DeploymentsInv, DeploymentsNext PROVE DeploymentsInv'
<1>0. LookupInv /\ pass \in {"scan", "instances", "arrays", "report"}
  BY DEF DeploymentsInv, DeploymentsNext, Capture, StartLookup, ReadInstance, StartArrays,
         ReadArray, EndLookup, LookupFails, AnalyzeDeployments
<1>1. /\ job \in DeploymentJobs /\ offset \in Nat \ {0} /\ TextsAreTrue
      /\ bodies \in Seq(StringBodies)
      /\ pass = "scan" => offset =< Len(job.file) + 1 /\ Kept(offset - 1)
      /\ pass # "scan" => Kept(Len(job.file))
  BY <1>0 DEF LookupInv
<1>2. Len(job.file) \in Nat
  BY <1>1, FileFacts
<1>3. ASSUME job' = job, scan' = scan, Kept(Len(job.file))
      PROVE  Kept(Len(job.file))' /\ StringBodies' = StringBodies
  <2>1. Kept(Len(job.file))'
    BY <1>3, KeptStays
  <2>2. StringBodies' = StringBodies
    BY <1>3 DEF StringBodies, RecordsOf
  <2>. QED
    BY <2>1, <2>2
<1>4. ASSUME job' = job, names' = names
      PROVE  TextsAreTrue' /\ StringBodies' = StringBodies
  <2>1. names' = [text |-> names'.text, klass |-> names'.klass]
    BY <1>1, <1>4 DEF TextsAreTrue
  <2>2. TextsAreTrue'
    BY <1>1, <1>4, <2>1, TextsAreKept
  <2>3. StringBodies' = StringBodies
    BY <1>4 DEF StringBodies, RecordsOf
  <2>. QED
    BY <2>2, <2>3
<1>5. ASSUME offset - 1 = Len(job.file), Kept(offset - 1) PROVE Kept(Len(job.file))
  BY <1>5
<1>6. CASE Capture
  <2>1. /\ pass = "scan" /\ offset =< Len(job.file) /\ offset' = offset + 1
        /\ scan' = Note(scan, job.file[offset])
        /\ job' = job /\ pass' = pass /\ bodies' = bodies /\ names' = names
    BY <1>6 DEF Capture, NextRecord
  <2>2. PICK n \in Nat : n = offset - 1
    BY <1>1
  <2>3. /\ Kept(n) /\ n < Len(job.file) /\ scan' = Note(scan, job.file[n + 1])
        /\ offset' = n + 2 /\ offset' \in Nat \ {0} /\ offset' - 1 = n + 1
    BY <2>1, <2>2, <1>1, <1>2
  <2>4. Kept(n + 1)'
    BY <2>1, <2>3, <1>1, CaptureKeeps
  <2>5. Kept(offset - 1)'
    BY <2>3, <2>4
  <2>. QED
    BY <2>1, <2>3, <2>5, <1>1, <1>2, <1>4 DEF DeploymentsInv, LookupInv
<1>7. CASE StartLookup
  <2>1. /\ pass = "scan" /\ offset > Len(job.file) /\ offset' = 1
        /\ pass' \in {"report", "instances"}
        /\ job' = job /\ scan' = scan /\ bodies' = bodies /\ names' = names
    BY <1>7 DEF StartLookup
  <2>2. Kept(Len(job.file))
    BY <2>1, <1>1, <1>2, <1>5
  <2>. QED
    BY <2>1, <2>2, <1>1, <1>3, <1>4 DEF DeploymentsInv, LookupInv
<1>8. CASE ReadInstance
  <2>1. /\ pass = "instances" /\ pass' = pass /\ offset' = offset + 1 /\ offset =< Len(job.file)
        /\ job' = job /\ scan' = scan
    BY <1>8 DEF ReadInstance
  <2>2. job.file[offset].tag = "instance" => job.file[offset] \in RecordsOf("instance")
    BY <2>1, <1>1, <1>2, RecordsAtPositions
  <2>3. /\ \/ names' = names
           \/ \E oid, class : names' = [names EXCEPT !.klass = Put(@, oid, class)]
        /\ \/ bodies' = bodies
           \/ \E b \in StringBodies : bodies' = Append(bodies, b)
    BY <2>2, <1>8 DEF ReadInstance, NextRecord, StringBodies
  <2>4. TextsAreTrue'
    <3>1. names = [text |-> names.text, klass |-> names.klass]
      BY <1>1 DEF TextsAreTrue
    <3>2. ASSUME names' = names
          PROVE  /\ names'.text = names.text
                 /\ names' = [text |-> names'.text, klass |-> names'.klass]
      BY <3>1, <3>2
    <3>3. ASSUME NEW oid, NEW class, names' = [names EXCEPT !.klass = Put(@, oid, class)]
          PROVE  /\ names'.text = names.text
                 /\ names' = [text |-> names'.text, klass |-> names'.klass]
      BY <3>1, <3>3
    <3>4. names'.text = names.text /\ names' = [text |-> names'.text, klass |-> names'.klass]
      BY <2>3, <3>1, <3>2, <3>3
    <3>. QED
      BY <2>1, <3>4, <1>1, TextsAreKept
  <2>5. StringBodies' = StringBodies /\ Kept(Len(job.file))'
    BY <2>1, <1>1, <1>3
  <2>6. bodies' \in Seq(StringBodies)
    BY <2>3, <1>1
  <2>. QED
    BY <2>1, <2>4, <2>5, <2>6, <1>1 DEF DeploymentsInv, LookupInv
<1>9. CASE StartArrays
  <2>1. /\ pass = "instances" /\ offset' = 1 /\ wanted' = ArraysOf(bodies)
        /\ pass' \in {"report", "arrays"}
        /\ job' = job /\ scan' = scan /\ bodies' = bodies /\ names' = names
    BY <1>9 DEF StartArrays
  <2>. QED
    BY <2>1, <1>1, <1>3, <1>4 DEF DeploymentsInv, LookupInv
<1>10. CASE ReadArray
  <2>. DEFINE r == job.file[offset]
  <2>1. /\ pass = "arrays" /\ pass' = pass /\ offset' = offset + 1 /\ offset =< Len(job.file)
        /\ job' = job /\ scan' = scan /\ bodies' = bodies
        /\ wanted \subseteq ArraysOf(bodies)
    BY <1>0, <1>10 DEF ReadArray, LookupInv
  <2>2. r.tag = "array" => r \in RecordsOf("array")
    BY <2>1, <1>1, <1>2, RecordsAtPositions
  <2>3. \/ wanted' = wanted /\ names' = names
        \/ /\ r.tag = "array" /\ r.oid \in wanted /\ wanted' = wanted \ {r.oid}
           /\ names' = [names EXCEPT !.text = Put(@, StringOf(bodies, r.oid), r.text)]
    BY <1>10 DEF ReadArray, NextRecord
  <2>. HIDE DEF r
  <2>4. TextsAreTrue'
    BY <2>1, <2>2, <2>3, <1>1, <1>4, TextsStayTrue
  <2>5. wanted' \subseteq ArraysOf(bodies)
    BY <2>1, <2>3
  <2>. QED
    BY <2>1, <2>4, <2>5, <1>1, <1>3 DEF DeploymentsInv, LookupInv
<1>11. CASE EndLookup
  <2>1. /\ pass = "arrays" /\ pass' = "report" /\ offset' = offset
        /\ job' = job /\ scan' = scan /\ bodies' = bodies /\ names' = names
    BY <1>11 DEF EndLookup
  <2>. QED
    BY <2>1, <1>1, <1>3, <1>4 DEF DeploymentsInv, LookupInv
<1>12. CASE LookupFails
  <2>1. /\ pass \in {"instances", "arrays"} /\ pass' = "report" /\ offset' = offset
        /\ job' = job /\ scan' = scan /\ bodies' = bodies /\ names' = NoNames
    BY <1>12 DEF LookupFails
  <2>. QED
    BY <2>1, <1>1, <1>3, NoNamesAreTrue DEF DeploymentsInv, LookupInv
<1>13. CASE AnalyzeDeployments
  <2>1. /\ pass = "report" /\ pass' = "done" /\ offset' = offset
        /\ ownership' = Analysis(scan, names)
        /\ job' = job /\ scan' = scan /\ bodies' = bodies /\ names' = names
    BY <1>13 DEF AnalyzeDeployments
  <2>2. ownership' = Analysis(scan, names)'
    BY <2>1
  <2>. QED
    BY <2>1, <2>2, <1>1, <1>3, <1>4 DEF DeploymentsInv, LookupInv
<1>. QED
  BY <1>6, <1>7, <1>8, <1>9, <1>10, <1>11, <1>12, <1>13 DEF DeploymentsNext

(* Other analyses leave it alone.                                          *)
LEMMA DeploymentsUntouched ==
    ASSUME DeploymentsInv, UNCHANGED deploymentVars PROVE DeploymentsInv'
<1>1. /\ job' = job /\ pass' = pass /\ offset' = offset /\ scan' = scan /\ wanted' = wanted
      /\ bodies' = bodies /\ names' = names /\ ownership' = ownership
  BY DEF deploymentVars
<1>2. CASE pass = "idle"
  BY <1>1, <1>2 DEF DeploymentsInv
<1>3. CASE pass # "idle"
  <2>1. LookupInv
    BY <1>3 DEF DeploymentsInv
  <2>2. TextsAreTrue'
    <3>1. TextsAreTrue /\ names' = [text |-> names'.text, klass |-> names'.klass]
      BY <1>1, <2>1 DEF LookupInv, TextsAreTrue
    <3>. QED
      BY <1>1, <3>1, TextsAreKept
  <2>5. StringBodies' = StringBodies
    BY <1>1 DEF StringBodies, RecordsOf
  <2>6. ArraysOf(bodies)' = ArraysOf(bodies) /\ Analysis(scan, names)' = Analysis(scan, names)
    BY <1>1
  <2>3. pass # "scan" => Kept(Len(job.file))'
    BY <1>1, <2>1, KeptStays DEF LookupInv
  <2>4. pass = "scan" => Kept(offset - 1)'
    BY <1>1, <2>1, KeptStays DEF LookupInv
  <2>. QED
    BY <1>1, <2>1, <2>2, <2>3, <2>4, <2>5, <2>6 DEF DeploymentsInv, LookupInv
<1>. QED
  BY <1>2, <1>3

LEMMA DeploymentsInductive ==
    /\ ReportsInit => DeploymentsInv
    /\ DeploymentsInv /\ [ReportsNext]_reportVars => DeploymentsInv'
<1>1. ASSUME ReportsInit PROVE DeploymentsInv
  BY <1>1, DeploymentsStart DEF ReportsInit
<1>2. ASSUME DeploymentsInv, [ReportsNext]_reportVars PROVE DeploymentsInv'
  <2>1. DeploymentsNext \/ UNCHANGED deploymentVars
    BY <1>2 DEF ReportsNext, reportVars
  <2>. QED
    BY <1>2, <2>1, DeploymentsStep, DeploymentsUntouched
<1>. QED
  BY <1>1, <1>2

-----------------------------------------------------------------------------
(* HeapDeployments: who owns what.                                         *)

(* Everything the scan could keep of a file is kept, or it says so.        *)
LEMMA ScanShowsTheFile ==
    ASSUME job \in DeploymentJobs, Kept(Len(job.file))
    PROVE  /\ scan.classes = Everything.classes /\ ClassesIn(scan) = ClassesIn(Everything)
           /\ HasRecords(scan) /\ scan.truncated \in BOOLEAN
           /\ scan.roots = {r.oid : r \in RecordsOf("root")}
           /\ \E m \in 0..Len(job.file) : Len(scan.classes) = m /\ DOMAIN scan.classes = 1..m
                  /\ \A i \in 1..m : scan.classes[i] = job.file[i] /\ scan.classes[i] \in RecordsOf("class")
           /\ \A c \in RecordsOf("class") : \E i \in DOMAIN scan.classes : scan.classes[i] = c
           /\ scan.truncated = FALSE =>
                  \A r \in RecordsOf("instance") : Wants(scan, r.cid) =>
                      \E k \in 1..Len(scan.retained) : scan.retained[k] = r
<1>. DEFINE n == Len(job.file)
<1>1. n \in Nat
  BY FileFacts
<1>2. PICK m : ClassesEnd(m) /\ scan.classes = FileUpto(Least(n, m))
  BY DEF Kept, ClassesKept
<1>3. m \in 0..n /\ Least(n, m) = m
  BY <1>1, <1>2 DEF ClassesEnd, Least
<1>4. scan.classes = FileUpto(m) /\ Everything.classes = FileUpto(m)
  BY <1>2, <1>3, EverythingThereIs
<1>5. ClassesIn(scan) = ClassesIn(Everything)
  BY <1>4 DEF ClassesIn
<1>6. /\ Len(scan.classes) = m /\ DOMAIN scan.classes = 1..m
      /\ \A i \in 1..m : scan.classes[i] = job.file[i]
  BY <1>3, <1>4 DEF FileUpto
<1>7. \A i \in 1..m : i \in 1..n /\ job.file[i].tag = "class"
  BY <1>2, <1>3, <1>1 DEF ClassesEnd
<1>8. \A i \in 1..m : job.file[i] \in RecordsOf("class")
  BY <1>7, RecordsAtPositions
<1>9. ASSUME NEW c \in RecordsOf("class")
      PROVE  \E i \in DOMAIN scan.classes : scan.classes[i] = c
  <2>1. PICK i \in 1..n : job.file[i] = c /\ c.tag = "class"
    BY RecordsAtPositions
  <2>2. i =< m
    BY <2>1, <1>2 DEF ClassesEnd
  <2>. QED
    BY <2>1, <2>2, <1>6, <1>3
<1>10. RootsKept(n) /\ ObjectsKept(n)
  BY DEF Kept
<1>11. scan.roots = {r.oid : r \in RecordsOf("root")}
  <2>1. \A r \in RecordsOf("root") : \E i \in 1..n : job.file[i] = r /\ r.tag = "root"
    BY RecordsAtPositions
  <2>2. \A i \in 1..n : job.file[i].tag = "root" => job.file[i] \in RecordsOf("root")
    BY RecordsAtPositions
  <2>. QED
    BY <1>10, <2>1, <2>2 DEF RootsKept
<1>12. scan.truncated = FALSE =>
          \A r \in RecordsOf("instance") : Wants(scan, r.cid) =>
              \E k \in 1..Len(scan.retained) : scan.retained[k] = r
  BY <1>10, RecordsAtPositions DEF ObjectsKept
<1>13. HasRecords(scan) /\ scan.truncated \in BOOLEAN
  BY <1>10 DEF ObjectsKept, HasRecords
<1>. QED
  BY <1>3, <1>4, <1>5, <1>6, <1>8, <1>9, <1>11, <1>12, <1>13

(* The threads of a scan are the kept objects of a thread class.           *)
LEMMA ThreadsAreObjects ==
    ASSUME NEW s, HasRecords(s)
    PROVE  /\ Len(Threads(s)) \in Nat /\ DOMAIN Threads(s) = 1..Len(Threads(s))
           /\ \A k \in 1..Len(Threads(s)) :
                  Threads(s)[k] \in RecordsOf("instance") /\ IsThreadClass(s, Threads(s)[k].cid)
           /\ \A i \in 1..Len(s.retained) : IsThreadClass(s, s.retained[i].cid) =>
                  \E k \in 1..Len(Threads(s)) : Threads(s)[k] = s.retained[i]
<1>. DEFINE n == Len(s.retained)
            S == {i \in 1..n : IsThreadClass(s, s.retained[i].cid)}
            p == PickedFrom(s.retained, S)
<1>1. /\ n \in Nat /\ \A i \in 1..n : s.retained[i] \in RecordsOf("instance")
  BY DEF HasRecords
<1>2. Threads(s) = p
  BY DEF Threads, Those, Positions, PickedFrom
<1>3. /\ S \in SUBSET (1..n)
      /\ \A i \in S : s.retained[i] \in RecordsOf("instance") /\ IsThreadClass(s, s.retained[i].cid)
      /\ \A i \in 1..n : IsThreadClass(s, s.retained[i].cid) => i \in S
  BY <1>1
<1>. HIDE DEF n, S
<1>4. /\ Len(p) \in Nat /\ DOMAIN p = 1..Len(p)
      /\ \A i \in S : \E k \in 1..Len(p) : p[k] = s.retained[i]
      /\ \A k \in 1..Len(p) : \E i \in S : p[k] = s.retained[i]
  BY <1>1, <1>3, PickedAreKept, Zenon
<1>. HIDE DEF p
<1>5. \A k \in 1..Len(p) : p[k] \in RecordsOf("instance") /\ IsThreadClass(s, p[k].cid)
  BY <1>3, <1>4
<1>6. \A i \in 1..n : IsThreadClass(s, s.retained[i].cid) =>
          \E k \in 1..Len(p) : p[k] = s.retained[i]
  BY <1>3, <1>4
<1>. QED
  BY <1>2, <1>4, <1>5, <1>6 DEF n

(* What the analysis says of the thread t: alive or not, and whose.        *)
TheThread(t) ==
    [oid |-> t.oid, live |-> t.oid \in scan.roots,
     deployment |-> Attribution(scan, names, ownership.deployments, t).to,
     by |-> Attribution(scan, names, ownership.deployments, t).by]

(* What the analysis returns.                                              *)
LEMMA AnalysisReturns ==
    ASSUME ownership = Analysis(scan, names), HasRecords(scan)
    PROVE  /\ ownership.deployments = Deployments(scan, names)
           /\ ownership.findings =
                OwnershipFindings(scan, ownership.deployments, ownership.threads)
           /\ DOMAIN ownership.threads = 1..Len(Threads(scan))
           /\ \A k \in 1..Len(Threads(scan)) : ownership.threads[k] = TheThread(Threads(scan)[k])
<1>1. /\ ownership.deployments = Deployments(scan, names)
      /\ ownership.threads = Attributed(scan, names, ownership.deployments)
      /\ ownership.findings =
            OwnershipFindings(scan, ownership.deployments, ownership.threads)
  BY DEF Analysis
<1>2. ownership.threads = [k \in 1..Len(Threads(scan)) |-> TheThread(Threads(scan)[k])]
  BY <1>1 DEF Attributed, Mapped, TheThread
<1>. QED
  BY <1>1, <1>2

(* A loader has as many classes in the scan as in the file.                *)
LEMMA ClassesAreCounted ==
    ASSUME job \in DeploymentJobs, Kept(Len(job.file)), NEW l
    PROVE  Cardinality({i \in DOMAIN scan.classes : scan.classes[i].loader = l}) =
               Cardinality({c \in RecordsOf("class") : c.loader = l})
<1>. DEFINE S == {i \in DOMAIN scan.classes : scan.classes[i].loader = l}
            T == {c \in RecordsOf("class") : c.loader = l}
            f == [i \in S |-> scan.classes[i]]
<1>1. PICK m \in 0..Len(job.file) : DOMAIN scan.classes = 1..m
          /\ \A i \in 1..m : scan.classes[i] = job.file[i] /\ scan.classes[i] \in RecordsOf("class")
  BY ScanShowsTheFile
<1>2. \A c \in RecordsOf("class") : \E i \in 1..m : scan.classes[i] = c
  BY <1>1, ScanShowsTheFile
<1>3. f \in [S -> T]
  BY <1>1
<1>4. \A t \in T : \E i \in S : f[i] = t
  BY <1>1, <1>2
<1>5. ASSUME NEW i \in S, NEW k \in S, f[i] = f[k] PROVE i = k
  <2>1. i \in 1..m /\ k \in 1..m /\ scan.classes[i] = scan.classes[k]
    BY <1>1, <1>5
  <2>2. m =< Len(job.file) /\ m \in Nat
    BY <1>1, FileFacts
  <2>3. /\ i \in 1..Len(job.file) /\ k \in 1..Len(job.file) /\ job.file[i] = job.file[k]
        /\ job.file[i].tag = "class"
    BY <1>1, <2>1, <2>2, FileFacts DEF RecordsOf
  <2>. QED
    BY <2>3, FileFacts
<1>. HIDE DEF f
<1>6. f \in Injection(S, T) /\ f \in Surjection(S, T)
  BY <1>3, <1>4, <1>5 DEF Injection, Surjection, IsInjective
<1>7. ExistsBijection(S, T)
  BY <1>6 DEF ExistsBijection, Bijection
<1>8. IsFiniteSet(S)
  <2>1. IsFiniteSet(1..m)
    BY FS_Interval
  <2>2. S \subseteq 1..m
    BY <1>1
  <2>. QED
    BY <2>1, <2>2, FS_Subset
<1>. HIDE DEF S, T
<1>9. Cardinality(S) = Cardinality(T)
  BY <1>7, <1>8, FS_Bijection
<1>. QED
  BY <1>9 DEF S, T

(* The class the scan has of an object is the one of the file.             *)
LEMMA ClassIsFound ==
    ASSUME job \in DeploymentJobs, Kept(Len(job.file)), NEW c \in RecordsOf("class")
    PROVE  ClassOf(ClassesIn(scan), c.cid) = c
<1>1. PICK m \in 0..Len(job.file) : Len(scan.classes) = m
          /\ \A i \in 1..m : scan.classes[i] \in RecordsOf("class")
  BY ScanShowsTheFile
<1>2. \E i \in 1..m : scan.classes[i] = c
  BY <1>1, ScanShowsTheFile
<1>. DEFINE i == CHOOSE k \in 1..m : scan.classes[k].cid = c.cid
<1>3. i \in 1..m /\ scan.classes[i].cid = c.cid
  BY <1>2
<1>. HIDE DEF i
<1>4. scan.classes[i] = c
  BY <1>1, <1>3, OneRecord
<1>. QED
  BY <1>1, <1>4 DEF ClassOf, ClassesIn, i

(* The structure of a finished analysis, whatever names were found.        *)
LEMMA StructureFollows ==
    ASSUME DeploymentsInv PROVE StructureStands
<1>. SUFFICES ASSUME pass = "done"
              PROVE  /\ DOMAIN ownership.deployments = {c.loader : c \in RecordsOf("class")} \ {0}
                     /\ \A l \in DOMAIN ownership.deployments :
                            ownership.deployments[l].classes =
                                Cardinality({c \in RecordsOf("class") : c.loader = l})
                     /\ \A t \in ToSet(ownership.threads) :
                            /\ t.live <=> \E r \in RecordsOf("root") : r.oid = t.oid
                            /\ \A r \in RecordsOf("instance"), c \in RecordsOf("class") :
                                   (r.oid = t.oid /\ r.cid = c.cid /\ c.loader # 0)
                                       => t.deployment = c.loader
                     /\ \/ {t.oid : t \in ToSet(ownership.threads)} =
                                {r.oid : r \in ToSet(Threads(Everything))}
                        \/ \E f \in ownership.findings : f.kind = "truncated"
  BY DEF StructureStands
<1>1. /\ job \in DeploymentJobs /\ Kept(Len(job.file)) /\ ownership = Analysis(scan, names)
  BY DEF DeploymentsInv, LookupInv
<1>2. HasRecords(scan) /\ HasRecords(Everything)
  BY <1>1, ScanShowsTheFile, EverythingThereIs
<1>3. /\ ownership.deployments = [l \in Loaders(scan) |-> Deployment(scan, names, l)]
      /\ ownership.findings =
            OwnershipFindings(scan, ownership.deployments, ownership.threads)
      /\ DOMAIN ownership.threads = 1..Len(Threads(scan))
      /\ \A k \in 1..Len(Threads(scan)) : ownership.threads[k] = TheThread(Threads(scan)[k])
  BY <1>1, <1>2, AnalysisReturns DEF Deployments
<1>4. DOMAIN ownership.deployments = {c.loader : c \in RecordsOf("class")} \ {0}
  <2>1. /\ \A i \in DOMAIN scan.classes : scan.classes[i] \in RecordsOf("class")
        /\ \A c \in RecordsOf("class") : \E i \in DOMAIN scan.classes : scan.classes[i] = c
    BY <1>1, ScanShowsTheFile
  <2>2. {scan.classes[i].loader : i \in DOMAIN scan.classes} = {c.loader : c \in RecordsOf("class")}
    BY <2>1
  <2>. QED
    BY <1>3, <2>2 DEF Loaders
<1>5. ASSUME NEW l \in DOMAIN ownership.deployments
      PROVE  ownership.deployments[l].classes =
                 Cardinality({c \in RecordsOf("class") : c.loader = l})
  <2>1. ownership.deployments[l] = Deployment(scan, names, l)
    BY <1>3
  <2>2. Deployment(scan, names, l).classes =
            Cardinality({i \in DOMAIN scan.classes : scan.classes[i].loader = l})
    BY DEF Deployment
  <2>. QED
    BY <2>1, <2>2, <1>1, ClassesAreCounted
<1>6. ASSUME NEW t \in ToSet(ownership.threads)
      PROVE  \E k \in 1..Len(Threads(scan)) : t = TheThread(Threads(scan)[k])
  BY <1>3 DEF ToSet
<1>7. /\ Len(Threads(scan)) \in Nat
      /\ \A k \in 1..Len(Threads(scan)) :
             /\ Threads(scan)[k] \in RecordsOf("instance")
             /\ IsThreadClass(scan, Threads(scan)[k].cid)
             /\ TheThread(Threads(scan)[k]) \in ToSet(ownership.threads)
             /\ TheThread(Threads(scan)[k]).oid = Threads(scan)[k].oid
  <2>1. \A k \in 1..Len(Threads(scan)) : TheThread(Threads(scan)[k]) \in ToSet(ownership.threads)
    BY <1>3 DEF ToSet
  <2>2. \A t : TheThread(t).oid = t.oid
    BY DEF TheThread
  <2>. QED
    BY <1>2, <2>1, <2>2, ThreadsAreObjects
<1>8. ASSUME NEW t \in ToSet(ownership.threads)
      PROVE  /\ t.live <=> \E r \in RecordsOf("root") : r.oid = t.oid
             /\ \A r \in RecordsOf("instance"), c \in RecordsOf("class") :
                    (r.oid = t.oid /\ r.cid = c.cid /\ c.loader # 0) => t.deployment = c.loader
  <2>1. PICK k \in 1..Len(Threads(scan)) : t = TheThread(Threads(scan)[k])
    BY <1>6
  <2>. DEFINE o == Threads(scan)[k]
  <2>2. o \in RecordsOf("instance") /\ t = TheThread(o)
    BY <1>7, <2>1
  <2>. HIDE DEF o
  <2>3. /\ t.oid = o.oid /\ t.live = (o.oid \in scan.roots)
        /\ t.deployment = Attribution(scan, names, ownership.deployments, o).to
    BY <2>2 DEF TheThread
  <2>4. t.live <=> \E r \in RecordsOf("root") : r.oid = t.oid
    <3>1. scan.roots = {r.oid : r \in RecordsOf("root")}
      BY <1>1, ScanShowsTheFile
    <3>2. o.oid \in scan.roots <=> \E r \in RecordsOf("root") : r.oid = o.oid
      BY <3>1
    <3>. QED
      BY <2>3, <3>2, Zenon
  <2>5. ASSUME NEW r \in RecordsOf("instance"), NEW c \in RecordsOf("class"),
               r.oid = t.oid, r.cid = c.cid, c.loader # 0
        PROVE  t.deployment = c.loader
    <3>1. r = o
      BY <1>1, <2>2, <2>3, <2>5, OneRecord
    <3>2. ClassOf(ClassesIn(scan), o.cid).loader = c.loader
      BY <1>1, <2>5, <3>1, ClassIsFound
    <3>3. Attribution(scan, names, ownership.deployments, o) =
              [to |-> c.loader, by |-> "own-class"]
      BY <2>5, <3>2 DEF Attribution
    <3>. QED
      BY <2>3, <3>3
  <2>. QED
    BY <2>4, <2>5
<1>9. ASSUME scan.truncated = TRUE PROVE \E f \in ownership.findings : f.kind = "truncated"
  <2>. DEFINE f == [kind |-> "truncated", about |-> {}]
  <2>1. \A deps, threads : f \in OwnershipFindings(scan, deps, threads)
    BY <1>9, Zenon DEF OwnershipFindings
  <2>2. f.kind = "truncated"
    OBVIOUS
  <2>. QED
    BY <1>3, <2>1, <2>2
<1>10. ASSUME scan.truncated = FALSE
       PROVE  {t.oid : t \in ToSet(ownership.threads)} =
                  {r.oid : r \in ToSet(Threads(Everything))}
  <2>1. \A cid : IsThreadClass(scan, cid) <=> IsThreadClass(Everything, cid)
    BY <1>1, ScanShowsTheFile DEF IsThreadClass
  <2>2. \A cid : IsThreadClass(scan, cid) => Wants(scan, cid)
    BY DEF IsThreadClass, Wants, RetainSupers
  <2>3. /\ DOMAIN Threads(Everything) = 1..Len(Threads(Everything))
        /\ \A k \in 1..Len(Threads(Everything)) :
               /\ Threads(Everything)[k] \in RecordsOf("instance")
               /\ IsThreadClass(Everything, Threads(Everything)[k].cid)
        /\ \A i \in 1..Len(Everything.retained) : IsThreadClass(Everything, Everything.retained[i].cid) =>
               \E k \in 1..Len(Threads(Everything)) : Threads(Everything)[k] = Everything.retained[i]
    BY <1>2, ThreadsAreObjects
  <2>4. ASSUME NEW t \in ToSet(ownership.threads)
        PROVE  \E r \in ToSet(Threads(Everything)) : r.oid = t.oid
    <3>1. PICK k \in 1..Len(Threads(scan)) : t = TheThread(Threads(scan)[k])
      BY <1>6
    <3>2. PICK i \in 1..Len(Everything.retained) : Everything.retained[i] = Threads(scan)[k]
      BY <1>1, <1>7, EverythingThereIs
    <3>3. PICK j \in 1..Len(Threads(Everything)) : Threads(Everything)[j] = Threads(scan)[k]
      BY <1>7, <2>1, <2>3, <3>2
    <3>4. Threads(Everything)[j].oid = t.oid
      BY <1>7, <3>1, <3>3
    <3>. QED
      BY <2>3, <3>4 DEF ToSet
  <2>5. ASSUME NEW r \in ToSet(Threads(Everything))
        PROVE  \E t \in ToSet(ownership.threads) : t.oid = r.oid
    <3>1. r \in RecordsOf("instance") /\ IsThreadClass(scan, r.cid)
      BY <2>1, <2>3 DEF ToSet
    <3>2. PICK i \in 1..Len(scan.retained) : scan.retained[i] = r
      BY <1>1, <1>10, <2>2, <3>1, ScanShowsTheFile
    <3>3. PICK k \in 1..Len(Threads(scan)) : Threads(scan)[k] = r
      BY <1>2, <3>1, <3>2, ThreadsAreObjects
    <3>. QED
      BY <1>7, <3>3
  <2>. QED
    BY <2>4, <2>5
<1>11. scan.truncated \in BOOLEAN
  BY <1>1, ScanShowsTheFile
<1>. QED
  BY <1>4, <1>5, <1>8, <1>9, <1>10, <1>11

(* A text that was found is the one of the file.                           *)
LEMMA TextFound ==
    ASSUME TextsAreTrue, NEW oid, TextOf(names, oid) # None
    PROVE  oid # 0 /\ TextOf(names, oid) = TrueText(oid)
  BY DEF TextOf, TextsAreTrue

(* What is reported to be served is served; a context that was found is    *)
(* the name of the deployment and is its context.                          *)
LEMMA ServedIsTrue ==
    ASSUME job \in DeploymentJobs, Kept(Len(job.file)), TextsAreTrue, NEW l
    PROVE  LET d == Deployment(scan, names, l)
           IN  /\ Served(d) # None => TrueServed(l) = Served(d)
               /\ ContextFound(l) => TrueContext(l) = d.name
<1>. DEFINE d == Deployment(scan, names, l)
            source == TextOf(names, LocationOf(scan, l))
            context == TextOf(names, ContextOf(scan, l))
<1>1. /\ LocationOf(scan, l) \in {0, LocationOf(Everything, l)}
      /\ ContextOf(scan, l) \in {0, ContextOf(Everything, l)}
  BY ScanShowsTheFile, OriginsAgree
<1>2. source # None => source = TrueSource(l)
  BY <1>1, TextFound DEF TrueSource
<1>3. context # None => context = TrueContext(l)
  BY <1>1, TextFound DEF TrueContext
<1>4. d.source = source /\ d.artifact = ArtifactOf(source)
  BY DEF Deployment
<1>5. ContextFound(l) => d.name = context
  BY DEF Deployment, ContextFound
<1>6. ContextFound(l) => context # None
  BY DEF ContextFound
<1>. HIDE DEF d, source, context
<1>7. ArtifactOf(None) = None
  BY ArtifactAssumption DEF ArtifactOf
<1>8. Served(d) # None => TrueServed(l) = Served(d)
  BY <1>2, <1>4, <1>7 DEF Served, TrueServed
<1>9. ContextFound(l) => TrueContext(l) = d.name
  BY <1>3, <1>5, <1>6
<1>. QED
  BY <1>8, <1>9 DEF d

(* What a finding of a leak says of deployments, whatever they are.        *)
LEMMA LeaksFollow ==
    ASSUME NEW deps, NEW threads,
           NEW f \in OwnershipFindings(scan, deps, threads), f.kind \in {"pinned", "copies"},
           NEW l \in f.about
    PROVE  /\ l \in DOMAIN deps
           /\ \E m \in DOMAIN deps \ {l} :
                /\ Served(deps[l]) # None /\ Served(deps[m]) = Served(deps[l])
                /\ f.kind = "pinned" => deps[m].name = deps[l].name
<1>. DEFINE webapps == {k \in DOMAIN deps : deps[k].webapp}
            stale == webapps \cap Stale(deps)
            Copies(a) == {k \in webapps : deps[k].artifact = a}
            held == {[kind |-> "pinned", about |-> {k}] : k \in {m \in stale : Pinned(threads, m)}}
            spread == {[kind |-> "copies", about |-> Copies(a)] :
                          a \in {b \in {deps[k].artifact : k \in stale} \ {None} :
                                    \A k \in Copies(b) : ~Pinned(threads, k)}}
            rest == IF scan.truncated THEN {[kind |-> "truncated", about |-> {}]} ELSE {}
<1>1. \/ \E k \in stale : f = [kind |-> "pinned", about |-> {k}]
      \/ \E a \in {deps[k].artifact : k \in stale} \ {None} :
             f = [kind |-> "copies", about |-> Copies(a)]
  <2>1. f \in held \cup spread \cup rest
    BY DEF OwnershipFindings
  <2>2. f \notin rest
    OBVIOUS
  <2>3. f \in held => \E k \in stale : f = [kind |-> "pinned", about |-> {k}]
    OBVIOUS
  <2>4. f \in spread => \E a \in {deps[k].artifact : k \in stale} \ {None} :
                            f = [kind |-> "copies", about |-> Copies(a)]
    OBVIOUS
  <2>. QED
    BY <2>1, <2>2, <2>3, <2>4
<1>2. ASSUME NEW k \in stale
      PROVE  /\ k \in DOMAIN deps /\ Served(deps[k]) # None
             /\ \E m \in DOMAIN deps \ {k} :
                    Served(deps[m]) = Served(deps[k]) /\ deps[m].name = deps[k].name
  BY DEF Stale, Groups
<1>3. ASSUME NEW k \in stale, f = [kind |-> "pinned", about |-> {k}]
      PROVE  /\ l \in DOMAIN deps
             /\ \E m \in DOMAIN deps \ {l} :
                  /\ Served(deps[l]) # None /\ Served(deps[m]) = Served(deps[l])
                  /\ f.kind = "pinned" => deps[m].name = deps[l].name
  <2>1. l = k
    BY <1>3
  <2>. QED
    BY <1>2, <2>1
<1>4. ASSUME NEW a \in {deps[k].artifact : k \in stale} \ {None},
             f = [kind |-> "copies", about |-> Copies(a)]
      PROVE  /\ l \in DOMAIN deps
             /\ \E m \in DOMAIN deps \ {l} :
                  /\ Served(deps[l]) # None /\ Served(deps[m]) = Served(deps[l])
                  /\ f.kind = "pinned" => deps[m].name = deps[l].name
  <2>1. /\ l \in DOMAIN deps /\ deps[l].artifact = a /\ a # None /\ f.kind # "pinned"
    BY <1>4
  <2>2. PICK k \in stale : deps[k].artifact = a
    BY <1>4
  <2>3. k \in DOMAIN deps /\ Served(deps[k]) = a /\ Served(deps[l]) = a
    BY <1>2, <2>1, <2>2 DEF Served
  <2>4. CASE l = k
    <3>1. PICK m \in DOMAIN deps \ {k} : Served(deps[m]) = Served(deps[k])
      BY <1>2, <2>2
    <3>. QED
      BY <2>1, <2>3, <2>4, <3>1
  <2>5. CASE l # k
    BY <2>1, <2>3, <2>5
  <2>. QED
    BY <2>4, <2>5
<1>. QED
  BY <1>1, <1>3, <1>4

(* A finished analysis reports only leaks that are redeployments.          *)
LEMMA RedeploysFollow ==
    ASSUME DeploymentsInv PROVE LeaksAreRedeploys
<1>. SUFFICES ASSUME pass = "done", NEW f \in ownership.findings, f.kind \in {"pinned", "copies"},
                     NEW l \in f.about
              PROVE  \E m \in DOMAIN ownership.deployments \ {l} :
                         /\ TrueServed(l) # None /\ TrueServed(m) = TrueServed(l)
                         /\ f.kind = "pinned" /\ ContextFound(l) /\ ContextFound(m)
                                => TrueContext(m) = TrueContext(l)
  BY DEF LeaksAreRedeploys
<1>1. /\ job \in DeploymentJobs /\ Kept(Len(job.file)) /\ TextsAreTrue
      /\ ownership = Analysis(scan, names)
  BY DEF DeploymentsInv, LookupInv
<1>2. HasRecords(scan)
  BY <1>1, ScanShowsTheFile
<1>. DEFINE deps == ownership.deployments
<1>3. /\ deps = [k \in Loaders(scan) |-> Deployment(scan, names, k)]
      /\ f \in OwnershipFindings(scan, deps, ownership.threads)
  BY <1>1, <1>2, AnalysisReturns DEF Deployments
<1>4. \A k \in DOMAIN deps : deps[k] = Deployment(scan, names, k)
  BY <1>3
<1>. HIDE DEF deps
<1>5. l \in DOMAIN deps
  BY <1>3, LeaksFollow
<1>6. PICK m \in DOMAIN deps \ {l} :
          /\ Served(deps[l]) # None /\ Served(deps[m]) = Served(deps[l])
          /\ f.kind = "pinned" => deps[m].name = deps[l].name
  BY <1>3, LeaksFollow
<1>7. \A k \in DOMAIN deps :
          /\ Served(deps[k]) # None => TrueServed(k) = Served(deps[k])
          /\ ContextFound(k) => TrueContext(k) = deps[k].name
  BY <1>1, <1>4, ServedIsTrue
<1>8. /\ TrueServed(l) # None /\ TrueServed(m) = TrueServed(l)
      /\ f.kind = "pinned" /\ ContextFound(l) /\ ContextFound(m)
             => TrueContext(m) = TrueContext(l)
  BY <1>5, <1>6, <1>7
<1>. QED
  BY <1>6, <1>8 DEF deps

(* Whatever becomes of the lookup of names, the report of deployments has  *)
(* every loader with its classes, every thread that was kept with its      *)
(* loader, and says when threads were lost; a leak that it reports is one  *)
(* of a loader that another loader serves the same archive as              *)
(* (heap_deployments.py, analyze_deployments).                             *)
THEOREM OwnersAreTrue == ReportsSpec => []OwnershipIsTrue
<1>1. DeploymentsInv => OwnershipIsTrue
  BY StructureFollows, RedeploysFollow DEF OwnershipIsTrue
<1>. QED
  BY <1>1, DeploymentsInductive, PTL DEF ReportsSpec
=============================================================================
