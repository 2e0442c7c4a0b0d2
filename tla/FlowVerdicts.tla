---------------------------- MODULE FlowVerdicts ----------------------------
(***************************************************************************)
(* What the thread flow analyser concludes (pytfa/tfa: cluster.py,         *)
(* baseline.py, detect.py, rank.py, validate.py, and analyze() of          *)
(* __init__.py, which chains them after the stream).  The episodes of      *)
(* FlowStream are clustered, each cluster votes a baseline, detectors      *)
(* compare every episode to it, findings are merged, scored, suppressed    *)
(* and ranked; explain and validate recompute the same verdicts on such a  *)
(* finished analysis.  Only tfa analyze gives the ranking the rules of a   *)
(* suppressions file, here cfg.rules; tfa explain and tfa validate (cli.py)*)
(* analyse without, so a ranking is given either set of rules.  Ratios     *)
(* are integers in units of 1/Scale; a site is a number, 0 standing for    *)
(* "<end-of-flow>".                                                        *)
(***************************************************************************)
EXTENDS FlowStream, FiniteSets

CONSTANTS Defects,       \* the ground truths to validate against
          AnyValue,           \* a field a suppression rule or a defect leaves open
          Scale,         \* units of one
          Magnitude(_),  \* log10 of a timing multiple, clamped, in units
          Trust(_)       \* log10 of a cluster's size, clamped, in units

ASSUME ScaleAssumption == Scale \in Nat \ {0}

VARIABLES clusters,   \* the clusters, largest first; <<>> until built
          detected,   \* the clusters the detection engine is done with
          evaluated,  \* the episodes it put to the detectors
          censored,   \* and those it censored
          found,      \* the findings, in order
          suppressions,  \* the rules the ranking was given
          ranked,     \* the ranked findings, suppressed ones included
          stage       \* "stream", "detect", "ranked"

verdictVars == <<clusters, detected, evaluated, censored, found, suppressions, ranked,
                 stage>>
vars == <<streamVars, verdictVars>>

-----------------------------------------------------------------------------
(* model.py: an episode *)

Start(e) == e.recs[1].ts
End(e)   == e.recs[Len(e.recs)].ts
Sites(e) == [i \in 1..Len(e.recs) |-> e.recs[i].site]

\* collapsed_runs: the first record of every run at one call site.
Runs(e) ==
    LET first == SelectSeq([i \in 1..Len(e.recs) |-> i],
                           LAMBDA i : i = 1 \/ e.recs[i].site # e.recs[i - 1].site)
    IN  [n \in 1..Len(first) |-> e.recs[first[n]]]

Collapsed(e) == LET runs == Runs(e) IN [n \in 1..Len(runs) |-> runs[n].site]

-----------------------------------------------------------------------------
(* cluster.py *)

Smaller(m, n) == IF m < n THEN m ELSE n

Signature(e) == SubSeq(Sites(e), 1, Smaller(cfg.k, Len(e.recs)))

Clusters ==
    LET firsts == SelectSeq([i \in 1..Len(episodes) |-> i],
                    LAMBDA i : \A j \in 1..(i - 1) :
                                   Signature(episodes[j]) # Signature(episodes[i]))
        Of(sig) == LET eps == SelectSeq(episodes, LAMBDA e : Signature(e) = sig)
                   IN  [sig |-> sig, eps |-> eps, small |-> Len(eps) < cfg.minSize]
    IN  StableSort([n \in 1..Len(firsts) |-> Of(Signature(episodes[firsts[n]]))],
                   LAMBDA c, d : \/ Len(c.eps) > Len(d.eps)
                                 \/ Len(c.eps) = Len(d.eps) /\ LexLess(c.sig, d.sig))

-----------------------------------------------------------------------------
(* baseline.py *)

\* config.py: _in_window, a half-open interval with optional ends.
InWindow(t, w) ==
    IF t = NoTs THEN w.from = NoTs /\ w.to = NoTs
    ELSE (w.from = NoTs \/ t >= w.from) /\ (w.to = NoTs \/ t < w.to)

\* The nearest-rank percentile p of Value over the samples S.
Percentile(S, Value(_), p) ==
    LET rank == (p * Cardinality(S) + 99) \div 100
    IN  IF S = {} THEN 0
        ELSE CHOOSE v \in {Value(s) : s \in S} :
                /\ Cardinality({s \in S : Value(s) =< v}) >= rank
                /\ Cardinality({s \in S : Value(s) < v}) < rank

Used(c) == SelectSeq(c.eps, LAMBDA e : InWindow(Start(e), cfg.baseline))

HasBaseline(c) == Used(c) # <<>>

Votes(used, s) == Cardinality({n \in 1..Len(used) : Collapsed(used[n]) = s})

Modal(used) ==
    CHOOSE s \in {Collapsed(e) : e \in Rows(used)} :
        \A t \in {Collapsed(e) : e \in Rows(used)} \ {s} :
            \/ Votes(used, s) > Votes(used, t)
            \/ Votes(used, s) = Votes(used, t) /\ LexLess(s, t)

\* The favourite at position p among the episodes that reach it.
Expected(used, p) ==
    LET reach == {n \in 1..Len(used) : Len(Collapsed(used[n])) >= p}
        At(x) == Cardinality({n \in reach : Collapsed(used[n])[p] = x})
        sites == {Collapsed(used[n])[p] : n \in reach}
        best  == CHOOSE x \in sites : \A y \in sites \ {x} :
                     At(x) > At(y) \/ (At(x) = At(y) /\ x < y)
    IN  [site |-> best, share |-> (Scale * At(best)) \div Cardinality(reach)]

Elapsed(a, b) == Max0(b.ts - a.ts)

P95(used, from, to) ==
    LET steps == {s \in (1..Len(used)) \X (1..Len(lines)) :
                    LET runs == Runs(used[s[1]])  i == s[2]
                    IN  /\ i < Len(runs)
                        /\ runs[i].site = from /\ runs[i].ts # NoTs
                        /\ runs[i + 1].site = to /\ runs[i + 1].ts # NoTs}
    IN  Percentile(steps, LAMBDA s : Elapsed(Runs(used[s[1]])[s[2]],
                                             Runs(used[s[1]])[s[2] + 1]), 95)

-----------------------------------------------------------------------------
(* detect.py: the detectors.  Positions are counted from zero as there. *)

Finding(e, c, type, site, index, expected, raw) ==
    [ep |-> e, sig |-> c.sig, type |-> type, site |-> site, index |-> index,
     expected |-> expected, raw |-> raw]

CommonPrefix(s, t) ==
    CHOOSE n \in 0..Smaller(Len(s), Len(t)) :
        /\ \A i \in 1..n : s[i] = t[i]
        /\ n = Len(s) \/ n = Len(t) \/ s[n + 1] # t[n + 1]

TruncationDetector(e, c, used) ==
    LET seq == Collapsed(e)
        modal == Modal(used)
        last == seq[Len(seq)]
        terminal == modal[Len(modal)]
        matched == CommonPrefix(seq, modal)
    IN  IF e.status = "COMPLETED" /\ last = terminal THEN <<>>
        ELSE <<Finding(e, c, "TRUNCATION", last, Len(seq) - 1, terminal,
                       (Scale * (Len(modal) - matched)) \div Len(modal))>>

\* Mutant: only a flow longer than the consensus diverges.
DivergenceByLength(e, c, used) ==
    LET seq == Collapsed(e)
        modal == Modal(used)
    IN  IF Len(seq) =< Len(modal) THEN <<>>
        ELSE <<Finding(e, c, "DIVERGENCE", seq[Len(modal) + 1], Len(modal), 0, Scale)>>

DivergenceDetector(e, c, used) ==
    LET seq == Collapsed(e)
        modal == Modal(used)
        p == CommonPrefix(modal, seq)
        exp == IF p < Len(modal) THEN Expected(used, p + 1)
               ELSE [site |-> 0,
                     share |-> (Scale * Votes(used, modal)) \div Len(used)]
    IN  IF p = Len(seq) THEN <<>>
        ELSE <<Finding(e, c, "DIVERGENCE", seq[p + 1], p, exp.site, exp.share)>>

TimingDetector(e, c, used) ==
    LET runs == Runs(e)
        P(i) == P95(used, runs[i].site, runs[i + 1].site)
        slow == SelectSeq([i \in 1..(Len(runs) - 1) |-> i],
                  LAMBDA i : /\ runs[i].ts # NoTs /\ runs[i + 1].ts # NoTs
                             /\ P(i) > 0
                             /\ Elapsed(runs[i], runs[i + 1]) > P(i) * cfg.factor)
    IN  [n \in 1..Len(slow) |->
            LET i == slow[n]
            IN  Finding(e, c, "TIMING", runs[i + 1].site, i, runs[i].site,
                        (Scale * Elapsed(runs[i], runs[i + 1])) \div P(i))]

Detectors(e, c, used) ==
    TruncationDetector(e, c, used) \o DivergenceDetector(e, c, used)
                                   \o TimingDetector(e, c, used)

-----------------------------------------------------------------------------
(* detect.py: the censor and the engine *)

Starts == {Start(e) : e \in Rows(episodes)} \ {NoTs}
Ends   == {End(e) : e \in Rows(episodes)} \ {NoTs}

CorpusStart == IF Starts = {} THEN NoTs ELSE CHOOSE t \in Starts : \A u \in Starts : t =< u
CorpusEnd   == IF Ends = {} THEN NoTs ELSE CHOOSE t \in Ends : \A u \in Ends : t >= u

Margin ==
    IF cfg.margin # NoTs THEN Max0(cfg.margin)
    ELSE Percentile({i \in 1..Len(episodes) : Start(episodes[i]) # NoTs
                                              /\ End(episodes[i]) # NoTs},
                    LAMBDA i : Max0(End(episodes[i]) - Start(episodes[i])), 99)

IsCensored(e) ==
    /\ e.status # "COMPLETED"
    /\ \/ Start(e) # NoTs /\ Start(e) =< CorpusStart + Margin
       \/ End(e) # NoTs /\ End(e) >= CorpusEnd - Margin

BuildClusters ==
    /\ stage = "stream" /\ ~streaming
    /\ clusters' = Clusters
    /\ stage' = "detect"
    /\ UNCHANGED <<streamVars, detected, evaluated, censored, found, suppressions, ranked>>

\* One turn of the engine's loop over the clusters.
DetectCluster ==
    /\ stage = "detect" /\ detected < Len(clusters)
    /\ LET c == clusters[detected + 1]
           used == Used(c)
           seen == SelectSeq(c.eps, LAMBDA e : InWindow(Start(e), cfg.eval))
           whole == SelectSeq(seen, LAMBDA e : ~IsCensored(e))
       IN  IF c.small \/ ~HasBaseline(c)
             THEN UNCHANGED <<evaluated, censored, found>>
             ELSE /\ evaluated' = evaluated \cup Rows(whole)
                  /\ censored' = censored \cup (Rows(seen) \ Rows(whole))
                  /\ found' = found \o
                       FlattenSeq([n \in 1..Len(whole) |-> Detectors(whole[n], c, used)])
    /\ detected' = detected + 1
    /\ UNCHANGED <<streamVars, clusters, suppressions, ranked, stage>>

-----------------------------------------------------------------------------
(* rank.py *)

DedupeKey(f) == <<f.sig, f.type, f.index, f.site, f.expected>>

StartBefore(e, f) == TsBefore(Start(e), Start(f))

\* Mutant: the first finding of a group represents it.
FirstFinding(fs) == fs[1]

Representative(fs) ==
    StableSort(fs, LAMBDA f, g :
        \/ f.raw > g.raw
        \/ f.raw = g.raw /\ f.ep.key < g.ep.key
        \/ f.raw = g.raw /\ f.ep.key = g.ep.key /\ StartBefore(f.ep, g.ep))[1]

Severity(type) ==
    CASE type = "TRUNCATION" -> Scale
      [] type = "DIVERGENCE" -> (6 * Scale) \div 10
      [] type = "TIMING"     -> (3 * Scale) \div 10

Troubled(e) == HasError(e.recs) \/ HasStack(e.recs)

\* The weights are halves and the penalty tenths, the defaults of config.py
\* being 1, 1, 0.5, 0.5, 0.5 and 0.2.
Score(rep, occ, size) ==
    LET rarity == Max0(Scale * (size - occ)) \div size
        error == IF Troubled(rep.ep) THEN Scale ELSE 0
        magnitude == IF rep.type = "TIMING" THEN Magnitude(rep.raw) ELSE 0
        benign == /\ rep.type = "DIVERGENCE" /\ rep.ep.status = "COMPLETED"
                  /\ ~Troubled(rep.ep)
    IN  (IF benign THEN cfg.penalty ELSE 10) *
            (2 * rarity + 2 * Severity(rep.type) + error + magnitude + Trust(size))

Matches(rule, rep) ==
    /\ rule.sig \in {AnyValue, rep.sig}
    /\ rule.site \in {AnyValue, rep.site}
    /\ rule.type \in {AnyValue, rep.type}

RankedOf(key, fs, size, rules) ==
    LET rep == Representative(fs)
    IN  [rep |-> rep, key |-> key, occ |-> Len(fs),
         score |-> Score(rep, Len(fs), size),
         suppressed |-> \E rule \in rules : Matches(rule, rep)]

RanksBefore(a, b) ==
    LET PlaceOf(rf) == <<rf.rep.site, rf.rep.index, rf.rep.ep.key>>
    IN  \/ a.score > b.score
        \/ a.score = b.score /\ LexLess(a.rep.sig, b.rep.sig)
        \/ /\ a.score = b.score /\ a.rep.sig = b.rep.sig
           /\ \/ LexLess(PlaceOf(a), PlaceOf(b))
              \/ PlaceOf(a) = PlaceOf(b) /\ StartBefore(a.rep.ep, b.rep.ep)

SizeOf(sig) == Len((CHOOSE c \in Rows(clusters) : c.sig = sig).eps)

Ranking(rules) ==
    LET firsts == SelectSeq([i \in 1..Len(found) |-> i],
                      LAMBDA i : \A j \in 1..(i - 1) :
                                     DedupeKey(found[j]) # DedupeKey(found[i]))
        Group(f) == RankedOf(DedupeKey(f),
                        SelectSeq(found, LAMBDA g : DedupeKey(g) = DedupeKey(f)),
                        SizeOf(f.sig), rules)
    IN  StableSort([n \in 1..Len(firsts) |-> Group(found[firsts[n]])], RanksBefore)

\* The commands analyse alike up to here; tfa analyze may be given rules.
Rank ==
    /\ stage = "detect" /\ detected = Len(clusters)
    /\ suppressions' \in {{}, cfg.rules}
    /\ ranked' = Ranking(suppressions')
    /\ stage' = "ranked"
    /\ UNCHANGED <<streamVars, clusters, detected, evaluated, censored, found>>

Shown(groups) == SelectSeq(groups, LAMBDA rf : ~rf.suppressed)
Unsuppressed == Shown(ranked)

\* Mutant: suppressed entries take places in the top list.
TopOfAll == SubSeq(ranked, 1, Smaller(cfg.topN, Len(ranked)))

Top == SubSeq(Unsuppressed, 1, Smaller(cfg.topN, Len(Unsuppressed)))

Init ==
    /\ StreamInit
    /\ clusters = <<>> /\ detected = 0
    /\ evaluated = {} /\ censored = {}
    /\ found = <<>> /\ suppressions = {} /\ ranked = <<>>
    /\ stage = "stream"

Stream == StreamNext /\ UNCHANGED verdictVars

Next == Stream \/ BuildClusters \/ DetectCluster \/ Rank

Spec == Init /\ [][Next]_vars

-----------------------------------------------------------------------------
(* validate.py: explain and validate, on a finished analysis *)

\* RankIndex: the rank of f's group among the unsuppressed, 0 if it has none.
\* Mutant: suppressed groups are counted as ranks.
RankAmongAll(f) ==
    LET at == {i \in 1..Len(ranked) : ranked[i].key = DedupeKey(f)
                                      /\ ~ranked[i].suppressed}
    IN  IF at = {} THEN 0 ELSE CHOOSE i \in at : TRUE

RankOf(f) ==
    LET at == {i \in 1..Len(ranked) : ranked[i].key = DedupeKey(f)
                                      /\ ~ranked[i].suppressed}
    IN  IF at = {} THEN 0
        ELSE Cardinality({j \in 1..(CHOOSE i \in at : TRUE) : ~ranked[j].suppressed})

BestRank(fs) ==
    LET ranks == {RankOf(f) : f \in fs} \ {0}
    IN  IF ranks = {} THEN 0 ELSE CHOOSE r \in ranks : \A q \in ranks : r =< q

Distance(a, b) == IF a < b THEN b - a ELSE a - b

\* The episode of a thread that spans the instant, or else the one starting
\* nearest to it; the first in cluster order of several.
Locate(key, at) ==
    LET mine == SelectSeq(FlattenSeq([n \in 1..Len(clusters) |-> clusters[n].eps]),
                          LAMBDA e : e.key = key)
        spanning == SelectSeq(mine, LAMBDA e : /\ Start(e) # NoTs /\ End(e) # NoTs
                                               /\ Start(e) =< at /\ at =< End(e))
        near == StableSort(SelectSeq(mine, LAMBDA e : Start(e) # NoTs),
                           LAMBDA e, f : Distance(Start(e), at) < Distance(Start(f), at))
    IN  SubSeq(spanning \o near, 1, Smaller(1, Len(spanning \o near)))

Explain(e) ==
    LET c == CHOOSE d \in Rows(clusters) : e \in Rows(d.eps)
        fired == Rows(Detectors(e, c, Used(c)))
        Told(outcome, rank) == [outcome |-> outcome, rank |-> rank]
    IN  IF c.small THEN Told("under-sampled", 0)
        ELSE IF ~HasBaseline(c) THEN Told("no baseline", 0)
        ELSE IF ~InWindow(Start(e), cfg.eval) THEN Told("outside window", 0)
        ELSE IF IsCensored(e) THEN Told("censored", 0)
        ELSE IF fired = {} THEN Told("no detector fired", 0)
        ELSE IF BestRank(fired) = 0 THEN Told("suppressed", 0)
        ELSE Told("reported", BestRank(fired))

\* A defect planted on a thread within a window of episode starts, open or not
\* at its ends, and perhaps expected at a call site.
InDefectWindow(defect, t) ==
    /\ t # NoTs
    /\ defect.from = NoTs \/ defect.from =< t
    /\ defect.to = NoTs \/ t =< defect.to

Validate(defect) ==
    LET all == {f \in Rows(found) : f.ep.key = defect.key /\ InDefectWindow(defect, Start(f.ep))}
        there == {f \in all : f.site = defect.site}
        candidates == IF defect.site # AnyValue /\ there # {} THEN there ELSE all
    IN  [found |-> BestRank(candidates) # 0, rank |-> BestRank(candidates),
         candidates |-> candidates]

-----------------------------------------------------------------------------
(* Properties *)

FindingsOf(e) == {f \in Rows(found) : f.ep = e}

\* explain recomputes baseline, detectors and censor from the finished result
\* (validate.py), and tells of every episode what the detection engine and the
\* ranker really did with it: which of them skipped it, or the best rank among
\* the groups its findings were merged into.  "Suppressed" is told where the
\* library explains an analysis with rules; tfa explain has none, so what it
\* tells of a rank is of a ranking without (see SuppressionsOnlyHide).
ExplainTellsWhatHappened ==
    stage = "ranked" =>
        \A e \in Rows(episodes) :
            LET told == Explain(e)
                groups == {i \in 1..Len(Unsuppressed) :
                              \E f \in FindingsOf(e) : Unsuppressed[i].key = DedupeKey(f)}
            IN  /\ told.outcome = "censored" <=> e \in censored
                /\ (told.outcome \in {"no detector fired", "suppressed", "reported"})
                       <=> e \in evaluated
                /\ told.outcome = "no detector fired"
                       <=> e \in evaluated /\ FindingsOf(e) = {}
                /\ told.outcome = "suppressed" <=> FindingsOf(e) # {} /\ groups = {}
                /\ IF told.outcome = "reported"
                     THEN told.rank \in groups /\ \A i \in groups : told.rank =< i
                     ELSE groups = {}

\* Merging loses nothing: the ranked groups partition the findings, each counts
\* its own, no group outranks a better score, and the severest finding of a
\* group speaks for it (rank.py: dedup, deterministic sort).
FindingsRankedOnce ==
    stage = "ranked" =>
        /\ \A f \in Rows(found) :
               Cardinality({i \in 1..Len(ranked) : ranked[i].key = DedupeKey(f)}) = 1
        /\ \A i \in 1..Len(ranked) :
               LET mine == {n \in 1..Len(found) : DedupeKey(found[n]) = ranked[i].key}
               IN  /\ mine # {} /\ ranked[i].occ = Cardinality(mine)
                   /\ \E n \in mine : ranked[i].rep = found[n]
                   /\ \A n \in mine : ranked[i].rep.raw >= found[n].raw
        /\ \A i, j \in 1..Len(ranked) : i < j => ranked[i].score >= ranked[j].score

FollowsTheConsensus(e) ==
    LET c == CHOOSE d \in Rows(clusters) : e \in Rows(d.eps)
    IN  e.status = "COMPLETED" /\ Collapsed(e) = Modal(Used(c))

\* An evaluated flow that no detector reports walked the consensus path to its
\* end, when entries and terminals delimit the flows (detect.py: a prefix of the
\* path is left to the truncation detector).  Of the other strategies it does
\* not hold: a flow may stop at an earlier visit of the last site unreported.
SilentFlowsFollowTheConsensus ==
    stage = "ranked" /\ cfg.strategy = "ENTRY_MARKER" =>
        \A e \in evaluated : FindingsOf(e) = {} => FollowsTheConsensus(e)

\* A defect validate counts as passed is in the analysis it was run on: an
\* entry of the top list of that analysis merges a finding of the defect's
\* thread that starts in its window, at the rank that validate gives
\* (validate.py: within_top).
PassedDefectsAreOnTop ==
    stage = "ranked" =>
        \A defect \in Defects :
            LET v == Validate(defect)
            IN  v.found /\ v.rank =< cfg.topN =>
                    \E f \in v.candidates : Top[v.rank].key = DedupeKey(f)

\* tfa explain and tfa validate rank without the rules that tfa analyze is given.
\* A rank they tell is therefore not always one of the report: the report shows
\* the same group, merged and scored alike, at that rank or a better one, unless
\* a rule hides it, and it shows nothing else (cli.py: cmd_analyze, cmd_validate,
\* cmd_explain; rank.py: rank).
SuppressionsOnlyHide ==
    stage = "ranked" /\ suppressions = {} /\ cfg.rules # {} =>
        LET report == Shown(Ranking(cfg.rules))
        IN  /\ \A i \in 1..Len(ranked) :
                   (\E j \in 1..Smaller(i, Len(report)) : report[j] = ranked[i])
                       <=> ~ \E rule \in cfg.rules : Matches(rule, ranked[i].rep)
            /\ Rows(report) \subseteq Rows(ranked)

\* What the reader meets first is what matters most: the ranking loses no
\* finding and orders the groups; a defect that validate counts as passed is
\* among the top entries of its analysis, and then in the report of the same
\* logs at that rank or better, or hidden there by a rule (rank.py, validate.py).
RankingIsSound ==
    FindingsRankedOnce /\ PassedDefectsAreOnTop /\ SuppressionsOnlyHide
=============================================================================
