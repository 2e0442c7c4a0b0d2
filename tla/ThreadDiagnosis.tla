-------------------------- MODULE ThreadDiagnosis --------------------------
(***************************************************************************)
(* The diagnosis of a thread dump (analyzers/thread_dump.py, diagnostics.  *)
(* py): who waits for whom, which threads are in a deadlock, and the       *)
(* verdict.                                                                *)
(*                                                                         *)
(* A capture is what the JVM really was like: the threads in the order of  *)
(* the dump with their names, who owns each monitor and each ownable       *)
(* synchronizer, and what each thread waits for:                           *)
(*   enter   to enter a monitor          await    in Object.wait           *)
(*   reenter to leave Object.wait        park     for a synchronizer       *)
(* together with how it was printed: with the synchronizers (jstack -l) or *)
(* not, with the JVM's own deadlock section or not or cut short, and with  *)
(* how many of the frame lines the parser can read.  Printed and Section   *)
(* are HotSpot's output, which is outside this repository.                 *)
(***************************************************************************)
EXTENDS Naturals, Sequences, FiniteSets, SequencesExt, FiniteSetsExt, TLC

CONSTANTS
    Captures,          \* the captures
    Synchronizers,     \* the locks that are not monitors
    Crowd              \* this many threads are a contention, or a pool

VARIABLES
    capture,    \* the input
    diagnosis   \* NoDiagnosis, or what analyze returns

diagnosisVars == <<capture, diagnosis>>

NoDiagnosis == [deadlocks |-> {}, chains |-> <<>>, findings |-> {}, verdict |-> "none"]
NoCapture == [names |-> <<>>]

-----------------------------------------------------------------------------
(* The dump, as HotSpot prints it *)

Ids(c) == DOMAIN c.names
OwnedBy(c, t) == {l \in DOMAIN c.owner : c.owner[l] = t}
Acquires(c, t) == c.want[t][1] \in {"enter", "reenter", "park"}

\* The thread t cannot go on before, 0 if there is none.
Blocker(c, t) == IF Acquires(c, t) THEN c.owner[c.want[t][2]] ELSE 0

Steps(c, t) ==
    FoldLeft(LAMBDA path, k : IF Blocker(c, Last(path)) = 0 THEN path
                              ELSE Append(path, Blocker(c, Last(path))),
             <<t>>, c.names)
InCycle(c, t) == \E i \in 2..Len(Steps(c, t)) : Steps(c, t)[i] = t
Cycles(c) == {ToSet(Steps(c, t)) : t \in {u \in Ids(c) : InCycle(c, u)}}

\* The monitor a thread waits in is printed as locked by a lower frame.
Locked(c, t) ==
    (OwnedBy(c, t) \ Synchronizers)
        \cup (IF c.want[t][1] \in {"await", "reenter"} THEN {c.want[t][2]} ELSE {})

Line(op) == CASE op = "enter" -> "waiting to lock"
              [] op = "await" -> "waiting on"
              [] op = "reenter" -> "waiting to re-lock in wait()"
              [] op = "park" -> "parking to wait for"

Printed(c, t) ==
    (IF c.want[t][1] = "none" THEN <<>> ELSE <<<<Line(c.want[t][1]), c.want[t][2]>>>>)
        \o SetToSeq({<<"locked", l>> : l \in Locked(c, t)})

\* A cycle in the order it was found, as (waiter, holder) names.
Section(c) ==
    LET Edges(cycle) ==
            LET first == Min(cycle)
            IN  [i \in 1..Cardinality(cycle) |->
                    <<c.names[Steps(c, first)[i]], c.names[Steps(c, first)[i + 1]]>>]
        Shown(edges) == IF c.section = "cut" THEN SubSeq(edges, 1, Len(edges) - 1) ELSE edges
    IN  IF c.section = "none" THEN {} ELSE {Shown(Edges(cycle)) : cycle \in Cycles(c)}

-----------------------------------------------------------------------------
(* The parser *)

LockOperations == {"locked", "waiting to lock", "waiting on", "parking to wait for"}

\* A thread block: the lock lines LOCK_RE matches, the synchronizers if shown.
Parsed(c, t) ==
    [id |-> t, name |-> c.names[t],
     blocked |-> c.want[t][1] \in {"enter", "reenter"},
     locks |-> SelectSeq(Printed(c, t), LAMBDA line : line[1] \in LockOperations),
     synchronizers |-> IF c.long THEN OwnedBy(c, t) \cap Synchronizers ELSE {}]

ThreadsOf(c) == [t \in Ids(c) |-> Parsed(c, t)]

\* The names met from an edge on: until one comes back or leads nowhere.
Follow(edges, edge) ==
    LET From(name) == SelectSeq(edges, LAMBDA e : e[1] = name)
        Ends(path) == Last(path) \in ToSet(Front(path)) \/ From(Last(path)) = <<>>
    IN  FoldLeft(LAMBDA path, e : IF Ends(path) THEN path
                                  ELSE Append(path, From(Last(path))[1][2]),
                 edge, edges)

IsRing(path) == Last(path) \in ToSet(Front(path))
CycleIn(path) ==
    {path[i] : i \in {j \in 1..Len(path) : \E k \in 1..j : path[k] = Last(path)}}

ParseDeadlockBlock(edges) ==
    LET paths == {Follow(edges, e) : e \in ToSet(edges)}
        cycles == {CycleIn(path) : path \in {p \in paths : IsRing(p)}}
    IN  IF edges = <<>> THEN {}
        ELSE IF cycles = {} THEN {UNION {ToSet(e) : e \in ToSet(edges)}} ELSE cycles

-----------------------------------------------------------------------------
(* Who waits for whom *)

WaitOperations == {"waiting to lock", "waiting on", "parking to wait for"}
Waits(t) == SelectSeq(t.locks, LAMBDA line : line[1] \in WaitOperations)

\* Object.wait releases the monitor even if it is printed as locked.
\* Mutant: every lock printed as locked is held.
HeldAsPrinted(t) == {line[2] : line \in {l \in ToSet(t.locks) : l[1] = "locked"}}
                        \cup t.synchronizers
Held(t) == ({line[2] : line \in {l \in ToSet(t.locks) : l[1] = "locked"}}
               \ {line[2] : line \in {l \in ToSet(t.locks) : l[1] = "waiting on"}})
                        \cup t.synchronizers

\* The last thread of the dump that shows a lock as held is its holder.
Holder(threads, lock) ==
    LET holders == {t \in DOMAIN threads : lock \in Held(threads[t])}
    IN  IF holders = {} THEN 0 ELSE Max(holders)

\* The chains: waiter |-> holder.
BlockedChains(threads) ==
    LET Owner(t) == LET wants == Waits(threads[t])
                    IN  IF wants = <<>> \/ wants[1][1] = "waiting on" THEN 0
                        ELSE Holder(threads, wants[1][2])
    IN  [t \in {u \in DOMAIN threads : Owner(u) \notin {0, u}} |-> Owner(t)]

\* A thread and the threads it waits for, each once.
WaitChain(chains, t) ==
    FoldSet(LAMBDA u, path : IF Last(path) \in DOMAIN chains
                                /\ chains[Last(path)] \notin ToSet(path)
                             THEN Append(path, chains[Last(path)]) ELSE path,
            <<t>>, DOMAIN chains)

\* A chain that closes: its threads from the one that comes back.
InferredDeadlocks(chains) ==
    LET On(t) == LET path == WaitChain(chains, t)
                 IN  Last(path) \in DOMAIN chains /\ chains[Last(path)] = t
    IN  {ToSet(WaitChain(chains, t)) : t \in {u \in DOMAIN chains : On(u)}}

Deadlocks(c, threads) ==
    UNION {ParseDeadlockBlock(edges) : edges \in Section(c)}
        \cup {{c.names[t] : t \in cycle} :
                 cycle \in InferredDeadlocks(BlockedChains(threads))}

-----------------------------------------------------------------------------
(* Findings and the verdict *)

Crowds(threads) ==
    LET Queue(l) == {t \in DOMAIN threads :
                        threads[t].blocked /\ Waits(threads[t]) # <<>>
                        /\ Waits(threads[t])[1][2] = l}
        sought == {Waits(threads[t])[1][2] : t \in {u \in DOMAIN threads : Waits(threads[u]) # <<>>}}
    IN  {Queue(l) : l \in {m \in sought : Cardinality(Queue(m)) >= Crowd}}

\* A pool is threads that share a name; half of it blocked saturates it.
SaturatedPools(threads) ==
    LET Pool(name) == {t \in DOMAIN threads : threads[t].name = name}
    IN  {Pool(n) : n \in {threads[t].name : t \in DOMAIN threads}}
            \cap {pool \in SUBSET DOMAIN threads :
                     /\ Cardinality(pool) >= Crowd
                     /\ 2 * Cardinality({t \in pool : threads[t].blocked}) >= Cardinality(pool)}

\* Long chains overlap: only the first is reported.
LongChain(chains) ==
    LET long == {t \in DOMAIN chains : Len(WaitChain(chains, t)) >= 3}
    IN  IF long = {} THEN {} ELSE {Min(long)}

Findings(threads, deadlocks, chains) ==
    {[severity |-> "critical", kind |-> "deadlock", about |-> d] : d \in deadlocks}
        \cup {[severity |-> "warning", kind |-> "contention", about |-> q] : q \in Crowds(threads)}
        \cup {[severity |-> "warning", kind |-> "chain", about |-> ToSet(WaitChain(chains, t))] :
                 t \in LongChain(chains)}
        \cup {[severity |-> "warning", kind |-> "pool", about |-> p] : p \in SaturatedPools(threads)}

\* Mutant: lines that were not understood do not count against "healthy".
BlindVerdict(findings, frames) ==
    IF \E f \in findings : f.severity = "critical" THEN "critical"
    ELSE IF findings # {} THEN "degraded" ELSE "healthy"
Verdict(findings, frames) ==
    IF \E f \in findings : f.severity = "critical" THEN "critical"
    ELSE IF findings # {} THEN "degraded"
    ELSE IF frames = "all" THEN "healthy" ELSE "insufficient_evidence"

Diagnose(c) ==
    LET threads == ThreadsOf(c)
        chains == BlockedChains(threads)
        deadlocks == Deadlocks(c, threads)
        findings == Findings(threads, deadlocks, chains)
    IN  [deadlocks |-> deadlocks, chains |-> chains, findings |-> findings,
         verdict |-> Verdict(findings, c.frames)]

DiagnosisIdle == capture = NoCapture /\ diagnosis = NoDiagnosis

DiagnosisInit == capture \in Captures /\ diagnosis = NoDiagnosis

DiagnosisNext ==
    /\ diagnosis.verdict = "none" /\ capture # NoCapture
    /\ diagnosis' = Diagnose(capture)
    /\ UNCHANGED capture

-----------------------------------------------------------------------------
(* Properties *)

Named(cycle) == {capture.names[t] : t \in cycle}
Distinct == Cardinality(Range(capture.names)) = Len(capture.names)
Reenters == \E t \in Ids(capture) : capture.want[t][1] = "reenter"

\* Everything that makes a deadlock is in the dump: the JVM says so itself,
\* or every lock is shown and nobody is on the way out of Object.wait.
Shown == capture.section = "whole" \/ (capture.long /\ ~Reenters)

\* A dump is called healthy only if all of it was understood and, as far as
\* it shows, nobody waits behind somebody who waits himself.
HealthyMeansFree ==
    diagnosis.verdict = "healthy" =>
        /\ capture.frames = "all"
        /\ Shown /\ capture.long /\ ~Reenters =>
               \A t \in Ids(capture) : Blocker(capture, t) # 0 =>
                   Blocker(capture, Blocker(capture, t)) = 0

\* Every lock cycle of the JVM is reported, and only lock cycles are: the
\* section of the dump and the cycles inferred from the stacks together, also
\* when the section is missing or cut, a monitor was released by Object.wait
\* or two threads share a name; and no such dump is called healthy.
DeadlocksAreTheCycles ==
    diagnosis.verdict # "none" =>
        /\ Shown => \A cycle \in Cycles(capture) : Named(cycle) \in diagnosis.deadlocks
        /\ \A d \in diagnosis.deadlocks : \E cycle \in Cycles(capture) :
               /\ d \subseteq Named(cycle)
               /\ (Distinct /\ capture.section # "cut") => d = Named(cycle)
        /\ HealthyMeansFree
=============================================================================
