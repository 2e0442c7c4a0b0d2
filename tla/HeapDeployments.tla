-------------------------- MODULE HeapDeployments --------------------------
(***************************************************************************)
(* Which deployed application a class and a thread of a heap dump belong   *)
(* to (analyzers/heap_deployments.py): the capture that rides along on the *)
(* scan, the two passes that look up names in the file, and the analysis.  *)
(*                                                                         *)
(* A file is a sequence of records, classes first as HotSpot writes them:  *)
(*   class    [cid, name, super, loader, pd]                               *)
(*   root     [oid]                   a live thread                        *)
(*   instance [oid, cid, slots]       slots: <<field, value>> in the order *)
(*                                    of the layout                        *)
(*   array    [oid, text]             what a String's backing array says   *)
(* Identifiers are numbers and 0 is null.  A job is a file, the limit on   *)
(* the instances that are kept, and whether names are looked up at all.    *)
(* What a text or a class name looks like is given by the constants.       *)
(***************************************************************************)
EXTENDS HeapIndex, Functions, StableOrder

CONSTANTS
    DeploymentJobs,   \* the jobs: [file, cap, resolve]
    SystemLoaders,    \* class names of the loaders of the JVM itself
    WebappLoaders,    \* class names that hint at a web application
    UserCode,         \* class names that are application code
    Artifact,         \* code source |-> its archive, where it names one
    Archives,         \* archives that are web applications (.war, .ear)
    Package           \* class name |-> its package, where it has one

VARIABLES
    job,          \* the input
    pass,         \* "idle", "scan", "instances", "arrays", "report" or "done"
    offset,         \* the record the pass reads next
    scan,         \* DeploymentScan: what the scan has kept
    wanted,       \* identifiers still looked for in this pass
    bodies,       \* strings found: <<string, backing array>>
    names,        \* _Names: text and class names found
    ownership     \* what analyze_deployments returns

deploymentVars == <<job, pass, offset, scan, wanted, bodies, names, ownership>>

None == "none"
NoScan == [classes |-> <<>>, roots |-> {}, retained |-> <<>>, truncated |-> FALSE]
NoNames == [text |-> <<>>, klass |-> <<>>]
NoOwnership == [deployments |-> <<>>, threads |-> <<>>, findings |-> {}]
NoFile == [file |-> <<>>, cap |-> 0, resolve |-> FALSE]

-----------------------------------------------------------------------------
(* What a heap dump promises: classes come first, an identifier is that of *)
(* one class, object or array, and is not null.                            *)

Alone(file, tag, id) ==
    \A i, k \in DOMAIN file :
        (file[i].tag = tag /\ file[k].tag = tag /\ file[i][id] = file[k][id]) => i = k

ObjectsFollowClasses(file) ==
    \E m \in 0..Len(file) : \A i \in DOMAIN file : file[i].tag = "class" <=> i =< m

ASSUME DumpsAssumption ==
    \A j \in DeploymentJobs :
        /\ j.file \in Seq(ToSet(j.file)) /\ ObjectsFollowClasses(j.file)
        /\ Alone(j.file, "class", "cid") /\ Alone(j.file, "instance", "oid")
        /\ Alone(j.file, "array", "oid")
        /\ \A r \in ToSet(j.file) : (r.tag = "instance" => r.oid # 0) /\ (r.tag = "array" => r.text # None)

ASSUME ArtifactAssumption == None \notin DOMAIN Artifact

-----------------------------------------------------------------------------
(* The capture *)

RetainExact == {"ThreadGroup", "FieldHolder", "ProtectionDomain", "CodeSource", "URL"}
RetainSupers == {"Thread", "ClassLoader"}

\* The classes of a scan, as a dump of nothing else.
ClassesIn(s) == [classes |-> s.classes]
NameIn(s, cid) == NameOf(ClassesIn(s), cid)

ChainNames(d, cid) == {NameOf(d, c) : c \in ToSet(Chain(d, cid))}
IsThreadClass(s, cid) == "Thread" \in ChainNames(ClassesIn(s), cid)
Wants(s, cid) ==
    \/ NameIn(s, cid) \in RetainExact
    \/ ChainNames(ClassesIn(s), cid) \cap RetainSupers # {}

NoteInstance(s, r) ==
    IF Len(s.retained) >= job.cap THEN [s EXCEPT !.truncated = TRUE]
    ELSE [s EXCEPT !.retained = Append(@, r)]

Note(s, r) ==
    CASE r.tag = "class" -> [s EXCEPT !.classes = Append(@, r)]
      [] r.tag = "root" -> [s EXCEPT !.roots = @ \cup {r.oid}]
      [] r.tag = "instance" /\ Wants(s, r.cid) -> NoteInstance(s, r)
      [] OTHER -> s

\* An own field and an inherited one of the same name: the later one stays.
Decoded(slots, field) ==
    LET hits == {i \in DOMAIN slots : slots[i][1] = field}
    IN  IF hits = {} THEN 0 ELSE slots[Max(hits)][2]

\* Null for a field the object has not, or an object that was not kept.
KeptAs(s, oid) == {i \in DOMAIN s.retained : s.retained[i].oid = oid}
Field(s, oid, field) ==
    IF KeptAs(s, oid) = {} THEN 0 ELSE Decoded(s.retained[Max(KeptAs(s, oid))].slots, field)

Has(s, oid, field) ==
    \E r \in ToSet(s.retained) : r.oid = oid /\ \E i \in DOMAIN r.slots : r.slots[i][1] = field

FirstOf(values) ==
    LET set == {i \in DOMAIN values : values[i] # 0}
    IN  IF set = {} THEN 0 ELSE values[Min(set)]

-----------------------------------------------------------------------------
(* What has to be looked up *)

Loaders(s) == {s.classes[i].loader : i \in DOMAIN s.classes} \ {0}
Threads(s) == Those(s.retained, LAMBDA r : IsThreadClass(s, r.cid))

ProtectionDomainOf(s, loader) ==
    FirstOf(Mapped(LAMBDA c : IF c.loader = loader THEN c.pd ELSE 0, s.classes))

LocationOf(s, loader) ==
    LET source == Field(s, ProtectionDomainOf(s, loader), "codesource")
        url == Field(s, source, "location")
    IN  FirstOf(<<Field(s, url, "file"), Field(s, url, "path")>>)

ContextOf(s, loader) ==
    FirstOf(<<Field(s, loader, "contextName"), Field(s, loader, "contextPath"),
              Field(s, loader, "name")>>)

\* Since JDK 19 the Runnable hangs off the thread's FieldHolder.
TargetOf(s, thread) ==
    LET holder == Field(s, thread, "holder")
    IN  IF Has(s, holder, "task") THEN Field(s, holder, "task")
        ELSE Field(s, thread, "target")

WantedStrings(s) ==
    (UNION {{LocationOf(s, l), ContextOf(s, l)} : l \in Loaders(s)}
        \cup {Field(s, t.oid, "name") : t \in ToSet(Threads(s))}) \ {0}
WantedClasses(s) == {TargetOf(s, t.oid) : t \in ToSet(Threads(s))} \ {0}

\* An array two strings share is wanted for the one found last.
StringOf(found, array) ==
    found[Max({i \in DOMAIN found : found[i][2] = array})][1]
\* An entry of a dictionary.
Put(f, x, value) == [y \in DOMAIN f \cup {x} |-> IF y = x THEN value ELSE f[y]]
ArraysOf(found) == {found[i][2] : i \in DOMAIN found} \ {0}

-----------------------------------------------------------------------------
(* Deployments, threads and findings *)

TextOf(n, oid) == IF oid \in DOMAIN n.text THEN n.text[oid] ELSE None
ArtifactOf(source) == IF source \in DOMAIN Artifact THEN Artifact[source] ELSE None

\* The most frequent package, the one seen first among equals.
CommonPackage(s, loader) ==
    LET own == SelectSeq(s.classes, LAMBDA c : c.loader = loader /\ c.name \in DOMAIN Package)
        Times(i) == Cardinality({j \in DOMAIN own : Package[own[j].name] = Package[own[i].name]})
        best == {i \in DOMAIN own : \A j \in DOMAIN own : Times(j) =< Times(i)}
    IN  IF own = <<>> THEN None ELSE Package[own[Min(best)].name]

LoaderClass(s, loader) ==
    IF KeptAs(s, loader) = {} THEN None
    ELSE NameIn(s, s.retained[Max(KeptAs(s, loader))].cid)

Deployment(s, n, loader) ==
    LET source == TextOf(n, LocationOf(s, loader))
        context == TextOf(n, ContextOf(s, loader))
        archive == ArtifactOf(source)
        class == LoaderClass(s, loader)
    IN  [class |-> class, source |-> source, artifact |-> archive,
         name |-> IF context # None THEN context
                  ELSE IF archive # None THEN archive ELSE CommonPackage(s, loader),
         webapp |-> class \notin SystemLoaders /\
                    (class \in WebappLoaders \/ archive \in Archives),
         classes |-> Cardinality({i \in DOMAIN s.classes : s.classes[i].loader = loader})]

\* Mutant: only a loader whose location is known is a deployment.
LocatedDeployments(s, n) ==
    [l \in {m \in Loaders(s) : TextOf(n, LocationOf(s, m)) # None} |-> Deployment(s, n, l)]
Deployments(s, n) == [l \in Loaders(s) |-> Deployment(s, n, l)]

\* What a loader serves; loaders of an unknown location are never compared.
Served(d) == IF d.artifact # None THEN d.artifact ELSE d.source
\* Mutant: loaders of an unknown location are grouped as well.
EveryGroup(deps) == [l \in DOMAIN deps |-> <<Served(deps[l]), deps[l].name>>]
Groups(deps) == [l \in {m \in DOMAIN deps : Served(deps[m]) # None} |->
                    <<Served(deps[l]), deps[l].name>>]
Stale(deps) ==
    LET group == Groups(deps)
    IN  {l \in DOMAIN group : \E m \in DOMAIN group \ {l} : group[m] = group[l]}

\* The loader a Runnable of this class comes from: the first that has one.
LoaderOfTarget(s, class) ==
    FirstOf(Mapped(LAMBDA c : IF c.name = class THEN c.loader ELSE 0, s.classes))

Attribution(s, n, deps, t) ==
    LET own == ClassOf(ClassesIn(s), t.cid).loader
        target == TargetOf(s, t.oid)
        class == IF target \in DOMAIN n.klass THEN n.klass[target] ELSE None
        byTarget == IF class \in UserCode THEN LoaderOfTarget(s, class) ELSE 0
        context == Field(s, t.oid, "contextClassLoader")
    IN  CASE own # 0 -> [to |-> own, by |-> "own-class"]
          [] own = 0 /\ byTarget # 0 -> [to |-> byTarget, by |-> "target"]
          [] /\ own = 0 /\ byTarget = 0
             /\ context \in DOMAIN deps
             /\ deps[context].class \notin SystemLoaders
                -> [to |-> context, by |-> "context-classloader"]
          [] OTHER -> [to |-> 0, by |-> "unattributed"]

Attributed(s, n, deps) ==
    Mapped(LAMBDA t : [oid |-> t.oid, live |-> t.oid \in s.roots,
                       deployment |-> Attribution(s, n, deps, t).to,
                       by |-> Attribution(s, n, deps, t).by],
           Threads(s))

Pinned(threads, l) == \E t \in ToSet(threads) : t.live /\ t.deployment = l

OwnershipFindings(s, deps, threads) ==
    LET webapps == {l \in DOMAIN deps : deps[l].webapp}
        stale == webapps \cap Stale(deps)
        Copies(a) == {l \in webapps : deps[l].artifact = a}
    IN  {[kind |-> "pinned", about |-> {l}] : l \in {m \in stale : Pinned(threads, m)}}
        \cup {[kind |-> "copies", about |-> Copies(a)] :
                 a \in {b \in {deps[l].artifact : l \in stale} \ {None} :
                           \A l \in Copies(b) : ~Pinned(threads, l)}}
        \cup (IF s.truncated THEN {[kind |-> "truncated", about |-> {}]} ELSE {})

Analysis(s, n) ==
    LET deps == Deployments(s, n)
        threads == Attributed(s, n, deps)
    IN  [deployments |-> deps, threads |-> threads,
         findings |-> OwnershipFindings(s, deps, threads)]

-----------------------------------------------------------------------------
(* The steps: one record of the file at a time *)

DeploymentsIdle ==
    /\ job = NoFile /\ pass = "idle" /\ offset = 1 /\ scan = NoScan /\ wanted = {}
    /\ bodies = <<>> /\ names = NoNames /\ ownership = NoOwnership

DeploymentsInit ==
    /\ job \in DeploymentJobs
    /\ pass = "scan" /\ offset = 1 /\ scan = NoScan /\ wanted = {}
    /\ bodies = <<>> /\ names = NoNames /\ ownership = NoOwnership

NextRecord == job.file[offset]

\* One record of the main pass.
Capture ==
    /\ pass = "scan" /\ offset =< Len(job.file)
    /\ offset' = offset + 1
    /\ scan' = Note(scan, NextRecord)
    /\ UNCHANGED <<job, pass, wanted, bodies, names, ownership>>

\* Off, or nothing to look for: the analysis goes on without names.
StartLookup ==
    /\ pass = "scan" /\ offset > Len(job.file)
    /\ offset' = 1
    /\ wanted' = IF job.resolve THEN WantedStrings(scan) \cup WantedClasses(scan) ELSE {}
    /\ pass' = IF wanted' = {} THEN "report" ELSE "instances"
    /\ UNCHANGED <<job, scan, bodies, names, ownership>>

\* Pass A: the class of a wanted object, the body of a wanted String.
ReadInstance ==
    /\ pass = "instances" /\ offset =< Len(job.file) /\ wanted # {}
    /\ offset' = offset + 1
    /\ LET r == NextRecord
           hit == r.tag = "instance" /\ r.oid \in wanted
           class == NameIn(scan, r.cid)
       IN  IF hit
           THEN /\ wanted' = wanted \ {r.oid}
                /\ names' = IF r.oid \in WantedClasses(scan)
                            THEN [names EXCEPT !.klass = Put(@, r.oid, class)] ELSE names
                /\ bodies' = IF r.oid \in WantedStrings(scan) /\ class = "String"
                             THEN Append(bodies, <<r.oid, Decoded(r.slots, "value")>>)
                             ELSE bodies
           ELSE UNCHANGED <<wanted, names, bodies>>
    /\ UNCHANGED <<job, pass, scan, ownership>>

StartArrays ==
    /\ pass = "instances" /\ (offset > Len(job.file) \/ wanted = {})
    /\ offset' = 1
    /\ wanted' = ArraysOf(bodies)
    /\ pass' = IF wanted' = {} THEN "report" ELSE "arrays"
    /\ UNCHANGED <<job, scan, bodies, names, ownership>>

\* Pass B: the arrays behind the strings.
ReadArray ==
    /\ pass = "arrays" /\ offset =< Len(job.file) /\ wanted # {}
    /\ offset' = offset + 1
    /\ LET r == NextRecord IN
       IF r.tag = "array" /\ r.oid \in wanted
       THEN /\ wanted' = wanted \ {r.oid}
            /\ names' = [names EXCEPT !.text = Put(@, StringOf(bodies, r.oid), r.text)]
       ELSE UNCHANGED <<wanted, names>>
    /\ UNCHANGED <<job, pass, scan, bodies, ownership>>

EndLookup ==
    /\ pass = "arrays" /\ (offset > Len(job.file) \/ wanted = {})
    /\ pass' = "report"
    /\ UNCHANGED <<job, offset, scan, wanted, bodies, names, ownership>>

\* Reading the file again raises: every name is given up.
LookupFails ==
    /\ pass \in {"instances", "arrays"}
    /\ names' = NoNames /\ pass' = "report"
    /\ UNCHANGED <<job, offset, scan, wanted, bodies, ownership>>

AnalyzeDeployments ==
    /\ pass = "report"
    /\ ownership' = Analysis(scan, names)
    /\ pass' = "done"
    /\ UNCHANGED <<job, offset, scan, wanted, bodies, names>>

DeploymentsNext ==
    \/ Capture \/ StartLookup \/ ReadInstance \/ StartArrays \/ ReadArray
    \/ EndLookup \/ LookupFails \/ AnalyzeDeployments

-----------------------------------------------------------------------------
(* Properties.  Truth is read off the whole file. *)

RecordsOf(tag) == {r \in ToSet(job.file) : r.tag = tag}
Everything ==
    [NoScan EXCEPT !.classes = Those(job.file, LAMBDA r : r.tag = "class"),
                   !.retained = Those(job.file, LAMBDA r : r.tag = "instance")]
TrueText(oid) ==
    LET string == {r \in RecordsOf("instance") : r.oid = oid}
        says == {a.text : a \in {b \in RecordsOf("array") :
                             \E r \in string : Decoded(r.slots, "value") = b.oid}}
    IN  IF says = {} THEN None ELSE CHOOSE text \in says : TRUE
TrueSource(l) == TrueText(LocationOf(Everything, l))
TrueServed(l) ==
    IF ArtifactOf(TrueSource(l)) # None THEN ArtifactOf(TrueSource(l)) ELSE TrueSource(l)
TrueContext(l) == TrueText(ContextOf(Everything, l))

\* "Best effort - structure still stands": whatever becomes of the names,
\* every loader of the file is a deployment with all its classes; a thread
\* is live exactly when it is a root, and one whose class a deployment
\* loaded is that deployment's; only the limit loses threads, and says so.
StructureStands ==
    pass = "done" =>
        /\ DOMAIN ownership.deployments = {c.loader : c \in RecordsOf("class")} \ {0}
        /\ \A l \in DOMAIN ownership.deployments :
               ownership.deployments[l].classes =
                   Cardinality({c \in RecordsOf("class") : c.loader = l})
        /\ \A t \in ToSet(ownership.threads) :
               /\ t.live <=> \E r \in RecordsOf("root") : r.oid = t.oid
               /\ \A r \in RecordsOf("instance"), c \in RecordsOf("class") :
                      (r.oid = t.oid /\ r.cid = c.cid /\ c.loader # 0) => t.deployment = c.loader
        /\ \/ {t.oid : t \in ToSet(ownership.threads)} =
                   {r.oid : r \in ToSet(Threads(Everything))}
           \/ \E f \in ownership.findings : f.kind = "truncated"

\* The report has the context name of a deployment.
ContextFound(l) == TextOf(names, ContextOf(scan, l)) # None

\* A class loader leak is reported only of loaders that another loader of
\* the dump really serves the same archive as, under the same context name
\* as far as both were found: an unknown location never makes two
\* applications one.
LeaksAreRedeploys ==
    pass = "done" =>
        \A f \in ownership.findings : f.kind \in {"pinned", "copies"} =>
            \A l \in f.about : \E m \in DOMAIN ownership.deployments \ {l} :
                /\ TrueServed(l) # None /\ TrueServed(m) = TrueServed(l)
                /\ f.kind = "pinned" /\ ContextFound(l) /\ ContextFound(m)
                       => TrueContext(m) = TrueContext(l)

\* Who owns what in the heap, and which redeployed application is still held.
OwnershipIsTrue == StructureStands /\ LeaksAreRedeploys

\* "The Runnable is application code - find the loader that loaded it": a
\* thread attributed by its Runnable is the deployment's whose class that
\* Runnable is an instance of.
ThreadsBelongToTheirLoader ==
    pass = "done" =>
        \A t \in ToSet(ownership.threads) : t.by = "target" =>
            \E r \in RecordsOf("instance"), c \in RecordsOf("class") :
                /\ r.oid = TargetOf(Everything, t.oid)
                /\ r.cid = c.cid /\ c.loader = t.deployment
=============================================================================
