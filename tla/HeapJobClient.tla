--------------------------- MODULE HeapJobClient ---------------------------
(***************************************************************************)
(* The browser's side of a heap analysis: watchHeapJob of                  *)
(* heapJobClient.js and the state of App.jsx it writes, beside the job it  *)
(* watches (HeapFeed).  Statuses arrive as events of a stream, or as       *)
(* answers to polls once the stream is given up; a report is fetched when  *)
(* a status names a newer one.                                             *)
(*                                                                         *)
(* JavaScript runs one callback at a time, up to its next await.  To await *)
(* a request is: it is asked, the backend serves it, it is delivered.      *)
(***************************************************************************)
EXTENDS HeapFeed, Sequences

CONSTANTS
    Buffer,      \* bound: events sent and not yet delivered
    MaxVisits,   \* bound: how often the user reloads or reopens the page
    NoMessage    \* no status, or the answer 404

ASSUME BoundsAssumption == Buffer \in Nat \ {0} /\ MaxVisits \in Nat

VARIABLES
    active,     \* the watcher has not been stopped
    stream,     \* its EventSource; a stalled one delivers nothing
    serving,    \* the backend's generator of events has not returned
    events,     \* events sent and not yet delivered
    poll,       \* where the polling stands
    polled,     \* the answer to a poll
    processing, \* where receive() stands
    current,    \* the status it works on, or worked on last
    pending,    \* the status that came meanwhile
    fetched,    \* the watcher's revision: the last one whose report it got
    answer,     \* a report the backend has served
    jobStatus,  \* App: the status shown
    shown,      \* App: the report shown, 0 for none
    phase,      \* App: heapPhase
    cancel,     \* App: where a request to cancel stands
    told,       \* App: the status it was answered with
    detached,   \* App: the user has left the analysis
    visits,     \* reloads and reopenings
    stopped     \* history: what stopped the watcher

streamVars  == <<stream, serving, events>>
pollVars    == <<poll, polled>>
receiveVars == <<processing, current, pending, fetched, answer>>
watchVars   == <<active, streamVars, pollVars, receiveVars, stopped>>
appVars     == <<jobStatus, shown, phase>>
userVars    == <<cancel, told, detached, visits>>
vars == <<feedVars, watchVars, appVars, userVars>>

Message == [status : {"running"} \cup Over, revision : Revisions]

ASSUME NoMessageAssumption == NoMessage \notin Message

Told == IF status = "none" THEN NoMessage ELSE [status |-> status, revision |-> revision]

Answer == [revision : Revisions, status : {"none", "running"} \cup Over]

NoAnswer == [revision |-> 0, status |-> "none"]

(* The backend has accepted the job. *)
Init ==
    /\ Accepted
    /\ active = TRUE /\ stopped = "nothing"
    /\ \/ stream = "open" /\ serving = TRUE /\ poll = "off"
       \/ stream = "closed" /\ serving = FALSE /\ poll = "timer"
    /\ events = <<>> /\ polled = NoMessage
    /\ processing = "idle" /\ current = NoMessage /\ pending = NoMessage
    /\ fetched = 0 /\ answer = NoAnswer
    /\ jobStatus = "running" /\ shown = 0 /\ phase = "parsing"
    /\ cancel = "idle" /\ told = "none" /\ detached = FALSE /\ visits = 0

-----------------------------------------------------------------------------
(* receive().                                                              *)

(* No callback is running. *)
EventLoop == processing # "loop"

(* Mutant: the stream is kept beside the polling. *)
FallbackKeepsStream(p) ==
    /\ UNCHANGED streamVars
    /\ poll' = IF p = "off" THEN "timer" ELSE p

(* fallback(): the stream is closed, and polling starts if it has not. *)
Fallback(p) ==
    /\ stream' = "closed" /\ serving' = FALSE /\ events' = <<>>
    /\ poll' = IF p = "off" THEN "timer" ELSE p

(* Mutant: nothing follows the await. *)
NeverReturned == poll

(* A poll that awaits receive() sets its timer when that returns. *)
Returned == IF poll = "busy" THEN "timer" ELSE poll

(* stop(): no timer fires any more, and what is under way is ignored. *)
Stop(reason) ==
    /\ active' = FALSE
    /\ stream' = "closed" /\ serving' = FALSE /\ events' = <<>>
    /\ poll' = "off" /\ polled' = NoMessage
    /\ processing' = "idle" /\ current' = NoMessage /\ pending' = NoMessage
    /\ answer' = NoAnswer
    /\ stopped' = reason
    /\ UNCHANGED fetched

(* A status while a report is awaited replaces the one that waits. *)
Receive(m) ==
    /\ pending' = m
    /\ processing' = IF processing = "idle" THEN "loop" ELSE processing
    /\ UNCHANGED <<current, fetched, answer>>

ShowStatus(m) ==
    /\ jobStatus' = m.status
    /\ phase' = IF m.status \in Over THEN "done" ELSE phase
    /\ UNCHANGED shown

(* Mutant: the revision is taken for fetched before its report is there. *)
FetchMarked ==
    /\ pending.revision > fetched
    /\ processing' = "asked" /\ fetched' = pending.revision
    /\ current' = pending /\ pending' = NoMessage
    /\ UNCHANGED <<active, streamVars, pollVars, answer, stopped>>

Fetch ==
    /\ pending.revision > fetched
    /\ processing' = "asked"
    /\ current' = pending /\ pending' = NoMessage
    /\ UNCHANGED <<active, streamVars, pollVars, fetched, answer, stopped>>

(* Mutant: the last report of an ended job need not be fetched. *)
FinishFirst == pending.status \in Over /\ Stop(pending.status)

Finish ==
    /\ pending.revision <= fetched /\ pending.status \in Over
    /\ Stop(pending.status)

Continue ==
    /\ pending.revision <= fetched /\ pending.status \notin Over
    /\ current' = pending /\ pending' = NoMessage
    /\ UNCHANGED <<active, streamVars, pollVars, processing, fetched, answer, stopped>>

(* One round of the loop: show the status, fetch a newer report, or stop.  *)
Loop ==
    /\ processing = "loop" /\ pending # NoMessage
    /\ ShowStatus(pending)
    /\ Fetch \/ Finish \/ Continue
    /\ UNCHANGED <<feedVars, userVars>>

LoopEnds ==
    /\ processing = "loop" /\ pending = NoMessage
    /\ processing' = "idle"
    /\ poll' = Returned
    /\ UNCHANGED <<feedVars, active, streamVars, polled, current, pending, fetched, answer,
                   stopped, appVars, userVars>>

(* GET /api/analyses/{id}: the saved report, and the job's status in it.   *)
(* The status that was saved is left in it if the job is unknown.          *)
ReadReport ==
    /\ processing = "asked" /\ saved > 0
    /\ processing' = "read"
    /\ answer' = [revision |-> saved, status |-> "none"]
    /\ UNCHANGED <<feedVars, active, streamVars, pollVars, current, pending, fetched,
                   stopped, appVars, userVars>>

ReadJob ==
    /\ processing = "read"
    /\ processing' = "served"
    /\ \E s \in {"running"} \cup Over :
        /\ status # "none" => s = status
        /\ answer' = [answer EXCEPT !.status = s]
    /\ UNCHANGED <<feedVars, active, streamVars, pollVars, current, pending, fetched,
                   stopped, appVars, userVars>>

(* Mutant: any report is one of a job at work. *)
ShowReportBackground ==
    /\ shown' = answer.revision
    /\ phase' = "background"
    /\ UNCHANGED jobStatus

ShowReport ==
    /\ shown' = answer.revision
    /\ phase' = IF answer.status = "running" THEN "background" ELSE "done"
    /\ UNCHANGED jobStatus

DeliverReport ==
    /\ processing = "served"
    /\ ShowReport
    /\ fetched' = current.revision
    /\ \/ /\ current.status \in Over
          /\ active' = FALSE /\ stopped' = current.status
          /\ stream' = "closed" /\ serving' = FALSE /\ events' = <<>>
          /\ poll' = "off" /\ polled' = NoMessage
          /\ processing' = "idle" /\ current' = NoMessage /\ pending' = NoMessage
       \/ /\ current.status \notin Over
          /\ processing' = "loop"
          /\ UNCHANGED <<active, streamVars, pollVars, current, pending, stopped>>
    /\ answer' = NoAnswer
    /\ UNCHANGED <<feedVars, userVars>>

(* The request fails, or the report is not there. *)
ReportFails ==
    /\ processing \in {"asked", "read", "served"}
    /\ processing' = "idle" /\ pending' = NoMessage
    /\ answer' = NoAnswer
    /\ Fallback(Returned)
    /\ UNCHANGED <<feedVars, active, polled, current, fetched, stopped, appVars, userVars>>

-----------------------------------------------------------------------------
(* The stream.                                                             *)

(* job_events: a status, every half second, until the job is over or gone. *)
SendEvent ==
    /\ serving /\ Len(events) < Buffer
    /\ events' = Append(events, Told)
    /\ serving' = (status = "running")
    /\ UNCHANGED <<feedVars, active, stream, pollVars, receiveVars, stopped, appVars, userVars>>

DeliverEvent ==
    /\ EventLoop
    /\ stream = "open" /\ events # <<>>
    /\ \/ /\ Head(events) = NoMessage
          /\ Stop("removed")
       \/ /\ Head(events) # NoMessage
          /\ Receive(Head(events))
          /\ events' = Tail(events)
          /\ UNCHANGED <<active, stream, serving, pollVars, stopped>>
    /\ UNCHANGED <<feedVars, appVars, userVars>>

(* A proxy buffers what the backend sends. *)
Stall ==
    /\ stream = "open"
    /\ stream' = "stalled"
    /\ UNCHANGED <<feedVars, active, serving, events, pollVars, receiveVars, stopped,
                   appVars, userVars>>

(* An error, the end of the stream or the watchdog. *)
StreamFails ==
    /\ EventLoop
    /\ active /\ stream # "closed"
    /\ Fallback(poll)
    /\ UNCHANGED <<feedVars, active, polled, receiveVars, stopped, appVars, userVars>>

-----------------------------------------------------------------------------
(* Polling.                                                                *)

AskPoll ==
    /\ EventLoop
    /\ poll = "timer"
    /\ poll' = "asked"
    /\ UNCHANGED <<feedVars, active, streamVars, polled, receiveVars, stopped, appVars, userVars>>

ServePoll ==
    /\ poll = "asked"
    /\ poll' = "served" /\ polled' = Told
    /\ UNCHANGED <<feedVars, active, streamVars, receiveVars, stopped, appVars, userVars>>

DeliverPoll ==
    /\ EventLoop
    /\ poll = "served" /\ polled # NoMessage
    /\ Receive(polled)
    /\ poll' = IF processing = "idle" THEN "busy" ELSE "timer"
    /\ polled' = NoMessage
    /\ UNCHANGED <<feedVars, active, streamVars, stopped, appVars, userVars>>

(* Mutant: a poll that fails is the last one. *)
PollFailsForGood ==
    /\ EventLoop
    /\ poll \in {"asked", "served"}
    /\ poll' = "off" /\ polled' = NoMessage
    /\ UNCHANGED <<feedVars, active, streamVars, receiveVars, stopped, appVars, userVars>>

(* The request fails, or the job is not there: the next poll may find it. *)
PollFails ==
    /\ EventLoop
    /\ poll \in {"asked", "served"}
    /\ poll' = "timer" /\ polled' = NoMessage
    /\ UNCHANGED <<feedVars, active, streamVars, receiveVars, stopped, appVars, userVars>>

-----------------------------------------------------------------------------
(* The user.                                                               *)

(* "Stop background analysis", on the page of a report. *)
AskCancel ==
    /\ EventLoop
    /\ ~detached /\ shown > 0 /\ jobStatus = "running"
    /\ cancel = "idle"
    /\ cancel' = "asked"
    /\ UNCHANGED <<feedVars, watchVars, appVars, told, detached, visits>>

(* The backend notes the request and answers with the job's status. *)
ServeCancel ==
    /\ cancel = "asked" /\ status # "none"
    /\ cancel' = "served" /\ told' = status
    /\ UNCHANGED <<feedVars, watchVars, appVars, detached, visits>>

(* Is it still the job of the page?  Then its answer is read. *)
DeliverCancel ==
    /\ EventLoop
    /\ cancel = "served" /\ ~detached
    /\ cancel' = "accepted"
    /\ UNCHANGED <<feedVars, watchVars, appVars, told, detached, visits>>

ShowCancel ==
    /\ EventLoop
    /\ cancel = "accepted"
    /\ jobStatus' = told
    /\ cancel' = "idle" /\ told' = "none"
    /\ UNCHANGED <<feedVars, watchVars, shown, phase, detached, visits>>

(* The request fails, or the answer is of a job that was left. *)
CancelFails ==
    /\ EventLoop
    /\ cancel # "idle"
    /\ cancel' = "idle" /\ told' = "none"
    /\ UNCHANGED <<feedVars, watchVars, appVars, detached, visits>>

(* Mutant: the user leaves, the watch goes on. *)
LeaveWatching ==
    /\ EventLoop
    /\ ~detached
    /\ detached' = TRUE
    /\ jobStatus' = "none" /\ shown' = 0 /\ phase' = "none"
    /\ UNCHANGED <<feedVars, watchVars, cancel, told, visits>>

(* reset(): the user leaves the report, or the page of the progress. *)
Leave ==
    /\ EventLoop
    /\ ~detached
    /\ detached' = TRUE
    /\ Stop("left")
    /\ jobStatus' = "none" /\ shown' = 0 /\ phase' = "none"
    /\ UNCHANGED <<feedVars, cancel, told, visits>>

(* watchHeapJob: with a stream (404 if the job is unknown), or without. *)
Watch ==
    /\ active' = TRUE /\ stopped' = "nothing"
    /\ \/ stream' = "open" /\ serving' = (status # "none") /\ poll' = "off"
       \/ stream' = "closed" /\ serving' = FALSE /\ poll' = "timer"
    /\ events' = <<>> /\ polled' = NoMessage
    /\ processing' = "idle" /\ current' = NoMessage /\ pending' = NoMessage
    /\ fetched' = 0 /\ answer' = NoAnswer

(* The saved report is opened from the history, and its job watched again. *)
Reopen ==
    /\ EventLoop
    /\ detached /\ saved > 0
    /\ visits < MaxVisits /\ visits' = visits + 1
    /\ detached' = FALSE
    /\ Watch
    /\ shown' = saved
    /\ UNCHANGED <<feedVars, jobStatus, phase, cancel, told>>

(* The browser loads the page again; localStorage names the job. *)
Reload ==
    /\ EventLoop
    /\ ~detached
    /\ visits < MaxVisits /\ visits' = visits + 1
    /\ Watch
    /\ jobStatus' = "none" /\ shown' = 0 /\ phase' = "parsing"
    /\ cancel' = "idle" /\ told' = "none"
    /\ UNCHANGED <<feedVars, detached>>

-----------------------------------------------------------------------------

(* No write of the backend fails and nobody deletes the report. *)
Job == (Save \/ Tell \/ End \/ Interrupt \/ Forget)
       /\ UNCHANGED <<watchVars, appVars, userVars>>

Watcher ==
    \/ Loop \/ LoopEnds \/ ReadReport \/ ReadJob \/ DeliverReport \/ ReportFails
    \/ SendEvent \/ DeliverEvent \/ Stall \/ StreamFails
    \/ AskPoll \/ ServePoll \/ DeliverPoll \/ PollFails

User ==
    \/ AskCancel \/ ServeCancel \/ DeliverCancel \/ ShowCancel \/ CancelFails
    \/ Leave \/ Reopen \/ Reload

Next == Job \/ Watcher \/ User

Spec == Init /\ [][Next]_vars

(* The browser runs its callbacks, a stream that has ended or is silent    *)
(* fails (onerror, the watchdog), the backend answers what it is asked,    *)
(* and a request that is made again and again is not lost every time.  The *)
(* job and the user need not act.                                          *)
Fairness ==
    /\ WF_vars(Loop) /\ WF_vars(LoopEnds)
    /\ WF_vars(SendEvent) /\ WF_vars(DeliverEvent)
    /\ WF_vars((stream = "stalled" \/ ~serving) /\ StreamFails)
    /\ WF_vars(AskPoll) /\ WF_vars(ServePoll \/ DeliverPoll)
    /\ WF_vars(ReadReport \/ ReadJob \/ DeliverReport)
    /\ []<>(poll = "asked") => []<><<DeliverPoll>>_vars
    /\ []<>(processing = "asked") => []<><<DeliverReport>>_vars

FairSpec == Spec /\ Fairness

-----------------------------------------------------------------------------
(* Properties.                                                             *)

(* Type invariant: every variable keeps the values its code gives it. *)
TypeOK ==
    /\ FeedTypeOK
    /\ active \in BOOLEAN
    /\ stream \in {"open", "stalled", "closed"} /\ serving \in BOOLEAN
    /\ events \in Seq(Message \cup {NoMessage})
    /\ poll \in {"off", "timer", "asked", "served", "busy"}
    /\ poll = "busy" => processing # "idle"
    /\ polled \in Message \cup {NoMessage}
    /\ processing \in {"idle", "loop", "asked", "read", "served"}
    /\ current \in Message \cup {NoMessage} /\ pending \in Message \cup {NoMessage}
    /\ fetched \in Revisions /\ answer \in Answer
    /\ jobStatus \in {"none", "running"} \cup Over
    /\ shown \in Revisions
    /\ phase \in {"none", "parsing", "background", "done"}
    /\ cancel \in {"idle", "asked", "served", "accepted"}
    /\ told \in {"none", "running"} \cup Over
    /\ detached \in BOOLEAN /\ visits \in 0..MaxVisits
    /\ stopped \in {"nothing", "left", "removed"} \cup Over

(* When the watch of a job has ended, its last report is shown, however    *)
(* statuses and reports were interleaved; after a restart of the backend   *)
(* it may be one behind.                                                   *)
LastReportShown ==
    ~detached =>
        /\ stopped \in Ended => shown = saved
        /\ stopped = "interrupted" => saved <= shown + 1

(* The page is free for other work when the watch has ended, and says that *)
(* the job is at work only while somebody will tell it otherwise.          *)
PhaseSettles ==
    /\ stopped \in Over /\ ~detached => phase = "done"
    /\ phase = "background" => active

(* When the watch has ended, the page is as the backend left it.           *)
PageSettles == LastReportShown /\ PhaseSettles

(* A watch never shows a status that is older than the one it has shown,   *)
(* by the stream, by polls or across the change from one to the other: an  *)
(* ended job does not run again, and no revision is taken back (but by a   *)
(* restart of the backend).                                                *)
StatusesInOrder ==
    [][active /\ active' /\ NoMessage \notin {current, current'} =>
        /\ current.status \in Over => current'.status \in Over
        /\ current.revision <= current'.revision \/ current'.status = "interrupted"]_vars

(* "Detaching during a report request prevents stale navigation": once the *)
(* user has left, no answer and no event changes what the page shows.  (A  *)
(* late answer to a request to cancel may set a status nobody sees.)       *)
DetachedUntouched ==
    [][detached /\ detached' => UNCHANGED <<shown, phase>>
                                /\ (jobStatus' = jobStatus \/ ShowCancel)]_vars

(* No answer and no event, however late, takes the page back.              *)
PageInOrder == StatusesInOrder /\ DetachedUntouched

(* The end of a watched job is noticed, whatever the stream does: it is    *)
(* never over with the watch going on for good.                            *)
WatchEnds == []<>(status \in Over => ~active)

(* The reports that were told of are shown while the watch goes on,        *)
(* although requests fail: it is never behind them for good.               *)
ReportsArrive == []<>(active => shown >= revision)

-----------------------------------------------------------------------------
(* The inductive invariant behind the safety properties.  HeapJobClient-   *)
(* Proofs proves it.                                                       *)

(* The feed of a job whose writes all succeed. *)
FeedInv ==
    /\ ~withdrawn /\ ~faulty
    /\ revision <= saved
    /\ status \in Ended => revision = saved
    /\ status = "interrupted" => saved <= revision + 1
    /\ status = "none" => saved = 0

(* What the watcher does, and what it leaves when it has been stopped. *)
WatchInv ==
    /\ active <=> stopped = "nothing"
    /\ ~active => stream = "closed" /\ poll = "off" /\ processing = "idle"
    /\ stream = "closed" => events = <<>> /\ ~serving
    /\ poll # "off" => stream = "closed"
    /\ poll # "served" => polled = NoMessage
    /\ processing = "idle" => pending = NoMessage
    /\ processing \in {"asked", "read", "served"} => current # NoMessage
    /\ detached => ~active /\ shown = 0 /\ phase = "none"

(* However late it comes, a status says of the job what is still true: it  *)
(* is not ahead of the job, and one of an ended job names the last report. *)
StillTrue(m) ==
    m # NoMessage =>
        /\ m.revision <= saved
        /\ status \in {"running"} \cup Ended => m.revision <= revision
        /\ m.status \in Over => status # "running"
        /\ m.status \in Ended => m.revision = saved
        /\ m.status = "interrupted" =>
              status \in {"interrupted", "none"} /\ saved <= m.revision + 1

(* m was told before n. *)
Precedes(m, n) ==
    NoMessage \notin {m, n} =>
        /\ m.status \in Over => n.status \in Over
        /\ m.status = "interrupted" => n.status = "interrupted"
        /\ m.revision <= n.revision \/ n.status = "interrupted"

(* The statuses on their way are in the order in which they were told:     *)
(* the one worked on, the one that waits, then the poll's or the stream's. *)
StatusOrderInv ==
    /\ StillTrue(current) /\ StillTrue(pending) /\ StillTrue(polled)
    /\ Precedes(current, pending) /\ Precedes(current, polled) /\ Precedes(pending, polled)
    /\ \A i \in DOMAIN events :
          /\ StillTrue(events[i])
          /\ Precedes(current, events[i]) /\ Precedes(pending, events[i])
          /\ \A j \in DOMAIN events : i < j => Precedes(events[i], events[j])
          /\ events[i] = NoMessage => status = "none"

(* The report shown is at least the one the watcher takes for fetched, and *)
(* the one on its way at least the one that was told of.                   *)
ReportInv ==
    /\ ~detached => fetched <= shown
    /\ shown <= saved
    /\ phase = "background" => saved > 0
    /\ processing \in {"read", "served"} =>
          /\ saved > 0
          /\ current.revision <= answer.revision /\ answer.revision <= saved
    /\ processing = "served" /\ current.status \in Over => answer.status # "running"
    /\ stopped \in Over => status # "running"

ClientInv ==
    /\ TypeOK
    /\ FeedInv /\ WatchInv /\ StatusOrderInv /\ ReportInv
    /\ PageSettles
=============================================================================
