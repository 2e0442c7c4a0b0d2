------------------------- MODULE HeapJobClientProofs -------------------------
(***************************************************************************)
(* Proofs about HeapJobClient: for any number of reports, of events on     *)
(* their way and of reloads, a page ends up with the job's last report and *)
(* never shows a status older than one it has shown.  ClientInv has a      *)
(* section for each of its parts.                                          *)
(***************************************************************************)
EXTENDS HeapJobClient, TLAPS

(* Revisions are natural numbers, and a status carries one. *)
LEMMA MessageType ==
    ASSUME NEW m \in Message \cup {NoMessage}, m # NoMessage
    PROVE  /\ m.revision \in Nat /\ m.revision \in Revisions
           /\ m.status \in {"running"} \cup Over
  BY RevisionsAssumption DEF Message

(* So are the feed's revisions, the one fetched and the one shown. *)
LEMMA FeedTypes ==
    ASSUME TypeOK
    PROVE  /\ revision \in Nat /\ saved \in Nat /\ fetched \in Nat /\ shown \in Nat
           /\ answer.revision \in Nat /\ answer.revision \in Revisions
           /\ answer.status \in {"none", "running"} \cup Over
           /\ status \in {"none", "running"} \cup Over
  BY RevisionsAssumption DEF TypeOK, FeedTypeOK, Answer

(* What a client is told of a job is a status, unless there is no job. *)
LEMMA ToldType ==
    ASSUME TypeOK
    PROVE  /\ Told \in Message \cup {NoMessage}
           /\ status = "none" => Told = NoMessage
           /\ status # "none" => /\ Told # NoMessage
                                 /\ Told.status = status /\ Told.revision = revision
<1>1. CASE status = "none"
  BY <1>1 DEF Told
<1>2. CASE status # "none"
  <2>1. Told = [status |-> status, revision |-> revision]
    BY <1>2 DEF Told
  <2>2. Told \in Message
    BY <1>2, <2>1 DEF TypeOK, FeedTypeOK, Message
  <2>. QED
    BY <1>2, <2>1, <2>2, NoMessageAssumption
<1>. QED
  BY <1>1, <1>2

(* The answers and the lack of one are typed. *)
LEMMA NoAnswerType == NoAnswer \in Answer
  BY RevisionsAssumption DEF NoAnswer, Answer

(* No event on its way is a sequence of them. *)
LEMMA NoEventsType == <<>> \in Seq(Message \cup {NoMessage})
  OBVIOUS

(* The event that is delivered, and those that stay behind it. *)
LEMMA EventsType ==
    ASSUME TypeOK, events # <<>>
    PROVE  /\ Head(events) \in Message \cup {NoMessage} /\ Head(events) = events[1]
           /\ 1 \in DOMAIN events
           /\ Tail(events) \in Seq(Message \cup {NoMessage})
           /\ \A i \in DOMAIN Tail(events) :
                 i + 1 \in DOMAIN events /\ Tail(events)[i] = events[i + 1]
           /\ DOMAIN Tail(events) \subseteq Nat
  BY DEF TypeOK

(* The events there are after one more. *)
LEMMA AppendType ==
    ASSUME TypeOK, NEW m \in Message \cup {NoMessage}
    PROVE  /\ Append(events, m) \in Seq(Message \cup {NoMessage})
           /\ DOMAIN events \subseteq Nat
           /\ \A i \in DOMAIN Append(events, m) :
                 \/ i \in DOMAIN events /\ Append(events, m)[i] = events[i]
                 \/ Append(events, m)[i] = m /\ \A j \in DOMAIN events : j < i
  BY DEF TypeOK

-----------------------------------------------------------------------------
(* Types.                                                                  *)

(* A step of the job keeps the feed's types. *)
LEMMA TypeJob ==
    ASSUME TypeOK, Job PROVE TypeOK'
<1>1. FeedTypeOK'
  BY DEF TypeOK, FeedTypeOK, Job, Save, Tell, End, Interrupt, Forget, Lag, Over, Ended
<1>. QED
  BY <1>1 DEF TypeOK, Job, watchVars, streamVars, pollVars, receiveVars, appVars, userVars

(* Stopping the watcher leaves everything typed. *)
LEMMA TypeStop ==
    ASSUME TypeOK, NEW reason \in {"left", "removed"} \cup Over, Stop(reason)
    PROVE  /\ active' \in BOOLEAN /\ stream' = "closed" /\ serving' \in BOOLEAN
           /\ events' \in Seq(Message \cup {NoMessage})
           /\ poll' = "off" /\ polled' \in Message \cup {NoMessage}
           /\ processing' = "idle"
           /\ current' \in Message \cup {NoMessage} /\ pending' \in Message \cup {NoMessage}
           /\ fetched' \in Revisions /\ answer' \in Answer
           /\ stopped' \in {"nothing", "left", "removed"} \cup Over
  BY NoAnswerType, NoEventsType DEF TypeOK, Stop

(* A new watch is typed. *)
LEMMA TypeWatch ==
    ASSUME TypeOK, Watch
    PROVE  /\ active' \in BOOLEAN /\ stream' \in {"open", "closed"} /\ serving' \in BOOLEAN
           /\ events' \in Seq(Message \cup {NoMessage})
           /\ poll' \in {"off", "timer"} /\ polled' \in Message \cup {NoMessage}
           /\ processing' = "idle"
           /\ current' \in Message \cup {NoMessage} /\ pending' \in Message \cup {NoMessage}
           /\ fetched' \in Revisions /\ answer' \in Answer
           /\ stopped' \in {"nothing", "left", "removed"} \cup Over
<1>1. serving' \in BOOLEAN
  BY DEF Watch
<1>. QED
  BY <1>1, NoAnswerType, NoEventsType, RevisionsAssumption DEF Watch

(* The types of the watcher's variables, and of the page's. *)
WatchTypeOK ==
    /\ active \in BOOLEAN
    /\ stream \in {"open", "stalled", "closed"} /\ serving \in BOOLEAN
    /\ events \in Seq(Message \cup {NoMessage})
    /\ poll \in {"off", "timer", "asked", "served", "busy"}
    /\ poll = "busy" => processing # "idle"
    /\ polled \in Message \cup {NoMessage}
    /\ processing \in {"idle", "loop", "asked", "read", "served"}
    /\ current \in Message \cup {NoMessage} /\ pending \in Message \cup {NoMessage}
    /\ fetched \in Revisions /\ answer \in Answer
    /\ stopped \in {"nothing", "left", "removed"} \cup Over

AppTypeOK ==
    /\ jobStatus \in {"none", "running"} \cup Over
    /\ shown \in Revisions
    /\ phase \in {"none", "parsing", "background", "done"}
    /\ cancel \in {"idle", "asked", "served", "accepted"}
    /\ told \in {"none", "running"} \cup Over
    /\ detached \in BOOLEAN /\ visits \in 0..MaxVisits

(* TypeOK has these two parts and the feed's. *)
LEMMA TypeParts ==
    /\ TypeOK <=> FeedTypeOK /\ WatchTypeOK /\ AppTypeOK
    /\ TypeOK' <=> FeedTypeOK' /\ WatchTypeOK' /\ AppTypeOK'
  BY DEF TypeOK, WatchTypeOK, AppTypeOK

(* Every step keeps the types. *)
LEMMA TypeStep == TypeOK /\ WatchInv /\ [Next]_vars => TypeOK'
<1>. SUFFICES ASSUME TypeOK, WatchInv, [Next]_vars PROVE FeedTypeOK' /\ WatchTypeOK' /\ AppTypeOK'
  BY TypeParts
<1>0. FeedTypeOK /\ WatchTypeOK /\ AppTypeOK
  BY TypeParts
<1>1. CASE Job
  BY <1>1, TypeJob, TypeParts
<1>. USE DEF feedVars, watchVars, streamVars, pollVars, receiveVars, appVars, userVars
<1>2. CASE Loop
  <2>1. pending \in Message
    BY <1>0, <1>2 DEF Loop, WatchTypeOK
  <2>2. FeedTypeOK' /\ AppTypeOK'
    BY <1>0, <1>2, <2>1 DEF Loop, ShowStatus, Message, FeedTypeOK, AppTypeOK
  <2>3. CASE Fetch \/ Continue
    BY <1>0, <1>2, <2>2, <2>3 DEF Loop, Fetch, Continue, WatchTypeOK
  <2>4. CASE Finish
    BY <2>1, <2>2, <2>4, TypeStop DEF Finish, WatchTypeOK
  <2>. QED
    BY <1>2, <2>3, <2>4 DEF Loop
<1>3. CASE LoopEnds \/ ReadReport \/ ReadJob
  <2>1. FeedTypeOK' /\ AppTypeOK'
    BY <1>0, <1>3 DEF LoopEnds, ReadReport, ReadJob, FeedTypeOK, AppTypeOK
  <2>2. WatchTypeOK'
    BY <1>0, <1>3 DEF LoopEnds, ReadReport, ReadJob, Returned, WatchTypeOK, FeedTypeOK, Answer
  <2>. QED
    BY <2>1, <2>2
<1>4. CASE DeliverReport
  <2>1. current \in Message
    BY <1>0, <1>4 DEF DeliverReport, WatchInv, WatchTypeOK
  <2>2. FeedTypeOK' /\ AppTypeOK'
    BY <1>0, <1>4, FeedTypes DEF DeliverReport, ShowReport, FeedTypeOK, AppTypeOK
  <2>3. WatchTypeOK'
    BY <1>0, <1>4, <2>1, NoAnswerType, NoEventsType DEF DeliverReport, WatchTypeOK, Message
  <2>. QED
    BY <2>2, <2>3
<1>5. CASE ReportFails \/ StreamFails
  <2>1. FeedTypeOK' /\ AppTypeOK'
    BY <1>0, <1>5 DEF ReportFails, StreamFails, FeedTypeOK, AppTypeOK
  <2>2. WatchTypeOK'
    BY <1>0, <1>5, NoAnswerType, NoEventsType
    DEF ReportFails, StreamFails, Fallback, Returned, WatchTypeOK
  <2>. QED
    BY <2>1, <2>2
<1>6. CASE SendEvent \/ ServePoll
  <2>1. FeedTypeOK' /\ AppTypeOK'
    BY <1>0, <1>6 DEF SendEvent, ServePoll, FeedTypeOK, AppTypeOK
  <2>2. WatchTypeOK'
    BY <1>0, <1>6, ToldType, AppendType DEF SendEvent, ServePoll, WatchTypeOK
  <2>. QED
    BY <2>1, <2>2
<1>7. CASE DeliverEvent
  <2>1. FeedTypeOK' /\ AppTypeOK'
    BY <1>0, <1>7 DEF DeliverEvent, FeedTypeOK, AppTypeOK
  <2>2. CASE Stop("removed")
    BY <2>1, <2>2, TypeStop DEF WatchTypeOK
  <2>3. CASE ~Stop("removed")
    <3>1. /\ Receive(Head(events)) /\ events' = Tail(events) /\ events # <<>>
          /\ UNCHANGED <<active, stream, serving, pollVars, stopped>>
      BY <1>7, <2>3 DEF DeliverEvent
    <3>2. /\ Head(events) \in Message \cup {NoMessage}
          /\ events' \in Seq(Message \cup {NoMessage})
      BY <3>1, EventsType
    <3>. QED
      BY <1>0, <2>1, <3>1, <3>2 DEF Receive, WatchTypeOK
  <2>. QED
    BY <2>2, <2>3
<1>8. CASE Stall \/ AskPoll \/ DeliverPoll \/ PollFails
  <2>1. FeedTypeOK' /\ AppTypeOK'
    BY <1>0, <1>8 DEF Stall, AskPoll, DeliverPoll, PollFails, FeedTypeOK, AppTypeOK
  <2>2. WatchTypeOK'
    BY <1>0, <1>8 DEF Stall, AskPoll, DeliverPoll, PollFails, Receive, WatchTypeOK
  <2>. QED
    BY <2>1, <2>2
<1>9. CASE AskCancel \/ ServeCancel \/ DeliverCancel \/ ShowCancel \/ CancelFails
  <2>1. FeedTypeOK' /\ AppTypeOK'
    BY <1>0, <1>9
    DEF AskCancel, ServeCancel, DeliverCancel, ShowCancel, CancelFails, FeedTypeOK, AppTypeOK
  <2>2. WatchTypeOK'
    BY <1>0, <1>9
    DEF AskCancel, ServeCancel, DeliverCancel, ShowCancel, CancelFails, WatchTypeOK
  <2>. QED
    BY <2>1, <2>2
<1>10. CASE Leave
  <2>1. FeedTypeOK' /\ AppTypeOK'
    BY <1>0, <1>10, RevisionsAssumption DEF Leave, FeedTypeOK, AppTypeOK
  <2>. QED
    BY <1>10, <2>1, TypeStop DEF Leave, WatchTypeOK
<1>11. CASE Reopen \/ Reload
  <2>1. FeedTypeOK'
    BY <1>0, <1>11 DEF Reopen, Reload, FeedTypeOK
  <2>2. visits' \in 0..MaxVisits
    BY <1>0, <1>11, BoundsAssumption DEF Reopen, Reload, AppTypeOK
  <2>3. shown' \in Revisions
    BY <1>0, <1>11, RevisionsAssumption DEF Reopen, Reload, FeedTypeOK
  <2>4. AppTypeOK'
    BY <1>0, <1>11, <2>2, <2>3 DEF Reopen, Reload, AppTypeOK
  <2>. QED
    BY <1>11, <2>1, <2>4, TypeWatch DEF Reopen, Reload, WatchTypeOK
<1>12. CASE UNCHANGED vars
  BY <1>0, <1>12 DEF vars, FeedTypeOK, WatchTypeOK, AppTypeOK
<1>. QED
  BY <1>1, <1>2, <1>3, <1>4, <1>5, <1>6, <1>7, <1>8, <1>9, <1>10, <1>11, <1>12
  DEF Next, Watcher, User

-----------------------------------------------------------------------------
(* The feed.  A job that is over saves nothing more, and an interrupted    *)
(* one is told of as interrupted, or not at all.                           *)

(* What a step of the job can do to what is told of it. *)
LEMMA JobMoves ==
    ASSUME TypeOK, FeedInv, Job
    PROVE  /\ UNCHANGED <<watchVars, appVars, userVars>>
           /\ saved <= saved' /\ saved' \in Nat
           /\ status # "running" => saved' = saved /\ status' # "running"
           /\ status \in {"interrupted", "none"} => status' \in {"interrupted", "none"}
           /\ status' \in {"running"} \cup Ended => status = "running" /\ revision <= revision'
           /\ status' = "none" => saved' = 0
<1>. USE FeedTypes, RevisionsAssumption DEF FeedInv, Ended, Over
<1>1. CASE Save
  BY <1>1 DEF Job, Save
<1>2. CASE Tell
  BY <1>2 DEF Job, Tell
<1>3. CASE End
  BY <1>3 DEF Job, End
<1>4. CASE Interrupt
  BY <1>4 DEF Job, Interrupt
<1>5. CASE Forget
  BY <1>5 DEF Job, Forget
<1>. QED
  BY <1>1, <1>2, <1>3, <1>4, <1>5 DEF Job

(* Everything but the job leaves the feed alone. *)
LEMMA OthersLeaveFeed ==
    ASSUME [Next]_vars, ~Job PROVE UNCHANGED feedVars
<1>1. CASE Loop \/ LoopEnds \/ ReadReport \/ ReadJob \/ DeliverReport \/ ReportFails
  BY <1>1 DEF Loop, LoopEnds, ReadReport, ReadJob, DeliverReport, ReportFails
<1>2. CASE \/ SendEvent \/ DeliverEvent \/ Stall \/ StreamFails
           \/ AskPoll \/ ServePoll \/ DeliverPoll \/ PollFails
  BY <1>2
  DEF SendEvent, DeliverEvent, Stall, StreamFails, AskPoll, ServePoll, DeliverPoll, PollFails
<1>3. CASE User
  BY <1>3
  DEF User, AskCancel, ServeCancel, DeliverCancel, ShowCancel, CancelFails, Leave, Reopen,
      Reload
<1>. QED
  BY <1>1, <1>2, <1>3 DEF Next, Watcher, vars

(* Every step keeps FeedInv. *)
LEMMA FeedStep == TypeOK /\ FeedInv /\ [Next]_vars => FeedInv'
<1>. SUFFICES ASSUME TypeOK, FeedInv, [Next]_vars PROVE FeedInv'
  OBVIOUS
<1>1. CASE ~Job
  BY <1>1, OthersLeaveFeed DEF feedVars, FeedInv
<1>. USE FeedTypes, RevisionsAssumption DEF FeedInv, Ended, Over
<1>2. CASE Job /\ Save
  BY <1>2 DEF Save
<1>3. CASE Job /\ Tell
  BY <1>3 DEF Tell
<1>4. CASE Job /\ End
  BY <1>4 DEF End
<1>5. CASE Job /\ Interrupt
  BY <1>5 DEF Interrupt, Lag
<1>6. CASE Job /\ Forget
  BY <1>6 DEF Forget, Lag
<1>. QED
  BY <1>1, <1>2, <1>3, <1>4, <1>5, <1>6 DEF Job

-----------------------------------------------------------------------------
(* Who is at work.                                                         *)

(* Every step keeps WatchInv. *)
LEMMA WatchStep == TypeOK /\ FeedInv /\ WatchInv /\ [Next]_vars => WatchInv'
<1>. SUFFICES ASSUME TypeOK, FeedInv, WatchInv, [Next]_vars PROVE WatchInv'
  OBVIOUS
<1>. USE DEF WatchInv, watchVars, streamVars, pollVars, receiveVars, appVars, userVars
<1>1. CASE Job
  BY <1>1 DEF Job
<1>2. CASE Loop
  <2>1. active /\ pending # NoMessage
    BY <1>2 DEF Loop
  <2>2. CASE Fetch \/ Continue
    <3>1. /\ UNCHANGED <<active, stopped, stream, serving, events, poll, polled, detached>>
          /\ processing' \in {"loop", "asked"} /\ current' # NoMessage
          /\ ~detached
      BY <1>2, <2>1, <2>2 DEF Loop, Fetch, Continue
    <3>. QED
      BY <2>1, <3>1
  <2>3. CASE Finish
    <3>1. pending.status \in Over
      BY <2>3 DEF Finish
    <3>2. pending.status # "nothing"
      BY <3>1 DEF Over, Ended
    <3>3. UNCHANGED detached /\ ~detached
      BY <1>2, <2>1 DEF Loop
    <3>. QED
      BY <2>3, <3>2, <3>3 DEF Finish, Stop
  <2>. QED
    BY <1>2, <2>2, <2>3 DEF Loop
<1>3. CASE LoopEnds \/ ReadReport \/ ReadJob
  BY <1>3 DEF LoopEnds, ReadReport, ReadJob, Returned
<1>4. CASE DeliverReport
  <2>1. active /\ current # NoMessage /\ processing = "served"
    BY <1>4 DEF DeliverReport
  <2>2. CASE current.status \in Over
    <3>1. current.status # "nothing"
      BY <2>2 DEF Over, Ended
    <3>. QED
      BY <1>4, <2>1, <2>2, <3>1 DEF DeliverReport
  <2>3. CASE current.status \notin Over
    <3>1. /\ processing' = "loop" /\ ~detached
          /\ UNCHANGED <<active, stopped, stream, serving, events, poll, polled, detached>>
      BY <1>4, <2>1, <2>3 DEF DeliverReport
    <3>. QED
      BY <2>1, <3>1
  <2>. QED
    BY <2>2, <2>3
<1>5. CASE ReportFails
  BY <1>5 DEF ReportFails, Fallback, Returned, TypeOK
<1>6. CASE StreamFails
  BY <1>6 DEF StreamFails, Fallback, TypeOK
<1>7. CASE SendEvent \/ ServePoll
  BY <1>7 DEF SendEvent, ServePoll
<1>8. CASE DeliverEvent
  <2>1. CASE Stop("removed")
    BY <1>8, <2>1 DEF DeliverEvent, Stop
  <2>2. CASE ~Stop("removed")
    <3>1. /\ stream = "open"
          /\ UNCHANGED <<active, stopped, stream, serving, poll, polled, current, detached,
                         shown, phase>>
          /\ processing' = IF processing = "idle" THEN "loop" ELSE processing
      BY <1>8, <2>2 DEF DeliverEvent, Receive
    <3>. QED
      BY <3>1
  <2>. QED
    BY <2>1, <2>2
<1>9. CASE Stall \/ AskPoll \/ DeliverPoll \/ PollFails
  BY <1>9 DEF Stall, AskPoll, DeliverPoll, PollFails, Receive
<1>10. CASE AskCancel \/ ServeCancel \/ DeliverCancel \/ ShowCancel \/ CancelFails
  BY <1>10 DEF AskCancel, ServeCancel, DeliverCancel, ShowCancel, CancelFails
<1>11. CASE Leave
  BY <1>11 DEF Leave, Stop
<1>12. CASE Reopen \/ Reload
  BY <1>12 DEF Reopen, Reload, Watch
<1>13. CASE UNCHANGED vars
  BY <1>13 DEF vars
<1>. QED
  BY <1>1, <1>2, <1>3, <1>4, <1>5, <1>6, <1>7, <1>8, <1>9, <1>10, <1>11, <1>12, <1>13
  DEF Next, Watcher, User

-----------------------------------------------------------------------------
(* The order of the statuses on their way.                                 *)

(* Whatever the job does, a status that was told of it stays true. *)
LEMMA StillTrueKept ==
    ASSUME TypeOK, FeedInv, Job, NEW m \in Message \cup {NoMessage}, StillTrue(m)
    PROVE  StillTrue(m)'
<1>. SUFFICES ASSUME m # NoMessage
              PROVE  /\ m.revision <= saved'
                     /\ status' \in {"running"} \cup Ended => m.revision <= revision'
                     /\ m.status \in Over => status' # "running"
                     /\ m.status \in Ended => m.revision = saved'
                     /\ m.status = "interrupted" =>
                           status' \in {"interrupted", "none"} /\ saved' <= m.revision + 1
  BY DEF StillTrue
<1>1. /\ m.revision \in Nat /\ saved \in Nat /\ saved' \in Nat /\ revision \in Nat
      /\ m.revision <= saved /\ saved <= saved'
  BY JobMoves, MessageType, FeedTypes DEF StillTrue
<1>2. status' \in {"running"} \cup Ended => m.revision <= revision'
  <2>. SUFFICES ASSUME status' \in {"running"} \cup Ended PROVE m.revision <= revision'
    OBVIOUS
  <2>1. status = "running" /\ revision <= revision'
    BY JobMoves
  <2>2. m.revision <= revision
    BY <2>1 DEF StillTrue
  <2>3. revision' \in Nat
    BY TypeJob, RevisionsAssumption DEF TypeOK, FeedTypeOK
  <2>. QED
    BY <1>1, <2>1, <2>2, <2>3
<1>3. m.status \in Over => status # "running" /\ status' # "running" /\ saved' = saved
  BY JobMoves DEF StillTrue
<1>. QED
  BY <1>1, <1>2, <1>3, JobMoves DEF StillTrue, Over

(* What a client is told now is true, and comes after all it was told.     *)
LEMMA ToldIsLast ==
    ASSUME TypeOK, FeedInv, NEW m \in Message \cup {NoMessage}, StillTrue(m)
    PROVE  StillTrue(Told) /\ Precedes(m, Told)
<1>1. StillTrue(Told)
  BY ToldType, FeedTypes DEF StillTrue, FeedInv, Over, Ended
<1>2. Precedes(m, Told)
  BY ToldType, FeedTypes, MessageType DEF StillTrue, Precedes, Over, Ended
<1>. QED
  BY <1>1, <1>2

(* A step that sends no status and lets none wait keeps the order. *)
LEMMA OrderQuiet ==
    ASSUME StatusOrderInv, UNCHANGED feedVars,
           current' \in {current, NoMessage}, pending' \in {pending, NoMessage},
           polled' \in {polled, NoMessage}, events' \in {events, <<>>}
    PROVE  StatusOrderInv'
<1>1. /\ StillTrue(current)' /\ StillTrue(pending)' /\ StillTrue(polled)'
      /\ Precedes(current, pending)' /\ Precedes(current, polled)' /\ Precedes(pending, polled)'
  BY DEF StatusOrderInv, StillTrue, Precedes, feedVars
<1>2. CASE events' = <<>>
  BY <1>1, <1>2 DEF StatusOrderInv
<1>3. CASE events' = events
  <2>1. ASSUME NEW i \in DOMAIN events
        PROVE  /\ StillTrue(events[i])'
               /\ Precedes(current, events[i])' /\ Precedes(pending, events[i])'
               /\ \A j \in DOMAIN events : i < j => Precedes(events[i], events[j])'
               /\ events[i] = NoMessage => status' = "none"
    BY <1>3 DEF StatusOrderInv, StillTrue, Precedes, feedVars
  <2>. QED
    BY <1>1, <1>3, <2>1 DEF StatusOrderInv
<1>. QED
  BY <1>2, <1>3

(* A step of the job leaves the statuses on their way in their order. *)
LEMMA OrderJob ==
    ASSUME TypeOK, FeedInv, StatusOrderInv, Job PROVE StatusOrderInv'
<1>1. UNCHANGED <<current, pending, polled, events>>
  BY DEF Job, watchVars, streamVars, pollVars, receiveVars
<1>2. ASSUME NEW m \in Message \cup {NoMessage}, StillTrue(m)
      PROVE  /\ m # NoMessage =>
                /\ m.revision <= saved'
                /\ status' \in {"running"} \cup Ended => m.revision <= revision'
                /\ m.status \in Over => status' # "running"
                /\ m.status \in Ended => m.revision = saved'
                /\ m.status = "interrupted" =>
                      status' \in {"interrupted", "none"} /\ saved' <= m.revision + 1
  BY <1>2, StillTrueKept DEF StillTrue
<1>3. /\ current \in Message \cup {NoMessage} /\ pending \in Message \cup {NoMessage}
      /\ polled \in Message \cup {NoMessage}
      /\ \A i \in DOMAIN events : events[i] \in Message \cup {NoMessage}
  BY DEF TypeOK
<1>4. StillTrue(current)' /\ StillTrue(pending)' /\ StillTrue(polled)'
  <2>1. StillTrue(current) /\ StillTrue(pending) /\ StillTrue(polled)
    BY DEF StatusOrderInv
  <2>. QED
    BY <1>1, <1>2, <1>3, <2>1 DEF StillTrue
<1>5. ASSUME NEW i \in DOMAIN events PROVE StillTrue(events[i])'
  <2>1. StillTrue(events[i])
    BY DEF StatusOrderInv
  <2>. QED
    BY <1>1, <1>2, <1>3, <2>1 DEF StillTrue
<1>6. status = "none" => status' = "none"
  BY DEF Job, Save, Tell, End, Interrupt, Forget, Ended
<1>7. ASSUME NEW i \in DOMAIN events
      PROVE  /\ Precedes(current, events[i]) /\ Precedes(pending, events[i])
             /\ \A j \in DOMAIN events : i < j => Precedes(events[i], events[j])
             /\ events[i] = NoMessage => status' = "none"
  BY <1>6 DEF StatusOrderInv
<1>8. Precedes(current, pending) /\ Precedes(current, polled) /\ Precedes(pending, polled)
  BY DEF StatusOrderInv
<1>9. Precedes(current, pending)' /\ Precedes(current, polled)' /\ Precedes(pending, polled)'
  BY <1>1, <1>8 DEF Precedes
<1>10. ASSUME NEW i \in DOMAIN events
       PROVE  /\ Precedes(current, events[i])' /\ Precedes(pending, events[i])'
              /\ \A j \in DOMAIN events : i < j => Precedes(events[i], events[j])'
              /\ events'[i] = NoMessage => status' = "none"
  BY <1>1, <1>7 DEF Precedes
<1>. QED
  BY <1>1, <1>4, <1>5, <1>9, <1>10 DEF StatusOrderInv

(* The status that waits is worked on. *)
LEMMA OrderLoop ==
    ASSUME StatusOrderInv, Loop PROVE StatusOrderInv'
<1>1. UNCHANGED feedVars
  BY DEF Loop
<1>2. CASE Finish
  BY <1>1, <1>2, OrderQuiet DEF Finish, Stop
<1>3. CASE Fetch \/ Continue
  <2>1. /\ current' = pending /\ pending' = NoMessage
        /\ UNCHANGED <<polled, events>>
    BY <1>3 DEF Fetch, Continue, streamVars, pollVars
  <2>2. /\ StillTrue(current)' /\ StillTrue(pending)' /\ StillTrue(polled)'
        /\ Precedes(current, pending)' /\ Precedes(current, polled)' /\ Precedes(pending, polled)'
    BY <1>1, <2>1 DEF StatusOrderInv, StillTrue, Precedes, feedVars
  <2>3. ASSUME NEW i \in DOMAIN events
        PROVE  /\ StillTrue(events[i])'
               /\ Precedes(current, events[i])' /\ Precedes(pending, events[i])'
               /\ \A j \in DOMAIN events : i < j => Precedes(events[i], events[j])'
               /\ events[i] = NoMessage => status' = "none"
    BY <1>1, <2>1 DEF StatusOrderInv, StillTrue, Precedes, feedVars
  <2>. QED
    BY <2>1, <2>2, <2>3 DEF StatusOrderInv
<1>. QED
  BY <1>2, <1>3 DEF Loop

(* A status is sent after all that are on their way. *)
LEMMA OrderSend ==
    ASSUME TypeOK, FeedInv, StatusOrderInv, SendEvent PROVE StatusOrderInv'
<1>1. /\ UNCHANGED <<feedVars, current, pending, polled>>
      /\ events' = Append(events, Told)
  BY DEF SendEvent, pollVars, receiveVars
<1>2. /\ current \in Message \cup {NoMessage} /\ pending \in Message \cup {NoMessage}
      /\ \A i \in DOMAIN events : events[i] \in Message \cup {NoMessage}
      /\ Told \in Message \cup {NoMessage}
  BY ToldType DEF TypeOK
<1>3. /\ StillTrue(Told)
      /\ Precedes(current, Told) /\ Precedes(pending, Told)
      /\ \A i \in DOMAIN events : Precedes(events[i], Told)
      /\ Told = NoMessage => status = "none"
  BY <1>2, ToldIsLast, ToldType DEF StatusOrderInv
<1>4. /\ DOMAIN events \subseteq Nat
      /\ \A i \in DOMAIN events' :
            \/ i \in DOMAIN events /\ events'[i] = events[i]
            \/ events'[i] = Told /\ \A j \in DOMAIN events : j < i
  BY <1>1, <1>2, AppendType
<1>5. ASSUME NEW i \in DOMAIN events'
      PROVE  /\ StillTrue(events'[i])
             /\ Precedes(current, events'[i]) /\ Precedes(pending, events'[i])
             /\ events'[i] = NoMessage => status = "none"
             /\ \A j \in DOMAIN events' : i < j => Precedes(events'[i], events'[j])
  <2>1. /\ StillTrue(events'[i])
        /\ Precedes(current, events'[i]) /\ Precedes(pending, events'[i])
        /\ events'[i] = NoMessage => status = "none"
    BY <1>3, <1>4 DEF StatusOrderInv
  <2>2. ASSUME NEW j \in DOMAIN events', i < j
        PROVE  Precedes(events'[i], events'[j])
    <3>1. i \in DOMAIN events /\ events'[i] = events[i]
      <4>1. events' \in Seq(Message \cup {NoMessage}) /\ Len(events') = Len(events) + 1
        BY <1>1, <1>2 DEF TypeOK
      <4>2. i \in 1..Len(events) /\ j \in Nat
        BY <2>2, <4>1 DEF TypeOK
      <4>. QED
        BY <1>1, <1>2, <4>2 DEF TypeOK
    <3>. QED
      BY <1>3, <1>4, <2>2, <3>1 DEF StatusOrderInv
  <2>. QED
    BY <2>1, <2>2
<1>6. StillTrue(current)' /\ StillTrue(pending)' /\ StillTrue(polled)'
  BY <1>1 DEF StatusOrderInv, StillTrue, feedVars
<1>7. ASSUME NEW i \in DOMAIN events' PROVE StillTrue(events[i])'
  BY <1>1, <1>5 DEF StillTrue, feedVars
<1>. QED
  BY <1>1, <1>5, <1>6, <1>7 DEF StatusOrderInv, Precedes, feedVars

(* The first event waits to be worked on, the others come after it. *)
LEMMA OrderEvent ==
    ASSUME TypeOK, WatchInv, StatusOrderInv, DeliverEvent PROVE StatusOrderInv'
<1>1. UNCHANGED feedVars /\ events # <<>>
  BY DEF DeliverEvent
<1>2. CASE Stop("removed")
  BY <1>1, <1>2, OrderQuiet DEF Stop
<1>3. CASE ~Stop("removed")
  <2>1. /\ events' = Tail(events) /\ pending' = events[1]
        /\ UNCHANGED <<current, polled>> /\ polled = NoMessage
    BY <1>3, EventsType DEF DeliverEvent, Receive, pollVars, WatchInv
  <2>2. 1 \in DOMAIN events
    BY <1>1, EventsType
  <2>3. \A i \in DOMAIN events' :
          i \in Nat /\ i + 1 \in DOMAIN events /\ events'[i] = events[i + 1]
    BY <1>1, <2>1, EventsType
  <2>4. /\ StillTrue(current) /\ StillTrue(polled) /\ StillTrue(events[1])
        /\ Precedes(current, events[1])
    BY <2>2 DEF StatusOrderInv
  <2>5. /\ StillTrue(current)' /\ StillTrue(pending)' /\ StillTrue(polled)'
        /\ Precedes(current, pending)' /\ Precedes(current, polled)' /\ Precedes(pending, polled)'
    BY <1>1, <2>1, <2>4 DEF StillTrue, Precedes, feedVars
  <2>6. ASSUME NEW i \in DOMAIN events'
        PROVE  /\ StillTrue(events'[i])
               /\ Precedes(current, events'[i]) /\ Precedes(events[1], events'[i])
               /\ events'[i] = NoMessage => status = "none"
               /\ \A j \in DOMAIN events' : i < j => Precedes(events'[i], events'[j])
    <3>1. /\ i + 1 \in DOMAIN events /\ events'[i] = events[i + 1] /\ i \in Nat /\ 1 < i + 1
      BY <2>3, <2>1, <1>1, EventsType DEF TypeOK
    <3>2. \A j \in DOMAIN events' :
             /\ j \in Nat /\ j + 1 \in DOMAIN events /\ events'[j] = events[j + 1]
             /\ i < j => i + 1 < j + 1
      BY <2>3, <3>1
    <3>. QED
      BY <2>2, <3>1, <3>2 DEF StatusOrderInv
  <2>7. ASSUME NEW i \in DOMAIN events' PROVE StillTrue(events[i])'
    BY <1>1, <2>6 DEF StillTrue, feedVars
  <2>. QED
    BY <1>1, <2>1, <2>5, <2>6, <2>7 DEF StatusOrderInv, Precedes, feedVars
<1>. QED
  BY <1>2, <1>3

(* A poll is answered when the stream is closed, with what is told then. *)
LEMMA OrderServe ==
    ASSUME TypeOK, FeedInv, WatchInv, StatusOrderInv, ServePoll PROVE StatusOrderInv'
<1>1. /\ UNCHANGED <<feedVars, current, pending, events>>
      /\ polled' = Told /\ events = <<>>
  BY DEF ServePoll, streamVars, receiveVars, WatchInv
<1>2. /\ StillTrue(Told)
      /\ Precedes(current, Told) /\ Precedes(pending, Told)
  BY ToldIsLast DEF StatusOrderInv, TypeOK
<1>3. StillTrue(polled)'
  BY <1>1, <1>2 DEF StillTrue, feedVars
<1>. QED
  BY <1>1, <1>2, <1>3 DEF StatusOrderInv, StillTrue, Precedes, feedVars

(* A poll's answer waits to be worked on. *)
LEMMA OrderPoll ==
    ASSUME WatchInv, StatusOrderInv, DeliverPoll PROVE StatusOrderInv'
<1>1. /\ UNCHANGED <<feedVars, current, events>>
      /\ pending' = polled /\ polled' = NoMessage /\ events = <<>>
  BY DEF DeliverPoll, Receive, streamVars, WatchInv
<1>. QED
  BY <1>1 DEF StatusOrderInv, StillTrue, Precedes, feedVars

(* Every step keeps the order. *)
LEMMA OrderStep ==
    TypeOK /\ FeedInv /\ WatchInv /\ StatusOrderInv /\ [Next]_vars => StatusOrderInv'
<1>. SUFFICES ASSUME TypeOK, FeedInv, WatchInv, StatusOrderInv, [Next]_vars
              PROVE  StatusOrderInv'
  OBVIOUS
<1>1. CASE Job
  BY <1>1, OrderJob
<1>2. CASE Loop
  BY <1>2, OrderLoop
<1>3. CASE SendEvent
  BY <1>3, OrderSend
<1>4. CASE DeliverEvent
  BY <1>4, OrderEvent
<1>5. CASE ServePoll
  BY <1>5, OrderServe
<1>6. CASE DeliverPoll
  BY <1>6, OrderPoll
<1>. USE DEF watchVars, streamVars, pollVars, receiveVars
<1>7. CASE LoopEnds \/ ReadReport \/ ReadJob \/ ReportFails
  BY <1>7, OrderQuiet DEF LoopEnds, ReadReport, ReadJob, ReportFails, Fallback
<1>8. CASE DeliverReport
  BY <1>8, OrderQuiet DEF DeliverReport
<1>9. CASE Stall \/ StreamFails \/ AskPoll \/ PollFails
  BY <1>9, OrderQuiet DEF Stall, StreamFails, Fallback, AskPoll, PollFails
<1>10. CASE AskCancel \/ ServeCancel \/ DeliverCancel \/ ShowCancel \/ CancelFails
  BY <1>10, OrderQuiet DEF AskCancel, ServeCancel, DeliverCancel, ShowCancel, CancelFails
<1>11. CASE Leave
  BY <1>11, OrderQuiet DEF Leave, Stop
<1>12. CASE Reopen \/ Reload
  BY <1>12, OrderQuiet DEF Reopen, Reload, Watch
<1>13. CASE UNCHANGED vars
  BY <1>13, OrderQuiet DEF vars
<1>. QED
  BY <1>1, <1>2, <1>3, <1>4, <1>5, <1>6, <1>7, <1>8, <1>9, <1>10, <1>11, <1>12, <1>13
  DEF Next, Watcher, User

-----------------------------------------------------------------------------
(* The report shown.                                                       *)

(* An interrupted or ended job names its last report, and nothing later    *)
(* makes it wrong.                                                         *)
LEMMA ReportJob ==
    ASSUME TypeOK, FeedInv, ReportInv, PageSettles, Job
    PROVE  ReportInv' /\ PageSettles'
<1>1. /\ UNCHANGED <<active, processing, current, answer, stopped, fetched, shown, phase, detached>>
      /\ saved <= saved' /\ saved \in Nat /\ saved' \in Nat
      /\ status # "running" => saved' = saved /\ status' # "running"
  BY JobMoves, FeedTypes DEF watchVars, receiveVars, appVars, userVars
<1>2. shown <= saved' /\ shown \in Nat /\ fetched \in Nat
  BY <1>1, FeedTypes DEF ReportInv
<1>3. processing \in {"read", "served"} =>
        saved' > 0 /\ answer.revision <= saved'
  BY <1>1, FeedTypes DEF ReportInv
<1>4. stopped \in Over => status' # "running" /\ saved' = saved
  BY <1>1 DEF ReportInv
<1>5. phase = "background" => saved' > 0
  BY <1>1 DEF ReportInv
<1>6. ReportInv'
  BY <1>1, <1>2, <1>3, <1>4, <1>5 DEF ReportInv
<1>7. stopped \in Ended \cup {"interrupted"} => saved' = saved
  BY <1>4 DEF Over
<1>. QED
  BY <1>1, <1>6, <1>7 DEF PageSettles, LastReportShown, PhaseSettles

(* Showing a status leaves the report, and the page is done when it is     *)
(* that of a job that is over.                                             *)
LEMMA ReportLoop ==
    ASSUME ClientInv, Loop
    PROVE  ReportInv' /\ PageSettles'
<1>. USE DEF ClientInv
<1>1. /\ pending \in Message \cup {NoMessage} /\ pending # NoMessage
      /\ processing = "loop" /\ active /\ ~detached
      /\ UNCHANGED <<feedVars, fetched, shown, detached>>
      /\ phase' = IF pending.status \in Over THEN "done" ELSE phase
  BY DEF Loop, ShowStatus, Fetch, Finish, Continue, Stop, WatchInv, TypeOK, userVars
<1>2. /\ saved' = saved /\ status' = status
      /\ stopped = "nothing" /\ fetched <= shown /\ shown <= saved
      /\ fetched \in Nat /\ shown \in Nat /\ saved \in Nat
      /\ phase' = "background" => saved > 0
  BY <1>1, FeedTypes DEF WatchInv, ReportInv, feedVars
<1>3. CASE Fetch \/ Continue
  <2>1. /\ UNCHANGED <<active, stopped>> /\ processing' \in {"loop", "asked"}
    BY <1>1, <1>3 DEF Fetch, Continue
  <2>2. ReportInv'
    BY <1>1, <1>2, <2>1 DEF ReportInv, Over, Ended
  <2>3. PageSettles'
    BY <1>1, <1>2, <2>1 DEF PageSettles, LastReportShown, PhaseSettles, Over, Ended
  <2>. QED
    BY <2>2, <2>3
<1>4. CASE Finish
  <2>1. /\ pending.status \in Over /\ pending.revision <= fetched
        /\ ~active' /\ stopped' = pending.status /\ processing' = "idle"
        /\ pending.revision \in Nat
    BY <1>1, <1>4, MessageType DEF Finish, Stop
  <2>2. /\ status # "running"
        /\ pending.status \in Ended => pending.revision = saved
        /\ pending.status = "interrupted" => saved <= pending.revision + 1
    BY <1>1, <2>1 DEF StatusOrderInv, StillTrue
  <2>3. phase' = "done"
    BY <1>1, <2>1
  <2>4. ReportInv'
    BY <1>1, <1>2, <2>1, <2>2, <2>3 DEF ReportInv
  <2>5. PageSettles'
    BY <1>1, <1>2, <2>1, <2>2, <2>3 DEF PageSettles, LastReportShown, PhaseSettles
  <2>. QED
    BY <2>4, <2>5
<1>. QED
  BY <1>3, <1>4 DEF Loop

(* A report that is served is at least the one that was told of, and names *)
(* the status of a job that is over.                                       *)
LEMMA ReportServed ==
    ASSUME ClientInv, ReadReport \/ ReadJob
    PROVE  ReportInv' /\ PageSettles'
<1>. USE DEF ClientInv
<1>1. /\ UNCHANGED <<feedVars, active, stopped, current, fetched, shown, phase, detached>>
      /\ current \in Message \cup {NoMessage} /\ current # NoMessage
      /\ processing' \in {"read", "served"}
  BY DEF ReadReport, ReadJob, TypeOK, WatchInv, appVars, userVars
<1>2. PageSettles'
  BY <1>1 DEF PageSettles, LastReportShown, PhaseSettles, feedVars
<1>3. /\ current.revision <= saved /\ current.revision \in Nat /\ saved \in Nat
      /\ current.status \in Over => status # "running"
  BY <1>1, MessageType, FeedTypes DEF StatusOrderInv, StillTrue
<1>4. CASE ReadReport
  <2>1. saved > 0 /\ processing' = "read" /\ answer'.revision = saved
    BY <1>4 DEF ReadReport
  <2>. QED
    BY <1>1, <1>2, <1>3, <2>1 DEF ReportInv, feedVars
<1>5. CASE ReadJob
  <2>1. /\ saved > 0 /\ current.revision <= answer.revision /\ answer.revision <= saved
    BY <1>5 DEF ReadJob, ReportInv
  <2>2. /\ answer'.revision = answer.revision
        /\ status # "none" => answer'.status = status
    BY <1>5, FeedTypes DEF ReadJob, TypeOK, Answer
  <2>3. status # "none"
    BY <1>3, <2>1 DEF FeedInv
  <2>. QED
    BY <1>1, <1>2, <1>3, <2>1, <2>2, <2>3 DEF ReportInv, feedVars
<1>. QED
  BY <1>4, <1>5

(* The report that is delivered is the last one, if its job is over. *)
LEMMA ReportDelivered ==
    ASSUME ClientInv, DeliverReport
    PROVE  ReportInv' /\ PageSettles'
<1>. USE DEF ClientInv
<1>1. /\ UNCHANGED <<feedVars, detached>>
      /\ processing = "served" /\ active /\ ~detached /\ stopped = "nothing"
      /\ current \in Message \cup {NoMessage} /\ current # NoMessage
      /\ shown' = answer.revision /\ fetched' = current.revision
      /\ phase' = IF answer.status = "running" THEN "background" ELSE "done"
  BY DEF DeliverReport, ShowReport, TypeOK, WatchInv, userVars
<1>2. /\ saved > 0 /\ current.revision <= answer.revision /\ answer.revision <= saved
      /\ current.status \in Over => answer.status # "running"
      /\ saved' = saved /\ status' = status
  BY <1>1 DEF ReportInv, feedVars
<1>3. /\ current.revision \in Nat /\ answer.revision \in Nat /\ saved \in Nat
      /\ current.status \in Over => status # "running"
      /\ current.status \in Ended => current.revision = saved
      /\ current.status = "interrupted" => saved <= current.revision + 1
  BY <1>1, MessageType, FeedTypes DEF StatusOrderInv, StillTrue
<1>4. CASE current.status \in Over
  <2>1. ~active' /\ stopped' = current.status /\ processing' = "idle" /\ phase' = "done"
    BY <1>1, <1>2, <1>4 DEF DeliverReport
  <2>2. ReportInv'
    BY <1>1, <1>2, <1>3, <1>4, <2>1 DEF ReportInv
  <2>3. PageSettles'
    BY <1>1, <1>2, <1>3, <2>1 DEF PageSettles, LastReportShown, PhaseSettles
  <2>. QED
    BY <2>2, <2>3
<1>5. CASE current.status \notin Over
  <2>1. active' /\ stopped' = "nothing" /\ processing' = "loop"
    BY <1>1, <1>5 DEF DeliverReport
  <2>2. ReportInv'
    BY <1>1, <1>2, <1>3, <2>1 DEF ReportInv, Over, Ended
  <2>3. PageSettles'
    BY <2>1 DEF PageSettles, LastReportShown, PhaseSettles, Over, Ended
  <2>. QED
    BY <2>2, <2>3
<1>. QED
  BY <1>4, <1>5

(* A step that neither serves nor shows a report, nor stops the watcher. *)
LEMMA ReportQuiet ==
    ASSUME ReportInv, PageSettles,
           UNCHANGED <<feedVars, active, stopped, fetched, shown, phase, detached>>,
           \/ UNCHANGED <<processing, current, answer>>
           \/ processing' \in {"idle", "loop"}
    PROVE  ReportInv' /\ PageSettles'
  BY DEF ReportInv, PageSettles, LastReportShown, PhaseSettles, feedVars

(* Nothing is shown of a job that is not known. *)
LEMMA ReportEvent ==
    ASSUME ClientInv, DeliverEvent
    PROVE  ReportInv' /\ PageSettles'
<1>. USE DEF ClientInv
<1>1. UNCHANGED <<feedVars, shown, phase, detached, fetched>>
  BY DEF DeliverEvent, Stop, Receive, appVars, userVars
<1>2. CASE Head(events) = NoMessage /\ Stop("removed")
  <2>1. status = "none"
    BY <1>2, EventsType DEF DeliverEvent, StatusOrderInv
  <2>2. saved = 0
    BY <2>1 DEF FeedInv
  <2>3. phase # "background"
    BY <2>2 DEF ReportInv
  <2>4. ~active' /\ stopped' = "removed" /\ processing' = "idle"
    BY <1>2 DEF Stop
  <2>5. ReportInv'
    BY <1>1, <2>3, <2>4 DEF ReportInv, Over, Ended, feedVars
  <2>6. PageSettles'
    BY <1>1, <2>3, <2>4 DEF PageSettles, LastReportShown, PhaseSettles, Over, Ended
  <2>. QED
    BY <2>5, <2>6
<1>3. CASE Head(events) # NoMessage
  <2>1. /\ UNCHANGED <<active, stopped>>
        /\ \/ UNCHANGED <<processing, current, answer>>
           \/ processing' \in {"idle", "loop"}
    BY <1>3 DEF DeliverEvent, Receive
  <2>. QED
    BY <1>1, <2>1, ReportQuiet
<1>. QED
  BY <1>2, <1>3 DEF DeliverEvent

(* A page that is left, opened again or loaded again starts from nothing,  *)
(* or from the saved report.                                               *)
LEMMA ReportUser ==
    ASSUME ClientInv, Leave \/ Reopen \/ Reload
    PROVE  ReportInv' /\ PageSettles'
<1>. USE DEF ClientInv
<1>1. UNCHANGED feedVars /\ processing' = "idle" /\ saved \in Nat /\ saved' = saved
  BY FeedTypes DEF Leave, Reopen, Reload, Stop, Watch, feedVars
<1>2. CASE Leave
  <2>1. detached' /\ shown' = 0 /\ phase' = "none" /\ stopped' = "left"
    BY <1>2 DEF Leave, Stop
  <2>2. ReportInv'
    BY <1>1, <2>1 DEF ReportInv, Over, Ended
  <2>3. PageSettles'
    BY <2>1 DEF PageSettles, LastReportShown, PhaseSettles
  <2>. QED
    BY <2>2, <2>3
<1>3. CASE Reopen
  <2>1. /\ active' /\ stopped' = "nothing" /\ fetched' = 0 /\ shown' = saved
        /\ phase' = phase /\ detached
    BY <1>3 DEF Reopen, Watch
  <2>2. phase' = "none"
    BY <2>1 DEF WatchInv
  <2>3. ReportInv'
    BY <1>1, <2>1, <2>2 DEF ReportInv, Over, Ended
  <2>4. PageSettles'
    BY <2>1, <2>2 DEF PageSettles, LastReportShown, PhaseSettles, Over, Ended
  <2>. QED
    BY <2>3, <2>4
<1>4. CASE Reload
  <2>1. /\ active' /\ stopped' = "nothing" /\ fetched' = 0 /\ shown' = 0
        /\ phase' = "parsing"
    BY <1>4 DEF Reload, Watch
  <2>2. ReportInv'
    BY <1>1, <2>1 DEF ReportInv, Over, Ended
  <2>3. PageSettles'
    BY <2>1 DEF PageSettles, LastReportShown, PhaseSettles, Over, Ended
  <2>. QED
    BY <2>2, <2>3
<1>. QED
  BY <1>2, <1>3, <1>4

(* Every step keeps ReportInv, and the page is as it should be. *)
LEMMA ReportStep == ClientInv /\ [Next]_vars => ReportInv' /\ PageSettles'
<1>. SUFFICES ASSUME ClientInv, [Next]_vars PROVE ReportInv' /\ PageSettles'
  OBVIOUS
<1>. USE DEF ClientInv
<1>1. CASE Job
  BY <1>1, ReportJob
<1>2. CASE Loop
  BY <1>2, ReportLoop
<1>3. CASE ReadReport \/ ReadJob
  BY <1>3, ReportServed
<1>4. CASE DeliverReport
  BY <1>4, ReportDelivered
<1>5. CASE DeliverEvent
  BY <1>5, ReportEvent
<1>6. CASE Leave \/ Reopen \/ Reload
  BY <1>6, ReportUser
<1>. USE ReportQuiet DEF watchVars, streamVars, pollVars, receiveVars, appVars, userVars
<1>7. CASE LoopEnds \/ ReportFails
  BY <1>7 DEF LoopEnds, ReportFails
<1>8. CASE SendEvent \/ Stall \/ StreamFails
  BY <1>8 DEF SendEvent, Stall, StreamFails
<1>9. CASE AskPoll \/ ServePoll \/ PollFails
  BY <1>9 DEF AskPoll, ServePoll, PollFails
<1>10. CASE DeliverPoll
  BY <1>10 DEF DeliverPoll, Receive
<1>11. CASE AskCancel \/ ServeCancel \/ DeliverCancel \/ ShowCancel \/ CancelFails
  BY <1>11 DEF AskCancel, ServeCancel, DeliverCancel, ShowCancel, CancelFails
<1>12. CASE UNCHANGED vars
  BY <1>12 DEF vars
<1>. QED
  BY <1>1, <1>2, <1>3, <1>4, <1>5, <1>6, <1>7, <1>8, <1>9, <1>10, <1>11, <1>12
  DEF Next, Watcher, User

-----------------------------------------------------------------------------
(* The invariant, and what follows from it.                                *)

(* ClientInv holds when the backend has accepted the job. *)
LEMMA ClientInitially == Init => ClientInv
<1>. SUFFICES ASSUME Init PROVE ClientInv
  OBVIOUS
<1>1. TypeOK
  <2>1. FeedTypeOK
    BY RevisionsAssumption DEF Init, Accepted, FeedTypeOK
  <2>2. WatchTypeOK
    BY NoAnswerType, NoEventsType, RevisionsAssumption DEF Init, WatchTypeOK
  <2>3. visits = 0 /\ 0 \in 0..MaxVisits
    BY BoundsAssumption DEF Init
  <2>4. AppTypeOK
    BY <2>3, RevisionsAssumption DEF Init, AppTypeOK
  <2>. QED
    BY <2>1, <2>2, <2>4, TypeParts
<1>2. FeedInv
  BY DEF Init, Accepted, FeedInv, Ended
<1>3. WatchInv
  BY DEF Init, WatchInv
<1>4. StatusOrderInv
  BY DEF Init, StatusOrderInv, StillTrue, Precedes
<1>5. ReportInv /\ PageSettles
  BY DEF Init, Accepted, ReportInv, PageSettles, LastReportShown, PhaseSettles, Over, Ended
<1>. QED
  BY <1>1, <1>2, <1>3, <1>4, <1>5 DEF ClientInv

(* Every step keeps ClientInv. *)
LEMMA ClientStep == ClientInv /\ [Next]_vars => ClientInv'
<1>. SUFFICES ASSUME ClientInv, [Next]_vars PROVE ClientInv'
  OBVIOUS
<1>1. TypeOK' /\ FeedInv' /\ WatchInv' /\ StatusOrderInv'
  BY TypeStep, FeedStep, WatchStep, OrderStep DEF ClientInv
<1>2. ReportInv' /\ PageSettles'
  BY ReportStep
<1>. QED
  BY <1>1, <1>2 DEF ClientInv

(* The watch of a job in all its interleavings with the job, the user and  *)
(* the faults of the network keeps ClientInv.                              *)
THEOREM ClientInvariant == Spec => []ClientInv
  BY ClientInitially, ClientStep, PTL DEF Spec

(* Every variable of the watcher and of the page keeps its values. *)
THEOREM ClientTypes == Spec => []TypeOK
<1>1. ClientInv => TypeOK
  BY DEF ClientInv
<1>. QED
  BY <1>1, ClientInvariant, PTL

(* When the watch of a job has ended, its last report is shown (or, after  *)
(* a restart of the backend, the one before), and the page is free.        *)
THEOREM LastReportIsShown == Spec => []PageSettles
<1>1. ClientInv => PageSettles
  BY DEF ClientInv
<1>. QED
  BY <1>1, ClientInvariant, PTL

(* A status is worked on only after those that were told before it.        *)
LEMMA StatusesInOrderStep ==
    ClientInv /\ [Next]_vars =>
        (active /\ active' /\ NoMessage \notin {current, current'} =>
            /\ current.status \in Over => current'.status \in Over
            /\ current.revision <= current'.revision \/ current'.status = "interrupted")
<1>. SUFFICES ASSUME ClientInv, [Next]_vars, NoMessage \notin {current, current'}
              PROVE  /\ current.status \in Over => current'.status \in Over
                     /\ \/ current.revision <= current'.revision
                        \/ current'.status = "interrupted"
  OBVIOUS
<1>1. CASE current' = current
  BY <1>1, MessageType DEF ClientInv, TypeOK
<1>2. CASE current' = pending
  BY <1>2 DEF ClientInv, StatusOrderInv, Precedes
<1>. USE DEF watchVars, streamVars, pollVars, receiveVars
<1>3. CASE Job
  BY <1>1, <1>3 DEF Job
<1>4. CASE Loop
  BY <1>2, <1>4 DEF Loop, Fetch, Finish, Continue, Stop
<1>5. CASE LoopEnds \/ ReadReport \/ ReadJob \/ ReportFails
  BY <1>1, <1>5 DEF LoopEnds, ReadReport, ReadJob, ReportFails
<1>6. CASE DeliverReport
  BY <1>1, <1>6 DEF DeliverReport
<1>7. CASE SendEvent \/ Stall \/ StreamFails \/ AskPoll \/ ServePoll \/ PollFails
  BY <1>1, <1>7 DEF SendEvent, Stall, StreamFails, AskPoll, ServePoll, PollFails
<1>8. CASE DeliverEvent \/ DeliverPoll
  BY <1>1, <1>8 DEF DeliverEvent, DeliverPoll, Receive, Stop
<1>9. CASE AskCancel \/ ServeCancel \/ DeliverCancel \/ ShowCancel \/ CancelFails
  BY <1>1, <1>9 DEF AskCancel, ServeCancel, DeliverCancel, ShowCancel, CancelFails
<1>10. CASE Leave \/ Reopen \/ Reload
  BY <1>10 DEF Leave, Reopen, Reload, Stop, Watch
<1>11. CASE UNCHANGED vars
  BY <1>1, <1>11 DEF vars
<1>. QED
  BY <1>3, <1>4, <1>5, <1>6, <1>7, <1>8, <1>9, <1>10, <1>11 DEF Next, Watcher, User

(* A watcher that was stopped when its user left has nothing to deliver.   *)
LEMMA DetachedUntouchedStep ==
    ClientInv /\ [Next]_vars =>
        (detached /\ detached' => /\ UNCHANGED <<shown, phase>>
                                  /\ jobStatus' = jobStatus \/ ShowCancel)
<1>. SUFFICES ASSUME ClientInv, [Next]_vars, detached, detached'
              PROVE  /\ UNCHANGED <<shown, phase>>
                     /\ jobStatus' = jobStatus \/ ShowCancel
  OBVIOUS
<1>1. processing = "idle"
  BY DEF ClientInv, WatchInv
<1>. USE DEF appVars
<1>2. ~Loop /\ ~DeliverReport
  BY <1>1 DEF Loop, DeliverReport
<1>3. CASE Job
  BY <1>3 DEF Job
<1>4. CASE LoopEnds \/ ReadReport \/ ReadJob \/ ReportFails
  BY <1>4 DEF LoopEnds, ReadReport, ReadJob, ReportFails
<1>5. CASE SendEvent \/ DeliverEvent \/ Stall \/ StreamFails
  BY <1>5 DEF SendEvent, DeliverEvent, Stall, StreamFails
<1>6. CASE AskPoll \/ ServePoll \/ DeliverPoll \/ PollFails
  BY <1>6 DEF AskPoll, ServePoll, DeliverPoll, PollFails
<1>7. CASE AskCancel \/ ServeCancel \/ DeliverCancel \/ ShowCancel \/ CancelFails
  BY <1>7 DEF AskCancel, ServeCancel, DeliverCancel, ShowCancel, CancelFails
<1>8. CASE Leave \/ Reopen \/ Reload
  BY <1>8 DEF Leave, Reopen, Reload
<1>9. CASE UNCHANGED vars
  BY <1>9 DEF vars
<1>. QED
  BY <1>2, <1>3, <1>4, <1>5, <1>6, <1>7, <1>8, <1>9 DEF Next, Watcher, User

(* No answer and no event, however late, takes the page back to an older   *)
(* status, or changes it once the user has left.                           *)
THEOREM PageStaysInOrder == Spec => PageInOrder
<1>1. Spec => StatusesInOrder
  BY ClientInvariant, StatusesInOrderStep, PTL DEF Spec, StatusesInOrder
<1>2. Spec => DetachedUntouched
  BY ClientInvariant, DetachedUntouchedStep, PTL DEF Spec, DetachedUntouched
<1>. QED
  BY <1>1, <1>2 DEF PageInOrder
=============================================================================
