----------------------------- MODULE HeapJobInv -----------------------------
(***************************************************************************)
(* The inductive invariant behind the safety properties of HeapJob.  Each  *)
(* part is about one idea; together they are preserved by every step, and  *)
(* they imply the properties.  TLC checks it and HeapJobProofs proves it.  *)
(***************************************************************************)
EXTENDS HeapJob

(* Before a job there is nothing. *)
BeforeInv ==
    pc = "idle" =>
        /\ status = "none" /\ result = NoReport
        /\ step = 1 /\ final = "running" /\ ~indexed
        /\ draft = NoReport /\ base = NoReport
        /\ jobfile.status = "none" /\ jobfile.rev = 0
        /\ disk = NoReport /\ index = "none" /\ input = "none"
        /\ ~lost /\ ~deleted
        /\ \A r \in Requests : reqs[r] = Idle

(* The lock is held between a read and the save that follows it. *)
LockInv ==
    /\ lock = Worker <=> pc = "save"
    /\ \A r \in Requests : lock = r <=> reqs[r].pc \in {"notes", "capture"}

(* How the task's control state, the store and the .job file agree. *)
StatusInv ==
    /\ step \in 1..Checkpoints
    /\ status = "none" => result = NoReport
    /\ pc \in Scanning => final = "running"
    /\ pc \in {"finish", "settle", "persist"} => final # "running"
    /\ pc \in Active /\ final = "running" =>
          status = "running" /\ jobfile.status = "running"
    /\ pc \in Active \ {"finish"} /\ faults = 0 => status = "running"
    /\ pc = "finish" /\ faults = 0 => status \in {"running", "none"}
    /\ pc \in Active \cup {"persist"} => jobfile.status # "none"
    /\ pc = "stillborn" => status \in {"running", "none"}
    /\ status = "running" /\ pc # "stillborn" => jobfile.status # "none"
    /\ pc = "persist" => status \in {"none", final}
    /\ pc \in {"exit", "ended"} /\ faults = 0 =>
          /\ status \in Terminal \cup {"none"}
          /\ status # "none" /\ jobfile.status # "none" =>
                jobfile = [status |-> status, rev |-> result.rev]
    /\ pc = "exit" => jobfile.status # "none"

(* While the job runs no unlocked writer is past its guard, and what a     *)
(* lock holder has read is still what is saved.                            *)
RunningInv ==
    /\ status = "running" =>
          /\ ~lost /\ ~deleted
          /\ pc = "save" => base = disk
          /\ \A r \in Requests :
                /\ reqs[r].pc \notin {"unlinkReport", "unlinkIndex", "source"}
                /\ reqs[r].pc \in {"notes", "capture"} => reqs[r].copy = disk
                /\ reqs[r].pc = "removeJob" => pc = "stillborn"
    /\ \A r \in Requests : reqs[r].pc = "unlinkIndex" => deleted

(* An annotation in any copy of the report was once acknowledged. *)
Heard(r) ==
    /\ r.notes # Unset => acked.notes # Unset
    /\ r.capture # Unset => acked.capture # Unset

AckedInv ==
    /\ Heard(disk) /\ Heard(result) /\ Heard(draft)
    /\ \A r \in Requests : Heard(reqs[r].copy)
    /\ \A r \in Requests : reqs[r].pc \in {"notes", "capture"} => reqs[r].value # Unset
    /\ pc = "save" =>
          /\ base.notes # Unset => draft.notes = base.notes
          /\ base.capture # Unset => draft.capture = base.capture
    /\ AnnotationsKept

(* The saved report is ahead of what is advertised by one publish at most. *)
RevisionInv ==
    ~lost /\ ~deleted =>
        /\ result.rev <= disk.rev /\ jobfile.rev <= disk.rev
        /\ pc \in {"lock", "save"} => draft.rev = disk.rev + 1
        /\ pc = "advertise" => draft.rev = disk.rev
        /\ status # "none" /\ pc # "advertise" => disk.rev = result.rev

(* Wherever a report names an index, the index is complete and the worker  *)
(* knows; what the worker is about to publish names it if any report does. *)
Names(x) == x.index => index = "complete" \/ deleted

Offered == disk.index \/ \E r \in Requests : reqs[r].copy.index

IndexInv ==
    /\ Names(disk) /\ Names(result) /\ Names(draft)
    /\ \A r \in Requests : Names(reqs[r].copy)
    /\ pc \in Active \cup {"persist"} =>
          indexed \/ (~Offered /\ ~result.index /\ ~draft.index)
    /\ pc \in Active /\ final = "running" /\ indexed => index = "complete"
    /\ pc = "index" => step = IndexCheckpoint
    /\ pc \in {"scan", "index"} /\ step <= IndexCheckpoint => ~indexed
    /\ pc \in Publishing /\ final = "running"
          /\ step < IndexCheckpoint => ~indexed
    /\ pc \in Publishing \ {"record"} => (Offered \/ result.index => draft.index)
    /\ status # "none" /\ pc # "advertise" => (Offered => result.index)
    /\ ~lost /\ ~deleted /\ status # "none" /\ pc # "advertise" =>
          result.index = disk.index
    /\ ~lost /\ ~deleted /\ pc = "advertise" => draft.index = disk.index

(* Once finish() has had its look, the index left is one the report names. *)
OrphanInv ==
    \/ pc \in {"settle", "persist", "exit", "ended"}
    \/ pc \in Publishing /\ final # "running"
    \/ pc = "finish" /\ status # "running"
    => (~lost /\ ~deleted /\ index # "none" => disk.index)

(* Stages are pending until the complete or the final report is saved. *)
ClosedInv ==
    /\ final = "running"
          /\ \/ pc \in {"scan", "index", "publish", "lock", "save"}
             \/ pc \in {"advertise", "record"} /\ step < Checkpoints
        => ~disk.closed
    /\ pc \in {"publish", "lock", "save"} /\ final = "running"
        => (draft.closed <=> step = Checkpoints)
    /\ pc \in {"lock", "save"} /\ final # "running" => draft.closed
    /\ ~lost /\ ~deleted /\ Saved(disk)
          /\ \/ pc \in {"advertise", "record"} /\ final # "running"
             \/ pc = "settle"
        => disk.closed
    /\ TerminalReportClosed

(* Nobody deletes the dump of a running scan. *)
InputInv ==
    /\ pc \in Active /\ status = "running" => input \in {"upload", "server"}
    /\ pc = "ended" => input # "upload"

(* What answers for the job when the store has lost it.  The .job file     *)
(* never runs ahead of the store; before it exists there is no report and  *)
(* nobody who has read one; and unless a write has failed it says that the *)
(* job is running until its end, and is one publish behind at most.        *)
FileInv ==
    /\ status # "none" =>
          /\ jobfile.rev <= result.rev
          /\ pc \in {"lock", "save", "advertise"} => draft.rev = result.rev + 1
    /\ status = "running" => jobfile.status \in {"none", "running"}
    /\ jobfile.status = "none" =>
          /\ ~Saved(disk) /\ ~lost /\ ~deleted
          /\ \A r \in Requests :
                reqs[r].pc \notin {"notes", "capture", "guardSource", "source"}
    /\ pc = "stillborn" => faults > 0
    /\ pc = "dead" => status = "none"
    /\ faults = 0 /\ pc \in Active \cup {"persist"} => jobfile.status = "running"
    /\ faults = 0 /\ ~lost /\ ~deleted =>
          /\ disk.rev <= jobfile.rev + 1
          /\ pc \in (Active \cup {"persist"}) \ {"advertise", "record"} =>
                disk.rev = jobfile.rev

IInv ==
    /\ TypeOK
    /\ BeforeInv /\ LockInv /\ StatusInv /\ RunningInv /\ AckedInv
    /\ RevisionInv /\ IndexInv /\ OrphanInv /\ ClosedInv /\ InputInv
    /\ FileInv

(* What a job cancelled during its scan can still be: on its way to an end *)
(* that is not "done".  Once true it stays true.                           *)
Doomed ==
    /\ status # "done"
    /\ \/ pc \in Active /\ final = "running" /\ cancelled
       \/ pc \in Active \cup {"persist"} /\ final \in {"cancelled", "error"}
       \/ pc \in {"exit", "ended", "dead"}
=============================================================================
