------------------------------ MODULE HeapFeed ------------------------------
(***************************************************************************)
(* What a background heap analysis lets its clients see: the status and    *)
(* the revision of GET /api/jobs/{id}, and the report that                 *)
(* GET /api/analyses/{id} returns.  HeapJob implements this specification; *)
(* HeapJobClient builds on it.                                             *)
(***************************************************************************)
EXTENDS Naturals

CONSTANT Revisions   \* revisions of the report, from 0: Nat, or a bound for TLC

ASSUME RevisionsAssumption == Revisions \subseteq Nat /\ 0 \in Revisions

VARIABLES
    status,     \* what a client is told of the job, "none" if it gets a 404
    revision,   \* the report it is told of, 0 before the first
    saved,      \* the revision of the report it can fetch, 0 for a 404
    closed,     \* that report has no pending stage
    withdrawn,  \* the report was deleted, or replaced without the lock
    faulty      \* a write of the backend has failed

feedVars == <<status, revision, saved, closed, withdrawn, faulty>>

Ended == {"done", "cancelled", "error"}

Over == Ended \cup {"interrupted"}

FeedInit ==
    /\ status = "none"
    /\ revision = 0 /\ saved = 0
    /\ closed = FALSE /\ withdrawn = FALSE /\ faulty = FALSE

FeedTypeOK ==
    /\ status \in {"none", "running"} \cup Over
    /\ revision \in Revisions /\ saved \in Revisions
    /\ closed \in BOOLEAN /\ withdrawn \in BOOLEAN /\ faulty \in BOOLEAN

(* The job is at work and nothing has been published. *)
Accepted ==
    /\ status = "running"
    /\ revision = 0 /\ saved = 0
    /\ closed = FALSE /\ withdrawn = FALSE /\ faulty = FALSE

(* A job starts, or its upload is refused. *)
Submit ==
    /\ status = "none" /\ saved = 0
    /\ status' \in {"running", "error"}
    /\ faulty' \in {faulty, TRUE}
    /\ UNCHANGED <<revision, saved, closed, withdrawn>>

(* A report is saved before anybody is told of it.  Only the handler of a  *)
(* failed write saves one for a job that was told to be over.              *)
Save ==
    /\ ~withdrawn
    /\ status = "running" \/ (faulty /\ status # "none")
    /\ saved' = saved + 1 /\ saved' \in Revisions
    /\ closed' \in {closed, TRUE}
    /\ UNCHANGED <<status, revision, withdrawn, faulty>>

Tell ==
    /\ ~withdrawn
    /\ status = "running" \/ (faulty /\ status \in Ended)
    /\ revision' = saved
    /\ UNCHANGED <<status, saved, closed, withdrawn, faulty>>

(* The job ends, and its last report has been told of. *)
End ==
    /\ status = "running" \/ (faulty /\ status \in Ended)
    /\ status' \in Ended
    /\ ~withdrawn => revision = saved /\ (saved > 0 => closed)
    /\ UNCHANGED <<revision, saved, closed, withdrawn, faulty>>

(* A restart or a removal: from now on the .job file answers.  It lags     *)
(* behind what was told by one publish, or more if writes have failed.     *)
Lag ==
    /\ revision' \in Revisions /\ revision' <= revision
    /\ ~faulty /\ ~withdrawn => saved <= revision' + 1

(* The report of an interrupted job is given with no stage pending. *)
Interrupt ==
    /\ status # "none"
    /\ status' = "interrupted" /\ closed' = TRUE
    /\ Lag
    /\ UNCHANGED <<saved, withdrawn, faulty>>

(* Nothing was ever persisted. *)
Forget ==
    /\ status # "none" /\ (status = "running" => faulty)
    /\ saved = 0 /\ ~withdrawn
    /\ status' = "none"
    /\ Lag
    /\ UNCHANGED <<saved, closed, withdrawn, faulty>>

(* The file tells of another end if the last write of it has failed. *)
Correct ==
    /\ faulty
    /\ status \in Ended /\ status' \in Ended
    /\ Lag
    /\ UNCHANGED <<saved, closed, withdrawn, faulty>>

(* An unlocked save or a deletion, and what becomes of the report then. *)
Withdraw ==
    /\ status # "running"
    /\ withdrawn' = TRUE
    /\ revision' \in Revisions /\ saved' \in Revisions
    /\ closed' \in BOOLEAN
    /\ UNCHANGED <<status, faulty>>

FailWrite == faulty' = TRUE /\ UNCHANGED <<status, revision, saved, closed, withdrawn>>

FeedNext ==
    \/ Submit \/ Save \/ Tell \/ End
    \/ Interrupt \/ Forget \/ Correct
    \/ Withdraw \/ FailWrite

FeedSpec == FeedInit /\ [][FeedNext]_feedVars

=============================================================================
