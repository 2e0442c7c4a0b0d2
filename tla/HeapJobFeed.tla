---------------------------- MODULE HeapJobFeed ----------------------------
(***************************************************************************)
(* HeapJob implements HeapFeed: what its store and its files let a client  *)
(* see, whatever happens between their writes.                             *)
(***************************************************************************)
EXTENDS HeapJobInv

(* get_job asks the store, and the .job file if the store has no job. *)
ToldRevision == IF status # "none" THEN result.rev ELSE jobfile.rev

Feed == INSTANCE HeapFeed WITH
    Revisions <- Nat,
    status    <- BackgroundStatus,
    revision  <- ToldRevision,
    saved     <- disk.rev,
    closed    <- Closed(disk),
    withdrawn <- lost \/ deleted,
    faulty    <- faults > 0

(* Every step of the job, of its handlers and of a restart is one that     *)
(* clients may see, or one they do not see at all.                         *)
ImplementsFeed == Feed!FeedSpec
=============================================================================
