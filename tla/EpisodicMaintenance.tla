------------------------- MODULE EpisodicMaintenance -------------------------
(***************************************************************************)
(* The maintenance of episodic_maintenance.py, running beside the callers  *)
(* and the drain of EpisodicStore: reconcile_stores() brings the full-text *)
(* index back in line with the collection, cleanup_expired() deletes what  *)
(* has outlived its expires_at, cleanup_dedup() merges near-duplicates.    *)
(*                                                                         *)
(* All three list the collection through get_many(), which returns the     *)
(* newest `limit` points and ignores `offset`.                             *)
(***************************************************************************)
EXTENDS EpisodicStore, Sequences

CONSTANTS
    ScrollLimit,  \* get_many's limit when the caller names none (100)
    PageLimit     \* _PAGE of cleanup_expired, also its batch of deletions, and
                  \* batch_size of cleanup_dedup

ASSUME MaintenanceAssumption ==
    /\ ScrollLimit \in Nat \ {0}
    /\ PageLimit \in Nat \ {0}

VARIABLES
    expired,  \* ids whose point carries an expires_at that has passed
    maint     \* the maintenance call in progress

mvars == <<vars, expired, maint>>

MaintSteps == {"idle", "index", "orphans", "missing", "schedule",
               "page", "sweep", "unindex", "dpage", "ddelete", "dunindex"}

Maint == [at      : MaintSteps,
          page    : SUBSET Ids,   \* ids read from the collection, still to look at
          list    : Seq(Ids),     \* expired_ids: an id once for every page it was on
          todo    : SUBSET Ids,   \* ids to delete (or to drop from the index)
          done    : SUBSET Ids,   \* cleanup_dedup's `processed`
          winners : SUBSET Ids,   \* the processed ids that absorbed others
          docs    : SUBSET Doc,   \* entries for the index task
          left    : Nat,          \* pages left to read
          quiet   : BOOLEAN]      \* history: nobody else wrote since it began

NoMaint == [at |-> "idle", page |-> {}, list |-> << >>, todo |-> {}, done |-> {}, winners |-> {},
            docs |-> {}, left |-> 0, quiet |-> TRUE]

StoredIds  == {i \in Ids : Stored(i)}
IndexedIds == {i \in Ids : fts[i] # 0}

\* get_many(limit = n): scroll ordered by timestamp, newest first; a text's version
\* stands for the timestamp it was stored with.
Newest(n) ==
    {i \in StoredIds : Cardinality({j \in StoredIds : points[j].ver > points[i].ver}) < n}

NewestFirst(S) ==
    {s \in [1..Cardinality(S) -> S] :
        \A m, n \in DOMAIN s : m < n => s[m] # s[n] /\ points[s[m]].ver >= points[s[n]].ver}

\* range(0, total, PageLimit)
Pages == (Cardinality(StoredIds) + PageLimit - 1) \div PageLimit

MInit == Init /\ expired = {} /\ maint = NoMaint

\* A step of the store itself.  A rewritten point has lost its expires_at: _update_topic
\* does not carry it over.
StoreStep ==
    /\ Step
    /\ expired' = {i \in expired : points'[i].ver = points[i].ver}
    /\ maint' = IF maint.at # "idle" /\ <<points, fts, ftsTasks>>' # <<points, fts, ftsTasks>>
                THEN [maint EXCEPT !.quiet = FALSE] ELSE maint

\* expires_at of a memory passes.
Expire(i) ==
    /\ Stored(i)
    /\ i \notin expired
    /\ expired' = expired \cup {i}
    /\ maint' = IF maint.at = "idle" THEN maint ELSE [maint EXCEPT !.quiet = FALSE]
    /\ UNCHANGED vars

-----------------------------------------------------------------------------
(* reconcile_stores() *)

reconcile_stores ==
    /\ maint.at = "idle"
    /\ maint' = [NoMaint EXCEPT !.at = "index", !.page = Newest(ScrollLimit),
                                !.quiet = ftsTasks = {}]
    /\ UNCHANGED <<vars, expired>>

\* Mutant: the two differences are swapped.
ReadIndex_Swapped ==
    /\ maint.at = "index"
    /\ maint' = [maint EXCEPT !.at   = "orphans",
                              !.todo = maint.page \ IndexedIds,
                              !.page = IndexedIds \ maint.page]
    /\ UNCHANGED <<vars, expired>>

ReadIndex ==
    /\ maint.at = "index"
    /\ maint' = [maint EXCEPT !.at   = "orphans",
                              !.todo = IndexedIds \ maint.page,
                              !.page = maint.page \ IndexedIds]
    /\ UNCHANGED <<vars, expired>>

\* One awaited fts_delete per orphan.
RemoveOrphan ==
    /\ maint.at = "orphans"
    /\ \E i \in maint.todo :
        /\ fts_delete(i)
        /\ maint' = [maint EXCEPT !.todo = @ \ {i}, !.quiet = @ /\ NoFault]
    /\ UNCHANGED <<points, ftsTasks, used, fate, queue, ver, req, drain, expired>>

\* The missing entries are fetched by id: whatever those points hold now.
FetchMissing ==
    /\ maint.at = "orphans"
    /\ maint.todo = {}
    /\ maint' = IF maint.page = {} THEN NoMaint
                ELSE [maint EXCEPT !.at = "schedule",
                                   !.docs = {<<i, points[i].ver>> : i \in maint.page \cap StoredIds}]
    /\ UNCHANGED <<vars, expired>>

ScheduleMissing ==
    /\ maint.at = "schedule"
    /\ ftsTasks' = IF maint.docs = {} THEN ftsTasks ELSE ftsTasks \cup {maint.docs}
    /\ maint' = NoMaint
    /\ UNCHANGED <<points, fts, used, fate, queue, ver, req, drain, faults, expired>>

-----------------------------------------------------------------------------
(* cleanup_expired() *)

cleanup_expired ==
    /\ maint.at = "idle"
    /\ StoredIds # {}
    /\ maint' = [NoMaint EXCEPT !.at = "page", !.left = Pages]
    /\ UNCHANGED <<vars, expired>>

\* What is found expired will be deleted, whatever happens to it until then.
ReadPage ==
    LET found == Newest(PageLimit) \cap expired IN
    /\ maint.at = "page"
    /\ maint.left > 0
    /\ \E s \in NewestFirst(found) : maint' = [maint EXCEPT !.left = @ - 1, !.list = @ \o s]
    /\ fate' = [i \in Ids |-> IF i \in found THEN "deleting" ELSE fate[i]]
    /\ UNCHANGED <<points, fts, ftsTasks, used, queue, ver, req, drain, faults, expired>>

\* The pages are read, and the last batch has left the index as well.
BatchOver == maint.at \in {"page", "unindex"} /\ maint.left = 0 /\ maint.todo = {}

\* Mutant: every memory looked at is deleted.
DeleteExpired_All ==
    /\ BatchOver
    /\ maint.list # << >>
    /\ points' = [i \in Ids |-> NoPoint]
    /\ expired' = {}
    /\ maint' = [maint EXCEPT !.at = "unindex", !.list = << >>]
    /\ UNCHANGED <<fts, ftsTasks, used, fate, queue, ver, req, drain, faults>>

\* The next batch; an id that is listed twice is deleted twice.
DeleteExpired ==
    LET size  == IF Len(maint.list) < PageLimit THEN Len(maint.list) ELSE PageLimit
        batch == {maint.list[n] : n \in 1..size}
    IN
    /\ BatchOver
    /\ maint.list # << >>
    /\ points' = [i \in Ids |-> IF i \in batch THEN NoPoint ELSE points[i]]
    /\ expired' = expired \ batch
    /\ maint' = [maint EXCEPT !.at = "unindex", !.todo = batch,
                              !.list = SubSeq(@, size + 1, Len(@))]
    /\ UNCHANGED <<fts, ftsTasks, used, fate, queue, ver, req, drain, faults>>

\* One awaited fts_delete per deleted id.
Unindex ==
    /\ maint.at = "unindex"
    /\ \E i \in maint.todo :
        /\ fts_delete(i)
        /\ maint' = [maint EXCEPT !.todo = @ \ {i}, !.quiet = @ /\ NoFault]
    /\ UNCHANGED <<points, ftsTasks, used, fate, queue, ver, req, drain, expired>>

CleanupReturn ==
    /\ BatchOver
    /\ maint.list = << >>
    /\ maint' = NoMaint
    /\ UNCHANGED <<vars, expired>>

-----------------------------------------------------------------------------
(* cleanup_dedup(); dry_run, which writes nothing, is left out *)

cleanup_dedup ==
    /\ maint.at = "idle"
    /\ StoredIds # {}
    /\ maint' = [NoMaint EXCEPT !.at = "dpage", !.left = Pages]
    /\ UNCHANGED <<vars, expired>>

ReadDedupPage ==
    /\ maint.at = "dpage"
    /\ maint.page = {}
    /\ maint.left > 0
    /\ maint' = [maint EXCEPT !.left = @ - 1, !.page = Newest(PageLimit)]
    /\ UNCHANGED <<vars, expired>>

\* Mutant: nothing is recorded as processed.
Absorb_Forgetful ==
    /\ maint.at = "dpage"
    /\ \E i \in maint.page, dups \in SUBSET StoredIds :
        /\ i \notin dups
        /\ maint' = [maint EXCEPT !.page    = @ \ {i},
                                  !.todo    = @ \cup dups,
                                  !.winners = IF dups = {} THEN @ ELSE @ \cup {i}]
    /\ UNCHANGED <<vars, expired>>

\* The next member of the page absorbs the near-duplicates the query returns; which
\* points are similar enough is left open.  Nothing processed before is absorbed, and
\* a processed member is passed over.
Absorb ==
    /\ maint.at = "dpage"
    /\ \E i \in maint.page :
        \/ /\ i \in maint.done
           /\ maint' = [maint EXCEPT !.page = @ \ {i}]
        \/ /\ i \notin maint.done
           /\ \E dups \in SUBSET (StoredIds \ (maint.done \cup {i})) :
                maint' = [maint EXCEPT !.page    = @ \ {i},
                                       !.todo    = @ \cup dups,
                                       !.done    = @ \cup dups \cup {i},
                                       !.winners = IF dups = {} THEN @ ELSE @ \cup {i}]
    /\ UNCHANGED <<vars, expired>>

\* Losers are deleted, in one batch (500 at a time in the code); a failed delete is logged, and the index entries go either way.
DeleteLosers ==
    /\ maint.at = "dpage"
    /\ maint.page = {}
    /\ maint.left = 0
    /\ \/ /\ points' = [i \in Ids |-> IF i \in maint.todo THEN NoPoint ELSE points[i]]
          /\ fate' = [i \in Ids |-> IF i \in maint.todo THEN "deleting" ELSE fate[i]]
          /\ expired' = expired \ maint.todo
          /\ NoFault
       \/ /\ Fault
          /\ UNCHANGED <<points, fate, expired>>
    /\ maint' = [maint EXCEPT !.at = "dunindex"]
    /\ UNCHANGED <<fts, ftsTasks, used, queue, ver, req, drain>>

UnindexLoser ==
    /\ maint.at = "dunindex"
    /\ \E i \in maint.todo :
        /\ fts_delete(i)
        /\ maint' = [maint EXCEPT !.todo = @ \ {i}, !.quiet = @ /\ NoFault]
    /\ UNCHANGED <<points, ftsTasks, used, fate, queue, ver, req, drain, expired>>

DedupReturn ==
    /\ maint.at = "dunindex"
    /\ maint.todo = {}
    /\ maint' = NoMaint
    /\ UNCHANGED <<vars, expired>>

-----------------------------------------------------------------------------
\* A page that cannot be read ends the reading, and what was found until then goes.
PageFails ==
    /\ maint.at \in {"page", "dpage"}
    /\ maint.page = {} /\ maint.left > 0
    /\ Fault
    /\ maint' = [maint EXCEPT !.left = 0, !.quiet = FALSE]
    /\ UNCHANGED <<storeVars, queue, ver, req, drain, expired>>

\* A backend error or the scheduler's timeout ends the call where it stands.
MaintStops ==
    /\ maint.at # "idle"
    /\ Fault
    /\ maint' = NoMaint
    /\ UNCHANGED <<storeVars, queue, ver, req, drain, expired>>

MCrash == Crash /\ maint' = NoMaint /\ UNCHANGED expired

MaintResume ==
    \/ ReadIndex \/ RemoveOrphan \/ FetchMissing \/ ScheduleMissing
    \/ ReadPage \/ DeleteExpired \/ Unindex \/ CleanupReturn
    \/ ReadDedupPage \/ Absorb \/ DeleteLosers \/ UnindexLoser \/ DedupReturn

MNext ==
    \/ StoreStep
    \/ \E i \in Ids : Expire(i)
    \/ reconcile_stores \/ cleanup_expired \/ cleanup_dedup
    \/ MaintResume
    \/ PageFails \/ MaintStops
    \/ MCrash

MSpec == MInit /\ [][MNext]_mvars
-----------------------------------------------------------------------------
\* A reconciliation during which nothing else wrote or failed, over a collection that
\* fits ScrollLimit, leaves exactly the stored memories in the index or on their way to it.
QuietReconcileAgrees ==
    [][(/\ maint.at \in {"orphans", "schedule"} /\ maint'.at = "idle"
        /\ maint.quiet /\ NoFault
        /\ Cardinality(StoredIds) <= ScrollLimit)
        => StoredIds' = IndexedIds' \cup {d[1] : d \in UNION ftsTasks'}]_mvars

\* cleanup_dedup() never deletes a memory into which it merged others: chains of
\* near-duplicates do not lose their last member.
DedupKeepsWinners == maint.winners \cap maint.todo = {}
=============================================================================
