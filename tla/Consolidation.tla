--------------------------- MODULE Consolidation ---------------------------
(***************************************************************************)
(* ConsolidationEngine of engram: related memories are summarised by the   *)
(* language model, the summary is remembered like any other text and each  *)
(* original gets the summary's id in consolidated_into, which takes it out *)
(* of semantic recall.  The scheduler and the command line run it in       *)
(* processes of their own against one store, and nothing keeps the two     *)
(* apart.                                                                  *)
(*                                                                         *)
(* Which memories are related is the data's choice: a cluster is any set   *)
(* of at least MinCluster memories of the snapshot.                        *)
(***************************************************************************)
EXTENDS Naturals, FiniteSets

CONSTANTS
    Originals,   \* memories that were stored before
    Summaries,   \* ids uuid4() may return for a summary
    NoSummary,   \* consolidated_into of a memory that was not consolidated
    Runners,     \* the processes that consolidate
    MinCluster,  \* min_cluster_size
    Dedup,       \* config: semantic dedup on remember()
    MaxMishaps   \* bound: deletions, failures and cancellations

ASSUME ConsolidationAssumption ==
    /\ IsFiniteSet(Originals) /\ IsFiniteSet(Summaries) /\ Originals \cap Summaries = {}
    /\ NoSummary \notin Originals \cup Summaries
    /\ MinCluster \in Nat \ {0} /\ Dedup \in BOOLEAN /\ MaxMishaps \in Nat

Memories == Originals \cup Summaries

VARIABLES
    live,       \* memories of the vector collection
    waiting,    \* summaries in the embedding retry queue
    into,       \* consolidated_into
    run,        \* what each runner is doing
    gone,       \* history: memories that were deleted or given up
    merged,     \* history: memories a summary was merged into
    covers,     \* history: the cluster each summary was written for
    excused,    \* history: clusters summarised by runs that overlapped or were disturbed
    mishaps

consolidationVars == <<live, waiting, into, run, gone, merged, covers, excused, mishaps>>

NoRun == [at |-> "idle", rest |-> {}, cluster |-> {}, summary |-> NoSummary, left |-> {}, alone |-> TRUE]

ConsolidationInit ==
    /\ live = Originals /\ waiting = {} /\ into = [m \in Memories |-> NoSummary]
    /\ run = [r \in Runners |-> NoRun]
    /\ gone = {} /\ merged = {} /\ covers = [s \in Summaries |-> {}] /\ excused = {} /\ mishaps = 0

Mishap == mishaps < MaxMishaps /\ mishaps' = mishaps + 1
Fresh  == {s \in Summaries : covers[s] = {}}

----------------------------------------------------------------------------
\* Mutant: memories that were consolidated are taken again.
Unconsolidated_All == live

Unconsolidated == {m \in live : into[m] = NoSummary}

Fetch(r) ==
    /\ run[r].at = "idle"
    /\ Cardinality(Unconsolidated) >= MinCluster
    /\ LET busy == {o \in Runners \ {r} : run[o].at # "idle"}
       IN  run' = [o \in Runners |->
                     IF o = r THEN [NoRun EXCEPT !.at = "next", !.rest = Unconsolidated, !.alone = busy = {}]
                     ELSE [run[o] EXCEPT !.alone = @ /\ o \notin busy]]
    /\ UNCHANGED <<live, waiting, into, gone, merged, covers, excused, mishaps>>

\* The next cluster that is large enough goes to the model; the snapshot is not read again.
Summarize(r) ==
    /\ run[r].at = "next"
    /\ \E C \in SUBSET run[r].rest :
        /\ Cardinality(C) >= MinCluster
        /\ run' = [run EXCEPT ![r].at = "summary", ![r].cluster = C, ![r].rest = @ \ C]
    /\ UNCHANGED <<live, waiting, into, gone, merged, covers, excused, mishaps>>

Finish(r) ==
    /\ run[r].at = "next"
    /\ run' = [run EXCEPT ![r] = NoRun]
    /\ UNCHANGED <<live, waiting, into, gone, merged, covers, excused, mishaps>>

\* Mutant: the originals are marked before the summary is there.
ClusterFails_Marks(r) ==
    /\ run[r].at = "summary" /\ Mishap
    /\ \E s \in Fresh : into' = [m \in Memories |-> IF m \in run[r].cluster THEN s ELSE into[m]]
    /\ run' = [run EXCEPT ![r].at = "next", ![r].cluster = {}]
    /\ UNCHANGED <<live, waiting, gone, merged, covers, excused>>

\* The model fails, or remember() raises: the cluster is left as it was.
ClusterFails(r) ==
    /\ run[r].at = "summary" /\ Mishap
    /\ run' = [run EXCEPT ![r].at = "next", ![r].cluster = {}]
    /\ UNCHANGED <<live, waiting, into, gone, merged, covers, excused>>

Marking(r, id) ==
    run' = [run EXCEPT ![r].at = "mark", ![r].summary = id, ![r].left = run[r].cluster]

\* remember() embeds and stores the summary ...
Stored(r, s) ==
    /\ run[r].at = "summary" /\ s \in Fresh
    /\ live' = live \cup {s}
    /\ covers' = [covers EXCEPT ![s] = run[r].cluster]
    /\ Marking(r, s)
    /\ UNCHANGED <<waiting, into, gone, merged, excused, mishaps>>

\* ... or queues it for a retry, and returns its id even when the queue fails too ...
Queued(r, s) ==
    /\ run[r].at = "summary" /\ s \in Fresh /\ Mishap
    /\ \/ waiting' = waiting \cup {s} /\ UNCHANGED gone
       \/ gone' = gone \cup {s} /\ UNCHANGED waiting
    /\ covers' = [covers EXCEPT ![s] = run[r].cluster]
    /\ Marking(r, s)
    /\ UNCHANGED <<live, into, merged, excused>>

\* ... or finds it close to a memory, one of the originals perhaps, and returns that one's id.
Merged(r, m) ==
    /\ run[r].at = "summary" /\ Dedup /\ m \in live
    /\ merged' = merged \cup {m}
    /\ Marking(r, m)
    /\ UNCHANGED <<live, waiting, into, gone, covers, excused, mishaps>>

\* One original after the other; one that is gone is passed over.
Mark(r) ==
    /\ run[r].at = "mark"
    /\ \E m \in run[r].left :
        /\ run' = [run EXCEPT ![r].left = @ \ {m}]
        /\ into' = IF m \in live THEN [into EXCEPT ![m] = run[r].summary] ELSE into
    /\ UNCHANGED <<live, waiting, gone, merged, covers, excused, mishaps>>

\* update_metadata fails and returns FALSE, which nobody looks at.
MarkFails(r) ==
    /\ run[r].at = "mark" /\ Mishap
    /\ \E m \in run[r].left : run' = [run EXCEPT ![r].left = @ \ {m}] /\ excused' = excused \cup {m}
    /\ UNCHANGED <<live, waiting, into, gone, merged, covers>>

NextCluster(r) ==
    /\ run[r].at = "mark" /\ run[r].left = {}
    /\ run' = [run EXCEPT ![r].at = "next", ![r].cluster = {}, ![r].summary = NoSummary]
    /\ excused' = IF run[r].alone THEN excused ELSE excused \cup run[r].cluster
    /\ UNCHANGED <<live, waiting, into, gone, merged, covers, mishaps>>

\* The scheduler's timeout or the end of the process: marks already written stay.
CancelRun(r) ==
    /\ run[r].at # "idle" /\ Mishap
    /\ run' = [run EXCEPT ![r] = NoRun]
    /\ excused' = excused \cup run[r].cluster
    /\ UNCHANGED <<live, waiting, into, gone, merged, covers>>

\* The retry queue stores a waiting summary, or gives it up.
RetryStores(s) ==
    /\ s \in waiting
    /\ waiting' = waiting \ {s} /\ live' = live \cup {s}
    /\ UNCHANGED <<into, run, gone, merged, covers, excused, mishaps>>

RetryGivesUp(s) ==
    /\ s \in waiting /\ Mishap
    /\ waiting' = waiting \ {s} /\ gone' = gone \cup {s}
    /\ UNCHANGED <<live, into, run, merged, covers, excused>>

\* A client deletes a memory, or it expires; what was consolidated into it stays so.
Removed(m) ==
    /\ m \in live /\ Mishap
    /\ live' = live \ {m} /\ gone' = gone \cup {m}
    /\ UNCHANGED <<waiting, into, run, merged, covers, excused>>

ConsolidationNext ==
    \/ \E r \in Runners :
        \/ Fetch(r) \/ Summarize(r) \/ Finish(r) \/ ClusterFails(r)
        \/ \E s \in Summaries : Stored(r, s) \/ Queued(r, s)
        \/ \E m \in Memories : Merged(r, m)
        \/ Mark(r) \/ MarkFails(r) \/ NextCluster(r) \/ CancelRun(r)
    \/ \E s \in Summaries : RetryStores(s) \/ RetryGivesUp(s)
    \/ \E m \in Memories : Removed(m)

ConsolidationSpec == ConsolidationInit /\ [][ConsolidationNext]_consolidationVars

----------------------------------------------------------------------------
\* Where following consolidated_into from m leads in one step or more: the smallest set that has
\* what m, and each of its own members, was consolidated into.
Heirs(m) ==
    LET Closed == {H \in SUBSET Memories : \A x \in H \cup {m} : into[x] # NoSummary => into[x] \in H}
    IN  {s \in Memories : \A H \in Closed : s \in H}

\* A memory that recall passes over is spoken for by one it does not pass over, unless the summary
\* still waits to be stored, is gone, or was merged into a memory that was there before.
HiddenHasHeir ==
    \A m \in live : into[m] # NoSummary =>
        \E s \in Heirs(m) : \/ s \in Unconsolidated
                            \/ s \in waiting \cup gone
                            \/ s \in merged

\* Two summaries of one memory come only of runs that overlapped, were cut off or could not mark.
SummarisedOnce ==
    \A s, t \in Summaries :
        s # t => \A m \in covers[s] \cap covers[t] :
            \/ m \in excused
            \/ \E r \in Runners : m \in run[r].cluster /\ ~run[r].alone
=============================================================================
