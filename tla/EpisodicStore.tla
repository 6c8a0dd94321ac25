---------------------------- MODULE EpisodicStore ----------------------------
(***************************************************************************)
(* EpisodicStore of engram: memories live in the vector collection         *)
(* (Qdrant), a full-text index of the same memories is maintained by       *)
(* background tasks, and a failed embedding or write goes to the           *)
(* EmbeddingQueue, which the scheduler drains.                             *)
(*                                                                         *)
(* Concurrency is asyncio's: a coroutine runs until it awaits, and the     *)
(* awaited call takes effect in a worker thread while other coroutines     *)
(* run.  An action is the stretch from one such effect to the next, so     *)
(* everything another request can do at an await is an interleaving here.  *)
(*                                                                         *)
(* A text is its version number (1 for the first text ever submitted), so  *)
(* version 0 means "nothing stored".                                       *)
(***************************************************************************)
EXTENDS EmbeddingQueue

CONSTANTS
    Clients,       \* concurrent callers of the store
    DedupEnabled,  \* config: semantic dedup on remember()
    MaxVer,        \* bound: texts submitted
    MaxFaults      \* bound: failures, cancellations and crashes

ASSUME StoreAssumption ==
    /\ DedupEnabled \in BOOLEAN
    /\ MaxVer \in Nat
    /\ MaxFaults \in Nat

VARIABLES
    points,    \* the vector collection: [Ids -> Point]
    fts,       \* the FTS5 table: [Ids -> version indexed, 0 if no row]
    ftsTasks,  \* background insert tasks not yet run, each a set of <<id, ver>>
    used,      \* ids uuid4() has returned
    ver,       \* texts submitted so far
    req,       \* [Clients -> the request the client has in flight]
    drain,     \* the scheduler's process_embedding_queue task
    faults,    \* failures so far
    fate       \* history: what callers were told about each id; "unsaved" if neither
               \* the write nor the queue took the memory

storeVars == <<points, fts, ftsTasks, used, fate>>
vars == <<queue, points, fts, ftsTasks, used, ver, req, drain, faults, fate>>

Point   == [ver : Nat, topic : Topic, rev : Nat]
NoPoint == [ver |-> 0, topic |-> NoTopic, rev |-> 0]
Doc     == Ids \X Nat

Steps == {"idle",
          "find", "uread", "uembed", "uwritten", "umeta",   \* topic-key upsert
          "dedup", "merge",                                 \* semantic dedup
          "embed", "stored", "failed",                      \* a new memory
          "bembed", "bstored",                              \* remember_batch
          "del", "delfts"}                                  \* delete

Fates == {"unknown", "live", "unsaved", "deleting", "deleted"}

Request == [at : Steps, docs : SUBSET Doc, ver : Nat, topic : Topic, rev : Nat]
Drain   == [at : {"idle", "item", "added"}, batch : SUBSET Ids, cur : SUBSET Ids]

NewRequest(at, docs, v, t) == [at |-> at, docs |-> docs, ver |-> v, topic |-> t, rev |-> 0]
NoRequest == NewRequest("idle", {}, 0, NoTopic)
NoDrain   == [at |-> "idle", batch |-> {}, cur |-> {}]

Stored(i) == points[i].ver # 0
Gone(i)   == fate[i] \in {"deleting", "deleted"}
Target(c) == {d[1] : d \in req[c].docs}

Init ==
    /\ QueueInit
    /\ points = [i \in Ids |-> NoPoint]
    /\ fts = [i \in Ids |-> 0]
    /\ ftsTasks = {}
    /\ used = {}
    /\ ver = 0
    /\ req = [c \in Clients |-> NoRequest]
    /\ drain = NoDrain
    /\ faults = 0
    /\ fate = [i \in Ids |-> "unknown"]

Fault == faults < MaxFaults /\ faults' = faults + 1
NoFault == UNCHANGED faults

GoTo(c, at) == req' = [req EXCEPT ![c].at = at]
GoWith(c, at, docs, rev) ==
    req' = [req EXCEPT ![c] = [at |-> at, docs |-> docs, ver |-> req[c].ver,
                               topic |-> req[c].topic, rev |-> rev]]
Idle(c)     == req' = [req EXCEPT ![c] = NoRequest]

\* The caller is told about every document of the request.
Tell(c, what) ==
    fate' = [i \in Ids |-> IF i \in Target(c) /\ fate[i] = "unknown" THEN what ELSE fate[i]]

Acknowledge(c) == Tell(c, "live")

-----------------------------------------------------------------------------
(* remember() *)

AfterFind == IF DedupEnabled THEN "dedup" ELSE "embed"

remember(c, t) ==
    /\ req[c].at = "idle"
    /\ ver < MaxVer
    /\ ver' = ver + 1
    /\ req' = [req EXCEPT ![c] = NewRequest(IF t = NoTopic THEN AfterFind ELSE "find",
                                            {}, ver + 1, t)]
    /\ UNCHANGED <<storeVars, queue, drain, faults>>

\* The lookup returns one match; order by timestamp is abstracted to any of them.
FoundTopic(c) ==
    /\ req[c].at = "find"
    /\ \E i \in Ids :
        /\ Stored(i)
        /\ points[i].topic = req[c].topic
        /\ GoWith(c, "uread", {<<i, req[c].ver>>}, 0)
    /\ UNCHANGED <<storeVars, queue, ver, drain, faults>>

\* Mutant: the lookup misses what is there.
NoTopicFound_Blind(c) ==
    /\ req[c].at = "find"
    /\ GoTo(c, AfterFind)
    /\ UNCHANGED <<storeVars, queue, ver, drain, faults>>

\* No match, or a lookup error, which the code also treats as no match.
NoTopicFound(c) ==
    /\ req[c].at = "find"
    /\ \/ /\ \A i \in Ids : Stored(i) => points[i].topic # req[c].topic
          /\ NoFault
       \/ Fault
    /\ GoTo(c, AfterFind)
    /\ UNCHANGED <<storeVars, queue, ver, drain>>

\* _update_topic reads the old revision, then awaits the embedding.
ReadRevision(c) ==
    /\ req[c].at = "uread"
    /\ \E i \in Target(c) :
        GoWith(c, "uembed", req[c].docs, points[i].rev + 1)
    /\ UNCHANGED <<storeVars, queue, ver, drain, faults>>

\* update_with_embeddings is an upsert of the whole point.
UpdateTopic(c) ==
    /\ req[c].at = "uembed"
    /\ points' = [i \in Ids |->
                    IF i \in Target(c)
                    THEN [ver |-> req[c].ver, topic |-> req[c].topic, rev |-> req[c].rev]
                    ELSE points[i]]
    /\ GoTo(c, "uwritten")
    /\ UNCHANGED <<fts, ftsTasks, used, fate, queue, ver, drain, faults>>

UpdateReturn(c) ==
    /\ req[c].at = "uwritten"
    /\ ftsTasks' = ftsTasks \cup {req[c].docs}
    /\ Acknowledge(c)
    /\ Idle(c)
    /\ UNCHANGED <<points, fts, used, queue, ver, drain, faults>>

\* The embedding fails: the new text is queued, or not if the queue fails too, and
\* only metadata is updated.
UpdateQueued(c) ==
    /\ req[c].at = "uembed"
    /\ Fault
    /\ \/ \E i \in Target(c) : enqueue(i, [ver |-> req[c].ver, topic |-> req[c].topic])
       \/ UNCHANGED queue
    /\ GoTo(c, "umeta")
    /\ UNCHANGED <<storeVars, ver, drain>>

\* set_payload on a missing point changes nothing.
UpdateMetadataOnly(c) ==
    /\ req[c].at = "umeta"
    /\ points' = [i \in Ids |->
                    IF i \in Target(c) /\ Stored(i)
                    THEN [points[i] EXCEPT !.topic = req[c].topic, !.rev = req[c].rev]
                    ELSE points[i]]
    /\ Acknowledge(c)
    /\ Idle(c)
    /\ UNCHANGED <<fts, ftsTasks, used, queue, ver, drain, faults>>

\* _dedup_merge: the nearest memory may be similar enough; which is, is left open.
FoundDuplicate(c) ==
    /\ req[c].at = "dedup"
    /\ \E i \in Ids :
        /\ Stored(i)
        /\ GoWith(c, "merge", {<<i, req[c].ver>>}, 0)
    /\ UNCHANGED <<storeVars, queue, ver, drain, faults>>

NoDuplicate(c) ==
    /\ req[c].at = "dedup"
    /\ GoTo(c, "embed")
    /\ UNCHANGED <<storeVars, queue, ver, drain, faults>>

\* Mutant: the merge writes the whole point.
DedupMerge_Upserts(c) ==
    /\ req[c].at = "merge"
    /\ points' = [i \in Ids |-> IF i \in Target(c)
                                THEN [points[i] EXCEPT !.ver = req[c].ver] ELSE points[i]]
    /\ Acknowledge(c)
    /\ Idle(c)
    /\ UNCHANGED <<fts, ftsTasks, used, queue, ver, drain, faults>>

\* Only metadata of the existing memory changes; its id is returned.
DedupMerge(c) ==
    /\ req[c].at = "merge"
    /\ Acknowledge(c)
    /\ Idle(c)
    /\ UNCHANGED <<points, fts, ftsTasks, used, queue, ver, drain, faults>>

\* The merge fails open: remember() goes on to a new memory.
DedupMergeFails(c) ==
    /\ req[c].at = "merge"
    /\ Fault
    /\ GoWith(c, "embed", {}, 0)
    /\ UNCHANGED <<storeVars, queue, ver, drain>>

NewPoint(v, t) == [ver |-> v, topic |-> t, rev |-> 0]

AddNew(c) ==
    /\ req[c].at = "embed"
    /\ \E i \in Ids \ used :
        /\ used' = used \cup {i}
        /\ points' = [points EXCEPT ![i] = NewPoint(req[c].ver, req[c].topic)]
        /\ GoWith(c, "stored", {<<i, req[c].ver>>}, 0)
    /\ UNCHANGED <<fts, ftsTasks, fate, queue, ver, drain, faults>>

\* A degraded tier, a failed embedding or a failed write: a write whose reply was
\* lost may have taken effect.
AddFails(c) ==
    /\ req[c].at = "embed"
    /\ Fault
    /\ \E i \in Ids \ used, applied \in BOOLEAN :
        /\ used' = used \cup {i}
        /\ points' = IF applied
                     THEN [points EXCEPT ![i] = NewPoint(req[c].ver, req[c].topic)]
                     ELSE points
        /\ GoWith(c, "failed", {<<i, req[c].ver>>}, 0)
    /\ UNCHANGED <<fts, ftsTasks, fate, queue, ver, drain>>

\* Mutant: no index task is created.
StoredReturn_Unindexed(c) ==
    /\ req[c].at = "stored"
    /\ Acknowledge(c)
    /\ Idle(c)
    /\ UNCHANGED <<points, fts, ftsTasks, used, queue, ver, drain, faults>>

\* fts_insert() only creates the task; remember() returns without waiting for it.
StoredReturn(c) ==
    /\ req[c].at = "stored"
    /\ ftsTasks' = ftsTasks \cup {req[c].docs}
    /\ Acknowledge(c)
    /\ Idle(c)
    /\ UNCHANGED <<points, fts, used, queue, ver, drain, faults>>

\* Mutant: it is queued under an id of its own.
QueuedReturn_NewId(c) ==
    /\ req[c].at = "failed"
    /\ \E i \in Ids \ used :
        /\ used' = used \cup {i}
        /\ enqueue(i, [ver |-> req[c].ver, topic |-> req[c].topic])
    /\ Acknowledge(c)
    /\ Idle(c)
    /\ UNCHANGED <<points, fts, ftsTasks, ver, drain, faults>>

\* The memory goes to the queue; an enqueue that fails as well is only logged, and the
\* caller gets the id all the same.
QueuedReturn(c) ==
    /\ req[c].at = "failed"
    /\ \/ /\ \E i \in Target(c) : enqueue(i, [ver |-> req[c].ver, topic |-> req[c].topic])
          /\ Acknowledge(c)
          /\ NoFault
       \/ /\ Fault
          /\ Tell(c, "unsaved")
          /\ UNCHANGED queue
    /\ ftsTasks' = ftsTasks \cup {req[c].docs}
    /\ Idle(c)
    /\ UNCHANGED <<points, fts, used, ver, drain>>

-----------------------------------------------------------------------------
(* remember_batch(): two texts stand for any number; one upsert, no queue. *)

remember_batch(c) ==
    /\ req[c].at = "idle"
    /\ ver + 1 < MaxVer
    /\ ver' = ver + 2
    /\ req' = [req EXCEPT ![c] = NewRequest("bembed", {}, ver + 1, NoTopic)]
    /\ UNCHANGED <<storeVars, queue, drain, faults>>

BatchUpsert(c) ==
    /\ req[c].at = "bembed"
    /\ \E i, j \in Ids \ used :
        LET v == req[c].ver IN
        /\ i # j
        /\ used' = used \cup {i, j}
        /\ points' = [points EXCEPT ![i] = NewPoint(v, NoTopic), ![j] = NewPoint(v + 1, NoTopic)]
        /\ GoWith(c, "bstored", {<<i, v>>, <<j, v + 1>>}, 0)
    /\ UNCHANGED <<fts, ftsTasks, fate, queue, ver, drain, faults>>

BatchReturn(c) ==
    /\ req[c].at = "bstored"
    /\ ftsTasks' = ftsTasks \cup {req[c].docs}
    /\ Acknowledge(c)
    /\ Idle(c)
    /\ UNCHANGED <<points, fts, used, queue, ver, drain, faults>>

-----------------------------------------------------------------------------
(* delete() *)

delete(c, i) ==
    /\ req[c].at = "idle"
    /\ Stored(i) \/ fate[i] # "unknown"   \* callers delete ids they were given or found
    /\ fate' = [fate EXCEPT ![i] = "deleting"]
    /\ req' = [req EXCEPT ![c] = NewRequest("del", {<<i, 0>>}, 0, NoTopic)]
    /\ UNCHANGED <<points, fts, ftsTasks, used, queue, ver, drain, faults>>

DeletePoint(c) ==
    /\ req[c].at = "del"
    /\ points' = [i \in Ids |-> IF i \in Target(c) THEN NoPoint ELSE points[i]]
    /\ GoTo(c, "delfts")
    /\ UNCHANGED <<fts, ftsTasks, used, fate, queue, ver, drain, faults>>

\* fts_delete swallows its own errors.
fts_delete(i) ==
    \/ fts' = [fts EXCEPT ![i] = 0] /\ NoFault
    \/ Fault /\ UNCHANGED fts

\* delete() returns True whether or not the index entry went.
DeleteFts(c) ==
    /\ req[c].at = "delfts"
    /\ \E i \in Target(c) :
        /\ fts_delete(i)
        /\ fate' = [fate EXCEPT ![i] = "deleted"]
    /\ Idle(c)
    /\ UNCHANGED <<points, ftsTasks, used, queue, ver, drain>>

\* An error the code does not absorb reaches the caller, with or without the last
\* call's effect: a dimension mismatch, a backend error in _update_topic, the
\* RuntimeError of remember_batch, or False from delete.
RequestFails(c) ==
    /\ req[c].at \in {"embed", "uread", "uembed", "uwritten", "umeta",
                      "bembed", "bstored", "del", "delfts"}
    /\ Fault
    /\ Idle(c)
    /\ UNCHANGED <<storeVars, queue, ver, drain>>

-----------------------------------------------------------------------------
(* The background index tasks *)

FtsInsert(task) ==
    /\ fts' = [i \in Ids |-> IF \E d \in task : d[1] = i
                             THEN (CHOOSE d \in task : d[1] = i)[2] ELSE fts[i]]
    /\ ftsTasks' = ftsTasks \ {task}
    /\ UNCHANGED <<points, used, fate, queue, ver, req, drain, faults>>

FtsInsertFails(task) ==
    /\ Fault
    /\ ftsTasks' = ftsTasks \ {task}
    /\ UNCHANGED <<points, fts, used, fate, queue, ver, req, drain>>

-----------------------------------------------------------------------------
(* process_embedding_queue() *)

Oldest(S) == {i \in S : \A j \in S : queue[i].created <= queue[j].created}

DrainStart ==
    /\ drain.at = "idle"
    /\ dequeue_batch # {}
    /\ drain' = [at |-> "item", batch |-> dequeue_batch, cur |-> {}]
    /\ UNCHANGED <<storeVars, queue, ver, req, faults>>

\* store._backend.add is an upsert: it overwrites, and recreates, the point.
DrainAdd ==
    /\ drain.at = "item"
    /\ \E i \in Oldest(drain.batch) :
        /\ points' = [points EXCEPT ![i] = NewPoint(queue[i].item.ver, queue[i].item.topic)]
        /\ drain' = [drain EXCEPT !.at = "added", !.cur = {i}]
    /\ UNCHANGED <<fts, ftsTasks, used, fate, queue, ver, req, faults>>

NextItem(i) ==
    drain' = IF drain.batch = {i} THEN NoDrain
             ELSE [at |-> "item", batch |-> drain.batch \ {i}, cur |-> {}]

\* Mutant: the row is not marked.
DrainMarkDone_Unmarked ==
    /\ drain.at = "added"
    /\ \E i \in drain.cur : NextItem(i)
    /\ UNCHANGED <<storeVars, queue, ver, req, faults>>

DrainMarkDone ==
    /\ drain.at = "added"
    /\ \E i \in drain.cur : mark_done(i) /\ NextItem(i)
    /\ UNCHANGED <<storeVars, ver, req, faults>>

\* The embedding or the write failed; the write may still have taken effect.
DrainMarkFailed ==
    /\ \/ drain.at = "item"  /\ \E i \in Oldest(drain.batch) : mark_failed(i) /\ NextItem(i)
       \/ drain.at = "added" /\ \E i \in drain.cur : mark_failed(i) /\ NextItem(i)
    /\ Fault
    /\ UNCHANGED <<storeVars, ver, req>>

\* The scheduler's task timeout cancels the coroutine at an await.
DrainCancelled ==
    /\ drain.at # "idle"
    /\ Fault
    /\ drain' = NoDrain
    /\ UNCHANGED <<storeVars, queue, ver, req>>

-----------------------------------------------------------------------------
(* The process dies and restarts: the three stores persist. *)

Crash ==
    /\ Fault
    /\ req' = [c \in Clients |-> NoRequest]
    /\ ftsTasks' = {}
    /\ drain' = NoDrain
    /\ UNCHANGED <<points, fts, used, fate, queue, ver>>

Invoke(c) ==
    \/ \E t \in Topic : remember(c, t)
    \/ remember_batch(c)
    \/ \E i \in Ids : delete(c, i)

\* What an admitted request does without failing.
Resume(c) ==
    \/ FoundTopic(c) \/ NoTopicFound(c) \/ ReadRevision(c)
    \/ UpdateTopic(c) \/ UpdateReturn(c) \/ UpdateMetadataOnly(c)
    \/ FoundDuplicate(c) \/ NoDuplicate(c) \/ DedupMerge(c)
    \/ AddNew(c) \/ StoredReturn(c) \/ QueuedReturn(c)
    \/ BatchUpsert(c) \/ BatchReturn(c)
    \/ DeletePoint(c) \/ DeleteFts(c)

Fail(c) ==
    UpdateQueued(c) \/ DedupMergeFails(c) \/ AddFails(c) \/ RequestFails(c)

DrainStep == DrainStart \/ DrainAdd \/ DrainMarkDone

Step ==
    \/ \E c \in Clients : Invoke(c) \/ Resume(c) \/ Fail(c)
    \/ \E task \in ftsTasks : FtsInsert(task) \/ FtsInsertFails(task)
    \/ DrainStep \/ DrainMarkFailed \/ DrainCancelled

Next == Step \/ Crash

Spec == Init /\ [][Next]_vars

(***************************************************************************)
(* The event loop runs every ready coroutine, the thread pool every        *)
(* submitted call, and the scheduler's loop comes round again: a request   *)
(* once admitted, a task once created and the drain are weakly fair.       *)
(* Callers owe nothing, and nothing has to fail.                           *)
(***************************************************************************)
Fairness ==
    /\ \A c \in Clients : WF_vars(Resume(c))
    /\ WF_vars(\E task \in ftsTasks : FtsInsert(task))
    /\ WF_vars(DrainStep)

FairSpec == Spec /\ Fairness
-----------------------------------------------------------------------------
TypeOK ==
    /\ queue \in [Ids -> Row]
    /\ points \in [Ids -> Point]
    /\ fts \in [Ids -> Nat]
    /\ ftsTasks \in SUBSET (SUBSET Doc)
    /\ used \in SUBSET Ids
    /\ ver \in Nat
    /\ req \in [Clients -> Request]
    /\ drain \in Drain
    /\ faults \in Nat
    /\ fate \in [Ids -> Fates]

\* An id that remember() or remember_batch() returned and nobody asked to delete is in
\* the collection, or waits in the queue (as a dead letter after MaxRetries): short of
\* the write and the queue failing for the same memory, no failure, lost reply,
\* cancellation or crash makes an accepted memory disappear.
AcceptedDurable ==
    \A i \in Ids : fate[i] = "live" =>
        Stored(i) \/ queue[i].status \in {"pending", "failed"}

\* Where a memory is held: in the collection, else in the queue.
PlaceOf(i) ==
    IF Stored(i) THEN "stored"
    ELSE IF queue[i].status = "pending" THEN "waiting"
    ELSE IF queue[i].status = "failed" THEN "dead" ELSE "nowhere"

Ledger == INSTANCE MemoryLedger WITH told <- fate, place <- [i \in Ids |-> PlaceOf(i)]

\* The store implements the ledger: whatever callers, index tasks, drain, lost replies,
\* cancellations and crashes do, a memory nobody asked to delete moves only towards the
\* collection or, its retries used up, to the dead letters, nobody is told of one that is
\* held nowhere, and one reported as unsaved does not turn up afterwards.
LedgerKept == Ledger!LedgerSpec

\* Each submitted text ends up under one id at most, in the collection and in the queue
\* together: a write whose reply was lost and that is retried from the queue overwrites
\* its own point and never makes a second memory.
OneIdPerText ==
    \A i, j \in Ids : i # j =>
        \A v \in {points[i].ver, queue[i].item.ver} \ {0} :
            v \notin {points[j].ver, queue[j].item.ver}

\* A memory that was deleted comes back only from the queue or from a topic update that
\* was in flight: nothing else (the index tasks, a dedup merge, a metadata update of
\* another request) recreates its point.
ResurrectionHasACause ==
    [][\A i \in Ids : (Gone(i) /\ ~Stored(i) /\ Stored(i)') =>
          \/ queue[i].status = "pending"
          \/ \E c \in Clients : req[c].at = "uembed" /\ i \in Target(c)]_vars

\* A queued memory is retried until it is stored or has failed MaxRetries times.
QueueDrains ==
    \A i \in Ids : (queue[i].status = "pending") ~> (queue[i].status # "pending")

\* While nothing fails, a memory in the collection reaches the full-text index (unless
\* it is deleted first), although remember() never waits for the background insert.
StoredIsIndexed ==
    \A i \in Ids : Stored(i) ~> (fts[i] # 0 \/ ~Stored(i) \/ faults > 0)

-----------------------------------------------------------------------------
(* One caller at a time and no failures *)

Sequential == (\A c, d \in Clients : c = d) /\ faults = 0

\* A sequential caller never has two memories under one topic_key: a memory stored
\* with a key replaces the one that has it.
SequentialKeyUnique ==
    Sequential => \A i, j \in Ids :
        (i # j /\ Stored(i) /\ Stored(j) /\ points[i].topic = points[j].topic)
            => points[i].topic = NoTopic
=============================================================================
