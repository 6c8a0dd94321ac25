--------------------------- MODULE EmbeddingQueue ---------------------------
(***************************************************************************)
(* The SQLite retry queue of embedding_queue.py: one row per memory id,    *)
(* written when an embedding or a vector write fails and read back by the  *)
(* scheduler.  Every method runs under the queue's lock and commits before *)
(* it returns, so each is one atomic step; the table survives a restart.   *)
(* The module holds the queue alone and is extended by EpisodicStore.      *)
(***************************************************************************)
EXTENDS Naturals, FiniteSets

CONSTANTS
    Ids,         \* memory ids (uuid4 values)
    Topics,      \* values of topic_key
    NoTopic,     \* a memory without topic_key
    MaxRetries,  \* _MAX_RETRIES
    BatchSize    \* _BATCH_SIZE

ASSUME QueueAssumption ==
    /\ IsFiniteSet(Ids)
    /\ MaxRetries \in Nat \ {0}
    /\ BatchSize \in Nat \ {0}

VARIABLE queue   \* [Ids -> Row], NoRow where the table has no row

Topic == Topics \cup {NoTopic}

\* content + metadata_json: the version of the text and the key it carries.
Item == [ver : Nat, topic : Topic]

Row == [status  : {"none", "pending", "done", "failed"},
        retries : Nat,
        created : Nat,
        item    : Item]

NoItem == [ver |-> 0, topic |-> NoTopic]
NoRow  == [status |-> "none", retries |-> 0, created |-> 0, item |-> NoItem]

Rows == {i \in Ids : queue[i].status # "none"}

\* Rows are never deleted from the table, so their number orders created_at.
QueueInit == queue = [i \in Ids |-> NoRow]

\* INSERT OR IGNORE on the primary key: a row of any status wins over the new one.
enqueue(i, item) ==
    queue' = IF i \in Rows THEN queue
             ELSE [queue EXCEPT ![i] = [status  |-> "pending", retries |-> 0,
                                        created |-> Cardinality(Rows),
                                        item    |-> item]]

\* Mutant: dead letters are taken up again.
Eligible_Dead == {i \in Ids : queue[i].status \in {"pending", "failed"}}

\* What dequeue_batch's WHERE clause lets through.
Eligible == {i \in Ids : /\ queue[i].status = "pending"
                         /\ queue[i].retries < MaxRetries}

\* Its ORDER BY created_at LIMIT: the BatchSize oldest eligible rows.
dequeue_batch ==
    {i \in Eligible :
        Cardinality({j \in Eligible : queue[j].created < queue[i].created}) < BatchSize}

\* Mutant: a status nobody reads.
mark_done_Mislabelled(i) ==
    queue' = IF i \in Rows THEN [queue EXCEPT ![i].status = "completed"] ELSE queue

mark_done(i) ==
    queue' = IF i \in Rows THEN [queue EXCEPT ![i].status = "done"] ELSE queue

Retried(row, limit) ==
    [status  |-> IF row.retries + 1 >= limit THEN "failed" ELSE "pending",
     retries |-> row.retries + 1, created |-> row.created, item |-> row.item]

\* Mutant: the limit is off by one.
mark_failed_Late(i) ==
    queue' = IF i \in Rows THEN [queue EXCEPT ![i] = Retried(@, MaxRetries + 1)] ELSE queue

mark_failed(i) ==
    queue' = IF i \in Rows THEN [queue EXCEPT ![i] = Retried(@, MaxRetries)] ELSE queue

-----------------------------------------------------------------------------
\* A row that is still pending is one dequeue_batch can return: the retry limit of
\* the query and the one of mark_failed agree, so no row is pending and unreachable.
NoStrandedRow == \A i \in Ids : queue[i].status = "pending" => i \in Eligible
=============================================================================
