------------------------------- MODULE Client -------------------------------
(***************************************************************************)
(* EngramClient: a language model call wrapped between a recall, which may *)
(* fail, and a background task that extracts facts from the turn, drops    *)
(* those the store has and stores the others in one batch.  Several chats  *)
(* may run at once; close() cancels the tasks that were left.  A blocking  *)
(* call that a task handed to a thread is not stopped by the cancellation. *)
(*                                                                         *)
(* chat_sync runs chat in an event loop of its own, and the end of the     *)
(* loop cancels the task in its first await, the call of the model.        *)
(***************************************************************************)
EXTENDS FiniteSets, Integers

CONSTANTS
    Turns,   \* calls of chat, each made once
    Facts,
    Told     \* Told[t]: the facts in turn t

ASSUME ClientAssumption == Told \in [Turns -> SUBSET Facts]

VARIABLES
    chat,    \* chat[t]: "not", "recall", "model", "returned", "raised"
    sync,    \* turns made with chat_sync
    task,    \* task[t]: what the extraction of t does next, or how it ended
    tracked, \* _bg_tasks
    fresh,   \* fresh[t]: the facts of t still to be stored
    thread,  \* turns whose batch is in a thread
    open,    \* the client has its stores
    closing, \* "no", "waits" while close() awaits the tasks, "done"
    rows,    \* the batches in the vector store: [turn, facts]
    words    \* turns whose batch is in the text index

clientVars == <<chat, sync, task, tracked, fresh, thread, open, closing, rows, words>>

Alive == {"begin", "dedup", "store", "stores", "index"}
Held  == UNION {r.facts : r \in rows}

ClientInit ==
    /\ chat = [t \in Turns |-> "not"] /\ sync = {}
    /\ task = [t \in Turns |-> "none"] /\ tracked = {}
    /\ fresh = [t \in Turns |-> {}] /\ thread = {}
    /\ open = FALSE /\ closing = "no"
    /\ rows = {} /\ words = {}

----------------------------------------------------------------------------
\* A caller uses the client before it closes it, and closes it after its calls.
Chat(t) ==
    /\ chat[t] = "not" /\ closing = "no"
    /\ chat' = [chat EXCEPT ![t] = "recall"]
    /\ sync' \in {sync, sync \cup {t}}
    /\ UNCHANGED <<task, tracked, fresh, thread, open, closing, rows, words>>

\* The stores are made here at the latest; whatever the recall raises, the call goes on.
RecallForContext(t) ==
    /\ chat[t] = "recall" /\ chat' = [chat EXCEPT ![t] = "model"]
    /\ open' \in {open, TRUE}
    /\ UNCHANGED <<sync, task, tracked, fresh, thread, closing, rows, words>>

ModelRaises(t) ==
    /\ chat[t] = "model" /\ chat' = [chat EXCEPT ![t] = "raised"]
    /\ UNCHANGED <<sync, task, tracked, fresh, thread, open, closing, rows, words>>

\* Mutant: the task is started and not kept.
Tracked_Not(t) == tracked

Tracked(t) == tracked \cup {t}

\* The task is created and chat returns; with chat_sync the loop ends then, the task having opened
\* the stores and called the model.
ModelReplies(t) ==
    /\ chat[t] = "model" /\ chat' = [chat EXCEPT ![t] = "returned"]
    /\ IF t \in sync
       THEN task' = [task EXCEPT ![t] = "cancelled"] /\ open' = TRUE /\ UNCHANGED tracked
       ELSE task' = [task EXCEPT ![t] = "begin"] /\ tracked' = Tracked(t) /\ UNCHANGED open
    /\ UNCHANGED <<sync, fresh, thread, closing, rows, words>>

Ends(t, how) == task' = [task EXCEPT ![t] = how] /\ tracked' = tracked \ {t}

\* MemoryExtractor.extract: some of the facts, none when the model fails.
Extract(t) ==
    /\ task[t] = "begin" /\ open' = TRUE
    /\ \E fs \in SUBSET Told[t] :
         /\ fresh' = [fresh EXCEPT ![t] = fs]
         /\ IF fs = {} THEN Ends(t, "nothing")
                       ELSE task' = [task EXCEPT ![t] = "dedup"] /\ UNCHANGED tracked
    /\ UNCHANGED <<chat, sync, thread, closing, rows, words>>

\* The facts the store has are dropped; a fact whose search fails is kept.
Dedup(t) ==
    /\ task[t] = "dedup"
    /\ \E failed \in SUBSET fresh[t] :
         LET keep == {f \in fresh[t] : f \in failed \/ f \notin Held} IN
         /\ fresh' = [fresh EXCEPT ![t] = keep]
         /\ IF keep = {} THEN Ends(t, "nothing")
                         ELSE task' = [task EXCEPT ![t] = "store"] /\ UNCHANGED tracked
    /\ UNCHANGED <<chat, sync, thread, open, closing, rows, words>>

\* remember_batch: the embeddings, which may fail, then one upsert in a thread.
Embed(t) ==
    /\ task[t] = "store"
    /\ \/ task' = [task EXCEPT ![t] = "stores"] /\ thread' = thread \cup {t} /\ UNCHANGED tracked
       \/ Ends(t, "failed") /\ UNCHANGED thread
    /\ UNCHANGED <<chat, sync, fresh, open, closing, rows, words>>

ThreadStores(t) ==
    /\ t \in thread /\ thread' = thread \ {t}
    /\ rows' = rows \cup {[turn |-> t, facts |-> fresh[t]]}
    /\ task' = IF task[t] = "stores" THEN [task EXCEPT ![t] = "index"] ELSE task
    /\ UNCHANGED <<chat, sync, tracked, fresh, open, closing, words>>

Index(t) ==
    /\ task[t] = "index" /\ words' = words \cup {t} /\ Ends(t, "stored")
    /\ UNCHANGED <<chat, sync, fresh, thread, open, closing, rows>>

\* close(): the tasks are cancelled wherever they wait, awaited, and the stores let go.
Close ==
    /\ closing = "no" /\ \A t \in Turns : chat[t] \notin {"recall", "model"}
    /\ closing' = "waits"
    /\ task' = [t \in Turns |-> IF t \in tracked THEN "cancelled" ELSE task[t]]
    /\ UNCHANGED <<chat, sync, tracked, fresh, thread, open, rows, words>>

Closed ==
    /\ closing = "waits" /\ closing' = "done"
    /\ tracked' = {} /\ open' = FALSE
    /\ UNCHANGED <<chat, sync, task, fresh, thread, rows, words>>

ClientDone == closing = "done" /\ UNCHANGED clientVars

ClientNext ==
    \/ \E t \in Turns :
         \/ Chat(t) \/ RecallForContext(t) \/ ModelRaises(t) \/ ModelReplies(t)
         \/ Extract(t) \/ Dedup(t) \/ Embed(t) \/ ThreadStores(t) \/ Index(t)
    \/ Close \/ Closed \/ ClientDone

ClientSpec == ClientInit /\ [][ClientNext]_clientVars

----------------------------------------------------------------------------
(***************************************************************************)
(* Once close() has returned the client stays closed: no task of it is     *)
(* alive to open the stores again, whichever step the extractions had      *)
(* reached, and of the batches only those already handed to a thread may   *)
(* still arrive.                                                           *)
(***************************************************************************)
ClosedStaysClosed ==
    closing = "done" => ~open /\ \A t \in Turns : task[t] \notin Alive
=============================================================================
