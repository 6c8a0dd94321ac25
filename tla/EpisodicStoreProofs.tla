------------------------ MODULE EpisodicStoreProofs ------------------------
(***************************************************************************)
(* Proofs about EpisodicStore, for every number of ids, keys, callers,     *)
(* texts, failures and retries.                                            *)
(***************************************************************************)
EXTENDS EpisodicStore, FiniteSetTheorems, TLAPS

-----------------------------------------------------------------------------
(* The queue's operations keep its type. *)

\* The number of rows, which orders created_at, is a natural number.
LEMMA QueueCounts ==
    ASSUME queue \in [Ids -> Row]
    PROVE  Cardinality(Rows) \in Nat
<1>1. IsFiniteSet(Rows)
  BY QueueAssumption, FS_Subset DEF Rows
<1> QED BY <1>1, FS_CardinalityType

\* INSERT OR IGNORE leaves a well-typed table.
LEMMA EnqueueType ==
    ASSUME queue \in [Ids -> Row], NEW i \in Ids, NEW item \in Item, enqueue(i, item)
    PROVE  queue' \in [Ids -> Row]
<1>1. [status |-> "pending", retries |-> 0, created |-> Cardinality(Rows), item |-> item] \in Row
  BY QueueCounts DEF Row
<1> QED BY <1>1 DEF enqueue

\* mark_done leaves a well-typed table.
LEMMA MarkDoneType ==
    ASSUME queue \in [Ids -> Row], NEW i \in Ids, mark_done(i)
    PROVE  queue' \in [Ids -> Row]
BY DEF mark_done, Row, Rows

\* mark_failed leaves a well-typed table, whatever the retry count.
LEMMA MarkFailedType ==
    ASSUME queue \in [Ids -> Row], NEW i \in Ids, mark_failed(i)
    PROVE  queue' \in [Ids -> Row]
<1>1. Retried(queue[i], MaxRetries) \in Row
  BY DEF Retried, Row
<1> QED BY <1>1 DEF mark_failed

-----------------------------------------------------------------------------
(* Types of the values the actions write *)

\* A request that moves on stays a request.
LEMMA GoToType ==
    ASSUME req \in [Clients -> Request], NEW c \in Clients, NEW at \in Steps, GoTo(c, at)
    PROVE  req' \in [Clients -> Request]
BY DEF GoTo, Request

\* So does one that moves on with documents and a revision.
LEMMA GoWithType ==
    ASSUME req \in [Clients -> Request], NEW c \in Clients, NEW at \in Steps,
           NEW docs \in SUBSET Doc, NEW rev \in Nat, GoWith(c, at, docs, rev)
    PROVE  req' \in [Clients -> Request]
BY DEF GoWith, Request

\* A request that ends leaves the idle one.
LEMMA IdleType ==
    ASSUME req \in [Clients -> Request], NEW c \in Clients, Idle(c)
    PROVE  req' \in [Clients -> Request]
BY DEF Idle, NoRequest, NewRequest, Request, Steps, Topic

\* A request's targets are ids.
LEMMA TargetType ==
    ASSUME req \in [Clients -> Request], NEW c \in Clients
    PROVE  Target(c) \subseteq Ids
BY DEF Target, Request, Doc

\* What callers are told is one of the fates.
LEMMA TellType ==
    ASSUME fate \in [Ids -> Fates], NEW c \in Clients,
           NEW what \in Fates, Tell(c, what)
    PROVE  fate' \in [Ids -> Fates]
BY DEF Tell

\* The empty stores are well typed.
LEMMA TypeInit == Init => TypeOK
BY StoreAssumption
   DEF Init, TypeOK, QueueInit, NoRow, Row, NoItem, Item, NoPoint, Point, NoRequest, NewRequest, Request,
       Steps, NoDrain, Drain, Topic, Fates

\* Admitting a remember, a batch or a delete preserves the types.
LEMMA TypeInvoke ==
    ASSUME TypeOK, NEW c \in Clients, Invoke(c)
    PROVE  TypeOK'
<1>1. CASE \E t \in Topic : remember(c, t)
  BY <1>1 DEF TypeOK, remember, NewRequest, Request, Steps, AfterFind, storeVars
<1>2. CASE remember_batch(c)
  BY <1>2 DEF TypeOK, remember_batch, Request, Steps, NewRequest, storeVars, Topic
<1>3. CASE \E i \in Ids : delete(c, i)
  BY <1>3 DEF TypeOK, delete, Request, Steps, NewRequest, storeVars, Topic, Doc, Fates
<1> QED BY <1>1, <1>2, <1>3 DEF Invoke

\* The steps of the topic-key upsert preserve the types.
LEMMA TypeResumeUpdate ==
    ASSUME TypeOK, NEW c \in Clients,
           FoundTopic(c) \/ NoTopicFound(c) \/ ReadRevision(c) \/ UpdateTopic(c)
           \/ UpdateReturn(c) \/ UpdateMetadataOnly(c) \/ UpdateQueued(c)
    PROVE  TypeOK'
<1>1. CASE FoundTopic(c)
  <2>1. PICK i \in Ids : GoWith(c, "uread", {<<i, req[c].ver>>}, 0)
    BY <1>1 DEF FoundTopic
  <2>2. {<<i, req[c].ver>>} \in SUBSET Doc
    BY DEF TypeOK, Request, Doc
  <2>3. req' \in [Clients -> Request]
    BY <2>1, <2>2, GoWithType DEF TypeOK, Steps
  <2> QED BY <1>1, <2>3 DEF TypeOK, FoundTopic, storeVars
<1>2. CASE NoTopicFound(c)
  <2>1. AfterFind \in Steps
    BY DEF AfterFind, Steps
  <2>2. req' \in [Clients -> Request]
    BY <1>2, <2>1, GoToType DEF TypeOK, NoTopicFound
  <2> QED BY <1>2, <2>2 DEF TypeOK, NoTopicFound, Fault, NoFault, storeVars
<1>3. CASE ReadRevision(c)
  <2>1. PICK i \in Target(c) :
           GoWith(c, "uembed", req[c].docs, points[i].rev + 1)
    BY <1>3 DEF ReadRevision
  <2>2. points[i].rev + 1 \in Nat
    BY TargetType DEF TypeOK, Point
  <2>3. req' \in [Clients -> Request]
    BY <2>1, <2>2, GoWithType DEF TypeOK, Request, Steps
  <2> QED BY <1>3, <2>3 DEF TypeOK, ReadRevision, storeVars
<1>4. CASE UpdateTopic(c)
  <2>1. points' \in [Ids -> Point]
    BY <1>4 DEF TypeOK, UpdateTopic, Point, Request
  <2>2. req' \in [Clients -> Request]
    BY <1>4, GoToType DEF TypeOK, UpdateTopic, Steps
  <2> QED BY <1>4, <2>1, <2>2 DEF TypeOK, UpdateTopic
<1>5. CASE UpdateReturn(c)
  <2>1. ftsTasks' \in SUBSET (SUBSET Doc)
    BY <1>5 DEF TypeOK, UpdateReturn, Request
  <2>2. req' \in [Clients -> Request]
    BY <1>5, IdleType DEF TypeOK, UpdateReturn
  <2> QED BY <1>5, <2>1, <2>2, TellType DEF TypeOK, UpdateReturn, Acknowledge, Fates
<1>6. CASE UpdateMetadataOnly(c)
  <2>1. points' \in [Ids -> Point]
    BY <1>6 DEF TypeOK, UpdateMetadataOnly, Point, Request
  <2>2. req' \in [Clients -> Request]
    BY <1>6, IdleType DEF TypeOK, UpdateMetadataOnly
  <2> QED BY <1>6, <2>1, <2>2, TellType DEF TypeOK, UpdateMetadataOnly, Acknowledge, Fates
<1>7. CASE UpdateQueued(c)
  <2>1. queue' \in [Ids -> Row]
    BY <1>7, TargetType, EnqueueType DEF TypeOK, UpdateQueued, Request, Item
  <2>2. req' \in [Clients -> Request]
    BY <1>7, GoToType DEF TypeOK, UpdateQueued, Steps
  <2> QED BY <1>7, <2>1, <2>2 DEF TypeOK, UpdateQueued, Fault, storeVars
<1> QED BY <1>1, <1>2, <1>3, <1>4, <1>5, <1>6, <1>7

\* The steps of dedup, of a new memory and of a batch preserve the types.
LEMMA TypeResumeNew ==
    ASSUME TypeOK, NEW c \in Clients,
           FoundDuplicate(c) \/ NoDuplicate(c) \/ DedupMerge(c) \/ DedupMergeFails(c)
           \/ AddNew(c) \/ AddFails(c) \/ StoredReturn(c) \/ QueuedReturn(c)
    PROVE  TypeOK'
<1>1. CASE FoundDuplicate(c)
  <2>1. PICK i \in Ids : GoWith(c, "merge", {<<i, req[c].ver>>}, 0)
    BY <1>1 DEF FoundDuplicate
  <2>2. {<<i, req[c].ver>>} \in SUBSET Doc
    BY DEF TypeOK, Request, Doc
  <2>3. req' \in [Clients -> Request]
    BY <2>1, <2>2, GoWithType DEF TypeOK, Steps
  <2> QED BY <1>1, <2>3 DEF TypeOK, FoundDuplicate, storeVars
<1>2. CASE NoDuplicate(c)
  <2>1. req' \in [Clients -> Request]
    BY <1>2, GoToType DEF TypeOK, NoDuplicate, Steps
  <2> QED BY <1>2, <2>1 DEF TypeOK, NoDuplicate, storeVars
<1>3. CASE DedupMerge(c)
  <2>1. req' \in [Clients -> Request]
    BY <1>3, IdleType DEF TypeOK, DedupMerge
  <2> QED BY <1>3, <2>1, TellType DEF TypeOK, DedupMerge, Acknowledge, Fates
<1>4. CASE DedupMergeFails(c)
  <2>1. req' \in [Clients -> Request]
    BY <1>4, GoWithType DEF TypeOK, DedupMergeFails, Steps
  <2> QED BY <1>4, <2>1 DEF TypeOK, DedupMergeFails, Fault, storeVars
<1>5. CASE AddNew(c)
  <2>1. PICK i \in Ids \ used :
           /\ used' = used \cup {i}
           /\ points' = [points EXCEPT ![i] = NewPoint(req[c].ver, req[c].topic)]
           /\ GoWith(c, "stored", {<<i, req[c].ver>>}, 0)
    BY <1>5 DEF AddNew
  <2>2. NewPoint(req[c].ver, req[c].topic) \in Point
    BY DEF TypeOK, NewPoint, Point, Request
  <2>3. {<<i, req[c].ver>>} \in SUBSET Doc
    BY DEF TypeOK, Request, Doc
  <2>4. req' \in [Clients -> Request]
    BY <2>1, <2>3, GoWithType DEF TypeOK, Steps
  <2> QED BY <1>5, <2>1, <2>2, <2>4 DEF TypeOK, AddNew
<1>6. CASE AddFails(c)
  <2>1. PICK i \in Ids \ used, applied \in BOOLEAN :
           /\ used' = used \cup {i}
           /\ points' = IF applied
                        THEN [points EXCEPT ![i] = NewPoint(req[c].ver, req[c].topic)]
                        ELSE points
           /\ GoWith(c, "failed", {<<i, req[c].ver>>}, 0)
    BY <1>6 DEF AddFails
  <2>2. NewPoint(req[c].ver, req[c].topic) \in Point
    BY DEF TypeOK, NewPoint, Point, Request
  <2>3. {<<i, req[c].ver>>} \in SUBSET Doc
    BY DEF TypeOK, Request, Doc
  <2>4. req' \in [Clients -> Request]
    BY <2>1, <2>3, GoWithType DEF TypeOK, Steps
  <2> QED BY <1>6, <2>1, <2>2, <2>4 DEF TypeOK, AddFails, Fault
<1>7. CASE StoredReturn(c)
  <2>1. req' \in [Clients -> Request]
    BY <1>7, IdleType DEF TypeOK, StoredReturn
  <2>2. ftsTasks' \in SUBSET (SUBSET Doc)
    BY <1>7 DEF TypeOK, StoredReturn, Request
  <2> QED BY <1>7, <2>1, <2>2, TellType DEF TypeOK, StoredReturn, Acknowledge, Fates
<1>8. CASE QueuedReturn(c)
  <2>1. req' \in [Clients -> Request]
    BY <1>8, IdleType DEF TypeOK, QueuedReturn
  <2>2. ftsTasks' \in SUBSET (SUBSET Doc)
    BY <1>8 DEF TypeOK, QueuedReturn, Request
  <2>3. queue' \in [Ids -> Row]
    BY <1>8, TargetType, EnqueueType DEF TypeOK, QueuedReturn, Request, Item
  <2>4. fate' \in [Ids -> Fates]
    BY <1>8, TellType DEF TypeOK, QueuedReturn, Acknowledge, Fates
  <2> QED BY <1>8, <2>1, <2>2, <2>3, <2>4 DEF TypeOK, QueuedReturn, Fault, NoFault, Fates
<1> QED BY <1>1, <1>2, <1>3, <1>4, <1>5, <1>6, <1>7, <1>8

\* The steps of delete and the failing ones preserve the types.
LEMMA TypeResumeOther ==
    ASSUME TypeOK, NEW c \in Clients,
           BatchUpsert(c) \/ BatchReturn(c) \/ DeletePoint(c) \/ DeleteFts(c)
           \/ RequestFails(c)
    PROVE  TypeOK'
<1>1. CASE BatchUpsert(c)
  <2> DEFINE v == req[c].ver
  <2>1. PICK i \in Ids \ used, j \in Ids \ used :
           /\ used' = used \cup {i, j}
           /\ points' = [points EXCEPT ![i] = NewPoint(v, NoTopic), ![j] = NewPoint(v + 1, NoTopic)]
           /\ GoWith(c, "bstored", {<<i, v>>, <<j, v + 1>>}, 0)
    BY <1>1 DEF BatchUpsert
  <2>2. v \in Nat /\ v + 1 \in Nat
    BY DEF TypeOK, Request
  <2>3. NewPoint(v, NoTopic) \in Point /\ NewPoint(v + 1, NoTopic) \in Point
    BY <2>2 DEF NewPoint, Point, Topic
  <2> HIDE DEF v
  <2>4. points' \in [Ids -> Point]
    BY <2>1, <2>3 DEF TypeOK
  <2>5. {<<i, v>>, <<j, v + 1>>} \in SUBSET Doc
    BY <2>2 DEF Doc
  <2>6. req' \in [Clients -> Request]
    BY <2>1, <2>5, GoWithType DEF TypeOK, Steps
  <2> QED BY <1>1, <2>1, <2>4, <2>6 DEF TypeOK, BatchUpsert
<1>2. CASE BatchReturn(c)
  <2>1. req' \in [Clients -> Request]
    BY <1>2, IdleType DEF TypeOK, BatchReturn
  <2>2. ftsTasks' \in SUBSET (SUBSET Doc)
    BY <1>2 DEF TypeOK, BatchReturn, Request
  <2> QED BY <1>2, <2>1, <2>2, TellType DEF TypeOK, BatchReturn, Acknowledge, Fates
<1>3. CASE DeletePoint(c)
  <2>1. req' \in [Clients -> Request]
    BY <1>3, GoToType DEF TypeOK, DeletePoint, Steps
  <2>2. points' \in [Ids -> Point]
    BY <1>3 DEF TypeOK, DeletePoint, Point, NoPoint, Topic
  <2> QED BY <1>3, <2>1, <2>2 DEF TypeOK, DeletePoint
<1>4. CASE DeleteFts(c)
  <2>1. req' \in [Clients -> Request]
    BY <1>4, IdleType DEF TypeOK, DeleteFts, Fates
  <2>2. fts' \in [Ids -> Nat] /\ faults' \in Nat
    BY <1>4, TargetType DEF TypeOK, DeleteFts, fts_delete, Fault, NoFault
  <2>3. fate' \in [Ids -> Fates]
    BY <1>4 DEF TypeOK, DeleteFts, Fates
  <2> QED BY <1>4, <2>1, <2>2, <2>3 DEF TypeOK, DeleteFts, Fates
<1>5. CASE RequestFails(c)
  <2>1. req' \in [Clients -> Request]
    BY <1>5, IdleType DEF TypeOK, RequestFails
  <2> QED BY <1>5, <2>1 DEF TypeOK, RequestFails, Fault, storeVars
<1> QED BY <1>1, <1>2, <1>3, <1>4, <1>5

\* The background index tasks preserve the types.
LEMMA TypeTask ==
    ASSUME TypeOK, NEW task \in ftsTasks, FtsInsert(task) \/ FtsInsertFails(task)
    PROVE  TypeOK'
<1>1. CASE FtsInsert(task)
  <2>1. \A i \in Ids : (\E d \in task : d[1] = i) => (CHOOSE d \in task : d[1] = i) \in task
    OBVIOUS
  <2>2. task \subseteq Doc
    BY DEF TypeOK
  <2>3. \A i \in Ids : (\E d \in task : d[1] = i) => (CHOOSE d \in task : d[1] = i)[2] \in Nat
    BY <2>1, <2>2 DEF Doc
  <2>4. fts' \in [Ids -> Nat]
    BY <1>1, <2>3 DEF TypeOK, FtsInsert
  <2> QED BY <1>1, <2>4 DEF TypeOK, FtsInsert
<1>2. CASE FtsInsertFails(task)
  BY <1>2 DEF TypeOK, FtsInsertFails, Fault
<1> QED BY <1>1, <1>2

\* The drain that moves to its next item stays a drain.
LEMMA NextItemType ==
    ASSUME drain \in Drain, NEW i, NextItem(i)
    PROVE  drain' \in Drain
BY DEF NextItem, Drain, NoDrain

\* The drain of the retry queue preserves the types.
LEMMA TypeDrain ==
    ASSUME TypeOK, DrainStep \/ DrainMarkFailed \/ DrainCancelled
    PROVE  TypeOK'
<1>1. CASE DrainStart
  BY <1>1 DEF TypeOK, DrainStart, Drain, dequeue_batch, Eligible, storeVars
<1>2. CASE DrainAdd
  <2>1. PICK i \in Ids :
           /\ points' = [points EXCEPT ![i] = NewPoint(queue[i].item.ver, queue[i].item.topic)]
           /\ drain' = [drain EXCEPT !.at = "added", !.cur = {i}]
    BY <1>2 DEF DrainAdd, Oldest, TypeOK, Drain
  <2>2. NewPoint(queue[i].item.ver, queue[i].item.topic) \in Point
    BY DEF TypeOK, NewPoint, Point, Row, Item
  <2> QED BY <1>2, <2>1, <2>2 DEF TypeOK, DrainAdd, Drain
<1>3. CASE DrainMarkDone
  <2>1. PICK i \in drain.cur : mark_done(i) /\ NextItem(i)
    BY <1>3 DEF DrainMarkDone
  <2>2. i \in Ids
    BY DEF TypeOK, Drain
  <2>3. queue' \in [Ids -> Row] /\ drain' \in Drain
    BY <2>1, <2>2, MarkDoneType, NextItemType DEF TypeOK
  <2> QED BY <1>3, <2>3 DEF TypeOK, DrainMarkDone, storeVars
<1>4. CASE DrainMarkFailed
  <2>1. PICK i \in Ids : mark_failed(i) /\ NextItem(i)
    BY <1>4 DEF DrainMarkFailed, Oldest, TypeOK, Drain
  <2>2. queue' \in [Ids -> Row] /\ drain' \in Drain
    BY <2>1, MarkFailedType, NextItemType DEF TypeOK
  <2> QED BY <1>4, <2>2 DEF TypeOK, DrainMarkFailed, Fault, storeVars
<1>5. CASE DrainCancelled
  BY <1>5 DEF TypeOK, DrainCancelled, NoDrain, Drain, Fault, storeVars
<1> QED BY <1>1, <1>2, <1>3, <1>4, <1>5 DEF DrainStep

\* Every step preserves the types.
LEMMA TypeInductive == TypeOK /\ [Next]_vars => TypeOK'
<1> SUFFICES ASSUME TypeOK, [Next]_vars
             PROVE  TypeOK'
  OBVIOUS
<1>1. ASSUME NEW c \in Clients, Invoke(c) \/ Resume(c) \/ Fail(c)
      PROVE  TypeOK'
  BY <1>1, TypeInvoke, TypeResumeUpdate, TypeResumeNew, TypeResumeOther DEF Resume, Fail
<1>2. ASSUME NEW task \in ftsTasks, FtsInsert(task) \/ FtsInsertFails(task)
      PROVE  TypeOK'
  BY <1>2, TypeTask
<1>3. CASE DrainStep \/ DrainMarkFailed \/ DrainCancelled
  BY <1>3, TypeDrain
<1>4. CASE Crash
  BY <1>4 DEF TypeOK, Crash, NoRequest, NewRequest, Request, Steps, Topic, NoDrain, Drain, Fault
<1>5. CASE UNCHANGED vars
  BY <1>5 DEF TypeOK, vars
<1> QED BY <1>1, <1>2, <1>3, <1>4, <1>5 DEF Next, Step

\* The type invariant holds in every behaviour, whatever the constants.
THEOREM TypeCorrect == Spec => []TypeOK
<1> QED BY TypeInit, TypeInductive, PTL DEF Spec

-----------------------------------------------------------------------------
(* No row is stranded: inductive together with the type invariant. *)

\* Each method of the queue keeps its pending rows within reach of dequeue_batch.
LEMMA StrandedQueue ==
    ASSUME queue \in [Ids -> Row], NoStrandedRow, NEW i \in Ids,
           \/ \E item \in Item : enqueue(i, item)
           \/ mark_done(i)
           \/ mark_failed(i)
    PROVE  NoStrandedRow'
<1>1. CASE \E item \in Item : enqueue(i, item)
  BY <1>1, QueueAssumption DEF enqueue, NoStrandedRow, Eligible, Rows, Row
<1>2. CASE mark_done(i)
  BY <1>2 DEF mark_done, NoStrandedRow, Eligible, Rows, Row
<1>3. CASE mark_failed(i)
  <2>1. CASE i \notin Rows
    BY <1>3, <2>1 DEF mark_failed, NoStrandedRow, Eligible
  <2>2. CASE i \in Rows
    <3>1. Retried(queue[i], MaxRetries).status = "pending"
             => Retried(queue[i], MaxRetries).retries < MaxRetries
      BY QueueAssumption DEF Retried, Row
    <3> QED BY <1>3, <2>2, <3>1 DEF mark_failed, NoStrandedRow, Eligible
  <2> QED BY <2>1, <2>2
<1> QED BY <1>1, <1>2, <1>3

\* Which actions write the queue, and through which of its methods.
LEMMA QueueWriters ==
    ASSUME TypeOK, [Next]_vars
    PROVE  \/ UNCHANGED queue
           \/ \E i \in Ids : \/ \E item \in Item : enqueue(i, item)
                             \/ mark_done(i)
                             \/ mark_failed(i)
<1>1. ASSUME NEW c \in Clients, Invoke(c)
      PROVE  UNCHANGED queue
  BY <1>1 DEF Invoke, remember, remember_batch, delete
<1>2. ASSUME NEW c \in Clients, Resume(c)
      PROVE  UNCHANGED queue \/ QueuedReturn(c)
  BY <1>2 DEF Resume, FoundTopic, NoTopicFound, ReadRevision, UpdateTopic, UpdateReturn,
              UpdateMetadataOnly, FoundDuplicate, NoDuplicate, DedupMerge, AddNew,
              StoredReturn, BatchUpsert, BatchReturn, DeletePoint, DeleteFts
<1>3. ASSUME NEW c \in Clients, Fail(c)
      PROVE  UNCHANGED queue \/ UpdateQueued(c)
  BY <1>3 DEF Fail, DedupMergeFails, AddFails, RequestFails
<1>4. ASSUME NEW c \in Clients, QueuedReturn(c) \/ UpdateQueued(c)
      PROVE  UNCHANGED queue \/ \E i \in Ids : \E item \in Item : enqueue(i, item)
  <2>1. [ver |-> req[c].ver, topic |-> req[c].topic] \in Item
    BY DEF TypeOK, Request, Item
  <2> QED BY <1>4, <2>1, TargetType DEF TypeOK, QueuedReturn, UpdateQueued
<1>5. CASE \E task \in ftsTasks : FtsInsert(task) \/ FtsInsertFails(task)
  BY <1>5 DEF FtsInsert, FtsInsertFails
<1>6. CASE DrainStep \/ DrainMarkFailed \/ DrainCancelled
  BY <1>6 DEF DrainStep, DrainStart, DrainAdd, DrainMarkDone, DrainMarkFailed, DrainCancelled,
              Oldest, TypeOK, Drain
<1>7. CASE Crash \/ UNCHANGED vars
  BY <1>7 DEF Crash, vars
<1> QED BY <1>1, <1>2, <1>3, <1>4, <1>5, <1>6, <1>7 DEF Next, Step

\* The retry limit of dequeue_batch and the one of mark_failed agree in every state: a
\* pending row can always be dequeued again.
THEOREM QueueRowsReachable == Spec => []NoStrandedRow
<1>1. Init => NoStrandedRow
  BY DEF Init, QueueInit, NoRow, NoStrandedRow
<1>2. TypeOK /\ NoStrandedRow /\ [Next]_vars => NoStrandedRow'
  <2> SUFFICES ASSUME TypeOK, NoStrandedRow, [Next]_vars
               PROVE  NoStrandedRow'
    OBVIOUS
  <2>1. CASE UNCHANGED queue
    BY <2>1 DEF NoStrandedRow, Eligible
  <2> QED BY <2>1, QueueWriters, StrandedQueue DEF TypeOK
<1> QED BY <1>1, <1>2, TypeCorrect, PTL DEF Spec

-----------------------------------------------------------------------------
(* Accepted memories are durable.  AcceptedDurable is not inductive: it    *)
(* needs what every pending step of a request, of the drain and of the     *)
(* queue relies on.                                                        *)

\* Stored, or asked to be deleted.
Kept(i) == Stored(i) \/ Gone(i)

\* A request in flight carries a real text; one that is about to acknowledge without
\* queueing has its memories in the collection, unless somebody asked to delete them
\* meanwhile; one that queues has a single memory; one that deletes has said so.
RequestHolds(c) ==
    /\ req[c].at \notin {"idle", "del", "delfts"} => req[c].ver # 0
    /\ req[c].at \in {"uread", "uembed", "uwritten", "umeta", "merge", "stored", "bstored"}
          => \A i \in Target(c) : Kept(i)
    /\ req[c].at = "failed" => \A i, j \in Target(c) : i = j
    /\ req[c].at \in {"del", "delfts"} => \A i \in Target(c) : Gone(i)

\* The same of every request.
RequestsHold == \A c \in Clients : RequestHolds(c)

\* A queued text is a real one, and a row is done only once its memory is there.
QueueHolds ==
    \A i \in Rows : /\ queue[i].item.ver # 0
                    /\ queue[i].status = "done" => Kept(i)

\* The drain works on rows, and has the point in place when it marks one done.
DrainHolds ==
    /\ drain.batch \subseteq Rows
    /\ drain.at = "added" => \A i \in drain.cur : Kept(i)

\* The inductive invariant of the store.
IInv == TypeOK /\ RequestsHold /\ QueueHolds /\ DrainHolds /\ AcceptedDurable

\* The strengthened invariant holds of the empty stores.
LEMMA IInvInit == Init => IInv
BY TypeInit DEF Init, IInv, RequestsHold, RequestHolds, QueueHolds, DrainHolds, AcceptedDurable,
                QueueInit, NoRow, NoRequest, NewRequest, NoDrain, Rows

\* What callers were told never takes a deletion back.
LEMMA GoneStays ==
    ASSUME TypeOK, [Next]_vars, NEW i \in Ids, Gone(i)
    PROVE  Gone(i)'
<1>1. ASSUME NEW c \in Clients, NEW what, Tell(c, what)
      PROVE  Gone(i)'
  BY <1>1 DEF TypeOK, Tell, Gone
<1>2. ASSUME NEW c \in Clients, Invoke(c)
      PROVE  Gone(i)'
  BY <1>2 DEF TypeOK, Invoke, remember, remember_batch, delete, Gone, storeVars
<1>3. ASSUME NEW c \in Clients, Resume(c)
      PROVE  \/ UNCHANGED fate
             \/ \E what : Tell(c, what)
             \/ DeleteFts(c)
  BY <1>3 DEF Resume, FoundTopic, NoTopicFound, ReadRevision, UpdateTopic, UpdateReturn,
              UpdateMetadataOnly, FoundDuplicate, NoDuplicate, DedupMerge, AddNew, Acknowledge,
              StoredReturn, QueuedReturn, BatchUpsert, BatchReturn, DeletePoint, storeVars
<1>4. ASSUME NEW c \in Clients, DeleteFts(c)
      PROVE  Gone(i)'
  BY <1>4 DEF TypeOK, DeleteFts, Gone
<1>5. ASSUME NEW c \in Clients, Fail(c)
      PROVE  UNCHANGED fate
  BY <1>5 DEF Fail, UpdateQueued, DedupMergeFails, AddFails, RequestFails, storeVars
<1>6. CASE \E task \in ftsTasks : FtsInsert(task) \/ FtsInsertFails(task)
  BY <1>6 DEF FtsInsert, FtsInsertFails, Gone
<1>7. CASE DrainStep \/ DrainMarkFailed \/ DrainCancelled
  BY <1>7 DEF DrainStep, DrainStart, DrainAdd, DrainMarkDone, DrainMarkFailed, DrainCancelled,
              storeVars, Gone
<1>8. CASE Crash \/ UNCHANGED vars
  BY <1>8 DEF Crash, vars, Gone
<1> QED BY <1>1, <1>2, <1>3, <1>4, <1>5, <1>6, <1>7, <1>8 DEF Next, Step, Gone

\* Only a deletion takes a point away.
LEMMA StoredStays ==
    ASSUME IInv, [Next]_vars, NEW i \in Ids, Stored(i), ~Gone(i)
    PROVE  Stored(i)'
<1>1. ASSUME NEW c \in Clients, Invoke(c)
      PROVE  UNCHANGED points
  BY <1>1 DEF Invoke, remember, remember_batch, delete, storeVars
<1>2. ASSUME NEW c \in Clients, Resume(c)
      PROVE  \/ UNCHANGED points
             \/ UpdateTopic(c) \/ UpdateMetadataOnly(c) \/ AddNew(c) \/ BatchUpsert(c)
             \/ DeletePoint(c)
  BY <1>2 DEF Resume, FoundTopic, NoTopicFound, ReadRevision, UpdateReturn, FoundDuplicate,
              NoDuplicate, DedupMerge, StoredReturn, QueuedReturn, BatchReturn, DeleteFts,
              storeVars
<1>3. ASSUME NEW c \in Clients, UpdateTopic(c)
      PROVE  Stored(i)'
  <2>1. req[c].ver # 0
    BY <1>3 DEF IInv, RequestsHold, RequestHolds, UpdateTopic
  <2> QED BY <1>3, <2>1 DEF IInv, TypeOK, UpdateTopic, Stored
<1>4. ASSUME NEW c \in Clients, UpdateMetadataOnly(c)
      PROVE  Stored(i)'
  <2>1. points[i] \in Point
    BY DEF IInv, TypeOK
  <2> QED BY <1>4, <2>1 DEF UpdateMetadataOnly, Stored, Point
<1>5. ASSUME NEW c \in Clients, AddNew(c) \/ AddFails(c)
      PROVE  Stored(i)'
  <2>1. req[c].ver # 0
    BY <1>5 DEF IInv, RequestsHold, RequestHolds, AddNew, AddFails
  <2>2. \/ UNCHANGED points
        \/ \E k \in Ids : points' = [points EXCEPT ![k] = NewPoint(req[c].ver, req[c].topic)]
    BY <1>5 DEF AddNew, AddFails
  <2> QED BY <2>1, <2>2 DEF IInv, TypeOK, NewPoint, Stored
<1>6. ASSUME NEW c \in Clients, BatchUpsert(c)
      PROVE  Stored(i)'
  <2>1. req[c].ver # 0 /\ req[c].ver + 1 # 0
    BY <1>6 DEF IInv, TypeOK, Request, RequestsHold, RequestHolds, BatchUpsert
  <2> QED BY <1>6, <2>1 DEF IInv, TypeOK, BatchUpsert, NewPoint, Stored
<1>7. ASSUME NEW c \in Clients, DeletePoint(c)
      PROVE  Stored(i)'
  <2>1. i \notin Target(c)
    BY <1>7 DEF IInv, RequestsHold, RequestHolds, DeletePoint
  <2> QED BY <1>7, <2>1 DEF DeletePoint, Stored
<1>8. ASSUME NEW c \in Clients, Fail(c)
      PROVE  UNCHANGED points \/ AddFails(c)
  BY <1>8 DEF Fail, UpdateQueued, DedupMergeFails, RequestFails, storeVars
<1>9. CASE \E task \in ftsTasks : FtsInsert(task) \/ FtsInsertFails(task)
  BY <1>9 DEF FtsInsert, FtsInsertFails, Stored
<1>10. CASE DrainAdd
  <2>1. PICK k \in drain.batch :
           points' = [points EXCEPT ![k] = NewPoint(queue[k].item.ver, queue[k].item.topic)]
    BY <1>10 DEF DrainAdd, Oldest
  <2>2. queue[k].item.ver # 0
    BY DEF IInv, DrainHolds, QueueHolds
  <2> QED BY <2>1, <2>2 DEF IInv, TypeOK, NewPoint, Stored
<1>11. CASE DrainStep \/ DrainMarkFailed \/ DrainCancelled
  BY <1>10, <1>11 DEF DrainStep, DrainStart, DrainMarkDone, DrainMarkFailed, DrainCancelled,
                      storeVars, Stored
<1>12. CASE Crash \/ UNCHANGED vars
  BY <1>12 DEF Crash, vars, Stored
<1> QED BY <1>1, <1>2, <1>3, <1>4, <1>5, <1>6, <1>7, <1>8, <1>9, <1>11, <1>12
        DEF Next, Step, Stored

\* What stays stored and what stays deleted keeps a memory kept.
LEMMA KeptStays ==
    ASSUME IInv, [Next]_vars, NEW i \in Ids, Kept(i)
    PROVE  Kept(i)'
BY GoneStays, StoredStays DEF IInv, Kept

-----------------------------------------------------------------------------
(* The parts of the invariant, one by one *)

\* A request's step is its own.
LEMMA OthersWait ==
    ASSUME TypeOK, NEW c \in Clients, Invoke(c) \/ Resume(c) \/ Fail(c),
           NEW d \in Clients, d # c
    PROVE  req'[d] = req[d]
<1>1. ASSUME NEW at, GoTo(c, at)
      PROVE  req'[d] = req[d]
  BY <1>1 DEF TypeOK, GoTo
<1>2. ASSUME NEW at, NEW docs, NEW rev, GoWith(c, at, docs, rev)
      PROVE  req'[d] = req[d]
  BY <1>2 DEF TypeOK, GoWith
<1>3. CASE Idle(c)
  BY <1>3 DEF TypeOK, Idle
<1>4. CASE Invoke(c)
  BY <1>4 DEF TypeOK, Invoke, remember, remember_batch, delete
<1>5. CASE Resume(c)
  BY <1>1, <1>2, <1>3, <1>5 DEF
     Resume, FoundTopic, NoTopicFound, ReadRevision, UpdateTopic, UpdateReturn,
     UpdateMetadataOnly, FoundDuplicate, NoDuplicate, DedupMerge, AddNew, StoredReturn,
     QueuedReturn, BatchUpsert, BatchReturn, DeletePoint, DeleteFts
<1>6. CASE Fail(c)
  BY <1>1, <1>2, <1>3, <1>6 DEF Fail, UpdateQueued, DedupMergeFails, AddFails, RequestFails
<1> QED BY <1>4, <1>5, <1>6

\* A request that goes on about the same memories keeps what holds of them.
LEMMA GoToHolds ==
    ASSUME IInv, [Next]_vars, NEW c \in Clients, NEW at \in Steps, GoTo(c, at),
           at # "failed", req[c].ver # 0 \/ at = "delfts",
           at \in {"uread", "uembed", "uwritten", "umeta", "merge", "stored", "bstored"}
              => \A i \in Target(c) : Kept(i),
           at \in {"del", "delfts"} => \A i \in Target(c) : Gone(i)
    PROVE  RequestHolds(c)'
<1>1. Target(c) \subseteq Ids
  BY TargetType DEF IInv, TypeOK
<1>2. /\ req'[c].at = at
      /\ req'[c].ver = req[c].ver
      /\ Target(c)' = Target(c)
  BY DEF IInv, TypeOK, GoTo, Request, Target
<1> QED BY <1>1, <1>2, KeptStays, GoneStays DEF IInv, RequestHolds

\* So does one that goes on about others, if it holds of those.
LEMMA GoWithHolds ==
    ASSUME IInv, [Next]_vars, NEW c \in Clients, NEW at \in Steps \ {"del", "delfts"},
           NEW docs, NEW rev, GoWith(c, at, docs, rev), req[c].ver # 0,
           at \in {"uread", "uembed", "uwritten", "umeta", "merge", "stored", "bstored"}
              => \A d \in docs : Kept(d[1])',
           at = "failed" => \A d, e \in docs : d = e
    PROVE  RequestHolds(c)'
<1>1. /\ req'[c].at = at
      /\ req'[c].ver = req[c].ver
      /\ req'[c].docs = docs
  BY DEF IInv, TypeOK, GoWith, Request
<1>2. Target(c)' = {d[1] : d \in docs}
  BY <1>1 DEF Target
<1> QED BY <1>1, <1>2 DEF RequestHolds

\* Nothing is claimed of a request that has ended.
LEMMA IdleHolds ==
    ASSUME TypeOK, NEW c \in Clients, Idle(c)
    PROVE  RequestHolds(c)'
<1>1. req'[c].at = "idle"
  BY DEF TypeOK, Idle, NoRequest, NewRequest
<1> QED BY <1>1 DEF RequestHolds

\* What requests rely on survives the steps of the topic-key upsert.
LEMMA RequestsHoldUpdate ==
    ASSUME IInv, [Next]_vars, NEW c \in Clients,
           FoundTopic(c) \/ NoTopicFound(c) \/ ReadRevision(c) \/ UpdateTopic(c)
           \/ UpdateReturn(c) \/ UpdateMetadataOnly(c) \/ UpdateQueued(c)
    PROVE  RequestHolds(c)'
<1> USE DEF IInv
<1>1. RequestHolds(c)
  BY DEF RequestsHold
<1>2. CASE FoundTopic(c)
  <2>1. PICK i \in Ids : Stored(i) /\ GoWith(c, "uread", {<<i, req[c].ver>>}, 0)
    BY <1>2 DEF FoundTopic
  <2>2. Kept(i)'
    BY <2>1, KeptStays DEF Kept
  <2>3. req[c].ver # 0
    BY <1>1, <1>2 DEF FoundTopic, RequestHolds
  <2> QED BY <2>1, <2>2, <2>3, GoWithHolds DEF Steps
<1>3. CASE NoTopicFound(c)
  BY <1>1, <1>3, GoToHolds DEF NoTopicFound, RequestHolds, AfterFind, Steps
<1>4. CASE ReadRevision(c)
  <2>1. \A d \in req[c].docs : Kept(d[1])'
    BY <1>1, <1>4, TargetType, KeptStays DEF ReadRevision, RequestHolds, Target, TypeOK
  <2> QED BY <1>1, <1>4, <2>1, GoWithHolds DEF ReadRevision, RequestHolds, Steps
<1>5. CASE UpdateTopic(c)
  BY <1>1, <1>5, GoToHolds DEF UpdateTopic, RequestHolds, Steps
<1>6. CASE UpdateReturn(c) \/ UpdateMetadataOnly(c)
  BY <1>6, IdleHolds DEF UpdateReturn, UpdateMetadataOnly
<1>7. CASE UpdateQueued(c)
  BY <1>1, <1>7, GoToHolds DEF UpdateQueued, RequestHolds, Steps
<1> QED BY <1>2, <1>3, <1>4, <1>5, <1>6, <1>7

\* It survives the steps that store a new memory or a batch.
LEMMA RequestsHoldNew ==
    ASSUME IInv, [Next]_vars, NEW c \in Clients,
           FoundDuplicate(c) \/ NoDuplicate(c) \/ DedupMerge(c) \/ DedupMergeFails(c)
           \/ AddNew(c) \/ AddFails(c) \/ StoredReturn(c) \/ QueuedReturn(c)
           \/ BatchUpsert(c) \/ BatchReturn(c)
    PROVE  RequestHolds(c)'
<1> USE DEF IInv
<1>1. RequestHolds(c)
  BY DEF RequestsHold
<1>2. CASE FoundDuplicate(c)
  <2>1. PICK i \in Ids : Stored(i) /\ GoWith(c, "merge", {<<i, req[c].ver>>}, 0)
    BY <1>2 DEF FoundDuplicate
  <2>2. Kept(i)'
    BY <2>1, KeptStays DEF Kept
  <2>3. req[c].ver # 0
    BY <1>1, <1>2 DEF FoundDuplicate, RequestHolds
  <2> QED BY <2>1, <2>2, <2>3, GoWithHolds DEF Steps
<1>3. CASE NoDuplicate(c)
  BY <1>1, <1>3, GoToHolds DEF NoDuplicate, RequestHolds, Steps
<1>4. CASE DedupMergeFails(c)
  BY <1>1, <1>4, GoWithHolds DEF DedupMergeFails, RequestHolds, Steps
<1>5. CASE AddNew(c)
  <2>1. PICK i \in Ids :
           /\ points' = [points EXCEPT ![i] = NewPoint(req[c].ver, req[c].topic)]
           /\ GoWith(c, "stored", {<<i, req[c].ver>>}, 0)
    BY <1>5 DEF AddNew
  <2>2. req[c].ver # 0
    BY <1>1, <1>5 DEF AddNew, RequestHolds
  <2>3. Kept(i)'
    BY <2>1, <2>2 DEF Kept, Stored, NewPoint, TypeOK
  <2> QED BY <2>1, <2>2, <2>3, GoWithHolds DEF Steps
<1>6. CASE AddFails(c)
  <2>1. PICK i \in Ids : GoWith(c, "failed", {<<i, req[c].ver>>}, 0)
    BY <1>6 DEF AddFails
  <2> QED BY <1>1, <1>6, <2>1, GoWithHolds DEF AddFails, RequestHolds, Steps
<1>7. CASE BatchUpsert(c)
  <2> DEFINE v == req[c].ver
  <2>1. PICK i \in Ids \ used, j \in Ids \ used :
           /\ points' = [points EXCEPT ![i] = NewPoint(v, NoTopic), ![j] = NewPoint(v + 1, NoTopic)]
           /\ GoWith(c, "bstored", {<<i, v>>, <<j, v + 1>>}, 0)
    BY <1>7 DEF BatchUpsert
  <2>2. v # 0 /\ v + 1 # 0
    BY <1>1, <1>7 DEF BatchUpsert, RequestHolds, TypeOK, Request
  <2>3. Kept(i)' /\ Kept(j)'
    BY <2>1, <2>2 DEF Kept, Stored, NewPoint, TypeOK
  <2> QED BY <2>1, <2>2, <2>3, GoWithHolds DEF Steps
<1>8. CASE DedupMerge(c) \/ StoredReturn(c) \/ QueuedReturn(c) \/ BatchReturn(c)
  BY <1>8, IdleHolds DEF DedupMerge, StoredReturn, QueuedReturn, BatchReturn
<1> QED BY <1>2, <1>3, <1>4, <1>5, <1>6, <1>7, <1>8

\* It survives admissions, deletes and failures.
LEMMA RequestsHoldOther ==
    ASSUME IInv, [Next]_vars, NEW c \in Clients,
           Invoke(c) \/ DeletePoint(c) \/ DeleteFts(c) \/ RequestFails(c)
    PROVE  RequestHolds(c)'
<1> USE DEF IInv
<1>1. CASE \E t \in Topic : remember(c, t)
  <2>1. req'[c].at \in {"find", "dedup", "embed"} /\ req'[c].ver = ver + 1
    BY <1>1 DEF remember, NewRequest, AfterFind, TypeOK
  <2> QED BY <2>1 DEF RequestHolds, TypeOK
<1>2. CASE remember_batch(c)
  <2>1. req'[c].at = "bembed" /\ req'[c].ver = ver + 1
    BY <1>2 DEF remember_batch, NewRequest, TypeOK
  <2> QED BY <2>1 DEF RequestHolds, TypeOK
<1>3. CASE \E i \in Ids : delete(c, i)
  <2>1. PICK i \in Ids : delete(c, i)
    BY <1>3
  <2>2. req'[c].at = "del" /\ req'[c].docs = {<<i, 0>>}
    BY <2>1 DEF delete, NewRequest, TypeOK
  <2>3. Target(c)' = {i}
    BY <2>2 DEF Target
  <2>4. Gone(i)'
    BY <2>1 DEF delete, Gone, TypeOK
  <2> QED BY <2>2, <2>3, <2>4 DEF RequestHolds
<1>4. CASE DeletePoint(c)
  BY <1>4, GoToHolds DEF DeletePoint, RequestsHold, RequestHolds, Steps
<1>5. CASE DeleteFts(c) \/ RequestFails(c)
  BY <1>5, IdleHolds DEF DeleteFts, RequestFails
<1> QED BY <1>1, <1>2, <1>3, <1>4, <1>5 DEF Invoke

\* What requests rely on survives every step.
LEMMA RequestsHoldInductive ==
    ASSUME IInv, [Next]_vars
    PROVE  RequestsHold'
<1>1. ASSUME NEW c \in Clients, req'[c] = req[c]
      PROVE  RequestHolds(c)'
  <2>1. RequestHolds(c) /\ Target(c)' = Target(c) /\ Target(c) \subseteq Ids
    BY <1>1, TargetType DEF IInv, TypeOK, RequestsHold, Target
  <2> QED BY <1>1, <2>1, KeptStays, GoneStays DEF IInv, RequestHolds
<1>2. ASSUME NEW c \in Clients, Invoke(c) \/ Resume(c) \/ Fail(c)
      PROVE  RequestsHold'
  <2>1. RequestHolds(c)'
    BY <1>2, RequestsHoldUpdate, RequestsHoldNew, RequestsHoldOther DEF Resume, Fail
  <2>2. \A d \in Clients : d # c => req'[d] = req[d]
    BY <1>2, OthersWait DEF IInv
  <2> QED BY <1>1, <2>1, <2>2 DEF RequestsHold
<1>3. CASE UNCHANGED req
  BY <1>1, <1>3 DEF RequestsHold
<1>4. CASE \E task \in ftsTasks : FtsInsert(task) \/ FtsInsertFails(task)
  BY <1>3, <1>4 DEF FtsInsert, FtsInsertFails
<1>5. CASE DrainStep \/ DrainMarkFailed \/ DrainCancelled
  BY <1>3, <1>5 DEF DrainStep, DrainStart, DrainAdd, DrainMarkDone, DrainMarkFailed,
                    DrainCancelled
<1>6. CASE Crash
  <2>1. \A c \in Clients : req'[c].at = "idle"
    BY <1>6 DEF Crash, NoRequest, NewRequest
  <2> QED BY <2>1 DEF RequestsHold, RequestHolds
<1>7. CASE UNCHANGED vars
  BY <1>3, <1>7 DEF vars
<1> QED BY <1>2, <1>4, <1>5, <1>6, <1>7 DEF Next, Step

\* What one step may do to the retry queue.
QueueStep ==
    \/ UNCHANGED queue
    \/ \E i \in Ids : \/ \E item \in Item : item.ver # 0 /\ enqueue(i, item)
                      \/ Kept(i) /\ mark_done(i)
                      \/ mark_failed(i)

\* What an enqueue carries, and what a row marked done relies on.
LEMMA QueueSteps ==
    ASSUME IInv, [Next]_vars
    PROVE  QueueStep
<1>0. UNCHANGED queue => QueueStep
  BY DEF QueueStep
<1>1. ASSUME NEW c \in Clients, Invoke(c)
      PROVE  UNCHANGED queue
  BY <1>1 DEF Invoke, remember, remember_batch, delete
<1>2. ASSUME NEW c \in Clients, Resume(c)
      PROVE  UNCHANGED queue \/ QueuedReturn(c)
  BY <1>2 DEF Resume, FoundTopic, NoTopicFound, ReadRevision, UpdateTopic, UpdateReturn,
              UpdateMetadataOnly, FoundDuplicate, NoDuplicate, DedupMerge, AddNew,
              StoredReturn, BatchUpsert, BatchReturn, DeletePoint, DeleteFts
<1>3. ASSUME NEW c \in Clients, Fail(c)
      PROVE  UNCHANGED queue \/ UpdateQueued(c)
  BY <1>3 DEF Fail, DedupMergeFails, AddFails, RequestFails
<1>4. ASSUME NEW c \in Clients, QueuedReturn(c) \/ UpdateQueued(c)
      PROVE  QueueStep
  <2> DEFINE item == [ver |-> req[c].ver, topic |-> req[c].topic]
  <2>1. item \in Item
    BY DEF IInv, TypeOK, Request, Item
  <2>2. item.ver # 0
    BY <1>4 DEF IInv, RequestsHold, RequestHolds, QueuedReturn, UpdateQueued
  <2>3. UNCHANGED queue \/ \E i \in Ids : enqueue(i, item)
    BY <1>4, TargetType DEF IInv, TypeOK, QueuedReturn, UpdateQueued
  <2>4. ASSUME NEW i \in Ids, enqueue(i, item)
        PROVE  QueueStep
    <3>1. \E x \in Item : x.ver # 0 /\ enqueue(i, x)
      BY <2>1, <2>2, <2>4, Zenon
    <3> QED BY <3>1 DEF QueueStep
  <2> QED BY <1>0, <2>3, <2>4
<1>5. CASE \E task \in ftsTasks : FtsInsert(task) \/ FtsInsertFails(task)
  BY <1>0, <1>5 DEF FtsInsert, FtsInsertFails
<1>6. CASE DrainMarkDone
  BY <1>6 DEF QueueStep, DrainMarkDone, IInv, DrainHolds, TypeOK, Drain
<1>7. CASE DrainMarkFailed
  BY <1>7 DEF QueueStep, DrainMarkFailed, Oldest, IInv, TypeOK, Drain
<1>8. CASE DrainStep \/ DrainCancelled
  BY <1>0, <1>6, <1>8 DEF DrainStep, DrainStart, DrainAdd, DrainCancelled
<1>9. CASE Crash \/ UNCHANGED vars
  BY <1>0, <1>9 DEF Crash, vars
<1> QED BY <1>0, <1>1, <1>2, <1>3, <1>4, <1>5, <1>7, <1>8, <1>9 DEF Next, Step

\* Rows are never taken out of the table.
LEMMA QueueHoldsInductive ==
    ASSUME IInv, [Next]_vars
    PROVE  QueueHolds' /\ Rows \subseteq Rows'
<1> USE DEF IInv, TypeOK
<1>1. \A i \in Ids : Kept(i) => Kept(i)'
  BY KeptStays
<1>2. \A i \in Rows : queue[i].item.ver # 0 /\ (queue[i].status = "done" => Kept(i)')
  BY <1>1 DEF QueueHolds, Rows
<1>3. CASE UNCHANGED queue
  BY <1>2, <1>3 DEF QueueHolds, Rows
<1>4. ASSUME NEW i \in Ids, NEW item \in Item, item.ver # 0, enqueue(i, item)
      PROVE  QueueHolds' /\ Rows \subseteq Rows'
  BY <1>2, <1>4 DEF enqueue, QueueHolds, Rows
<1>5. ASSUME NEW i \in Ids, Kept(i), mark_done(i)
      PROVE  QueueHolds' /\ Rows \subseteq Rows'
  BY <1>1, <1>2, <1>5 DEF mark_done, QueueHolds, Rows, Row
<1>6. ASSUME NEW i \in Ids, mark_failed(i)
      PROVE  QueueHolds' /\ Rows \subseteq Rows'
  <2> DEFINE row == Retried(queue[i], MaxRetries)
  <2>1. row.status \in {"pending", "failed"} /\ row.item = queue[i].item
    BY DEF Retried
  <2>2. queue' = IF i \in Rows THEN [queue EXCEPT ![i] = row] ELSE queue
    BY <1>6 DEF mark_failed
  <2> HIDE DEF row
  <2> QED BY <1>2, <2>1, <2>2 DEF QueueHolds, Rows
<1> QED BY <1>3, <1>4, <1>5, <1>6, QueueSteps DEF QueueStep

\* What the drain relies on survives every step, cancellation and crash included.
LEMMA DrainHoldsInductive ==
    ASSUME IInv, [Next]_vars
    PROVE  DrainHolds'
<1> USE DEF IInv
<1>1. Rows \subseteq Rows'
  BY QueueHoldsInductive
<1>2. ASSUME UNCHANGED drain
      PROVE  DrainHolds'
  BY <1>1, <1>2, KeptStays DEF DrainHolds, TypeOK, Drain
<1>3. ASSUME NEW c \in Clients, Invoke(c) \/ Resume(c) \/ Fail(c)
      PROVE  UNCHANGED drain
  <2>1. CASE Invoke(c)
    BY <2>1 DEF Invoke, remember, remember_batch, delete
  <2>2. CASE Resume(c)
    BY <2>2 DEF Resume, FoundTopic, NoTopicFound, ReadRevision, UpdateTopic, UpdateReturn,
                UpdateMetadataOnly, FoundDuplicate, NoDuplicate, DedupMerge, AddNew,
                StoredReturn, QueuedReturn, BatchUpsert, BatchReturn, DeletePoint, DeleteFts
  <2>3. CASE Fail(c)
    BY <2>3 DEF Fail, UpdateQueued, DedupMergeFails, AddFails, RequestFails
  <2> QED BY <1>3, <2>1, <2>2, <2>3
<1>4. CASE \E task \in ftsTasks : FtsInsert(task) \/ FtsInsertFails(task)
  BY <1>2, <1>4 DEF FtsInsert, FtsInsertFails
<1>5. CASE DrainStart
  BY <1>5 DEF DrainStart, dequeue_batch, Eligible, Rows, DrainHolds
<1>6. CASE DrainAdd
  <2>1. PICK k \in drain.batch :
           /\ points' = [points EXCEPT ![k] = NewPoint(queue[k].item.ver, queue[k].item.topic)]
           /\ drain' = [drain EXCEPT !.at = "added", !.cur = {k}]
    BY <1>6 DEF DrainAdd, Oldest
  <2>2. queue[k].item.ver # 0 /\ k \in Ids
    BY DEF DrainHolds, QueueHolds, Rows
  <2>3. Kept(k)'
    BY <2>1, <2>2 DEF TypeOK, Kept, Stored, NewPoint
  <2>4. drain'.batch = drain.batch /\ drain'.cur = {k}
    BY <2>1 DEF TypeOK, Drain
  <2> QED BY <1>1, <2>3, <2>4 DEF DrainHolds
<1>7. ASSUME NEW i, NextItem(i)
      PROVE  DrainHolds'
  BY <1>1, <1>7 DEF NextItem, NoDrain, DrainHolds
<1>8. CASE DrainMarkDone \/ DrainMarkFailed
  BY <1>7, <1>8 DEF DrainMarkDone, DrainMarkFailed
<1>9. CASE DrainCancelled \/ Crash
  BY <1>9 DEF DrainCancelled, Crash, NoDrain, DrainHolds
<1>10. CASE UNCHANGED vars
  BY <1>2, <1>10 DEF vars
<1> QED BY <1>2, <1>3, <1>4, <1>5, <1>6, <1>8, <1>9, <1>10 DEF Next, Step, DrainStep

\* A step that enqueues for i, or a request past the point where it stored i.
Accepting(i) ==
    \E c \in Clients :
        /\ i \in Target(c)
        /\ \/ req[c].at \in {"uwritten", "umeta", "merge", "stored", "bstored"}
           \/ req[c].at = "failed" /\ \E k \in Target(c), item \in Item : enqueue(k, item)

\* Whoever is told that a memory is live is told so by a request that holds it.
LEMMA AcceptingStep ==
    ASSUME IInv, [Next]_vars, NEW i \in Ids, fate[i] # "live", fate'[i] = "live"
    PROVE  Accepting(i)
<1> USE DEF IInv
<1>1. ASSUME NEW c \in Clients, Invoke(c) \/ DeleteFts(c)
      PROVE  FALSE
  BY <1>1 DEF TypeOK, Invoke, remember, remember_batch, delete, DeleteFts, storeVars
<1>2. ASSUME NEW c \in Clients, NEW what \in {"live", "unsaved"}, Tell(c, what)
      PROVE  i \in Target(c) /\ what = "live"
  BY <1>2 DEF TypeOK, Tell
<1>3. ASSUME NEW c \in Clients,
             UpdateReturn(c) \/ UpdateMetadataOnly(c) \/ DedupMerge(c) \/ StoredReturn(c)
             \/ BatchReturn(c)
      PROVE  Accepting(i)
  BY <1>2, <1>3 DEF UpdateReturn, UpdateMetadataOnly, DedupMerge, StoredReturn, BatchReturn,
                    Acknowledge, Accepting
<1>4. ASSUME NEW c \in Clients, QueuedReturn(c)
      PROVE  Accepting(i)
  <2>1. [ver |-> req[c].ver, topic |-> req[c].topic] \in Item
    BY DEF TypeOK, Request, Item
  <2>2. ~Tell(c, "unsaved")
    BY <1>2
  <2>3. /\ req[c].at = "failed"
        /\ Tell(c, "live")
        /\ \E k \in Target(c) : enqueue(k, [ver |-> req[c].ver, topic |-> req[c].topic])
    BY <1>4, <2>2 DEF QueuedReturn, Acknowledge
  <2> QED BY <1>2, <2>1, <2>3 DEF Accepting
<1>5. ASSUME NEW c \in Clients, Resume(c)
      PROVE  Accepting(i)
  <2>1. CASE UNCHANGED fate
    BY <2>1
  <2> QED BY <1>1, <1>3, <1>4, <1>5, <2>1 DEF
          Resume, FoundTopic, NoTopicFound, ReadRevision, UpdateTopic, FoundDuplicate,
          NoDuplicate, AddNew, BatchUpsert, DeletePoint, storeVars
<1>6. ASSUME NEW c \in Clients, Fail(c)
      PROVE  FALSE
  BY <1>6 DEF Fail, UpdateQueued, DedupMergeFails, AddFails, RequestFails, storeVars
<1>7. CASE \E task \in ftsTasks : FtsInsert(task) \/ FtsInsertFails(task)
  BY <1>7 DEF FtsInsert, FtsInsertFails
<1>8. CASE DrainStep \/ DrainMarkFailed \/ DrainCancelled
  BY <1>8 DEF DrainStep, DrainStart, DrainAdd, DrainMarkDone, DrainMarkFailed, DrainCancelled,
              storeVars
<1>9. CASE Crash \/ UNCHANGED vars
  BY <1>9 DEF Crash, vars
<1> HIDE DEF IInv
<1>10. ASSUME NEW c \in Clients, Invoke(c) \/ Resume(c) \/ Fail(c)
      PROVE  Accepting(i)
  BY <1>1, <1>5, <1>6, <1>10, Zenon
<1>11. Accepting(i)
  BY <1>7, <1>8, <1>9, <1>10, Zenon DEF Next, Step
<1> QED BY <1>11

\* An accepted memory is in the collection or in the queue after every step.
LEMMA AcceptedInductive ==
    ASSUME IInv, [Next]_vars
    PROVE  AcceptedDurable'
<1> SUFFICES ASSUME NEW i \in Ids, fate'[i] = "live"
             PROVE  Stored(i)' \/ queue'[i].status \in {"pending", "failed"}
  BY DEF AcceptedDurable
<1> USE DEF IInv
<1>1. Kept(i) => Stored(i)'
  BY KeptStays DEF Kept, Gone
<1>2. CASE Kept(i)
  BY <1>1, <1>2
<1>3. CASE fate[i] = "live" /\ ~Kept(i)
  <2>1. queue[i].status \in {"pending", "failed"}
    BY <1>3 DEF AcceptedDurable, Kept
  <2>2. ASSUME NEW k \in Ids, NEW item \in Item, enqueue(k, item)
        PROVE  queue'[i].status \in {"pending", "failed"}
    BY <2>1, <2>2 DEF enqueue, Rows, TypeOK
  <2>3. ASSUME NEW k \in Ids, Kept(k), mark_done(k)
        PROVE  queue'[i].status \in {"pending", "failed"}
    BY <1>3, <2>1, <2>3 DEF mark_done, TypeOK
  <2>4. ASSUME NEW k \in Ids, mark_failed(k)
        PROVE  queue'[i].status \in {"pending", "failed"}
    <3>1. Retried(queue[k], MaxRetries).status \in {"pending", "failed"}
      BY DEF Retried
    <3> QED BY <2>1, <2>4, <3>1 DEF mark_failed, TypeOK
  <2> QED BY <2>1, <2>2, <2>3, <2>4, QueueSteps DEF QueueStep
<1>4. CASE fate[i] # "live" /\ ~Kept(i)
  <2>1. PICK c \in Clients :
           /\ i \in Target(c)
           /\ \/ req[c].at \in {"uwritten", "umeta", "merge", "stored", "bstored"}
              \/ req[c].at = "failed" /\ \E k \in Target(c), item \in Item : enqueue(k, item)
    BY <1>4, AcceptingStep DEF Accepting
  <2>2. req[c].at = "failed" /\ \E item \in Item : enqueue(i, item)
    BY <1>4, <2>1 DEF RequestsHold, RequestHolds
  <2>3. CASE i \notin Rows
    BY <2>2, <2>3 DEF enqueue, TypeOK
  <2>4. CASE i \in Rows
    BY <1>4, <2>2, <2>4 DEF enqueue, QueueHolds, Rows, TypeOK, Row
  <2> QED BY <2>3, <2>4
<1> QED BY <1>2, <1>3, <1>4

\* The strengthened invariant survives every step.
LEMMA IInvInductive == IInv /\ [Next]_vars => IInv'
<1> SUFFICES ASSUME IInv, [Next]_vars
             PROVE  IInv'
  OBVIOUS
<1>1. TypeOK'
  BY TypeInductive DEF IInv
<1> QED BY <1>1, RequestsHoldInductive, QueueHoldsInductive, DrainHoldsInductive,
           AcceptedInductive DEF IInv

\* A memory whose id remember() or remember_batch() returned as accepted stays in the
\* collection or in the retry queue until somebody asks to delete it, for any number of
\* concurrent callers, failures, lost replies, cancelled drains and crashes.
THEOREM AcceptedAreDurable == Spec => []AcceptedDurable
<1>1. IInv => AcceptedDurable
  BY DEF IInv
<1> QED BY <1>1, IInvInit, IInvInductive, PTL DEF Spec

-----------------------------------------------------------------------------
(* Deleted memories come back by two ways only.  A new memory's id must be *)
(* one nobody was ever told, and the drain must hold pending rows only.    *)

\* Whatever is stored, queued, known to a caller or worked on has an id uuid4() returned.
UsedHolds ==
    /\ \A i \in Ids : Stored(i) \/ fate[i] # "unknown" \/ i \in Rows => i \in used
    /\ \A c \in Clients : Target(c) \subseteq used

\* The rows of the drain's batch stay pending until it is done with them.
BatchPending ==
    /\ \A i \in drain.batch : queue[i].status = "pending"
    /\ drain.cur \subseteq drain.batch

\* Who brings a point into the collection: a topic update, a new memory or the drain.
LEMMA StoringStep ==
    ASSUME TypeOK, [Next]_vars, NEW i \in Ids, ~Stored(i), Stored(i)'
    PROVE  \/ \E c \in Clients : req[c].at = "uembed" /\ i \in Target(c)
           \/ i \in used' \ used
           \/ drain.at = "item" /\ i \in drain.batch
<1>1. ASSUME NEW c \in Clients, Invoke(c) \/ Fail(c)
      PROVE  AddFails(c)
  BY <1>1 DEF Invoke, remember, remember_batch, delete, Fail, UpdateQueued, DedupMergeFails,
              RequestFails, storeVars, Stored
<1>2. ASSUME NEW c \in Clients, Resume(c)
      PROVE  \/ UpdateTopic(c) \/ UpdateMetadataOnly(c) \/ AddNew(c) \/ BatchUpsert(c)
             \/ DeletePoint(c)
  BY <1>2 DEF Resume, FoundTopic, NoTopicFound, ReadRevision, UpdateReturn, FoundDuplicate,
              NoDuplicate, DedupMerge, StoredReturn, QueuedReturn, BatchReturn, DeleteFts,
              storeVars, Stored
<1>3. ASSUME NEW c \in Clients, UpdateTopic(c)
      PROVE  req[c].at = "uembed" /\ i \in Target(c)
  BY <1>3 DEF UpdateTopic, Stored
<1>4. ASSUME NEW c \in Clients, UpdateMetadataOnly(c) \/ DeletePoint(c)
      PROVE  FALSE
  <2>1. CASE UpdateMetadataOnly(c)
    BY <2>1 DEF UpdateMetadataOnly, Stored
  <2>2. CASE DeletePoint(c)
    BY <2>2 DEF DeletePoint, Stored, NoPoint
  <2> QED BY <1>4, <2>1, <2>2
<1>5. ASSUME NEW c \in Clients, AddNew(c) \/ AddFails(c)
      PROVE  i \in used' \ used
  <2>1. PICK k \in Ids \ used :
           /\ used' = used \cup {k}
           /\ points' \in {points, [points EXCEPT ![k] = NewPoint(req[c].ver, req[c].topic)]}
    BY <1>5 DEF AddNew, AddFails
  <2> QED BY <2>1 DEF TypeOK, Stored
<1>6. ASSUME NEW c \in Clients, BatchUpsert(c)
      PROVE  i \in used' \ used
  BY <1>6 DEF BatchUpsert, TypeOK, Stored
<1>7. CASE \E task \in ftsTasks : FtsInsert(task) \/ FtsInsertFails(task)
  BY <1>7 DEF FtsInsert, FtsInsertFails, Stored
<1>8. CASE DrainAdd
  BY <1>8 DEF DrainAdd, Oldest, TypeOK, Stored
<1>9. CASE DrainStep \/ DrainMarkFailed \/ DrainCancelled
  BY <1>8, <1>9 DEF DrainStep, DrainStart, DrainMarkDone, DrainMarkFailed, DrainCancelled,
                    storeVars, Stored
<1>10. CASE Crash \/ UNCHANGED vars
  BY <1>10 DEF Crash, vars, Stored
<1> QED BY <1>1, <1>2, <1>3, <1>4, <1>5, <1>6, <1>7, <1>9, <1>10 DEF Next, Step

\* Ids are never given back.
LEMMA UsedGrows ==
    ASSUME [Next]_vars
    PROVE  used \subseteq used'
<1>1. ASSUME NEW c \in Clients, Invoke(c) \/ Resume(c) \/ Fail(c)
      PROVE  used \subseteq used'
  BY <1>1 DEF Invoke, remember, remember_batch, delete, Resume, FoundTopic, NoTopicFound,
     ReadRevision, UpdateTopic, UpdateReturn, UpdateMetadataOnly, FoundDuplicate, NoDuplicate,
     DedupMerge, AddNew, StoredReturn, QueuedReturn, BatchUpsert, BatchReturn, DeletePoint,
     DeleteFts, Fail, UpdateQueued, DedupMergeFails, AddFails, RequestFails, storeVars
<1> QED BY <1>1 DEF Next, Step, FtsInsert, FtsInsertFails, DrainStep, DrainStart, DrainAdd,
     DrainMarkDone, DrainMarkFailed, DrainCancelled, Crash, storeVars, vars

\* A request turns only to memories that are stored, known, or made by this step.
LEMMA TargetStep ==
    ASSUME TypeOK, [Next]_vars, NEW c \in Clients, NEW i \in Target(c)'
    PROVE  \/ i \in Target(c)
           \/ i \in Ids /\ (Stored(i) \/ fate[i] # "unknown")
           \/ i \in used'
<1>1. CASE req'[c].docs = req[c].docs
  BY <1>1 DEF Target
<1>2. CASE Idle(c)
  BY <1>2 DEF Idle, NoRequest, NewRequest, TypeOK, Target
<1>3. ASSUME NEW at, GoTo(c, at)
      PROVE  req'[c].docs = req[c].docs
  BY <1>3 DEF TypeOK, GoTo, Request
<1>4. ASSUME NEW at, NEW docs, NEW rev, GoWith(c, at, docs, rev)
      PROVE  Target(c)' = {d[1] : d \in docs}
  BY <1>4 DEF TypeOK, GoWith, Target
<1>5. CASE \E t \in Topic : remember(c, t)
  BY <1>5 DEF remember, NewRequest, TypeOK, Target
<1>6. CASE remember_batch(c)
  BY <1>6 DEF remember_batch, NewRequest, TypeOK, Target
<1>7. CASE \E k \in Ids : delete(c, k)
  <2>1. PICK k \in Ids : delete(c, k)
    BY <1>7
  <2>2. Target(c)' = {k}
    BY <2>1 DEF delete, NewRequest, TypeOK, Target
  <2> QED BY <2>1, <2>2 DEF delete
<1>8. CASE FoundTopic(c) \/ FoundDuplicate(c)
  <2>1. PICK k \in Ids, at \in Steps : Stored(k) /\ GoWith(c, at, {<<k, req[c].ver>>}, 0)
    BY <1>8 DEF FoundTopic, FoundDuplicate, Steps
  <2> QED BY <1>4, <2>1
<1>9. CASE ReadRevision(c)
  <2>1. Target(c)' = Target(c)
    BY <1>4, <1>9 DEF ReadRevision, Target
  <2> QED BY <2>1
<1>10. CASE DedupMergeFails(c)
  BY <1>4, <1>10 DEF DedupMergeFails
<1>11. CASE AddNew(c) \/ AddFails(c)
  <2>1. PICK k \in Ids, at \in Steps :
          k \in used' /\ GoWith(c, at, {<<k, req[c].ver>>}, 0)
    BY <1>11 DEF AddNew, AddFails, Steps
  <2> QED BY <1>4, <2>1
<1>12. CASE BatchUpsert(c)
  BY <1>4, <1>12 DEF BatchUpsert
<1>13. CASE Resume(c) \/ Fail(c)
  BY <1>1, <1>2, <1>3, <1>8, <1>9, <1>10, <1>11, <1>12, <1>13
     DEF Resume, NoTopicFound, UpdateTopic, UpdateReturn, UpdateMetadataOnly, NoDuplicate,
         DedupMerge, StoredReturn, QueuedReturn, BatchReturn, DeletePoint, DeleteFts,
         Fail, UpdateQueued, RequestFails
<1>14. CASE Invoke(c)
  BY <1>5, <1>6, <1>7, <1>14 DEF Invoke
<1>15. ASSUME NEW d \in Clients, d # c, Invoke(d) \/ Resume(d) \/ Fail(d)
       PROVE  i \in Target(c)
  BY <1>1, <1>15, OthersWait DEF Target
<1>16. CASE UNCHANGED req
  BY <1>16 DEF Target
<1>17. CASE Crash
  BY <1>17 DEF Crash, NoRequest, NewRequest, Target
<1>18. CASE (\E task \in ftsTasks : FtsInsert(task) \/ FtsInsertFails(task)) \/ UNCHANGED vars
  BY <1>16, <1>18 DEF FtsInsert, FtsInsertFails, vars
<1>19. CASE DrainStep \/ DrainMarkFailed \/ DrainCancelled
  BY <1>16, <1>19 DEF DrainStep, DrainStart, DrainAdd, DrainMarkDone, DrainMarkFailed,
                      DrainCancelled
<1> QED BY <1>13, <1>14, <1>15, <1>17, <1>18, <1>19 DEF Next, Step

\* A caller is told about the memories of its own request, and deletes what it knows.
LEMMA FateStep ==
    ASSUME TypeOK, [Next]_vars, NEW i \in Ids, fate[i] = "unknown", fate'[i] # "unknown"
    PROVE  Stored(i) \/ \E c \in Clients : i \in Target(c)
<1>1. ASSUME NEW c \in Clients, Invoke(c)
      PROVE  Stored(i)
  BY <1>1 DEF Invoke, remember, remember_batch, delete, TypeOK, storeVars
<1>2. ASSUME NEW c \in Clients, NEW what, Tell(c, what)
      PROVE  i \in Target(c)
  BY <1>2 DEF TypeOK, Tell
<1>3. ASSUME NEW c \in Clients, DeleteFts(c)
      PROVE  i \in Target(c)
  BY <1>3 DEF DeleteFts, TypeOK
<1>4. ASSUME NEW c \in Clients, Resume(c) \/ Fail(c)
      PROVE  i \in Target(c)
  <2>1. ~UNCHANGED fate
    OBVIOUS
  <2> QED BY <1>2, <1>3, <1>4, <2>1 DEF
     Resume, FoundTopic, NoTopicFound, ReadRevision, UpdateTopic, UpdateReturn,
     UpdateMetadataOnly, FoundDuplicate, NoDuplicate, DedupMerge, AddNew, StoredReturn,
     QueuedReturn, BatchUpsert, BatchReturn, DeletePoint, Acknowledge,
     Fail, UpdateQueued, DedupMergeFails, AddFails, RequestFails, storeVars
<1> QED BY <1>1, <1>4 DEF Next, Step, FtsInsert, FtsInsertFails, DrainStep, DrainStart,
     DrainAdd, DrainMarkDone, DrainMarkFailed, DrainCancelled, Crash, storeVars, vars

\* A row is made by a request whose embedding or write of the memory failed.
LEMMA RowStep ==
    ASSUME TypeOK, [Next]_vars, NEW i \in Rows', i \notin Rows
    PROVE  \E c \in Clients : req[c].at \in {"uembed", "failed"} /\ i \in Target(c)
<1>1. ~UNCHANGED queue /\ i \in Ids
  BY DEF Rows
<1>2. ASSUME NEW k \in Ids, mark_done(k) \/ mark_failed(k)
      PROVE  FALSE
  BY <1>1, <1>2 DEF mark_done, mark_failed, Rows, TypeOK
<1>3. ASSUME NEW c \in Clients, QueuedReturn(c) \/ UpdateQueued(c)
      PROVE  req[c].at \in {"uembed", "failed"} /\ i \in Target(c)
  BY <1>1, <1>3 DEF QueuedReturn, UpdateQueued, enqueue, Rows, TypeOK
<1>4. ASSUME NEW c \in Clients, Invoke(c) \/ Resume(c) \/ Fail(c)
      PROVE  QueuedReturn(c) \/ UpdateQueued(c)
  BY <1>1, <1>4 DEF Invoke, remember, remember_batch, delete, Resume, FoundTopic, NoTopicFound,
     ReadRevision, UpdateTopic, UpdateReturn, UpdateMetadataOnly, FoundDuplicate, NoDuplicate,
     DedupMerge, AddNew, StoredReturn, BatchUpsert, BatchReturn, DeletePoint,
     DeleteFts, Fail, DedupMergeFails, AddFails, RequestFails
<1>5. ~(DrainStep \/ DrainMarkFailed \/ DrainCancelled)
  BY <1>1, <1>2 DEF DrainStep, DrainStart, DrainAdd, DrainMarkDone, DrainMarkFailed,
     DrainCancelled, Oldest, TypeOK, Drain
<1> QED BY <1>1, <1>3, <1>4, <1>5 DEF Next, Step, FtsInsert, FtsInsertFails, Crash, vars

\* Every id in sight stays one that was given out.
LEMMA UsedHoldsInductive ==
    ASSUME IInv, UsedHolds, [Next]_vars
    PROVE  UsedHolds'
<1>1. TypeOK /\ used \subseteq used'
  BY UsedGrows DEF IInv
<1>2. drain.batch \subseteq used
  BY DEF IInv, DrainHolds, UsedHolds, Rows
<1>3. ASSUME NEW i \in Ids, Stored(i)'
      PROVE  i \in used'
  BY <1>1, <1>2, <1>3, StoringStep DEF UsedHolds
<1>4. ASSUME NEW i \in Ids, fate'[i] # "unknown"
      PROVE  i \in used'
  BY <1>1, <1>4, FateStep DEF UsedHolds
<1>5. ASSUME NEW i \in Rows'
      PROVE  i \in used'
  BY <1>1, <1>5, RowStep DEF UsedHolds, Rows
<1>6. ASSUME NEW c \in Clients, NEW i \in Target(c)'
      PROVE  i \in used'
  BY <1>1, <1>6, TargetStep DEF UsedHolds
<1> QED BY <1>3, <1>4, <1>5, <1>6 DEF UsedHolds

\* The drain's batch stays a batch of pending rows.
LEMMA BatchPendingInductive ==
    ASSUME TypeOK, BatchPending, [Next]_vars
    PROVE  BatchPending'
<1>1. ASSUME UNCHANGED drain, UNCHANGED queue \/ \E k \in Ids, item \in Item : enqueue(k, item)
      PROVE  BatchPending'
  BY <1>1 DEF BatchPending, enqueue, Rows, TypeOK, Drain
<1>2. ASSUME NEW c \in Clients, Invoke(c) \/ Resume(c) \/ Fail(c)
      PROVE  BatchPending'
  <2>1. UNCHANGED drain
    BY <1>2 DEF Invoke, remember, remember_batch, delete, Resume, FoundTopic, NoTopicFound,
     ReadRevision, UpdateTopic, UpdateReturn, UpdateMetadataOnly, FoundDuplicate, NoDuplicate,
     DedupMerge, AddNew, StoredReturn, QueuedReturn, BatchUpsert, BatchReturn, DeletePoint,
     DeleteFts, Fail, UpdateQueued, DedupMergeFails, AddFails, RequestFails
  <2>2. [ver |-> req[c].ver, topic |-> req[c].topic] \in Item /\ Target(c) \subseteq Ids
    BY TargetType DEF TypeOK, Request, Item
  <2>3. UNCHANGED queue \/ QueuedReturn(c) \/ UpdateQueued(c)
    BY <1>2 DEF Invoke, remember, remember_batch, delete, Resume, FoundTopic, NoTopicFound,
     ReadRevision, UpdateTopic, UpdateReturn, UpdateMetadataOnly, FoundDuplicate, NoDuplicate,
     DedupMerge, AddNew, StoredReturn, BatchUpsert, BatchReturn, DeletePoint,
     DeleteFts, Fail, DedupMergeFails, AddFails, RequestFails
  <2>4. UNCHANGED queue \/ \E k \in Ids, item \in Item : enqueue(k, item)
    BY <2>2, <2>3 DEF QueuedReturn, UpdateQueued
  <2> QED BY <1>1, <2>1, <2>4
<1>3. CASE \E task \in ftsTasks : FtsInsert(task) \/ FtsInsertFails(task)
  BY <1>1, <1>3 DEF FtsInsert, FtsInsertFails
<1>4. CASE DrainStart
  BY <1>4 DEF DrainStart, dequeue_batch, Eligible, BatchPending
<1>5. CASE DrainAdd
  BY <1>5 DEF DrainAdd, Oldest, BatchPending, TypeOK, Drain
<1>6. ASSUME NEW i \in drain.batch, mark_done(i) \/ mark_failed(i), NextItem(i)
      PROVE  BatchPending'
  <2>1. drain'.batch \subseteq drain.batch \ {i} /\ drain'.cur = {}
    BY <1>6 DEF NextItem, NoDrain
  <2>2. \A j \in Ids \ {i} : queue'[j] = queue[j]
    BY <1>6 DEF mark_done, mark_failed, TypeOK
  <2> QED BY <2>1, <2>2 DEF BatchPending, TypeOK, Drain
<1>7. CASE DrainMarkDone \/ DrainMarkFailed
  BY <1>6, <1>7 DEF DrainMarkDone, DrainMarkFailed, Oldest, BatchPending
<1>8. CASE DrainCancelled \/ Crash
  BY <1>8 DEF DrainCancelled, Crash, NoDrain, BatchPending
<1>9. CASE UNCHANGED vars
  BY <1>1, <1>9 DEF vars
<1> QED BY <1>2, <1>3, <1>4, <1>5, <1>7, <1>8, <1>9 DEF Next, Step, DrainStep

\* Whoever deletes a memory can name what brings it back: a row of the retry queue that
\* was pending, or a topic update that was in flight.  Nothing else does, for any number
\* of callers, failures and crashes.
THEOREM ResurrectionNeedsACause == Spec => ResurrectionHasACause
<1> DEFINE RInv == IInv /\ UsedHolds /\ BatchPending
           Caused == \A i \in Ids : (Gone(i) /\ ~Stored(i) /\ Stored(i)') =>
                         \/ queue[i].status = "pending"
                         \/ \E c \in Clients : req[c].at = "uembed" /\ i \in Target(c)
<1>1. Init => UsedHolds /\ BatchPending
  BY DEF Init, QueueInit, NoRow, NoPoint, NoRequest, NewRequest, NoDrain, UsedHolds, BatchPending,
         Stored, Rows, Target
<1>2. RInv /\ [Next]_vars => RInv'
  BY IInvInductive, UsedHoldsInductive, BatchPendingInductive DEF IInv
<1>3. RInv /\ [Next]_vars => [Caused]_vars
  <2> SUFFICES ASSUME RInv, [Next]_vars, NEW i \in Ids, Gone(i), ~Stored(i), Stored(i)'
               PROVE  \/ queue[i].status = "pending"
                      \/ \E c \in Clients : req[c].at = "uembed" /\ i \in Target(c)
    OBVIOUS
  <2>1. i \in used
    BY DEF UsedHolds, Gone
  <2> QED BY <2>1, StoringStep DEF IInv, BatchPending
<1>4. ResurrectionHasACause <=> [][Caused]_vars
  BY DEF ResurrectionHasACause
<1> QED BY <1>1, <1>2, <1>3, <1>4, IInvInit, PTL DEF Spec

-----------------------------------------------------------------------------
(* The store implements MemoryLedger.  Beyond what the deleted memories    *)
(* needed: a memory whose write failed belongs to the request it failed    *)
(* for, until the caller is told.                                          *)

\* Nobody was told that it is lost, and no other request is about to queue it.
FailedAlone ==
    \A c \in Clients : req[c].at = "failed" =>
        \A i \in Target(c) :
            /\ fate[i] # "unsaved"
            /\ \A d \in Clients \ {c} : req[d].at = "failed" => i \notin Target(d)

\* What the ledger needs of the store.
LInv == IInv /\ UsedHolds /\ BatchPending /\ FailedAlone

\* A write fails for a memory whose id is fresh, and only its own request moves.
LEMMA FailingStep ==
    ASSUME TypeOK, [Next]_vars, NEW c \in Clients, req'[c].at = "failed"
    PROVE  \/ req'[c] = req[c]
           \/ /\ UNCHANGED fate
              /\ \A d \in Clients \ {c} : req'[d] = req[d]
              /\ \E k \in Ids \ used : Target(c)' = {k}
<1>1. ASSUME NEW at, GoTo(c, at)
      PROVE  at = "failed"
  BY <1>1 DEF TypeOK, GoTo, Request
<1>2. ASSUME NEW at, NEW docs, NEW rev, GoWith(c, at, docs, rev)
      PROVE  at = "failed" /\ Target(c)' = {d[1] : d \in docs}
  BY <1>2 DEF TypeOK, GoWith, Target
<1>3. ~Idle(c)
  BY DEF Idle, NoRequest, NewRequest, TypeOK
<1>4. ~Invoke(c)
  BY DEF Invoke, remember, remember_batch, delete, NewRequest, AfterFind, TypeOK
<1>5. CASE AddFails(c)
  <2>1. PICK k \in Ids \ used : GoWith(c, "failed", {<<k, req[c].ver>>}, 0)
    BY <1>5 DEF AddFails
  <2>2. Target(c)' = {k}
    <3>1. {d[1] : d \in {<<k, req[c].ver>>}} = {k}
      OBVIOUS
    <3> QED BY <1>2, <2>1, <3>1
  <2>3. UNCHANGED fate /\ Fail(c)
    BY <1>5 DEF AddFails, Fail
  <2> QED BY <2>2, <2>3, OthersWait
<1>6. ~Resume(c)
  <2>1. ~(NoTopicFound(c) \/ UpdateTopic(c) \/ NoDuplicate(c) \/ DeletePoint(c))
    BY <1>1 DEF NoTopicFound, UpdateTopic, NoDuplicate, DeletePoint, AfterFind
  <2>2. ~(FoundTopic(c) \/ ReadRevision(c) \/ FoundDuplicate(c) \/ AddNew(c) \/ BatchUpsert(c))
    <3>1. ASSUME NEW at \in Steps, NEW docs, NEW rev, GoWith(c, at, docs, rev)
          PROVE  at = "failed"
      BY <1>2, <3>1
    <3> QED BY <3>1 DEF FoundTopic, ReadRevision, FoundDuplicate, AddNew, BatchUpsert, Steps
  <2>3. ~(UpdateReturn(c) \/ UpdateMetadataOnly(c) \/ DedupMerge(c) \/ StoredReturn(c)
          \/ QueuedReturn(c) \/ BatchReturn(c) \/ DeleteFts(c))
    BY <1>3 DEF UpdateReturn, UpdateMetadataOnly, DedupMerge, StoredReturn, QueuedReturn,
                BatchReturn, DeleteFts
  <2> QED BY <2>1, <2>2, <2>3 DEF Resume
<1>7. ASSUME Fail(c)
      PROVE  AddFails(c)
  BY <1>1, <1>2, <1>3, <1>7 DEF Fail, UpdateQueued, DedupMergeFails, RequestFails
<1>8. ASSUME NEW d \in Clients, d # c, Invoke(d) \/ Resume(d) \/ Fail(d)
      PROVE  req'[c] = req[c]
  BY <1>8, OthersWait
<1>9. ~Crash
  BY DEF Crash, NoRequest, NewRequest
<1>10. CASE \/ \E task \in ftsTasks : FtsInsert(task) \/ FtsInsertFails(task)
            \/ DrainStep \/ DrainMarkFailed \/ DrainCancelled \/ UNCHANGED vars
  BY <1>10 DEF FtsInsert, FtsInsertFails, DrainStep, DrainStart, DrainAdd, DrainMarkDone,
     DrainMarkFailed, DrainCancelled, vars
<1> QED BY <1>4, <1>5, <1>6, <1>7, <1>8, <1>9, <1>10 DEF Next, Step

\* What callers are told, step by step; a memory is reported as unsaved by the request
\* whose write of it failed.
LEMMA FateMoves ==
    ASSUME IInv, [Next]_vars, NEW i \in Ids
    PROVE  \/ fate'[i] = fate[i]
           \/ fate[i] = "unknown" /\ fate'[i] = "live"
           \/ /\ fate[i] = "unknown" /\ fate'[i] = "unsaved"
              /\ \E c \in Clients : /\ req[c].at = "failed" /\ i \in Target(c)
                                    /\ req'[c].at = "idle"
           \/ fate'[i] = "deleting"
           \/ fate[i] = "deleting" /\ fate'[i] = "deleted"
<1> DEFINE Moved == \/ fate'[i] = fate[i]
                    \/ fate[i] = "unknown" /\ fate'[i] = "live"
                    \/ /\ fate[i] = "unknown" /\ fate'[i] = "unsaved"
                       /\ \E c \in Clients : /\ req[c].at = "failed" /\ i \in Target(c)
                                             /\ req'[c].at = "idle"
                    \/ fate'[i] = "deleting"
                    \/ fate[i] = "deleting" /\ fate'[i] = "deleted"
<1> SUFFICES Moved
  OBVIOUS
<1>0. TypeOK /\ RequestsHold
  BY DEF IInv
<1>1. UNCHANGED fate => Moved
  OBVIOUS
<1>2. ASSUME NEW c \in Clients, NEW what, Tell(c, what)
      PROVE  fate'[i] = fate[i] \/ (fate[i] = "unknown" /\ fate'[i] = what /\ i \in Target(c))
  BY <1>0, <1>2 DEF TypeOK, Tell
<1>3. ASSUME NEW c \in Clients, Acknowledge(c)
      PROVE  Moved
  BY <1>2, <1>3 DEF Acknowledge
<1>4. ASSUME NEW c \in Clients, QueuedReturn(c)
      PROVE  Moved
  <2>1. req[c].at = "failed" /\ Idle(c) /\ (Acknowledge(c) \/ Tell(c, "unsaved"))
    BY <1>4 DEF QueuedReturn
  <2>2. req'[c].at = "idle"
    BY <1>0, <2>1 DEF Idle, NoRequest, NewRequest, TypeOK
  <2> QED BY <1>2, <1>3, <2>1, <2>2
<1>5. ASSUME NEW c \in Clients, DeleteFts(c)
      PROVE  Moved
  <2>1. PICK k \in Target(c) : fate' = [fate EXCEPT ![k] = "deleted"]
    BY <1>5 DEF DeleteFts
  <2>2. Gone(k)
    BY <1>0, <1>5 DEF RequestsHold, RequestHolds, DeleteFts
  <2> QED BY <1>0, <2>1, <2>2 DEF TypeOK, Gone
<1>6. ASSUME NEW c \in Clients, Resume(c)
      PROVE  Moved
  BY <1>1, <1>3, <1>4, <1>5, <1>6 DEF Resume, FoundTopic, NoTopicFound, ReadRevision, UpdateTopic,
     UpdateReturn, UpdateMetadataOnly, FoundDuplicate, NoDuplicate, DedupMerge, AddNew,
     StoredReturn, BatchUpsert, BatchReturn, DeletePoint, storeVars
<1>7. ASSUME NEW c \in Clients, Invoke(c)
      PROVE  Moved
  BY <1>0, <1>7 DEF Invoke, remember, remember_batch, delete, storeVars, TypeOK
<1>8. ASSUME NEW c \in Clients, Fail(c)
      PROVE  Moved
  BY <1>1, <1>8 DEF Fail, UpdateQueued, DedupMergeFails, AddFails, RequestFails, storeVars
<1>9. CASE \/ \E task \in ftsTasks : FtsInsert(task) \/ FtsInsertFails(task)
           \/ DrainStep \/ DrainMarkFailed \/ DrainCancelled \/ Crash \/ UNCHANGED vars
  BY <1>1, <1>9 DEF FtsInsert, FtsInsertFails, DrainStep, DrainStart, DrainAdd, DrainMarkDone,
     DrainMarkFailed, DrainCancelled, Crash, storeVars, vars
<1> HIDE DEF Moved
<1>10. ASSUME NEW c \in Clients, Invoke(c) \/ Resume(c) \/ Fail(c)
       PROVE  Moved
  BY <1>6, <1>7, <1>8, <1>10, Zenon
<1> QED BY <1>9, <1>10, Zenon DEF Next, Step

\* The requests whose write failed keep their memories for themselves.
LEMMA FailedAloneInductive ==
    ASSUME LInv, [Next]_vars
    PROVE  FailedAlone'
<1>0. TypeOK /\ UsedHolds /\ FailedAlone
  BY DEF LInv, IInv
<1> SUFFICES ASSUME NEW c \in Clients, req'[c].at = "failed", NEW i \in Target(c)'
             PROVE  /\ fate'[i] # "unsaved"
                    /\ \A d \in Clients \ {c} : req'[d].at = "failed" => i \notin Target(d)'
  BY DEF FailedAlone
<1>1. CASE req'[c] = req[c]
  <2>1. i \in Target(c) /\ i \in Ids /\ i \in used /\ fate[i] # "unsaved"
    BY <1>0, <1>1, TargetType DEF Target, TypeOK, UsedHolds, FailedAlone
  <2>2. fate'[i] # "unsaved"
    <3>1. ASSUME fate'[i] = "unsaved" PROVE FALSE
      <4>1. PICK d \in Clients : req[d].at = "failed" /\ i \in Target(d) /\ req'[d].at = "idle"
        BY <2>1, <3>1, FateMoves DEF LInv
      <4>2. d # c
        BY <4>1
      <4> QED BY <1>0, <1>1, <2>1, <4>1, <4>2 DEF FailedAlone
    <3> QED BY <3>1
  <2>3. ASSUME NEW d \in Clients \ {c}, req'[d].at = "failed"
        PROVE  i \notin Target(d)'
    <3>1. CASE req'[d] = req[d]
      BY <1>0, <1>1, <2>1, <2>3, <3>1 DEF FailedAlone, Target
    <3>2. CASE req'[d] # req[d]
      <4>1. \E k \in Ids \ used : Target(d)' = {k}
        BY <1>0, <2>3, <3>2, FailingStep
      <4> QED BY <2>1, <4>1
    <3> QED BY <3>1, <3>2
  <2> QED BY <2>2, <2>3
<1>2. CASE req'[c] # req[c]
  <2>1. /\ UNCHANGED fate
        /\ \A d \in Clients \ {c} : req'[d] = req[d]
        /\ \E k \in Ids \ used : Target(c)' = {k}
    BY <1>0, <1>2, FailingStep
  <2>2. i \in Ids /\ i \notin used
    BY <2>1
  <2>3. fate'[i] = "unknown"
    BY <1>0, <2>1, <2>2 DEF UsedHolds
  <2>4. ASSUME NEW d \in Clients \ {c} PROVE i \notin Target(d)'
    BY <1>0, <2>1, <2>2 DEF UsedHolds, Target
  <2> QED BY <2>3, <2>4
<1> QED BY <1>1, <1>2

\* The invariant behind the ledger is inductive.
LEMMA LInvInductive == LInv /\ [Next]_vars => LInv'
BY IInvInductive, UsedHoldsInductive, BatchPendingInductive, FailedAloneInductive DEF LInv, IInv

\* It holds of the empty stores.
LEMMA LInvInit == Init => LInv
<1>1. Init => UsedHolds /\ BatchPending /\ FailedAlone
  BY DEF Init, QueueInit, NoRow, NoPoint, NoRequest, NewRequest, NoDrain, UsedHolds, BatchPending,
         FailedAlone, Stored, Rows, Target
<1> QED BY <1>1, IInvInit DEF LInv

\* How a row of the retry queue changes: it is made pending, and only a pending one is settled.
LEMMA RowMoves ==
    ASSUME LInv, [Next]_vars, NEW i \in Ids
    PROVE  \/ queue'[i].status = queue[i].status
           \/ queue[i].status = "none" /\ queue'[i].status = "pending"
           \/ queue[i].status = "pending" /\ queue'[i].status \in {"done", "failed"}
<1> DEFINE Moved == \/ queue'[i].status = queue[i].status
                    \/ queue[i].status = "none" /\ queue'[i].status = "pending"
                    \/ queue[i].status = "pending" /\ queue'[i].status \in {"done", "failed"}
<1> SUFFICES Moved
  OBVIOUS
<1>0. TypeOK /\ BatchPending
  BY DEF LInv, IInv
<1>1. ASSUME NEW c \in Clients, Invoke(c) \/ Resume(c) \/ Fail(c)
      PROVE  Moved
  <2>1. UNCHANGED queue \/ \E k \in Ids, item \in Item : enqueue(k, item)
    <3>1. [ver |-> req[c].ver, topic |-> req[c].topic] \in Item /\ Target(c) \subseteq Ids
      BY <1>0, TargetType DEF TypeOK, Request, Item
    <3>2. UNCHANGED queue \/ QueuedReturn(c) \/ UpdateQueued(c)
      BY <1>1 DEF Invoke, remember, remember_batch, delete, Resume, FoundTopic, NoTopicFound,
       ReadRevision, UpdateTopic, UpdateReturn, UpdateMetadataOnly, FoundDuplicate, NoDuplicate,
       DedupMerge, AddNew, StoredReturn, BatchUpsert, BatchReturn, DeletePoint,
       DeleteFts, Fail, DedupMergeFails, AddFails, RequestFails
    <3> QED BY <3>1, <3>2 DEF QueuedReturn, UpdateQueued
  <2>2. ASSUME NEW k \in Ids, NEW item \in Item, enqueue(k, item)
        PROVE  Moved
    <3>1. CASE k \in Rows
      BY <2>2, <3>1 DEF enqueue
    <3>2. CASE k \notin Rows
      <4>1. PICK row : /\ row.status = "pending"
                       /\ queue' = [queue EXCEPT ![k] = row]
        BY <2>2, <3>2 DEF enqueue
      <4>2. queue[k].status = "none"
        BY <3>2 DEF Rows
      <4> QED BY <1>0, <4>1, <4>2 DEF TypeOK
    <3> QED BY <3>1, <3>2
  <2> QED BY <2>1, <2>2
<1>2. ASSUME NEW k \in drain.batch, mark_done(k) \/ mark_failed(k)
      PROVE  Moved
  <2>1. k \in Ids /\ queue[k].status = "pending"
    BY <1>0 DEF BatchPending, TypeOK, Drain
  <2>2. Retried(queue[k], MaxRetries).status \in {"pending", "failed"}
    BY DEF Retried
  <2> QED BY <1>0, <1>2, <2>1, <2>2 DEF mark_done, mark_failed, Rows, TypeOK, Row
<1>3. CASE DrainMarkDone \/ DrainMarkFailed
  BY <1>0, <1>2, <1>3 DEF DrainMarkDone, DrainMarkFailed, Oldest, BatchPending
<1>4. CASE \/ \E task \in ftsTasks : FtsInsert(task) \/ FtsInsertFails(task)
           \/ DrainStep \/ DrainCancelled \/ Crash \/ UNCHANGED vars
  BY <1>3, <1>4 DEF FtsInsert, FtsInsertFails, DrainStep, DrainStart, DrainAdd,
     DrainCancelled, Crash, vars
<1> QED BY <1>1, <1>3, <1>4 DEF Next, Step

\* A memory nobody asked to delete: where it is held only gets better, or its retries are up.
LEMMA PlaceMoves ==
    ASSUME LInv, [Next]_vars, NEW i \in Ids, ~Gone(i)'
    PROVE  \/ PlaceOf(i)' = PlaceOf(i)
           \/ PlaceOf(i) = "nowhere" /\ PlaceOf(i)' \in {"stored", "waiting"} /\ fate[i] = "unknown"
           \/ PlaceOf(i) = "waiting" /\ PlaceOf(i)' \in {"stored", "dead"}
<1>0. /\ TypeOK /\ RequestsHold /\ UsedHolds /\ BatchPending /\ FailedAlone /\ AcceptedDurable
      /\ TypeOK' /\ QueueHolds' /\ ~Gone(i)
  BY IInvInductive, GoneStays DEF LInv, IInv
<1>1. CASE Stored(i)
  BY <1>0, <1>1, StoredStays DEF LInv, PlaceOf
<1>2. CASE ~Stored(i) /\ Stored(i)'
  <2>1. ASSUME NEW c \in Clients, req[c].at = "uembed", i \in Target(c)
        PROVE  FALSE
    BY <1>0, <1>2, <2>1 DEF RequestsHold, RequestHolds, Kept
  <2>2. CASE i \in used' \ used
    <3>1. fate[i] = "unknown" /\ queue[i].status = "none"
      BY <1>0, <2>2 DEF UsedHolds, Rows
    <3> QED BY <1>2, <3>1 DEF PlaceOf
  <2>3. CASE i \in drain.batch
    BY <1>0, <1>2, <2>3 DEF BatchPending, PlaceOf
  <2> QED BY <1>0, <1>2, <2>1, <2>2, <2>3, StoringStep
<1>3. CASE ~Stored(i) /\ ~Stored(i)'
  <2>1. CASE queue'[i].status = queue[i].status
    BY <1>3, <2>1 DEF PlaceOf
  <2>2. CASE queue[i].status = "none" /\ queue'[i].status = "pending"
    <3>1. PICK c \in Clients : req[c].at \in {"uembed", "failed"} /\ i \in Target(c)
      BY <1>0, <2>2, RowStep DEF Rows
    <3>2. req[c].at = "failed"
      BY <1>0, <1>3, <3>1 DEF RequestsHold, RequestHolds, Kept
    <3>3. fate[i] # "unsaved"
      BY <1>0, <3>1, <3>2 DEF FailedAlone
    <3>4. fate[i] # "live"
      BY <1>0, <1>3, <2>2 DEF AcceptedDurable
    <3>5. fate[i] = "unknown"
      BY <1>0, <3>3, <3>4 DEF TypeOK, Fates, Gone
    <3> QED BY <1>3, <2>2, <3>5 DEF PlaceOf
  <2>3. CASE queue[i].status = "pending" /\ queue'[i].status = "done"
    <3>1. Kept(i)'
      BY <1>0, <2>3 DEF QueueHolds, Rows
    <3> QED BY <1>0, <1>3, <3>1 DEF Kept
  <2>4. CASE queue[i].status = "pending" /\ queue'[i].status = "failed"
    BY <1>3, <2>4 DEF PlaceOf
  <2> QED BY <2>1, <2>2, <2>3, <2>4, RowMoves
<1> QED BY <1>1, <1>2, <1>3

\* A memory that is to go: its row alone makes it a dead letter, and keeps it one.
LEMMA GonePlaceMoves ==
    ASSUME LInv, [Next]_vars, NEW i \in Ids
    PROVE  \/ PlaceOf(i)' = PlaceOf(i)
           \/ /\ PlaceOf(i) = "dead" => PlaceOf(i)' = "stored"
              /\ PlaceOf(i)' = "dead" => PlaceOf(i) # "nowhere"
<1>1. ASSUME PlaceOf(i) = "dead", PlaceOf(i)' # "dead"
      PROVE  PlaceOf(i)' = "stored"
  BY <1>1, RowMoves DEF PlaceOf
<1>2. ASSUME PlaceOf(i) = "nowhere", PlaceOf(i)' = "dead"
      PROVE  FALSE
  BY <1>2, RowMoves DEF PlaceOf
<1> QED BY <1>1, <1>2

\* The ledger as the store keeps it.
Places == [i \in Ids |-> PlaceOf(i)]

\* What a step must do for each memory to be one of the ledger.
LEMMA LedgerStep ==
    ASSUME fate' \in [Ids -> Fates],
           \A i \in Ids : Ledger!Tells(i) /\ Ledger!Moves(i)
    PROVE  Ledger!LedgerNext
<1>1. Places' \in [Ids -> Ledger!Places]
  BY DEF Places, PlaceOf, Ledger!Places
<1> QED BY <1>1 DEF Places, Ledger!LedgerNext, Ledger!Tellings, Fates

\* Every step of the store is one of the ledger.
LEMMA StoreLedgers ==
    ASSUME LInv, [Next]_vars
    PROVE  Ledger!LedgerNext
<1>0. TypeOK /\ TypeOK' /\ AcceptedDurable'
  BY IInvInductive DEF LInv, IInv
<1>1. ASSUME NEW i \in Ids
      PROVE  Places[i] = PlaceOf(i) /\ Places'[i] = PlaceOf(i)'
  BY DEF Places
<1>2. ASSUME NEW i \in Ids
      PROVE  Ledger!Tells(i)
  <2>1. fate'[i] = "live" => Places'[i] # "nowhere"
    BY <1>0, <1>1 DEF AcceptedDurable, PlaceOf
  <2> QED BY <2>1, FateMoves DEF LInv, Ledger!Tells, Places
<1>3. ASSUME NEW i \in Ids
      PROVE  Ledger!Moves(i)
  <2>1. CASE ~Gone(i)'
    BY <1>1, <2>1, PlaceMoves DEF Ledger!Moves, Places
  <2>2. CASE Gone(i)'
    <3>1. Ledger!ToGo(i)'
      BY <2>2 DEF Gone, Ledger!ToGo
    <3> QED BY <1>1, <3>1, GonePlaceMoves DEF Ledger!Moves, Places
  <2> QED BY <2>1, <2>2
<1> QED BY <1>0, <1>2, <1>3, LedgerStep DEF TypeOK

\* The empty store is the empty ledger.
LEMMA LedgerStarts == Init => Ledger!LedgerInit
BY DEF Init, QueueInit, NoRow, NoPoint, PlaceOf, Stored, Ledger!LedgerInit

\* The store implements MemoryLedger for any number of ids, callers, texts, retries, failures
\* and crashes: no answer is taken back but by a deletion, and no memory is held less well
\* than before, nor turns up after its caller was told that it was lost.
THEOREM LedgerIsKept == Spec => LedgerKept
<1>1. LInv /\ [Next]_vars => [Ledger!LedgerNext]_<<fate, [i \in Ids |-> PlaceOf(i)]>>
  BY StoreLedgers
<1> QED BY <1>1, LInvInit, LInvInductive, LedgerStarts, PTL DEF Spec, LedgerKept, Ledger!LedgerSpec

-----------------------------------------------------------------------------
(* Each text has one id.  What has to be carried along is which texts a    *)
(* request may still write, that no two requests may write the same, and   *)
(* where the ones already written can be.                                  *)

\* A text is held by a memory in the collection or in its row of the queue.
Holds(i, v) == v \in {points[i].ver, queue[i].item.ver}

\* Where a request has its text still to write, under an id of its own or none, and
\* under one it has.
Unwritten == {"find", "dedup", "merge", "embed", "bembed"}
Placed    == {"uread", "uembed", "failed"}

\* The texts a request has yet to write, or may write a second time.
Texts(c) == CASE req[c].at = "bembed" -> {req[c].ver, req[c].ver + 1}
              [] req[c].at \in (Unwritten \cup Placed) \ {"bembed"} -> {req[c].ver}
              [] OTHER -> {}

\* Texts have been submitted, and belong to one request.
TextsApart ==
    /\ \A c \in Clients : Texts(c) \subseteq 1..ver
    /\ \A c, d \in Clients : c # d => Texts(c) \cap Texts(d) = {}
    /\ \A i \in Ids : points[i].ver <= ver /\ queue[i].item.ver <= ver

\* A text not written yet is nowhere; one that may be written again goes where it is.
TextPlace(c) ==
    /\ req[c].at \in Unwritten => \A i \in Ids : \A v \in Texts(c) : ~Holds(i, v)
    /\ req[c].at \in Placed    => /\ \A i \in Ids : Holds(i, req[c].ver) => i \in Target(c)
                                  /\ \A i, j \in Target(c) : i = j

\* The inductive invariant behind one id per text.
TextInv == TextsApart /\ (\A c \in Clients : TextPlace(c)) /\ OneIdPerText

\* c writes text v under id i in this step.
Writes(c, i, v) ==
    \/ /\ req[c].at \in {"uembed", "failed"} /\ i \in Target(c) /\ v = req[c].ver
       /\ req'[c].at \in {"uwritten", "umeta", "idle"}
    \/ /\ req[c].at = "embed" /\ v = req[c].ver
       /\ req'[c].at \in {"stored", "failed"} /\ Target(c)' = {i}
    \/ /\ req[c].at = "bembed" /\ req'[c].at = "bstored"
       /\ \E a, b \in Ids : a # b /\ <<i, v>> \in {<<a, req[c].ver>>, <<b, req[c].ver + 1>>}
                                  /\ req'[c].docs = {<<a, req[c].ver>>, <<b, req[c].ver + 1>>}

\* A text comes under an id it was not under only by a request that writes it.
LEMMA HeldStep ==
    ASSUME IInv, [Next]_vars, NEW i \in Ids, NEW v, v # 0, Holds(i, v)', ~Holds(i, v)
    PROVE  \E c \in Clients : Writes(c, i, v)
<1> USE DEF IInv
<1>1. ~(UNCHANGED points /\ UNCHANGED queue)
  BY DEF Holds
<1>2. ASSUME NEW c \in Clients, Invoke(c) \/ Resume(c) \/ Fail(c)
      PROVE  \/ UpdateTopic(c) \/ UpdateQueued(c) \/ UpdateMetadataOnly(c) \/ AddNew(c)
             \/ AddFails(c) \/ QueuedReturn(c) \/ BatchUpsert(c) \/ DeletePoint(c)
  BY <1>1, <1>2 DEF Invoke, remember, remember_batch, delete, Resume, FoundTopic, NoTopicFound,
     ReadRevision, UpdateReturn, FoundDuplicate, NoDuplicate, DedupMerge, StoredReturn,
     BatchReturn, DeleteFts, Fail, DedupMergeFails, RequestFails, storeVars
<1>3. ASSUME NEW c \in Clients, UpdateTopic(c)
      PROVE  Writes(c, i, v)
  BY <1>3 DEF UpdateTopic, GoTo, Holds, Writes, TypeOK
<1>4. ASSUME NEW c \in Clients, UpdateMetadataOnly(c) \/ DeletePoint(c)
      PROVE  FALSE
  <2>1. points[i] \in Point
    BY DEF TypeOK
  <2>2. CASE UpdateMetadataOnly(c)
    BY <2>1, <2>2 DEF UpdateMetadataOnly, Holds, Point
  <2>3. CASE DeletePoint(c)
    BY <2>3 DEF DeletePoint, Holds, NoPoint
  <2> QED BY <1>4, <2>2, <2>3
<1>5. ASSUME NEW c \in Clients, NEW k \in Ids, UNCHANGED points,
             enqueue(k, [ver |-> req[c].ver, topic |-> req[c].topic])
      PROVE  i = k /\ v = req[c].ver
  BY <1>5 DEF enqueue, Holds, TypeOK
<1>6. ASSUME NEW c \in Clients, UpdateQueued(c)
      PROVE  Writes(c, i, v)
  <2>1. req[c].at = "uembed" /\ req'[c].at = "umeta"
    BY <1>6 DEF UpdateQueued, GoTo, TypeOK
  <2>2. \E k \in Target(c) : enqueue(k, [ver |-> req[c].ver, topic |-> req[c].topic])
    BY <1>1, <1>6 DEF UpdateQueued, storeVars
  <2>3. UNCHANGED points /\ Target(c) \subseteq Ids
    BY <1>6, TargetType DEF UpdateQueued, storeVars, TypeOK
  <2> QED BY <1>5, <2>1, <2>2, <2>3 DEF Writes
<1>7. ASSUME NEW c \in Clients, QueuedReturn(c)
      PROVE  Writes(c, i, v)
  <2>1. req[c].at = "failed" /\ req'[c].at = "idle"
    BY <1>7 DEF QueuedReturn, Idle, NoRequest, NewRequest, TypeOK
  <2>2. \E k \in Target(c) : enqueue(k, [ver |-> req[c].ver, topic |-> req[c].topic])
    BY <1>1, <1>7 DEF QueuedReturn
  <2>3. UNCHANGED points /\ Target(c) \subseteq Ids
    BY <1>7, TargetType DEF QueuedReturn, TypeOK
  <2> QED BY <1>5, <2>1, <2>2, <2>3 DEF Writes
<1>8. ASSUME NEW c \in Clients, AddNew(c) \/ AddFails(c)
      PROVE  Writes(c, i, v)
  <2>1. PICK k \in Ids, at \in {"stored", "failed"} :
          /\ points' \in {points, [points EXCEPT ![k] = NewPoint(req[c].ver, req[c].topic)]}
          /\ GoWith(c, at, {<<k, req[c].ver>>}, 0)
    BY <1>8 DEF AddNew, AddFails
  <2>2. UNCHANGED queue /\ req[c].at = "embed"
    BY <1>8 DEF AddNew, AddFails
  <2>3. i = k /\ v = req[c].ver
    BY <2>1, <2>2 DEF Holds, NewPoint, TypeOK
  <2>4. req'[c].at = at /\ req'[c].docs = {<<k, req[c].ver>>}
    BY <2>1 DEF GoWith, TypeOK
  <2>5. Target(c)' = {k}
    BY <2>4 DEF Target
  <2> QED BY <2>2, <2>3, <2>4, <2>5 DEF Writes
<1>9. ASSUME NEW c \in Clients, BatchUpsert(c)
      PROVE  Writes(c, i, v)
  <2> DEFINE w == req[c].ver
  <2>1. PICK a \in Ids, b \in Ids :
          /\ a # b
          /\ points' = [points EXCEPT ![a] = NewPoint(w, NoTopic), ![b] = NewPoint(w + 1, NoTopic)]
          /\ GoWith(c, "bstored", {<<a, w>>, <<b, w + 1>>}, 0)
    BY <1>9 DEF BatchUpsert
  <2>2. UNCHANGED queue /\ req[c].at = "bembed"
    BY <1>9 DEF BatchUpsert
  <2>3. <<i, v>> \in {<<a, w>>, <<b, w + 1>>}
    BY <2>1, <2>2 DEF Holds, NewPoint, TypeOK
  <2>4. req'[c].at = "bstored" /\ req'[c].docs = {<<a, w>>, <<b, w + 1>>}
    BY <2>1 DEF GoWith, TypeOK
  <2> QED BY <2>1, <2>2, <2>3, <2>4 DEF Writes
<1>10. ASSUME NEW c \in Clients, Invoke(c) \/ Resume(c) \/ Fail(c)
       PROVE  Writes(c, i, v)
  BY <1>2, <1>3, <1>4, <1>6, <1>7, <1>8, <1>9, <1>10
<1>11. ~DrainAdd
  <2> SUFFICES ASSUME DrainAdd
               PROVE  FALSE
    OBVIOUS
  <2>1. PICK k \in Ids :
          points' = [points EXCEPT ![k] = NewPoint(queue[k].item.ver, queue[k].item.topic)]
    BY DEF DrainAdd, Oldest, TypeOK, Drain
  <2>2. UNCHANGED queue
    BY DEF DrainAdd
  <2> QED BY <2>1, <2>2 DEF NewPoint, Holds, TypeOK
<1>12. ASSUME NEW k \in Ids, mark_done(k) \/ mark_failed(k), UNCHANGED points
       PROVE  FALSE
  <2>1. queue[k] \in Row
    BY DEF TypeOK
  <2>2. queue'[i].item = queue[i].item
    BY <1>12, <2>1 DEF mark_done, mark_failed, Retried, Row, TypeOK
  <2> QED BY <1>12, <2>2 DEF Holds
<1>13. ~(DrainStep \/ DrainMarkFailed \/ DrainCancelled)
  BY <1>1, <1>11, <1>12 DEF DrainStep, DrainStart, DrainMarkDone, DrainMarkFailed,
     DrainCancelled, Oldest, TypeOK, Drain, storeVars
<1> QED BY <1>1, <1>10, <1>13 DEF Next, Step, FtsInsert, FtsInsertFails, Crash, vars

\* How a request moves: it gets past its writes, it is admitted with texts nobody has, or
\* it goes on towards its write, at ids it has just found or made.
Admitted(c) ==
    /\ \/ req'[c].at \in {"find", "dedup", "embed"} /\ ver' = ver + 1
       \/ req'[c].at = "bembed" /\ ver' = ver + 2
    /\ req'[c].ver = ver + 1
    /\ \A d \in Clients \ {c} : req'[d] = req[d]
    /\ UNCHANGED <<points, queue>>

\* A request moves on with its text, before anything is written.
GoesOn(c) ==
    /\ req'[c].ver = req[c].ver
    /\ \/ req[c].at \in {"find", "dedup", "merge"} /\ req'[c].at \in {"dedup", "merge", "embed"}
       \/ req[c].at = "find" /\ req'[c].at = "uread" /\ \E i \in Ids : Target(c)' = {i}
       \/ req[c].at = "uread" /\ req'[c].at = "uembed" /\ Target(c)' = Target(c)
       \/ req[c].at = "embed" /\ req'[c].at = "failed" /\ \E i \in Ids : Target(c)' = {i}

\* The text is written, or the request is over.
Past(c) == req'[c].at \notin Unwritten \cup Placed

\* A request and the counter of texts move in these ways only.
LEMMA RequestMoves ==
    ASSUME TypeOK, [Next]_vars, NEW c \in Clients
    PROVE  req'[c] = req[c] \/ Past(c) \/ Admitted(c) \/ GoesOn(c)
<1> USE DEF Past, Unwritten, Placed
<1>1. ASSUME NEW at, GoTo(c, at)
      PROVE  req'[c].at = at /\ req'[c].ver = req[c].ver
  BY <1>1 DEF GoTo, TypeOK
<1>2. ASSUME NEW at, NEW docs, NEW rev, GoWith(c, at, docs, rev)
      PROVE  /\ req'[c].at = at
             /\ req'[c].ver = req[c].ver
             /\ Target(c)' = {d[1] : d \in docs}
  BY <1>2 DEF GoWith, TypeOK, Target
<1>3. CASE Idle(c)
  BY <1>3 DEF Idle, NoRequest, NewRequest, TypeOK
<1>4. CASE \E t \in Topic : remember(c, t)
  BY <1>4 DEF remember, NewRequest, AfterFind, Admitted, TypeOK, storeVars
<1>5. CASE remember_batch(c)
  BY <1>5 DEF remember_batch, NewRequest, Admitted, TypeOK, storeVars
<1>6. CASE \E i \in Ids : delete(c, i)
  BY <1>6 DEF delete, NewRequest, TypeOK
<1>7. CASE FoundTopic(c) \/ FoundDuplicate(c)
  <2>1. PICK i \in Ids : \/ req[c].at = "find" /\ GoWith(c, "uread", {<<i, req[c].ver>>}, 0)
                         \/ req[c].at = "dedup" /\ GoWith(c, "merge", {<<i, req[c].ver>>}, 0)
    BY <1>7 DEF FoundTopic, FoundDuplicate
  <2>2. {d[1] : d \in {<<i, req[c].ver>>}} = {i}
    OBVIOUS
  <2>3. CASE req[c].at = "find" /\ GoWith(c, "uread", {<<i, req[c].ver>>}, 0)
    BY <1>2, <2>2, <2>3 DEF GoesOn
  <2>4. CASE req[c].at = "dedup" /\ GoWith(c, "merge", {<<i, req[c].ver>>}, 0)
    BY <1>2, <2>4 DEF GoesOn
  <2> QED BY <2>1, <2>3, <2>4
<1>8. CASE ReadRevision(c)
  <2>1. req[c].at = "uread" /\ req'[c].at = "uembed" /\ req'[c].ver = req[c].ver
    BY <1>2, <1>8 DEF ReadRevision
  <2>2. Target(c)' = Target(c)
    BY <1>2, <1>8 DEF ReadRevision, Target
  <2> QED BY <2>1, <2>2 DEF GoesOn
<1>9. CASE AddNew(c) \/ AddFails(c)
  <2>1. PICK i \in Ids, at \in {"stored", "failed"} :
          req[c].at = "embed" /\ GoWith(c, at, {<<i, req[c].ver>>}, 0)
    BY <1>9 DEF AddNew, AddFails
  <2>2. {d[1] : d \in {<<i, req[c].ver>>}} = {i}
    OBVIOUS
  <2>3. req'[c].at = at /\ req'[c].ver = req[c].ver /\ Target(c)' = {i}
    BY <1>2, <2>1, <2>2
  <2> QED BY <2>1, <2>3 DEF GoesOn
<1>10. CASE NoTopicFound(c) \/ NoDuplicate(c)
  BY <1>1, <1>10 DEF NoTopicFound, NoDuplicate, AfterFind, GoesOn
<1>11. CASE DedupMergeFails(c)
  BY <1>2, <1>11 DEF DedupMergeFails, GoesOn
<1>12. CASE UpdateTopic(c) \/ UpdateQueued(c) \/ DeletePoint(c) \/ BatchUpsert(c)
  <2>1. CASE BatchUpsert(c)
    <3>1. PICK docs : GoWith(c, "bstored", docs, 0)
      BY <2>1 DEF BatchUpsert
    <3> QED BY <1>2, <3>1
  <2> QED BY <1>1, <1>12, <2>1 DEF UpdateTopic, UpdateQueued, DeletePoint
<1>13. CASE Invoke(c)
  BY <1>4, <1>5, <1>6, <1>13 DEF Invoke
<1>14. CASE Resume(c) \/ Fail(c)
  <2>1. \/ FoundTopic(c) \/ FoundDuplicate(c) \/ ReadRevision(c) \/ AddNew(c) \/ AddFails(c)
        \/ NoTopicFound(c) \/ NoDuplicate(c) \/ DedupMergeFails(c)
        \/ UpdateTopic(c) \/ UpdateQueued(c) \/ DeletePoint(c) \/ BatchUpsert(c) \/ Idle(c)
    BY <1>14 DEF Resume, UpdateReturn, UpdateMetadataOnly, DedupMerge, StoredReturn,
                 QueuedReturn, BatchReturn, DeleteFts, Fail, RequestFails
  <2> QED BY <1>3, <1>7, <1>8, <1>9, <1>10, <1>11, <1>12, <2>1
<1>15. ASSUME NEW d \in Clients, d # c, Invoke(d) \/ Resume(d) \/ Fail(d)
       PROVE  req'[c] = req[c]
  BY <1>15, OthersWait
<1>16. CASE Crash
  BY <1>16 DEF Crash, NoRequest, NewRequest
<1>17. CASE UNCHANGED req
  BY <1>17
<1> QED BY <1>13, <1>14, <1>15, <1>16, <1>17 DEF Next, Step, FtsInsert, FtsInsertFails,
     DrainStep, DrainStart, DrainAdd, DrainMarkDone, DrainMarkFailed, DrainCancelled, vars

\* The counter of texts never goes back.
LEMMA VersionsGrow ==
    ASSUME TypeOK, [Next]_vars
    PROVE  ver' \in Nat /\ ver <= ver'
<1>1. ASSUME NEW c \in Clients, Invoke(c) \/ Resume(c) \/ Fail(c)
      PROVE  ver' \in {ver, ver + 1, ver + 2}
  BY <1>1 DEF Invoke, remember, remember_batch, delete, Resume, FoundTopic, NoTopicFound,
     ReadRevision, UpdateTopic, UpdateReturn, UpdateMetadataOnly, FoundDuplicate, NoDuplicate,
     DedupMerge, AddNew, StoredReturn, QueuedReturn, BatchUpsert, BatchReturn, DeletePoint,
     DeleteFts, Fail, UpdateQueued, DedupMergeFails, AddFails, RequestFails
<1>2. ver' \in {ver, ver + 1, ver + 2}
  BY <1>1 DEF Next, Step, FtsInsert, FtsInsertFails, DrainStep, DrainStart, DrainAdd,
     DrainMarkDone, DrainMarkFailed, DrainCancelled, Crash, vars
<1> QED BY <1>2 DEF TypeOK

\* The texts a request may write are the ones it had, or new ones.
LEMMA TextsMove ==
    ASSUME TypeOK, [Next]_vars, NEW c \in Clients
    PROVE  Texts(c)' \subseteq Texts(c) \/ (Admitted(c) /\ Texts(c)' \subseteq (ver + 1)..ver')
<1> USE DEF Texts, Unwritten, Placed
<1>1. CASE req'[c] = req[c]
  BY <1>1
<1>2. CASE Past(c)
  BY <1>2 DEF Past
<1>3. CASE Admitted(c)
  BY <1>3 DEF Admitted, TypeOK
<1>4. CASE GoesOn(c)
  BY <1>4 DEF GoesOn
<1> QED BY <1>1, <1>2, <1>3, <1>4, RequestMoves

\* A request that writes a text had it to write.
LEMMA WritersText ==
    ASSUME NEW c \in Clients, NEW i, NEW v, Writes(c, i, v)
    PROVE  v \in Texts(c)
BY DEF Writes, Texts, Unwritten, Placed

\* Texts stay those of one request, and no memory holds one that was never submitted.
LEMMA TextsApartInductive ==
    ASSUME IInv, TextInv, [Next]_vars
    PROVE  TextsApart'
<1> USE DEF IInv, TextInv, TextsApart
<1>1. ver \in Nat /\ ver' \in Nat /\ ver <= ver'
  BY VersionsGrow DEF TypeOK
<1>2. ASSUME NEW c \in Clients
      PROVE  Texts(c)' \subseteq 1..ver'
  BY <1>1, TextsMove
<1>3. ASSUME NEW c \in Clients, NEW d \in Clients, c # d
      PROVE  (Texts(c) \cap Texts(d))' = {}
  <2>1. ASSUME NEW a \in Clients, NEW b \in Clients, a # b, Admitted(a)
        PROVE  (Texts(a) \cap Texts(b))' = {}
    <3>1. Texts(b)' = Texts(b)
      BY <2>1 DEF Admitted, Texts
    <3> QED BY <1>1, <2>1, <3>1, TextsMove
  <2>2. CASE ~Admitted(c) /\ ~Admitted(d)
    BY <1>3, <2>2, TextsMove
  <2> QED BY <1>3, <2>1, <2>2
<1>4. ASSUME NEW i \in Ids, NEW v, Holds(i, v)'
      PROVE  v <= ver'
  <2>1. CASE v = 0
    BY <1>1, <2>1
  <2>2. CASE v # 0 /\ ~Holds(i, v)
    BY <1>1, <1>4, <2>2, HeldStep, WritersText
  <2>3. CASE Holds(i, v)
    BY <1>1, <2>3 DEF Holds, TypeOK, Point, Row, Item
  <2> QED BY <2>1, <2>2, <2>3
<1> QED BY <1>2, <1>3, <1>4 DEF Holds

\* Where the texts still to be written are stays where the requests expect them.
LEMMA TextPlaceInductive ==
    ASSUME IInv, TextInv, [Next]_vars, NEW c \in Clients
    PROVE  TextPlace(c)'
<1> USE DEF IInv, TextInv
<1>1. ASSUME NEW v \in Texts(c), NEW i \in Ids, Holds(i, v)', ~Holds(i, v)
      PROVE  Writes(c, i, v)
  <2>1. v # 0
    BY <1>1 DEF TextsApart
  <2>2. PICK d \in Clients : Writes(d, i, v)
    BY <1>1, <2>1, HeldStep
  <2>3. v \in Texts(d)
    BY <2>2, WritersText
  <2> QED BY <1>1, <2>2, <2>3 DEF TextsApart
<1>2. req[c].at \in Unwritten => \A i \in Ids : \A v \in Texts(c) : ~Holds(i, v)
  BY DEF TextPlace
<1>3. req[c].at \in Placed => /\ \A i \in Ids : Holds(i, req[c].ver) => i \in Target(c)
                              /\ \A i, j \in Target(c) : i = j
  BY DEF TextPlace
<1>4. CASE req'[c] = req[c]
  <2>1. Texts(c)' = Texts(c) /\ Target(c)' = Target(c)
    BY <1>4 DEF Texts, Target
  <2>2. CASE req[c].at \in Unwritten
    BY <1>1, <1>2, <1>4, <2>1, <2>2 DEF TextPlace, Writes, Unwritten, Placed
  <2>3. CASE req[c].at \in Placed
    <3>1. req[c].ver \in Texts(c)
      BY <2>3 DEF Texts, Placed, Unwritten
    <3> QED BY <1>1, <1>3, <1>4, <2>1, <2>3, <3>1 DEF TextPlace, Writes, Unwritten, Placed
  <2> QED BY <1>4, <2>2, <2>3 DEF TextPlace
<1>5. CASE Past(c)
  BY <1>5 DEF Past, TextPlace
<1>6. CASE Admitted(c)
  <2>1. Texts(c)' \subseteq (ver + 1)..ver' /\ req'[c].at \in Unwritten \ Placed
    BY <1>6 DEF Admitted, Texts, Unwritten, Placed, TypeOK
  <2>2. \A i \in Ids, v \in Texts(c)' : ~Holds(i, v)'
    BY <1>6, <2>1 DEF Admitted, Holds, TextsApart, TypeOK, Point, Row, Item
  <2> QED BY <2>1, <2>2 DEF TextPlace
<1>7. CASE GoesOn(c)
  <2>1. req[c].ver \in Texts(c) /\ req'[c].ver = req[c].ver
    BY <1>7 DEF GoesOn, Texts, Unwritten, Placed
  <2>2. CASE req'[c].at \in {"dedup", "merge", "embed"}
    <3>1. Texts(c)' = {req[c].ver} /\ req[c].at \in {"find", "dedup", "merge"}
      BY <1>7, <2>2 DEF GoesOn, Texts, Unwritten, Placed
    <3>2. \A i \in Ids : ~Holds(i, req[c].ver)
      BY <1>2, <2>1, <3>1 DEF Unwritten
    <3>3. \A i \in Ids : ~Holds(i, req[c].ver)'
      BY <1>1, <2>1, <3>1, <3>2 DEF Writes
    <3> QED BY <2>1, <2>2, <3>1, <3>3 DEF TextPlace, Holds, Unwritten, Placed
  <2>3. CASE req[c].at = "find" /\ req'[c].at = "uread" /\ \E i \in Ids : Target(c)' = {i}
    <3>1. \A i \in Ids : ~Holds(i, req[c].ver)
      BY <1>2, <2>1, <2>3 DEF Unwritten
    <3>2. \A i \in Ids : ~Holds(i, req[c].ver)'
      BY <1>1, <2>1, <2>3, <3>1 DEF Writes
    <3> QED BY <2>1, <2>3, <3>2 DEF TextPlace, Holds, Unwritten, Placed
  <2>4. CASE req[c].at = "uread" /\ req'[c].at = "uembed" /\ Target(c)' = Target(c)
    <3>1. \A i \in Ids : Holds(i, req[c].ver)' => i \in Target(c)
      BY <1>1, <1>3, <2>1, <2>4 DEF Writes, Placed
    <3> QED BY <1>3, <2>1, <2>4, <3>1 DEF TextPlace, Holds, Unwritten, Placed
  <2>5. CASE req[c].at = "embed" /\ req'[c].at = "failed" /\ \E i \in Ids : Target(c)' = {i}
    <3>1. \A i \in Ids : ~Holds(i, req[c].ver)
      BY <1>2, <2>1, <2>5 DEF Unwritten
    <3>2. \A i \in Ids : Holds(i, req[c].ver)' => i \in Target(c)'
      BY <1>1, <2>1, <2>5, <3>1 DEF Writes
    <3> QED BY <2>1, <2>5, <3>2 DEF TextPlace, Holds, Unwritten, Placed
  <2> QED BY <1>7, <2>2, <2>3, <2>4, <2>5 DEF GoesOn
<1> QED BY <1>4, <1>5, <1>6, <1>7, RequestMoves

\* No step brings a text under a second id.
LEMMA OneIdInductive ==
    ASSUME IInv, TextInv, [Next]_vars
    PROVE  OneIdPerText'
<1> SUFFICES ASSUME NEW i \in Ids, NEW j \in Ids, i # j, NEW v, v # 0,
                    Holds(i, v)', Holds(j, v)'
             PROVE  FALSE
  BY DEF OneIdPerText, Holds
<1> USE DEF IInv, TextInv
<1>1. ~(Holds(i, v) /\ Holds(j, v))
  BY DEF OneIdPerText, Holds
<1>2. ASSUME NEW a \in Ids, NEW b \in Ids, a # b, NEW c \in Clients, Writes(c, a, v),
             Holds(b, v)
      PROVE  FALSE
  <2>1. v \in Texts(c)
    BY <1>2, WritersText
  <2>2. req[c].at \in {"uembed", "failed"} /\ a \in Target(c) /\ v = req[c].ver
    BY <1>2, <2>1 DEF Writes, TextPlace, Unwritten
  <2> QED BY <1>2, <2>2 DEF TextPlace, Placed
<1>3. ASSUME NEW c \in Clients, NEW d \in Clients, Writes(c, i, v), Writes(d, j, v)
      PROVE  FALSE
  <2>1. c = d
    BY <1>3, WritersText DEF TextsApart
  <2>2. CASE req[c].at \in {"uembed", "failed"}
    BY <1>3, <2>1, <2>2 DEF Writes, TextPlace, Placed
  <2>3. CASE req[c].at = "embed"
    BY <1>3, <2>1, <2>3 DEF Writes
  <2>4. CASE req[c].at = "bembed"
    <3> DEFINE w == req[c].ver
    <3>0. w \in Nat
      BY DEF TypeOK, Request
    <3>1. PICK a \in Ids, b \in Ids :
             /\ a # b
             /\ <<i, v>> \in req'[c].docs
             /\ req'[c].docs = {<<a, w>>, <<b, w + 1>>}
      BY <1>3, <2>4 DEF Writes
    <3>2. <<j, v>> \in req'[c].docs
      BY <1>3, <2>1, <2>4 DEF Writes
    <3> QED BY <3>0, <3>1, <3>2
  <2> QED BY <1>3, <2>2, <2>3, <2>4 DEF Writes
<1> QED BY <1>1, <1>2, <1>3, HeldStep

\* No text is ever under two ids, in the collection and the retry queue together: for any
\* number of callers, a write that is retried after a lost reply, a crash or a cancelled
\* drain overwrites its own memory and never makes a second one.
THEOREM EveryTextHasOneId == Spec => []OneIdPerText
<1>1. Init => TextInv
  BY DEF Init, QueueInit, NoRow, NoItem, NoPoint, NoRequest, NewRequest, TextInv, TextsApart, Texts,
         TextPlace, Unwritten, Placed, OneIdPerText
<1>2. IInv /\ TextInv /\ [Next]_vars => (IInv /\ TextInv)'
  BY IInvInductive, TextsApartInductive, TextPlaceInductive, OneIdInductive DEF TextInv
<1>3. TextInv => OneIdPerText
  BY DEF TextInv
<1> QED BY <1>1, <1>2, <1>3, IInvInit, PTL DEF Spec

-----------------------------------------------------------------------------
(* One caller and no failures: a topic_key names one memory.               *)

\* Memory i has topic_key t.
Keyed(i, t) == Stored(i) /\ points[i].topic = t

\* The queue is empty and its drain idle; a request that is past the lookup without a
\* match still has none, and one that found a memory knows of no other with its key.
KeyHolds(c) ==
    /\ req[c].at \notin {"failed", "umeta"}
    /\ req[c].at \in {"dedup", "merge", "embed"} /\ req[c].topic # NoTopic
          => \A i \in Ids : ~Keyed(i, req[c].topic)
    /\ req[c].at = "bembed" => req[c].topic = NoTopic
    /\ req[c].at \in {"uread", "uembed"}
          => \E i \in Ids : /\ Target(c) = {i}
                            /\ req[c].topic # NoTopic
                                 => \A j \in Ids \ {i} : ~Keyed(j, req[c].topic)

\* The inductive invariant of a sequential caller.
KeyInv ==
    Sequential => /\ drain = NoDrain /\ Rows = {}
                  /\ \A c \in Clients : KeyHolds(c)
                  /\ SequentialKeyUnique

\* The single caller's steps keep its key's memory the only one.
LEMMA KeyRequest ==
    ASSUME TypeOK, KeyInv, Sequential, UNCHANGED faults,
           NEW c \in Clients, Invoke(c) \/ Resume(c) \/ Fail(c)
    PROVE  KeyHolds(c)' /\ SequentialKeyUnique'
<1> DEFINE Unique == \A i, j \in Ids : (i # j /\ Stored(i) /\ Stored(j)
                          /\ points[i].topic = points[j].topic) => points[i].topic = NoTopic
<1>1. Unique /\ KeyHolds(c) /\ ~Fault
  BY DEF KeyInv, SequentialKeyUnique, Sequential, Fault, TypeOK
<1>2. Unique' => SequentialKeyUnique'
  BY DEF SequentialKeyUnique
<1>3. UNCHANGED points => Unique'
  BY <1>1 DEF Stored
<1>4. req[c] \in Request /\ points \in [Ids -> Point]
  BY DEF TypeOK
<1>5. ASSUME Idle(c)
      PROVE  KeyHolds(c)'
  <2>1. req'[c].at = "idle"
    BY <1>5 DEF Idle, NoRequest, NewRequest, TypeOK
  <2> QED BY <2>1 DEF KeyHolds
<1>6. CASE \E t \in Topic : remember(c, t)
  BY <1>2, <1>3, <1>6 DEF remember, NewRequest, AfterFind, KeyHolds, TypeOK, storeVars
<1>7. CASE remember_batch(c)
  BY <1>2, <1>3, <1>7 DEF remember_batch, NewRequest, KeyHolds, TypeOK, storeVars
<1>8. CASE \E i \in Ids : delete(c, i)
  BY <1>2, <1>3, <1>8 DEF delete, NewRequest, KeyHolds, TypeOK
<1>9. CASE FoundTopic(c)
  <2>1. PICK i \in Ids : Keyed(i, req[c].topic) /\ GoWith(c, "uread", {<<i, req[c].ver>>}, 0)
    BY <1>9 DEF FoundTopic, Keyed
  <2>2. /\ req'[c].at = "uread" /\ req'[c].topic = req[c].topic
        /\ req'[c].docs = {<<i, req[c].ver>>}
    BY <2>1 DEF GoWith, TypeOK
  <2>3. Target(c)' = {i} /\ UNCHANGED points
    BY <1>9, <2>2 DEF Target, FoundTopic, storeVars
  <2>4. req[c].topic # NoTopic => \A j \in Ids \ {i} : ~Keyed(j, req[c].topic)'
    BY <1>1, <2>1, <2>2, <2>3 DEF Keyed, Stored
  <2> QED BY <1>2, <1>3, <2>2, <2>3, <2>4 DEF KeyHolds, Keyed, Stored
<1>10. CASE ReadRevision(c)
  <2>1. req[c].at = "uread" /\ req'[c].at = "uembed" /\ req'[c].topic = req[c].topic
    BY <1>10 DEF ReadRevision, GoWith, TypeOK
  <2>2. Target(c)' = Target(c) /\ UNCHANGED points
    BY <1>10 DEF ReadRevision, GoWith, Target, TypeOK, storeVars
  <2> QED BY <1>1, <1>2, <1>3, <2>1, <2>2 DEF KeyHolds, Keyed, Stored
<1>11. CASE NoTopicFound(c) \/ NoDuplicate(c)
  <2>1. /\ req'[c].at \in {"dedup", "embed"} /\ req'[c].topic = req[c].topic
        /\ UNCHANGED points
    <3>1. (\E at \in {"dedup", "embed"} : GoTo(c, at)) /\ UNCHANGED points
      BY <1>11 DEF NoTopicFound, NoDuplicate, AfterFind, storeVars
    <3> QED BY <3>1 DEF GoTo, TypeOK
  <2>2. req[c].topic # NoTopic => \A i \in Ids : ~Keyed(i, req[c].topic)
    BY <1>1, <1>11 DEF NoTopicFound, NoDuplicate, KeyHolds, Keyed
  <2> QED BY <1>2, <1>3, <2>1, <2>2 DEF KeyHolds, Keyed, Stored
<1>12. CASE FoundDuplicate(c)
  <2>1. req'[c].at = "merge" /\ req'[c].topic = req[c].topic /\ UNCHANGED points
    BY <1>12 DEF FoundDuplicate, GoWith, TypeOK, storeVars
  <2> QED BY <1>1, <1>2, <1>3, <1>12, <2>1 DEF FoundDuplicate, KeyHolds, Keyed, Stored
<1>13. CASE UpdateTopic(c)
  <2>1. PICK i \in Ids : /\ Target(c) = {i}
                         /\ req[c].topic # NoTopic => \A j \in Ids \ {i} : ~Keyed(j, req[c].topic)
    BY <1>1, <1>13 DEF UpdateTopic, KeyHolds
  <2>2. /\ \A j \in Ids \ {i} : points'[j] = points[j]
        /\ points'[i].topic = req[c].topic
    BY <1>13, <2>1 DEF UpdateTopic
  <2>3. Unique'
    BY <1>1, <2>1, <2>2 DEF Keyed, Stored
  <2>4. req'[c].at = "uwritten"
    BY <1>13 DEF UpdateTopic, GoTo, TypeOK
  <2> QED BY <1>2, <2>3, <2>4 DEF KeyHolds
<1>14. CASE AddNew(c)
  <2>1. PICK i \in Ids : points' = [points EXCEPT ![i] = NewPoint(req[c].ver, req[c].topic)]
    BY <1>14 DEF AddNew
  <2>2. req[c].topic # NoTopic => \A j \in Ids : ~Keyed(j, req[c].topic)
    BY <1>1, <1>14 DEF AddNew, KeyHolds
  <2>3. Unique'
    BY <1>1, <1>4, <2>1, <2>2 DEF Keyed, Stored, NewPoint
  <2>4. req'[c].at = "stored"
    BY <1>14 DEF AddNew, GoWith, TypeOK
  <2> QED BY <1>2, <2>3, <2>4 DEF KeyHolds
<1>15. CASE BatchUpsert(c)
  <2>1. PICK i \in Ids, j \in Ids : points' =
          [points EXCEPT ![i] = NewPoint(req[c].ver, NoTopic), ![j] = NewPoint(req[c].ver + 1, NoTopic)]
    BY <1>15 DEF BatchUpsert
  <2>2. Unique'
    BY <1>1, <1>4, <2>1 DEF Stored, NewPoint
  <2>3. req'[c].at = "bstored"
    BY <1>15 DEF BatchUpsert, GoWith, TypeOK
  <2> QED BY <1>2, <2>2, <2>3 DEF KeyHolds
<1>16. CASE DeletePoint(c)
  <2>1. \A i \in Ids : points'[i] = points[i] \/ ~Stored(i)'
    BY <1>16 DEF DeletePoint, Stored, NoPoint
  <2>2. Unique'
    BY <1>1, <2>1 DEF Stored
  <2>3. req'[c].at = "delfts"
    BY <1>16 DEF DeletePoint, GoTo, TypeOK
  <2> QED BY <1>2, <2>2, <2>3 DEF KeyHolds
<1>17. ~Fail(c) /\ ~UpdateMetadataOnly(c)
  BY <1>1 DEF Fail, UpdateQueued, DedupMergeFails, AddFails, RequestFails, UpdateMetadataOnly,
              KeyHolds
<1>18. CASE Resume(c)
  <2>1. \/ FoundTopic(c) \/ ReadRevision(c) \/ NoTopicFound(c) \/ NoDuplicate(c)
        \/ FoundDuplicate(c) \/ UpdateTopic(c) \/ AddNew(c) \/ BatchUpsert(c) \/ DeletePoint(c)
        \/ UNCHANGED points /\ Idle(c)
    BY <1>17, <1>18 DEF Resume, UpdateReturn, DedupMerge, StoredReturn, QueuedReturn,
                        BatchReturn, DeleteFts
  <2> QED BY <1>2, <1>3, <1>5, <1>9, <1>10, <1>11, <1>12, <1>13, <1>14, <1>15, <1>16, <2>1
<1>19. CASE Invoke(c)
  BY <1>6, <1>7, <1>8, <1>19 DEF Invoke
<1> QED BY <1>17, <1>18, <1>19

\* Failures are counted and never forgotten.
LEMMA FaultsGrow ==
    ASSUME TypeOK, [Next]_vars
    PROVE  UNCHANGED faults \/ faults' = faults + 1
<1>1. ASSUME NEW c \in Clients, Invoke(c) \/ Resume(c) \/ Fail(c)
      PROVE  UNCHANGED faults \/ faults' = faults + 1
  BY <1>1 DEF Invoke, remember, remember_batch, delete, Resume, FoundTopic, NoTopicFound,
     ReadRevision, UpdateTopic, UpdateReturn, UpdateMetadataOnly, FoundDuplicate, NoDuplicate,
     DedupMerge, AddNew, StoredReturn, QueuedReturn, BatchUpsert, BatchReturn, DeletePoint,
     DeleteFts, fts_delete, Fail, UpdateQueued, DedupMergeFails, AddFails, RequestFails,
     NoFault, Fault
<1> QED BY <1>1 DEF Next, Step, FtsInsert, FtsInsertFails, DrainStep, DrainStart, DrainAdd,
     DrainMarkDone, DrainMarkFailed, DrainCancelled, Crash, vars, Fault

\* The invariant of a sequential caller is kept.
LEMMA KeyInvInductive ==
    ASSUME TypeOK, KeyInv, [Next]_vars
    PROVE  KeyInv'
<1> SUFFICES ASSUME Sequential'
             PROVE  /\ (drain = NoDrain /\ Rows = {})'
                    /\ \A c \in Clients : KeyHolds(c)'
                    /\ SequentialKeyUnique'
  BY DEF KeyInv
<1>1. UNCHANGED faults /\ Sequential /\ ~Fault
  BY FaultsGrow DEF Sequential, TypeOK, Fault
<1>2. drain = NoDrain /\ Rows = {} /\ (\A c \in Clients : KeyHolds(c)) /\ SequentialKeyUnique
  BY <1>1 DEF KeyInv
<1>3. ASSUME NEW c \in Clients, Invoke(c) \/ Resume(c) \/ Fail(c)
      PROVE  /\ UNCHANGED <<drain, queue>>
             /\ \A d \in Clients : KeyHolds(d)'
             /\ SequentialKeyUnique'
  <2>1. ~QueuedReturn(c) /\ ~UpdateQueued(c)
    BY <1>1, <1>2 DEF QueuedReturn, UpdateQueued, KeyHolds
  <2>2. UNCHANGED <<drain, queue>>
    BY <1>3, <2>1 DEF Invoke, remember, remember_batch, delete, Resume, FoundTopic,
       NoTopicFound, ReadRevision, UpdateTopic, UpdateReturn, UpdateMetadataOnly,
       FoundDuplicate, NoDuplicate, DedupMerge, AddNew, StoredReturn, BatchUpsert,
       BatchReturn, DeletePoint, DeleteFts, Fail, DedupMergeFails, AddFails, RequestFails
  <2>3. \A d \in Clients : d = c
    BY <1>1 DEF Sequential
  <2> QED BY <1>1, <1>3, <2>2, <2>3, KeyRequest
<1>4. CASE UNCHANGED <<drain, queue, points, req>>
  <2>1. \A c \in Clients : Target(c)' = Target(c)
    BY <1>4 DEF Target
  <2> QED BY <1>1, <1>2, <1>4, <2>1
         DEF KeyHolds, Keyed, Stored, SequentialKeyUnique, Rows, Sequential
<1>5. ~(DrainStep \/ DrainMarkFailed \/ DrainCancelled \/ Crash)
  BY <1>1, <1>2 DEF DrainStep, DrainStart, DrainAdd, DrainMarkDone, DrainMarkFailed,
     DrainCancelled, Crash, NoDrain, dequeue_batch, Eligible, Rows
<1>6. ASSUME UNCHANGED <<drain, queue>>
      PROVE  (drain = NoDrain /\ Rows = {})'
  BY <1>2, <1>6 DEF Rows
<1> QED BY <1>1, <1>3, <1>4, <1>5, <1>6 DEF Next, Step, FtsInsert, FtsInsertFails, vars, Rows

\* While nothing has failed, a caller alone with the store never gets a second memory
\* under one topic_key: remember() with a key it has used replaces what it stored.
THEOREM SequentialKeysAreUnique == Spec => []SequentialKeyUnique
<1>1. Init => KeyInv
  BY DEF Init, QueueInit, NoRow, NoPoint, NoRequest, NewRequest, KeyInv, KeyHolds, Rows, Stored,
         SequentialKeyUnique
<1>2. TypeOK /\ KeyInv /\ [Next]_vars => KeyInv'
  BY KeyInvInductive
<1>3. KeyInv => SequentialKeyUnique
  BY DEF KeyInv, SequentialKeyUnique
<1> QED BY <1>1, <1>2, <1>3, TypeCorrect, PTL DEF Spec
=============================================================================
