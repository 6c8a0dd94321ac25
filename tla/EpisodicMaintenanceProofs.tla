--------------------- MODULE EpisodicMaintenanceProofs ---------------------
(***************************************************************************)
(* What the maintenance calls of EpisodicMaintenance keep while callers    *)
(* and the drain go on, for every number of ids, callers, texts, pages and *)
(* failures.  The store's own steps are those of EpisodicStoreProofs.      *)
(***************************************************************************)
EXTENDS EpisodicMaintenance, EpisodicStoreProofs

-----------------------------------------------------------------------------
(* Accepted memories.  What the maintenance deletes it has announced: an   *)
(* id on the list of the expired is one somebody asked to delete.          *)

ListedAreGone == \A n \in DOMAIN maint.list : Gone(maint.list[n])

\* The invariant of the store, and the types of the maintenance.
MInv == IInv /\ maint \in Maint /\ expired \subseteq Ids /\ ListedAreGone

\* What erases points that are to be deleted, and touches the index, keeps what the store relies on.
Erases ==
    /\ UNCHANGED <<used, queue, ver, req, drain>> /\ faults' \in Nat /\ faults <= faults'
    /\ points' \in [Ids -> Point] /\ fate' \in [Ids -> Fates]
    /\ fts' \in [Ids -> Nat] /\ ftsTasks' \in SUBSET (SUBSET Doc)
    /\ \A i \in Ids : fate'[i] = fate[i] \/ fate'[i] = "deleting"
    /\ \A i \in Ids : \/ points'[i] = points[i]
                      \/ points'[i] = NoPoint /\ fate'[i] \in {"deleting", "deleted"}

\* The stores hold what they held, but for what is to be deleted.
LEMMA ErasingKeeps ==
    ASSUME IInv, Erases
    PROVE  /\ IInv'
           /\ \A i \in Ids : Gone(i) => Gone(i)'
<1>1. \A i \in Ids : Gone(i) => Gone(i)'
  BY DEF Erases, Gone
<1>2. \A i \in Ids : Kept(i) => Kept(i)'
  BY <1>1 DEF Erases, Kept, Stored, Gone
<1>3. TypeOK'
  BY DEF IInv, TypeOK, Erases
<1>4. RequestsHold'
  <2>1. SUFFICES ASSUME NEW c \in Clients PROVE RequestHolds(c)'
    BY DEF RequestsHold
  <2>2. RequestHolds(c) /\ req' = req /\ Target(c)' = Target(c) /\ Target(c) \subseteq Ids
    BY TargetType DEF IInv, TypeOK, RequestsHold, Erases, Target
  <2> QED BY <2>2, <1>1, <1>2 DEF RequestHolds
<1>5. QueueHolds'
  BY <1>2 DEF IInv, QueueHolds, Erases, Rows
<1>6. DrainHolds'
  BY <1>2 DEF IInv, DrainHolds, Erases, Rows, TypeOK, Drain
<1>7. AcceptedDurable'
  <2>1. ASSUME NEW i \in Ids, fate'[i] = "live"
        PROVE  Stored(i)' \/ queue'[i].status \in {"pending", "failed"}
    <3>1. fate[i] = "live" /\ points'[i] = points[i]
      BY <2>1 DEF Erases
    <3> QED BY <3>1 DEF IInv, AcceptedDurable, Stored, Erases
  <2> QED BY <2>1 DEF AcceptedDurable
<1> QED BY <1>1, <1>3, <1>4, <1>5, <1>6, <1>7 DEF IInv

\* A step of the store, a crash, or one that leaves the store alone: announced ids stay so.
LEMMA StoreKeeps ==
    ASSUME IInv, [Next]_vars
    PROVE  IInv' /\ \A i \in Ids : Gone(i) => Gone(i)'
BY IInvInductive, GoneStays DEF IInv

\* A list that stays announced.
LEMMA ListKeeps ==
    ASSUME MInv, maint'.list = maint.list, \A i \in Ids : Gone(i) => Gone(i)'
    PROVE  ListedAreGone'
<1>1. \A n \in DOMAIN maint.list : maint.list[n] \in Ids
  BY DEF MInv, Maint
<1> QED BY <1>1 DEF MInv, ListedAreGone

\* The empty record of a call, and the fields a step sets.
LEMMA NoMaintType == NoMaint \in Maint /\ NoMaint.list = << >>
BY DEF NoMaint, Maint, MaintSteps

\* Pages are sets of stored ids.
LEMMA PageType ==
    ASSUME NEW n
    PROVE  Newest(n) \subseteq Ids /\ StoredIds \subseteq Ids /\ IndexedIds \subseteq Ids
BY DEF Newest, StoredIds, IndexedIds

\* The number of pages is a natural number.
LEMMA PagesType ==
    Pages \in Nat
<1>1. IsFiniteSet(StoredIds)
  BY QueueAssumption, FS_Subset DEF StoredIds
<1>2. Cardinality(StoredIds) \in Nat
  BY <1>1, FS_CardinalityType
<1>3. PICK n \in Nat : n = Cardinality(StoredIds)
  BY <1>2
<1>4. (n + PageLimit - 1) \div PageLimit \in Nat
  BY MaintenanceAssumption
<1> QED BY <1>3, <1>4 DEF Pages

\* Steps that begin or end a call.
LEMMA CallKeeps ==
    ASSUME MInv,
           \/ reconcile_stores \/ cleanup_expired \/ cleanup_dedup
           \/ CleanupReturn \/ DedupReturn \/ MaintStops
    PROVE  MInv' /\ Erases
<1>1. /\ UNCHANGED <<points, fts, ftsTasks, used, fate, queue, ver, req, drain, expired>>
      /\ faults' \in Nat /\ faults <= faults'
  BY DEF reconcile_stores, cleanup_expired, cleanup_dedup, CleanupReturn, DedupReturn, MaintStops,
         vars, storeVars, Fault, MInv, IInv, TypeOK
<1>2. Erases
  BY <1>1 DEF Erases, MInv, IInv, TypeOK
<1>3. maint' \in Maint /\ maint'.list = << >>
  <2>1. CASE CleanupReturn \/ DedupReturn \/ MaintStops
    BY <2>1, NoMaintType DEF CleanupReturn, DedupReturn, MaintStops
  <2>2. CASE reconcile_stores
    <3>1. PICK b \in BOOLEAN : b <=> ftsTasks = {}
      OBVIOUS
    <3>2. maint' = [NoMaint EXCEPT !.at = "index", !.page = Newest(ScrollLimit), !.quiet = b]
      BY <2>2, <3>1 DEF reconcile_stores
    <3> QED BY <3>2, NoMaintType, PageType DEF Maint, MaintSteps
  <2>3. CASE cleanup_expired
    BY <2>3, NoMaintType, PagesType DEF cleanup_expired, Maint, MaintSteps
  <2>4. CASE cleanup_dedup
    BY <2>4, NoMaintType, PagesType DEF cleanup_dedup, Maint, MaintSteps
  <2> QED BY <2>1, <2>2, <2>3, <2>4
<1>4. IInv'
  BY <1>2, ErasingKeeps DEF MInv
<1> QED BY <1>1, <1>2, <1>3, <1>4 DEF MInv, ListedAreGone

\* Steps of a reconciliation: the index only.
LEMMA ReconcileKeeps ==
    ASSUME MInv, ReadIndex \/ FetchMissing \/ ScheduleMissing
    PROVE  MInv' /\ Erases
<1>1. /\ UNCHANGED <<points, fts, used, fate, queue, ver, req, drain, expired, faults>>
      /\ ftsTasks' = ftsTasks \/ ftsTasks' = ftsTasks \cup {maint.docs}
  BY DEF ReadIndex, FetchMissing, ScheduleMissing, vars
<1>2. maint.docs \in SUBSET Doc
  BY DEF MInv, Maint
<1>3. ftsTasks' \in SUBSET (SUBSET Doc)
  BY <1>1, <1>2 DEF MInv, IInv, TypeOK
<1>4. Erases
  BY <1>1, <1>3 DEF Erases, MInv, IInv, TypeOK
<1>5. maint' \in Maint /\ (maint'.list = maint.list \/ maint'.list = << >>)
  <2>1. CASE ReadIndex
    BY <2>1, PageType DEF ReadIndex, MInv, Maint, MaintSteps
  <2>2. CASE ScheduleMissing
    BY <2>2, NoMaintType DEF ScheduleMissing
  <2>3. CASE FetchMissing
    <3>1. {<<i, points[i].ver>> : i \in maint.page \cap StoredIds} \in SUBSET Doc
      <4>1. ASSUME NEW i \in maint.page \cap StoredIds PROVE <<i, points[i].ver>> \in Doc
        BY PageType DEF MInv, IInv, TypeOK, Point, Doc
      <4> QED BY <4>1
    <3>2. PICK docs \in SUBSET Doc : docs = {<<i, points[i].ver>> : i \in maint.page \cap StoredIds}
      BY <3>1
    <3>3. maint' = NoMaint \/ maint' = [maint EXCEPT !.at = "schedule", !.docs = docs]
      BY <2>3, <3>2 DEF FetchMissing
    <3> QED BY <3>3, NoMaintType DEF MInv, Maint, MaintSteps
  <2> QED BY <2>1, <2>2, <2>3
<1>6. IInv' /\ \A i \in Ids : Gone(i) => Gone(i)'
  BY <1>4, ErasingKeeps DEF MInv
<1>7. ListedAreGone'
  BY <1>5, <1>6, ListKeeps DEF ListedAreGone
<1> QED BY <1>1, <1>4, <1>5, <1>6, <1>7 DEF MInv

\* Taking an entry out of the index, or failing to.
LEMMA UnindexKeeps ==
    ASSUME MInv, RemoveOrphan \/ Unindex \/ UnindexLoser
    PROVE  MInv' /\ Erases
<1>1. PICK i \in maint.todo :
        /\ fts_delete(i)
        /\ maint' = [maint EXCEPT !.todo = @ \ {i}, !.quiet = @ /\ NoFault]
  BY DEF RemoveOrphan, Unindex, UnindexLoser
<1>2. UNCHANGED <<points, ftsTasks, used, queue, ver, req, drain, expired, fate>>
  BY DEF RemoveOrphan, Unindex, UnindexLoser
<1>3. fts' \in [Ids -> Nat] /\ faults' \in Nat /\ faults <= faults'
  BY <1>1 DEF fts_delete, NoFault, Fault, MInv, IInv, TypeOK
<1>4. Erases
  BY <1>2, <1>3 DEF Erases, MInv, IInv, TypeOK
<1>5. maint' \in Maint /\ maint'.list = maint.list
  <2>1. PICK b \in BOOLEAN : b <=> (maint.quiet /\ NoFault)
    OBVIOUS
  <2>2. maint.quiet \in BOOLEAN
    BY DEF MInv, Maint
  <2>3. b = (maint.quiet /\ NoFault)
    BY <2>1, <2>2
  <2>4. maint' = [maint EXCEPT !.todo = @ \ {i}, !.quiet = b]
    BY <1>1, <2>3
  <2> QED BY <2>4 DEF MInv, Maint
<1>6. IInv' /\ \A j \in Ids : Gone(j) => Gone(j)'
  BY <1>4, ErasingKeeps DEF MInv
<1> QED BY <1>2, <1>4, <1>5, <1>6, ListKeeps DEF MInv
\* A page of expired memories: each is announced before it is listed.
LEMMA ReadPageKeeps ==
    ASSUME MInv, ReadPage
    PROVE  MInv' /\ Erases
<1>1. PICK found : found = Newest(PageLimit) \cap expired
  OBVIOUS
<1>2. /\ \E s \in NewestFirst(found) : maint' = [maint EXCEPT !.left = @ - 1, !.list = @ \o s]
      /\ fate' = [i \in Ids |-> IF i \in found THEN "deleting" ELSE fate[i]]
      /\ maint.left > 0
      /\ UNCHANGED <<points, fts, ftsTasks, used, queue, ver, req, drain, faults, expired>>
  BY <1>1 DEF ReadPage
<1>3. PICK s \in NewestFirst(found) : maint' = [maint EXCEPT !.left = @ - 1, !.list = @ \o s]
  BY <1>2
<1>4. found \subseteq Ids /\ IsFiniteSet(found)
  BY <1>1, PageType, QueueAssumption, FS_Subset
<1>5. PICK k \in Nat : k = Cardinality(found)
  BY <1>4, FS_CardinalityType
<1>6. s \in [1..k -> found]
  BY <1>3, <1>5 DEF NewestFirst
<1>7. s \in Seq(found)
  BY <1>6
<1>8. s \in Seq(Ids)
  BY <1>4, <1>7
<1>20. PICK a \in Seq(Ids) : a = maint.list
  BY DEF MInv, Maint
<1>21. a \o s \in Seq(Ids)
  BY <1>8
<1>9. PICK l \in Seq(Ids) : l = a \o s
  BY <1>21
<1>10. maint' \in Maint /\ maint'.list = l
  <2>1. maint.left - 1 \in Nat
    BY <1>2 DEF MInv, Maint
  <2>2. maint' = [maint EXCEPT !.left = @ - 1, !.list = l]
    BY <1>3, <1>20, <1>9
  <2> QED BY <2>1, <2>2 DEF MInv, Maint
<1>11. Erases
  BY <1>2 DEF Erases, MInv, IInv, TypeOK, Fates
<1>12. IInv' /\ \A i \in Ids : Gone(i) => Gone(i)'
  BY <1>11, ErasingKeeps DEF MInv
<1>13. ASSUME NEW n \in DOMAIN l PROVE Gone(l[n])'
  <2>1. (\E m \in DOMAIN a : l[n] = a[m]) \/ l[n] \in found
    <3>1. CASE n <= Len(a)
      <4>1. n \in DOMAIN a /\ l[n] = a[n]
        BY <3>1, <1>7, <1>9
      <4> QED BY <4>1
    <3>2. CASE ~(n <= Len(a))
      <4>1. n - Len(a) \in 1..Len(s) /\ l[n] = s[n - Len(a)]
        BY <3>2, <1>7, <1>9
      <4> QED BY <4>1, <1>7
    <3> QED BY <3>1, <3>2
  <2>2. ASSUME NEW m \in DOMAIN a, l[n] = a[m] PROVE Gone(l[n])'
    <3>1. Gone(a[m]) /\ a[m] \in Ids
      BY <1>20 DEF MInv, ListedAreGone
    <3> QED BY <3>1, <2>2, <1>12
  <2>3. l[n] \in found => Gone(l[n])'
    BY <1>2, <1>4 DEF Gone
  <2> QED BY <2>1, <2>2, <2>3
<1>14. ListedAreGone'
  BY <1>10, <1>13 DEF ListedAreGone
<1> QED BY <1>2, <1>10, <1>11, <1>12, <1>14 DEF MInv

\* A batch of the list is deleted: all of it was announced.
LEMMA DeleteExpiredKeeps ==
    ASSUME MInv, DeleteExpired
    PROVE  MInv' /\ Erases
<1>1. PICK size : size = IF Len(maint.list) < PageLimit THEN Len(maint.list) ELSE PageLimit
  OBVIOUS
<1>2. PICK batch : batch = {maint.list[n] : n \in 1..size}
  OBVIOUS
<1>3. /\ points' = [i \in Ids |-> IF i \in batch THEN NoPoint ELSE points[i]]
      /\ expired' = expired \ batch
      /\ maint' = [maint EXCEPT !.at = "unindex", !.todo = batch, !.list = SubSeq(@, size + 1, Len(@))]
      /\ UNCHANGED <<fts, ftsTasks, used, fate, queue, ver, req, drain, faults>>
  BY <1>1, <1>2 DEF DeleteExpired
<1>4. /\ maint.list \in Seq(Ids) /\ size \in Nat /\ size <= Len(maint.list)
      /\ \A n \in 1..size : n \in DOMAIN maint.list
  <2>1. maint.list \in Seq(Ids)
    BY DEF MInv, Maint
  <2>2. Len(maint.list) \in Nat /\ DOMAIN maint.list = 1..Len(maint.list)
    BY <2>1
  <2> QED BY <1>1, <2>1, <2>2, MaintenanceAssumption
<1>5. batch \in SUBSET Ids /\ \A i \in batch : Gone(i)
  BY <1>2, <1>4 DEF MInv, ListedAreGone
<1>20. PICK a \in Seq(Ids) : a = maint.list
  BY <1>4
<1>21. SubSeq(a, size + 1, Len(a)) \in Seq(Ids)
  BY <1>4
<1>6. PICK l \in Seq(Ids) : l = SubSeq(a, size + 1, Len(a))
  BY <1>21
<1>7. ASSUME NEW n \in DOMAIN l PROVE \E m \in DOMAIN a : l[n] = a[m]
  <2>1. n + size \in DOMAIN a /\ l[n] = a[n + size]
    BY <1>4, <1>6, <1>20
  <2> QED BY <2>1
<1>8. maint' \in Maint /\ maint'.list = l
  <2>1. maint' = [maint EXCEPT !.at = "unindex", !.todo = batch, !.list = l]
    BY <1>3, <1>6, <1>20
  <2> QED BY <2>1, <1>5 DEF MInv, Maint, MaintSteps
<1>9. points' \in [Ids -> Point]
  BY <1>3 DEF MInv, IInv, TypeOK, NoPoint, Point, Topic
<1>10. Erases
  BY <1>3, <1>5, <1>9 DEF Erases, MInv, IInv, TypeOK, Gone
<1>11. IInv' /\ \A i \in Ids : Gone(i) => Gone(i)'
  BY <1>10, ErasingKeeps DEF MInv
<1>12. ListedAreGone'
  <2>1. \A m \in DOMAIN a : Gone(a[m]) /\ a[m] \in Ids
    BY <1>20 DEF MInv, ListedAreGone
  <2>2. \A n \in DOMAIN l : Gone(l[n])'
    BY <2>1, <1>7, <1>11
  <2> QED BY <2>2, <1>8 DEF ListedAreGone
<1> QED BY <1>3, <1>8, <1>10, <1>11, <1>12 DEF MInv

\* Looking for near-duplicates writes nothing.
LEMMA LookingKeeps ==
    ASSUME MInv, ReadDedupPage \/ Absorb \/ PageFails
    PROVE  MInv' /\ Erases
<1>1. /\ UNCHANGED <<points, fts, ftsTasks, used, fate, queue, ver, req, drain, expired>>
      /\ faults' \in Nat /\ faults <= faults'
  <2>1. faults \in Nat /\ faults <= faults
    BY DEF MInv, IInv, TypeOK
  <2>2. CASE ReadDedupPage
    BY <2>1, <2>2 DEF ReadDedupPage, vars
  <2>3. CASE Absorb
    BY <2>1, <2>3 DEF Absorb, vars
  <2>4. CASE PageFails
    BY <2>1, <2>4 DEF PageFails, storeVars, Fault
  <2> QED BY <2>2, <2>3, <2>4
<1>2. Erases
  BY <1>1 DEF Erases, MInv, IInv, TypeOK
<1>3. maint' \in Maint /\ maint'.list = maint.list
  <2>1. CASE ReadDedupPage
    <3>1. maint.left - 1 \in Nat /\ maint \in Maint
      BY <2>1 DEF ReadDedupPage, MInv, Maint
    <3>2. maint' = [maint EXCEPT !.left = @ - 1, !.page = Newest(PageLimit)]
      BY <2>1 DEF ReadDedupPage
    <3>3. Newest(PageLimit) \in SUBSET Ids
      BY PageType
    <3> QED BY <3>1, <3>2, <3>3 DEF Maint
  <2>2. CASE PageFails
    BY <2>2 DEF PageFails, MInv, Maint
  <2>3. CASE Absorb
    <3>1. PICK i \in maint.page :
            \/ maint' = [maint EXCEPT !.page = @ \ {i}]
            \/ \E dups \in SUBSET (StoredIds \ (maint.done \cup {i})) :
                 maint' = [maint EXCEPT !.page    = @ \ {i},
                                        !.todo    = @ \cup dups,
                                        !.done    = @ \cup dups \cup {i},
                                        !.winners = IF dups = {} THEN @ ELSE @ \cup {i}]
      BY <2>3 DEF Absorb
    <3>2. i \in Ids
      BY DEF MInv, Maint
    <3>3. CASE maint' = [maint EXCEPT !.page = @ \ {i}]
      BY <3>3 DEF MInv, Maint
    <3>4. ASSUME NEW dups \in SUBSET (StoredIds \ (maint.done \cup {i})),
                 maint' = [maint EXCEPT !.page    = @ \ {i},
                                        !.todo    = @ \cup dups,
                                        !.done    = @ \cup dups \cup {i},
                                        !.winners = IF dups = {} THEN @ ELSE @ \cup {i}]
          PROVE  maint' \in Maint /\ maint'.list = maint.list
      <4>1. dups \subseteq Ids
        BY PageType
      <4> QED BY <3>2, <3>4, <4>1 DEF MInv, Maint
    <3> QED BY <3>1, <3>3, <3>4
  <2> QED BY <2>1, <2>2, <2>3
<1>4. IInv' /\ \A i \in Ids : Gone(i) => Gone(i)'
  BY <1>2, ErasingKeeps DEF MInv
<1> QED BY <1>1, <1>2, <1>3, <1>4, ListKeeps DEF MInv

\* The absorbed are deleted, announced in the same step.
LEMMA DeleteLosersKeeps ==
    ASSUME MInv, DeleteLosers
    PROVE  MInv' /\ Erases
<1>1. /\ \/ /\ points' = [i \in Ids |-> IF i \in maint.todo THEN NoPoint ELSE points[i]]
            /\ fate' = [i \in Ids |-> IF i \in maint.todo THEN "deleting" ELSE fate[i]]
            /\ expired' = expired \ maint.todo
            /\ NoFault
         \/ Fault /\ UNCHANGED <<points, fate, expired>>
      /\ maint' = [maint EXCEPT !.at = "dunindex"]
      /\ UNCHANGED <<fts, ftsTasks, used, queue, ver, req, drain>>
  BY DEF DeleteLosers
<1>2. /\ points' \in [Ids -> Point] /\ fate' \in [Ids -> Fates] /\ expired' \subseteq Ids
      /\ faults' \in Nat /\ faults <= faults'
  BY <1>1 DEF MInv, IInv, TypeOK, NoPoint, Point, Topic, Fates, Fault, NoFault
<1>3. Erases
  BY <1>1, <1>2 DEF Erases, MInv, IInv, TypeOK
<1>4. maint' \in Maint /\ maint'.list = maint.list
  BY <1>1 DEF MInv, Maint, MaintSteps
<1>5. IInv' /\ \A i \in Ids : Gone(i) => Gone(i)'
  BY <1>3, ErasingKeeps DEF MInv
<1> QED BY <1>2, <1>3, <1>4, <1>5, ListKeeps DEF MInv

\* The store's own steps, a crash, the passing of an expires_at.
LEMMA StoreStepKeeps ==
    ASSUME MInv, StoreStep \/ MCrash \/ \E i \in Ids : Expire(i)
    PROVE  MInv'
<1>1. [Next]_vars
  BY DEF StoreStep, MCrash, Expire, Next
<1>2. expired' \subseteq Ids
  BY DEF StoreStep, MCrash, Expire, MInv
<1>3. maint' \in Maint /\ (maint'.list = maint.list \/ maint'.list = << >>)
  <2>1. CASE maint' = NoMaint
    BY <2>1, NoMaintType
  <2>2. CASE maint' = maint \/ maint' = [maint EXCEPT !.quiet = FALSE]
    BY <2>2 DEF MInv, Maint
  <2> QED BY <2>1, <2>2 DEF StoreStep, MCrash, Expire
<1>4. IInv' /\ \A i \in Ids : Gone(i) => Gone(i)'
  BY <1>1, StoreKeeps DEF MInv
<1>5. ListedAreGone'
  BY <1>3, <1>4, ListKeeps DEF ListedAreGone
<1> QED BY <1>2, <1>3, <1>4, <1>5 DEF MInv

\* Every step beside and of the maintenance keeps the invariant.
LEMMA MInvInductive == MInv /\ [MNext]_mvars => MInv'
<1>1. ASSUME MInv, MNext PROVE MInv'
  BY <1>1, CallKeeps, ReconcileKeeps, UnindexKeeps, ReadPageKeeps, DeleteExpiredKeeps, LookingKeeps,
     DeleteLosersKeeps, StoreStepKeeps DEF MNext, MaintResume
<1>2. ASSUME MInv, UNCHANGED mvars PROVE MInv'
  <2>1. IInv'
    BY <1>2, IInvInductive DEF MInv, mvars
  <2> QED BY <1>2, <2>1 DEF MInv, mvars, vars, ListedAreGone, Gone
<1> QED BY <1>1, <1>2

\* It holds at the start.
LEMMA MInvInit == MInit => MInv
BY IInvInit, NoMaintType DEF MInit, MInv, ListedAreGone

\* The maintenance calls lose no accepted memory either: a cleanup or a deduplication running
\* beside callers, the drain, failures and crashes deletes only what is announced as deleted
\* (episodic_maintenance.py).
THEOREM MaintenanceKeepsAccepted == MSpec => []AcceptedDurable
<1>1. MInv => AcceptedDurable
  BY DEF MInv, IInv
<1> QED BY <1>1, MInvInit, MInvInductive, PTL DEF MSpec
-----------------------------------------------------------------------------
(* The ledger of the memories is kept beside the maintenance as well: what *)
(* a cleanup or a deduplication announces has an id that was given out.    *)

\* What a deduplication is about to delete was in the collection.
LosersUsed == maint.at = "dpage" => maint.todo \subseteq used

\* The invariant of the maintenance with what the ledger needs.
MLInv == MInv /\ LInv /\ LosersUsed

\* Erasing what is to be deleted is a step of the ledger, and keeps what the ledger needs.
LEMMA ErasingLedgers ==
    ASSUME LInv, Erases, \A i \in Ids : fate'[i] = fate[i] \/ i \in used
    PROVE  LInv' /\ Ledger!LedgerNext
<1>1. IInv' /\ IInv
  BY ErasingKeeps DEF LInv
<1>2. UsedHolds'
  <2>1. ASSUME NEW i \in Ids, Stored(i)' \/ fate'[i] # "unknown" \/ i \in Rows'
        PROVE  i \in used
    BY <2>1 DEF LInv, UsedHolds, Erases, Stored, Rows
  <2>2. ASSUME NEW c \in Clients PROVE Target(c)' \subseteq used
    BY DEF LInv, UsedHolds, Erases, Target
  <2> QED BY <2>1, <2>2 DEF UsedHolds, Erases
<1>3. BatchPending'
  BY DEF LInv, BatchPending, Erases
<1>4. FailedAlone'
  <2>1. SUFFICES ASSUME NEW c \in Clients, req[c].at = "failed", NEW i \in Target(c)
        PROVE  /\ fate'[i] # "unsaved"
               /\ \A d \in Clients \ {c} : req[d].at = "failed" => i \notin Target(d)
    BY DEF FailedAlone, Erases, Target
  <2>2. i \in Ids /\ fate[i] # "unsaved"
    BY <1>1, <2>1, TargetType DEF LInv, FailedAlone, IInv, TypeOK
  <2> QED BY <2>1, <2>2 DEF LInv, FailedAlone, Erases
<1>5. ASSUME NEW i \in Ids
      PROVE  Places[i] = PlaceOf(i) /\ Places'[i] = PlaceOf(i)'
  BY DEF Places
<1>6. ASSUME NEW i \in Ids
      PROVE  Ledger!Tells(i) /\ Ledger!Moves(i)
  <2>1. Ledger!Tells(i)
    BY DEF Erases, Ledger!Tells
  <2>2. CASE points'[i] = points[i]
    <3>1. PlaceOf(i)' = PlaceOf(i)
      BY <2>2 DEF PlaceOf, Stored, Erases
    <3> QED BY <1>5, <2>1, <3>1 DEF Ledger!Moves, Places
  <2>3. CASE points'[i] # points[i]
    <3>1. Ledger!ToGo(i)'
      BY <2>3 DEF Erases, Ledger!ToGo
    <3>2. /\ PlaceOf(i) = "dead" => PlaceOf(i)' \in {"stored", "dead"}
          /\ PlaceOf(i)' = "dead" => PlaceOf(i) # "nowhere"
      BY DEF PlaceOf, Erases
    <3> QED BY <1>5, <2>1, <3>1, <3>2 DEF Ledger!Moves, Places
  <2> QED BY <2>1, <2>2, <2>3
<1> QED BY <1>1, <1>2, <1>3, <1>4, <1>6, LedgerStep DEF LInv, Erases

\* The steps of the maintenance that are its own.
Maintains ==
    \/ reconcile_stores \/ cleanup_expired \/ cleanup_dedup
    \/ MaintResume \/ PageFails \/ MaintStops

\* They announce only what is, or was, in the collection.
LEMMA AnnouncedAreUsed ==
    ASSUME MLInv, Maintains
    PROVE  \A i \in Ids : fate'[i] = fate[i] \/ i \in used
<1>1. CASE ReadPage
  <2>1. Newest(PageLimit) \subseteq used
    BY DEF MLInv, LInv, UsedHolds, Newest, StoredIds
  <2> QED BY <1>1, <2>1 DEF ReadPage
<1>2. CASE DeleteLosers
  BY <1>2 DEF DeleteLosers, MLInv, LosersUsed
<1>3. CASE Maintains /\ ~ReadPage /\ ~DeleteLosers
  BY <1>3 DEF Maintains, MaintResume, reconcile_stores, cleanup_expired, cleanup_dedup, ReadIndex,
     RemoveOrphan, FetchMissing, ScheduleMissing, DeleteExpired, Unindex, CleanupReturn,
     ReadDedupPage, Absorb, UnindexLoser, DedupReturn, PageFails, MaintStops, vars, storeVars
<1> QED BY <1>1, <1>2, <1>3

\* What a deduplication collects stays among the ids that were given out.
LEMMA LosersUsedInductive ==
    ASSUME MLInv, [MNext]_mvars, used \subseteq used'
    PROVE  LosersUsed'
<1>0. maint \in Maint /\ UsedHolds /\ LosersUsed
  BY DEF MLInv, MInv, LInv
<1>1. ASSUME maint'.at = "dpage" => maint.at = "dpage" /\ maint'.todo = maint.todo
      PROVE  LosersUsed'
  BY <1>0, <1>1 DEF LosersUsed
<1>2. CASE StoreStep \/ MCrash \/ (\E i \in Ids : Expire(i)) \/ UNCHANGED mvars
  <2>1. maint' \in {maint, NoMaint, [maint EXCEPT !.quiet = FALSE]}
    BY <1>2 DEF StoreStep, MCrash, Expire, mvars
  <2> QED BY <1>0, <1>1, <2>1 DEF Maint, NoMaint
<1>3. CASE cleanup_dedup
  <2>1. maint'.todo = {}
    BY <1>3 DEF cleanup_dedup, NoMaint
  <2> QED BY <2>1 DEF LosersUsed
<1>4. CASE ReadDedupPage \/ PageFails
  BY <1>0, <1>1, <1>4 DEF ReadDedupPage, PageFails, Maint
<1>5. CASE Absorb
  <2>1. StoredIds \subseteq used
    BY <1>0 DEF UsedHolds, StoredIds
  <2>2. maint.at = "dpage" /\ (maint'.todo = maint.todo
          \/ \E dups \in SUBSET StoredIds : maint'.todo = maint.todo \cup dups)
    <3>1. PICK i \in maint.page :
            \/ maint' = [maint EXCEPT !.page = @ \ {i}]
            \/ \E dups \in SUBSET (StoredIds \ (maint.done \cup {i})) :
                 maint' = [maint EXCEPT !.page    = @ \ {i},
                                        !.todo    = @ \cup dups,
                                        !.done    = @ \cup dups \cup {i},
                                        !.winners = IF dups = {} THEN @ ELSE @ \cup {i}]
      BY <1>5 DEF Absorb
    <3>2. maint.at = "dpage"
      BY <1>5 DEF Absorb
    <3> QED BY <1>0, <3>1, <3>2 DEF Maint
  <2> QED BY <1>0, <2>1, <2>2 DEF LosersUsed
<1>6. CASE \/ reconcile_stores \/ cleanup_expired \/ ScheduleMissing \/ CleanupReturn
           \/ DedupReturn \/ MaintStops
  <2>1. maint'.at \in {"idle", "index", "page"}
    <3>1. CASE reconcile_stores
      BY <3>1 DEF reconcile_stores, NoMaint
    <3>2. CASE cleanup_expired
      BY <3>2 DEF cleanup_expired, NoMaint
    <3>3. CASE ScheduleMissing \/ CleanupReturn \/ DedupReturn \/ MaintStops
      BY <3>3 DEF ScheduleMissing, CleanupReturn, DedupReturn, MaintStops, NoMaint
    <3> QED BY <1>6, <3>1, <3>2, <3>3
  <2> QED BY <2>1 DEF LosersUsed
<1>7. CASE ReadIndex \/ RemoveOrphan \/ ReadPage \/ DeleteExpired \/ Unindex
           \/ DeleteLosers \/ UnindexLoser
  <2>1. maint'.at # "dpage"
    BY <1>0, <1>7 DEF ReadIndex, RemoveOrphan, ReadPage, DeleteExpired, Unindex, DeleteLosers,
       UnindexLoser, Maint
  <2> QED BY <2>1 DEF LosersUsed
<1>8. CASE FetchMissing
  <2>1. maint'.at \in {"idle", "schedule"}
    BY <1>0, <1>8 DEF FetchMissing, NoMaint, Maint
  <2> QED BY <2>1 DEF LosersUsed
<1> QED BY <1>2, <1>3, <1>4, <1>5, <1>6, <1>7, <1>8 DEF MNext, MaintResume

\* Every step beside and of the maintenance is one of the ledger, or stutters.
LEMMA MaintenanceLedgers ==
    ASSUME MLInv, [MNext]_mvars
    PROVE  MLInv' /\ Ledger!LedgerNext
<1>1. MInv'
  BY MInvInductive DEF MLInv
<1>2. CASE StoreStep \/ MCrash \/ (\E i \in Ids : Expire(i)) \/ UNCHANGED mvars
  <2>1. [Next]_vars
    BY <1>2 DEF StoreStep, MCrash, Expire, Next, mvars
  <2>2. LInv' /\ Ledger!LedgerNext /\ used \subseteq used'
    BY <2>1, LInvInductive, StoreLedgers, UsedGrows DEF MLInv
  <2> QED BY <1>1, <2>2, LosersUsedInductive DEF MLInv
<1>3. CASE Maintains
  <2>1. Erases
    BY <1>3, CallKeeps, ReconcileKeeps, UnindexKeeps, ReadPageKeeps, DeleteExpiredKeeps,
       LookingKeeps, DeleteLosersKeeps DEF Maintains, MaintResume, MLInv
  <2>2. \A i \in Ids : fate'[i] = fate[i] \/ i \in used
    BY <1>3, AnnouncedAreUsed
  <2>3. LInv' /\ Ledger!LedgerNext
    BY <2>1, <2>2, ErasingLedgers DEF MLInv
  <2>4. used \subseteq used'
    BY <2>1 DEF Erases
  <2> QED BY <1>1, <2>3, <2>4, LosersUsedInductive DEF MLInv
<1> QED BY <1>2, <1>3 DEF MNext, Maintains

\* The store beside its maintenance implements MemoryLedger: what reconciliation, expiry and
\* deduplication take away they have announced, and nothing else moves because of them
\* (episodic_maintenance.py).
THEOREM MaintenanceKeepsLedger == MSpec => LedgerKept
<1>1. MInit => MLInv /\ Ledger!LedgerInit
  BY MInvInit, LInvInit, LedgerStarts DEF MInit, MLInv, LosersUsed, NoMaint
<1>2. MLInv /\ [MNext]_mvars => MLInv'
  BY MaintenanceLedgers
<1>3. MLInv /\ [MNext]_mvars => [Ledger!LedgerNext]_<<fate, [i \in Ids |-> PlaceOf(i)]>>
  BY MaintenanceLedgers
<1> QED BY <1>1, <1>2, <1>3, PTL DEF MSpec, LedgerKept, Ledger!LedgerSpec

-----------------------------------------------------------------------------
(* The rest of what the store promises is kept beside the maintenance too. *)

\* Whatever runs, a step is one of the store or erases what is to be deleted.
LEMMA StepsOrErases ==
    ASSUME MInv, [MNext]_mvars
    PROVE  [Next]_vars \/ Erases
<1>1. CASE StoreStep \/ MCrash \/ (\E i \in Ids : Expire(i)) \/ UNCHANGED mvars
  BY <1>1 DEF StoreStep, MCrash, Expire, Next, mvars
<1>2. CASE Maintains
  BY <1>2, CallKeeps, ReconcileKeeps, UnindexKeeps, ReadPageKeeps, DeleteExpiredKeeps,
     LookingKeeps, DeleteLosersKeeps DEF Maintains, MaintResume
<1> QED BY <1>1, <1>2 DEF MNext, Maintains

\* No maintenance call leaves a pending row that dequeue_batch() would never take
\* (embedding_queue.py beside episodic_maintenance.py).
THEOREM MaintenanceStrandsNoRow == MSpec => []NoStrandedRow
<1>1. MInit => NoStrandedRow
  BY DEF MInit, Init, QueueInit, NoRow, NoStrandedRow
<1>2. MInv /\ NoStrandedRow /\ [MNext]_mvars => NoStrandedRow'
  <2> SUFFICES ASSUME MInv, NoStrandedRow, [MNext]_mvars
               PROVE  NoStrandedRow'
    OBVIOUS
  <2>1. CASE UNCHANGED queue
    BY <2>1 DEF NoStrandedRow, Eligible
  <2>2. CASE [Next]_vars
    BY <2>1, <2>2, QueueWriters, StrandedQueue DEF MInv, IInv, TypeOK
  <2> QED BY <2>1, <2>2, StepsOrErases DEF Erases
<1> QED BY <1>1, <1>2, MInvInit, MInvInductive, PTL DEF MSpec

\* A text that is erased is held nowhere it was not.
LEMMA ErasingKeepsTexts ==
    ASSUME TextInv, Erases, ver \in Nat
    PROVE  TextInv'
<1>1. ASSUME NEW i \in Ids, NEW v, v # 0, Holds(i, v)'
      PROVE  Holds(i, v)
  BY <1>1 DEF Holds, Erases, NoPoint
<1>2. \A c \in Clients : Texts(c)' = Texts(c) /\ Target(c)' = Target(c)
  BY DEF Erases, Texts, Target
<1>3. TextsApart'
  BY <1>2 DEF TextInv, TextsApart, Erases, NoPoint
<1>4. ASSUME NEW c \in Clients PROVE TextPlace(c)'
  <2>1. ASSUME req[c].at \in Unwritten, NEW i \in Ids, NEW v \in Texts(c)
        PROVE  ~Holds(i, v)'
    BY <1>1, <2>1 DEF TextInv, TextsApart, TextPlace
  <2>2. ASSUME req[c].at \in Placed, NEW i \in Ids, Holds(i, req[c].ver)'
        PROVE  i \in Target(c)
    <3>1. req[c].ver \in Texts(c)
      BY <2>2 DEF Texts, Placed, Unwritten
    <3>2. req[c].ver # 0
      BY <3>1 DEF TextInv, TextsApart
    <3>3. Holds(i, req[c].ver)
      BY <1>1, <2>2, <3>2 DEF Holds, Erases
    <3> QED BY <2>2, <3>3 DEF TextInv, TextPlace
  <2>3. req[c].at \in Placed => \A i, j \in Target(c) : i = j
    BY DEF TextInv, TextPlace
  <2>4. req' = req
    BY DEF Erases
  <2> QED BY <1>2, <2>1, <2>2, <2>3, <2>4 DEF TextPlace, Holds
<1>5. OneIdPerText'
  <2> SUFFICES ASSUME NEW i \in Ids, NEW j \in Ids, i # j, NEW v, v # 0,
                      Holds(i, v)', Holds(j, v)'
               PROVE  FALSE
    BY DEF OneIdPerText, Holds
  <2>1. Holds(i, v) /\ Holds(j, v)
    BY <1>1
  <2> QED BY <2>1 DEF TextInv, OneIdPerText, Holds
<1> QED BY <1>3, <1>4, <1>5 DEF TextInv

\* Nor does a text get a second id because a cleanup or a deduplication takes the first one away
\* while a write of it is still to be retried.
THEOREM MaintenanceKeepsOneId == MSpec => []OneIdPerText
<1>1. MInit => TextInv
  BY DEF MInit, Init, QueueInit, NoRow, NoItem, NoPoint, NoRequest, NewRequest, TextInv,
         TextsApart, Texts, TextPlace, Unwritten, Placed, OneIdPerText
<1>2. MInv /\ TextInv /\ [MNext]_mvars => TextInv'
  <2> SUFFICES ASSUME MInv, TextInv, [MNext]_mvars PROVE TextInv'
    OBVIOUS
  <2>1. CASE [Next]_vars
    BY <2>1, TextsApartInductive, TextPlaceInductive, OneIdInductive DEF MInv, TextInv
  <2>2. CASE Erases
    BY <2>2, ErasingKeepsTexts DEF MInv, IInv, TypeOK
  <2> QED BY <2>1, <2>2, StepsOrErases
<1>3. TextInv => OneIdPerText
  BY DEF TextInv
<1> QED BY <1>1, <1>2, <1>3, MInvInit, MInvInductive, PTL DEF MSpec

\* What a cleanup, a deduplication or a caller deleted comes back by the two ways the store knows
\* and no other: reconciliation, which writes the index from the collection, restores no memory.
THEOREM MaintenanceResurrectsNone == MSpec => ResurrectionHasACause
<1> DEFINE Caused == \A i \in Ids : (Gone(i) /\ ~Stored(i) /\ Stored(i)') =>
                         \/ queue[i].status = "pending"
                         \/ \E c \in Clients : req[c].at = "uembed" /\ i \in Target(c)
<1>1. MInit => MLInv
  BY MInvInit, LInvInit DEF MInit, MLInv, LosersUsed, NoMaint
<1>2. MLInv /\ [MNext]_mvars => MLInv'
  BY MaintenanceLedgers
<1>3. MLInv /\ [MNext]_mvars => [Caused]_vars
  <2> SUFFICES ASSUME MLInv, [MNext]_mvars, NEW i \in Ids, Gone(i), ~Stored(i), Stored(i)'
               PROVE  \/ queue[i].status = "pending"
                      \/ \E c \in Clients : req[c].at = "uembed" /\ i \in Target(c)
    OBVIOUS
  <2>1. i \in used
    BY DEF MLInv, LInv, UsedHolds, Gone
  <2>2. ~Erases
    BY DEF Erases, Stored, NoPoint
  <2>3. [Next]_vars
    BY <2>2, StepsOrErases DEF MLInv
  <2> QED BY <2>1, <2>3, StoringStep DEF MLInv, LInv, IInv, BatchPending
<1>4. ResurrectionHasACause <=> [][Caused]_vars
  BY DEF ResurrectionHasACause
<1> QED BY <1>1, <1>2, <1>3, <1>4, PTL DEF MSpec

\* A single caller whose memory is erased under its topic update still has no second one.
LEMMA ErasingKeepsKeys ==
    ASSUME TypeOK, KeyInv, Erases
    PROVE  KeyInv'
<1> SUFFICES ASSUME Sequential'
             PROVE  /\ (drain = NoDrain /\ Rows = {})'
                    /\ \A c \in Clients : KeyHolds(c)'
                    /\ SequentialKeyUnique'
  BY DEF KeyInv
<1>1. Sequential
  BY DEF Erases, Sequential, TypeOK
<1>2. drain = NoDrain /\ Rows = {} /\ (\A c \in Clients : KeyHolds(c)) /\ SequentialKeyUnique
  BY <1>1 DEF KeyInv
<1>3. \A i \in Ids : Stored(i)' => points'[i] = points[i]
  BY DEF Erases, Stored, NoPoint
<1>4. ASSUME NEW c \in Clients PROVE KeyHolds(c)'
  <2>1. req' = req /\ Target(c)' = Target(c) /\ \A i \in Ids, t \in Topic : Keyed(i, t)' => Keyed(i, t)
    BY <1>3 DEF Erases, Target, Keyed, Stored
  <2>2. KeyHolds(c) /\ req[c].topic \in Topic
    BY <1>2 DEF TypeOK, Request
  <2> QED BY <2>1, <2>2 DEF KeyHolds, Keyed, Stored
<1>5. SequentialKeyUnique'
  BY <1>1, <1>2, <1>3 DEF SequentialKeyUnique, Stored
<1> QED BY <1>2, <1>4, <1>5 DEF Erases, Rows

\* While nothing has failed, a caller alone with the store has one memory under a topic_key, even
\* when a cleanup or a deduplication erases it between the lookup and the update.
THEOREM MaintenanceKeepsKeys == MSpec => []SequentialKeyUnique
<1>1. MInit => KeyInv
  BY DEF MInit, Init, QueueInit, NoRow, NoPoint, NoRequest, NewRequest, KeyInv, KeyHolds, Rows,
         Stored, SequentialKeyUnique
<1>2. MInv /\ KeyInv /\ [MNext]_mvars => KeyInv'
  BY StepsOrErases, KeyInvInductive, ErasingKeepsKeys DEF MInv, IInv
<1>3. KeyInv => SequentialKeyUnique
  BY DEF KeyInv, SequentialKeyUnique
<1> QED BY <1>1, <1>2, <1>3, MInvInit, MInvInductive, PTL DEF MSpec

-----------------------------------------------------------------------------
(* cleanup_dedup(): who is processed is never absorbed later.              *)

\* The winners and the losers of a deduplication are all processed, and apart.
WinnersInv ==
    /\ maint.at \notin {"dpage", "dunindex"} => maint.winners = {}
    /\ maint.at = "dpage" => maint.todo \cup maint.winners \subseteq maint.done
    /\ maint.winners \cap maint.todo = {}

\* A call that is not a deduplication has no winners.
LEMMA NoWinners ==
    ASSUME maint'.winners = {}, maint'.at # "dpage"
    PROVE  WinnersInv'
BY DEF WinnersInv

\* Steps outside a deduplication, and those that begin or end one.
LEMMA OtherWinners ==
    ASSUME MInv, WinnersInv,
           \/ reconcile_stores \/ cleanup_expired \/ cleanup_dedup
           \/ ReadIndex \/ RemoveOrphan \/ FetchMissing \/ ScheduleMissing
           \/ ReadPage \/ DeleteExpired \/ Unindex \/ CleanupReturn \/ DedupReturn
           \/ MaintStops \/ MCrash
    PROVE  WinnersInv'
<1> USE DEF MInv, Maint
<1>1. CASE cleanup_dedup
  <2>1. maint'.winners = {} /\ maint'.todo = {}
    BY <1>1, NoMaintType DEF cleanup_dedup, NoMaint
  <2> QED BY <1>1, <2>1 DEF WinnersInv, cleanup_dedup, NoMaint
<1>2. CASE reconcile_stores \/ cleanup_expired
  <2>1. maint'.winners = {} /\ maint'.at \in {"index", "page"}
    BY <1>2 DEF reconcile_stores, cleanup_expired, NoMaint
  <2> QED BY <2>1, NoWinners
<1>3. CASE CleanupReturn \/ DedupReturn \/ MaintStops \/ MCrash \/ ScheduleMissing
  <2>1. maint' = NoMaint
    BY <1>3 DEF CleanupReturn, DedupReturn, MaintStops, MCrash, ScheduleMissing
  <2> QED BY <2>1, NoWinners DEF NoMaint
<1>4. CASE ReadIndex \/ FetchMissing
  <2>1. CASE ReadIndex
    <3>1. maint'.winners = {} /\ maint'.at = "orphans"
      BY <2>1 DEF ReadIndex, WinnersInv
    <3> QED BY <3>1, NoWinners
  <2>2. CASE FetchMissing /\ maint.page = {}
    <3>1. maint' = NoMaint
      BY <2>2 DEF FetchMissing
    <3> QED BY <3>1, NoWinners DEF NoMaint
  <2>3. CASE FetchMissing /\ maint.page # {}
    <3>1. PICK docs : docs = {<<i, points[i].ver>> : i \in maint.page \cap StoredIds}
      OBVIOUS
    <3>2. maint.at = "orphans" /\ maint' = [maint EXCEPT !.at = "schedule", !.docs = docs]
      BY <2>3, <3>1 DEF FetchMissing
    <3>3. maint'.winners = {} /\ maint'.at = "schedule"
      BY <3>2 DEF WinnersInv
    <3> QED BY <3>3, NoWinners
  <2> QED BY <1>4, <2>1, <2>2, <2>3
<1>5. CASE RemoveOrphan \/ Unindex
  <2>1. maint'.winners = {} /\ maint'.at \in {"orphans", "unindex"}
    BY <1>5 DEF RemoveOrphan, Unindex, WinnersInv
  <2> QED BY <2>1, NoWinners
<1>6. CASE ReadPage
  <2>1. maint'.winners = {} /\ maint'.at = "page"
    BY <1>6 DEF ReadPage, WinnersInv
  <2> QED BY <2>1, NoWinners
<1>7. CASE DeleteExpired
  <2>1. maint'.winners = {} /\ maint'.at = "unindex"
    BY <1>7 DEF DeleteExpired, BatchOver, WinnersInv
  <2> QED BY <2>1, NoWinners
<1> QED BY <1>1, <1>2, <1>3, <1>4, <1>5, <1>6, <1>7

\* The next member absorbs others: it and they are processed, and were not before.
LEMMA AbsorbWinners ==
    ASSUME MInv, WinnersInv, Absorb
    PROVE  WinnersInv'
<1>1. maint \in Maint /\ maint.at = "dpage"
  BY DEF MInv, Absorb
<1>2. PICK i \in maint.page :
        \/ maint' = [maint EXCEPT !.page = @ \ {i}]
        \/ /\ i \notin maint.done
           /\ \E dups \in SUBSET (StoredIds \ (maint.done \cup {i})) :
                 maint' = [maint EXCEPT !.page    = @ \ {i},
                                        !.todo    = @ \cup dups,
                                        !.done    = @ \cup dups \cup {i},
                                        !.winners = IF dups = {} THEN @ ELSE @ \cup {i}]
  BY DEF Absorb
<1>3. CASE maint' = [maint EXCEPT !.page = @ \ {i}]
  BY <1>1, <1>3 DEF WinnersInv, Maint
<1>4. ASSUME i \notin maint.done, NEW dups \in SUBSET (StoredIds \ (maint.done \cup {i})),
             maint' = [maint EXCEPT !.page    = @ \ {i},
                                    !.todo    = @ \cup dups,
                                    !.done    = @ \cup dups \cup {i},
                                    !.winners = IF dups = {} THEN @ ELSE @ \cup {i}]
      PROVE  WinnersInv'
  <2>1. /\ maint'.at = "dpage" /\ maint'.todo = maint.todo \cup dups
        /\ maint'.done = maint.done \cup dups \cup {i}
        /\ maint'.winners \subseteq maint.winners \cup {i}
    BY <1>1, <1>4 DEF Maint
  <2>2. maint.todo \cup maint.winners \subseteq maint.done /\ maint.winners \cap maint.todo = {}
    BY <1>1 DEF WinnersInv
  <2>3. dups \cap (maint.done \cup {i}) = {}
    OBVIOUS
  <2> QED BY <1>4, <2>1, <2>2, <2>3 DEF WinnersInv
<1> QED BY <1>2, <1>3, <1>4

\* The other steps of a deduplication, and those of the store.
LEMMA DedupWinners ==
    ASSUME MInv, WinnersInv,
           \/ ReadDedupPage \/ DeleteLosers \/ UnindexLoser \/ PageFails
           \/ StoreStep \/ \E i \in Ids : Expire(i)
    PROVE  WinnersInv'
<1>0. maint \in Maint
  BY DEF MInv
<1>1. CASE ReadDedupPage \/ PageFails
  <2>1. /\ maint'.at = maint.at /\ maint'.todo = maint.todo
        /\ maint'.done = maint.done /\ maint'.winners = maint.winners
    BY <1>0, <1>1 DEF ReadDedupPage, PageFails, Maint
  <2> QED BY <2>1 DEF WinnersInv
<1>2. CASE StoreStep \/ \E i \in Ids : Expire(i)
  <2>1. maint' = maint \/ maint' = [maint EXCEPT !.quiet = FALSE]
    BY <1>2 DEF StoreStep, Expire
  <2>2. /\ maint'.at = maint.at /\ maint'.todo = maint.todo
        /\ maint'.done = maint.done /\ maint'.winners = maint.winners
    BY <1>0, <2>1 DEF Maint
  <2> QED BY <2>2 DEF WinnersInv
<1>3. CASE DeleteLosers
  <2>1. maint'.at = "dunindex" /\ maint'.todo = maint.todo /\ maint'.winners = maint.winners
    BY <1>0, <1>3 DEF DeleteLosers, Maint
  <2> QED BY <2>1 DEF WinnersInv
<1>4. CASE UnindexLoser
  <2>1. maint'.at = "dunindex" /\ maint'.todo \subseteq maint.todo /\ maint'.winners = maint.winners
    BY <1>0, <1>4 DEF UnindexLoser, Maint
  <2> QED BY <2>1 DEF WinnersInv
<1> QED BY <1>1, <1>2, <1>3, <1>4

\* cleanup_dedup() deletes no memory into which it merged others, however the pages overlap and
\* whatever is written in between (episodic_maintenance.py, `processed`).
THEOREM WinnersSurvive == MSpec => []DedupKeepsWinners
<1>1. MInit => WinnersInv
  BY DEF MInit, NoMaint, WinnersInv
<1>2. MInv /\ WinnersInv /\ [MNext]_mvars => WinnersInv'
  <2>1. ASSUME MInv, WinnersInv, MNext PROVE WinnersInv'
    BY <2>1, OtherWinners, AbsorbWinners, DedupWinners DEF MNext, MaintResume
  <2>2. ASSUME WinnersInv, UNCHANGED mvars PROVE WinnersInv'
    BY <2>2 DEF WinnersInv, mvars
  <2> QED BY <2>1, <2>2
<1>3. WinnersInv => DedupKeepsWinners
  BY DEF WinnersInv, DedupKeepsWinners
<1> QED BY <1>1, <1>2, <1>3, MInvInit, MInvInductive, PTL DEF MSpec

-----------------------------------------------------------------------------
(* reconcile_stores(): while nothing else writes, what it has read is so.  *)

Reconciling == maint.at \in {"index", "orphans", "schedule"} /\ maint.quiet

\* What a quiet reconciliation has read is still so, and its docs are what is missing.
QuietInv ==
    Reconciling /\ Cardinality(StoredIds) <= ScrollLimit =>
        /\ ftsTasks = {}
        /\ maint.at = "index" => maint.page = StoredIds
        /\ maint.at = "orphans" => /\ maint.page = StoredIds \ IndexedIds
                                   /\ maint.todo = IndexedIds \ StoredIds
        /\ maint.at = "schedule" => /\ IndexedIds \subseteq StoredIds
                                    /\ {d[1] : d \in maint.docs} = StoredIds \ IndexedIds

\* A collection that fits the limit is read whole.
LEMMA NewestAreAll ==
    ASSUME Cardinality(StoredIds) <= ScrollLimit, TypeOK
    PROVE  Newest(ScrollLimit) = StoredIds
<1>1. IsFiniteSet(StoredIds)
  BY QueueAssumption, FS_Subset DEF StoredIds
<1>2. ASSUME NEW i \in StoredIds PROVE i \in Newest(ScrollLimit)
  <2>1. PICK newer : newer = {j \in StoredIds : points[j].ver > points[i].ver}
    OBVIOUS
  <2>2. newer \subseteq StoredIds /\ i \notin newer
    BY <2>1 DEF StoredIds, TypeOK, Point
  <2>3. /\ Cardinality(newer) \in Nat /\ Cardinality(StoredIds) \in Nat
        /\ Cardinality(newer) <= Cardinality(StoredIds)
        /\ Cardinality(newer) = Cardinality(StoredIds) => newer = StoredIds
    BY <1>1, <2>2, FS_Subset, FS_CardinalityType
  <2>4. Cardinality(newer) < ScrollLimit
    BY <2>2, <2>3, MaintenanceAssumption
  <2> QED BY <2>1, <2>4 DEF Newest, StoredIds
<1> QED BY <1>2 DEF Newest

\* The reconciliation's own steps.
LEMMA QuietSteps ==
    ASSUME MInv, QuietInv, reconcile_stores \/ ReadIndex \/ FetchMissing
    PROVE  QuietInv'
<1>1. UNCHANGED <<points, fts, ftsTasks>> /\ StoredIds' = StoredIds /\ IndexedIds' = IndexedIds
  BY DEF reconcile_stores, ReadIndex, FetchMissing, vars, StoredIds, IndexedIds, Stored
<1>2. maint \in Maint /\ TypeOK
  BY DEF MInv, IInv
<1>3. CASE reconcile_stores
  <2>1. maint'.at = "index" /\ maint'.page = Newest(ScrollLimit) /\ (maint'.quiet => ftsTasks = {})
    BY <1>3 DEF reconcile_stores, NoMaint
  <2> QED BY <1>1, <1>2, <2>1, NewestAreAll DEF QuietInv, Reconciling
<1>4. CASE ReadIndex
  <2>1. /\ maint.at = "index" /\ maint'.at = "orphans" /\ maint'.quiet = maint.quiet
        /\ maint'.todo = IndexedIds \ maint.page /\ maint'.page = maint.page \ IndexedIds
    BY <1>2, <1>4 DEF ReadIndex, Maint
  <2> QED BY <1>1, <2>1 DEF QuietInv, Reconciling
<1>5. CASE FetchMissing
  <2>1. CASE maint.page = {}
    BY <1>5, <2>1 DEF FetchMissing, NoMaint, QuietInv, Reconciling
  <2>2. CASE maint.page # {}
    <3>1. PICK docs : docs = {<<i, points[i].ver>> : i \in maint.page \cap StoredIds}
      OBVIOUS
    <3>2. /\ maint.at = "orphans" /\ maint.todo = {} /\ maint'.at = "schedule" /\ maint'.quiet = maint.quiet
          /\ maint'.docs = docs
      BY <1>2, <1>5, <2>2, <3>1 DEF FetchMissing, Maint
    <3>3. {d[1] : d \in docs} = maint.page \cap StoredIds
      <4>1. ASSUME NEW d \in docs PROVE d[1] \in maint.page \cap StoredIds
        BY <3>1
      <4>2. ASSUME NEW i \in maint.page \cap StoredIds PROVE \E d \in docs : d[1] = i
        <5>1. <<i, points[i].ver>> \in docs /\ <<i, points[i].ver>>[1] = i
          BY <3>1
        <5> QED BY <5>1
      <4> QED BY <4>1, <4>2
    <3> QED BY <1>1, <3>2, <3>3 DEF QuietInv, Reconciling
  <2> QED BY <2>1, <2>2
<1> QED BY <1>3, <1>4, <1>5

\* An orphan leaves the index, or the call is no longer quiet.
LEMMA QuietOrphan ==
    ASSUME MInv, QuietInv, RemoveOrphan
    PROVE  QuietInv'
<1>1. PICK i \in maint.todo :
        /\ fts_delete(i)
        /\ maint' = [maint EXCEPT !.todo = @ \ {i}, !.quiet = @ /\ NoFault]
  BY DEF RemoveOrphan
<1>2. maint \in Maint /\ maint.at = "orphans" /\ i \in Ids /\ UNCHANGED <<points, ftsTasks>>
  BY DEF MInv, Maint, RemoveOrphan
<1>3. /\ maint'.at = "orphans" /\ maint'.todo = maint.todo \ {i} /\ maint'.page = maint.page
      /\ maint'.quiet => maint.quiet /\ NoFault
  BY <1>1, <1>2 DEF Maint
<1>4. StoredIds' = StoredIds
  BY <1>2 DEF StoredIds, Stored
<1>5. NoFault => IndexedIds' = IndexedIds \ {i}
  <2>1. NoFault => fts' = [fts EXCEPT ![i] = 0]
    BY <1>1 DEF fts_delete, NoFault, Fault, MInv, IInv, TypeOK
  <2> QED BY <2>1, <1>2 DEF IndexedIds, MInv, IInv, TypeOK
<1>6. ASSUME Reconciling', Cardinality(StoredIds)' <= ScrollLimit
      PROVE  QuietInv'
  <2>1. Reconciling /\ NoFault
    BY <1>2, <1>3, <1>6 DEF Reconciling
  <2>2. /\ ftsTasks = {} /\ maint.page = StoredIds \ IndexedIds /\ maint.todo = IndexedIds \ StoredIds
    BY <1>2, <1>4, <1>6, <2>1 DEF QuietInv
  <2> QED BY <1>2, <1>3, <1>4, <1>5, <2>1, <2>2 DEF QuietInv
<1> QED BY <1>6 DEF QuietInv

\* Other steps end the quiet, end the call, change nothing of it, or belong to another call.
LEMMA QuietOthers ==
    ASSUME MInv, QuietInv, StoreStep \/ (\E i \in Ids : Expire(i)) \/ PageFails
    PROVE  QuietInv'
<1>0. maint \in Maint
  BY DEF MInv
<1>1. CASE StoreStep
  <2>1. CASE UNCHANGED <<points, fts, ftsTasks>>
    <3>1. StoredIds' = StoredIds /\ IndexedIds' = IndexedIds /\ maint' = maint
      BY <1>1, <2>1 DEF StoreStep, StoredIds, IndexedIds, Stored
    <3> QED BY <2>1, <3>1 DEF QuietInv, Reconciling
  <2>2. CASE ~(UNCHANGED <<points, fts, ftsTasks>>)
    <3>1. ~Reconciling'
      BY <1>0, <1>1, <2>2 DEF StoreStep, Reconciling, Maint
    <3> QED BY <3>1 DEF QuietInv
  <2> QED BY <2>1, <2>2
<1>2. CASE (\E i \in Ids : Expire(i)) \/ PageFails
  <2>1. ~Reconciling'
    BY <1>0, <1>2 DEF Expire, PageFails, Reconciling, Maint
  <2> QED BY <2>1 DEF QuietInv
<1> QED BY <1>1, <1>2

\* Every other step of a maintenance call leaves the reconciliation, or is of another call.
LEMMA QuietElsewhere ==
    ASSUME MInv,
           \/ cleanup_expired \/ cleanup_dedup \/ ScheduleMissing
           \/ ReadPage \/ DeleteExpired \/ Unindex \/ CleanupReturn
           \/ ReadDedupPage \/ Absorb \/ DeleteLosers \/ UnindexLoser \/ DedupReturn
           \/ MaintStops \/ MCrash
    PROVE  QuietInv'
<1>0. maint \in Maint
  BY DEF MInv
<1>1. CASE cleanup_expired \/ cleanup_dedup \/ ScheduleMissing \/ CleanupReturn \/ DedupReturn \/ MaintStops \/ MCrash
  <2>1. CASE cleanup_expired
    BY <2>1 DEF cleanup_expired, NoMaint, QuietInv, Reconciling
  <2>2. CASE cleanup_dedup
    BY <2>2 DEF cleanup_dedup, NoMaint, QuietInv, Reconciling
  <2>3. CASE ScheduleMissing \/ CleanupReturn \/ DedupReturn \/ MaintStops \/ MCrash
    <3>1. maint' = NoMaint
      BY <2>3 DEF ScheduleMissing, CleanupReturn, DedupReturn, MaintStops, MCrash
    <3> QED BY <3>1 DEF NoMaint, QuietInv, Reconciling
  <2> QED BY <1>1, <2>1, <2>2, <2>3
<1>2. CASE ReadPage
  <2>1. maint'.at = "page"
    BY <1>0, <1>2 DEF ReadPage, Maint
  <2> QED BY <2>1 DEF QuietInv, Reconciling
<1>3. CASE DeleteExpired \/ Unindex
  <2>1. maint'.at = "unindex"
    BY <1>0, <1>3 DEF DeleteExpired, Unindex, Maint
  <2> QED BY <2>1 DEF QuietInv, Reconciling
<1>4. CASE ReadDedupPage \/ Absorb
  <2>1. maint'.at = "dpage"
    BY <1>0, <1>4 DEF ReadDedupPage, Absorb, Maint
  <2> QED BY <2>1 DEF QuietInv, Reconciling
<1>5. CASE DeleteLosers \/ UnindexLoser
  <2>1. maint'.at = "dunindex"
    BY <1>0, <1>5 DEF DeleteLosers, UnindexLoser, Maint
  <2> QED BY <2>1 DEF QuietInv, Reconciling
<1> QED BY <1>1, <1>2, <1>3, <1>4, <1>5

\* The invariant of a quiet reconciliation is kept.
LEMMA QuietInductive == MInv /\ QuietInv /\ [MNext]_mvars => QuietInv'
<1>1. ASSUME MInv, QuietInv, MNext PROVE QuietInv'
  BY <1>1, QuietSteps, QuietOrphan, QuietOthers, QuietElsewhere DEF MNext, MaintResume
<1>2. ASSUME QuietInv, UNCHANGED mvars PROVE QuietInv'
  BY <1>2 DEF QuietInv, Reconciling, mvars, vars, StoredIds, IndexedIds, Stored
<1> QED BY <1>1, <1>2

\* The step that ends an undisturbed reconciliation.
LEMMA ReconciliationEnds ==
    ASSUME MInv, QuietInv, MNext,
           maint.at \in {"orphans", "schedule"}, maint'.at = "idle", maint.quiet, NoFault,
           Cardinality(StoredIds) <= ScrollLimit
    PROVE  StoredIds' = IndexedIds' \cup {d[1] : d \in UNION ftsTasks'}
<1>0. maint \in Maint /\ faults \in Nat
  BY DEF MInv, IInv, TypeOK
<1>1. ~MaintStops /\ ~MCrash
  BY <1>0 DEF MaintStops, MCrash, Crash, Fault, NoFault
<1>2. FetchMissing \/ ScheduleMissing
  <2>1. ~StoreStep /\ ~(\E i \in Ids : Expire(i)) /\ ~PageFails
    BY <1>0 DEF StoreStep, Expire, PageFails, Maint
  <2>2. ~(reconcile_stores \/ cleanup_expired \/ cleanup_dedup)
    BY DEF reconcile_stores, cleanup_expired, cleanup_dedup
  <2>3. ~(ReadIndex \/ ReadPage \/ DeleteExpired \/ Unindex \/ CleanupReturn)
    BY DEF ReadIndex, ReadPage, DeleteExpired, Unindex, CleanupReturn, BatchOver
  <2>4. ~(ReadDedupPage \/ Absorb \/ DeleteLosers \/ UnindexLoser \/ DedupReturn)
    BY DEF ReadDedupPage, Absorb, DeleteLosers, UnindexLoser, DedupReturn
  <2>5. ~RemoveOrphan
    BY <1>0 DEF RemoveOrphan, Maint
  <2> QED BY <1>1, <2>1, <2>2, <2>3, <2>4, <2>5 DEF MNext, MaintResume
<1>3. StoredIds' = StoredIds /\ IndexedIds' = IndexedIds
  BY <1>2 DEF FetchMissing, ScheduleMissing, vars, StoredIds, IndexedIds, Stored
<1>4. CASE FetchMissing
  <2>1. maint.page = {} /\ maint.todo = {} /\ maint.at = "orphans" /\ ftsTasks' = ftsTasks
    BY <1>0, <1>4 DEF FetchMissing, Maint, vars
  <2>2. ftsTasks = {} /\ StoredIds = IndexedIds
    BY <2>1 DEF QuietInv, Reconciling
  <2> QED BY <1>3, <2>1, <2>2
<1>5. CASE ScheduleMissing
  <2>1. /\ maint.at = "schedule"
        /\ ftsTasks' = IF maint.docs = {} THEN ftsTasks ELSE ftsTasks \cup {maint.docs}
    BY <1>5 DEF ScheduleMissing
  <2>2. ftsTasks = {} /\ IndexedIds \subseteq StoredIds /\ {d[1] : d \in maint.docs} = StoredIds \ IndexedIds
    BY <2>1 DEF QuietInv, Reconciling
  <2>3. UNION ftsTasks' = maint.docs
    BY <2>1, <2>2
  <2> QED BY <1>3, <2>2, <2>3
<1> QED BY <1>2, <1>4, <1>5

\* A reconciliation that nothing disturbs brings index and collection together, for any collection
\* that fits the limit of the listing: exactly the stored memories are indexed or on their way
\* (episodic_maintenance.py:48).
THEOREM ReconciliationAgrees == MSpec => QuietReconcileAgrees
<1>1. MInit => QuietInv
  BY DEF MInit, NoMaint, QuietInv, Reconciling
<1>2. MInv /\ QuietInv /\ [MNext]_mvars =>
        [(/\ maint.at \in {"orphans", "schedule"} /\ maint'.at = "idle"
          /\ maint.quiet /\ NoFault
          /\ Cardinality(StoredIds) <= ScrollLimit)
          => StoredIds' = IndexedIds' \cup {d[1] : d \in UNION ftsTasks'}]_mvars
  BY ReconciliationEnds
<1> QED BY <1>1, <1>2, QuietInductive, MInvInit, MInvInductive, PTL DEF MSpec, QuietReconcileAgrees
=============================================================================
