--------------------------- MODULE FeedbackProofs ---------------------------
(***************************************************************************)
(* Proofs about Feedback, for every number of memories, callers, searches, *)
(* processors and failures, and for every setting of the steps and limits. *)
(***************************************************************************)
EXTENDS Feedback, FiniteSetTheorems, SequenceTheorems, TLAPS

-----------------------------------------------------------------------------
(* Types.  A busy call names its memory, processor and lock; one that      *)
(* waits is in its lock's line, so that a granted lock has a line.         *)

\* A call of apply_feedback, a hit of a search, and a lock.
Call == [at : {"idle", "wait", "get", "update", "delete"}, mem : Mems \cup {0},
         proc : Processors \cup {0}, fb : Feedbacks, lock : LockIds \cup {0},
         confidence : 0..MaxConf, negative_count : Nat]

Hit == [at : {"idle", "write"}, mem : Mems \cup {0}, confidence : 0..MaxConf, access_count : Nat]

LockObject == [held : BOOLEAN, waiters : Seq(Callers)]

\* Parts of the type invariant: the memories, the locks, the calls, the histories.
MemoryOK == /\ memory \in [Mems -> Memory]
            /\ search \in [Searchers -> Hit]
            /\ \A s \in Searchers : search[s].at = "write" => search[s].mem \in Mems

\* What the tables of locks and the locks look like.
LocksOK == /\ locks \in [Processors -> [Mems -> LockIds \cup {0}]]
           /\ lock \in [LockIds -> LockObject]

CallOK(c) ==
    call[c].at # "idle" =>
        /\ call[c].mem \in Mems /\ call[c].proc \in Processors /\ call[c].lock \in LockIds
        /\ call[c].at = "wait" =>
              \E k \in 1..Len(lock[call[c].lock].waiters) : lock[call[c].lock].waiters[k] = c

CallsOK == call \in [Callers -> Call] /\ \A c \in Callers : CallOK(c)

\* The history and the bounds.
CountsOK == /\ hist \in [Mems -> History]
            /\ submitted \in Nat /\ searches \in Nat /\ faults \in Nat

TypeOK == MemoryOK /\ LocksOK /\ CallsOK /\ CountsOK

\* Confidence never leaves its range, whatever the steps are.
LEMMA ConfidenceType ==
    ASSUME MemoryOK, NEW m \in Mems, NEW fb \in Feedbacks
    PROVE  /\ Confidence(m, fb) \in 0..MaxConf
           /\ Negatives(m, fb) \in Nat
           /\ AtMost(MaxConf, memory[m].confidence + RecallBoost) \in 0..MaxConf
<1>1. memory[m].confidence \in 0..MaxConf /\ memory[m].negative_count \in Nat
  BY DEF MemoryOK, Memory
<1>2. {MaxConf, Boost, Penalty, RecallBoost} \subseteq Nat
  BY FeedbackAssumption
<1> QED BY <1>1, <1>2 DEF Confidence, Negatives, AtMost, AtLeast, Feedbacks

\* There are more lock objects than the dictionaries and the calls can refer to: a new
\* one is always at hand.
LEMMA NewLockIsNew ==
    ASSUME LocksOK, CallsOK
    PROVE  NewLock \in LockIds /\ NewLock \notin Referenced
<1> DEFINE Keys == Processors \X Mems
           f == [x \in Keys |-> locks[x[1]][x[2]]]
           g == [c \in Callers |-> call[c].lock]
           F == {locks[p][m] : p \in Processors, m \in Mems}
           G == {call[c].lock : c \in Callers}
           n == Cardinality(Processors) * Cardinality(Mems) + Cardinality(Callers)
<1>1. IsFiniteSet(Keys) /\ Cardinality(Keys) = Cardinality(Processors) * Cardinality(Mems)
  BY FeedbackAssumption, FS_Product
<1>2. /\ Cardinality(Processors) \in Nat /\ Cardinality(Mems) \in Nat
      /\ Cardinality(Callers) \in Nat /\ IsFiniteSet(Callers)
  BY FeedbackAssumption, FS_CardinalityType
<1>3. f \in Surjection(Keys, F)
  <2>1. \A p \in Processors, m \in Mems : <<p, m>> \in Keys /\ f[<<p, m>>] = locks[p][m]
    OBVIOUS
  <2>2. f \in [Keys -> F]
    OBVIOUS
  <2>3. ASSUME NEW t \in F
        PROVE  \E x \in Keys : f[x] = t
    <3>1. PICK p \in Processors, m \in Mems : t = locks[p][m]
      OBVIOUS
    <3>2. <<p, m>> \in Keys /\ f[<<p, m>>] = t
      BY <2>1, <3>1
    <3> HIDE DEF f, Keys
    <3> QED BY <3>2
  <2> HIDE DEF f, F, Keys
  <2> QED BY <2>2, <2>3 DEF Surjection
<1>4. g \in Surjection(Callers, G)
  BY DEF Surjection
<1>5. IsFiniteSet(F) /\ Cardinality(F) <= Cardinality(Keys)
  BY <1>1, <1>3, FS_Surjection
<1>6. IsFiniteSet(G) /\ Cardinality(G) <= Cardinality(Callers)
  BY <1>2, <1>4, FS_Surjection
<1> HIDE DEF f, g, F, G
<1>7. /\ Cardinality(F) \in Nat /\ Cardinality(G) \in Nat
      /\ Cardinality(F \cap G) \in Nat
      /\ IsFiniteSet(F \cup G)
      /\ Cardinality(F \cup G) = Cardinality(F) + Cardinality(G) - Cardinality(F \cap G)
  BY <1>5, <1>6, FS_CardinalityType, FS_Union, FS_Intersection
<1>8. Cardinality(Processors) * Cardinality(Mems) \in Nat /\ n \in Nat
  BY <1>2
<1>9. Cardinality(F \cup G) <= n
  BY <1>1, <1>2, <1>5, <1>6, <1>7, <1>8
<1>10. IsFiniteSet(LockIds) /\ Cardinality(LockIds) = n + 1
  <2>1. n + 1 \in Int /\ LockIds = 1..(n + 1)
    BY <1>8 DEF LockIds
  <2> HIDE DEF n
  <2>2. IsFiniteSet(1..(n + 1)) /\ Cardinality(1..(n + 1)) = (n + 1) - 1 + 1
    BY <1>8, <2>1, FS_Interval
  <2> QED BY <1>8, <2>1, <2>2
<1>11. ~(LockIds \subseteq F \cup G)
  <2> SUFFICES ASSUME LockIds \subseteq F \cup G
               PROVE  FALSE
    OBVIOUS
  <2>1. Cardinality(LockIds) <= Cardinality(F \cup G)
    BY <1>7, FS_Subset
  <2>2. Cardinality(F \cup G) \in Nat
    BY <1>7, FS_CardinalityType
  <2> QED BY <1>8, <1>9, <1>10, <2>1, <2>2
<1>12. Referenced = F \cup G
  BY DEF Referenced, F, G
<1> QED BY <1>11, <1>12 DEF NewLock

\* The stores start well typed.
LEMMA TypeInit == Init => TypeOK
<1> SUFFICES ASSUME Init
             PROVE  TypeOK
  OBVIOUS
<1>1. 0 \in 0..MaxConf /\ InitConf \in 0..MaxConf
  BY FeedbackAssumption
<1>2. << >> \in Seq(Callers)
  OBVIOUS
<1> QED BY <1>1, <1>2 DEF Init, TypeOK, MemoryOK, Memory, Hit, NoSearch, LocksOK, LockObject,
           CallsOK, CallOK, Call, NoCall, Feedbacks, CountsOK, History

\* The lock a call uses is one of the objects.
LEMMA LockOfType ==
    ASSUME LocksOK, CallsOK, NEW p \in Processors, NEW m \in Mems
    PROVE  LockOf(p, m) \in LockIds
BY NewLockIsNew DEF LockOf, LocksOK

\* A call that starts leaves everything well typed.
LEMMA TypeApply ==
    ASSUME TypeOK, NEW c \in Callers, NEW p \in Processors, NEW m \in Mems,
           NEW fb \in Feedbacks, apply_feedback(c, p, m, fb)
    PROVE  TypeOK'
<1> DEFINE l == LockOf(p, m)
           free == Free(l)
           obj == Asked(l, c)
           x == [NoCall EXCEPT !.at = IF free THEN "get" ELSE "wait",
                               !.mem = m, !.proc = p, !.fb = fb, !.lock = l]
           n == IF fb = "negative" THEN hist[m].negatives + 1 ELSE hist[m].negatives
           b == hist[m].split \/ (Free(l) /\ Inside(m) # {})
           h == [hist[m] EXCEPT !.negatives = n, !.split = b]
<1>1. l \in LockIds
  BY LockOfType DEF TypeOK
<1>2. /\ submitted' = submitted + 1
      /\ locks' = [locks EXCEPT ![p][m] = l]
      /\ lock' = [lock EXCEPT ![l] = obj]
      /\ call' = [call EXCEPT ![c] = x]
      /\ hist' = [hist EXCEPT ![m] = h]
      /\ UNCHANGED <<memory, search, searches, faults>>
  <2>1. lock \in [LockIds -> LockObject] /\ call \in [Callers -> Call] /\ hist \in [Mems -> History]
    BY DEF TypeOK, LocksOK, CallsOK, CountsOK
  <2>2. /\ submitted' = submitted + 1
        /\ locks' = [locks EXCEPT ![p][m] = l]
        /\ UNCHANGED <<memory, search, searches, faults>>
    BY DEF apply_feedback
  <2>3. lock' = [lock EXCEPT ![l] = obj]
    BY DEF apply_feedback
  <2>4. call' = [call EXCEPT ![c] = x]
    BY DEF apply_feedback
  <2>5. hist' = [hist EXCEPT ![m].negatives = n, ![m].split = b]
    BY DEF apply_feedback
  <2> HIDE DEF n, b
  <2>6. hist' = [hist EXCEPT ![m] = h]
    BY <2>1, <2>5
  <2> QED BY <2>2, <2>3, <2>4, <2>6
<1> HIDE DEF l
<1>3. lock[l] \in LockObject /\ lock[l].waiters \in Seq(Callers)
  BY <1>1 DEF TypeOK, LocksOK, LockObject
<1>4. /\ Append(lock[l].waiters, c) \in Seq(Callers)
      /\ Len(lock[l].waiters) \in Nat
      /\ Len(Append(lock[l].waiters, c)) = Len(lock[l].waiters) + 1
      /\ \A i \in 1..Len(lock[l].waiters) : Append(lock[l].waiters, c)[i] = lock[l].waiters[i]
      /\ Append(lock[l].waiters, c)[Len(lock[l].waiters) + 1] = c
  BY <1>3, AppendProperties, LenProperties
<1>5. obj \in LockObject /\ obj.waiters = IF free THEN lock[l].waiters ELSE Append(lock[l].waiters, c)
  BY <1>3, <1>4 DEF LockObject, Asked
<1>6. /\ x \in Call
      /\ x.at = IF free THEN "get" ELSE "wait"
      /\ x.mem = m /\ x.proc = p /\ x.lock = l
  <2>1. 0 \in 0..MaxConf
    BY FeedbackAssumption
  <2> QED BY <1>1, <2>1 DEF Call, NoCall
<1>7. h \in History
  <2>1. hist[m] \in History
    BY DEF TypeOK, CountsOK
  <2>2. b \in BOOLEAN /\ n \in Nat
    BY <2>1 DEF History
  <2> HIDE DEF b, n
  <2> QED BY <2>1, <2>2 DEF History
<1> HIDE DEF obj, x, h
<1>8. LocksOK'
  BY <1>1, <1>2, <1>5 DEF TypeOK, LocksOK
<1>9. lock'[l] = obj /\ call'[c] = x /\ \A k \in LockIds \ {l} : lock'[k] = lock[k]
  BY <1>1, <1>2 DEF TypeOK, LocksOK, CallsOK
<1>10. CallOK(c)'
  <2>1. CASE free
    BY <1>1, <1>6, <1>9, <2>1 DEF CallOK
  <2>2. CASE ~free
    <3>1. lock'[l].waiters = Append(lock[l].waiters, c)
      BY <1>5, <1>9, <2>2
    <3>2. \E k \in 1..Len(lock'[l].waiters) : lock'[l].waiters[k] = c
      BY <1>4, <3>1
    <3> QED BY <1>1, <1>6, <1>9, <3>2 DEF CallOK
  <2> QED BY <2>1, <2>2
<1>11. ASSUME NEW d \in Callers, d # c
       PROVE  CallOK(d)'
  <2>1. call'[d] = call[d] /\ CallOK(d)
    BY <1>2, <1>11 DEF TypeOK, CallsOK
  <2>2. ASSUME NEW i \in 1..Len(lock[l].waiters), lock[l].waiters[i] = d
        PROVE  \E k \in 1..Len(lock'[l].waiters) : lock'[l].waiters[k] = d
    <3>1. lock'[l].waiters \in {lock[l].waiters, Append(lock[l].waiters, c)}
      BY <1>5, <1>9
    <3>2. CASE lock'[l].waiters = lock[l].waiters
      BY <2>2, <3>2
    <3>3. CASE lock'[l].waiters = Append(lock[l].waiters, c)
      <4>1. i \in 1..Len(lock'[l].waiters) /\ lock'[l].waiters[i] = d
        BY <1>4, <2>2, <3>3
      <4> QED BY <4>1
    <3> QED BY <3>1, <3>2, <3>3
  <2> QED BY <1>9, <2>1, <2>2 DEF CallOK
<1>12. CallsOK'
  BY <1>2, <1>6, <1>10, <1>11 DEF TypeOK, CallsOK
<1>13. CountsOK'
  BY <1>2, <1>7 DEF TypeOK, CountsOK
<1> QED BY <1>2, <1>8, <1>12, <1>13 DEF TypeOK, MemoryOK

\* Only the lock's held bit, or the head of its line, goes; a call that does not wait
\* any more needs no place in it.
LEMMA TypeResume ==
    ASSUME TypeOK, NEW c \in Callers, Resume(c)
    PROVE  TypeOK'
<1> USE DEF TypeOK
<1>1. call[c] \in Call /\ CallOK(c)
  BY DEF CallsOK
<1>2. NoCall \in Call
  <2>1. 0 \in 0..MaxConf
    BY FeedbackAssumption
  <2> QED BY <2>1 DEF NoCall, Call, Feedbacks
<1>3. ASSUME NEW x \in Call, call' = [call EXCEPT ![c] = x],
             x.at \in {"idle", "get", "update", "delete"},
             x.at # "idle" => x.mem \in Mems /\ x.proc \in Processors /\ x.lock \in LockIds,
             \A d \in Callers, k \in LockIds :
                d # c /\ (\E i \in 1..Len(lock[k].waiters) : lock[k].waiters[i] = d)
                => \E i \in 1..Len(lock'[k].waiters) : lock'[k].waiters[i] = d
      PROVE  CallsOK'
  <2>1. CallOK(c)'
    BY <1>3 DEF CallsOK, CallOK
  <2>2. ASSUME NEW d \in Callers, d # c
        PROVE  CallOK(d)'
    <3>1. call'[d] = call[d] /\ CallOK(d)
      BY <1>3, <2>2 DEF CallsOK
    <3> QED BY <1>3, <2>2, <3>1 DEF CallOK
  <2> QED BY <1>3, <2>1, <2>2 DEF CallsOK
<1>4. ASSUME call[c].at # "idle", Release(call[c].lock)
      PROVE  /\ lock' \in [LockIds -> LockObject]
             /\ \A k \in LockIds : lock'[k].waiters = lock[k].waiters
  BY <1>1, <1>4 DEF CallOK, Release, LocksOK, LockObject
<1>5. CASE Granted(c)
  <2> DEFINE l == call[c].lock
  <2>1. l \in LockIds /\ lock[l].waiters \in Seq(Callers) /\ lock[l].waiters # << >>
    BY <1>1, <1>5 DEF Granted, CallOK, LocksOK, LockObject
  <2>2. Tail(lock[l].waiters) \in Seq(Callers)
    BY <2>1
  <2>3. lock' = [lock EXCEPT ![l] = [held |-> TRUE, waiters |-> Tail(lock[l].waiters)]]
    BY <1>5 DEF Granted
  <2>4. LocksOK'
    BY <1>5, <2>1, <2>2, <2>3 DEF Granted, LocksOK, LockObject
  <2>5. ASSUME NEW d \in Callers, NEW k \in LockIds, d # c,
               NEW i \in 1..Len(lock[k].waiters), lock[k].waiters[i] = d
        PROVE  \E j \in 1..Len(lock'[k].waiters) : lock'[k].waiters[j] = d
    <3>1. CASE k # l
      BY <2>3, <2>5, <3>1 DEF LocksOK
    <3>2. CASE k = l
      <4>1. i # 1
        BY <1>5, <2>1, <2>5, <3>2 DEF Granted
      <4>2. /\ Len(Tail(lock[l].waiters)) = Len(lock[l].waiters) - 1
            /\ i - 1 \in 1..(Len(lock[l].waiters) - 1)
            /\ Tail(lock[l].waiters)[i - 1] = d
        BY <2>1, <2>5, <3>2, <4>1
      <4>3. lock'[k].waiters = Tail(lock[l].waiters)
        BY <2>1, <2>3, <3>2 DEF LocksOK
      <4> QED BY <4>2, <4>3
    <3> QED BY <3>1, <3>2
  <2>6. call' = [call EXCEPT ![c] = [call[c] EXCEPT !.at = "get"]]
    BY <1>5 DEF Granted
  <2>7. [call[c] EXCEPT !.at = "get"] \in Call
    BY <1>1 DEF Call
  <2> DEFINE x == [call[c] EXCEPT !.at = "get"]
  <2>7a. x.at = "get" /\ x.mem \in Mems /\ x.proc \in Processors /\ x.lock \in LockIds
    BY <1>1, <1>5 DEF Granted, CallOK, Call
  <2> HIDE DEF x
  <2>8. CallsOK'
    BY <1>3, <2>5, <2>6, <2>7, <2>7a DEF x
  <2>9. CountsOK'
    BY <1>1, <1>5 DEF Granted, CallOK, CountsOK, History
  <2> QED BY <1>5, <2>4, <2>8, <2>9 DEF Granted, MemoryOK
<1>6. CASE GetMemory(c)
  <2> DEFINE m == call[c].mem
             fb == call[c].fb
  <2>1. m \in Mems /\ fb \in Feedbacks
    BY <1>1, <1>6 DEF GetMemory, CallOK, Call
  <2>2. PICK v \in {"update", "delete"} : call' = [call EXCEPT ![c] =
           [call[c] EXCEPT !.at = v, !.confidence = Confidence(m, fb),
                           !.negative_count = Negatives(m, fb)]]
    <3>1. PICK v \in Verdict(m, fb) :
             call' = [call EXCEPT ![c].at = v,
                                  ![c].confidence = Confidence(m, fb),
                                  ![c].negative_count = Negatives(m, fb)]
      BY <1>6 DEF GetMemory
    <3>2. v \in {"update", "delete"}
      BY DEF Verdict
    <3> QED BY <3>1, <3>2 DEF CallsOK
  <2>3. Confidence(m, fb) \in 0..MaxConf /\ Negatives(m, fb) \in Nat
    BY <2>1, ConfidenceType
  <2> DEFINE x == [call[c] EXCEPT !.at = v, !.confidence = Confidence(m, fb),
                                  !.negative_count = Negatives(m, fb)]
  <2>4. x \in Call /\ x.at = v /\ x.mem = m /\ x.proc = call[c].proc /\ x.lock = call[c].lock
    BY <1>1, <2>3 DEF Call
  <2>5. UNCHANGED <<memory, locks, lock, search, submitted, searches, faults, hist>>
    BY <1>6 DEF GetMemory
  <2>4a. call' = [call EXCEPT ![c] = x]
    BY <2>2
  <2>4b. m \in Mems /\ call[c].proc \in Processors /\ call[c].lock \in LockIds
    BY <1>1, <1>6 DEF GetMemory, CallOK
  <2> HIDE DEF x, m
  <2>6. CallsOK'
    BY <1>3, <2>4, <2>4a, <2>4b, <2>5
  <2> QED BY <2>5, <2>6 DEF MemoryOK, LocksOK, CountsOK
<1>7. CASE NotFound(c)
  <2>1. CallsOK' /\ LocksOK'
    BY <1>2, <1>3, <1>4, <1>7 DEF NotFound, NoCall, LocksOK
  <2> QED BY <1>7, <2>1 DEF NotFound, Fault, MemoryOK, CountsOK
<1>8. ASSUME call[c].at \in {"update", "delete"}, ReleaseAndCleanup(c)
      PROVE  CallsOK' /\ LocksOK'
  <2>1. CallsOK' /\ lock' \in [LockIds -> LockObject]
    BY <1>2, <1>3, <1>4, <1>8 DEF ReleaseAndCleanup, NoCall
  <2>2. locks' \in [Processors -> [Mems -> LockIds \cup {0}]]
    BY <1>1, <1>8 DEF ReleaseAndCleanup, CallOK, LocksOK
  <2> QED BY <2>1, <2>2 DEF LocksOK
<1>9. CASE UpdateMemory(c)
  <2>0. call[c].mem \in Mems /\ memory[call[c].mem] \in Memory
    BY <1>1, <1>9 DEF UpdateMemory, CallOK, MemoryOK
  <2>1. memory' \in [Mems -> Memory]
    <3> DEFINE x == [memory[call[c].mem] EXCEPT !.confidence = call[c].confidence,
                                                !.negative_count = call[c].negative_count]
    <3>1. x \in Memory
      BY <1>1, <2>0 DEF Memory, Call
    <3>2. memory' \in {memory, [memory EXCEPT ![call[c].mem] = x]}
      BY <1>9, <2>0 DEF UpdateMemory, MemoryOK
    <3> HIDE DEF x
    <3> QED BY <2>0, <3>1, <3>2 DEF MemoryOK
  <2>2. CountsOK'
    BY <1>1, <1>9 DEF UpdateMemory, CallOK, CountsOK, History, Fault
  <2> QED BY <1>8, <1>9, <2>1, <2>2 DEF UpdateMemory, MemoryOK
<1>10. CASE DeleteMemory(c)
  <2>1. memory' \in [Mems -> Memory]
    BY <1>1, <1>10 DEF DeleteMemory, CallOK, MemoryOK, Memory
  <2> QED BY <1>8, <1>10, <2>1 DEF DeleteMemory, MemoryOK, CountsOK, Fault
<1> QED BY <1>5, <1>6, <1>7, <1>9, <1>10 DEF Resume

\* A search that hits, and one that writes back, leave everything well typed.
LEMMA TypeSearch ==
    ASSUME TypeOK, NEW s \in Searchers, TrackAccess(s) \/ \E m \in Mems : SearchHit(s, m)
    PROVE  TypeOK'
<1> USE DEF TypeOK
<1>1. CASE \E m \in Mems : SearchHit(s, m)
  <2>1. PICK m \in Mems : SearchHit(s, m)
    BY <1>1
  <2> DEFINE n == AtMost(MaxConf, memory[m].confidence + RecallBoost)
  <2>2. n \in 0..MaxConf
    BY ConfidenceType DEF Feedbacks
  <2> HIDE DEF n
  <2>3. memory[m].access_count + 1 \in Nat
    BY DEF MemoryOK, Memory
  <2>4. search' = [search EXCEPT ![s] = [at |-> "write", mem |-> m, confidence |-> n,
                                         access_count |-> memory[m].access_count + 1]]
    BY <2>1 DEF SearchHit, n
  <2>5. MemoryOK'
    BY <2>1, <2>2, <2>3, <2>4 DEF SearchHit, MemoryOK, Hit
  <2> QED BY <2>1, <2>5 DEF SearchHit, LocksOK, CallsOK, CallOK, CountsOK
<1>2. CASE TrackAccess(s)
  <2>1. search[s].mem \in Mems /\ search[s] \in Hit
    BY <1>2 DEF TrackAccess, MemoryOK
  <2>2. memory' \in [Mems -> Memory]
    <3> DEFINE m == search[s].mem
               x == [memory[m] EXCEPT !.confidence = search[s].confidence,
                                      !.access_count = search[s].access_count]
    <3>1. memory[m] \in Memory
      BY <2>1 DEF MemoryOK
    <3>2. x \in Memory
      BY <2>1, <3>1 DEF Memory, Hit
    <3>3. memory' \in {memory, [memory EXCEPT ![m] = x]}
      BY <1>2, <2>1 DEF TrackAccess, MemoryOK
    <3> HIDE DEF x
    <3> QED BY <2>1, <3>2, <3>3 DEF MemoryOK
  <2>3. NoSearch \in Hit
    BY FeedbackAssumption DEF NoSearch, Hit
  <2>4. MemoryOK'
    BY <1>2, <2>2, <2>3 DEF TrackAccess, MemoryOK, NoSearch
  <2> QED BY <1>2, <2>4 DEF TrackAccess, LocksOK, CallsOK, CallOK, CountsOK, Fault
<1> QED BY <1>1, <1>2

\* Every step preserves the types.
LEMMA TypeInductive == TypeOK /\ [Next]_vars => TypeOK'
<1> SUFFICES ASSUME TypeOK, [Next]_vars
             PROVE  TypeOK'
  OBVIOUS
<1>1. CASE UNCHANGED vars
  BY <1>1 DEF vars, TypeOK, MemoryOK, LocksOK, CallsOK, CallOK, CountsOK
<1> QED BY <1>1, TypeApply, TypeResume, TypeSearch DEF Next

\* The type invariant holds in every behaviour: in particular confidence stays in its
\* range, and there is always an unused lock object for a call that makes one.
THEOREM FeedbackTypes == Spec => []TypeOK
<1> QED BY TypeInit, TypeInductive, PTL DEF Spec

-----------------------------------------------------------------------------
(* A memory is deleted only after enough negative feedbacks.  Each one is  *)
(* in a call under way or may be in the count, never in both: what a call  *)
(* will write, together with the other calls under way, is covered too.    *)

\* The negative feedbacks on m under way.
Pending(m) == {c \in Callers : call[c].at # "idle" /\ call[c].mem = m /\ call[c].fb = "negative"}

\* The counted negatives and those of the calls were all submitted.
Covered(m, count, calls) == count + Cardinality(calls) <= hist[m].negatives

\* The same of the count a call has read, which is at the threshold if it deletes.
CallCovered(c) ==
    call[c].at \in {"update", "delete"} =>
        /\ Covered(call[c].mem, call[c].negative_count, Pending(call[c].mem) \ {c})
        /\ call[c].at = "delete" => call[c].negative_count >= Threshold

\* The inductive invariant behind the auto-delete.
DeleteInv ==
    /\ \A m \in Mems : Covered(m, memory[m].negative_count, Pending(m))
    /\ \A c \in Callers : CallCovered(c)
    /\ AutoDeleteJustified

\* Sets of callers are finite, and larger ones have more elements.
LEMMA CallersCount ==
    ASSUME NEW T \in SUBSET Callers, NEW S \in SUBSET T
    PROVE  Cardinality(S) \in Nat /\ Cardinality(T) \in Nat /\ Cardinality(S) <= Cardinality(T)
<1>1. IsFiniteSet(T) /\ IsFiniteSet(S)
  BY FeedbackAssumption, FS_Subset
<1> QED BY <1>1, FS_Subset, FS_CardinalityType

\* A caller more makes the set larger by one, a caller less smaller by one.
LEMMA CallersPlus ==
    ASSUME NEW T \in SUBSET Callers, NEW c \in Callers
    PROVE  /\ c \notin T => Cardinality(T \cup {c}) = Cardinality(T) + 1
           /\ c \in T => Cardinality(T \ {c}) = Cardinality(T) - 1
<1>1. IsFiniteSet(T)
  BY FeedbackAssumption, FS_Subset
<1> QED BY <1>1, FS_AddElement, FS_RemoveElement

\* What is covered stays covered while calls end and feedbacks are added.
LEMMA CoveredStays ==
    ASSUME TypeOK, NEW m \in Mems, NEW count \in Nat, NEW S \in SUBSET Callers, NEW T \in SUBSET S,
           Covered(m, count, S), hist'[m].negatives \in Nat, hist[m].negatives <= hist'[m].negatives
    PROVE  count + Cardinality(T) <= hist'[m].negatives
<1>1. hist[m].negatives \in Nat
  BY DEF TypeOK, CountsOK, History
<1> QED BY <1>1, CallersCount DEF Covered

\* The deletion invariant survives the start of a call.
LEMMA DeleteApply ==
    ASSUME TypeOK, DeleteInv, NEW c \in Callers, NEW p \in Processors, NEW m \in Mems,
           NEW fb \in Feedbacks, apply_feedback(c, p, m, fb)
    PROVE  DeleteInv'
<1> DEFINE n == IF fb = "negative" THEN 1 ELSE 0
<1>1. /\ call[c].at = "idle"
      /\ call'[c].at \in {"get", "wait"} /\ call'[c].mem = m /\ call'[c].fb = fb
      /\ \A d \in Callers \ {c} : call'[d] = call[d]
      /\ UNCHANGED memory
  BY DEF apply_feedback, TypeOK, CallsOK, NoCall
<1>2. /\ \A o \in Mems \ {m} : hist'[o] = hist[o]
      /\ hist'[m].negatives = hist[m].negatives + n
      /\ \A o \in Mems : hist[o].negatives \in Nat
  BY DEF apply_feedback, TypeOK, CountsOK, History
<1>3. ASSUME NEW o \in Mems
      PROVE  /\ Pending(o)' \subseteq Pending(o) \cup {c}
             /\ o # m \/ n = 0 => Pending(o)' \subseteq Pending(o)
  BY <1>1 DEF Pending
<1>4. ASSUME NEW o \in Mems, NEW count \in Nat, NEW S \in SUBSET Pending(o), NEW T,
             T \subseteq S \cup {c}, o # m \/ n = 0 => T \subseteq S, Covered(o, count, S)
      PROVE  count + Cardinality(T) <= hist'[o].negatives
  <2>1. S \in SUBSET Callers /\ T \in SUBSET Callers /\ c \notin S
    BY <1>1, <1>4 DEF Pending
  <2>2. CASE o # m \/ n = 0
    BY <1>2, <1>4, <2>1, <2>2, CoveredStays
  <2>3. CASE o = m /\ n = 1
    <3>1. Cardinality(T) <= Cardinality(S) + 1
      <4>1. S \cup {c} \in SUBSET Callers /\ T \in SUBSET (S \cup {c})
        BY <1>4, <2>1
      <4> QED BY <2>1, <4>1, CallersCount, CallersPlus
    <3>2. Cardinality(T) \in Nat /\ Cardinality(S) \in Nat
      BY <2>1, CallersCount
    <3> QED BY <1>2, <1>4, <2>3, <3>1, <3>2 DEF Covered
  <2> QED BY <2>2, <2>3
<1>5. ASSUME NEW o \in Mems
      PROVE  Covered(o, memory[o].negative_count, Pending(o))'
  <2>1. memory[o].negative_count \in Nat /\ Covered(o, memory[o].negative_count, Pending(o))
    BY DEF TypeOK, MemoryOK, Memory, DeleteInv
  <2>2. memory[o].negative_count + Cardinality(Pending(o)') <= hist'[o].negatives
    BY <1>3, <1>4, <2>1
  <2> QED BY <1>1, <2>2 DEF Covered
<1>6. ASSUME NEW d \in Callers
      PROVE  CallCovered(d)'
  <2>1. CASE d = c
    BY <1>1, <2>1 DEF CallCovered
  <2>2. CASE d # c /\ call[d].at \in {"update", "delete"}
    <3>0. PICK o \in Mems : o = call[d].mem
      BY <2>2 DEF TypeOK, CallsOK, CallOK
    <3>1. call[d].negative_count \in Nat /\ CallCovered(d)
      BY <2>2 DEF TypeOK, CallsOK, Call, DeleteInv
    <3>2. /\ (Pending(o) \ {d}) \in SUBSET Pending(o)
          /\ Pending(o)' \ {d} \subseteq (Pending(o) \ {d}) \cup {c}
          /\ o # m \/ n = 0 => Pending(o)' \ {d} \subseteq Pending(o) \ {d}
      BY <1>3
    <3>3. Covered(o, call[d].negative_count, Pending(o) \ {d})
      BY <2>2, <3>0, <3>1 DEF CallCovered
    <3>4. call[d].negative_count + Cardinality(Pending(o)' \ {d}) <= hist'[o].negatives
      BY <1>4, <3>1, <3>2, <3>3
    <3>5. call'[d] = call[d]
      BY <1>1, <2>2
    <3> QED BY <2>2, <3>0, <3>1, <3>4, <3>5 DEF CallCovered, Covered
  <2>3. CASE d # c /\ call[d].at \notin {"update", "delete"}
    BY <1>1, <2>3 DEF CallCovered
  <2> QED BY <2>1, <2>2, <2>3
<1>7. AutoDeleteJustified'
  BY <1>1, <1>2, FeedbackAssumption DEF DeleteInv, AutoDeleteJustified
<1> QED BY <1>5, <1>6, <1>7 DEF DeleteInv

\* It survives a step of a call that is under way: the call's own feedback is not counted
\* by anyone else, so what it writes is covered.
LEMMA DeleteResume ==
    ASSUME TypeOK, DeleteInv, NEW c \in Callers, Resume(c)
    PROVE  DeleteInv'
<1>0. PICK m \in Mems : m = call[c].mem
  BY DEF Resume, Granted, GetMemory, NotFound, UpdateMemory, DeleteMemory, TypeOK, CallsOK, CallOK
<1>1. \A d \in Callers \ {c} : call'[d] = call[d]
  BY DEF Resume, Granted, GetMemory, NotFound, UpdateMemory, DeleteMemory, ReleaseAndCleanup,
         TypeOK, CallsOK
<1>2. \/ call'[c].at \in {"get", "update", "delete"} /\ call'[c].mem = m /\ call'[c].fb = call[c].fb
      \/ call'[c].at = "idle"
  <2>1. CASE Granted(c)
    BY <1>0, <2>1 DEF Granted, TypeOK, CallsOK, Call
  <2>2. CASE GetMemory(c)
    BY <1>0, <2>2 DEF GetMemory, TypeOK, CallsOK, Call, Verdict
  <2>3. CASE NotFound(c) \/ UpdateMemory(c) \/ DeleteMemory(c)
    BY <2>3 DEF NotFound, UpdateMemory, DeleteMemory, ReleaseAndCleanup, TypeOK, CallsOK, NoCall
  <2> QED BY <2>1, <2>2, <2>3 DEF Resume
<1>3. call[c].at # "idle" /\ call[c].at \in {"wait", "get", "update", "delete"}
  BY DEF Resume, Granted, GetMemory, NotFound, UpdateMemory, DeleteMemory
<1>4. ASSUME NEW o \in Mems
      PROVE  /\ Pending(o)' \subseteq Pending(o)
             /\ call'[c].at = "idle" => Pending(o)' \subseteq Pending(o) \ {c}
  BY <1>0, <1>1, <1>2, <1>3, <1>4 DEF Pending
<1>5. \A o \in Mems : /\ hist'[o].negatives = hist[o].negatives
                      /\ hist[o].negatives \in Nat
  <2>0. hist \in [Mems -> History]
    BY DEF TypeOK, CountsOK
  <2>1. CASE Granted(c)
    <3>1. PICK b : hist' = [hist EXCEPT ![m].split = b]
      BY <1>0, <2>1 DEF Granted
    <3> QED BY <2>0, <3>1 DEF History
  <2>2. CASE GetMemory(c) \/ NotFound(c) \/ DeleteMemory(c)
    BY <2>0, <2>2 DEF GetMemory, NotFound, DeleteMemory, History
  <2>3. CASE UpdateMemory(c)
    <3>1. PICK n : hist' = [hist EXCEPT ![m].counted = n]
      BY <1>0, <2>3 DEF UpdateMemory
    <3> QED BY <2>0, <3>1 DEF History
  <2> QED BY <2>1, <2>2, <2>3 DEF Resume
<1>6. ASSUME NEW o \in Mems
      PROVE  /\ memory[o] \in Memory
             /\ \/ memory'[o].negative_count = memory[o].negative_count
                \/ /\ o = m /\ call[c].at = "update" /\ call'[c].at = "idle"
                   /\ memory'[o].negative_count = call[c].negative_count
             /\ memory'[o].here # memory[o].here => o = m /\ call[c].at = "delete"
  <2>0. memory[o] \in Memory
    BY DEF TypeOK, MemoryOK
  <2>1. CASE Granted(c) \/ GetMemory(c) \/ NotFound(c)
    BY <2>0, <2>1 DEF Granted, GetMemory, NotFound
  <2>2. CASE UpdateMemory(c)
    <3>1. call'[c].at = "idle" /\ call[c].at = "update"
      BY <2>2 DEF UpdateMemory, ReleaseAndCleanup, TypeOK, CallsOK, NoCall
    <3> QED BY <1>0, <2>0, <2>2, <3>1 DEF UpdateMemory, TypeOK, MemoryOK, Memory
  <2>3. CASE DeleteMemory(c)
    BY <1>0, <2>0, <2>3 DEF DeleteMemory, TypeOK, MemoryOK, Memory
  <2> QED BY <2>1, <2>2, <2>3 DEF Resume
<1>7. ASSUME NEW o \in Mems, NEW count \in Nat, NEW S \in SUBSET Callers, NEW T \in SUBSET S,
             Covered(o, count, S)
      PROVE  count + Cardinality(T) <= hist'[o].negatives
  BY <1>5, <1>7, CoveredStays
<1>8. ASSUME NEW o \in Mems
      PROVE  Covered(o, memory[o].negative_count, Pending(o))'
  <2>1. Pending(o) \in SUBSET Callers /\ Pending(o) \ {c} \in SUBSET Callers
    BY DEF Pending
  <2>2. CASE memory'[o].negative_count = memory[o].negative_count
    <3>1. memory[o].negative_count \in Nat /\ Covered(o, memory[o].negative_count, Pending(o))
      BY <1>6 DEF DeleteInv, Memory
    <3>2. memory[o].negative_count + Cardinality(Pending(o)') <= hist'[o].negatives
      BY <1>4, <1>7, <2>1, <3>1
    <3> QED BY <2>2, <3>2 DEF Covered
  <2>3. CASE /\ o = m /\ call[c].at = "update" /\ call'[c].at = "idle"
             /\ memory'[o].negative_count = call[c].negative_count
    <3>1. call[c].negative_count \in Nat /\ Covered(o, call[c].negative_count, Pending(o) \ {c})
      BY <1>0, <2>3 DEF DeleteInv, CallCovered, TypeOK, CallsOK, Call
    <3>2. call[c].negative_count + Cardinality(Pending(o)') <= hist'[o].negatives
      BY <1>4, <1>7, <2>1, <2>3, <3>1
    <3> QED BY <2>3, <3>2 DEF Covered
  <2> QED BY <1>6, <2>2, <2>3
<1>9. ASSUME NEW d \in Callers, d # c
      PROVE  CallCovered(d)'
  <2>1. call'[d] = call[d]
    BY <1>1, <1>9
  <2>2. CASE call[d].at \in {"update", "delete"}
    <3>1. PICK o \in Mems : o = call[d].mem
      BY <2>2 DEF TypeOK, CallsOK, CallOK
    <3>2. call[d].negative_count \in Nat /\ CallCovered(d)
      BY <2>2 DEF TypeOK, CallsOK, Call, DeleteInv
    <3>3. /\ Pending(o) \ {d} \in SUBSET Callers
          /\ Pending(o)' \ {d} \in SUBSET (Pending(o) \ {d})
      BY <1>4 DEF Pending
    <3>4. Covered(o, call[d].negative_count, Pending(o) \ {d})
      BY <2>2, <3>1, <3>2 DEF CallCovered
    <3>5. call[d].negative_count + Cardinality(Pending(o)' \ {d}) <= hist'[o].negatives
      BY <1>7, <3>2, <3>3, <3>4
    <3> QED BY <2>1, <2>2, <3>1, <3>2, <3>5 DEF CallCovered, Covered
  <2>3. CASE call[d].at \notin {"update", "delete"}
    BY <2>1, <2>3 DEF CallCovered
  <2> QED BY <2>2, <2>3
<1>10. CallCovered(c)'
  <2>1. CASE ~GetMemory(c)
    <3>1. CASE Granted(c)
      BY <3>1 DEF Granted, TypeOK, CallsOK, CallCovered
    <3>2. CASE NotFound(c) \/ UpdateMemory(c) \/ DeleteMemory(c)
      <4>1. call'[c] = NoCall
        BY <3>2 DEF NotFound, UpdateMemory, DeleteMemory, ReleaseAndCleanup, TypeOK, CallsOK
      <4> QED BY <4>1 DEF CallCovered, NoCall
    <3> QED BY <2>1, <3>1, <3>2 DEF Resume
  <2>2. CASE GetMemory(c)
    <3>0. call[c].fb \in Feedbacks /\ memory[m] \in Memory /\ Threshold \in Nat
      BY <1>6, FeedbackAssumption DEF TypeOK, CallsOK, Call
    <3>1. /\ call'[c].at \in Verdict(m, call[c].fb) /\ call'[c].mem = m
          /\ call'[c].negative_count = Negatives(m, call[c].fb)
      BY <1>0, <2>2 DEF GetMemory, TypeOK, CallsOK, Call
    <3>2. call'[c].at = "delete" => Negatives(m, call[c].fb) >= Threshold
      BY <3>0, <3>1 DEF Verdict, Negatives, Feedbacks, Memory
    <3>3. Pending(m) \in SUBSET Callers /\ (call[c].fb = "negative" => c \in Pending(m))
      BY <1>0, <1>3 DEF Pending
    <3>4. Pending(m)' \ {c} \in SUBSET (Pending(m) \ {c})
      BY <1>4
    <3>5. Covered(m, memory[m].negative_count, Pending(m)) /\ memory[m].negative_count \in Nat
      BY <3>0 DEF DeleteInv, Memory
    <3>6. Covered(m, Negatives(m, call[c].fb), Pending(m) \ {c})
      <4>1. CASE call[c].fb = "negative"
        <5>1. /\ Cardinality(Pending(m) \ {c}) = Cardinality(Pending(m)) - 1
              /\ Cardinality(Pending(m)) \in Nat
          BY <3>3, <4>1, CallersPlus, CallersCount
        <5> QED BY <1>5, <3>5, <4>1, <5>1 DEF Covered, Negatives
      <4>2. CASE call[c].fb # "negative"
        <5>1. Negatives(m, call[c].fb) = memory[m].negative_count
          BY <3>5, <4>2 DEF Negatives
        <5>2. /\ Cardinality(Pending(m) \ {c}) <= Cardinality(Pending(m))
              /\ Cardinality(Pending(m)) \in Nat /\ Cardinality(Pending(m) \ {c}) \in Nat
          BY <3>3, CallersCount
        <5> QED BY <1>5, <3>5, <5>1, <5>2 DEF Covered
      <4> QED BY <4>1, <4>2
    <3>7. Negatives(m, call[c].fb) \in Nat
      BY <3>0, ConfidenceType DEF TypeOK
    <3>8. Negatives(m, call[c].fb) + Cardinality(Pending(m)' \ {c}) <= hist'[m].negatives
      BY <1>7, <3>3, <3>4, <3>6, <3>7
    <3> QED BY <3>1, <3>2, <3>8 DEF CallCovered, Covered
  <2> QED BY <2>1, <2>2
<1>11. AutoDeleteJustified'
  <2> SUFFICES ASSUME NEW o \in Mems, ~memory'[o].here
               PROVE  hist'[o].negatives >= Threshold
    BY DEF AutoDeleteJustified
  <2>1. CASE ~memory[o].here
    BY <1>5, <2>1 DEF DeleteInv, AutoDeleteJustified
  <2>2. CASE memory[o].here
    <3>1. o = m /\ call[c].at = "delete"
      BY <1>6, <2>2
    <3>2. /\ Covered(m, call[c].negative_count, Pending(m) \ {c})
          /\ call[c].negative_count >= Threshold
          /\ call[c].negative_count \in Nat
      BY <1>0, <3>1 DEF DeleteInv, CallCovered, TypeOK, CallsOK, Call
    <3>3. Cardinality(Pending(m) \ {c}) \in Nat
      <4>1. Pending(m) \ {c} \in SUBSET Callers
        BY DEF Pending
      <4> QED BY <4>1, CallersCount
    <3> QED BY <1>5, <3>1, <3>2, <3>3, FeedbackAssumption DEF Covered
  <2> QED BY <2>1, <2>2
<1> QED BY <1>8, <1>9, <1>10, <1>11 DEF DeleteInv

\* Searches write back neither the counts nor whether the memory is there.
LEMMA SearchKeepsCounts ==
    ASSUME TypeOK, NEW s \in Searchers, TrackAccess(s) \/ \E m \in Mems : SearchHit(s, m)
    PROVE  \A o \in Mems : /\ memory'[o].negative_count = memory[o].negative_count
                           /\ memory'[o].here = memory[o].here
<1> TAKE o \in Mems
<1>1. memory[o] \in Memory
  BY DEF TypeOK, MemoryOK
<1>2. CASE TrackAccess(s)
  <2>1. PICK m \in Mems : m = search[s].mem
    BY <1>2 DEF TrackAccess, TypeOK, MemoryOK
  <2>2. CASE o = m
    BY <1>1, <1>2, <2>1, <2>2 DEF TrackAccess, TypeOK, MemoryOK, Memory
  <2>3. CASE o # m
    BY <1>1, <1>2, <2>1, <2>3 DEF TrackAccess, TypeOK, MemoryOK
  <2> QED BY <2>2, <2>3
<1>3. CASE \E m \in Mems : SearchHit(s, m)
  BY <1>3 DEF SearchHit
<1> QED BY <1>2, <1>3

\* Searches write neither the counts nor the history: nothing they do matters to it.
LEMMA DeleteSearch ==
    ASSUME TypeOK, DeleteInv, NEW s \in Searchers, TrackAccess(s) \/ \E m \in Mems : SearchHit(s, m)
    PROVE  DeleteInv'
<1>1. UNCHANGED <<call, hist>>
  BY DEF TrackAccess, SearchHit
<1>2. \A o \in Mems : /\ memory'[o].negative_count = memory[o].negative_count
                      /\ memory'[o].here = memory[o].here
  BY SearchKeepsCounts
<1>3. \A o \in Mems : Pending(o)' = Pending(o)
  BY <1>1 DEF Pending
<1>4. ASSUME NEW o \in Mems
      PROVE  Covered(o, memory[o].negative_count, Pending(o))'
  BY <1>1, <1>2, <1>3 DEF DeleteInv, Covered
<1>5. ASSUME NEW d \in Callers
      PROVE  CallCovered(d)'
  <2>1. call[d].at \in {"update", "delete"} => call[d].mem \in Mems
    BY DEF TypeOK, CallsOK, CallOK
  <2> QED BY <1>1, <1>3, <2>1 DEF DeleteInv, CallCovered, Covered
<1>6. AutoDeleteJustified'
  BY <1>1, <1>2 DEF DeleteInv, AutoDeleteJustified
<1> QED BY <1>4, <1>5, <1>6 DEF DeleteInv

\* A memory leaves the collection only after Threshold negative feedbacks were submitted
\* on it, for any number of concurrent calls, processors and searches: a lost update can
\* delay an auto-delete and never brings one forward.
THEOREM AutoDeletesAreJustified == Spec => []AutoDeleteJustified
<1>1. Init => DeleteInv
  <2> SUFFICES ASSUME Init
               PROVE  DeleteInv
    OBVIOUS
  <2>1. \A m \in Mems : Pending(m) = {} /\ memory[m].here /\ memory[m].negative_count = 0
                        /\ hist[m].negatives = 0
    BY DEF Init, Pending, NoCall
  <2>2. Cardinality({}) = 0
    BY FS_EmptySet
  <2>3. \A m \in Mems : Covered(m, memory[m].negative_count, Pending(m))
    BY <2>1, <2>2 DEF Covered
  <2>4. \A c \in Callers : CallCovered(c)
    BY DEF Init, NoCall, CallCovered
  <2> QED BY <2>1, <2>3, <2>4 DEF DeleteInv, AutoDeleteJustified
<1>2. TypeOK /\ DeleteInv /\ [Next]_vars => DeleteInv'
  <2> SUFFICES ASSUME TypeOK, DeleteInv, [Next]_vars
               PROVE  DeleteInv'
    OBVIOUS
  <2>1. CASE UNCHANGED vars
    <3>1. UNCHANGED <<memory, call, hist>>
      BY <2>1 DEF vars
    <3> QED BY <3>1 DEF DeleteInv, Covered, CallCovered, Pending, AutoDeleteJustified
  <2> QED BY <2>1, DeleteApply, DeleteResume, DeleteSearch DEF Next
<1>3. DeleteInv => AutoDeleteJustified
  BY DEF DeleteInv
<1> QED BY <1>1, <1>2, <1>3, FeedbackTypes, PTL DEF Spec

-----------------------------------------------------------------------------
(* What the lock is for.                                                   *)

\* Call c is inside the locked block.
Inner(c) == call[c].at \in {"get", "update", "delete"}

\* Whoever is inside the locked block holds the lock, and nobody else holds the same one.
Excludes ==
    /\ \A c \in Callers : Inner(c) => lock[call[c].lock].held
    /\ \A c, d \in Callers :
          (c # d /\ Inner(c) /\ Inner(d)) => call[c].lock # call[d].lock

\* Two calls are never inside the locked block together under one lock object: the early
\* return and the clean-up release only what their own call holds, and a lock is never
\* granted while it is held.
THEOREM LocksExclude == Spec => []Excludes
<1>1. Init => Excludes
  BY DEF Init, Excludes, Inner, NoCall
<1>2. TypeOK /\ Excludes /\ [Next]_vars => Excludes'
  <2> SUFFICES ASSUME TypeOK, Excludes, [Next]_vars
               PROVE  Excludes'
    OBVIOUS
  <2> USE DEF TypeOK
  <2>0. \A c \in Callers : Inner(c) => call[c].lock \in LockIds
    BY DEF CallsOK, CallOK, Inner
  <2>1. ASSUME NEW c \in Callers, NEW l \in LockIds, ~lock[l].held, lock'[l].held,
               \A k \in LockIds \ {l} : lock'[k] = lock[k],
               \A d \in Callers \ {c} : call'[d] = call[d], call'[c].lock = l
        PROVE  Excludes'
    BY <2>0, <2>1 DEF Excludes, Inner
  <2>2. ASSUME NEW c \in Callers, \A k \in LockIds : lock'[k].held = lock[k].held,
               \A d \in Callers \ {c} : call'[d] = call[d],
               ~Inner(c)' \/ (Inner(c) /\ call'[c].lock = call[c].lock)
        PROVE  Excludes'
    BY <2>0, <2>2 DEF Excludes, Inner
  <2>3. ASSUME NEW c \in Callers, NEW p \in Processors, NEW m \in Mems, NEW fb \in Feedbacks,
               apply_feedback(c, p, m, fb)
        PROVE  Excludes'
    <3>1. PICK l \in LockIds : l = LockOf(p, m)
      BY LockOfType
    <3>2. lock[l] \in LockObject /\ lock'[l] = Asked(l, c) /\ \A k \in LockIds \ {l} : lock'[k] = lock[k]
      BY <2>3, <3>1 DEF apply_feedback, LocksOK
    <3>3. \A d \in Callers \ {c} : call'[d] = call[d]
      BY <2>3 DEF apply_feedback, CallsOK
    <3>4. call'[c].at = (IF Free(l) THEN "get" ELSE "wait") /\ call'[c].lock = l
      BY <2>3, <3>1 DEF apply_feedback, CallsOK, NoCall
    <3>5. CASE Free(l)
      BY <2>1, <3>2, <3>3, <3>4, <3>5 DEF Free, Asked, LockObject
    <3>6. CASE ~Free(l)
      <4>1. lock'[l].held = lock[l].held
        BY <3>2, <3>6 DEF Asked, LockObject
      <4> QED BY <2>2, <3>2, <3>3, <3>4, <3>6, <4>1 DEF Inner
    <3> QED BY <3>5, <3>6
  <2>4. ASSUME NEW c \in Callers, Granted(c)
        PROVE  Excludes'
    <3>1. PICK l \in LockIds : l = call[c].lock
      BY <2>4 DEF Granted, CallsOK, CallOK
    <3>2. lock' = [lock EXCEPT ![l] = [held |-> TRUE, waiters |-> Tail(lock[l].waiters)]]
      BY <2>4, <3>1 DEF Granted
    <3>3. /\ ~lock[l].held /\ lock'[l].held
          /\ \A k \in LockIds \ {l} : lock'[k] = lock[k]
      BY <2>4, <3>1, <3>2 DEF Granted, LocksOK
    <3>4. (\A d \in Callers \ {c} : call'[d] = call[d]) /\ call'[c].lock = l
      BY <2>4, <3>1 DEF Granted, CallsOK, Call
    <3> QED BY <2>1, <3>3, <3>4
  <2>5. ASSUME NEW c \in Callers, GetMemory(c)
        PROVE  Excludes'
    <3>1. /\ \A d \in Callers \ {c} : call'[d] = call[d]
          /\ call'[c].lock = call[c].lock
      BY <2>5 DEF GetMemory, CallsOK, Call
    <3> QED BY <2>2, <2>5, <3>1 DEF GetMemory, Inner
  <2>6. ASSUME NEW c \in Callers, Inner(c), Release(call[c].lock), call' = [call EXCEPT ![c] = NoCall]
        PROVE  Excludes'
    <3>1. PICK l \in LockIds : l = call[c].lock
      BY <2>0, <2>6
    <3>2. \A k \in LockIds \ {l} : lock'[k] = lock[k]
      BY <2>6, <3>1 DEF Release, LocksOK
    <3>3. ~Inner(c)' /\ \A d \in Callers \ {c} : call'[d] = call[d]
      BY <2>6 DEF Inner, NoCall, CallsOK
    <3>4. \A d \in Callers \ {c} : Inner(d) => call[d].lock \in LockIds \ {l}
      BY <2>0, <2>6, <3>1 DEF Excludes
    <3> QED BY <3>2, <3>3, <3>4 DEF Excludes, Inner
  <2>7. ASSUME NEW c \in Callers, NotFound(c) \/ UpdateMemory(c) \/ DeleteMemory(c)
        PROVE  Excludes'
    BY <2>6, <2>7 DEF NotFound, UpdateMemory, DeleteMemory, ReleaseAndCleanup, Inner
  <2>8. CASE UNCHANGED <<call, lock>>
    BY <2>8 DEF Excludes, Inner
  <2>9. ASSUME NEW s \in Searchers, TrackAccess(s) \/ \E m \in Mems : SearchHit(s, m)
        PROVE  UNCHANGED <<call, lock>>
    BY <2>9 DEF TrackAccess, SearchHit
  <2> QED BY <2>3, <2>4, <2>5, <2>7, <2>8, <2>9 DEF Next, Resume, vars
<1> QED BY <1>1, <1>2, FeedbackTypes, PTL DEF Spec

-----------------------------------------------------------------------------
(* What it achieves: while the calls on a memory were never split over two *)
(* lock objects, the call inside is alone, and what it read is current.    *)

\* The call inside is alone; it will write the count of the memory and its own feedback.
Exact(m) ==
    ~hist[m].split =>
        /\ \A c, d \in Inside(m) : c = d
        /\ (faults = 0 /\ memory[m].here) =>
              /\ memory[m].negative_count = hist[m].counted
              /\ \A c \in Inside(m) : call[c].at = "update" =>
                    call[c].negative_count =
                        hist[m].counted + (IF call[c].fb = "negative" THEN 1 ELSE 0)

\* What a call that starts notes: its feedback if it is negative, and whether it meets
\* another inside the locked block.
LEMMA ApplyNotes ==
    ASSUME TypeOK, NEW c \in Callers, NEW p \in Processors, NEW o \in Mems, NEW fb \in Feedbacks,
           apply_feedback(c, p, o, fb)
    PROVE  /\ \A m \in Mems : /\ hist'[m].counted = hist[m].counted
                              /\ hist[m].split => hist'[m].split
           /\ (Free(LockOf(p, o)) /\ Inside(o) # {}) => hist'[o].split
<1> DEFINE n == IF fb = "negative" THEN hist[o].negatives + 1 ELSE hist[o].negatives
           b == hist[o].split \/ (Free(LockOf(p, o)) /\ Inside(o) # {})
<1>1. hist \in [Mems -> History]
  BY DEF TypeOK, CountsOK
<1>2. hist'[o] = [hist[o] EXCEPT !.negatives = n, !.split = b]
  BY <1>1 DEF apply_feedback
<1>3. \A m \in Mems : m # o => hist'[m] = hist[m]
  BY <1>1 DEF apply_feedback
<1>4. hist[o] \in History
  BY <1>1
<1>5. (hist[o].split => b) /\ ((Free(LockOf(p, o)) /\ Inside(o) # {}) => b)
  OBVIOUS
<1> HIDE DEF n, b
<1>6. hist'[o].counted = hist[o].counted /\ hist'[o].split = b
  BY <1>2, <1>4 DEF History
<1> QED BY <1>3, <1>5, <1>6

\* A step that only brings c to the block of m, or into its line.
Enters(c, m) ==
    /\ \A d \in Callers \ {c} : call'[d] = call[d]
    /\ call[c].at \in {"idle", "wait"}
    /\ call'[c].at \in {"get", "wait"}
    /\ hist'[m].counted = hist[m].counted /\ (hist[m].split => hist'[m].split)
    /\ (c \in Inside(m)' /\ Inside(m) # {}) => hist'[m].split

\* A call that starts or is granted its lock comes in alone, or is noted as split.
LEMMA ExactEnters ==
    ASSUME TypeOK, NEW m \in Mems, Exact(m), NEW c \in Callers,
           \/ Granted(c)
           \/ \E p \in Processors, o \in Mems, fb \in Feedbacks : apply_feedback(c, p, o, fb)
    PROVE  Exact(m)'
<1> USE DEF TypeOK
<1>1. UNCHANGED <<memory, faults>> /\ hist \in [Mems -> History]
  BY DEF Granted, apply_feedback, CountsOK
<1>2. Enters(c, m)
  <2>1. CASE Granted(c)
    <3>1. /\ \A d \in Callers \ {c} : call'[d] = call[d]
          /\ call[c].at = "wait" /\ call'[c].at = "get"
          /\ call'[c].mem = call[c].mem /\ call[c].mem \in Mems
      BY <2>1 DEF Granted, CallsOK, CallOK, Call
    <3>2. PICK o \in Mems : o = call[c].mem
      BY <3>1
    <3> DEFINE b == hist[o].split \/ Inside(o) # {}
    <3>3. hist' = [hist EXCEPT ![o].split = b]
      BY <2>1, <3>2 DEF Granted
    <3>4. (hist[o].split => b) /\ (Inside(o) # {} => b)
      OBVIOUS
    <3>5. c \in Inside(m)' => m = o
      BY <3>1, <3>2 DEF Inside, Busy
    <3> HIDE DEF b
    <3>6. hist'[o].counted = hist[o].counted /\ hist'[o].split = b
      BY <1>1, <3>3 DEF History
    <3>7. m # o => hist'[m] = hist[m]
      BY <1>1, <3>3
    <3> QED BY <3>1, <3>4, <3>5, <3>6, <3>7 DEF Enters
  <2>2. ASSUME NEW p \in Processors, NEW o \in Mems, NEW fb \in Feedbacks, apply_feedback(c, p, o, fb)
        PROVE  Enters(c, m)
    <3>1. /\ \A d \in Callers \ {c} : call'[d] = call[d]
          /\ call[c].at = "idle"
      BY <2>2 DEF apply_feedback, CallsOK
    <3>2. call'[c].at = (IF Free(LockOf(p, o)) THEN "get" ELSE "wait") /\ call'[c].mem = o
      BY <2>2 DEF apply_feedback, CallsOK, NoCall
    <3>3. c \in Inside(m)' => m = o /\ Free(LockOf(p, o))
      BY <3>2 DEF Inside, Busy
    <3> QED BY <2>2, <3>1, <3>2, <3>3, ApplyNotes DEF Enters
  <2> QED BY <2>1, <2>2
<1>3. Inside(m)' \subseteq Inside(m) \cup {c} /\ c \notin Inside(m)
  BY <1>2 DEF Inside, Busy, Enters
<1> SUFFICES ASSUME ~hist'[m].split
             PROVE  Exact(m)'
  BY DEF Exact
<1>4. ~hist[m].split
  BY <1>2 DEF Enters
<1>5. \A x, y \in Inside(m)' : x = y
  BY <1>2, <1>3, <1>4 DEF Exact, Enters
<1>6. \A x \in Inside(m)' : call'[x].at = "update" => x \in Inside(m) /\ call'[x] = call[x]
  <2>1. Inside(m)' \subseteq Callers
    BY DEF Inside, Busy
  <2> QED BY <1>2, <1>3, <2>1 DEF Enters
<1> QED BY <1>1, <1>2, <1>4, <1>5, <1>6 DEF Exact, Enters

\* The call inside reads the memory's count as it is, writes it with its own feedback
\* added, and leaves nobody behind it.
LEMMA ExactInside ==
    ASSUME TypeOK, NEW m \in Mems, Exact(m), NEW c \in Callers,
           GetMemory(c) \/ NotFound(c) \/ UpdateMemory(c) \/ DeleteMemory(c)
    PROVE  Exact(m)'
<1> USE DEF TypeOK
<1>1. PICK o \in Mems : o = call[c].mem
  BY DEF GetMemory, NotFound, UpdateMemory, DeleteMemory, CallsOK, CallOK
<1>2. /\ c \in Inside(o) /\ \A d \in Callers \ {c} : call'[d] = call[d]
      /\ call[c] \in Call /\ memory[m] \in Memory /\ memory[o] \in Memory
  BY <1>1 DEF GetMemory, NotFound, UpdateMemory, DeleteMemory, ReleaseAndCleanup, CallsOK,
              Inside, Busy, MemoryOK
<1>3. hist \in [Mems -> History] /\ faults \in Nat /\ (faults' = 0 => faults = 0)
  <2>1. hist \in [Mems -> History] /\ faults \in Nat
    BY DEF CountsOK
  <2>2. faults' = faults \/ faults' = faults + 1
    BY DEF GetMemory, NotFound, UpdateMemory, DeleteMemory, Fault
  <2> QED BY <2>1, <2>2
<1> SUFFICES ASSUME ~hist'[m].split
             PROVE  Exact(m)'
  BY DEF Exact
<1>4. CASE GetMemory(c)
  <2>1. UNCHANGED <<memory, faults, hist>>
    BY <1>4 DEF GetMemory
  <2>2. /\ call'[c].mem = o /\ call'[c].fb = call[c].fb
        /\ call'[c].negative_count = Negatives(o, call[c].fb)
        /\ call'[c].at # "wait" /\ call'[c].at # "idle"
    <3>1. PICK v \in Verdict(o, call[c].fb) :
             call' = [call EXCEPT ![c].at = v,
                                  ![c].confidence = Confidence(o, call[c].fb),
                                  ![c].negative_count = Negatives(o, call[c].fb)]
      BY <1>1, <1>4 DEF GetMemory
    <3>2. v \in {"update", "delete"}
      BY DEF Verdict
    <3> QED BY <1>1, <1>2, <3>1, <3>2 DEF CallsOK, Call
  <2>3. Inside(m)' = Inside(m)
    BY <1>1, <1>2, <2>2 DEF Inside, Busy
  <2>4. c \in Inside(m)' => m = o
    BY <2>2 DEF Inside, Busy
  <2>5. (c \in Inside(m) /\ faults = 0 /\ memory[m].here) =>
           call'[c].negative_count = hist[m].counted + (IF call'[c].fb = "negative" THEN 1 ELSE 0)
    BY <2>1, <2>2, <2>3, <2>4 DEF Exact, Negatives
  <2>6. \A d \in Inside(m) : d \in Callers
    BY DEF Inside, Busy
  <2> QED BY <1>2, <2>1, <2>3, <2>5, <2>6 DEF Exact
<1>5. CASE NotFound(c) \/ UpdateMemory(c) \/ DeleteMemory(c)
  <2>1. call'[c].at = "idle"
    BY <1>5 DEF NotFound, UpdateMemory, DeleteMemory, ReleaseAndCleanup, NoCall, CallsOK
  <2>2. Inside(m)' = Inside(m) \ {c}
    BY <1>2, <2>1 DEF Inside, Busy
  <2>3. \A d \in Inside(m)' : call'[d] = call[d]
    BY <1>2, <2>2 DEF Inside, Busy
  <2>4. CASE NotFound(c)
    BY <1>3, <2>2, <2>3, <2>4 DEF NotFound, Exact
  <2>5. CASE UpdateMemory(c) \/ DeleteMemory(c)
    <3>1. m # o => memory'[m] = memory[m] /\ hist'[m] = hist[m]
      BY <1>1, <1>3, <2>5 DEF UpdateMemory, DeleteMemory, MemoryOK
    <3>2. hist[m].split = hist'[m].split
      BY <1>1, <1>3, <2>5 DEF UpdateMemory, DeleteMemory, History
    <3>3. m = o => Inside(m)' = {}
      BY <1>2, <2>2, <3>2 DEF Exact
    <3>4. (m = o /\ faults' = 0 /\ memory'[m].here) =>
             memory'[m].negative_count = hist'[m].counted
      <4> SUFFICES ASSUME m = o, faults' = 0, memory'[o].here
                   PROVE  memory'[o].negative_count = hist'[o].counted
        OBVIOUS
      <4>1. faults' = faults
        BY <1>3
      <4>2. CASE DeleteMemory(c)
        <5>1. memory' = [memory EXCEPT ![o].here = FALSE]
          BY <1>1, <1>3, <4>1, <4>2 DEF DeleteMemory, Fault
        <5> QED BY <1>2, <5>1 DEF MemoryOK, Memory
      <4>3. CASE UpdateMemory(c)
        <5>1. memory' = [memory EXCEPT ![o] =
                 IF @.here THEN [@ EXCEPT !.confidence = call[c].confidence,
                                          !.negative_count = call[c].negative_count]
                 ELSE @]
          BY <1>1, <1>3, <4>1, <4>3 DEF UpdateMemory, Fault
        <5>2. memory[o].here /\ memory'[o].negative_count = call[c].negative_count
          BY <1>2, <5>1 DEF MemoryOK, Memory
        <5>3. hist'[o].counted =
                 (IF call[c].fb = "negative" THEN hist[o].counted + 1 ELSE hist[o].counted)
          BY <1>1, <1>3, <4>3 DEF UpdateMemory, History
        <5>4. call[c].negative_count =
                 hist[o].counted + (IF call[c].fb = "negative" THEN 1 ELSE 0)
          BY <1>2, <1>3, <3>2, <4>1, <4>3, <5>2 DEF Exact, UpdateMemory
        <5>5. hist[o].counted \in Nat
          BY <1>3 DEF History
        <5> QED BY <5>2, <5>3, <5>4, <5>5
      <4> QED BY <2>5, <4>2, <4>3
    <3> QED BY <1>3, <2>2, <2>3, <3>1, <3>2, <3>3, <3>4 DEF Exact
  <2> QED BY <1>5, <2>4, <2>5
<1> QED BY <1>4, <1>5

\* As long as the calls on a memory met at one lock object and nothing failed, every
\* negative feedback answered "updated" is counted, for any number of calls, processors
\* and searches.
THEOREM OneLockSuffices == Spec => []OneLockLosesNothing
<1> DEFINE AllExact == \A m \in Mems : Exact(m)
<1>1. Init => AllExact
  BY DEF Init, Exact, Inside, Busy, NoCall
<1>2. TypeOK /\ AllExact /\ [Next]_vars => AllExact'
  <2> SUFFICES ASSUME TypeOK, AllExact, [Next]_vars, NEW m \in Mems
               PROVE  Exact(m)'
    OBVIOUS
  <2>1. ASSUME NEW c \in Callers, NEW p \in Processors, NEW o \in Mems, NEW fb \in Feedbacks,
               apply_feedback(c, p, o, fb)
        PROVE  Exact(m)'
    BY <2>1, ExactEnters
  <2>2. ASSUME NEW c \in Callers, Resume(c)
        PROVE  Exact(m)'
    BY <2>2, ExactEnters, ExactInside DEF Resume
  <2>3. ASSUME NEW s \in Searchers, TrackAccess(s) \/ \E o \in Mems : SearchHit(s, o)
        PROVE  Exact(m)'
    <3>1. UNCHANGED <<call, hist>> /\ (faults' = 0 => faults = 0)
      BY <2>3 DEF TrackAccess, SearchHit, Fault, TypeOK, CountsOK
    <3>2. Inside(m)' = Inside(m)
      BY <3>1 DEF Inside, Busy
    <3>3. /\ memory'[m].negative_count = memory[m].negative_count
          /\ memory'[m].here = memory[m].here
      BY <2>3, SearchKeepsCounts
    <3> QED BY <3>1, <3>2, <3>3 DEF Exact
  <2>4. CASE UNCHANGED vars
    BY <2>4 DEF vars, Exact, Inside, Busy
  <2> QED BY <2>1, <2>2, <2>3, <2>4 DEF Next
<1>3. AllExact => OneLockLosesNothing
  BY DEF Exact, OneLockLosesNothing
<1> QED BY <1>1, <1>2, <1>3, FeedbackTypes, PTL DEF Spec
=============================================================================
