------------------------------ MODULE Feedback ------------------------------
(***************************************************************************)
(* Feedback on memories: FeedbackProcessor.apply_feedback reads a memory,  *)
(* computes its new confidence and negative_count and writes them back, or *)
(* deletes it, under a per-memory asyncio.Lock kept in the processor's own *)
(* dictionary.  adjust_memory makes a processor for every call.  Beside    *)
(* it, a search writes back the access_count and confidence of its hits.   *)
(*                                                                         *)
(* Only the fields of the memory the two share or decide by are kept;      *)
(* priority is read and written exactly as confidence is.  Confidence is   *)
(* an integer in units the configured steps are multiples of.              *)
(***************************************************************************)
EXTENDS Integers, Sequences, FiniteSets

CONSTANTS
    Mems,           \* memory ids
    Callers,        \* concurrent callers of apply_feedback
    Searchers,      \* concurrent searches
    Processors,     \* FeedbackProcessor objects
    MaxConf,        \* confidence 1.0
    InitConf,       \* the confidence of a new memory, 0.5
    Boost,          \* positive_boost
    Penalty,        \* negative_penalty
    RecallBoost,    \* what a search adds to the confidence of a hit
    Threshold,      \* auto_delete_threshold
    MinConf,        \* min_confidence_for_delete
    MaxCalls,       \* bound: feedbacks submitted
    MaxSearches,    \* bound: searches
    MaxFaults       \* bound: backend calls that fail

ASSUME FeedbackAssumption ==
    /\ IsFiniteSet(Mems) /\ IsFiniteSet(Callers) /\ IsFiniteSet(Processors)
    /\ {MaxConf, InitConf, Boost, Penalty, RecallBoost, Threshold, MinConf} \subseteq Nat
    /\ InitConf <= MaxConf
    /\ {MaxCalls, MaxSearches, MaxFaults} \subseteq Nat

VARIABLES
    memory,     \* [Mems -> Memory], the payload in the collection
    locks,      \* [Processors -> [Mems -> lock object, 0 if the key is absent]]
    lock,       \* the state of each asyncio.Lock object
    call,       \* [Callers -> the apply_feedback call in progress]
    search,     \* [Searchers -> the hit a search is about to write back]
    submitted,  \* history: calls started so far
    searches,   \* history: searches started so far
    faults,     \* failures so far
    hist        \* history per memory: see History

vars == <<memory, locks, lock, call, search, submitted, searches, faults, hist>>

Memory == [here : BOOLEAN, confidence : 0..MaxConf, negative_count : Nat, access_count : Nat]

\* More lock objects than dictionaries and calls can refer to at once.
LockIds == 1..(Cardinality(Processors) * Cardinality(Mems) + Cardinality(Callers) + 1)

Feedbacks == {"positive", "negative"}

\* negatives: negative feedbacks submitted.  counted: those answered "updated".
\* split: two calls were once in the locked block of the memory together, under two
\* lock objects.
History == [negatives : Nat, counted : Nat, split : BOOLEAN]

NoCall   == [at |-> "idle", mem |-> 0, proc |-> 0, fb |-> "positive", lock |-> 0,
             confidence |-> 0, negative_count |-> 0]
NoSearch == [at |-> "idle", mem |-> 0, confidence |-> 0, access_count |-> 0]

AtLeast(a, b) == IF a >= b THEN a ELSE b
AtMost(a, b)  == IF a <= b THEN a ELSE b

Init ==
    /\ memory = [m \in Mems |-> [here |-> TRUE, confidence |-> InitConf,
                                 negative_count |-> 0, access_count |-> 0]]
    /\ locks = [p \in Processors |-> [m \in Mems |-> 0]]
    /\ lock = [l \in LockIds |-> [held |-> FALSE, waiters |-> << >>]]
    /\ call = [c \in Callers |-> NoCall]
    /\ search = [s \in Searchers |-> NoSearch]
    /\ submitted = 0 /\ searches = 0 /\ faults = 0
    /\ hist = [m \in Mems |-> [negatives |-> 0, counted |-> 0, split |-> FALSE]]

Busy(m)   == {c \in Callers : call[c].at # "idle" /\ call[c].mem = m}
Inside(m) == {c \in Busy(m) : call[c].at # "wait"}

Referenced == {locks[p][m] : p \in Processors, m \in Mems} \cup {call[c].lock : c \in Callers}

\* asyncio.Lock() makes an object nothing refers to yet.
NewLock == CHOOSE l \in LockIds : l \notin Referenced

\* _locks.setdefault: the memory's lock in the processor's dictionary, or a new one.
LockOf(p, m) == IF locks[p][m] = 0 THEN NewLock ELSE locks[p][m]

\* asyncio.Lock.acquire: the lock is taken at once when nobody holds it or waits.
Free(l)     == ~lock[l].held /\ lock[l].waiters = << >>
Asked(l, c) == IF Free(l) THEN [lock[l] EXCEPT !.held = TRUE]
               ELSE [lock[l] EXCEPT !.waiters = Append(@, c)]

Fault == faults < MaxFaults /\ faults' = faults + 1

-----------------------------------------------------------------------------
(* apply_feedback *)

\* Mutant: the lock is made and not waited for.
apply_feedback_Unlocked(c, p, m, fb) ==
    LET l == LockOf(p, m) IN
    /\ call[c].at = "idle"
    /\ submitted < MaxCalls
    /\ submitted' = submitted + 1
    /\ locks' = [locks EXCEPT ![p][m] = l]
    /\ lock' = [lock EXCEPT ![l].held = TRUE]
    /\ call' = [call EXCEPT ![c] = [NoCall EXCEPT !.at = "get", !.mem = m, !.proc = p,
                                                  !.fb = fb, !.lock = l]]
    /\ hist' = [hist EXCEPT ![m].negatives = IF fb = "negative" THEN @ + 1 ELSE @]
    /\ UNCHANGED <<memory, search, searches, faults>>

\* Looks the lock up or makes it, and takes it or waits.
apply_feedback(c, p, m, fb) ==
    LET l == LockOf(p, m) IN
    /\ call[c].at = "idle"
    /\ submitted < MaxCalls
    /\ submitted' = submitted + 1
    /\ locks' = [locks EXCEPT ![p][m] = l]
    /\ lock' = [lock EXCEPT ![l] = Asked(l, c)]
    /\ call' = [call EXCEPT ![c] = [NoCall EXCEPT !.at = IF Free(l) THEN "get" ELSE "wait",
                                                  !.mem = m, !.proc = p, !.fb = fb,
                                                  !.lock = l]]
    /\ hist' = [hist EXCEPT ![m].negatives  = IF fb = "negative" THEN @ + 1 ELSE @,
                            ![m].split      = @ \/ (Free(l) /\ Inside(m) # {})]
    /\ UNCHANGED <<memory, search, searches, faults>>

\* The first waiter, woken by the release, runs and takes the lock.
Granted(c) ==
    LET l == call[c].lock IN
    /\ call[c].at = "wait"
    /\ ~lock[l].held
    /\ Head(lock[l].waiters) = c
    /\ lock' = [lock EXCEPT ![l] = [held |-> TRUE, waiters |-> Tail(lock[l].waiters)]]
    /\ call' = [call EXCEPT ![c].at = "get"]
    /\ hist' = [hist EXCEPT ![call[c].mem].split = @ \/ Inside(call[c].mem) # {}]
    /\ UNCHANGED <<memory, locks, search, submitted, searches, faults>>

\* The values the call will write; in floating point a confidence that equals the
\* limit may fall on either side of it.
Confidence(m, fb) == IF fb = "positive" THEN AtMost(MaxConf, memory[m].confidence + Boost)
                     ELSE AtLeast(0, memory[m].confidence - Penalty)
Negatives(m, fb)  == memory[m].negative_count + (IF fb = "negative" THEN 1 ELSE 0)

\* Mutant: either condition deletes.
Verdict_Either(m, fb) ==
    IF Negatives(m, fb) >= Threshold \/ Confidence(m, fb) < MinConf THEN {"delete"} ELSE {"update"}

Verdict(m, fb) ==
    IF Negatives(m, fb) < Threshold \/ Confidence(m, fb) > MinConf THEN {"update"}
    ELSE IF Confidence(m, fb) < MinConf THEN {"delete"} ELSE {"update", "delete"}

GetMemory(c) ==
    LET m == call[c].mem  fb == call[c].fb IN
    /\ call[c].at = "get"
    /\ memory[m].here
    /\ \E v \in Verdict(m, fb) :
        call' = [call EXCEPT ![c].at = v,
                             ![c].confidence = Confidence(m, fb),
                             ![c].negative_count = Negatives(m, fb)]
    /\ UNCHANGED <<memory, locks, lock, search, submitted, searches, faults, hist>>

Release(l) == lock' = [lock EXCEPT ![l].held = FALSE]

\* Mutant: the early return keeps the lock.
NotFound_Locked(c) ==
    LET m == call[c].mem IN
    /\ call[c].at = "get"
    /\ \/ ~memory[m].here /\ UNCHANGED faults
       \/ Fault
    /\ call' = [call EXCEPT ![c] = NoCall]
    /\ UNCHANGED <<memory, locks, lock, search, submitted, searches, hist>>

\* The memory is gone, or get() failed, which it also answers with None.  This return
\* is inside the locked block: the lock is released and stays in the dictionary.
NotFound(c) ==
    LET m == call[c].mem IN
    /\ call[c].at = "get"
    /\ \/ ~memory[m].here /\ UNCHANGED faults
       \/ Fault
    /\ Release(call[c].lock)
    /\ call' = [call EXCEPT ![c] = NoCall]
    /\ UNCHANGED <<memory, locks, search, submitted, searches, hist>>

\* The block ends and, before any waiter runs, the entry goes unless its lock is held.
ReleaseAndCleanup(c) ==
    LET m == call[c].mem  p == call[c].proc IN
    /\ Release(call[c].lock)
    /\ locks' = [locks EXCEPT ![p][m] = IF @ # 0 /\ ~lock'[@].held THEN 0 ELSE @]
    /\ call' = [call EXCEPT ![c] = NoCall]

\* update_metadata: a set_payload of the computed values.  It swallows its errors, and
\* a missing point stays missing; the caller is told "updated" in every case.
UpdateMemory(c) ==
    LET m == call[c].mem IN
    /\ call[c].at = "update"
    /\ \/ /\ memory' = [memory EXCEPT ![m] =
                IF @.here THEN [@ EXCEPT !.confidence = call[c].confidence,
                                         !.negative_count = call[c].negative_count]
                ELSE @]
          /\ UNCHANGED faults
       \/ Fault /\ UNCHANGED memory
    /\ ReleaseAndCleanup(c)
    /\ hist' = [hist EXCEPT ![m].counted = IF call[c].fb = "negative" THEN @ + 1 ELSE @]
    /\ UNCHANGED <<search, submitted, searches>>

\* delete() returns False on an error, and the caller is told "deleted" all the same.
DeleteMemory(c) ==
    LET m == call[c].mem IN
    /\ call[c].at = "delete"
    /\ \/ memory' = [memory EXCEPT ![m].here = FALSE] /\ UNCHANGED faults
       \/ Fault /\ UNCHANGED memory
    /\ ReleaseAndCleanup(c)
    /\ UNCHANGED <<search, submitted, searches, hist>>

-----------------------------------------------------------------------------
(* The access tracking of search() *)

\* The query returns the hit; what will be written is computed from it.
SearchHit(s, m) ==
    /\ search[s].at = "idle"
    /\ searches < MaxSearches
    /\ memory[m].here
    /\ searches' = searches + 1
    /\ search' = [search EXCEPT ![s] =
                    [at |-> "write", mem |-> m,
                     confidence |-> AtMost(MaxConf, memory[m].confidence + RecallBoost),
                     access_count |-> memory[m].access_count + 1]]
    /\ UNCHANGED <<memory, locks, lock, call, submitted, faults, hist>>

\* A failed update is logged and forgotten.
TrackAccess(s) ==
    LET m == search[s].mem IN
    /\ search[s].at = "write"
    /\ \/ /\ memory' = [memory EXCEPT ![m] =
                IF @.here THEN [@ EXCEPT !.confidence = search[s].confidence,
                                         !.access_count = search[s].access_count]
                ELSE @]
          /\ UNCHANGED faults
       \/ Fault /\ UNCHANGED memory
    /\ search' = [search EXCEPT ![s] = NoSearch]
    /\ UNCHANGED <<locks, lock, call, submitted, searches, hist>>

Resume(c) ==
    Granted(c) \/ GetMemory(c) \/ NotFound(c) \/ UpdateMemory(c) \/ DeleteMemory(c)

Next ==
    \/ \E c \in Callers, p \in Processors, m \in Mems, fb \in Feedbacks :
            apply_feedback(c, p, m, fb)
    \/ \E c \in Callers : Resume(c)
    \/ \E s \in Searchers, m \in Mems : SearchHit(s, m)
    \/ \E s \in Searchers : TrackAccess(s)

Spec == Init /\ [][Next]_vars

\* The event loop resumes a coroutine whose await has completed.
FairSpec == Spec /\ \A c \in Callers : WF_vars(Resume(c))
-----------------------------------------------------------------------------
\* A memory leaves the collection only after Threshold negative feedbacks were
\* submitted on it: updates lost to other calls or to searches can delay an auto-delete
\* and never bring one forward.
AutoDeleteJustified ==
    \A m \in Mems : ~memory[m].here => hist[m].negatives >= Threshold

\* As long as the calls on a memory met at one lock object and nothing failed, every
\* negative feedback answered "updated" is counted between calls, whatever searches
\* wrote: the lock does what it is for until the dictionary gives out a second one.
OneLockLosesNothing ==
    \A m \in Mems : (Busy(m) = {} /\ ~hist[m].split /\ faults = 0 /\ memory[m].here)
        => memory[m].negative_count = hist[m].counted

\* Every feedback is answered: a release hands the lock on, no waiter is forgotten.
FeedbackReturns == \A c \in Callers : (call[c].at # "idle") ~> (call[c].at = "idle")
=============================================================================
