---------------------------- MODULE MemoryLedger ----------------------------
(***************************************************************************)
(* What the episodic store of engram promises of each memory, without      *)
(* requests, index, retries or crashes: what callers were told about it,   *)
(* and where it is held.  Short of a deletion a memory is never held less  *)
(* well than before, nobody is told of one that is nowhere, and what was   *)
(* given up as unsaved does not turn up later.                             *)
(* EpisodicStore implements this specification.                            *)
(***************************************************************************)
CONSTANT Ids

VARIABLES
    told,    \* [Ids -> what callers were told about a memory]
    place    \* [Ids -> where it is held]

Tellings == {"unknown", "live", "unsaved", "deleting", "deleted"}

\* In the collection, waiting in the retry queue, or a dead letter there.
Places == {"nowhere", "stored", "waiting", "dead"}

LedgerInit ==
    /\ told = [i \in Ids |-> "unknown"]
    /\ place = [i \in Ids |-> "nowhere"]

ToGo(i) == told[i] \in {"deleting", "deleted"}

\* What callers may be told next.  Only a deletion takes an answer back.
Tells(i) ==
    \/ told'[i] = told[i]
    \/ told[i] = "unknown"  /\ told'[i] = "live"    /\ place'[i] # "nowhere"
    \/ told[i] = "unknown"  /\ told'[i] = "unsaved"
    \/ told'[i] = "deleting"
    \/ told[i] = "deleting" /\ told'[i] = "deleted"

\* Where a memory may be next.  One that is to go may also leave, and come back, but even
\* then a dead letter comes from the queue and is left only for the collection.
Moves(i) ==
    \/ place'[i] = place[i]
    \/ place[i] = "nowhere" /\ place'[i] \in {"stored", "waiting"} /\ told[i] = "unknown"
    \/ place[i] = "waiting" /\ place'[i] \in {"stored", "dead"}
    \/ /\ ToGo(i)'
       /\ place[i] = "dead" => place'[i] = "stored"
       /\ place'[i] = "dead" => place[i] # "nowhere"

\* One call may concern several memories.
LedgerNext ==
    /\ told' \in [Ids -> Tellings]
    /\ place' \in [Ids -> Places]
    /\ \A i \in Ids : Tells(i) /\ Moves(i)

LedgerSpec == LedgerInit /\ [][LedgerNext]_<<told, place>>
=============================================================================
