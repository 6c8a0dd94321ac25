--------------------------- MODULE InboxDelivery ---------------------------
(***************************************************************************)
(* What the inbox of engram promises of the files dropped into it, without *)
(* watchers, retries or crashes: a file waits, is taken, and ends as done  *)
(* or as failed.  A file may be taken and put back any number of times,    *)
(* and it is lost only to another file of the same stem.                   *)
(* InboxWatcher implements this specification.                             *)
(***************************************************************************)
CONSTANTS
    Docs,   \* what is ever dropped
    Stems   \* file names without their extension

VARIABLES
    fate,   \* [Docs -> where a document is]
    stem    \* [Docs -> the stem it was dropped under]

Fates == {"new", "waiting", "taken", "done", "failed", "lost"}

DeliveryInit ==
    /\ fate = [d \in Docs |-> "new"]
    /\ stem \in [Docs -> Stems]

Clashes(d) == \E o \in Docs \ {d} : fate[o] # "new" /\ stem[o] = stem[d]

\* A document may change its place in these ways, and in no other.
Moves(d, from, to) ==
    \/ from = "new"     /\ to = "waiting"
    \/ from = "waiting" /\ to = "taken"
    \/ from = "taken"   /\ to \in {"waiting", "done", "failed"}

\* One file operation moves one document and may replace another of its stem.
Deliver(d) ==
    /\ \E to \in Fates :
          /\ Moves(d, fate[d], to)
          /\ \/ fate' = [fate EXCEPT ![d] = to]
             \/ \E o \in Docs \ {d} :
                   /\ stem[o] = stem[d]
                   /\ fate[o] \in {"waiting", "taken", "failed"}
                   /\ fate' = [fate EXCEPT ![d] = to, ![o] = "lost"]
    /\ UNCHANGED stem

DeliveryNext == \E d \in Docs : Deliver(d)

DeliverySpec == DeliveryInit /\ [][DeliveryNext]_<<fate, stem>>
=============================================================================
