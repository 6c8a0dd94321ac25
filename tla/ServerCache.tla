---------------------------- MODULE ServerCache ----------------------------
(***************************************************************************)
(* The handlers of engram's HTTP server and what they cache: the results   *)
(* of recall, think and query in Redis, and the names of the graph's nodes *)
(* in the reasoning engine.  A handler that writes forgets some of these,  *)
(* others none; a handler that reads keeps what it found some awaits ago.  *)
(*                                                                         *)
(* A result is the set of memories or nodes that were there to be found,   *)
(* and there is one set of request parameters for each operation.          *)
(***************************************************************************)
EXTENDS Naturals, FiniteSets, Sequences

CONSTANTS
    Items,     \* memories, and the nodes extracted from them
    NoItem,
    NoEntry,   \* nothing is cached
    Clients,   \* requests that are handled at the same time
    MaxFaults  \* bound: calls of Redis that fail, and deletions

ASSUME CacheAssumption == MaxFaults \in Nat /\ NoItem \notin Items

VARIABLES
    stored,  \* memories of the episodic store
    graph,   \* nodes of the semantic graph
    cache,   \* what each operation cached
    req,     \* what each request is doing
    unseen,  \* history: what a cached entry may lack, and why is said where it is set
    acked,   \* history: items whose request was answered
    used,    \* history: items that were written, once each
    faults

cacheVars == <<stored, graph, cache, req, unseen, acked, used, faults>>

Results == {"recall", "think", "query"}
Entries == Results \cup {"names"}

Found(e) == IF e \in {"query", "names"} THEN graph ELSE stored

NoRequest == [at |-> "idle", op |-> "none", item |-> NoItem, seen |-> {}, rest |-> <<>>]

ServerInit ==
    /\ stored = {} /\ graph = {}
    /\ cache = [e \in Entries |-> NoEntry] /\ unseen = [e \in Entries |-> {}]
    /\ req = [c \in Clients |-> NoRequest]
    /\ acked = {} /\ used = {} /\ faults = 0

Fault == faults < MaxFaults /\ faults' = faults + 1

----------------------------------------------------------------------------
(* Reading.  A hit returns the entry and changes nothing.                  *)
Miss(e) == \/ cache[e] = NoEntry /\ UNCHANGED faults
           \/ cache[e] # NoEntry /\ Fault

recall(c) ==
    /\ req[c].at = "idle" /\ Miss("recall")
    /\ req' = [req EXCEPT ![c] = [NoRequest EXCEPT !.at = "search", !.op = "recall"]]
    /\ UNCHANGED <<stored, graph, cache, unseen, acked, used>>

query(c) ==
    /\ req[c].at = "idle" /\ Miss("query")
    /\ req' = [req EXCEPT ![c] = [NoRequest EXCEPT !.at = "search", !.op = "query"]]
    /\ UNCHANGED <<stored, graph, cache, unseen, acked, used>>

\* A question loads the node names first, unless the engine has them.
think(c) ==
    /\ req[c].at = "idle" /\ Miss("think")
    /\ req' = [req EXCEPT ![c] = [NoRequest EXCEPT !.at = "search", !.op = "think"]]
    /\ IF cache["names"] = NoEntry
       THEN cache' = [cache EXCEPT !["names"] = graph] /\ unseen' = [unseen EXCEPT !["names"] = {}]
       ELSE UNCHANGED <<cache, unseen>>
    /\ UNCHANGED <<stored, graph, acked, used>>

Search(c) ==
    /\ req[c].at = "search"
    /\ req' = [req EXCEPT ![c].at = IF req[c].op = "think" THEN "save" ELSE "set",
                          ![c].seen = Found(req[c].op)]
    /\ UNCHANGED <<stored, graph, cache, unseen, acked, used, faults>>

\* Entries a write leaves as they are lack it from then on.
Silent(es, i) == [e \in Entries |-> IF cache[e] # NoEntry /\ e \in es THEN unseen[e] \cup {i} ELSE unseen[e]]

\* The question and its answer are remembered, and no entry is forgotten ...
SaveAnswer(c) ==
    /\ req[c].at = "save"
    /\ \E i \in Items \ used :
        /\ stored' = stored \cup {i} /\ used' = used \cup {i}
        /\ unseen' = Silent({"recall", "think"}, i)
    /\ req' = [req EXCEPT ![c].at = "set"]
    /\ UNCHANGED <<graph, cache, acked, faults>>

\* ... or remember() fails, which is only logged.
SaveAnswerFails(c) ==
    /\ req[c].at = "save"
    /\ req' = [req EXCEPT ![c].at = "set"]
    /\ UNCHANGED <<stored, graph, cache, unseen, acked, used, faults>>

\* What was written since the search is not in the entry.
Set(c) ==
    /\ req[c].at = "set"
    /\ LET e == req[c].op  IN
       \/ /\ cache' = [cache EXCEPT ![e] = req[c].seen]
          /\ unseen' = [unseen EXCEPT ![e] = Found(e) \ req[c].seen]
          /\ UNCHANGED faults
       \/ Fault /\ UNCHANGED <<cache, unseen>>
    /\ req' = [req EXCEPT ![c] = NoRequest]
    /\ UNCHANGED <<stored, graph, acked, used>>

ExpireEntry(e) ==
    /\ e \in Results /\ cache[e] # NoEntry
    /\ cache' = [cache EXCEPT ![e] = NoEntry] /\ unseen' = [unseen EXCEPT ![e] = {}]
    /\ UNCHANGED <<stored, graph, req, acked, used, faults>>

----------------------------------------------------------------------------
(* Writing: a request and the entries it forgets, in their order.  The     *)
(* meeting ledger and the WebSocket commands forget none, and neither do   *)
(* the graph's routes.                                                     *)
Writes == {"remember", "ingest", "socket remember", "socket ingest", "create_node"}

\* Mutant: an ingestion forgets the engine's names only.
Forgets_Names(w) ==
    CASE w = "remember" -> <<"recall", "think">> [] w = "ingest" -> <<"names">> [] OTHER -> <<>>

Forgets(w) ==
    CASE w = "remember" -> <<"recall", "think">> [] w = "ingest" -> <<"recall", "names">> [] OTHER -> <<>>

Stores(w) == w # "create_node"
Links(w)  == w \in {"ingest", "socket ingest", "create_node"}

\* What each kind of write is known to leave out: a client may wait for the entry to expire.
Unforgotten(w) ==
    CASE w = "remember" -> {} [] w = "ingest" -> {"think", "query"} [] OTHER -> Entries

Write(c, w) ==
    /\ req[c].at = "idle"
    /\ \E i \in Items \ used :
        /\ used' = used \cup {i}
        /\ stored' = IF Stores(w) THEN stored \cup {i} ELSE stored
        /\ graph' = IF Links(w) THEN graph \cup {i} ELSE graph
        /\ unseen' = Silent(Unforgotten(w), i)
        /\ req' = [req EXCEPT ![c] = [NoRequest EXCEPT !.at = "forget", !.item = i, !.rest = Forgets(w)]]
    /\ UNCHANGED <<cache, acked, faults>>

\* EngramCache.invalidate, and invalidate_cache of the engine, which cannot fail.
Forget(c) ==
    /\ req[c].at = "forget" /\ req[c].rest # <<>>
    /\ LET e == Head(req[c].rest)  IN
       \/ /\ cache' = [cache EXCEPT ![e] = NoEntry] /\ unseen' = [unseen EXCEPT ![e] = {}]
          /\ UNCHANGED faults
       \/ /\ e \in Results /\ Fault
          /\ unseen' = [unseen EXCEPT ![e] = @ \cup {req[c].item}]
          /\ UNCHANGED cache
    /\ req' = [req EXCEPT ![c].rest = Tail(@)]
    /\ UNCHANGED <<stored, graph, acked, used>>

Answer(c) ==
    /\ req[c].at = "forget" /\ req[c].rest = <<>>
    /\ acked' = acked \cup {req[c].item}
    /\ req' = [req EXCEPT ![c] = NoRequest]
    /\ UNCHANGED <<stored, graph, cache, unseen, used, faults>>

\* DELETE and bulk-delete, the cleanups, negative feedback; delete_node.  Entries stay.
Delete(i) ==
    /\ i \in stored \cup graph /\ Fault
    /\ \/ i \in stored /\ stored' = stored \ {i} /\ UNCHANGED graph
       \/ i \in graph /\ graph' = graph \ {i} /\ UNCHANGED stored
    /\ UNCHANGED <<cache, req, unseen, acked, used>>

ServerNext ==
    \/ \E c \in Clients :
        \/ recall(c) \/ query(c) \/ think(c) \/ Search(c) \/ SaveAnswer(c) \/ SaveAnswerFails(c) \/ Set(c)
        \/ \E w \in Writes : Write(c, w)
        \/ Forget(c) \/ Answer(c)
    \/ \E e \in Entries : ExpireEntry(e)
    \/ \E i \in Items : Delete(i)

ServerSpec == ServerInit /\ [][ServerNext]_cacheVars

----------------------------------------------------------------------------
\* What a client was told is written is in every later answer, unless the cached answer was searched
\* for before the write and kept after it (cache.py:62), Redis failed to forget it, or the write is of
\* a kind that forgets nothing (memory_routes.py:93, handler.py:162).
CachedSeesWritten ==
    \A e \in Entries : cache[e] # NoEntry => acked \cap Found(e) \subseteq cache[e] \cup unseen[e]
=============================================================================
