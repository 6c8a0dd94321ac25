--------------------------- MODULE SemanticGraph ---------------------------
(***************************************************************************)
(* SemanticGraph of engram: a NetworkX graph in memory in front of a SQL   *)
(* backend.  It is loaded on first access, every change goes to the        *)
(* backend first and to the graph after it, and the adding operations run  *)
(* under a write lock the removing ones do not take.                       *)
(*                                                                         *)
(* An action is what a coroutine does from one await to the next, or the   *)
(* effect of the awaited backend call, which another thread brings about   *)
(* some time before the coroutine resumes.                                 *)
(*                                                                         *)
(* A node key is a name with a spelling: keys that differ by the spelling  *)
(* alone are equal in lower case.  Attributes, weights and relations are   *)
(* left out, and the graphs are smaller than max_nodes.                    *)
(***************************************************************************)
EXTENDS Naturals, FiniteSets

CONSTANTS
    Names,      \* "type:name" in lower case
    Spellings,  \* ways to write a name in upper and lower case
    Clients,    \* concurrent callers of the graph
    MaxCalls,   \* bound: operations started
    MaxFaults   \* bound: failed backend calls and restarts

None == "none"  \* nobody holds the lock

ASSUME GraphAssumption ==
    /\ IsFiniteSet(Names) /\ IsFiniteSet(Spellings)
    /\ None \notin Clients
    /\ MaxCalls \in Nat /\ MaxFaults \in Nat

VARIABLES
    dbNodes,   \* the nodes table
    dbEdges,   \* the edges table
    nodes,     \* keys of the NetworkX graph that carry a node
    bare,      \* keys NetworkX made itself, for the end of an edge
    edges,     \* edges of the NetworkX graph
    loaded,    \* _loaded
    loader,    \* holder of _load_lock
    rows,      \* the rows the loader has read
    writer,    \* holder of _write_lock
    call,      \* [Clients -> the operation in progress]
    calls,     \* operations started
    faults,    \* failures so far
    raced,     \* history: an operation ran beside a removal, or a backend call failed
    mixed      \* history: one batch of edges wrote a name in two ways

db    == <<dbNodes, dbEdges>>
graph == <<nodes, bare, edges>>
load  == <<loaded, loader, rows>>
bound == <<calls, faults, raced, mixed>>
vars  == <<db, graph, load, writer, call, bound>>

Keys  == Names \X Spellings
Edges == {e \in Keys \X Keys : e[1][1] # e[2][1]}   \* between two different names

lower(k) == k[1]
Ends(E)  == {e[1] : e \in E} \cup {e[2] : e \in E}
Touching(E, k) == {e \in E : k \in {e[1], e[2]}}

Call == [op    : {"none", "nodes", "edges", "remove_node", "remove_edge"},
         at    : {"idle", "start", "load", "rows", "links", "linked",
                  "lock", "save", "saved", "cut", "delete", "deleted"},
         nodes : SUBSET Keys,
         edges : SUBSET Edges]

NoCall == [op |-> "none", at |-> "idle", nodes |-> {}, edges |-> {}]
NoRows == [nodes |-> {}, edges |-> {}]

Present == nodes \cup bare

Init ==
    /\ dbNodes = {} /\ dbEdges = {}
    /\ nodes = {} /\ bare = {} /\ edges = {}
    /\ loaded = FALSE /\ loader = None /\ rows = NoRows /\ writer = None
    /\ call = [c \in Clients |-> NoCall]
    /\ calls = 0 /\ faults = 0 /\ raced = FALSE /\ mixed = FALSE

\* A backend call fails.
Fault == faults < MaxFaults /\ faults' = faults + 1 /\ raced' = TRUE /\ UNCHANGED <<calls, mixed>>

Goes(c, at) == call' = [call EXCEPT ![c].at = at]
Done(c)     == call' = [call EXCEPT ![c] = NoCall]

-----------------------------------------------------------------------------
(* The operations, as tasks that have not run yet *)

Removal == {"remove_node", "remove_edge"}

Submit(c, op, K, E) ==
    /\ call[c] = NoCall
    /\ calls < MaxCalls
    /\ calls' = calls + 1
    /\ call' = [call EXCEPT ![c] = [op |-> op, at |-> "start", nodes |-> K, edges |-> E]]
    /\ raced' = (raced \/ \E d \in Clients \ {c} :
                    call[d] # NoCall /\ {op, call[d].op} \cap Removal # {})
    /\ mixed' = (mixed \/ \E k, l \in Ends(E) : k # l /\ lower(k) = lower(l))
    /\ UNCHANGED <<db, graph, load, writer, faults>>

add_node(c, k)        == Submit(c, "nodes", {k}, {})
add_nodes_batch(c, K) == Submit(c, "nodes", K, {})
add_edge(c, e)        == Submit(c, "edges", {}, {e})
add_edges_batch(c, E) == Submit(c, "edges", {}, E)
remove_node(c, k)     == Submit(c, "remove_node", {k}, {})
remove_edge(c, e)     == Submit(c, "remove_edge", {}, {e})

\* Dictionaries from lower-case keys to the keys the graph has, which a batch of nodes
\* extends with its own; where the graph has two, the last in its order is left open.
Lookups(P, K) ==
    {f \in [Names -> Keys] : \A n \in Names :
        LET known == {k \in P : lower(k) = n}
            asked == {k \in K : lower(k) = n}
        IN  /\ lower(f[n]) = n
            /\ known # {} => f[n] \in known
            /\ known = {} /\ asked # {} => f[n] \in asked}

\* In the write lock, the names of the request get the spelling the graph knows; the
\* ends of an edge it does not know stay as they are.
Canonicalise(c, P) ==
    \E f \in Lookups(P, call[c].nodes) :
        LET end(k) == IF \E l \in P : lower(l) = lower(k) THEN f[lower(k)] ELSE k IN
        call' = [call EXCEPT ![c].at    = "save",
                             ![c].nodes = {f[lower(k)] : k \in @},
                             ![c].edges = {<<end(e[1]), end(e[2])>> : e \in @}]

\* What an operation does once the graph is loaded: an adding one enters or awaits the
\* write lock (its queue served in any order), a removing one looks for its key.
Proceed(c, P, E) ==
    \/ /\ call[c].op \in {"nodes", "edges"}
       /\ IF writer = None THEN writer' = c /\ Canonicalise(c, P)
                           ELSE Goes(c, "lock") /\ UNCHANGED writer
    \/ /\ call[c].op = "remove_node"
       /\ IF call[c].nodes \subseteq P THEN Goes(c, "cut") ELSE Done(c)
       /\ UNCHANGED writer
    \/ /\ call[c].op = "remove_edge"
       /\ IF call[c].edges \subseteq E THEN Goes(c, "cut") ELSE Done(c)
       /\ UNCHANGED writer

Start(c) ==
    /\ call[c].at = "start"
    /\ loaded
    /\ Proceed(c, Present, edges)
    /\ UNCHANGED <<db, graph, load, bound>>

-----------------------------------------------------------------------------
(* _ensure_loaded *)

\* The load lock is free, and the graph still not loaded once it is held.
LoadBegin(c) ==
    /\ call[c].at = "start"
    /\ ~loaded
    /\ loader = None
    /\ loader' = c
    /\ Goes(c, "load")
    /\ UNCHANGED <<db, graph, loaded, rows, writer, bound>>

LoadNodes(c) ==
    /\ call[c].at = "load"
    /\ rows' = [nodes |-> dbNodes, edges |-> {}]
    /\ Goes(c, "rows")
    /\ UNCHANGED <<db, graph, loaded, loader, writer, bound>>

\* The graph is not cleared before the rows are put in.
MergeNodes(c) ==
    /\ call[c].at = "rows"
    /\ nodes' = nodes \cup rows.nodes
    /\ bare' = bare \ rows.nodes
    /\ Goes(c, "links")
    /\ UNCHANGED <<db, edges, load, writer, bound>>

LoadEdges(c) ==
    /\ call[c].at = "links"
    /\ rows' = [rows EXCEPT !.edges = dbEdges]
    /\ Goes(c, "linked")
    /\ UNCHANGED <<db, graph, loaded, loader, writer, bound>>

\* Edges of which an end was not among the nodes are passed over.
LoadEnd(c) ==
    LET found == {e \in rows.edges : Ends({e}) \subseteq rows.nodes} IN
    /\ call[c].at = "linked"
    /\ edges' = edges \cup found
    /\ bare' = bare \cup (Ends(found) \ nodes)
    /\ loaded' = TRUE
    /\ loader' = None
    /\ rows' = NoRows
    /\ Proceed(c, Present \cup Ends(found), edges')
    /\ UNCHANGED <<db, nodes, bound>>

LoadFails(c) ==
    /\ call[c].at \in {"load", "links"}
    /\ Fault
    /\ loader' = None
    /\ rows' = NoRows
    /\ Done(c)
    /\ UNCHANGED <<db, graph, loaded, writer>>

-----------------------------------------------------------------------------
(* add_node, add_edge and their batches, in the write lock *)

\* Mutant: the names were looked up before the lock was awaited.
Granted_Stale(c) ==
    /\ call[c].at = "lock"
    /\ writer = None
    /\ writer' = c
    /\ Goes(c, "save")
    /\ UNCHANGED <<db, graph, load, bound>>

Granted(c) ==
    /\ call[c].at = "lock"
    /\ writer = None
    /\ writer' = c
    /\ Canonicalise(c, Present)
    /\ UNCHANGED <<db, graph, load, bound>>

\* Mutant: the statement is not committed.
Save_Uncommitted(c) ==
    /\ call[c].at = "save"
    /\ Goes(c, "saved")
    /\ UNCHANGED <<db, graph, load, writer, bound>>

Save(c) ==
    /\ call[c].at = "save"
    /\ dbNodes' = dbNodes \cup call[c].nodes
    /\ dbEdges' = dbEdges \cup call[c].edges
    /\ Goes(c, "saved")
    /\ UNCHANGED <<graph, load, writer, bound>>

\* The save raises, before or after it took effect; the lock is released.
SaveFails(c) ==
    /\ call[c].at \in {"save", "saved"}
    /\ Fault
    /\ writer' = None
    /\ Done(c)
    /\ UNCHANGED <<db, graph, load>>

\* NetworkX makes the ends of an edge it does not have.
Saved(c) ==
    /\ call[c].at = "saved"
    /\ nodes' = nodes \cup call[c].nodes
    /\ bare' = (bare \cup Ends(call[c].edges)) \ nodes'
    /\ edges' = edges \cup call[c].edges
    /\ writer' = None
    /\ Done(c)
    /\ UNCHANGED <<db, load, bound>>

-----------------------------------------------------------------------------
(* remove_node and remove_edge, in no lock *)

\* delete_edges_for_node, or the delete_edge of remove_edge.
Cut(c) ==
    LET gone == call[c].edges \cup UNION {Touching(dbEdges, k) : k \in call[c].nodes} IN
    /\ call[c].at = "cut"
    /\ dbEdges' = dbEdges \ gone
    /\ Goes(c, IF call[c].op = "remove_node" THEN "delete" ELSE "deleted")
    /\ UNCHANGED <<dbNodes, graph, load, writer, bound>>

\* delete_node deletes the edges of the node once more, in its transaction.
DeleteNode(c) ==
    /\ call[c].at = "delete"
    /\ dbNodes' = dbNodes \ call[c].nodes
    /\ dbEdges' = dbEdges \ UNION {Touching(dbEdges, k) : k \in call[c].nodes}
    /\ Goes(c, "deleted")
    /\ UNCHANGED <<graph, load, writer, bound>>

\* Mutant: the edges of a removed node stay in the graph.
Removed_EdgesStay(c) ==
    /\ call[c].at = "deleted"
    /\ nodes' = nodes \ call[c].nodes
    /\ bare' = bare \ call[c].nodes
    /\ edges' = edges \ call[c].edges
    /\ Done(c)
    /\ UNCHANGED <<db, load, writer, bound>>

\* Out of the graph too; what another removal took out already is an error there, and
\* the graph stays as it is.
Removed(c) ==
    /\ call[c].at = "deleted"
    /\ nodes' = nodes \ call[c].nodes
    /\ bare' = bare \ call[c].nodes
    /\ edges' = (edges \ call[c].edges) \ UNION {Touching(edges, k) : k \in call[c].nodes}
    /\ Done(c)
    /\ UNCHANGED <<db, load, writer, bound>>

\* A backend call of the removal raises, before or after it took effect; remove_node
\* marks the graph as not loaded, remove_edge does not.
RemoveFails(c) ==
    /\ call[c].at \in {"cut", "delete", "deleted"}
    /\ Fault
    /\ loaded' = IF call[c].op = "remove_node" THEN FALSE ELSE loaded
    /\ Done(c)
    /\ UNCHANGED <<db, graph, loader, rows, writer>>

-----------------------------------------------------------------------------
\* The process stops and starts again with an empty graph.
Restart ==
    /\ faults < MaxFaults
    /\ faults' = faults + 1
    /\ nodes' = {} /\ bare' = {} /\ edges' = {}
    /\ loaded' = FALSE /\ loader' = None /\ rows' = NoRows /\ writer' = None
    /\ call' = [c \in Clients |-> NoCall]
    /\ UNCHANGED <<db, calls, raced, mixed>>

Invoke(c) ==
    \/ \E k \in Keys : add_node(c, k) \/ remove_node(c, k)
    \/ \E e \in Edges : add_edge(c, e) \/ remove_edge(c, e)
    \/ \E k, l \in Keys : k # l /\ add_nodes_batch(c, {k, l})
    \/ \E e, g \in Edges : e # g /\ add_edges_batch(c, {e, g})

Resume(c) ==
    \/ Start(c) \/ LoadBegin(c) \/ LoadNodes(c) \/ MergeNodes(c) \/ LoadEdges(c) \/ LoadEnd(c)
    \/ Granted(c) \/ Save(c) \/ Saved(c)
    \/ Cut(c) \/ DeleteNode(c) \/ Removed(c)

Fail(c) == LoadFails(c) \/ SaveFails(c) \/ RemoveFails(c)

Next ==
    \/ \E c \in Clients : Invoke(c) \/ Resume(c) \/ Fail(c)
    \/ Restart

Spec == Init /\ [][Next]_vars
-----------------------------------------------------------------------------
Quiet == loaded /\ \A c \in Clients : call[c] = NoCall

\* As long as no removal ran beside another operation and no backend call failed, the
\* graph between operations is what the backend holds, concurrent adds included; after
\* a restart, edges saved before their ends were nodes may be missing from it.
GraphAgrees ==
    (Quiet /\ ~raced) =>
        /\ nodes = dbNodes
        /\ edges \subseteq dbEdges
        /\ faults = 0 => edges = dbEdges

\* Under the same condition readers see, at every moment, only what a restart would
\* bring back or what is on its way out.
ReadersSeeDurable ==
    LET leaving == UNION {call[c].nodes : c \in {d \in Clients : call[d].op = "remove_node"}}
        cut     == UNION {call[c].edges : c \in {d \in Clients : call[d].op = "remove_edge"}}
    IN  ~raced => /\ nodes \subseteq dbNodes \cup leaving
                  /\ \A e \in edges : e \in dbEdges \cup cut \/ Ends({e}) \cap leaving # {}

\* "Case-insensitive dedup": under the same condition, and while no batch of edges
\* itself wrote a name in two ways, no two keys of the graph differ by case alone, also
\* when several callers add the name in different spellings at once.
OneSpelling ==
    (~raced /\ ~mixed) => \A k, l \in Present : lower(k) = lower(l) => k = l
=============================================================================
