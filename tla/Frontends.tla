----------------------------- MODULE Frontends -----------------------------
(***************************************************************************)
(* The processes of engram over one embedded Qdrant directory, which one   *)
(* client at a time may open: the HTTP server, and MCP servers and CLI     *)
(* commands, which become proxies of the HTTP server when the directory is *)
(* open elsewhere ("already accessed").  Every process builds its store,   *)
(* graph and engine when a tool first asks for it and keeps them.          *)
(*                                                                         *)
(* The semantic graph is a SQLite file every process may open, read once   *)
(* into a copy of its own; what a graph does is in SemanticGraph.  The     *)
(* Qdrant client is external: it takes the lock when it is made, reads the *)
(* directory and writes through.                                           *)
(***************************************************************************)
EXTENDS FiniteSets

CONSTANTS
    Fronts,    \* MCP servers and CLI commands
    Notes,
    Entities,
    NoOne

Server == "server"

ASSUME FrontendsAssumption == Server \notin Fronts /\ NoOne \notin Fronts \cup {Server}

VARIABLES
    holder,    \* who has the directory open; the HTTP server runs while it is "server"
    made,      \* made[p]: the instances of p: [episodic, graph, engine], "none", "local" or "proxy"
    onDisk,    \* memories in the directory
    loaded,    \* loaded[p]: those the client of p knows
    graphFile, \* entities in the file of the graph
    copy,      \* copy[p]: those the graph of p knows
    missed     \* memories that were stored and that the last recall did not look through

frontVars == <<holder, made, onDisk, loaded, graphFile, copy, missed>>

Everyone == Fronts \cup {Server}
Nothing  == [episodic |-> "none", graph |-> "none", engine |-> "none"]
Up       == holder = Server

FrontendsInit ==
    /\ holder = NoOne
    /\ made = [p \in Fronts |-> Nothing]
    /\ onDisk = {} /\ loaded = [p \in Everyone |-> {}]
    /\ graphFile = {} /\ copy = [p \in Everyone |-> {}]
    /\ missed = {}

----------------------------------------------------------------------------
\* Mutant: the graph made before the directory was found open elsewhere is kept.
Proxied_Episodic(i) ==
    [i EXCEPT !.episodic = "proxy", !.graph = IF @ = "none" THEN "proxy" ELSE @]

\* Both stores become proxies at once, a graph that was made before too.
Proxied(i) == [i EXCEPT !.episodic = "proxy", !.graph = "proxy"]

\* _get_episodic, _get_graph and _get_engine, on the instances i of a process that gets the lock
\* when free holds.
GetEpisodic(i, free) ==
    IF i.episodic # "none" THEN i ELSE IF free THEN [i EXCEPT !.episodic = "local"] ELSE Proxied(i)
GetGraph(i) == IF i.graph # "none" THEN i ELSE [i EXCEPT !.graph = "local"]
\* Only a process that already found the directory open elsewhere asks the server to think.
GetEngine(i, free) ==
    CASE i.engine # "none"      -> i
      [] i.engine = "none" /\ i.episodic = "proxy" -> [i EXCEPT !.engine = "proxy"]
      [] OTHER                  -> [GetGraph(GetEpisodic(i, free)) EXCEPT !.engine = "local"]

Free == holder = NoOne

\* Process p has the instances i from now on.
Makes(p, i) ==
    /\ made' = [made EXCEPT ![p] = i]
    /\ holder' = IF i.episodic = "local" THEN p ELSE holder
    /\ loaded' = IF i.episodic = "local" /\ made[p].episodic = "none" THEN [loaded EXCEPT ![p] = onDisk] ELSE loaded
    /\ copy'   = IF i.graph = "local" /\ made[p].graph = "none" THEN [copy EXCEPT ![p] = graphFile] ELSE copy

\* Who does what p asks its store; nobody when p is a proxy and the server is down.
Doer(p, i) == IF i.episodic = "local" THEN {p} ELSE IF Up THEN {Server} ELSE {}

----------------------------------------------------------------------------
ServerStart ==
    /\ Free /\ holder' = Server
    /\ loaded' = [loaded EXCEPT ![Server] = onDisk] /\ copy' = [copy EXCEPT ![Server] = graphFile]
    /\ UNCHANGED <<made, onDisk, graphFile, missed>>

ServerStop ==
    /\ Up /\ holder' = NoOne
    /\ UNCHANGED <<made, onDisk, loaded, graphFile, copy, missed>>

\* The process ends; its client is closed at exit.
Exit(p) ==
    /\ made[p] # Nothing
    /\ made' = [made EXCEPT ![p] = Nothing]
    /\ holder' = IF holder = p THEN NoOne ELSE holder
    /\ UNCHANGED <<onDisk, loaded, graphFile, copy, missed>>

\* Memory m goes where the instances i of p send it; with nobody there the tool raises.
StoresIn(p, i, m) ==
    /\ holder' = IF i.episodic = "local" THEN p ELSE holder
    /\ IF Doer(p, i) = {} THEN UNCHANGED <<onDisk, loaded>>
       ELSE \E d \in Doer(p, i) :
              /\ onDisk' = onDisk \cup {m}
              /\ loaded' = [loaded EXCEPT ![d] = (IF d = p /\ made[p].episodic = "none" THEN onDisk ELSE @) \cup {m}]

\* Entity e goes to the file through the copy of p.
Adds(p, e) ==
    /\ graphFile' = graphFile \cup {e}
    /\ copy' = [copy EXCEPT ![p] = (IF made[p].graph = "none" THEN graphFile ELSE @) \cup {e}]

engram_remember(p, m) ==
    LET i == GetEpisodic(made[p], Free) IN
    made' = [made EXCEPT ![p] = i] /\ StoresIn(p, i, m) /\ UNCHANGED <<graphFile, copy, missed>>

\* The memories an operation looks through; one that raises looks for none.
Looks(p, i) ==
    LET known(d) == IF d = p /\ made[p].episodic = "none" THEN onDisk ELSE loaded[d]
    IN  missed' = UNION {onDisk \ known(d) : d \in Doer(p, i)}

engram_recall(p) ==
    LET i == GetGraph(GetEpisodic(made[p], Free)) IN
    Makes(p, i) /\ Looks(p, i) /\ UNCHANGED <<onDisk, graphFile>>

engram_status(p) == engram_recall(p)

\* A local engine searches whatever store it was built over.  A proxy asks the server with a field
\* the server does not take, and raises.
engram_think(p) ==
    LET i == GetEngine(made[p], Free) IN
    /\ Makes(p, i)
    /\ IF i.engine = "local" THEN Looks(p, i) ELSE missed' = {}
    /\ UNCHANGED <<onDisk, graphFile>>

\* The proxy of the graph takes a name and a type, not a node: the tool raises.
engram_add_entity(p, e) ==
    LET i == GetGraph(made[p]) IN
    /\ made' = [made EXCEPT ![p] = i]
    /\ IF i.graph = "local" THEN Adds(p, e) ELSE UNCHANGED <<graphFile, copy>>
    /\ UNCHANGED <<holder, onDisk, loaded, missed>>

\* The graph is taken first and used even when the store then becomes a proxy, and the graph of
\* the process with it.
engram_ingest(p, e, m) ==
    LET g == GetGraph(made[p])
        i == GetEpisodic(g, Free)
    IN  /\ made' = [made EXCEPT ![p] = i]
        /\ IF g.graph = "local" THEN Adds(p, e) /\ StoresIn(p, i, m)
           ELSE UNCHANGED <<holder, onDisk, loaded, graphFile, copy>>
        /\ UNCHANGED missed

engram_query_graph(p) ==
    LET i == GetGraph(made[p]) IN
    /\ made' = [made EXCEPT ![p] = i]
    /\ copy' = IF i.graph = "local" /\ made[p].graph = "none" THEN [copy EXCEPT ![p] = graphFile] ELSE copy
    /\ UNCHANGED <<holder, onDisk, loaded, graphFile, missed>>

\* Other clients of the server.
Served(m, e) ==
    /\ Up
    /\ onDisk' = onDisk \cup {m} /\ loaded' = [loaded EXCEPT ![Server] = @ \cup {m}]
    /\ graphFile' = graphFile \cup {e} /\ copy' = [copy EXCEPT ![Server] = @ \cup {e}]
    /\ UNCHANGED <<holder, made, missed>>

FrontendsNext ==
    \/ ServerStart \/ ServerStop
    \/ \E p \in Fronts :
         \/ Exit(p)
         \/ \E m \in Notes : engram_remember(p, m)
         \/ \E e \in Entities : engram_add_entity(p, e)
         \/ \E e \in Entities, m \in Notes : engram_ingest(p, e, m)
         \/ engram_recall(p) \/ engram_think(p) \/ engram_status(p) \/ engram_query_graph(p)
    \/ \E m \in Notes, e \in Entities : Served(m, e)

FrontendsSpec == FrontendsInit /\ [][FrontendsNext]_frontVars

----------------------------------------------------------------------------
(***************************************************************************)
(* "allowing MCP and HTTP server to coexist": a process is never left with *)
(* its memories at the server and a graph of its own, in whichever order   *)
(* its tools made the two, and no recall that succeeds, by any process,    *)
(* passes over a memory another one has stored.                            *)
(***************************************************************************)
OneBrain ==
    /\ \A p \in Fronts : made[p].episodic = "proxy" => made[p].graph = "proxy"
    /\ missed = {}
=============================================================================
