--------------------------- MODULE CommandProofs ---------------------------
(***************************************************************************)
(* What the client library, the processes over one directory, the commands *)
(* that sync memories and those that set engram up keep, for any callers,  *)
(* processes, machines, agents and bounds.  The components share no state. *)
(***************************************************************************)
EXTENDS Client, Frontends, Transfer, Setup, Settings, TLAPS

-----------------------------------------------------------------------------
(* The client library.                                                     *)

\* Where an extraction is alive, close() knows of it; once close() has been called no chat is
\* under way and no extraction is alive.
ClientInv ==
    /\ DOMAIN task = Turns /\ DOMAIN chat = Turns
    /\ closing \in {"no", "waits", "done"}
    /\ \A t \in Turns : task[t] \in Alive => t \in tracked
    /\ closing # "no" => \A t \in Turns : task[t] \notin Alive /\ chat[t] \notin {"recall", "model"}
    /\ closing = "done" => ~open

\* A step of a chat is taken before close() only, or by a chat that close() did not wait for.
LEMMA ChatKeeps ==
    ASSUME ClientInv, NEW t \in Turns,
           Chat(t) \/ RecallForContext(t) \/ ModelRaises(t) \/ ModelReplies(t)
    PROVE  ClientInv'
<1>1. CASE Chat(t) \/ RecallForContext(t) \/ ModelRaises(t)
  BY <1>1 DEF ClientInv, Chat, RecallForContext, ModelRaises
<1>2. CASE ModelReplies(t)
  <2>1. closing = "no" /\ closing' = closing
    BY <1>2 DEF ClientInv, ModelReplies
  <2>2. DOMAIN task' = Turns /\ DOMAIN chat' = Turns
    BY <1>2 DEF ClientInv, ModelReplies
  <2>3. ASSUME NEW u \in Turns, task'[u] \in Alive
        PROVE  u \in tracked'
    BY <1>2, <2>3 DEF ClientInv, ModelReplies, Tracked, Alive
  <2> QED BY <2>1, <2>2, <2>3 DEF ClientInv
<1> QED BY <1>1, <1>2

\* A step of an extraction: one that ends is no longer alive.
LEMMA ExtractionKeeps ==
    ASSUME ClientInv, NEW t \in Turns,
           Extract(t) \/ Dedup(t) \/ Embed(t) \/ ThreadStores(t) \/ Index(t)
    PROVE  ClientInv'
<1>1. UNCHANGED <<chat, closing>>
  BY DEF Extract, Dedup, Embed, ThreadStores, Index
<1>2. \/ UNCHANGED <<task, tracked, open>>
      \/ /\ task[t] \in Alive /\ open' \in {open, TRUE}
         /\ \/ tracked' = tracked /\ \E how \in Alive : task' = [task EXCEPT ![t] = how]
            \/ tracked' = tracked \ {t} /\ \E how \in {"nothing", "failed", "stored"} : task' = [task EXCEPT ![t] = how]
  <2>1. CASE Extract(t)
    BY <2>1 DEF Extract, Ends, Alive
  <2>2. CASE Dedup(t)
    BY <2>2 DEF Dedup, Ends, Alive
  <2>3. CASE Embed(t)
    BY <2>3 DEF Embed, Ends, Alive
  <2>4. CASE ThreadStores(t)
    BY <2>4 DEF ThreadStores, Alive
  <2>5. CASE Index(t)
    BY <2>5 DEF Index, Ends, Alive
  <2> QED BY <2>1, <2>2, <2>3, <2>4, <2>5
<1>3. CASE UNCHANGED <<task, tracked, open>>
  BY <1>1, <1>3 DEF ClientInv
<1>4. CASE task[t] \in Alive
  <2>1. closing = "no" /\ t \in tracked
    BY <1>4 DEF ClientInv
  <2>2. DOMAIN task' = Turns
    BY <1>2 DEF ClientInv
  <2>3. ASSUME NEW u \in Turns, task'[u] \in Alive
        PROVE  u \in tracked'
    BY <1>2, <2>1, <2>3 DEF ClientInv, Alive
  <2> QED BY <1>1, <2>1, <2>2, <2>3 DEF ClientInv
<1> QED BY <1>2, <1>3, <1>4

\* For any turns and facts: once close() has returned no task of the client is alive to open
\* its stores again. close() cancels all that are alive, and none is started after it.
THEOREM ClientStaysClosed == ClientSpec => []ClosedStaysClosed
<1>1. ClientInit => ClientInv
  BY DEF ClientInit, ClientInv, Alive
<1>2. ClientInv /\ [ClientNext]_clientVars => ClientInv'
  <2> SUFFICES ASSUME ClientInv, [ClientNext]_clientVars
               PROVE  ClientInv'
    OBVIOUS
  <2>1. CASE Close
    BY <2>1 DEF Close, ClientInv, Alive
  <2>2. CASE Closed
    BY <2>2 DEF Closed, ClientInv, Alive
  <2>3. CASE ClientDone \/ UNCHANGED clientVars
    BY <2>3 DEF ClientDone, clientVars, ClientInv
  <2> QED BY <2>1, <2>2, <2>3, ChatKeeps, ExtractionKeeps DEF ClientNext
<1>3. ClientInv => ClosedStaysClosed
  BY DEF ClientInv, ClosedStaysClosed
<1> QED BY <1>1, <1>2, <1>3, PTL DEF ClientSpec
-----------------------------------------------------------------------------
(* The processes over one directory.                                       *)

\* What a process may have made.
Instances == [episodic : {"none", "local", "proxy"}, graph : {"none", "local", "proxy"},
              engine : {"none", "local", "proxy"}]

\* The instances of a process: the store and the graph are proxies together.
Paired(i) == i.episodic = "proxy" <=> i.graph = "proxy"

\* A process that opened the directory has it, and who has it knows all that is in it.
FrontInv ==
    /\ made \in [Fronts -> Instances]
    /\ DOMAIN loaded = Everyone
    /\ \A p \in Fronts : Paired(made[p]) /\ (made[p].episodic = "local" => holder = p)
    /\ holder # NoOne => holder \in Everyone /\ loaded[holder] = onDisk
    /\ missed = {}

\* What the three getters make of the instances of a process: a store it has already is kept,
\* and a new one is its own only if nobody has the directory.
LEMMA GettersPair ==
    ASSUME NEW i \in Instances, NEW free \in BOOLEAN, Paired(i)
    PROVE  /\ GetGraph(i) \in Instances /\ Paired(GetGraph(i)) /\ GetGraph(i).episodic = i.episodic
           /\ GetEpisodic(i, free) \in Instances /\ Paired(GetEpisodic(i, free))
           /\ GetEpisodic(i, free).episodic = i.episodic
              \/ (i.episodic = "none" /\ (GetEpisodic(i, free).episodic = "local" => free))
           /\ GetEpisodic(i, free).episodic # "none"
<1>1. GetGraph(i) \in Instances /\ Paired(GetGraph(i)) /\ GetGraph(i).episodic = i.episodic
  BY DEF GetGraph, Instances, Paired
<1>2. GetEpisodic(i, free) \in Instances /\ Paired(GetEpisodic(i, free))
  BY DEF GetEpisodic, Proxied, Instances, Paired
<1>3. /\ \/ GetEpisodic(i, free).episodic = i.episodic
         \/ (i.episodic = "none" /\ (GetEpisodic(i, free).episodic = "local" => free))
      /\ GetEpisodic(i, free).episodic # "none"
  BY DEF GetEpisodic, Proxied, Instances, Paired
<1> QED BY <1>1, <1>2, <1>3

\* The instances a process has after it used i in place of its own: its store is the one it
\* had, or a new one, which is its own only if the directory was free.
Grows(p, i) ==
    /\ i \in Instances /\ Paired(i)
    /\ i.episodic = made[p].episodic \/ (made[p].episodic = "none" /\ (i.episodic = "local" => Free))

\* Making the engine makes a store and a graph, and unmakes none.
LEMMA EngineGrows ==
    ASSUME FrontInv, NEW p \in Fronts
    PROVE  Grows(p, GetEngine(made[p], Free))
<1>1. made[p] \in Instances /\ Paired(made[p]) /\ Free \in BOOLEAN
  BY DEF FrontInv, Instances, Free
<1>2. CASE made[p].engine # "none"
  BY <1>1, <1>2 DEF GetEngine, Grows
<1>3. CASE made[p].engine = "none" /\ made[p].episodic = "proxy"
  <2>1. GetEngine(made[p], Free) = [made[p] EXCEPT !.engine = "proxy"]
    BY <1>3 DEF GetEngine
  <2> QED BY <1>1, <2>1 DEF Grows, Instances, Paired
<1>4. CASE made[p].engine = "none" /\ made[p].episodic # "proxy"
  <2> DEFINE e == GetEpisodic(made[p], Free)
             g == GetGraph(e)
  <2>1. GetEngine(made[p], Free) = [g EXCEPT !.engine = "local"]
    BY <1>4 DEF GetEngine
  <2>2. e \in Instances /\ Paired(e)
        /\ (e.episodic = made[p].episodic \/ (made[p].episodic = "none" /\ (e.episodic = "local" => Free)))
    BY <1>1, GettersPair
  <2> HIDE DEF e
  <2>3. g \in Instances /\ Paired(g) /\ g.episodic = e.episodic
    BY <2>2, GettersPair
  <2> HIDE DEF g
  <2> QED BY <2>1, <2>2, <2>3 DEF Grows, Instances, Paired
<1> QED BY <1>2, <1>3, <1>4

\* A process that takes up its instances finds in a directory it opens all that is in it.
LEMMA MakesKeeps ==
    ASSUME FrontInv, NEW p \in Fronts, NEW i, Grows(p, i), Makes(p, i), onDisk' = onDisk, missed' = {}
    PROVE  FrontInv'
<1>1. /\ made' = [made EXCEPT ![p] = i]
      /\ holder' = (IF i.episodic = "local" THEN p ELSE holder)
      /\ loaded' = (IF i.episodic = "local" /\ made[p].episodic = "none" THEN [loaded EXCEPT ![p] = onDisk] ELSE loaded)
  BY DEF Makes
<1>2. made'[p] = i /\ \A q \in Fronts \ {p} : made'[q] = made[q]
  BY <1>1 DEF FrontInv
<1>3. made' \in [Fronts -> Instances] /\ \A q \in Fronts : Paired(made'[q])
  BY <1>1, <1>2 DEF FrontInv, Grows, Instances
<1>4. ASSUME i.episodic = "local"
      PROVE  /\ holder' = p /\ loaded'[p] = onDisk
             /\ \A q \in Fronts \ {p} : made[q].episodic # "local"
  BY <1>1, <1>4, FrontendsAssumption DEF FrontInv, Grows, Free, Everyone
<1>5. ASSUME i.episodic # "local"
      PROVE  holder' = holder /\ loaded' = loaded
  BY <1>1, <1>5
<1>6. \A q \in Fronts : made'[q].episodic = "local" => holder' = q
  BY <1>2, <1>4, <1>5 DEF FrontInv
<1>7. holder' # NoOne => holder' \in Everyone /\ loaded'[holder'] = onDisk
  BY <1>4, <1>5 DEF FrontInv, Everyone
<1>8. DOMAIN loaded' = Everyone
  BY <1>1 DEF FrontInv
<1> QED BY <1>3, <1>6, <1>7, <1>8 DEF FrontInv, Instances, Paired

\* A search sees all that is in the directory.
LEMMA LooksEverywhere ==
    ASSUME FrontInv, NEW p \in Fronts, NEW i, Grows(p, i), Looks(p, i)
    PROVE  missed' = {}
<1> DEFINE known(d) == IF d = p /\ made[p].episodic = "none" THEN onDisk ELSE loaded[d]
<1>1. missed' = UNION {onDisk \ known(d) : d \in Doer(p, i)}
  BY DEF Looks
<1>2. ASSUME NEW d \in Doer(p, i)
      PROVE  known(d) = onDisk
  <2>1. CASE i.episodic = "local"
    <3>1. d = p /\ (made[p].episodic = "none" \/ loaded[p] = onDisk)
      BY <1>2, <2>1, FrontendsAssumption DEF Doer, FrontInv, Grows
    <3> QED BY <3>1
  <2>2. CASE i.episodic # "local"
    BY <1>2, <2>2, FrontendsAssumption DEF Doer, FrontInv, Up
  <2> QED BY <2>1, <2>2
<1> QED BY <1>1, <1>2

\* A memory goes through the process that has the directory, which knows it from then on.
LEMMA StoresInKeeps ==
    ASSUME FrontInv, NEW p \in Fronts, NEW i, Grows(p, i), NEW m, StoresIn(p, i, m),
           made' = [made EXCEPT ![p] = i], missed' = missed
    PROVE  FrontInv'
<1>2. made'[p] = i /\ \A q \in Fronts \ {p} : made'[q] = made[q]
  BY DEF FrontInv
<1>3. made' \in [Fronts -> Instances] /\ \A q \in Fronts : Paired(made'[q])
  BY <1>2 DEF FrontInv, Grows, Instances
<1>4. CASE i.episodic = "local"
  <2>1. holder' = p /\ onDisk' = onDisk \cup {m}
        /\ loaded' = [loaded EXCEPT ![p] = (IF made[p].episodic = "none" THEN onDisk ELSE @) \cup {m}]
    BY <1>4 DEF StoresIn, Doer
  <2>2. made[p].episodic = "none" \/ loaded[p] = onDisk
    BY <1>4, FrontendsAssumption DEF FrontInv, Grows
  <2>3. DOMAIN loaded' = Everyone /\ loaded'[p] = onDisk'
    BY <2>1, <2>2 DEF FrontInv, Everyone
  <2>4. \A q \in Fronts \ {p} : made[q].episodic # "local"
    BY <1>4, FrontendsAssumption DEF FrontInv, Grows, Free
  <2> QED BY <1>2, <1>3, <2>1, <2>3, <2>4 DEF FrontInv, Instances, Everyone, Paired
<1>5. CASE i.episodic # "local" /\ Up
  <2>1. holder' = holder /\ onDisk' = onDisk \cup {m} /\ holder = Server
        /\ loaded' = [loaded EXCEPT ![Server] = (IF Server = p /\ made[p].episodic = "none" THEN onDisk ELSE @) \cup {m}]
    BY <1>5 DEF StoresIn, Doer, Up
  <2>2. DOMAIN loaded' = Everyone /\ loaded'[Server] = onDisk'
    BY <2>1, FrontendsAssumption DEF FrontInv, Everyone
  <2> QED BY <1>2, <1>3, <1>5, <2>1, <2>2 DEF FrontInv, Instances, Everyone, Paired
<1>6. CASE i.episodic # "local" /\ ~Up
  <2>1. UNCHANGED <<holder, onDisk, loaded>>
    BY <1>6 DEF StoresIn, Doer
  <2> QED BY <1>2, <1>3, <1>6, <2>1 DEF FrontInv, Instances, Paired
<1> QED BY <1>4, <1>5, <1>6

\* The tools of a process.
LEMMA ToolKeeps ==
    ASSUME FrontInv, NEW p \in Fronts,
           \/ \E m \in Notes : engram_remember(p, m)
           \/ \E e \in Entities : engram_add_entity(p, e)
           \/ \E e \in Entities, m \in Notes : engram_ingest(p, e, m)
           \/ engram_recall(p) \/ engram_think(p) \/ engram_status(p) \/ engram_query_graph(p)
    PROVE  FrontInv'
<1>0. made[p] \in Instances /\ Paired(made[p]) /\ Free \in BOOLEAN
  BY DEF FrontInv, Instances, Free
<1>1. Grows(p, GetEpisodic(made[p], Free)) /\ Grows(p, GetGraph(made[p]))
  BY <1>0, GettersPair DEF Grows
<1>2. CASE \E m \in Notes : engram_remember(p, m)
  BY <1>1, <1>2, StoresInKeeps DEF engram_remember
<1>3. ASSUME UNCHANGED <<holder, onDisk, loaded, missed>>, made' = [made EXCEPT ![p] = GetGraph(made[p])]
      PROVE  FrontInv'
  <2>1. GetGraph(made[p]) \in Instances /\ Paired(GetGraph(made[p])) /\ GetGraph(made[p]).episodic = made[p].episodic
    BY <1>0, GettersPair
  <2>2. made'[p] = GetGraph(made[p]) /\ \A q \in Fronts \ {p} : made'[q] = made[q]
    BY <1>3 DEF FrontInv
  <2>3. made' \in [Fronts -> Instances]
    BY <1>3, <2>1 DEF FrontInv, Instances
  <2> QED BY <1>3, <2>1, <2>2, <2>3 DEF FrontInv, Instances, Paired
<1>4. CASE \/ engram_query_graph(p) \/ \E e \in Entities : engram_add_entity(p, e)
  BY <1>3, <1>4 DEF engram_query_graph, engram_add_entity
<1>5. CASE \E e \in Entities, m \in Notes : engram_ingest(p, e, m)
  <2> PICK e \in Entities, m \in Notes : engram_ingest(p, e, m)
    BY <1>5
  <2> DEFINE g == GetGraph(made[p])
             i == GetEpisodic(g, Free)
  <2>1. g \in Instances /\ Paired(g) /\ g.episodic = made[p].episodic
    BY <1>0, GettersPair
  <2>2. i \in Instances /\ Paired(i)
        /\ (i.episodic = g.episodic \/ (g.episodic = "none" /\ (i.episodic = "local" => Free)))
    BY <1>0, <2>1, GettersPair
  <2>3. Grows(p, i)
    BY <2>1, <2>2 DEF Grows
  <2>4. made' = [made EXCEPT ![p] = i] /\ UNCHANGED missed
    BY DEF engram_ingest
  <2>5. CASE g.graph = "local"
    BY <2>3, <2>4, <2>5, StoresInKeeps DEF engram_ingest
  <2>6. CASE g.graph # "local"
    <3>1. UNCHANGED <<holder, onDisk, loaded>>
      BY <2>6 DEF engram_ingest
    <3>2. i.episodic # "local" \/ made[p].episodic = "local"
      BY <1>0, <2>1, <2>2, <2>6 DEF GetGraph, Instances, Paired
    <3>3. made'[p] = i /\ \A q \in Fronts \ {p} : made'[q] = made[q]
      BY <2>4 DEF FrontInv
    <3>4. made' \in [Fronts -> Instances]
      BY <2>2, <2>4 DEF FrontInv, Instances
    <3> HIDE DEF i, g
    <3> QED BY <2>2, <2>4, <3>1, <3>2, <3>3, <3>4 DEF FrontInv, Instances, Paired
  <2> QED BY <2>5, <2>6
<1>6. CASE engram_recall(p) \/ engram_status(p)
  <2> DEFINE e == GetEpisodic(made[p], Free)
             i == GetGraph(e)
  <2>1. e \in Instances /\ Paired(e)
        /\ (e.episodic = made[p].episodic \/ (made[p].episodic = "none" /\ (e.episodic = "local" => Free)))
    BY <1>0, GettersPair
  <2>2. Makes(p, i) /\ Looks(p, i) /\ UNCHANGED onDisk
    BY <1>6 DEF engram_recall, engram_status
  <2> HIDE DEF e
  <2>3. i \in Instances /\ Paired(i) /\ i.episodic = e.episodic
    BY <2>1, GettersPair
  <2>4. Grows(p, i)
    BY <2>1, <2>3 DEF Grows
  <2> HIDE DEF i
  <2> QED BY <2>2, <2>4, LooksEverywhere, MakesKeeps
<1>7. CASE engram_think(p)
  <2> DEFINE i == GetEngine(made[p], Free)
  <2>1. Grows(p, i)
    BY EngineGrows
  <2>2. Makes(p, i) /\ UNCHANGED onDisk /\ (Looks(p, i) \/ missed' = {})
    BY <1>7 DEF engram_think
  <2> HIDE DEF i
  <2> QED BY <2>1, <2>2, LooksEverywhere, MakesKeeps
<1> QED BY <1>2, <1>4, <1>5, <1>6, <1>7

\* For any processes, memories and entities, in whichever order the tools are called and the
\* server comes and goes: no process is left with its store at the server and a graph of its
\* own, and no recall passes over a memory. Who has the directory knows all that is in it.
THEOREM OneBrainForAll == FrontendsSpec => []OneBrain
<1>1. FrontendsInit => FrontInv
  BY DEF FrontendsInit, FrontInv, Nothing, Paired, Instances
<1>2. FrontInv /\ [FrontendsNext]_frontVars => FrontInv'
  <2> SUFFICES ASSUME FrontInv, [FrontendsNext]_frontVars
               PROVE  FrontInv'
    OBVIOUS
  <2>1. CASE ServerStart
    BY <2>1, FrontendsAssumption DEF ServerStart, Free, FrontInv, Everyone, Paired
  <2>2. CASE ServerStop
    BY <2>2, FrontendsAssumption DEF ServerStop, Up, FrontInv, Paired
  <2>3. ASSUME NEW p \in Fronts, Exit(p)
        PROVE  FrontInv'
    <3>1. /\ made' = [made EXCEPT ![p] = Nothing] /\ holder' = (IF holder = p THEN NoOne ELSE holder)
          /\ UNCHANGED <<onDisk, loaded, missed>>
      BY <2>3 DEF Exit
    <3>2. made'[p] = Nothing /\ \A q \in Fronts \ {p} : made'[q] = made[q]
      BY <3>1 DEF FrontInv
    <3>3. made' \in [Fronts -> Instances] /\ Nothing.episodic = "none" /\ Nothing.graph = "none"
      BY <3>1 DEF FrontInv, Instances, Nothing
    <3> QED BY <3>1, <3>2, <3>3 DEF FrontInv, Instances, Paired
  <2>4. ASSUME NEW m \in Notes, NEW e \in Entities, Served(m, e)
        PROVE  FrontInv'
    BY <2>4, FrontendsAssumption DEF Served, Up, FrontInv, Everyone, Paired
  <2>5. CASE UNCHANGED frontVars
    BY <2>5 DEF frontVars, FrontInv, Paired
  <2> QED BY <2>1, <2>2, <2>3, <2>4, <2>5, ToolKeeps DEF FrontendsNext
<1>3. FrontInv => OneBrain
  BY DEF FrontInv, OneBrain, Paired
<1> QED BY <1>1, <1>2, <1>3, PTL DEF FrontendsSpec
-----------------------------------------------------------------------------
(* Memories that travel.                                                   *)

\* The ids some chunk holds.
InChunks == UNION {IdsOf(chunks[n].records) : n \in DOMAIN chunks}

\* A manifest calls synced only what a chunk holds.
IsManifest(x) == DOMAIN x = {"synced", "imported"} /\ x.synced \subseteq InChunks

\* What is called synced is in a chunk, in the manifest and in the copy a command has loaded;
\* a command that is about to record ids has written them.
TransferInv ==
    /\ chunks \in Seq({chunks[n] : n \in DOMAIN chunks})
    /\ IsManifest(manifest) /\ IsManifest(command.loaded)
    /\ command.does = "record" => IdsOf(command.records) \subseteq InChunks

\* A chunk that is added takes nothing away.
LEMMA ChunkAdded ==
    ASSUME chunks \in Seq({chunks[n] : n \in DOMAIN chunks}), NEW c, chunks' = Append(chunks, c)
    PROVE  /\ chunks' \in Seq({chunks'[n] : n \in DOMAIN chunks'})
           /\ InChunks \subseteq InChunks' /\ IdsOf(c.records) \subseteq InChunks'
<1> DEFINE S == {chunks[n] : n \in DOMAIN chunks}
           T == {chunks'[n] : n \in DOMAIN chunks'}
<1>1. chunks \in Seq(S) /\ Len(chunks) \in Nat /\ DOMAIN chunks = 1..Len(chunks)
  OBVIOUS
<1> HIDE DEF S
<1>2. chunks \in Seq(S \cup {c}) /\ c \in S \cup {c}
  BY <1>1
<1>3. /\ chunks' \in Seq(S \cup {c}) /\ Len(chunks') = Len(chunks) + 1
      /\ chunks'[Len(chunks) + 1] = c /\ \A n \in 1..Len(chunks) : chunks'[n] = chunks[n]
  BY <1>2
<1>4. DOMAIN chunks' = 1..(Len(chunks) + 1)
  BY <1>3
<1>5. S \cup {c} \subseteq T
  BY <1>1, <1>3, <1>4 DEF S
<1> HIDE DEF T
<1>6. chunks' \in Seq(T)
  BY <1>3, <1>5
<1>7. InChunks \subseteq InChunks'
  BY <1>1, <1>3, <1>4 DEF InChunks
<1>8. IdsOf(c.records) \subseteq InChunks'
  BY <1>1, <1>3, <1>4 DEF InChunks
<1> QED BY <1>6, <1>7, <1>8 DEF T

\* For any machines, memories and page, wherever a command is killed: an id that the manifest
\* calls synced is in a chunk that can be read.
THEOREM SyncedIsShared == TransferSpec => []SyncedIsInAChunk
<1>1. TransferInit => TransferInv
  BY DEF TransferInit, TransferInv, NoCommand, IsManifest
<1>2. TransferInv /\ [TransferNext]_transferVars => TransferInv'
  <2> SUFFICES ASSUME TransferInv, [TransferNext]_transferVars
               PROVE  TransferInv'
    OBVIOUS
  <2>1. CASE UNCHANGED <<chunks, manifest, command>>
    BY <2>1 DEF TransferInv, IsManifest, InChunks
  <2>2. ASSUME NEW m \in Machines, Export(m)
        PROVE  TransferInv'
    <3>1. UNCHANGED <<chunks, manifest>> /\ command'.does = "write" /\ command'.loaded = manifest
      BY <2>2 DEF Export
    <3> QED BY <3>1 DEF TransferInv, IsManifest, InChunks
  <2>3. CASE WriteChunk
    <3>1. /\ chunks' = Append(chunks, [records |-> command.records, torn |-> FALSE]) /\ manifest' = manifest
          /\ command' = [command EXCEPT !.does = "record"]
      BY <2>3 DEF WriteChunk
    <3>2. command'.records = command.records /\ command'.loaded = command.loaded
      BY <3>1
    <3> QED BY <3>1, <3>2, ChunkAdded DEF TransferInv, IsManifest
  <2>4. CASE Record
    <3>1. /\ chunks' = chunks /\ command' = NoCommand /\ command.does = "record"
          /\ manifest' = [command.loaded EXCEPT !.synced = @ \cup IdsOf(command.records)]
      BY <2>4 DEF Record
    <3>2. DOMAIN manifest' = {"synced", "imported"} /\ manifest'.synced = command.loaded.synced \cup IdsOf(command.records)
      BY <3>1 DEF TransferInv, IsManifest
    <3> QED BY <3>1, <3>2 DEF TransferInv, IsManifest, InChunks, NoCommand
  <2>5. CASE KillCommand
    <3>1. manifest' = manifest /\ command'.does = "nothing" /\ IsManifest(command'.loaded)
      BY <2>5 DEF KillCommand, NoCommand, IsManifest
    <3>2. \/ chunks' = chunks
          \/ chunks' = Append(chunks, [records |-> <<>>, torn |-> TRUE])
      BY <2>5 DEF KillCommand
    <3>3. InChunks \subseteq InChunks' /\ chunks' \in Seq({chunks'[n] : n \in DOMAIN chunks'})
      BY <3>2, ChunkAdded DEF TransferInv, InChunks
    <3> QED BY <3>1, <3>3 DEF TransferInv, IsManifest
  <2>6. ASSUME NEW m \in Machines, Import(m)
        PROVE  TransferInv'
    <3>1. UNCHANGED <<chunks, manifest>> /\ command'.does # "record"
          /\ (command'.loaded = manifest \/ command' = NoCommand)
      BY <2>6 DEF Import, NoCommand
    <3> QED BY <3>1 DEF TransferInv, IsManifest, InChunks, NoCommand
  <2>7. CASE RecordImport
    <3>1. /\ chunks' = chunks /\ command' = NoCommand
          /\ manifest' = [command.loaded EXCEPT !.imported = DOMAIN chunks]
      BY <2>7 DEF RecordImport
    <3>2. DOMAIN manifest' = {"synced", "imported"} /\ manifest'.synced = command.loaded.synced
      BY <3>1 DEF TransferInv, IsManifest
    <3> QED BY <3>1, <3>2 DEF TransferInv, IsManifest, InChunks, NoCommand
  <2> QED BY <2>1, <2>2, <2>3, <2>4, <2>5, <2>6, <2>7
    DEF TransferNext, transferVars, Remember, EditMemory, DropMemory, Backup, Restore
<1>3. TransferInv => SyncedIsInAChunk
  BY DEF TransferInv, IsManifest, InChunks, SyncedIsInAChunk
<1> QED BY <1>1, <1>2, <1>3, PTL DEF TransferSpec
-----------------------------------------------------------------------------
(* The settings files of the agents.                                       *)

\* What a settings file may hold.
Contents == [there : BOOLEAN, own : BOOLEAN, engram : BOOLEAN, parses : BOOLEAN]

Work == [at : {"idle", "next", "backup", "empty", "write"}, left : SUBSET Agents,
         agent : Agents \cup {"none"}, seen : Contents]

\* A run is at an agent's file while it works on it.
Fits(x) == x.at \in {"idle", "next"} <=> x.agent = "none"

\* The types of the files and runs, and where a run has a file in hand.
SetupTypes ==
    /\ settings \in [Agents -> Contents] /\ backup \in [Agents -> Contents]
    /\ first \in [Agents -> {Absent, Theirs, Odd}]
    /\ run \in [Runs -> Work]
    /\ \A r \in Runs : Fits(run[r])
    /\ copied \in [Agents -> {0, 1, 2}] /\ disturbed \subseteq Agents

\* What the user had in the file and a run must carry over.
Carried(a) == first[a].parses /\ Format[a] # "text"

\* A file nobody disturbed, with one run at it at most: its settings are in the file, or in
\* what the run has read, or in the backup that the run made first.
Safe(a) ==
    /\ settings[a].there
    /\ \A r, s \in AtWork(a) : r = s
    /\ Carried(a) =>
         /\ (\A r \in AtWork(a) : run[r].at # "write") => settings[a].own /\ settings[a].parses
         /\ \A r \in AtWork(a) : run[r].seen.own /\ run[r].seen.parses
    /\ Format[a] # "yaml" =>
         /\ copied[a] = 0 => settings[a].own /\ \A r \in AtWork(a) : run[r].at = "backup"
         /\ copied[a] = 1 => backup[a].own

\* The inductive invariant of the setup.
SetupInv ==
    SetupTypes /\ \A a \in Agents : first[a].there /\ a \notin disturbed => Safe(a)

\* The entries of the record a run keeps.
LEMMA RunParts ==
    ASSUME SetupTypes, NEW r \in Runs
    PROVE  /\ run[r].at \in {"idle", "next", "backup", "empty", "write"} /\ run[r].left \subseteq Agents
           /\ run[r].agent \in Agents \cup {"none"} /\ run[r].seen \in Contents
           /\ "none" \notin Agents \cup Runs
BY SetupAssumption DEF Work, SetupTypes

\* A run turns to another state: the others stay as they are.
LEMMA RunTurns ==
    ASSUME SetupTypes, NEW r \in Runs,
           NEW x \in Work,
           Fits(x),
           run' = [run EXCEPT ![r] = x]
    PROVE  /\ run'[r] = x /\ \A s \in Runs \ {r} : run'[s] = run[s]
           /\ run' \in [Runs -> Work]
           /\ \A s \in Runs : Fits(run'[s])
           /\ \A a \in Agents : x.agent # a => AtWork(a)' = AtWork(a) \ {r}
           /\ \A a \in Agents : x.agent = a => AtWork(a)' = AtWork(a) \cup {r}
<1>1. /\ run'[r] = x /\ \A s \in Runs \ {r} : run'[s] = run[s]
  BY DEF Work, SetupTypes
<1>2. run' \in [Runs -> Work]
  BY DEF Work, SetupTypes
<1>3. \A s \in Runs : Fits(run'[s])
  BY <1>1 DEF Work, SetupTypes
<1>4. \A a \in Agents : x.agent # a => AtWork(a)' = AtWork(a) \ {r}
  BY <1>1 DEF AtWork
<1>5. \A a \in Agents : x.agent = a => AtWork(a)' = AtWork(a) \cup {r}
  BY <1>1 DEF AtWork
<1> QED BY <1>1, <1>2, <1>3, <1>4, <1>5

\* A run comes to its work, or leaves it before it has emptied a file.
LEMMA ComesAndGoes ==
    ASSUME SetupInv, NEW r \in Runs,
           \/ Start(r) \/ FinishSetup(r) \/ KillRun(r) \/ \E a \in Agents : ConnectorFails(r, a)
    PROVE  SetupInv'
<1>1. PICK x \in Work :
         /\ run' = [run EXCEPT ![r] = x] /\ x.at \in {"idle", "next"} /\ x.agent = "none"
  <2>1. NotRunning \in Work /\ NotRunning.at = "idle" /\ NotRunning.agent = "none"
    BY DEF Work, NotRunning, Absent, Contents
  <2>2. ASSUME NEW chosen \in SUBSET Agents
        PROVE  LET x == [NotRunning EXCEPT !.at = "next", !.left = chosen]
               IN  /\ x \in Work
                   /\ x.at = "next" /\ x.agent = "none"
    BY DEF Work, NotRunning, Absent, Contents
  <2>3. CASE Start(r)
    BY <2>2, <2>3 DEF Start
  <2>4. CASE FinishSetup(r) \/ KillRun(r)
    BY <2>1, <2>4 DEF FinishSetup, KillRun
  <2>5. CASE \E a \in Agents : ConnectorFails(r, a)
    <3>1. run[r].left \subseteq Agents
      BY RunParts DEF SetupInv
    <3> QED BY <2>2, <2>5, <3>1 DEF ConnectorFails
  <2> QED BY <2>3, <2>4, <2>5
<1>2. /\ UNCHANGED <<settings, backup, copied, first>>
      /\ disturbed' = IF run[r].at = "write" THEN disturbed \cup {run[r].agent} ELSE disturbed
  BY DEF Start, FinishSetup, KillRun, ConnectorFails
<1>3. SetupTypes
  BY DEF SetupInv
<1>3a. Fits(x) /\ run' = [run EXCEPT ![r] = x]
  BY <1>1 DEF Fits
<1>3b. /\ run'[r] = x /\ \A s \in Runs \ {r} : run'[s] = run[s]
       /\ run' \in [Runs -> Work] /\ \A s \in Runs : Fits(run'[s])
       /\ \A a \in Agents : x.agent # a => AtWork(a)' = AtWork(a) \ {r}
  BY <1>3, <1>3a, RunTurns
<1>4. run'[r] = x /\ (\A s \in Runs \ {r} : run'[s] = run[s]) /\ \A a \in Agents : AtWork(a)' = AtWork(a) \ {r}
  BY <1>1, <1>3, <1>3b, RunParts
<1>4a. disturbed' \subseteq Agents
  BY <1>2, <1>3, RunParts DEF SetupTypes, Fits
<1>5. SetupTypes'
  BY <1>2, <1>3, <1>3b, <1>4a DEF SetupTypes
<1>6. ASSUME NEW a \in Agents, first[a].there, a \notin disturbed'
      PROVE  Safe(a)'
  <2>1. Safe(a) /\ a \notin disturbed
    BY <1>2, <1>6 DEF SetupInv
  <2>2. r \in AtWork(a) => run[r].at # "write"
    BY <1>2, <1>6 DEF AtWork
  <2>3. AtWork(a)' \subseteq AtWork(a) /\ \A s \in AtWork(a)' : run'[s] = run[s]
    BY <1>4 DEF AtWork
  <2>4. (\A s \in AtWork(a)' : run'[s].at # "write") => \A s \in AtWork(a) : run[s].at # "write"
    BY <1>4, <2>2 DEF AtWork
  <2> QED BY <1>2, <2>1, <2>3, <2>4 DEF Safe, Carried
<1> QED BY <1>2, <1>5, <1>6 DEF SetupInv

\* A run reads a file: what it has seen are the user's settings if they parse.
LEMMA ReadKeeps ==
    ASSUME SetupInv, NEW r \in Runs, NEW b \in Agents, Read(r, b)
    PROVE  SetupInv'
<1>1. SetupTypes /\ run[r].at = "next" /\ b \in run[r].left /\ UNCHANGED <<settings, backup, copied, first>>
  BY DEF SetupInv, Read
<1>2. run[r].agent = "none" /\ \A a \in Agents : r \notin AtWork(a)
  BY <1>1, RunParts DEF SetupTypes, AtWork, Fits
<1>3. CASE Configured(b)
  <2>1. PICK x \in Work :
           run' = [run EXCEPT ![r] = x] /\ x.at = "next" /\ x.agent = "none"
    <3>1. run' = [run EXCEPT ![r] = Passed(r, b)]
      BY <1>3 DEF Read
    <3>2. Passed(r, b) \in
             Work
      BY <1>1, RunParts DEF Passed, Work, SetupTypes
    <3>3. /\ Passed(r, b).at = "next"
          /\ Passed(r, b).agent = "none"
      BY <1>1, <1>2 DEF Passed, Work, SetupTypes
    <3> QED BY <3>1, <3>2, <3>3
  <2>1a. Fits(x) /\ run' = [run EXCEPT ![r] = x]
    BY <2>1 DEF Fits
  <2>1b. /\ run'[r] = x /\ \A s \in Runs \ {r} : run'[s] = run[s]
         /\ run' \in [Runs -> Work]
         /\ \A s \in Runs : Fits(run'[s])
         /\ \A a \in Agents : x.agent # a => AtWork(a)' = AtWork(a) \ {r}
         /\ \A a \in Agents : x.agent = a => AtWork(a)' = AtWork(a) \cup {r}
    BY <1>1, <2>1a, RunTurns
  <2>2. run'[r] = x /\ (\A s \in Runs \ {r} : run'[s] = run[s]) /\ \A a \in Agents : AtWork(a)' = AtWork(a)
    <3>1. ASSUME NEW a \in Agents
          PROVE  AtWork(a)' = AtWork(a)
      <4>1. x.agent # a /\ r \notin AtWork(a)
        BY <1>1, <1>2, <2>1, RunParts
      <4>2. AtWork(a)' = AtWork(a) \ {r}
        BY <2>1b, <4>1, Zenon
      <4> QED BY <4>1, <4>2
    <3> QED BY <2>1b, <3>1, Zenon
  <2>3. disturbed' = disturbed
    BY <1>3 DEF Read
  <2>4. SetupTypes'
    BY <1>1, <2>1b, <2>3 DEF SetupTypes
  <2>5. ASSUME NEW a \in Agents, first[a].there, a \notin disturbed
        PROVE  Safe(a)'
    <3>1. Safe(a) /\ \A s \in AtWork(a)' : run'[s] = run[s]
      BY <1>2, <2>2, <2>5 DEF SetupInv, AtWork
    <3> QED BY <1>1, <2>2, <3>1 DEF Safe, Carried
  <2> QED BY <1>1, <2>3, <2>4, <2>5 DEF SetupInv
<1>4. CASE ~Configured(b)
  <2> DEFINE x == Begun(r, b)
  <2>1. run' = [run EXCEPT ![r] = x]
    BY <1>4 DEF Read
  <2>2. Existing(b) \in Contents
    BY <1>1 DEF Existing, Contents, FreshFile, SetupTypes
  <2>3. x \in Work
        /\ x.at \in {"backup", "empty"} /\ x.agent = b /\ x.seen = Existing(b)
        /\ (settings[b].there /\ Format[b] # "yaml" => x.at = "backup")
    BY <1>1, <2>2, RunParts DEF Begun, Work
  <2> HIDE DEF x
  <2>3a. Fits(x) /\ run' = [run EXCEPT ![r] = x]
    BY <1>1, <2>1, <2>3, RunParts DEF Fits
  <2>3b. /\ run'[r] = x /\ \A s \in Runs \ {r} : run'[s] = run[s]
         /\ run' \in [Runs -> Work]
         /\ \A s \in Runs : Fits(run'[s])
         /\ \A a \in Agents : x.agent # a => AtWork(a)' = AtWork(a) \ {r}
         /\ \A a \in Agents : x.agent = a => AtWork(a)' = AtWork(a) \cup {r}
    BY <1>1, <2>3, <2>3a, RunTurns
  <2>4. /\ run'[r] = x /\ \A s \in Runs \ {r} : run'[s] = run[s]
        /\ \A a \in Agents : AtWork(a)' = IF a = b THEN AtWork(a) \cup {r} ELSE AtWork(a)
    <3>0. x.agent = b /\ \A a \in Agents : x.agent = a => AtWork(a)' = AtWork(a) \cup {r}
      BY <2>3, <2>3b, Zenon
    <3>1. AtWork(b)' = AtWork(b) \cup {r}
      BY <3>0, Zenon
    <3>2. ASSUME NEW a \in Agents, a # b
          PROVE  AtWork(a)' = AtWork(a) \ {r}
      <4>1. x.agent # a
        BY <3>0, <3>2
      <4> QED BY <2>3b, <4>1, Zenon
    <3>3. \A a \in Agents \ {b} : AtWork(a)' = AtWork(a)
      BY <1>2, <3>2
    <3> QED BY <2>3b, <3>1, <3>3
  <2>5. disturbed' = IF AtWork(b) = {} THEN disturbed ELSE disturbed \cup {b}
    BY <1>2, <1>4 DEF Read, Disturbs
  <2>6. SetupTypes'
    BY <1>1, <2>3b, <2>5 DEF SetupTypes
  <2>7. ASSUME NEW a \in Agents, first[a].there, a \notin disturbed'
        PROVE  Safe(a)'
    <3>1. Safe(a)
      BY <2>5, <2>7 DEF SetupInv
    <3>2. CASE a # b
      <4>1. AtWork(a)' = AtWork(a) /\ \A s \in AtWork(a) : run'[s] = run[s]
        BY <1>2, <2>4, <3>2 DEF AtWork
      <4> QED BY <1>1, <3>1, <4>1 DEF Safe, Carried
    <3>3. CASE a = b
      <4>1. AtWork(a)' = {r} /\ run'[r] = x /\ AtWork(a) = {}
        BY <2>4, <2>5, <2>7, <3>3
      <4>2. settings[a].there /\ (Format[a] # "yaml" => x.at = "backup") /\ x.at # "write"
        BY <2>3, <3>1, <3>3 DEF Safe
      <4>3. Carried(a) => settings[a].own /\ settings[a].parses
        BY <3>1, <4>1 DEF Safe
      <4>4. Carried(a) => x.seen.own /\ x.seen.parses
        BY <2>3, <3>3, <4>3 DEF Existing, Unparsed
      <4> QED BY <1>1, <3>1, <4>1, <4>2, <4>3, <4>4 DEF Safe, Carried
    <3> QED BY <3>2, <3>3
  <2> QED BY <1>1, <2>6, <2>7 DEF SetupInv
<1> QED BY <1>3, <1>4

\* The steps of a run on a file: the backup, the emptying and the writing.
LEMMA WorkKeeps ==
    ASSUME SetupInv, NEW r \in Runs, NEW b \in Agents,
           BackupSettings(r, b) \/ Empty(r, b) \/ WriteMerged(r, b)
    PROVE  SetupInv'
<1>1. SetupTypes /\ run[r].agent = b /\ r \in AtWork(b) /\ first' = first /\ disturbed' = disturbed
  BY DEF SetupInv, BackupSettings, Empty, WriteMerged, AtWork
<1>2. \A a \in Agents \ {b} : r \notin AtWork(a)
  BY <1>1 DEF AtWork
<1>3. CASE BackupSettings(r, b) \/ Empty(r, b)
  <2> PICK to \in {"empty", "write"} :
         /\ run' = [run EXCEPT ![r].at = to]
         /\ to = "empty" => BackupSettings(r, b)
         /\ to = "write" => Empty(r, b)
    BY <1>3 DEF BackupSettings, Empty
  <2>1. PICK x \in Work :
           run' = [run EXCEPT ![r] = x] /\ x.at = to /\ x.agent = b /\ x.seen = run[r].seen
    <3>1. [run[r] EXCEPT !.at = to] \in
             Work
      BY <1>1, RunParts DEF Work, SetupTypes
    <3>2. /\ [run[r] EXCEPT !.at = to].at = to /\ [run[r] EXCEPT !.at = to].agent = b
          /\ [run[r] EXCEPT !.at = to].seen = run[r].seen
      BY <1>1 DEF Work, SetupTypes
    <3> QED BY <1>1, <3>1, <3>2 DEF Work, SetupTypes
  <2>1a. Fits(x) /\ run' = [run EXCEPT ![r] = x]
    BY <1>1, <2>1, RunParts DEF Fits
  <2>1b. /\ run'[r] = x /\ \A s \in Runs \ {r} : run'[s] = run[s]
         /\ run' \in [Runs -> Work]
         /\ \A s \in Runs : Fits(run'[s])
         /\ \A a \in Agents : x.agent # a => AtWork(a)' = AtWork(a) \ {r}
         /\ \A a \in Agents : x.agent = a => AtWork(a)' = AtWork(a) \cup {r}
    BY <1>1, <2>1a, RunTurns
  <2>2. /\ run'[r] = x /\ \A s \in Runs \ {r} : run'[s] = run[s]
        /\ \A a \in Agents : AtWork(a)' = AtWork(a)
    <3>0. AtWork(b)' = AtWork(b) \cup {r}
      <4>1. x.agent = b
        BY <2>1
      <4>2. \A a \in Agents : x.agent = a => AtWork(a)' = AtWork(a) \cup {r}
        BY <2>1b, Zenon
      <4> QED BY <4>1, <4>2, Zenon
    <3>1. AtWork(b)' = AtWork(b)
      BY <1>1, <3>0
    <3>2. ASSUME NEW a \in Agents, a # b
          PROVE  AtWork(a)' = AtWork(a)
      <4>1. x.agent # a /\ r \notin AtWork(a)
        BY <1>2, <2>1, <3>2
      <4>2. AtWork(a)' = AtWork(a) \ {r}
        BY <2>1b, <4>1, Zenon
      <4> QED BY <4>1, <4>2
    <3> QED BY <2>1b, <3>1, <3>2
  <2>3. CASE to = "empty"
    <3>1. /\ settings' = settings /\ backup' = [backup EXCEPT ![b] = settings[b]]
          /\ copied' = [copied EXCEPT ![b] = IF @ = 2 THEN 2 ELSE @ + 1] /\ run[r].at = "backup"
      BY <2>3 DEF BackupSettings
    <3>2. SetupTypes'
      BY <1>1, <2>1b, <3>1 DEF SetupTypes
    <3>3. ASSUME NEW a \in Agents, first[a].there, a \notin disturbed
          PROVE  Safe(a)'
      <4>1. Safe(a)
        BY <3>3 DEF SetupInv
      <4>2. CASE a # b
        <5>1. AtWork(a)' = AtWork(a) /\ (\A s \in AtWork(a) : run'[s] = run[s]) /\ settings'[a] = settings[a]
              /\ backup'[a] = backup[a] /\ copied'[a] = copied[a]
          BY <1>1, <1>2, <2>2, <3>1, <4>2 DEF AtWork, SetupTypes
        <5> QED BY <1>1, <4>1, <5>1 DEF Safe, Carried
      <4>3. CASE a = b
        <5>1. AtWork(a)' = {r} /\ AtWork(a) = {r} /\ run'[r] = x /\ x.at = "empty" /\ x.seen = run[r].seen
          BY <1>1, <2>1, <2>2, <2>3, <4>1, <4>3 DEF Safe
        <5>2. settings'[a] = settings[a] /\ backup'[a] = settings[a]
          BY <1>1, <3>1, <4>3 DEF Work, SetupTypes
        <5>3. copied'[a] # 0 /\ (copied'[a] = 1 => copied[a] = 0)
          BY <1>1, <3>1, <4>3 DEF Work, SetupTypes
        <5>4. Format[a] # "yaml" => copied'[a] # 0 /\ (copied'[a] = 1 => backup'[a].own)
          BY <4>1, <5>2, <5>3 DEF Safe
        <5>5. Carried(a) => settings[a].own /\ settings[a].parses /\ x.seen.own /\ x.seen.parses
          BY <3>1, <4>1, <5>1 DEF Safe
        <5> QED BY <1>1, <4>1, <5>1, <5>2, <5>4, <5>5 DEF Safe, Carried
      <4> QED BY <4>2, <4>3
    <3> QED BY <1>1, <3>2, <3>3 DEF SetupInv
  <2>4. CASE to = "write"
    <3>1. /\ settings' = [settings EXCEPT ![b] = Emptied] /\ UNCHANGED <<backup, copied>> /\ run[r].at = "empty"
      BY <2>4 DEF Empty
    <3>2. SetupTypes'
      BY <1>1, <2>1b, <3>1 DEF SetupTypes, Emptied, Contents
    <3>3. ASSUME NEW a \in Agents, first[a].there, a \notin disturbed
          PROVE  Safe(a)'
      <4>1. Safe(a)
        BY <3>3 DEF SetupInv
      <4>2. CASE a # b
        <5>1. AtWork(a)' = AtWork(a) /\ (\A s \in AtWork(a) : run'[s] = run[s]) /\ settings'[a] = settings[a]
          BY <1>1, <1>2, <2>2, <3>1, <4>2 DEF AtWork, SetupTypes
        <5> QED BY <1>1, <3>1, <4>1, <5>1 DEF Safe, Carried
      <4>3. CASE a = b
        <5>1. AtWork(a)' = {r} /\ AtWork(a) = {r} /\ run'[r] = x /\ x.at = "write" /\ x.seen = run[r].seen
          BY <1>1, <2>1, <2>2, <2>4, <4>1, <4>3 DEF Safe
        <5>2. settings'[a].there
          BY <1>1, <3>1, <4>3 DEF Work, SetupTypes, Emptied
        <5>3. Format[a] # "yaml" => copied[a] # 0 /\ (copied[a] = 1 => backup[a].own)
          BY <3>1, <4>1, <5>1 DEF Safe
        <5>4. Carried(a) => x.seen.own /\ x.seen.parses
          BY <4>1, <5>1 DEF Safe
        <5> QED BY <1>1, <3>1, <5>1, <5>2, <5>3, <5>4 DEF Safe, Carried
      <4> QED BY <4>2, <4>3
    <3> QED BY <1>1, <3>2, <3>3 DEF SetupInv
  <2> QED BY <2>3, <2>4
<1>4. CASE WriteMerged(r, b)
  <2>1. /\ settings' = [settings EXCEPT ![b] = Merged(b, run[r].seen)] /\ UNCHANGED <<backup, copied>>
        /\ run' = [run EXCEPT ![r] = [NotRunning EXCEPT !.at = "next", !.left = run[r].left]]
        /\ run[r].at = "write"
    BY <1>4 DEF WriteMerged
  <2> DEFINE x == [NotRunning EXCEPT !.at = "next", !.left = run[r].left]
  <2>2. x \in Work /\ x.at = "next" /\ x.agent = "none"
    BY <1>1, RunParts DEF Work, NotRunning, Absent, Contents
  <2>3. run' = [run EXCEPT ![r] = x]
    BY <2>1
  <2> HIDE DEF x
  <2>3a. Fits(x) /\ run' = [run EXCEPT ![r] = x]
    BY <2>2, <2>3 DEF Fits
  <2>3b. /\ run'[r] = x /\ \A s \in Runs \ {r} : run'[s] = run[s]
         /\ run' \in [Runs -> Work]
         /\ \A s \in Runs : Fits(run'[s])
         /\ \A a \in Agents : x.agent # a => AtWork(a)' = AtWork(a) \ {r}
         /\ \A a \in Agents : x.agent = a => AtWork(a)' = AtWork(a) \cup {r}
    BY <1>1, <2>2, <2>3a, RunTurns
  <2>4. /\ run'[r] = x /\ \A s \in Runs \ {r} : run'[s] = run[s]
        /\ \A a \in Agents : AtWork(a)' = AtWork(a) \ {r}
    BY <1>1, <2>2, <2>3b, RunParts
  <2>5. Merged(b, run[r].seen) \in Contents /\ Merged(b, run[r].seen).there
        /\ (Format[b] # "text" => /\ Merged(b, run[r].seen).own = run[r].seen.own
                                  /\ Merged(b, run[r].seen).parses = run[r].seen.parses)
    BY <1>1, RunParts DEF Merged, FreshFile, Contents
  <2>6. settings' \in [Agents -> Contents] /\ settings'[b] = Merged(b, run[r].seen)
        /\ \A a \in Agents \ {b} : settings'[a] = settings[a]
    BY <1>1, <2>1, <2>5 DEF Work, SetupTypes
  <2>7. SetupTypes'
    BY <1>1, <2>1, <2>3b, <2>6 DEF SetupTypes
  <2>8. ASSUME NEW a \in Agents, first[a].there, a \notin disturbed
        PROVE  Safe(a)'
    <3>1. Safe(a)
      BY <2>8 DEF SetupInv
    <3>2. CASE a # b
      <4>1. AtWork(a)' = AtWork(a) /\ (\A s \in AtWork(a) : run'[s] = run[s]) /\ settings'[a] = settings[a]
        BY <1>2, <2>4, <2>6, <3>2 DEF AtWork
      <4> QED BY <1>1, <2>1, <3>1, <4>1 DEF Safe, Carried
    <3>3. CASE a = b
      <4>1. AtWork(a)' = {} /\ AtWork(a) = {r}
        BY <1>1, <2>4, <3>1, <3>3 DEF Safe
      <4>2. Format[a] # "yaml" => copied[a] # 0 /\ (copied[a] = 1 => backup[a].own)
        BY <2>1, <3>1, <4>1 DEF Safe
      <4>3. Carried(a) => settings'[a].own /\ settings'[a].parses
        BY <2>5, <2>6, <3>1, <3>3, <4>1 DEF Safe, Carried
      <4>4. settings'[a].there
        BY <2>5, <2>6, <3>3
      <4> QED BY <1>1, <2>1, <4>1, <4>2, <4>3, <4>4 DEF Safe, Carried
    <3> QED BY <3>2, <3>3
  <2> QED BY <1>1, <2>7, <2>8 DEF SetupInv
<1> QED BY <1>3, <1>4

\* An edit by the agent or its user leaves their settings in the file.
LEMMA EditKeeps ==
    ASSUME SetupInv, NEW b \in Agents, EditSettings(b)
    PROVE  SetupInv'
<1>1. /\ SetupTypes /\ UNCHANGED <<backup, run, copied, first>> /\ disturbed' = Disturbs(b, "none")
      /\ \E c \in {settings[b], [settings[b] EXCEPT !.engram = FALSE]} :
            settings' = [settings EXCEPT ![b] = [c EXCEPT !.there = TRUE, !.parses = TRUE]]
  BY DEF SetupInv, EditSettings
<1>2. PICK y \in Contents : /\ settings' = [settings EXCEPT ![b] = y] /\ y.there /\ y.parses
                            /\ y.own = settings[b].own
  <2>1. PICK c \in {settings[b], [settings[b] EXCEPT !.engram = FALSE]} :
           settings' = [settings EXCEPT ![b] = [c EXCEPT !.there = TRUE, !.parses = TRUE]]
    BY <1>1
  <2>2. settings[b] \in Contents
    BY <1>1 DEF Work, SetupTypes
  <2>3. c \in Contents /\ c.own = settings[b].own
    BY <2>2 DEF Contents
  <2>4. /\ [c EXCEPT !.there = TRUE, !.parses = TRUE] \in Contents
        /\ [c EXCEPT !.there = TRUE, !.parses = TRUE].there /\ [c EXCEPT !.there = TRUE, !.parses = TRUE].parses
        /\ [c EXCEPT !.there = TRUE, !.parses = TRUE].own = c.own
    BY <2>3 DEF Contents
  <2> QED BY <2>1, <2>3, <2>4
<1>3. /\ settings'[b] = y /\ \A a \in Agents \ {b} : settings'[a] = settings[a]
      /\ settings' \in [Agents -> Contents]
  BY <1>1, <1>2 DEF Work, SetupTypes
<1>4. disturbed' \subseteq Agents /\ disturbed \subseteq disturbed'
      /\ (b \notin disturbed' => AtWork(b) = {})
  BY <1>1, SetupAssumption DEF Disturbs, SetupTypes, AtWork
<1>5. SetupTypes'
  BY <1>1, <1>3, <1>4 DEF Work, SetupTypes
<1>6. ASSUME NEW a \in Agents, first[a].there, a \notin disturbed'
      PROVE  Safe(a)'
  <2>1. Safe(a) /\ AtWork(a)' = AtWork(a)
    BY <1>1, <1>4, <1>6 DEF SetupInv, AtWork
  <2>2. CASE a # b
    BY <1>1, <1>3, <2>1, <2>2 DEF Safe, Carried
  <2>3. CASE a = b
    <3>1. AtWork(a) = {} /\ settings'[a].there /\ settings'[a].parses /\ settings'[a].own = settings[a].own
      BY <1>2, <1>3, <1>4, <1>6, <2>3
    <3> QED BY <1>1, <2>1, <3>1 DEF Safe, Carried
  <2> QED BY <2>2, <2>3
<1> QED BY <1>1, <1>5, <1>6 DEF SetupInv

\* For any agents, formats and runs: while nobody else writes an agent's file and no run dies
\* writing it, the user's settings come through, in the file or in the backup.
THEOREM SettingsComeThrough == SetupSpec => []SettingsKept
<1>1. SetupInit => SetupInv
  <2> SUFFICES ASSUME SetupInit
               PROVE  SetupInv
    OBVIOUS
  <2>1. SetupTypes
    <3>1. Absent \in Contents /\ Theirs \in Contents /\ Odd \in Contents
      BY DEF Absent, Theirs, Odd, Contents
    <3>2. NotRunning \in Work /\ NotRunning.at = "idle" /\ NotRunning.agent = "none"
      BY <3>1 DEF NotRunning, Work
    <3>3. first \in [Agents -> {Absent, Theirs, Odd}] /\ settings = first /\ \A r \in Runs : run[r] = NotRunning
      BY DEF SetupInit
    <3>4. settings \in [Agents -> Contents]
      BY <3>1, <3>3
    <3>5. run \in [Runs -> Work] /\ \A r \in Runs : Fits(run[r])
      BY <3>2 DEF SetupInit, Fits
    <3> QED BY <3>1, <3>3, <3>4, <3>5 DEF SetupInit, SetupTypes
  <2>2. \A a \in Agents : AtWork(a) = {}
    BY SetupAssumption DEF SetupInit, AtWork, NotRunning
  <2>3. \A a \in Agents : first[a].there => settings[a].there /\ settings[a].own
    BY DEF SetupInit, Absent, Theirs, Odd
  <2> QED BY <2>1, <2>2, <2>3 DEF SetupInit, SetupInv, Safe, Carried
<1>2. SetupInv /\ [SetupNext]_setupVars => SetupInv'
  <2> SUFFICES ASSUME SetupInv, [SetupNext]_setupVars
               PROVE  SetupInv'
    OBVIOUS
  <2>1. CASE UNCHANGED setupVars
    <3>1. SetupTypes' /\ \A a \in Agents : AtWork(a)' = AtWork(a)
      BY <2>1 DEF setupVars, SetupInv, SetupTypes, AtWork
    <3> QED BY <2>1, <3>1 DEF setupVars, SetupInv, Safe, Carried
  <2> QED BY <2>1, ComesAndGoes, ReadKeeps, WorkKeeps, EditKeeps DEF SetupNext
<1>3. SetupInv => SettingsKept
  <2> SUFFICES ASSUME SetupInv, NEW a \in Agents, first[a].there, a \notin disturbed, AtWork(a) = {}
               PROVE  /\ first[a].parses /\ Format[a] # "text" => settings[a].own
                      /\ Format[a] # "yaml" /\ copied[a] < 2 => settings[a].own \/ backup[a].own
    BY DEF SettingsKept
  <2>1. Safe(a) /\ copied[a] \in {0, 1, 2}
    BY DEF SetupInv, SetupTypes
  <2>2. first[a].parses /\ Format[a] # "text" => settings[a].own
    BY <2>1 DEF Safe, Carried
  <2>3. Format[a] # "yaml" /\ copied[a] < 2 => settings[a].own \/ backup[a].own
    BY <2>1 DEF Safe
  <2> QED BY <2>2, <2>3
<1> QED BY <1>1, <1>2, <1>3, PTL DEF SetupSpec
-----------------------------------------------------------------------------
(* The two files engram is set up by.                                      *)

Ops == [idle |-> {"none"}, truncate |-> {"set", "save", "init"}, write |-> {"set", "save", "init"},
        put |-> {"put"}, truncateKeys |-> {"create", "revoke"}, writeKeys |-> {"create", "revoke"}]

\* A command under way has the operation of its step.
IsCommand(x) ==
    /\ DOMAIN x = {"at", "op", "arg", "base", "stale"}
    /\ x.at \in {"idle", "truncate", "write", "put", "truncateKeys", "writeKeys"} /\ x.op \in Ops[x.at]
    /\ x.stale \in BOOLEAN

\* The fields of config.yaml that are told apart.
IsConfig(c) == DOMAIN c = {"plain", "secret", "providers"}

\* What a command is about to write has no secret of the environment, or is masked first.
WritesNoSecret(x) ==
    x.at \in {"truncate", "write", "put"} =>
        IsConfig(x.base) /\ (x.op = "save" \/ x.base.secret # "expanded")

\* Every process is between commands or under way with one.
CommandTypes == DOMAIN proc = Processes /\ \A p \in Processes : IsCommand(proc[p])

\* The inductive invariant of config.yaml.
SecretInv ==
    /\ CommandTypes
    /\ IsConfig(config) /\ config.secret # "expanded"
    /\ \A p \in Processes : WritesNoSecret(proc[p])

\* Only the staleness of a command changes.
SameBut(x, y) == x.at = y.at /\ x.op = y.op /\ x.arg = y.arg /\ x.base = y.base

\* What a step of one process does to the commands of all.
LEMMA StepsEffect ==
    ASSUME CommandTypes, NEW p \in Processes, NEW file, NEW rec, IsCommand(rec), Steps(p, file, rec)
    PROVE  /\ CommandTypes' /\ proc'[p] = rec
           /\ \A q \in Processes \ {p} :
                /\ SameBut(proc'[q], proc[q])
                /\ ~proc'[q].stale => ~proc[q].stale
                /\ ~proc'[q].stale /\ proc[q].op # "none" => FileOf(proc[q].op) # file
<1>1. /\ DOMAIN proc' = Processes /\ proc'[p] = rec
      /\ \A q \in Processes \ {p} :
           proc'[q] = [proc[q] EXCEPT !.stale = proc[q].stale \/ (proc[q].op # "none" /\ FileOf(proc[q].op) = file)]
  BY DEF Steps, CommandTypes
<1>2. ASSUME NEW q \in Processes \ {p}
      PROVE  /\ IsCommand(proc'[q]) /\ SameBut(proc'[q], proc[q])
             /\ ~proc'[q].stale => ~proc[q].stale
             /\ ~proc'[q].stale /\ proc[q].op # "none" => FileOf(proc[q].op) # file
  <2> DEFINE b == proc[q].stale \/ (proc[q].op # "none" /\ FileOf(proc[q].op) = file)
  <2>1. proc'[q] = [proc[q] EXCEPT !.stale = b] /\ b \in BOOLEAN
    BY <1>1 DEF CommandTypes, IsCommand
  <2>2. b => b = TRUE
    OBVIOUS
  <2>3. b <=> (proc[q].stale \/ (proc[q].op # "none" /\ FileOf(proc[q].op) = file))
    OBVIOUS
  <2> HIDE DEF b
  <2>4. IsCommand(proc[q])
    BY DEF CommandTypes
  <2>5. SameBut(proc'[q], proc[q]) /\ proc'[q].stale = b /\ DOMAIN proc'[q] = DOMAIN proc[q]
    BY <2>1, <2>4 DEF IsCommand, SameBut
  <2>6. IsCommand(proc'[q])
    BY <2>1, <2>4, <2>5 DEF IsCommand, SameBut
  <2>7. (~proc'[q].stale => ~proc[q].stale)
        /\ (~proc'[q].stale /\ proc[q].op # "none" => FileOf(proc[q].op) # file)
    BY <2>3, <2>5
  <2> QED BY <2>5, <2>6, <2>7
<1> QED BY <1>1, <1>2 DEF CommandTypes

\* The configuration as a command reads it, with the environment in it or not.
LEMMA Readings ==
    ASSUME IsConfig(config), config.secret # "expanded"
    PROVE  /\ IsConfig(Raw) /\ Raw.secret # "expanded" /\ IsConfig(Defaults) /\ IsConfig(Template)
           /\ Defaults.secret # "expanded" /\ Template.secret # "expanded"
           /\ IsConfig(load_config(Raw))
<1>1. /\ IsConfig(Raw) /\ Raw.secret # "expanded" /\ IsConfig(Defaults) /\ IsConfig(Template)
      /\ Defaults.secret # "expanded" /\ Template.secret # "expanded"
  BY DEF Raw, IsConfig, Defaults, Template
<1>2. IsConfig(load_config(Raw))
  <2>1. IsConfig(_expand_env_vars(Raw))
    BY <1>1 DEF _expand_env_vars, IsConfig
  <2> QED BY <2>1 DEF load_config, _apply_env_overlay, IsConfig
<1> QED BY <1>1, <1>2

\* A step of a process that leaves no secret of the environment behind.
LEMMA SecretStep ==
    ASSUME SecretInv, NEW p \in Processes, NEW file, NEW rec, Steps(p, file, rec),
           IsCommand(rec), WritesNoSecret(rec), IsConfig(config'), config'.secret # "expanded"
    PROVE  SecretInv'
<1>1. CommandTypes
  BY DEF SecretInv
<1>2. CommandTypes' /\ proc'[p] = rec /\ \A q \in Processes \ {p} : SameBut(proc'[q], proc[q])
  BY <1>1, StepsEffect
<1>3. ASSUME NEW q \in Processes
      PROVE  WritesNoSecret(proc'[q])
  <2>1. CASE q = p
    BY <1>2, <2>1
  <2>2. CASE q # p
    BY <1>2, <2>2 DEF SecretInv, SameBut, WritesNoSecret
  <2> QED BY <2>1, <2>2
<1> QED BY <1>2, <1>3 DEF SecretInv

\* A command begins, with what it is to write.
LEMMA HoldsSecret ==
    ASSUME SecretInv, NEW p \in Processes, NEW at, NEW op, NEW arg, NEW base, Holds(p, at, op, arg, base),
           at \in {"truncate", "put", "truncateKeys"}, op \in Ops[at], UNCHANGED config,
           at = "truncateKeys" \/ (IsConfig(base) /\ (op = "save" \/ base.secret # "expanded"))
    PROVE  SecretInv'
<1> DEFINE rec == [at |-> at, op |-> op, arg |-> arg, base |-> base, stale |-> FALSE]
<1>1. Steps(p, "none", rec)
  BY DEF Holds
<1>2. IsCommand(rec) /\ WritesNoSecret(rec)
  BY DEF IsCommand, WritesNoSecret
<1> HIDE DEF rec
<1>3. IsConfig(config') /\ config'.secret # "expanded"
  BY DEF SecretInv
<1> QED BY <1>1, <1>2, <1>3, SecretStep

\* A command that keeps its reading and goes on.
LEMMA GoesOn ==
    ASSUME CommandTypes, NEW p \in Processes, NEW to \in {"write", "writeKeys"}, proc[p].op \in Ops[to]
    PROVE  LET rec == [proc[p] EXCEPT !.at = to]
           IN  IsCommand(rec) /\ rec.at = to /\ rec.op = proc[p].op /\ rec.arg = proc[p].arg
               /\ rec.base = proc[p].base /\ rec.stale = proc[p].stale
BY DEF CommandTypes, IsCommand

\* A process between its commands.
LEMMA RestIsCommand == IsCommand(AtRest) /\ WritesNoSecret(AtRest) /\ AtRest.op = "none"
BY DEF IsCommand, WritesNoSecret, AtRest, Ops

\* For any environment, processes and commands, in any order and wherever they are killed: a
\* secret that came in through a reference to the environment is not written to config.yaml.
\* What is inductive is what the commands hold between their reading and their writing.
THEOREM SecretsStayOut == SettingsSpec => []EnvironmentStaysOut
<1>1. SettingsInit => SecretInv
  BY RestIsCommand DEF SettingsInit, SecretInv, CommandTypes, Defaults, IsConfig
<1>2. SecretInv /\ [SettingsNext]_settingVars => SecretInv'
  <2> SUFFICES ASSUME SecretInv, [SettingsNext]_settingVars
               PROVE  SecretInv'
    OBVIOUS
  <2>0. /\ CommandTypes /\ IsConfig(config) /\ config.secret # "expanded"
        /\ IsConfig(Raw) /\ Raw.secret # "expanded" /\ IsConfig(Template) /\ Template.secret # "expanded"
        /\ IsConfig(load_config(Raw))
    BY Readings DEF SecretInv
  <2>1. CASE UNCHANGED settingVars
    BY <2>1 DEF settingVars, SecretInv, CommandTypes
  <2>2. ASSUME NEW p \in Processes, ConfigSet(p) \/ PutRead(p)
        PROVE  SecretInv'
    <3>1. PICK c \in {[Raw EXCEPT !.plain = v] : v \in {"good", "wrong"}} \cup {[Raw EXCEPT !.secret = "literal"]} :
             Holds(p, "truncate", "set", "none", c) \/ Holds(p, "put", "put", "none", c)
      BY <2>2 DEF ConfigSet, PutRead
    <3>2. IsConfig(c) /\ c.secret # "expanded"
      BY <2>0 DEF IsConfig
    <3>3. UNCHANGED config
      BY <2>2 DEF ConfigSet, PutRead
    <3> QED BY <3>1, <3>2, <3>3, HoldsSecret DEF Ops
  <2>3. ASSUME NEW p \in Processes, LoadToSave(p)
        PROVE  SecretInv'
    <3>1. PICK new \in SUBSET ProviderNames :
             Holds(p, "truncate", "save", "none", [load_config(Raw) EXCEPT !.providers = @ \cup new])
      BY <2>3 DEF LoadToSave
    <3>2. IsConfig([load_config(Raw) EXCEPT !.providers = @ \cup new])
      BY <2>0 DEF IsConfig
    <3>3. UNCHANGED config
      BY <2>3 DEF LoadToSave
    <3> QED BY <3>1, <3>2, <3>3, HoldsSecret DEF Ops
  <2>4. ASSUME NEW p \in Processes, ConfigInit(p)
        PROVE  SecretInv'
    BY <2>0, <2>4, HoldsSecret DEF ConfigInit, Ops
  <2>5. ASSUME NEW p \in Processes, CreateKey(p) \/ RevokeKey(p)
        PROVE  SecretInv'
    BY <2>5, HoldsSecret DEF CreateKey, RevokeKey, Ops
  <2>6. ASSUME NEW p \in Processes, Truncate(p)
        PROVE  SecretInv'
    <3>1. Steps(p, "config", [proc[p] EXCEPT !.at = "write"]) /\ proc[p].at = "truncate" /\ UNCHANGED config
      BY <2>6 DEF Truncate
    <3>2. WritesNoSecret(proc[p]) /\ proc[p].op \in Ops["write"]
      BY <2>0, <3>1 DEF SecretInv, CommandTypes, IsCommand, Ops
    <3>3. /\ IsCommand([proc[p] EXCEPT !.at = "write"])
          /\ [proc[p] EXCEPT !.at = "write"].op = proc[p].op /\ [proc[p] EXCEPT !.at = "write"].base = proc[p].base
      BY <2>0, <3>2, GoesOn
    <3>4. WritesNoSecret([proc[p] EXCEPT !.at = "write"])
      BY <3>1, <3>2, <3>3 DEF WritesNoSecret
    <3> QED BY <2>0, <3>1, <3>3, <3>4, SecretStep
  <2>7. ASSUME NEW p \in Processes, WriteConfig(p)
        PROVE  SecretInv'
    <3>1. /\ Steps(p, "config", AtRest) /\ proc[p].at = "write"
          /\ config' = save_config(p) \/ config' = Garbled
      BY <2>7 DEF WriteConfig
    <3>2. IsConfig(proc[p].base) /\ (proc[p].op = "save" \/ proc[p].base.secret # "expanded")
      BY <3>1 DEF SecretInv, WritesNoSecret
    <3>3. IsConfig(save_config(p)) /\ save_config(p).secret # "expanded"
      BY <3>2 DEF save_config, _mask_secrets, IsConfig
    <3>4. IsConfig(Garbled) /\ Garbled.secret # "expanded"
      BY DEF Garbled, Defaults, IsConfig
    <3> QED BY <3>1, <3>3, <3>4, SecretStep, RestIsCommand
  <2>8. ASSUME NEW p \in Processes, PutReplace(p)
        PROVE  SecretInv'
    <3>1. /\ config' = proc[p].base /\ proc[p].at = "put"
          /\ proc' = [q \in Processes |-> IF q = p \/ proc[q].at = "write" THEN AtRest ELSE proc[q]]
      BY <2>8 DEF PutReplace
    <3>2. IsConfig(config') /\ config'.secret # "expanded"
      BY <2>0, <3>1 DEF SecretInv, WritesNoSecret, CommandTypes, IsCommand, Ops
    <3> QED BY <2>0, <3>1, <3>2, RestIsCommand DEF SecretInv, CommandTypes
  <2>9. ASSUME NEW p \in Processes, PutRefused(p)
        PROVE  SecretInv'
    BY <2>0, <2>9, SecretStep, RestIsCommand DEF PutRefused
  <2>10. ASSUME NEW p \in Processes, TruncateKeys(p)
         PROVE  SecretInv'
    <3>1. Steps(p, "keys", [proc[p] EXCEPT !.at = "writeKeys"]) /\ proc[p].at = "truncateKeys" /\ UNCHANGED config
      BY <2>10 DEF TruncateKeys
    <3>2. proc[p].op \in Ops["writeKeys"]
      BY <2>0, <3>1 DEF CommandTypes, IsCommand, Ops
    <3>3. IsCommand([proc[p] EXCEPT !.at = "writeKeys"]) /\ [proc[p] EXCEPT !.at = "writeKeys"].at = "writeKeys"
      BY <2>0, <3>2, GoesOn
    <3>4. WritesNoSecret([proc[p] EXCEPT !.at = "writeKeys"])
      BY <3>3 DEF WritesNoSecret
    <3> QED BY <2>0, <3>1, <3>3, <3>4, SecretStep
  <2>11. ASSUME NEW p \in Processes, _save_api_keys(p) \/ KillProcess(p)
         PROVE  SecretInv'
    <3>1. PICK file \in {"keys", "none"} : Steps(p, file, AtRest)
      BY <2>11 DEF _save_api_keys, KillProcess
    <3>2. IsConfig(config') /\ config'.secret # "expanded"
      BY <2>0, <2>11 DEF _save_api_keys, KillProcess
    <3> QED BY <3>1, <3>2, SecretStep, RestIsCommand
  <2> QED BY <2>1, <2>2, <2>3, <2>4, <2>5, <2>6, <2>7, <2>8, <2>9, <2>10, <2>11 DEF SettingsNext
<1>3. SecretInv => EnvironmentStaysOut
  BY DEF SecretInv, EnvironmentStaysOut
<1> QED BY <1>1, <1>2, <1>3, PTL DEF SettingsSpec

\* The keys of records, and of those that are active.
KeysOfAll(ks)    == {r.key : r \in ks}
KeysOfActive(ks) == {r.key : r \in {x \in ks : x.active}}

\* The records of api_keys.json.
IsKeyFile(ks) == \A r \in ks : DOMAIN r = {"key", "active"} /\ r.active \in BOOLEAN

\* What a command that has read the keys as they still are will write.
HoldsKeys(x) ==
    /\ x.op = "create" => x.arg \notin created /\ x.base = keys \cup {[key |-> x.arg, active |-> TRUE]}
    /\ x.op = "revoke" => x.base = Deactivated(keys, x.arg)

\* The inductive invariant of api_keys.json: until it is clouded it holds what was created.
KeysInv ==
    /\ CommandTypes /\ clouded \in BOOLEAN
    /\ ~clouded =>
         /\ IsKeyFile(keys) /\ revoked \subseteq created
         /\ KeysOfAll(keys) = created /\ KeysOfActive(keys) = created \ revoked
         /\ \A p \in Processes : ~proc[p].stale => HoldsKeys(proc[p])

\* A key is added, and active.
LEMMA CreatedKeys ==
    ASSUME NEW ks, IsKeyFile(ks), NEW k
    PROVE  LET n == ks \cup {[key |-> k, active |-> TRUE]}
           IN  /\ IsKeyFile(n) /\ KeysOfAll(n) = KeysOfAll(ks) \cup {k}
               /\ KeysOfActive(n) = KeysOfActive(ks) \cup {k}
<1> DEFINE x == [key |-> k, active |-> TRUE]
           n == ks \cup {x}
<1>1. DOMAIN x = {"key", "active"} /\ x.key = k /\ x.active = TRUE
  OBVIOUS
<1> HIDE DEF x
<1>2. IsKeyFile(n)
  BY <1>1 DEF IsKeyFile
<1>3. KeysOfAll(n) = KeysOfAll(ks) \cup {k}
  BY <1>1 DEF KeysOfAll
<1>4. KeysOfActive(n) = KeysOfActive(ks) \cup {k}
  <2>1. {y \in n : y.active} = {y \in ks : y.active} \cup {x}
    BY <1>1
  <2> QED BY <1>1, <2>1 DEF KeysOfActive
<1> QED BY <1>2, <1>3, <1>4 DEF x

\* Every record of a name is made inactive, and none is lost.
LEMMA RevokedKeys ==
    ASSUME NEW ks, IsKeyFile(ks), NEW n
    PROVE  /\ IsKeyFile(Deactivated(ks, n)) /\ KeysOfAll(Deactivated(ks, n)) = KeysOfAll(ks)
           /\ KeysOfActive(Deactivated(ks, n)) = {k \in KeysOfActive(ks) : KeyName[k] # n}
<1> DEFINE off(r) == [r EXCEPT !.active = r.active /\ KeyName[r.key] # n]
<1>1. Deactivated(ks, n) = {off(r) : r \in ks}
  BY DEF Deactivated
<1>2. ASSUME NEW r \in ks
      PROVE  /\ DOMAIN off(r) = {"key", "active"} /\ off(r).key = r.key /\ off(r).active \in BOOLEAN
             /\ off(r).active <=> (r.active /\ KeyName[r.key] # n)
  <2> DEFINE b == r.active /\ KeyName[r.key] # n
  <2>1. b \in BOOLEAN /\ DOMAIN r = {"key", "active"}
    BY DEF IsKeyFile
  <2>2. b <=> (r.active /\ KeyName[r.key] # n)
    OBVIOUS
  <2>3. off(r) = [r EXCEPT !.active = b]
    OBVIOUS
  <2> HIDE DEF b, off
  <2>4. DOMAIN off(r) = {"key", "active"} /\ off(r).key = r.key /\ off(r).active = b
    BY <2>1, <2>3
  <2> QED BY <2>1, <2>2, <2>4
<1> HIDE DEF off
<1>3. IsKeyFile(Deactivated(ks, n))
  BY <1>1, <1>2 DEF IsKeyFile
<1>4. KeysOfAll(Deactivated(ks, n)) = KeysOfAll(ks)
  BY <1>1, <1>2 DEF KeysOfAll
<1>5. KeysOfActive(Deactivated(ks, n)) = {k \in KeysOfActive(ks) : KeyName[k] # n}
  <2>1. ASSUME NEW k \in KeysOfActive(Deactivated(ks, n))
        PROVE  k \in KeysOfActive(ks) /\ KeyName[k] # n
    <3>1. PICK x \in Deactivated(ks, n) : x.active /\ k = x.key
      BY DEF KeysOfActive
    <3>2. PICK r \in ks : x = off(r)
      BY <1>1
    <3>3. r.active /\ KeyName[r.key] # n /\ k = r.key
      BY <1>2, <3>1, <3>2
    <3> QED BY <3>3 DEF KeysOfActive
  <2>2. ASSUME NEW k \in KeysOfActive(ks), KeyName[k] # n
        PROVE  k \in KeysOfActive(Deactivated(ks, n))
    <3>1. PICK r \in ks : r.active /\ k = r.key
      BY DEF KeysOfActive
    <3>2. off(r) \in Deactivated(ks, n) /\ off(r).active /\ off(r).key = k
      BY <1>1, <1>2, <2>2, <3>1
    <3> QED BY <3>2 DEF KeysOfActive
  <2> QED BY <2>1, <2>2
<1> QED BY <1>3, <1>4, <1>5

\* A step that leaves the keys and what was said of them alone, by a process whose command then
\* is a new reading, or the one it held.
LEMMA KeysStep ==
    ASSUME KeysInv, NEW p \in Processes, NEW file, NEW rec, Steps(p, file, rec), IsCommand(rec),
           UNCHANGED <<keys, created, revoked>>, clouded' \in BOOLEAN, ~clouded' => ~clouded,
           ~clouded /\ ~rec.stale => HoldsKeys(rec)
    PROVE  KeysInv'
<1>1. CommandTypes
  BY DEF KeysInv
<1>2. /\ CommandTypes' /\ proc'[p] = rec
      /\ \A q \in Processes \ {p} : SameBut(proc'[q], proc[q]) /\ (~proc'[q].stale => ~proc[q].stale)
  BY <1>1, StepsEffect
<1>3. ASSUME ~clouded, NEW q \in Processes, ~proc'[q].stale
      PROVE  HoldsKeys(proc'[q])
  <2>1. CASE q = p
    BY <1>2, <1>3, <2>1
  <2>2. CASE q # p
    <3>1. SameBut(proc'[q], proc[q]) /\ HoldsKeys(proc[q])
      BY <1>2, <1>3, <2>2 DEF KeysInv
    <3> QED BY <3>1 DEF SameBut, HoldsKeys
  <2> QED BY <2>1, <2>2
<1>4. ~clouded' => \A q \in Processes : ~proc'[q].stale => HoldsKeys(proc[q])'
  BY <1>3 DEF HoldsKeys
<1> QED BY <1>2, <1>4 DEF KeysInv

\* A key file is written by a process that read what it replaces.
LEMMA KeysWritten ==
    ASSUME KeysInv, NEW p \in Processes, _save_api_keys(p)
    PROVE  KeysInv'
<1>1. /\ Steps(p, "keys", AtRest) /\ keys' = proc[p].base /\ proc[p].at = "writeKeys"
      /\ created' = (IF proc[p].op = "create" THEN created \cup {proc[p].arg} ELSE created)
      /\ revoked' = (IF proc[p].op = "revoke" THEN revoked \cup {k \in created : KeyName[k] = proc[p].arg} ELSE revoked)
      /\ clouded' = (clouded \/ proc[p].stale)
  BY DEF _save_api_keys
<1>2. CommandTypes /\ proc[p].op \in {"create", "revoke"}
  BY <1>1 DEF KeysInv, CommandTypes, IsCommand, Ops
<1>3. /\ CommandTypes' /\ proc'[p] = AtRest
      /\ \A q \in Processes \ {p} :
           /\ SameBut(proc'[q], proc[q])
           /\ ~proc'[q].stale /\ proc[q].op # "none" => FileOf(proc[q].op) # "keys"
  BY <1>1, <1>2, StepsEffect, RestIsCommand
<1>4. clouded' \in BOOLEAN /\ (~clouded' => ~clouded /\ ~proc[p].stale)
  BY <1>1, <1>2 DEF KeysInv
<1>5. ASSUME ~clouded'
      PROVE  /\ IsKeyFile(keys') /\ revoked' \subseteq created'
             /\ KeysOfAll(keys') = created' /\ KeysOfActive(keys') = created' \ revoked'
  <2>1. /\ IsKeyFile(keys) /\ revoked \subseteq created /\ HoldsKeys(proc[p])
        /\ KeysOfAll(keys) = created /\ KeysOfActive(keys) = created \ revoked
    BY <1>4, <1>5 DEF KeysInv
  <2>2. CASE proc[p].op = "create"
    <3>1. proc[p].arg \notin created /\ keys' = keys \cup {[key |-> proc[p].arg, active |-> TRUE]}
      BY <1>1, <2>1, <2>2 DEF HoldsKeys
    <3>2. /\ IsKeyFile(keys') /\ KeysOfAll(keys') = KeysOfAll(keys) \cup {proc[p].arg}
          /\ KeysOfActive(keys') = KeysOfActive(keys) \cup {proc[p].arg}
      BY <2>1, <3>1, CreatedKeys
    <3>3. created' = created \cup {proc[p].arg} /\ revoked' = revoked
      BY <1>1, <2>2
    <3> QED BY <2>1, <3>1, <3>2, <3>3
  <2>3. CASE proc[p].op = "revoke"
    <3>1. keys' = Deactivated(keys, proc[p].arg)
      BY <1>1, <2>1, <2>3 DEF HoldsKeys
    <3>2. /\ IsKeyFile(keys') /\ KeysOfAll(keys') = KeysOfAll(keys)
          /\ KeysOfActive(keys') = {k \in KeysOfActive(keys) : KeyName[k] # proc[p].arg}
      BY <2>1, <3>1, RevokedKeys
    <3>3. created' = created /\ revoked' = revoked \cup {k \in created : KeyName[k] = proc[p].arg}
      BY <1>1, <2>3
    <3> QED BY <2>1, <3>2, <3>3
  <2> QED BY <1>2, <2>2, <2>3
<1>6. ASSUME NEW q \in Processes, ~proc'[q].stale
      PROVE  HoldsKeys(proc[q])'
  <2>1. proc'[q].op \notin {"create", "revoke"}
    BY <1>3, <1>6, RestIsCommand DEF SameBut, FileOf
  <2> QED BY <2>1 DEF HoldsKeys
<1> QED BY <1>3, <1>4, <1>5, <1>6 DEF KeysInv

\* A command on the other file, and a process that comes to rest, hold no reading of the keys.
LEMMA HoldsNoKeys ==
    ASSUME NEW x, x.op \notin {"create", "revoke"}
    PROVE  HoldsKeys(x)
BY DEF HoldsKeys

\* A command that has read the keys holds what it is to write.
LEMMA HoldsBegins ==
    ASSUME KeysInv, NEW p \in Processes, NEW at, NEW op, NEW arg, NEW base, Holds(p, at, op, arg, base),
           at \in {"truncate", "put", "truncateKeys"}, op \in Ops[at],
           UNCHANGED <<keys, created, revoked, clouded>>,
           op = "create" => arg \notin created /\ base = keys \cup {[key |-> arg, active |-> TRUE]},
           op = "revoke" => base = Deactivated(keys, arg)
    PROVE  KeysInv'
<1> DEFINE rec == [at |-> at, op |-> op, arg |-> arg, base |-> base, stale |-> FALSE]
<1>1. Steps(p, "none", rec)
  BY DEF Holds
<1>2. IsCommand(rec) /\ HoldsKeys(rec)
  BY DEF IsCommand, HoldsKeys
<1> HIDE DEF rec
<1>3. clouded' \in BOOLEAN /\ (~clouded' => ~clouded)
  BY DEF KeysInv
<1> QED BY <1>1, <1>2, <1>3, KeysStep

\* For any processes, keys and labels, in any order and wherever a process is killed: while
\* every writer of api_keys.json had read what it replaced, each key that was created is in the
\* file, and active until a revoke-key names it.
THEOREM KeysAreKept == SettingsSpec => []KeysKept
<1>1. SettingsInit => KeysInv
  BY RestIsCommand, HoldsNoKeys
    DEF SettingsInit, KeysInv, CommandTypes, IsKeyFile, KeysOfAll, KeysOfActive, AtRest, HoldsKeys
<1>2. KeysInv /\ [SettingsNext]_settingVars => KeysInv'
  <2> SUFFICES ASSUME KeysInv, [SettingsNext]_settingVars
               PROVE  KeysInv'
    OBVIOUS
  <2>0. CommandTypes /\ clouded \in BOOLEAN
    BY DEF KeysInv
  <2>1. CASE UNCHANGED settingVars
    BY <2>1 DEF settingVars, KeysInv, CommandTypes, HoldsKeys
  <2>2. ASSUME NEW p \in Processes, ConfigSet(p) \/ PutRead(p) \/ LoadToSave(p) \/ ConfigInit(p)
        PROVE  KeysInv'
    <3>1. UNCHANGED <<keys, created, revoked, clouded>>
      BY <2>2 DEF ConfigSet, PutRead, LoadToSave, ConfigInit
    <3>2. PICK at \in {"truncate", "put"}, op \in {"set", "save", "init", "put"} :
             op \in Ops[at] /\ \E arg, base : Holds(p, at, op, arg, base)
      BY <2>2 DEF ConfigSet, PutRead, LoadToSave, ConfigInit, Ops
    <3> QED BY <3>1, <3>2, HoldsBegins
  <2>3. ASSUME NEW p \in Processes, Truncate(p) \/ TruncateKeys(p)
        PROVE  KeysInv'
    <3>1. PICK file \in {"config", "keys"}, to \in {"write", "writeKeys"} :
             Steps(p, file, [proc[p] EXCEPT !.at = to]) /\ proc[p].op \in Ops[to]
      BY <2>0, <2>3 DEF Truncate, TruncateKeys, CommandTypes, IsCommand, Ops
    <3>2. /\ UNCHANGED <<keys, created, revoked>> /\ clouded' \in BOOLEAN /\ (~clouded' => ~clouded)
      BY <2>0, <2>3 DEF Truncate, TruncateKeys
    <3> DEFINE rec == [proc[p] EXCEPT !.at = to]
    <3>3. IsCommand(rec) /\ rec.op = proc[p].op /\ rec.arg = proc[p].arg /\ rec.base = proc[p].base
          /\ rec.stale = proc[p].stale
      BY <2>0, <3>1, GoesOn
    <3>4. Steps(p, file, rec)
      BY <3>1
    <3> HIDE DEF rec
    <3>5. ~clouded /\ ~rec.stale => HoldsKeys(rec)
      BY <3>3 DEF KeysInv, HoldsKeys
    <3> QED BY <3>2, <3>3, <3>4, <3>5, KeysStep
  <2>4. ASSUME NEW p \in Processes, WriteConfig(p) \/ PutRefused(p) \/ KillProcess(p)
        PROVE  KeysInv'
    <3>1. PICK file \in {"config", "none"} : Steps(p, file, AtRest)
      BY <2>4 DEF WriteConfig, PutRefused, KillProcess
    <3>2. /\ UNCHANGED <<keys, created, revoked>> /\ clouded' \in BOOLEAN /\ (~clouded' => ~clouded)
      BY <2>0, <2>4 DEF WriteConfig, PutRefused, KillProcess
    <3>3. HoldsKeys(AtRest)
      BY RestIsCommand, HoldsNoKeys
    <3> QED BY <3>1, <3>2, <3>3, RestIsCommand, KeysStep
  <2>5. ASSUME NEW p \in Processes, PutReplace(p)
        PROVE  KeysInv'
    <3>1. /\ proc' = [q \in Processes |-> IF q = p \/ proc[q].at = "write" THEN AtRest ELSE proc[q]]
          /\ UNCHANGED <<keys, created, revoked, clouded>>
      BY <2>5 DEF PutReplace
    <3>2. \A q \in Processes : proc'[q] = AtRest \/ proc'[q] = proc[q]
      BY <3>1
    <3>3. CommandTypes'
      BY <2>0, <3>1, <3>2, RestIsCommand DEF CommandTypes
    <3>4. ~clouded => \A q \in Processes : ~proc'[q].stale => HoldsKeys(proc'[q])
      BY <3>2, RestIsCommand, HoldsNoKeys DEF KeysInv
    <3> QED BY <3>1, <3>3, <3>4 DEF KeysInv, HoldsKeys
  <2>6. ASSUME NEW p \in Processes, CreateKey(p)
        PROVE  KeysInv'
    <3>1. PICK k \in ApiKeys : k \notin created
             /\ Holds(p, "truncateKeys", "create", k, keys \cup {[key |-> k, active |-> TRUE]})
      BY <2>6 DEF CreateKey
    <3>2. UNCHANGED <<keys, created, revoked, clouded>>
      BY <2>6 DEF CreateKey
    <3> QED BY <3>1, <3>2, HoldsBegins DEF Ops
  <2>7. ASSUME NEW p \in Processes, RevokeKey(p)
        PROVE  KeysInv'
    <3>1. PICK n \in {KeyName[k] : k \in ApiKeys} : Holds(p, "truncateKeys", "revoke", n, Deactivated(keys, n))
      BY <2>7 DEF RevokeKey
    <3>2. UNCHANGED <<keys, created, revoked, clouded>>
      BY <2>7 DEF RevokeKey
    <3> QED BY <3>1, <3>2, HoldsBegins DEF Ops
  <2> QED BY <2>1, <2>2, <2>3, <2>4, <2>5, <2>6, <2>7, KeysWritten DEF SettingsNext
<1>3. KeysInv => KeysKept
  BY DEF KeysInv, KeysKept, KeysOfAll, KeysOfActive
<1> QED BY <1>1, <1>2, <1>3, PTL DEF SettingsSpec
=============================================================================
