---------------------------- MODULE ServerProofs ----------------------------
(***************************************************************************)
(* What the server's caches, its WebSocket connections, the federated      *)
(* search, the extraction of entities and recall keep, for any clients,    *)
(* tenants, providers, conversations, memories and bounds.  The components *)
(* share no state.                                                         *)
(***************************************************************************)
EXTENDS ServerCache, Events, Providers, Extraction, Recall, FiniteSetTheorems, TLAPS

-----------------------------------------------------------------------------
(* The federated search.                                                   *)

Stages == {"none", "start", "open", "initialize", "call", "empty", "failed", "returned", "timedout"}
Conns  == [by : Questions \cup {NoQuestion}, state : {"none", "half", "ready"}]

\* A half made session belongs to a question that is initialising it or was cancelled.
Opener(p) ==
    conn[p].state = "half" =>
        /\ Kind[p] = "mcp" /\ conn[p].by \in Questions
        /\ search[conn[p].by][p] \in {"initialize", "timedout"}

\* The inductive invariant of the federated search.
ProvidersInv ==
    /\ question \in [Questions -> {"new", "searching", "answered"}]
    /\ search \in [Questions -> [Providers -> Stages]]
    /\ conn \in [Providers -> Conns]
    /\ \A q \in Questions : question[q] = "new" => \A p \in Providers : search[q][p] = "none"
    /\ \A p \in Providers : Opener(p)

\* A search that is under way belongs to a question that has been put; its next stage is recorded.
LEMMA MovesKeeps ==
    ASSUME ProvidersInv, NEW q \in Questions, NEW p \in Providers, NEW stage \in Stages,
           Moves(q, p, stage), search[q][p] # "none", UNCHANGED question
    PROVE  /\ search' \in [Questions -> [Providers -> Stages]]
           /\ \A r \in Questions : question'[r] = "new" => \A o \in Providers : search'[r][o] = "none"
           /\ search'[q][p] = stage
           /\ \A r \in Questions, o \in Providers : r # q \/ o # p => search'[r][o] = search[r][o]
<1>1. search' \in [Questions -> [Providers -> Stages]]
  BY DEF ProvidersInv, Moves
<1>2. search'[q][p] = stage
  BY DEF ProvidersInv, Moves
<1>3. \A r \in Questions, o \in Providers : r # q \/ o # p => search'[r][o] = search[r][o]
  BY DEF ProvidersInv, Moves
<1>4. ASSUME NEW r \in Questions, question'[r] = "new", NEW o \in Providers
      PROVE  search'[r][o] = "none"
  <2>1. r # q /\ search[r][o] = "none"
    BY <1>4 DEF ProvidersInv
  <2> QED BY <2>1, <1>3
<1> QED BY <1>1, <1>2, <1>3, <1>4

\* Another provider's session is as it was.
LEMMA OpenerElsewhere ==
    ASSUME ProvidersInv, NEW q \in Questions, NEW p \in Providers,
           NEW o \in Providers, o # p, conn'[o] = conn[o],
           \A r \in Questions, x \in Providers : r # q \/ x # p => search'[r][x] = search[r][x]
    PROVE  Opener(o)'
<1>1. Opener(o)
  BY DEF ProvidersInv
<1>2. ASSUME conn[o].state = "half" 
      PROVE  search'[conn[o].by][o] = search[conn[o].by][o]
  BY <1>1, <1>2 DEF Opener
<1> QED BY <1>1, <1>2 DEF Opener

\* A search that leaves a stage other than "initialize" was not making the session it finds.
LEMMA StageKeeps ==
    ASSUME ProvidersInv, NEW q \in Questions, NEW p \in Providers, NEW stage \in Stages,
           Moves(q, p, stage), search[q][p] \notin {"none", "timedout"},
           search[q][p] # "initialize" \/ stage = "timedout",
           UNCHANGED <<question, conn>>
    PROVE  ProvidersInv'
<1>1. \A r \in Questions, o \in Providers : r # q \/ o # p => search'[r][o] = search[r][o]
  BY MovesKeeps
<1>2. search'[q][p] = stage
  BY MovesKeeps
<1>3. Opener(p)'
  <2>1. Opener(p)
    BY DEF ProvidersInv
  <2>2. CASE conn[p].state = "half" /\ conn[p].by = q
    BY <2>1, <2>2, <1>2 DEF Opener
  <2>3. CASE conn[p].state = "half" /\ conn[p].by # q
    BY <2>1, <2>3, <1>1 DEF Opener
  <2>4. CASE conn[p].state # "half"
    BY <2>4 DEF Opener
  <2> QED BY <2>2, <2>3, <2>4
<1>4. \A o \in Providers : Opener(o)'
  BY <1>1, <1>3, OpenerElsewhere
<1>5. /\ search' \in [Questions -> [Providers -> Stages]]
      /\ \A r \in Questions : question'[r] = "new" => \A o \in Providers : search'[r][o] = "none"
  BY MovesKeeps
<1> QED BY <1>4, <1>5 DEF ProvidersInv

\* A search that changes its provider's session, to one that is not half made or is its own.
LEMMA SessionKeeps ==
    ASSUME ProvidersInv, NEW q \in Questions, NEW p \in Providers, NEW stage \in Stages,
           Moves(q, p, stage), search[q][p] # "none", UNCHANGED question,
           NEW c \in Conns, conn' = [conn EXCEPT ![p] = c],
           c.state = "half" => c = HalfMade(q) /\ stage = "initialize" /\ Kind[p] = "mcp"
    PROVE  ProvidersInv'
<1>1. \A r \in Questions, o \in Providers : r # q \/ o # p => search'[r][o] = search[r][o]
  BY MovesKeeps
<1>2. conn' \in [Providers -> Conns] /\ conn'[p] = c /\ \A o \in Providers : o # p => conn'[o] = conn[o]
  BY DEF ProvidersInv
<1>3. search'[q][p] = stage
  BY MovesKeeps
<1>4. Opener(p)'
  BY <1>2, <1>3 DEF Opener, HalfMade
<1>5. \A o \in Providers : Opener(o)'
  BY <1>1, <1>2, <1>4, OpenerElsewhere
<1>6. /\ search' \in [Questions -> [Providers -> Stages]]
      /\ \A r \in Questions : question'[r] = "new" => \A o \in Providers : search'[r][o] = "none"
  BY MovesKeeps
<1> QED BY <1>2, <1>5, <1>6 DEF ProvidersInv

\* The connections a search makes.
LEMMA ConnsMade ==
    ASSUME NEW q \in Questions
    PROVE  NoConn \in Conns /\ Usable(q) \in Conns /\ HalfMade(q) \in Conns /\ Usable(q).state = "ready"
           /\ NoConn.state = "none"
BY DEF NoConn, Usable, HalfMade, Conns

\* The opening of a session, its failure, and its initialisation.
LEMMA OpeningKeeps ==
    ASSUME ProvidersInv, ProviderAssumption, NEW q \in Questions, NEW p \in Providers,
           OpenFails(q, p) \/ Opened(q, p) \/ Initialized(q, p)
    PROVE  ProvidersInv'
<1>1. CASE OpenFails(q, p)
  <2>1. Moves(q, p, "failed") /\ UNCHANGED question /\ search[q][p] \in {"open", "initialize"}
    BY <1>1 DEF OpenFails, SearchFailed
  <2>2. CASE Kind[p] = "mcp"
    <3>1. conn' = [conn EXCEPT ![p] = NoConn]
      BY <1>1, <2>2 DEF OpenFails, Cleaned
    <3> QED BY <3>1, <2>1, ConnsMade, SessionKeeps DEF Stages
  <2>3. CASE Kind[p] # "mcp"
    <3>1. conn' = [conn EXCEPT ![p] = conn[p]]
      BY <1>1, <2>3 DEF OpenFails, Cleaned, ProvidersInv
    <3>2. conn[p] \in Conns /\ conn[p].state # "half"
      BY <2>3 DEF ProvidersInv, Opener
    <3> QED BY <3>1, <3>2, <2>1, SessionKeeps DEF Stages
  <2> QED BY <2>2, <2>3
<1>2. CASE Opened(q, p)
  <2>1. CASE Kind[p] = "mcp"
    BY <1>2, <2>1, ConnsMade, SessionKeeps DEF Opened, Stages
  <2>2. CASE Kind[p] # "mcp"
    BY <1>2, <2>2, ConnsMade, SessionKeeps DEF Opened, Stages
  <2> QED BY <2>1, <2>2
<1>3. CASE Initialized(q, p)
  <2>1. Moves(q, p, "call") /\ UNCHANGED question /\ search[q][p] = "initialize"
    BY <1>3 DEF Initialized
  <2>2. CASE conn[p] = HalfMade(q)
    BY <1>3, <2>1, <2>2, ConnsMade, SessionKeeps DEF Initialized, Stages
  <2>3. CASE conn[p] # HalfMade(q)
    <3>1. UNCHANGED conn
      BY <1>3, <2>3 DEF Initialized
    <3>2. conn[p] \in Conns
      BY DEF ProvidersInv
    <3>3. ~(conn[p].state = "half" /\ conn[p].by = q)
      BY <3>2, <2>3 DEF HalfMade, Conns
    <3>4. \A r \in Questions, o \in Providers : r # q \/ o # p => search'[r][o] = search[r][o]
      BY <2>1, MovesKeeps DEF Stages
    <3>5. Opener(p)'
      BY <3>1, <3>3, <3>4 DEF ProvidersInv, Opener
    <3>6. \A o \in Providers : Opener(o)'
      BY <3>1, <3>4, <3>5, OpenerElsewhere
    <3>7. /\ search' \in [Questions -> [Providers -> Stages]]
          /\ \A r \in Questions : question'[r] = "new" => \A o \in Providers : search'[r][o] = "none"
      BY <2>1, MovesKeeps DEF Stages
    <3> QED BY <3>1, <3>6, <3>7, <2>1 DEF ProvidersInv
  <2> QED BY <2>2, <2>3
<1> QED BY <1>1, <1>2, <1>3

\* The other steps of a search.
LEMMA SearchKeeps ==
    ASSUME ProvidersInv, NEW q \in Questions, NEW p \in Providers,
           Begin(q, p) \/ CallFails(q, p) \/ Returns(q, p) \/ TimesOut(q, p)
    PROVE  ProvidersInv'
<1>1. CASE Begin(q, p)
  <2>1. PICK stage \in Stages : Moves(q, p, stage)
    BY <1>1 DEF Begin, Stages
  <2> QED BY <1>1, <2>1, StageKeeps DEF Begin
<1>2. CASE CallFails(q, p)
  BY <1>2, StageKeeps DEF CallFails, SearchFailed, Stages
<1>3. CASE Returns(q, p)
  BY <1>3, StageKeeps DEF Returns, Stages
<1>4. CASE TimesOut(q, p)
  BY <1>4, StageKeeps DEF TimesOut, Stages
<1> QED BY <1>1, <1>2, <1>3, <1>4

\* A question is put, or answered; a token ends.
LEMMA QuestionKeeps ==
    ASSUME ProvidersInv, ProviderAssumption,
           \/ \E q \in Questions : ClassifiedInternal(q) \/ FanOut(q) \/ Merge(q)
           \/ \E p \in Providers : ExpireToken(p)
    PROVE  ProvidersInv'
<1>1. ASSUME NEW q \in Questions, ClassifiedInternal(q) \/ Merge(q)
      PROVE  ProvidersInv'
  <2>1. question' = [question EXCEPT ![q] = "answered"] /\ UNCHANGED <<search, conn>>
    BY <1>1 DEF ClassifiedInternal, Merge
  <2>2. \A o \in Providers : Opener(o)'
    BY <2>1 DEF ProvidersInv, Opener
  <2>3. /\ question' \in [Questions -> {"new", "searching", "answered"}]
        /\ \A r \in Questions : question'[r] = "new" => question[r] = "new"
    BY <2>1 DEF ProvidersInv
  <2> QED BY <2>1, <2>2, <2>3 DEF ProvidersInv
<1>2. ASSUME NEW q \in Questions, FanOut(q)
      PROVE  ProvidersInv'
  <2>1. search' \in [Questions -> [Providers -> Stages]] /\ question' \in [Questions -> {"new", "searching", "answered"}]
    BY <1>2 DEF FanOut, ProvidersInv, Stages
  <2>2. \A r \in Questions : r # q => search'[r] = search[r]
    BY <1>2 DEF FanOut, ProvidersInv
  <2>3. \A r \in Questions : question'[r] = "new" => \A o \in Providers : search'[r][o] = "none"
    BY <1>2, <2>2 DEF FanOut, ProvidersInv
  <2>4. ASSUME NEW p \in Providers PROVE Opener(p)'
    <3>1. Opener(p) /\ search[q][p] = "none" /\ conn' = conn
      BY <1>2 DEF FanOut, ProvidersInv
    <3> QED BY <3>1, <2>2 DEF Opener
  <2> QED BY <2>1, <2>3, <2>4, <1>2 DEF FanOut, ProvidersInv
<1>3. ASSUME NEW p \in Providers, ExpireToken(p)
      PROVE  ProvidersInv'
  <2>1. conn' = [conn EXCEPT ![p] = NoConn] /\ UNCHANGED <<question, search>>
    BY <1>3 DEF ExpireToken
  <2>2. conn' \in [Providers -> Conns] /\ conn'[p].state # "half" /\ \A o \in Providers : o # p => conn'[o] = conn[o]
    BY <2>1 DEF ProvidersInv, NoConn, Conns
  <2>3. \A o \in Providers : Opener(o)'
    BY <2>1, <2>2 DEF ProvidersInv, Opener
  <2> QED BY <2>1, <2>2, <2>3 DEF ProvidersInv
<1> QED BY <1>1, <1>2, <1>3

\* A session that is kept and not initialised is being initialised, or its question was cancelled:
\* no other way out of _ensure_connected leaves it behind (mcp_adapter.py:57).
THEOREM HalfMadeIsAccounted == ProvidersSpec => []HalfMadeHasOpener
<1>1. ProvidersInit => ProvidersInv
  <2>1. ASSUME ProvidersInit PROVE conn \in [Providers -> Conns] /\ \A p \in Providers : conn[p].state # "half"
    BY <2>1 DEF ProvidersInit, NoConn, Usable, Conns
  <2> QED BY <2>1 DEF ProvidersInit, ProvidersInv, Stages, Opener
<1>2. ProvidersInv /\ [ProvidersNext]_providerVars => ProvidersInv'
  <2>1. ASSUME ProvidersInv, ProvidersNext PROVE ProvidersInv'
    BY <2>1, ProviderAssumption, OpeningKeeps, SearchKeeps, QuestionKeeps DEF ProvidersNext
  <2>2. ASSUME ProvidersInv, UNCHANGED providerVars PROVE ProvidersInv'
    BY <2>2 DEF ProvidersInv, providerVars, Opener
  <2> QED BY <2>1, <2>2
<1>3. ProvidersInv => HalfMadeHasOpener
  BY DEF ProvidersInv, HalfMadeHasOpener, Opener
<1> QED BY <1>1, <1>2, <1>3, PTL DEF ProvidersSpec

-----------------------------------------------------------------------------
(* WebSocket connections.                                                  *)

Places == {"away", "accepted", "receive", "dispatch", "send", "reply", "done"}

\* Of the same tenant and another subject.
Peer(k, j) == tenant_id(j) = tenant_id(k) /\ sub(j) # sub(k)

\* A listener of a command was open and is, and the broadcast will reach it, or has, once.
Listens(k, j) ==
    /\ j # k /\ Serving(j) /\ link[j] = "up" /\ Peer(k, j)
    /\ at[k] = "send" => j \in left[k] \/ heard[k][j] = 1
    /\ at[k] = "reply" => heard[k][j] = 1

\* Only peers hear, once; who is still to be sent to has not heard, and before the broadcast nobody has.
HearsOnce(k, j) ==
    /\ heard[k][j] \in {0, 1} /\ (heard[k][j] = 1 => Peer(k, j))
    /\ j \in left[k] => heard[k][j] = 0 /\ Peer(k, j)
    /\ at[k] = "dispatch" => heard[k][j] = 0

\* What connections, commands and broadcasts look like.
EventTypes ==
    /\ at \in [Connections -> Places] /\ link \in [Connections -> {"none", "up", "down"}]
    /\ heard \in [Connections -> [Connections -> Nat]]
    /\ left \in [Connections -> SUBSET Connections] /\ steady \in [Connections -> SUBSET Connections]

\* Who hears is decided by the registry, which is who is being served; only a broadcast has
\* targets left.
EventsInv ==
    /\ EventTypes
    /\ registry = {k \in Connections : Serving(k)}
    /\ \A k \in Connections : at[k] # "send" => left[k] = {}
    /\ \A k \in Connections : \A j \in steady[k] : Listens(k, j)
    /\ \A k, j \in Connections : HearsOnce(k, j)
\* Who is a peer of whom never changes.
LEMMA PeersStay ==
    ASSUME NEW k, NEW j
    PROVE  Peer(k, j)' <=> Peer(k, j)
BY DEF Peer, tenant_id, sub

\* The rows of a connection that neither sends nor is served another way stay in order.
LEMMA RowKept ==
    ASSUME EventsInv, NEW m \in Connections,
           at'[m] = at[m], left'[m] = left[m], heard'[m] = heard[m], steady'[m] \subseteq steady[m],
           \A j \in steady'[m] : Serving(j)' /\ link'[j] = "up"
    PROVE  /\ at'[m] # "send" => left'[m] = {}
           /\ \A j \in steady'[m] : Listens(m, j)'
           /\ \A j \in Connections : HearsOnce(m, j)'
<1>1. at'[m] # "send" => left'[m] = {}
  BY DEF EventsInv, EventTypes
<1>2. ASSUME NEW j \in steady'[m] PROVE Listens(m, j)'
  <2>1. Listens(m, j)
    BY DEF EventsInv, EventTypes
  <2>2. Serving(j)' /\ link'[j] = "up"
    OBVIOUS
  <2> QED BY <2>1, <2>2, PeersStay DEF Listens
<1>3. ASSUME NEW j \in Connections PROVE HearsOnce(m, j)'
  <2>1. HearsOnce(m, j)
    BY DEF EventsInv, EventTypes
  <2> QED BY <2>1, PeersStay DEF HearsOnce
<1> QED BY <1>1, <1>2, <1>3

\* A step of one connection moves it and changes its own rows only, and who listens to another
\* goes on being served.
LEMMA StepOfOne ==
    ASSUME EventsInv, NEW k \in Connections, NEW place \in Places, Goes(k, place),
           \A m \in Connections : m # k =>
               left'[m] = left[m] /\ heard'[m] = heard[m] /\ steady'[m] = steady[m],
           \A j \in Connections : link[j] = "up" => link'[j] = "up",
           place \in {"away", "accepted", "done"} => ~Serving(k) \/ link[k] # "up",
           EventTypes',
           registry' = {m \in Connections : Serving(m)'},
           place # "send" => left'[k] = {},
           \A j \in steady'[k] : Listens(k, j)',
           \A j \in Connections : HearsOnce(k, j)'
    PROVE  EventsInv'
<1>1. at'[k] = place /\ \A m \in Connections : m # k => at'[m] = at[m]
  BY DEF Goes, EventsInv, EventTypes
<1>2. ASSUME NEW m \in Connections, m # k
      PROVE  /\ at'[m] # "send" => left'[m] = {}
             /\ \A j \in steady'[m] : Listens(m, j)'
             /\ \A j \in Connections : HearsOnce(m, j)'
  <2>1. \A j \in steady'[m] : Serving(j)' /\ link'[j] = "up"
    <3>1. TAKE j \in steady'[m]
    <3>2. j \in steady[m] /\ j \in Connections
      BY <1>2 DEF EventsInv, EventTypes
    <3>3. Serving(j) /\ link[j] = "up"
      BY <3>2 DEF EventsInv, EventTypes, Listens
    <3>4. link'[j] = "up"
      BY <3>2, <3>3
    <3>5. CASE j = k
      BY <3>3, <3>5, <1>1 DEF Serving
    <3>6. CASE j # k
      BY <3>2, <3>3, <3>6, <1>1 DEF Serving
    <3> QED BY <3>4, <3>5, <3>6
  <2> QED BY <2>1, <1>1, <1>2, RowKept
<1>3. /\ \A m \in Connections : at'[m] # "send" => left'[m] = {}
      /\ \A m \in Connections : \A j \in steady'[m] : Listens(m, j)'
      /\ \A m, j \in Connections : HearsOnce(m, j)'
  BY <1>1, <1>2
<1> QED BY <1>3 DEF EventsInv, EventTypes

\* The registry follows a connection that is served as before, or no longer or not yet.
LEMMA RegistryKept ==
    ASSUME EventsInv, NEW k \in Connections, NEW place \in Places, Goes(k, place)
    PROVE  {m \in Connections : Serving(m)'} =
              IF place \in {"away", "accepted", "done"} THEN registry \ {k} ELSE registry \cup {k}
BY DEF EventsInv, EventTypes, Goes, Serving

\* A connection comes, is turned away, or is taken up.
LEMMA ComingKeeps ==
    ASSUME EventsInv, NEW k \in Connections, Refuse(k) \/ Accept(k) \/ Register(k)
    PROVE  EventsInv'
<1>1. PICK place \in {"done", "accepted", "receive"} : Goes(k, place)
  BY DEF Refuse, Accept, Register
<1>2. UNCHANGED <<left, heard, steady>> /\ ~Serving(k)
  BY DEF Refuse, Accept, Register, Serving
<1>3. \A j \in Connections : link[j] = "up" => link'[j] = "up"
  BY DEF Refuse, Accept, Register, EventsInv, EventTypes
<1>4. EventTypes'
  BY <1>1, <1>2 DEF Refuse, Accept, Register, EventsInv, EventTypes, Goes, Places
<1>5. registry' = {m \in Connections : Serving(m)'}
  <2>1. CASE Refuse(k) \/ Accept(k)
    BY <2>1 DEF Refuse, Accept, EventsInv, EventTypes, Goes, Serving
  <2>2. CASE Register(k)
    BY <2>2 DEF Register, EventsInv, EventTypes, Goes, Serving
  <2> QED BY <2>1, <2>2
<1>6. at[k] \notin {"send", "dispatch"} /\ left[k] = {}
  BY DEF Refuse, Accept, Register, EventsInv, EventTypes
<1>7. at'[k] = place /\ place \notin {"send", "reply", "dispatch"}
  BY <1>1 DEF Goes, EventsInv, EventTypes
<1>8. \A j \in steady'[k] : Listens(k, j)'
  <2>1. TAKE j \in steady'[k]
  <2>2. Listens(k, j) /\ j \in Connections
    BY <1>2 DEF EventsInv, EventTypes
  <2>3. j # k /\ Serving(j)' /\ link'[j] = "up"
    BY <2>2, <1>1, <1>3 DEF Listens, Goes, EventsInv, EventTypes, Serving
  <2> QED BY <2>2, <2>3, <1>7, PeersStay DEF Listens
<1>9. \A j \in Connections : HearsOnce(k, j)'
  <2>1. TAKE j \in Connections
  <2>2. HearsOnce(k, j)
    BY DEF EventsInv, EventTypes
  <2> QED BY <2>2, <1>2, <1>7, PeersStay DEF HearsOnce
<1> QED BY <1>1, <1>2, <1>3, <1>4, <1>5, <1>6, <1>8, <1>9, StepOfOne DEF Places

\* A client leaves: nobody counts on it.
LEMMA LeavingKeeps ==
    ASSUME EventsInv, NEW k \in Connections, Leave(k)
    PROVE  EventsInv'
<1>1. UNCHANGED <<at, registry, left, heard>>
  BY DEF Leave
<1>2. \A m \in Connections : steady'[m] = steady[m] \ {k}
  BY DEF Leave
<1>3. \A j \in Connections : j # k => link'[j] = link[j]
  BY DEF Leave, EventsInv, EventTypes
<1>4. ASSUME NEW m \in Connections
      PROVE  /\ at'[m] # "send" => left'[m] = {}
             /\ \A j \in steady'[m] : Listens(m, j)'
             /\ \A j \in Connections : HearsOnce(m, j)'
  <2>1. \A j \in steady'[m] : Serving(j)' /\ link'[j] = "up"
    BY <1>1, <1>2, <1>3 DEF EventsInv, EventTypes, Listens, Serving
  <2> QED BY <2>1, <1>1, <1>2, RowKept
<1>5. /\ link' \in [Connections -> {"none", "up", "down"}] /\ steady' \in [Connections -> SUBSET Connections]
  BY DEF Leave, EventsInv, EventTypes
<1>6. registry' = {m \in Connections : Serving(m)'}
  BY <1>1 DEF EventsInv, EventTypes, Serving
<1> QED BY <1>1, <1>4, <1>5, <1>6 DEF EventsInv, EventTypes

\* A command is taken up: whoever may listen is being served, and has not heard of it.
LEMMA CommandKeeps ==
    ASSUME EventsInv, NEW k \in Connections, Command(k)
    PROVE  EventsInv'
<1>1. Goes(k, "dispatch") /\ UNCHANGED <<link, registry, left>> /\ at[k] = "receive"
  BY DEF Command
<1>2. /\ heard'[k] = [j \in Connections |-> 0] /\ steady'[k] = Audience(k)
      /\ \A m \in Connections : m # k => heard'[m] = heard[m] /\ steady'[m] = steady[m]
  BY DEF Command, EventsInv, EventTypes
<1>3. EventTypes'
  <2>1. Audience(k) \in SUBSET Connections
    BY DEF Audience
  <2>2. steady' \in [Connections -> SUBSET Connections]
    BY <2>1 DEF Command, EventsInv, EventTypes
  <2>3. heard' \in [Connections -> [Connections -> Nat]]
    BY DEF Command, EventsInv, EventTypes
  <2>4. at' \in [Connections -> Places]
    BY <1>1 DEF Goes, Places, EventsInv, EventTypes
  <2> QED BY <1>1, <2>2, <2>3, <2>4 DEF EventsInv, EventTypes
<1>4. registry' = {m \in Connections : Serving(m)'}
  BY <1>1 DEF EventsInv, EventTypes, Goes, Serving
<1>5. left[k] = {} /\ at'[k] = "dispatch"
  BY <1>1 DEF EventsInv, EventTypes, Goes
<1>6. \A j \in steady'[k] : Listens(k, j)'
  <2>1. TAKE j \in steady'[k]
  <2>2. j \in Connections /\ j # k /\ Serving(j) /\ link[j] = "up" /\ Peer(k, j)
    BY <1>2 DEF Audience, Peer
  <2>3. Serving(j)'
    BY <2>2, <1>1 DEF Serving, Goes, EventsInv, EventTypes
  <2> QED BY <2>2, <2>3, <1>1, <1>5, PeersStay DEF Listens
<1>7. \A j \in Connections : HearsOnce(k, j)'
  BY <1>1, <1>2, <1>5 DEF HearsOnce
<1>8. "dispatch" \in Places /\ "dispatch" \notin {"away", "accepted", "done"}
  BY DEF Places
<1> QED BY <1>1, <1>2, <1>3, <1>4, <1>5, <1>6, <1>7, <1>8, StepOfOne

\* The targets are those who are registered: all who listen are among them.
LEMMA EmitKeeps ==
    ASSUME EventsInv, NEW k \in Connections, Emit(k)
    PROVE  EventsInv'
<1>1. Goes(k, "send") /\ UNCHANGED <<link, registry, heard, steady>> /\ at[k] = "dispatch"
  BY DEF Emit
<1>2. /\ left'[k] = {j \in registry : Peer(k, j)}
      /\ \A m \in Connections : m # k => left'[m] = left[m]
      /\ left' \in [Connections -> SUBSET Connections]
  BY DEF Emit, EventsInv, EventTypes, Peer
<1>3. EventTypes'
  BY <1>1, <1>2 DEF Goes, Places, EventsInv, EventTypes
<1>4. registry' = {m \in Connections : Serving(m)'}
  BY <1>1 DEF EventsInv, EventTypes, Goes, Serving
<1>5. at'[k] = "send"
  BY <1>1 DEF EventsInv, EventTypes, Goes
<1>6. \A j \in steady'[k] : Listens(k, j)'
  <2>1. TAKE j \in steady'[k]
  <2>2. Listens(k, j) /\ j \in Connections
    BY <1>1 DEF EventsInv, EventTypes
  <2>3. j \in left'[k]
    BY <2>2, <1>2 DEF EventsInv, EventTypes, Listens
  <2>4. Serving(j)'
    BY <2>2, <1>1 DEF Serving, Goes, EventsInv, EventTypes, Listens
  <2> QED BY <2>2, <2>3, <2>4, <1>1, <1>5, PeersStay DEF Listens
<1>7. \A j \in Connections : HearsOnce(k, j)'
  <2>1. TAKE j \in Connections
  <2>2. HearsOnce(k, j)
    BY DEF EventsInv, EventTypes
  <2> QED BY <2>2, <1>1, <1>2, <1>5, PeersStay DEF HearsOnce
<1>8. "send" \in Places /\ "send" \notin {"away", "accepted", "done"}
  BY DEF Places
<1> QED BY <1>1, <1>2, <1>3, <1>4, <1>6, <1>7, <1>8, StepOfOne

\* One send: the target has not heard, and is a peer.
LEMMA SendKeeps ==
    ASSUME EventsInv, NEW k \in Connections, Send(k)
    PROVE  EventsInv'
<1>1. UNCHANGED <<at, link, registry, steady>> /\ at[k] = "send"
  BY DEF Send
<1>2. PICK t \in left[k] :
        /\ left' = [left EXCEPT ![k] = @ \ {t}]
        /\ heard' = IF link[t] = "up" THEN [heard EXCEPT ![k][t] = @ + 1] ELSE heard
  BY DEF Send
<1>3. t \in Connections /\ heard[k][t] = 0 /\ Peer(k, t)
  BY <1>2 DEF EventsInv, EventTypes, HearsOnce
<1>4. /\ left'[k] = left[k] \ {t} /\ left' \in [Connections -> SUBSET Connections]
      /\ \A m \in Connections : m # k => left'[m] = left[m]
  BY <1>2 DEF EventsInv, EventTypes
<1>5. /\ heard' \in [Connections -> [Connections -> Nat]]
      /\ \A m \in Connections : m # k => heard'[m] = heard[m]
  BY <1>2, <1>3 DEF EventsInv, EventTypes
<1>6. /\ \A j \in Connections : j # t => heard'[k][j] = heard[k][j]
      /\ heard'[k][t] = IF link[t] = "up" THEN 1 ELSE 0
  BY <1>2, <1>3 DEF EventsInv, EventTypes
<1>7. EventTypes'
  BY <1>1, <1>4, <1>5 DEF EventsInv, EventTypes
<1>8. registry' = {m \in Connections : Serving(m)'}
  BY <1>1 DEF EventsInv, EventTypes, Serving
<1>9. \A j \in steady'[k] : Listens(k, j)'
  <2>1. TAKE j \in steady'[k]
  <2>2. Listens(k, j) /\ j \in Connections
    BY <1>1 DEF EventsInv, EventTypes
  <2>3. Serving(j)'
    BY <2>2, <1>1 DEF Serving, Listens
  <2>4. j \in left'[k] \/ heard'[k][j] = 1
    BY <2>2, <1>1, <1>4, <1>6 DEF Listens
  <2> QED BY <2>2, <2>3, <2>4, <1>1, PeersStay DEF Listens
<1>10. \A j \in Connections : HearsOnce(k, j)'
  <2>1. TAKE j \in Connections
  <2>2. HearsOnce(k, j)
    BY DEF EventsInv, EventTypes
  <2>3. CASE j = t
    BY <2>3, <1>1, <1>3, <1>4, <1>6, PeersStay DEF HearsOnce
  <2>4. CASE j # t
    BY <2>2, <2>4, <1>1, <1>4, <1>6, PeersStay DEF HearsOnce
  <2> QED BY <2>3, <2>4
<1>11. Goes(k, "send")
  BY <1>1 DEF Goes, EventsInv, EventTypes
<1>12. "send" \in Places /\ "send" \notin {"away", "accepted", "done"}
  BY DEF Places
<1> QED BY <1>1, <1>4, <1>5, <1>7, <1>8, <1>9, <1>10, <1>11, <1>12, StepOfOne

\* A command ends: all who listened have heard, or the command failed and nobody listens.
LEMMA EndingKeeps ==
    ASSUME EventsInv, NEW k \in Connections,
           CommandFails(k) \/ Emitted(k) \/ Reply(k) \/ Disconnect(k)
    PROVE  EventsInv'
<1>1. PICK place \in {"reply", "receive", "done"} : Goes(k, place)
  BY DEF CommandFails, Emitted, Reply, Disconnect
<1>2. UNCHANGED <<link, left, heard>> /\ left[k] = {}
  BY DEF CommandFails, Emitted, Reply, Disconnect, EventsInv, EventTypes
<1>3. /\ steady' \in [Connections -> SUBSET Connections]
      /\ steady'[k] \subseteq steady[k]
      /\ \A m \in Connections : m # k => steady'[m] = steady[m]
  BY DEF CommandFails, Emitted, Reply, Disconnect, EventsInv, EventTypes
<1>4. EventTypes'
  BY <1>1, <1>2, <1>3 DEF Goes, Places, EventsInv, EventTypes
<1>5. at'[k] = place /\ (place = "done" => Disconnect(k)) /\ (Disconnect(k) => place = "done")
  BY <1>1 DEF CommandFails, Emitted, Reply, Disconnect, Goes, EventsInv, EventTypes
<1>6. registry' = {m \in Connections : Serving(m)'}
  <2>1. CASE Disconnect(k)
    BY <2>1, <1>1, <1>5, RegistryKept DEF Disconnect, Unregistered, Places
  <2>2. CASE ~Disconnect(k)
    <3>1. registry' = registry /\ Serving(k)
      BY <2>2 DEF CommandFails, Emitted, Reply, Serving
    <3>2. k \in registry
      BY <3>1 DEF EventsInv, EventTypes
    <3> QED BY <2>2, <3>1, <3>2, <1>1, <1>5, RegistryKept DEF Places
  <2> QED BY <2>1, <2>2
<1>7. place = "done" => link[k] # "up"
  BY <1>5 DEF Disconnect
<1>8. \A j \in steady'[k] : Listens(k, j)'
  <2>1. TAKE j \in steady'[k]
  <2>2. Listens(k, j) /\ j \in Connections /\ j \in steady[k]
    BY <1>3 DEF EventsInv, EventTypes
  <2>3. Serving(j)'
    BY <2>2, <1>1 DEF Serving, Goes, EventsInv, EventTypes, Listens
  <2>4. place = "reply" => heard'[k][j] = 1
    <3>1. CASE CommandFails(k)
      BY <3>1 DEF CommandFails, EventsInv, EventTypes
    <3>2. CASE Emitted(k)
      BY <3>2, <2>2, <1>2 DEF Emitted, Listens
    <3>3. CASE Reply(k)
      BY <3>3, <1>5 DEF Reply, Goes, EventsInv, EventTypes
    <3> QED BY <3>1, <3>2, <3>3, <1>5
  <2> QED BY <2>2, <2>3, <2>4, <1>2, <1>5, PeersStay DEF Listens
<1>9. \A j \in Connections : HearsOnce(k, j)'
  <2>1. TAKE j \in Connections
  <2>2. HearsOnce(k, j)
    BY DEF EventsInv, EventTypes
  <2> QED BY <2>2, <1>2, <1>5, PeersStay DEF HearsOnce
<1> QED BY <1>1, <1>2, <1>3, <1>4, <1>6, <1>7, <1>8, <1>9, StepOfOne DEF Places

\* Every connection that was open all through a command hears of it exactly once, and never
\* another tenant or the sender (ws/connection_manager.py, broadcast): the registry a broadcast
\* copies holds exactly the connections that are being served.
THEOREM ListenersHearOnce == EventsSpec => []EveryListenerHears
<1>1. EventsInit => EventsInv
  BY DEF EventsInit, EventsInv, EventTypes, Places, Serving, HearsOnce
<1>2. EventsInv /\ [EventsNext]_eventVars => EventsInv'
  <2>1. ASSUME EventsInv, EventsNext PROVE EventsInv'
    BY <2>1, ComingKeeps, LeavingKeeps, CommandKeeps, EmitKeeps, SendKeeps, EndingKeeps DEF EventsNext
  <2>2. ASSUME EventsInv, UNCHANGED eventVars PROVE EventsInv'
    BY <2>2, PeersStay DEF EventsInv, EventTypes, eventVars, Listens, HearsOnce, Serving
  <2> QED BY <2>1, <2>2
<1>3. EventsInv => EveryListenerHears
  <2>1. ASSUME EventsInv, NEW k \in Connections, at[k] = "reply", NEW j \in steady[k]
        PROVE  heard[k][j] = 1
    BY <2>1 DEF EventsInv, EventTypes, Listens
  <2>2. ASSUME EventsInv, NEW k \in Connections, NEW j \in Connections, heard[k][j] > 0
        PROVE  heard[k][j] = 1 /\ tenant_id(j) = tenant_id(k) /\ sub(j) # sub(k)
    BY <2>2 DEF EventsInv, EventTypes, HearsOnce, Peer
  <2> QED BY <2>1, <2>2 DEF EveryListenerHears
<1> QED BY <1>1, <1>2, <1>3, PTL DEF EventsSpec
-----------------------------------------------------------------------------
(* What the server caches.                                                 *)

Rests == {<<>>, <<"recall", "think">>, <<"think">>, <<"recall", "names">>, <<"names">>}

Requests == [at : {"idle", "search", "save", "set", "forget"}, op : Results \cup {"none"},
             item : Items \cup {NoItem}, seen : SUBSET Items, rest : Rests]

\* The request has still to forget the entry.
Owes(c, e) == req[c].at = "forget" /\ \E n \in DOMAIN req[c].rest : req[c].rest[n] = e

\* An entry lacks only what it is known to lack and what a request has still to forget it for.
Covered(e) ==
    cache[e] # NoEntry =>
        \A i \in Found(e) : i \in cache[e] \/ i \in unseen[e]
                            \/ \E c \in Clients : Owes(c, e) /\ req[c].item = i

\* What the store, the cache and the requests look like.
CacheTypes ==
    /\ used \subseteq Items /\ stored \subseteq used /\ graph \subseteq used /\ acked \subseteq used
    /\ cache \in [Entries -> (SUBSET Items) \cup {NoEntry}] /\ unseen \in [Entries -> SUBSET Items]
    /\ req \in [Clients -> Requests]

\* A write is not answered while an entry is still to be forgotten for it.
Unanswered ==
    /\ \A c \in Clients : req[c].at = "forget" => req[c].item \in used \ acked
    /\ \A c, d \in Clients : c # d /\ req[c].at = "forget" /\ req[d].at = "forget" => req[c].item # req[d].item

\* The inductive invariant of the cache: whoever hides an item from an entry still owes the forgetting.
CacheInv ==
    /\ CacheTypes /\ Unanswered
    /\ \A c \in Clients : req[c].at \in {"search", "save", "set"} => req[c].op \in Results
    /\ \A e \in Entries : Covered(e)

\* An entry that is as it was and misses no more than it did.
LEMMA CoveredStays ==
    ASSUME NEW e \in Entries, Covered(e),
           cache'[e] = cache[e], unseen[e] \subseteq unseen'[e], Found(e)' \subseteq Found(e),
           \A c \in Clients : Owes(c, e) => Owes(c, e)' /\ req'[c].item = req[c].item
    PROVE  Covered(e)'
<1>1. SUFFICES ASSUME cache'[e] # NoEntry, NEW i \in Found(e)'
               PROVE  i \in cache'[e] \/ i \in unseen'[e] \/ \E c \in Clients : Owes(c, e)' /\ req'[c].item = i
  BY DEF Covered
<1>2. i \in cache[e] \/ i \in unseen[e] \/ \E c \in Clients : Owes(c, e) /\ req[c].item = i
  BY <1>1 DEF Covered
<1> QED BY <1>1, <1>2

\* The requests after one of them has gone on.
LEMMA RequestSteps ==
    ASSUME CacheTypes, NEW c \in Clients, NEW r \in Requests, req' = [req EXCEPT ![c] = r]
    PROVE  /\ req' \in [Clients -> Requests] /\ req'[c] = r
           /\ \A d \in Clients : d # c => req'[d] = req[d]
BY DEF CacheTypes

\* A request that forgets nothing goes on without writing.
LEMMA ReaderSteps ==
    ASSUME CacheInv, NEW c \in Clients, NEW r \in Requests, req' = [req EXCEPT ![c] = r],
           req[c].at # "forget", r.at # "forget",
           r.at \in {"search", "save", "set"} => r.op \in Results,
           used \subseteq used', UNCHANGED acked
    PROVE  /\ req' \in [Clients -> Requests] /\ Unanswered'
           /\ \A d \in Clients : req'[d].at \in {"search", "save", "set"} => req'[d].op \in Results
           /\ \A e \in Entries, d \in Clients : Owes(d, e) => Owes(d, e)' /\ req'[d].item = req[d].item
<1>1. /\ req' \in [Clients -> Requests] /\ req'[c] = r
      /\ \A d \in Clients : d # c => req'[d] = req[d]
  BY RequestSteps DEF CacheInv
<1>2. Unanswered'
  BY <1>1 DEF CacheInv, Unanswered
<1>3. \A d \in Clients : req'[d].at \in {"search", "save", "set"} => req'[d].op \in Results
  BY <1>1 DEF CacheInv
<1>4. \A e \in Entries, d \in Clients : Owes(d, e) => Owes(d, e)' /\ req'[d].item = req[d].item
  BY <1>1 DEF Owes
<1> QED BY <1>1, <1>2, <1>3, <1>4

\* The requests the handlers make are requests.
LEMMA IdleRequest ==
    NoRequest \in Requests /\ NoRequest.at = "idle"
<1>1. <<>> \in Rests
  BY DEF Rests
<1> QED BY <1>1 DEF NoRequest, Requests

\* A request that begins to search.
LEMMA SearchRequest ==
    ASSUME NEW op \in Results
    PROVE  \E r \in Requests : /\ r = [NoRequest EXCEPT !.at = "search", !.op = op]
                               /\ r.at = "search" /\ r.op = op
<1>1. <<>> \in Rests
  BY DEF Rests
<1>2. [NoRequest EXCEPT !.at = "search", !.op = op] \in Requests
  BY <1>1 DEF NoRequest, Requests
<1> QED BY <1>2 DEF NoRequest

\* A request that goes on to save or to set.
LEMMA NextRequest ==
    ASSUME CacheTypes, NEW c \in Clients, NEW where \in {"save", "set"}
    PROVE  \E r \in Requests : r = [req[c] EXCEPT !.at = where] /\ r.at = where /\ r.op = req[c].op
<1>1. req[c] \in Requests
  BY DEF CacheTypes
<1>2. [req[c] EXCEPT !.at = where] \in Requests
  BY <1>1 DEF Requests
<1>3. [req[c] EXCEPT !.at = where].at = where /\ [req[c] EXCEPT !.at = where].op = req[c].op
  BY <1>1 DEF Requests
<1> QED BY <1>2, <1>3

\* A miss, and the node names that a question loads.
LEMMA LookupKeeps ==
    ASSUME CacheInv, NEW c \in Clients, recall(c) \/ query(c) \/ think(c)
    PROVE  CacheInv'
<1>1. PICK op \in Results : req' = [req EXCEPT ![c] = [NoRequest EXCEPT !.at = "search", !.op = op]]
  BY DEF recall, query, think, Results
<1>2. req[c].at # "forget" /\ UNCHANGED <<stored, graph, acked, used>>
  BY DEF recall, query, think
<1>3. PICK r \in Requests : r = [NoRequest EXCEPT !.at = "search", !.op = op] /\ r.at = "search" /\ r.op = op
  BY SearchRequest
<1>4. r.at = "search" /\ r.op = op
  BY <1>3
<1>5. /\ req' \in [Clients -> Requests] /\ Unanswered'
      /\ \A d \in Clients : req'[d].at \in {"search", "save", "set"} => req'[d].op \in Results
      /\ \A e \in Entries, d \in Clients : Owes(d, e) => Owes(d, e)' /\ req'[d].item = req[d].item
  BY <1>1, <1>2, <1>3, <1>4, ReaderSteps
<1>6. \/ UNCHANGED <<cache, unseen>>
      \/ cache' = [cache EXCEPT !["names"] = graph] /\ unseen' = [unseen EXCEPT !["names"] = {}]
  BY DEF recall, query, think
<1>7. CacheTypes'
  BY <1>2, <1>5, <1>6 DEF CacheInv, CacheTypes
<1>8. ASSUME NEW e \in Entries PROVE Covered(e)'
  <2>1. CASE cache'[e] = cache[e] /\ unseen'[e] = unseen[e]
    BY <2>1, <1>2, <1>5, CoveredStays DEF CacheInv, Found
  <2>2. CASE ~(cache'[e] = cache[e] /\ unseen'[e] = unseen[e])
    <3>1. e = "names" /\ cache'[e] = graph
      BY <2>2, <1>6 DEF CacheInv, CacheTypes
    <3> QED BY <3>1, <1>2 DEF Covered, Found
  <2> QED BY <2>1, <2>2
<1> QED BY <1>5, <1>7, <1>8 DEF CacheInv
\* The search, or a question that is not remembered.
LEMMA SearchStepKeeps ==
    ASSUME CacheInv, NEW c \in Clients, Search(c) \/ SaveAnswerFails(c)
    PROVE  CacheInv'
<1>1. PICK r \in Requests : req' = [req EXCEPT ![c] = r] /\ r.at \in {"save", "set"} /\ r.op = req[c].op
  <2>1. CASE Search(c)
    <3>1. PICK where \in {"save", "set"} : req' = [req EXCEPT ![c] = [req[c] EXCEPT !.at = where, !.seen = Found(req[c].op)]]
      BY <2>1 DEF Search, CacheInv, CacheTypes
    <3>2. Found(req[c].op) \in SUBSET Items
      BY DEF Found, CacheInv, CacheTypes
    <3>3. req[c] \in Requests
      BY DEF CacheInv, CacheTypes
    <3>4. PICK s \in SUBSET Items : s = Found(req[c].op)
      BY <3>2
    <3>5. PICK r : r = [req[c] EXCEPT !.at = where, !.seen = s]
      OBVIOUS
    <3>6. r \in Requests /\ r.at = where /\ r.op = req[c].op
      BY <3>3, <3>5 DEF Requests
    <3> QED BY <3>1, <3>4, <3>5, <3>6
  <2>2. CASE SaveAnswerFails(c)
    <3>1. req' = [req EXCEPT ![c] = [req[c] EXCEPT !.at = "set"]]
      BY <2>2 DEF SaveAnswerFails, CacheInv, CacheTypes
    <3> QED BY <3>1, NextRequest DEF CacheInv
  <2> QED BY <2>1, <2>2
<1>2. req[c].at \in {"search", "save"} /\ UNCHANGED <<stored, graph, cache, unseen, acked, used>>
  BY DEF Search, SaveAnswerFails
<1>3. req[c].op \in Results
  BY <1>2 DEF CacheInv
<1>4. /\ req' \in [Clients -> Requests] /\ Unanswered'
      /\ \A d \in Clients : req'[d].at \in {"search", "save", "set"} => req'[d].op \in Results
      /\ \A e \in Entries, d \in Clients : Owes(d, e) => Owes(d, e)' /\ req'[d].item = req[d].item
  BY <1>1, <1>2, <1>3, ReaderSteps
<1>5. CacheTypes'
  BY <1>2, <1>4 DEF CacheInv, CacheTypes
<1>6. ASSUME NEW e \in Entries PROVE Covered(e)'
  BY <1>2, <1>4, CoveredStays DEF CacheInv, Found
<1> QED BY <1>4, <1>5, <1>6 DEF CacheInv

\* Entries a write leaves as they are lack the item; the others only what they lacked.
LEMMA SilentAdds ==
    ASSUME CacheTypes, NEW es, NEW i \in Items, unseen' = Silent(es, i)
    PROVE  /\ unseen' \in [Entries -> SUBSET Items]
           /\ \A e \in Entries : /\ unseen[e] \subseteq unseen'[e]
                                 /\ cache[e] # NoEntry /\ e \in es => i \in unseen'[e]
BY DEF Silent, CacheTypes

\* The answer that is remembered is what the entries of recall and think lack.
LEMMA SaveAnswerKeeps ==
    ASSUME CacheInv, NEW c \in Clients, SaveAnswer(c)
    PROVE  CacheInv'
<1>1. PICK i \in Items \ used : stored' = stored \cup {i} /\ used' = used \cup {i} /\ unseen' = Silent({"recall", "think"}, i)
  BY DEF SaveAnswer
<1>2. req[c].at = "save" /\ UNCHANGED <<graph, cache, acked>>
  BY DEF SaveAnswer
<1>3. PICK r \in Requests : req' = [req EXCEPT ![c] = r] /\ r.at = "set" /\ r.op = req[c].op
  <2>1. req' = [req EXCEPT ![c] = [req[c] EXCEPT !.at = "set"]]
    BY DEF SaveAnswer, CacheInv, CacheTypes
  <2> QED BY <2>1, NextRequest DEF CacheInv
<1>4. req[c].op \in Results
  BY <1>2 DEF CacheInv
<1>5. /\ req' \in [Clients -> Requests] /\ Unanswered'
      /\ \A d \in Clients : req'[d].at \in {"search", "save", "set"} => req'[d].op \in Results
      /\ \A e \in Entries, d \in Clients : Owes(d, e) => Owes(d, e)' /\ req'[d].item = req[d].item
  BY <1>1, <1>2, <1>3, <1>4, ReaderSteps
<1>6. /\ unseen' \in [Entries -> SUBSET Items]
      /\ \A e \in Entries : /\ unseen[e] \subseteq unseen'[e]
                            /\ cache[e] # NoEntry /\ e \in {"recall", "think"} => i \in unseen'[e]
  BY <1>1, SilentAdds DEF CacheInv
<1>7. CacheTypes'
  BY <1>1, <1>2, <1>5, <1>6 DEF CacheInv, CacheTypes
<1>8. ASSUME NEW e \in Entries PROVE Covered(e)'
  <2>1. CASE e \in {"query", "names"}
    BY <2>1, <1>2, <1>5, <1>6, CoveredStays DEF CacheInv, Found
  <2>2. CASE e \in {"recall", "think"}
    <3>1. SUFFICES ASSUME cache'[e] # NoEntry, NEW j \in Found(e)'
                   PROVE  j \in cache'[e] \/ j \in unseen'[e] \/ \E d \in Clients : Owes(d, e)' /\ req'[d].item = j
      BY DEF Covered
    <3>2. j = i \/ j \in Found(e)
      BY <2>2, <1>1 DEF Found
    <3>3. j = i => j \in unseen'[e]
      BY <3>1, <2>2, <1>2, <1>6
    <3>4. j \in Found(e) => j \in cache[e] \/ j \in unseen[e] \/ \E d \in Clients : Owes(d, e) /\ req[d].item = j
      BY <3>1, <1>2 DEF CacheInv, Covered
    <3> QED BY <3>2, <3>3, <3>4, <1>2, <1>5, <1>6
  <2> QED BY <2>1, <2>2 DEF Entries, Results
<1> QED BY <1>5, <1>7, <1>8 DEF CacheInv

\* What is kept lacks what was written since it was searched for.
LEMMA SetKeeps ==
    ASSUME CacheInv, NEW c \in Clients, Set(c)
    PROVE  CacheInv'
<1>1. req' = [req EXCEPT ![c] = NoRequest] /\ req[c].at = "set" /\ UNCHANGED <<stored, graph, acked, used>>
  BY DEF Set
<1>2. PICK e \in Results :
        \/ /\ cache' = [cache EXCEPT ![e] = req[c].seen]
           /\ unseen' = [unseen EXCEPT ![e] = Found(e) \ req[c].seen]
        \/ UNCHANGED <<cache, unseen>>
  BY <1>1 DEF Set, CacheInv
<1>3. /\ req' \in [Clients -> Requests] /\ Unanswered'
      /\ \A d \in Clients : req'[d].at \in {"search", "save", "set"} => req'[d].op \in Results
      /\ \A x \in Entries, d \in Clients : Owes(d, x) => Owes(d, x)' /\ req'[d].item = req[d].item
  BY <1>1, IdleRequest, ReaderSteps
<1>4. req[c].seen \in SUBSET Items /\ Found(e) \in SUBSET Items /\ e \in Entries
  BY DEF CacheInv, CacheTypes, Requests, Found, Entries
<1>5. CacheTypes'
  BY <1>1, <1>2, <1>3, <1>4 DEF CacheInv, CacheTypes
<1>6. ASSUME NEW x \in Entries PROVE Covered(x)'
  <2>1. CASE cache'[x] = cache[x] /\ unseen'[x] = unseen[x]
    BY <2>1, <1>1, <1>3, CoveredStays DEF CacheInv, Found
  <2>2. CASE ~(cache'[x] = cache[x] /\ unseen'[x] = unseen[x])
    <3>1. x = e /\ cache'[x] = req[c].seen /\ unseen'[x] = Found(x) \ req[c].seen
      BY <2>2, <1>2, <1>4 DEF CacheInv, CacheTypes
    <3>2. Found(x)' = Found(x)
      BY <1>1 DEF Found
    <3> QED BY <3>1, <3>2 DEF Covered
  <2> QED BY <2>1, <2>2
<1> QED BY <1>3, <1>5, <1>6 DEF CacheInv

\* An entry expires; something is deleted.
LEMMA LosingKeeps ==
    ASSUME CacheInv,
           (\E e \in Entries : ExpireEntry(e)) \/ (\E i \in Items : Delete(i))
    PROVE  CacheInv'
<1>1. UNCHANGED <<req, acked, used>> /\ stored' \subseteq stored /\ graph' \subseteq graph
  BY DEF ExpireEntry, Delete
<1>2. /\ Unanswered'
      /\ \A d \in Clients : req'[d].at \in {"search", "save", "set"} => req'[d].op \in Results
      /\ \A x \in Entries, d \in Clients : Owes(d, x) => Owes(d, x)' /\ req'[d].item = req[d].item
  BY <1>1 DEF CacheInv, Unanswered, Owes
<1>3. \/ UNCHANGED <<cache, unseen>>
      \/ \E e \in Entries : cache' = [cache EXCEPT ![e] = NoEntry] /\ unseen' = [unseen EXCEPT ![e] = {}]
  BY DEF ExpireEntry, Delete
<1>4. CacheTypes'
  <2>1. /\ cache' \in [Entries -> (SUBSET Items) \cup {NoEntry}]
        /\ unseen' \in [Entries -> SUBSET Items]
    BY <1>3 DEF CacheInv, CacheTypes
  <2> QED BY <1>1, <2>1 DEF CacheInv, CacheTypes
<1>5. ASSUME NEW x \in Entries PROVE Covered(x)'
  <2>1. CASE cache'[x] = cache[x] /\ unseen'[x] = unseen[x]
    <3>1. Found(x)' \subseteq Found(x)
      BY <1>1 DEF Found
    <3> QED BY <3>1, <2>1, <1>2, CoveredStays DEF CacheInv
  <2>2. CASE ~(cache'[x] = cache[x] /\ unseen'[x] = unseen[x])
    BY <2>2, <1>3 DEF CacheInv, CacheTypes, Covered
  <2> QED BY <2>1, <2>2
<1> QED BY <1>2, <1>4, <1>5 DEF CacheInv

\* What a write reaches is forgotten for it or known to be left out.
LEMMA EntriesOfAWrite ==
    ASSUME NEW w \in Writes, NEW e \in Entries,
           e \in {"query", "names"} => Links(w), e \in {"recall", "think"} => Stores(w)
    PROVE  e \in Unforgotten(w) \/ \E n \in DOMAIN Forgets(w) : Forgets(w)[n] = e
<1>1. CASE w = "remember"
  <2>1. e \in {"recall", "think"}
    BY <1>1 DEF Entries, Results, Links
  <2>2. Forgets(w) = <<"recall", "think">>
    BY <1>1 DEF Forgets
  <2>3. 1 \in DOMAIN Forgets(w) /\ 2 \in DOMAIN Forgets(w) /\ Forgets(w)[1] = "recall" /\ Forgets(w)[2] = "think"
    BY <2>2
  <2> QED BY <2>1, <2>3
<1>2. CASE w = "ingest"
  <2>1. Forgets(w) = <<"recall", "names">>
    BY <1>2 DEF Forgets
  <2>2. 1 \in DOMAIN Forgets(w) /\ 2 \in DOMAIN Forgets(w) /\ Forgets(w)[1] = "recall" /\ Forgets(w)[2] = "names"
    BY <2>1
  <2>3. e \in {"think", "query"} => e \in Unforgotten(w)
    BY <1>2 DEF Unforgotten
  <2> QED BY <2>2, <2>3 DEF Entries, Results
<1>3. CASE w \notin {"remember", "ingest"}
  BY <1>3 DEF Unforgotten
<1> QED BY <1>1, <1>2, <1>3

\* A write: the item is in the entries' debt or known to be left out.
LEMMA WriteKeeps ==
    ASSUME CacheInv, NEW c \in Clients, NEW w \in Writes, Write(c, w)
    PROVE  CacheInv'
<1>1. PICK i \in Items \ used :
        /\ used' = used \cup {i}
        /\ stored' = IF Stores(w) THEN stored \cup {i} ELSE stored
        /\ graph' = IF Links(w) THEN graph \cup {i} ELSE graph
        /\ unseen' = Silent(Unforgotten(w), i)
        /\ req' = [req EXCEPT ![c] = [NoRequest EXCEPT !.at = "forget", !.item = i, !.rest = Forgets(w)]]
  BY DEF Write
<1>2. req[c].at = "idle" /\ UNCHANGED <<cache, acked>>
  BY DEF Write
<1>3. Forgets(w) \in Rests
  BY DEF Forgets, Rests
<1>4. PICK r \in Requests : /\ r = [NoRequest EXCEPT !.at = "forget", !.item = i, !.rest = Forgets(w)]
                           /\ r.at = "forget" /\ r.item = i /\ r.rest = Forgets(w)
  <2>1. [NoRequest EXCEPT !.at = "forget", !.item = i, !.rest = Forgets(w)] \in Requests
    BY <1>1, <1>3 DEF NoRequest, Requests
  <2> QED BY <2>1 DEF NoRequest
<1>5. /\ req' \in [Clients -> Requests] /\ req'[c] = r
      /\ \A d \in Clients : d # c => req'[d] = req[d]
  BY <1>1, <1>4, RequestSteps DEF CacheInv
<1>6. Unanswered'
  <2>1. ASSUME NEW d \in Clients, req'[d].at = "forget" PROVE req'[d].item \in used' \ acked'
    BY <2>1, <1>1, <1>2, <1>4, <1>5 DEF CacheInv, CacheTypes, Unanswered
  <2>2. ASSUME NEW d \in Clients, d # c, req'[d].at = "forget" PROVE req'[d].item # i
    BY <2>2, <1>1, <1>5 DEF CacheInv, Unanswered
  <2>3. ASSUME NEW d \in Clients, NEW b \in Clients, d # b, req'[d].at = "forget", req'[b].at = "forget"
        PROVE  req'[d].item # req'[b].item
    BY <2>2, <2>3, <1>4, <1>5 DEF CacheInv, Unanswered
  <2> QED BY <2>1, <2>3 DEF Unanswered
<1>7. \A d \in Clients : req'[d].at \in {"search", "save", "set"} => req'[d].op \in Results
  BY <1>4, <1>5 DEF CacheInv
<1>8. \A e \in Entries, d \in Clients : Owes(d, e) => Owes(d, e)' /\ req'[d].item = req[d].item
  BY <1>2, <1>5 DEF Owes
<1>9. /\ unseen' \in [Entries -> SUBSET Items]
      /\ \A e \in Entries : /\ unseen[e] \subseteq unseen'[e]
                            /\ cache[e] # NoEntry /\ e \in Unforgotten(w) => i \in unseen'[e]
  BY <1>1, SilentAdds DEF CacheInv
<1>10. CacheTypes'
  BY <1>1, <1>2, <1>5, <1>9 DEF CacheInv, CacheTypes
<1>11. ASSUME NEW e \in Entries PROVE Covered(e)'
  <2>1. SUFFICES ASSUME cache'[e] # NoEntry, NEW j \in Found(e)'
                 PROVE  j \in cache'[e] \/ j \in unseen'[e] \/ \E d \in Clients : Owes(d, e)' /\ req'[d].item = j
    BY DEF Covered
  <2>2. CASE j \in Found(e)
    <3>1. j \in cache[e] \/ j \in unseen[e] \/ \E d \in Clients : Owes(d, e) /\ req[d].item = j
      BY <2>1, <2>2, <1>2 DEF CacheInv, Covered
    <3> QED BY <3>1, <1>2, <1>8, <1>9
  <2>3. CASE j \notin Found(e)
    <3>1. j = i /\ (e \in {"query", "names"} => Links(w)) /\ (e \in {"recall", "think"} => Stores(w))
      BY <2>1, <2>3, <1>1 DEF Found
    <3>2. e \in Unforgotten(w) \/ \E n \in DOMAIN Forgets(w) : Forgets(w)[n] = e
      BY <3>1, EntriesOfAWrite
    <3>3. e \in Unforgotten(w) => j \in unseen'[e]
      BY <3>1, <2>1, <1>2, <1>9
    <3>4. (\E n \in DOMAIN Forgets(w) : Forgets(w)[n] = e) => Owes(c, e)' /\ req'[c].item = j
      BY <3>1, <1>4, <1>5 DEF Owes
    <3> QED BY <3>2, <3>3, <3>4
  <2> QED BY <2>2, <2>3
<1> QED BY <1>6, <1>7, <1>10, <1>11 DEF CacheInv

\* What is left to forget after the first.
LEMMA RestsShrink ==
    ASSUME NEW rest \in Rests, rest # <<>>
    PROVE  /\ Tail(rest) \in Rests /\ Head(rest) \in Entries
           /\ \A e : (\E n \in DOMAIN rest : rest[n] = e) /\ e # Head(rest)
                        => \E n \in DOMAIN Tail(rest) : Tail(rest)[n] = e
<1>1. CASE rest \in {<<"recall", "think">>, <<"recall", "names">>}
  <2>1. PICK x \in {"think", "names"} : rest = <<"recall", x>>
    BY <1>1
  <2>2. Head(rest) = "recall" /\ Tail(rest) = <<x>> /\ DOMAIN rest = {1, 2} /\ rest[1] = "recall" /\ rest[2] = x
    BY <2>1
  <2>3. 1 \in DOMAIN Tail(rest) /\ Tail(rest)[1] = x /\ Tail(rest) \in Rests
    BY <2>2 DEF Rests
  <2> QED BY <2>2, <2>3 DEF Entries, Results
<1>2. CASE rest \in {<<"think">>, <<"names">>}
  <2>1. PICK x \in {"think", "names"} : rest = <<x>>
    BY <1>2
  <2>2. Head(rest) = x /\ Tail(rest) = <<>> /\ DOMAIN rest = {1} /\ rest[1] = x
    BY <2>1
  <2> QED BY <2>2 DEF Entries, Results, Rests
<1> QED BY <1>1, <1>2 DEF Rests

\* An entry is forgotten, or Redis failed to and it is known to lack the item.
LEMMA ForgetKeeps ==
    ASSUME CacheInv, NEW c \in Clients, Forget(c)
    PROVE  CacheInv'
<1>1. req[c].at = "forget" /\ req[c].rest # <<>> /\ UNCHANGED <<stored, graph, acked, used>>
  BY DEF Forget
<1>2. req[c] \in Requests /\ req[c].rest \in Rests
  BY DEF CacheInv, CacheTypes, Requests
<1>3. PICK h \in Entries : h = Head(req[c].rest)
  BY <1>1, <1>2, RestsShrink
<1>4. \/ cache' = [cache EXCEPT ![h] = NoEntry] /\ unseen' = [unseen EXCEPT ![h] = {}]
      \/ unseen' = [unseen EXCEPT ![h] = @ \cup {req[c].item}] /\ UNCHANGED cache
  BY <1>3 DEF Forget
<1>5. PICK r \in Requests : /\ req' = [req EXCEPT ![c] = r] /\ r.at = "forget"
                           /\ r.item = req[c].item /\ r.rest = Tail(req[c].rest)
  <2>1. req' = [req EXCEPT ![c] = [req[c] EXCEPT !.rest = Tail(req[c].rest)]]
    BY DEF Forget, CacheInv, CacheTypes
  <2>2. Tail(req[c].rest) \in Rests
    BY <1>1, <1>2, RestsShrink
  <2>3. [req[c] EXCEPT !.rest = Tail(req[c].rest)] \in Requests
    BY <1>2, <2>2 DEF Requests
  <2> QED BY <1>1, <1>2, <2>1, <2>3 DEF Requests
<1>6. /\ req' \in [Clients -> Requests] /\ req'[c] = r
      /\ \A d \in Clients : d # c => req'[d] = req[d]
  BY <1>5, RequestSteps DEF CacheInv
<1>7. Unanswered'
  BY <1>1, <1>5, <1>6 DEF CacheInv, Unanswered
<1>8. \A d \in Clients : req'[d].at \in {"search", "save", "set"} => req'[d].op \in Results
  BY <1>5, <1>6 DEF CacheInv
<1>9. req[c].item \in Items
  BY <1>1 DEF CacheInv, Unanswered, CacheTypes
<1>10. CacheTypes'
  <2>1. unseen[h] \cup {req[c].item} \in SUBSET Items
    BY <1>9 DEF CacheInv, CacheTypes
  <2>2. /\ cache' \in [Entries -> (SUBSET Items) \cup {NoEntry}]
        /\ unseen' \in [Entries -> SUBSET Items]
    BY <1>4, <2>1 DEF CacheInv, CacheTypes
  <2> QED BY <1>1, <1>6, <2>2 DEF CacheInv, CacheTypes
<1>11. ASSUME NEW e \in Entries PROVE Covered(e)'
  <2>1. CASE e # h
    <3>1. cache'[e] = cache[e] /\ unseen'[e] = unseen[e] /\ Found(e)' = Found(e)
      BY <2>1, <1>1, <1>4 DEF CacheInv, CacheTypes, Found
    <3>2. Owes(c, e) => Owes(c, e)' /\ req'[c].item = req[c].item
      <4>1. (\E n \in DOMAIN req[c].rest : req[c].rest[n] = e) => \E n \in DOMAIN r.rest : r.rest[n] = e
        <5>1. \A x : (\E n \in DOMAIN req[c].rest : req[c].rest[n] = x) /\ x # Head(req[c].rest)
                        => \E n \in DOMAIN Tail(req[c].rest) : Tail(req[c].rest)[n] = x
          BY <1>1, <1>2, RestsShrink
        <5> QED BY <5>1, <2>1, <1>3, <1>5
      <4> QED BY <4>1, <1>5, <1>6 DEF Owes
    <3>3. \A d \in Clients : Owes(d, e) => Owes(d, e)' /\ req'[d].item = req[d].item
      BY <3>2, <1>6 DEF Owes
    <3> QED BY <3>1, <3>3, CoveredStays DEF CacheInv
  <2>2. CASE e = h /\ cache' = [cache EXCEPT ![h] = NoEntry]
    BY <2>2 DEF CacheInv, CacheTypes, Covered
  <2>3. CASE e = h /\ unseen' = [unseen EXCEPT ![h] = @ \cup {req[c].item}] /\ UNCHANGED cache
    <3>1. unseen'[e] = unseen[e] \cup {req[c].item} /\ cache'[e] = cache[e] /\ Found(e)' = Found(e)
      BY <2>3, <1>1 DEF CacheInv, CacheTypes, Found
    <3>2. SUFFICES ASSUME cache'[e] # NoEntry, NEW j \in Found(e)'
                   PROVE  j \in cache'[e] \/ j \in unseen'[e] \/ \E d \in Clients : Owes(d, e)' /\ req'[d].item = j
      BY DEF Covered
    <3>3. j \in cache[e] \/ j \in unseen[e] \/ \E d \in Clients : Owes(d, e) /\ req[d].item = j
      BY <3>1, <3>2 DEF CacheInv, Covered
    <3>4. \A d \in Clients : d # c /\ Owes(d, e) => Owes(d, e)' /\ req'[d].item = req[d].item
      BY <1>6 DEF Owes
    <3> QED BY <3>1, <3>3, <3>4
  <2> QED BY <2>1, <2>2, <2>3, <1>4
<1> QED BY <1>7, <1>8, <1>10, <1>11 DEF CacheInv

\* A write is answered when nothing is left to forget.
LEMMA AnswerKeeps ==
    ASSUME CacheInv, NEW c \in Clients, Answer(c)
    PROVE  CacheInv'
<1>1. /\ req[c].at = "forget" /\ req[c].rest = <<>> /\ acked' = acked \cup {req[c].item}
      /\ req' = [req EXCEPT ![c] = NoRequest] /\ UNCHANGED <<stored, graph, cache, unseen, used>>
  BY DEF Answer
<1>2. /\ req' \in [Clients -> Requests] /\ req'[c] = NoRequest
      /\ \A d \in Clients : d # c => req'[d] = req[d]
  BY <1>1, IdleRequest, RequestSteps DEF CacheInv
<1>3. Unanswered'
  BY <1>1, <1>2, IdleRequest DEF CacheInv, Unanswered
<1>4. \A d \in Clients : req'[d].at \in {"search", "save", "set"} => req'[d].op \in Results
  BY <1>2, IdleRequest DEF CacheInv
<1>5. CacheTypes'
  BY <1>1, <1>2 DEF CacheInv, CacheTypes, Unanswered
<1>6. ASSUME NEW e \in Entries PROVE Covered(e)'
  <2>1. ~Owes(c, e)
    BY <1>1 DEF Owes
  <2>2. \A d \in Clients : Owes(d, e) => Owes(d, e)' /\ req'[d].item = req[d].item
    BY <2>1, <1>2 DEF Owes
  <2> QED BY <2>2, <1>1, CoveredStays DEF CacheInv, Found
<1> QED BY <1>3, <1>4, <1>5, <1>6 DEF CacheInv

\* What a client was told is written is in every entry it can be answered from, unless that entry
\* is known to lack it: a write is answered only after each entry it reaches was forgotten
\* (memory_routes.py:93, cache.py:62).
THEOREM WritesAreSeen == ServerSpec => []CachedSeesWritten
<1>1. ServerInit => CacheInv
  <2>1. ASSUME ServerInit PROVE CacheTypes
    BY <2>1, IdleRequest DEF ServerInit, CacheTypes
  <2>2. ASSUME ServerInit PROVE \A c \in Clients : req[c].at = "idle"
    BY <2>2, IdleRequest DEF ServerInit
  <2>3. ASSUME ServerInit PROVE \A e \in Entries : cache[e] = NoEntry
    BY <2>3 DEF ServerInit
  <2> QED BY <2>1, <2>2, <2>3 DEF CacheInv, Unanswered, Covered
<1>2. CacheInv /\ [ServerNext]_cacheVars => CacheInv'
  <2>1. ASSUME CacheInv, ServerNext PROVE CacheInv'
    BY <2>1, LookupKeeps, SearchStepKeeps, SaveAnswerKeeps, SetKeeps, WriteKeeps, ForgetKeeps, AnswerKeeps,
       LosingKeeps DEF ServerNext
  <2>2. ASSUME CacheInv, UNCHANGED cacheVars PROVE CacheInv'
    <3>1. \A e \in Entries : Covered(e)'
      BY <2>2 DEF CacheInv, cacheVars, Covered, Owes, Found
    <3> QED BY <2>2, <3>1 DEF CacheInv, cacheVars, CacheTypes, Unanswered
  <2> QED BY <2>1, <2>2
<1>3. CacheInv => CachedSeesWritten
  <2>1. ASSUME CacheInv, NEW e \in Entries, cache[e] # NoEntry, NEW i \in acked \cap Found(e)
        PROVE  i \in cache[e] \cup unseen[e]
    BY <2>1 DEF CacheInv, Covered, Unanswered, Owes
  <2> QED BY <2>1 DEF CachedSeesWritten
<1> QED BY <1>1, <1>2, <1>3, PTL DEF ServerSpec
-----------------------------------------------------------------------------
(* The extraction of entities.                                             *)

\* In one answer a key has one spelling.
OneSpellingEach(ns) == \A x, y \in ns : x.key = y.key => x = y

\* The answer that said a key first.
SaidFirst(k, n) == k \in KeysOf(said[n].nodes) /\ \A j \in 1..(n - 1) : k \notin KeysOf(said[j].nodes)

\* Every message before the chunk was in one, and all were when no chunk is left.
ChunksInOrder ==
    /\ total \in 1..MaxMessages /\ begins \in 0..total /\ asked \subseteq 1..total
    /\ begins # 0 => 1..(begins - 1) \subseteq asked
    /\ begins = 0 => asked = 1..total

\* The nodes are what was said first of each key, the edges what was said.
MergedInOrder ==
    /\ said \in Seq(AnyAnswer)
    /\ \A x \in nodes : \E n \in DOMAIN said : x \in said[n].nodes /\ SaidFirst(x.key, n)
    /\ \A n \in DOMAIN said : KeysOf(said[n].nodes) \subseteq KeysOf(nodes)
    /\ edges = UNION {said[n].edges : n \in DOMAIN said}

\* The inductive invariant of an extraction.
ExtractionInv ==
    /\ ChunksInOrder /\ MergedInOrder
    /\ result.done => begins = 0 /\ result.nodes = {x \in nodes : x.key \in UNION edges}

\* One answer of the model spells a name once.
LEMMA AnswersSpellOnce ==
    ASSUME NEW ns \in SaidSets
    PROVE  OneSpellingEach(ns)
<1>1. PICK s \in UNION {[ks -> Spellings] : ks \in SUBSET Keys} : ns = {[key |-> k, as |-> s[k]] : k \in DOMAIN s}
  BY DEF SaidSets
<1>2. ASSUME NEW x \in ns, NEW y \in ns, x.key = y.key PROVE x = y
  <2>1. PICK k \in DOMAIN s : x = [key |-> k, as |-> s[k]]
    BY <1>1
  <2>2. PICK j \in DOMAIN s : y = [key |-> j, as |-> s[j]]
    BY <1>1
  <2>3. x.key = k /\ y.key = j
    BY <2>1, <2>2
  <2> QED BY <1>2, <2>1, <2>2, <2>3
<1> QED BY <1>2 DEF OneSpellingEach

\* The model may say nothing.
LEMMA SilenceIsAnAnswer ==
    EmptySaid \in AnyAnswer
<1>1. {} \in SaidSets
  <2>1. PICK s : s = [k \in {} |-> k]
    OBVIOUS
  <2>2. s \in [{} -> Spellings] /\ DOMAIN s = {}
    BY <2>1
  <2>3. {} \in SUBSET Keys
    OBVIOUS
  <2>4. s \in UNION {[ks -> Spellings] : ks \in SUBSET Keys}
    BY <2>2, <2>3
  <2>5. {} = {[key |-> k, as |-> s[k]] : k \in DOMAIN s}
    BY <2>2
  <2> QED BY <2>4, <2>5 DEF SaidSets
<1>2. {} \in SaidEdges
  BY DEF SaidEdges
<1> QED BY <1>1, <1>2 DEF EmptySaid, AnyAnswer

\* A chunk that is taken leaves no message behind.
LEMMA TakesKeepsChunks ==
    ASSUME ExtractionAssumption, ChunksInOrder, begins # 0, NEW r, Takes(r)
    PROVE  ChunksInOrder'
<1>1. /\ begins \in 1..total /\ total \in 1..MaxMessages /\ MaxMessages \in Nat
      /\ ChunkSize \in Nat /\ ChunkSize > 2
  BY DEF ChunksInOrder, ExtractionAssumption, Overlap
<1>2. PICK e : e = ChunkEnd
  OBVIOUS
<1>3. e \in begins..total /\ (e # total => e = begins + ChunkSize - 1)
  BY <1>1, <1>2 DEF ChunkEnd
<1>4. asked' = asked \cup begins..e /\ begins' = (IF e = total THEN 0 ELSE e - 1) /\ total' = total
  BY <1>1, <1>2, <1>3 DEF Takes, NextChunk, Overlap
<1>5. 1..e \subseteq asked' /\ asked' \subseteq 1..total
  BY <1>1, <1>3, <1>4 DEF ChunksInOrder
<1>6. CASE e = total
  <2>1. asked' = 1..total
    BY <1>5, <1>6
  <2>2. begins' = 0 /\ total' = total
    BY <1>4, <1>6
  <2> QED BY <2>1, <2>2, <1>1 DEF ChunksInOrder
<1>7. CASE e # total
  <2>1. begins' \in 1..total /\ 1..(begins' - 1) \subseteq 1..e
    BY <1>1, <1>3, <1>4, <1>7
  <2> QED BY <2>1, <1>1, <1>4, <1>5 DEF ChunksInOrder
<1> QED BY <1>6, <1>7

\* An answer adds the nodes whose keys are new, and the edges.
LEMMA TakesKeepsMerged ==
    ASSUME MergedInOrder, NEW r \in AnyAnswer, Takes(r)
    PROVE  MergedInOrder'
<1>1. said' = Append(said, r) /\ said \in Seq(AnyAnswer)
  BY DEF Takes, MergedInOrder
<1>2. PICK l : l = Len(said)
  OBVIOUS
<1>3. /\ said' \in Seq(AnyAnswer) /\ l \in Nat /\ DOMAIN said = 1..l /\ DOMAIN said' = 1..(l + 1)
      /\ said'[l + 1] = r /\ \A n \in 1..l : said'[n] = said[n]
  BY <1>1, <1>2
<1>4. nodes' = nodes \cup {x \in r.nodes : x.key \notin KeysOf(nodes)} /\ edges' = edges \cup r.edges
  BY DEF Takes, MergedNodes
<1>5. ASSUME NEW k, NEW n \in 1..l, SaidFirst(k, n) PROVE SaidFirst(k, n)'
  <2>1. \A j \in 1..(n - 1) : j \in 1..l
    BY <1>3
  <2> QED BY <2>1, <1>3, <1>5 DEF SaidFirst
<1>6. ASSUME NEW x \in nodes' PROVE \E n \in DOMAIN said' : x \in said'[n].nodes /\ SaidFirst(x.key, n)'
  <2>1. CASE x \in nodes
    <3>1. PICK n \in 1..l : x \in said[n].nodes /\ SaidFirst(x.key, n)
      BY <2>1, <1>3 DEF MergedInOrder
    <3>2. n \in 1..(l + 1) /\ said'[n] = said[n] /\ SaidFirst(x.key, n)'
      BY <3>1, <1>3, <1>5
    <3> QED BY <3>1, <3>2, <1>3
  <2>2. CASE x \notin nodes
    <3>1. x \in r.nodes /\ x.key \notin KeysOf(nodes)
      BY <2>2, <1>4
    <3>2. \A j \in 1..l : x.key \notin KeysOf(said'[j].nodes)
      BY <3>1, <1>3 DEF MergedInOrder
    <3>3. x.key \in KeysOf(said'[l + 1].nodes)
      BY <3>1, <1>3 DEF KeysOf
    <3>4. SaidFirst(x.key, l + 1)'
      BY <3>2, <3>3, <1>3 DEF SaidFirst
    <3> QED BY <3>1, <3>4, <1>3
  <2> QED BY <2>1, <2>2
<1>7. ASSUME NEW n \in DOMAIN said' PROVE KeysOf(said'[n].nodes) \subseteq KeysOf(nodes')
  <2>1. KeysOf(nodes) \subseteq KeysOf(nodes')
    BY <1>4 DEF KeysOf
  <2>2. CASE n \in 1..l
    BY <2>1, <2>2, <1>3 DEF MergedInOrder
  <2>3. CASE n = l + 1
    <3>1. ASSUME NEW x \in r.nodes PROVE x.key \in KeysOf(nodes')
      BY <2>1, <1>4 DEF KeysOf
    <3> QED BY <3>1, <2>3, <1>3 DEF KeysOf
  <2> QED BY <2>2, <2>3, <1>3
<1>8. edges' = UNION {said'[n].edges : n \in DOMAIN said'}
  <2>1. ASSUME NEW e \in edges' PROVE e \in UNION {said'[n].edges : n \in DOMAIN said'}
    <3>1. CASE e \in edges
      <4>1. PICK n \in 1..l : e \in said[n].edges
        BY <3>1, <1>3 DEF MergedInOrder
      <4>2. n \in 1..(l + 1) /\ e \in said'[n].edges
        BY <4>1, <1>3
      <4> QED BY <4>2, <1>3
    <3>2. CASE e \in r.edges
      <4>1. l + 1 \in DOMAIN said' /\ e \in said'[l + 1].edges
        BY <3>2, <1>3
      <4> QED BY <4>1
    <3> QED BY <3>1, <3>2, <1>4
  <2>2. ASSUME NEW n \in DOMAIN said', NEW e \in said'[n].edges PROVE e \in edges'
    <3>1. CASE n \in 1..l
      <4>1. e \in said[n].edges
        BY <3>1, <2>2, <1>3
      <4> QED BY <4>1, <3>1, <1>3, <1>4 DEF MergedInOrder
    <3>2. CASE n = l + 1
      BY <3>2, <2>2, <1>3, <1>4
    <3> QED BY <3>1, <3>2, <1>3
  <2> QED BY <2>1, <2>2
<1> QED BY <1>3, <1>6, <1>7, <1>8 DEF MergedInOrder

\* The node that is kept of a key is the one FirstSaid picks.
LEMMA FirstIsKept ==
    ASSUME MergedInOrder, NEW x \in nodes
    PROVE  FirstSaid(x.key) = x
<1>1. PICK n \in DOMAIN said : x \in said[n].nodes /\ SaidFirst(x.key, n)
  BY DEF MergedInOrder
<1>2. DOMAIN said = 1..Len(said) /\ Len(said) \in Nat
  BY DEF MergedInOrder
<1>3. \A i \in DOMAIN said : SaidFirst(x.key, i) => i = n
  BY <1>1, <1>2 DEF SaidFirst
<1>4. n = CHOOSE i \in DOMAIN said : SaidFirst(x.key, i)
  BY <1>1, <1>3
<1>5. n = CHOOSE i \in DOMAIN said : x.key \in KeysOf(said[i].nodes) /\ \A j \in 1..(i - 1) : x.key \notin KeysOf(said[j].nodes)
  BY <1>4 DEF SaidFirst
<1>6. OneSpellingEach(said[n].nodes)
  <2>1. said[n] \in AnyAnswer
    BY DEF MergedInOrder
  <2>2. said[n].nodes \in SaidSets
    BY <2>1 DEF AnyAnswer
  <2> QED BY <2>2, AnswersSpellOnce
<1>7. x = CHOOSE y \in said[n].nodes : y.key = x.key
  BY <1>1, <1>6 DEF OneSpellingEach
<1> QED BY <1>5, <1>7 DEF FirstSaid

\* A step of the extraction.
LEMMA ExtractionSteps ==
    ASSUME ExtractionAssumption, ExtractionInv, ExtractionNext
    PROVE  ExtractionInv'
<1>1. ASSUME begins # 0, NEW r \in AnyAnswer, Takes(r) PROVE ExtractionInv'
  <2>1. ~result'.done
    BY <1>1 DEF ExtractionInv, Takes
  <2> QED BY <1>1, <2>1, TakesKeepsChunks, TakesKeepsMerged DEF ExtractionInv
<1>2. CASE Skip
  BY <1>1, <1>2, SilenceIsAnAnswer DEF Skip
<1>3. CASE ModelSays
  BY <1>1, <1>3 DEF ModelSays
<1>4. ASSUME UNCHANGED <<total, begins, asked, said, nodes, edges, result>> PROVE ExtractionInv'
  BY <1>4 DEF ExtractionInv, ChunksInOrder, MergedInOrder, SaidFirst
<1>5. CASE ModelFailed
  BY <1>1, <1>4, <1>5, SilenceIsAnAnswer DEF ModelFailed
<1>6. CASE Finish
  <2>1. UNCHANGED <<total, begins, asked, said, nodes, edges>> /\ begins = 0
    BY <1>6 DEF Finish
  <2>2. ChunksInOrder' /\ MergedInOrder'
    BY <2>1 DEF ExtractionInv, ChunksInOrder, MergedInOrder, SaidFirst
  <2>3. result'.nodes = {x \in nodes : x.key \in UNION edges}
    BY <1>6 DEF Finish
  <2> QED BY <2>1, <2>2, <2>3 DEF ExtractionInv
<1>7. CASE Extracted
  BY <1>4, <1>7 DEF Extracted, extractionVars
<1> QED BY <1>2, <1>3, <1>5, <1>6, <1>7 DEF ExtractionNext

\* Every message of a conversation of any length is in a chunk, and the nodes that are returned
\* are exactly those some edge names, each as the first answer spelled it: the overlap never
\* skips a message, and the merge never prefers a later spelling (entity_extractor.py).
THEOREM ExtractionIsComplete == ExtractionSpec => []NothingSaidIsLost
<1>1. ExtractionInit => ExtractionInv
  <2>1. ASSUME ExtractionInit PROVE ChunksInOrder
    BY <2>1, ExtractionAssumption DEF ExtractionInit, ChunksInOrder, ExtractionAssumption
  <2>2. ASSUME ExtractionInit PROVE MergedInOrder
    <3>1. said \in Seq(AnyAnswer) /\ DOMAIN said = {}
      BY <2>2 DEF ExtractionInit
    <3> QED BY <3>1, <2>2 DEF ExtractionInit, MergedInOrder
  <2> QED BY <2>1, <2>2 DEF ExtractionInit, ExtractionInv, NoResult
<1>2. ExtractionInv /\ [ExtractionNext]_extractionVars => ExtractionInv'
  <2>1. ASSUME ExtractionInv, UNCHANGED extractionVars PROVE ExtractionInv'
    BY <2>1 DEF ExtractionInv, ChunksInOrder, MergedInOrder, SaidFirst, extractionVars
  <2> QED BY <2>1, ExtractionAssumption, ExtractionSteps
<1>3. ExtractionInv => NothingSaidIsLost
  <2> SUFFICES ASSUME ExtractionInv, result.done PROVE NothingSaidIsLost
    BY DEF NothingSaidIsLost
  <2> DEFINE all == UNION {KeysOf(said[i].nodes) : i \in DOMAIN said}
             named == UNION UNION {said[i].edges : i \in DOMAIN said}
  <2>1. asked = 1..total
    BY DEF ExtractionInv, ChunksInOrder
  <2>2. result.nodes = {x \in nodes : x.key \in named}
    BY DEF ExtractionInv, MergedInOrder
  <2>3. ASSUME NEW x \in nodes PROVE x.key \in all /\ FirstSaid(x.key) = x
    <3>1. PICK n \in DOMAIN said : x \in said[n].nodes
      BY DEF ExtractionInv, MergedInOrder
    <3>2. x.key \in KeysOf(said[n].nodes)
      BY <3>1 DEF KeysOf
    <3> QED BY <3>2, FirstIsKept DEF ExtractionInv
  <2>4. ASSUME NEW k \in all PROVE \E x \in nodes : x.key = k
    <3>1. PICK n \in DOMAIN said : k \in KeysOf(said[n].nodes)
      OBVIOUS
    <3>2. k \in KeysOf(nodes)
      BY <3>1 DEF ExtractionInv, MergedInOrder
    <3> QED BY <3>2 DEF KeysOf
  <2> HIDE DEF named, all
  <2>5. result.nodes = {FirstSaid(k) : k \in all \cap named}
    <3>1. ASSUME NEW x \in result.nodes PROVE x \in {FirstSaid(k) : k \in all \cap named}
      BY <2>2, <2>3
    <3>2. ASSUME NEW k \in all \cap named PROVE FirstSaid(k) \in result.nodes
      BY <2>2, <2>3, <2>4
    <3> QED BY <3>1, <3>2
  <2> QED BY <2>1, <2>5 DEF NothingSaidIsLost, all, named
<1> QED BY <1>1, <1>2, <1>3, PTL DEF ExtractionSpec
-----------------------------------------------------------------------------
(* Recall.                                                                 *)

AllTexts == {Content[m] : m \in Memories} \cup Nodes
Hits     == [content : AllTexts, score : 10..100]

\* What the sources found above the cut is among the results with that score or a better one, or
\* as many texts that are no worse took the places.
Kept ==
    \A g \in Gathered : g.score >= Cut =>
        \/ \E r \in list : r.content = g.content /\ r.score >= g.score
        \/ Cardinality(AtLeast(g.score)) > Limit

\* A question whose memories were searched, up to its answer.
Gathering == phase \in {"hints", "federate", "synthesize"} /\ kind # "general"

\* The inductive invariant of recall: what was worth keeping stays from the fusion on.
RecallInv ==
    /\ kind \in {"personal", "mixed", "general"}
    /\ found \in [Sources -> (SUBSET Hits) \cup {Pending, Failed}]
    /\ list \in SUBSET Hits
    /\ Gathering => (\A s \in Sources : found[s] # Pending) /\ (~reranked => Kept)

\* Finitely many texts.
LEMMA TextsAreFinite ==
    IsFiniteSet(AllTexts)
<1> DEFINE T == {Content[m] : m \in Memories}
           f == [m \in Memories |-> Content[m]]
<1>1. f \in Surjection(Memories, T)
  BY DEF Surjection
<1>2. IsFiniteSet(T)
  BY <1>1, FS_Surjection, RecallAssumption
<1> QED BY <1>2, FS_Union, RecallAssumption DEF AllTexts

\* Among natural numbers is a least one.
LEMMA LeastNatural ==
    ASSUME NEW T \in SUBSET Nat, T # {}
    PROVE  \E x \in T : \A y \in T : x <= y
<1>1. \E x \in T : \A y \in T : <<y, x>> \notin OpToRel(<, Nat)
  BY NatLessThanWellFounded, WFMin, Zenon
<1>2. \A x, y \in Nat : y < x => <<y, x>> \in OpToRel(<, Nat)
  BY Zenon DEF OpToRel
<1>3. \E x \in T : \A y \in T : ~(y < x)
  BY <1>1, <1>2, Zenon
<1> QED BY <1>3

\* Among hits is one with the best score, for the scores are bounded.
LEMMA BestHit ==
    ASSUME NEW rs \in SUBSET Hits, rs # {}
    PROVE  \E b \in rs : \A r \in rs : r.score <= b.score
<1> DEFINE T == {100 - r.score : r \in rs}
<1>1. \A r \in rs : r.score \in 10..100
  BY DEF Hits
<1>2. PICK b \in rs : \A r \in rs : 100 - b.score <= 100 - r.score
  <2>1. T \subseteq Nat /\ T # {}
    BY <1>1
  <2>2. \E x \in T : \A y \in T : x <= y
    <3> HIDE DEF T
    <3> QED BY <2>1, LeastNatural
  <2> QED BY <2>2
<1>3. ASSUME NEW r \in rs
      PROVE  r.score <= b.score
  <2>1. r.score \in Int /\ b.score \in Int
    BY <1>1
  <2>2. 100 - b.score <= 100 - r.score
    BY <1>2
  <2> HIDE DEF T
  <2> QED BY <2>1, <2>2
<1> QED BY <1>3

\* What is fused has the best copy of every text.
LEMMA FusedHasBest ==
    ASSUME NEW rs \in SUBSET Hits, NEW g \in rs
    PROVE  \E r \in Fused(rs) : r.content = g.content /\ r.score >= g.score
<1> DEFINE copies == {r \in rs : r.content = g.content}
<1>1. PICK b \in copies : \A r \in copies : r.score <= b.score
  BY BestHit
<1>2. b \in Fused(rs) /\ b.content = g.content /\ b.score >= g.score
  BY <1>1 DEF Fused, Hits
<1> QED BY <1>2

\* What is fused has as many results as texts.
LEMMA FusedIsOnePerText ==
    ASSUME NEW rs \in SUBSET Hits, NEW S \in SUBSET Fused(rs)
    PROVE  IsFiniteSet(S) /\ Cardinality(S) <= Cardinality(Texts(S))
<1> DEFINE h == [r \in S |-> r.content]
<1>1. S \subseteq Hits
  BY DEF Fused
<1>2. ASSUME NEW a \in S, NEW b \in S, a.content = b.content
      PROVE  a = b
  <2>1. a.score = b.score
    BY <1>1, <1>2 DEF Fused, Hits
  <2> QED BY <1>1, <1>2, <2>1 DEF Hits
<1>3. h \in Injection(S, Texts(S))
  BY <1>2 DEF Injection, IsInjective, Texts
<1>4. Texts(S) \subseteq AllTexts
  BY <1>1 DEF Texts, Hits
<1>5. IsFiniteSet(Texts(S))
  BY <1>4, TextsAreFinite, FS_Subset
<1> QED BY <1>3, <1>5, FS_Injection

\* The first n by score: what is not among them had n texts before it.
LEMMA TopKeeps ==
    ASSUME NEW rs \in SUBSET Hits, NEW n \in Nat, NEW S \in Top(Fused(rs), n), NEW g \in rs
    PROVE  \/ \E r \in S : r.content = g.content /\ r.score >= g.score
           \/ Cardinality(Texts({r \in rs : r.score >= g.score})) > n
<1> DEFINE fused == Fused(rs)
           above == Texts({r \in rs : r.score >= g.score})
<1>1. PICK f \in fused : f.content = g.content /\ f.score >= g.score
  BY FusedHasBest
<1>2. CASE f \in S
  BY <1>1, <1>2
<1>3. CASE f \notin S
  <2>1. /\ S \subseteq fused /\ Cardinality(S) = Lesser(n, Cardinality(fused))
        /\ \A a \in S : a.score >= f.score
    BY <1>3 DEF Top
  <2>2. IsFiniteSet(fused) /\ IsFiniteSet(S)
    BY <2>1, FusedIsOnePerText
  <2>3. Cardinality(S) = n
    <3>1. Cardinality(S) # Cardinality(fused)
      BY <1>3, <2>1, <2>2, FS_Subset
    <3> QED BY <2>1, <3>1 DEF Lesser
  <2> DEFINE U == S \cup {f}
  <2>4. U \subseteq fused /\ Cardinality(U) = n + 1
    BY <1>3, <2>1, <2>2, <2>3, FS_AddElement
  <2>5. Cardinality(Texts(U)) >= n + 1 /\ Cardinality(Texts(U)) \in Nat
    <3>1. Cardinality(U) <= Cardinality(Texts(U))
      BY <2>4, FusedIsOnePerText
    <3>2. Texts(U) \subseteq AllTexts
      BY <2>4 DEF Texts, Fused, Hits
    <3>3. Cardinality(Texts(U)) \in Nat
      BY <3>2, TextsAreFinite, FS_Subset, FS_CardinalityType
    <3> QED BY <2>4, <3>1, <3>3
  <2>6. Texts(U) \subseteq above /\ above \subseteq AllTexts
    <3>1. \A a \in U : a \in rs /\ a.score >= g.score
      BY <1>1, <2>1 DEF Fused, Hits
    <3> QED BY <3>1 DEF Texts, Hits
  <2>7. IsFiniteSet(above)
    BY <2>6, TextsAreFinite, FS_Subset
  <2>8. Cardinality(Texts(U)) <= Cardinality(above) /\ Cardinality(above) \in Nat
    BY <2>6, <2>7, FS_Subset, FS_CardinalityType
  <2> QED BY <2>5, <2>8
<1> QED BY <1>2, <1>3

\* What the sources return, once all did, are hits.
LEMMA GatheredAreHits ==
    ASSUME found \in [Sources -> (SUBSET Hits) \cup {Pending, Failed}], \A s \in Sources : found[s] # Pending
    PROVE  Gathered \subseteq Hits
<1>1. \A s \in Sources : Of(s) \subseteq Hits
  BY DEF Of
<1> QED BY <1>1 DEF Gathered

\* A source returns hits.
LEMMA AnswersAreHits ==
    ASSUME NEW s \in Sources
    PROVE  Answers(s) \subseteq SUBSET Hits
<1>1. \A m \in Memories : Content[m] \in AllTexts /\ Confidence[m] \in 10..100
  BY RecallAssumption DEF AllTexts
<1>2. Nodes \subseteq AllTexts
  BY DEF AllTexts
<1>3. CASE s = "semantic"
  BY <1>1, <1>3 DEF Answers, Semantic, Visible, Hit, Hits
<1>4. CASE s = "fts"
  BY <1>1, <1>4 DEF Answers, FullText, KeywordExact, Hit, Hits
<1>5. CASE s = "entity_graph"
  BY <1>2, <1>5 DEF Answers, Graph, EdgeScore, Hit, Hits
<1> QED BY <1>3, <1>4, <1>5 DEF Sources

\* The fusion keeps what is worth keeping.
LEMMA FuseKeeps ==
    ASSUME RecallInv, Fuse
    PROVE  RecallInv'
<1>1. Gathered \subseteq Hits /\ found' = found /\ kind' = kind
  BY GatheredAreHits DEF RecallInv, Fuse
<1>2. PICK ns \in SUBSET Nodes :
        LET poor  == \A r \in Gathered : r.score < FallbackThreshold
            fused == Fused(Gathered \cup (IF poor THEN Keyword(ns) ELSE {}))
        IN  \/ list' \in Top(fused, Limit) /\ reranked' = FALSE
            \/ list' \in Reranks(fused) /\ reranked' = TRUE
  BY DEF Fuse
<1> DEFINE poor == \A r \in Gathered : r.score < FallbackThreshold
           rs   == Gathered \cup (IF poor THEN Keyword(ns) ELSE {})
<1>3. rs \subseteq Hits
  BY <1>1 DEF Keyword, Fuzzy, Hit, Hits, AllTexts
<1>4. list' \in SUBSET Hits
  BY <1>2, <1>3 DEF Top, Reranks, Fused
<1>5. ASSUME ~reranked', NEW g \in Gathered, g.score >= Cut
      PROVE  \/ \E r \in list' : r.content = g.content /\ r.score >= g.score
             \/ Cardinality(AtLeast(g.score)) > Limit
  <2>1. ~poor
    BY <1>1, <1>5 DEF Cut, MixedRelevance, MinRelevance, FallbackThreshold, Hits
  <2>2. rs = Gathered /\ list' \in Top(Fused(Gathered), Limit)
    BY <1>2, <1>5, <2>1
  <2>3. Limit \in Nat
    BY RecallAssumption DEF Limit
  <2> QED BY <1>1, <2>2, <2>3, TopKeeps DEF AtLeast
<1>6. ~reranked' => Kept'
  BY <1>1, <1>5 DEF Kept, Gathered, Of, Cut, AtLeast, Limit
<1>7. \A s \in Sources : found'[s] # Pending
  BY DEF Fuse
<1> QED BY <1>1, <1>4, <1>6, <1>7 DEF RecallInv

\* A step after the fusion that drops nothing above the cut.
LEMMA LaterKeeps ==
    ASSUME RecallInv, list' \in SUBSET Hits, UNCHANGED <<kind, found>>,
           Gathering' => Gathering /\ reranked' = reranked /\ \A r \in list : r.score >= Cut => r \in list'
    PROVE  RecallInv'
<1>1. ASSUME Gathering', ~reranked'
      PROVE  Kept'
  <2>1. Kept /\ Gathered \subseteq Hits /\ list \subseteq Hits
    BY <1>1, GatheredAreHits DEF RecallInv
  <2>2. \A g \in Gathered : \A r \in list : g.score >= Cut /\ r.score >= g.score => r.score >= Cut
    BY <2>1 DEF Hits, Cut, MixedRelevance, MinRelevance
  <2>3. Gathered' = Gathered /\ Cut' = Cut /\ Limit' = Limit /\ \A x : AtLeast(x)' = AtLeast(x)
    BY DEF Gathered, Of, Cut, Limit, AtLeast
  <2> QED BY <1>1, <2>1, <2>2, <2>3 DEF Kept
<1> QED BY <1>1 DEF RecallInv

\* For any memories, nodes, texts, scores and limits: a failing source, a second copy with a lower
\* score, the limit and the cut together lose nothing that was worth keeping, unless the reranker
\* judged. Had a result not been kept, the limit's worth of others and it would be as many texts.
THEOREM WhatIsRelevantIsUsed == RecallSpec => []RelevantIsUsed
<1>1. RecallInit => RecallInv
  <2> SUFFICES ASSUME RecallInit
               PROVE  RecallInv
    OBVIOUS
  <2>1. found \in [Sources -> (SUBSET Hits) \cup {Pending, Failed}]
    BY DEF RecallInit
  <2>2. list \in SUBSET Hits /\ kind = "personal" /\ ~Gathering
    BY DEF RecallInit, Gathering
  <2> QED BY <2>1, <2>2 DEF RecallInv
<1>2. RecallInv /\ [RecallNext]_recallVars => RecallInv'
  <2> SUFFICES ASSUME RecallInv, [RecallNext]_recallVars
               PROVE  RecallInv'
    OBVIOUS
  <2>a. list \in SUBSET Hits /\ \A m \in Memories : Hit(Content[m], EntityBoost) \in Hits
    BY DEF RecallInv, EntityBoost, Hit, Hits, AllTexts
  <2>1. CASE UNCHANGED recallVars
    BY <2>1, <2>a, LaterKeeps DEF recallVars, Gathering
  <2>2. CASE \E k \in {"personal", "mixed", "general"} : Ask(k)
    BY <2>2 DEF Ask, RecallInv, Gathering
  <2>3. CASE \E s \in Sources : SourceReturns(s)
    BY <2>3, AnswersAreHits DEF SourceReturns, RecallInv, Gathering
  <2>4. CASE Fuse
    BY <2>4, FuseKeeps
  <2>5. CASE Boost
    <3>1. list' \in SUBSET Hits /\ list \subseteq list'
      BY <2>5, <2>a DEF Boost, Visible
    <3> QED BY <2>5, <3>1, LaterKeeps DEF Boost, Gathering
  <2>6. CASE Federate
    BY <2>6, <2>a, LaterKeeps DEF Federate, Gathering
  <2>7. CASE GraphRaises \/ NothingFound \/ TierTooLow \/ ModelAnswers
    BY <2>7, <2>a, LaterKeeps DEF GraphRaises, NothingFound, TierTooLow, ModelAnswers, Answered, Gathering
  <2>8. CASE ModelFails
    BY <2>8, <2>a, LaterKeeps DEF ModelFails, Answered, Gathering
  <2>9. CASE Done
    BY <2>9 DEF Done, RecallInv, Gathering
  <2>10. CASE \E m \in Memories, what \in {"outdated", "consolidated", "deleted"} : Mark(m, what)
    BY <2>10, <2>a, LaterKeeps DEF Mark, Gathering
  <2> QED BY <2>1, <2>2, <2>3, <2>4, <2>5, <2>6, <2>7, <2>8, <2>9, <2>10 DEF RecallNext
<1>3. RecallInv => RelevantIsUsed
  BY DEF RecallInv, RelevantIsUsed, Gathering, Kept
<1> QED BY <1>1, <1>2, <1>3, PTL DEF RecallSpec
=============================================================================
