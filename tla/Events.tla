------------------------------- MODULE Events -------------------------------
(***************************************************************************)
(* WebSocket connections of engram's server and the events they are sent.  *)
(* Each connection is served by a coroutine that takes one command after   *)
(* the other; a command that writes emits an event, and the connection     *)
(* manager sends it to the tenant's other connections, one await each,     *)
(* while connections come and go.                                          *)
(***************************************************************************)
EXTENDS Naturals, FiniteSets

CONSTANTS
    Connections,
    Tenant,       \* [Connections -> tenant of its token]
    User,         \* [Connections -> subject of its token]
    AuthEnabled,  \* config: auth.enabled
    MaxCommands   \* bound: commands that write

ASSUME EventsAssumption == AuthEnabled \in BOOLEAN /\ MaxCommands \in Nat

VARIABLES
    at,         \* where the coroutine of each connection is
    link,       \* the client's end: "none", "up" or "down"
    registry,   \* _connections of the manager
    left,       \* targets a broadcast has not come to
    heard,      \* [Connections -> [Connections -> times the last event of one was sent to the other]]
    issued,     \* commands so far
    steady      \* history: connections that were open all through a command

eventVars == <<at, link, registry, left, heard, issued, steady>>

EventsInit ==
    /\ at = [k \in Connections |-> "away"] /\ link = [k \in Connections |-> "none"]
    /\ registry = {} /\ left = [k \in Connections |-> {}]
    /\ heard = [k \in Connections |-> [j \in Connections |-> 0]]
    /\ issued = 0 /\ steady = [k \in Connections |-> {}]

\* Without authentication there is one tenant and one subject.
tenant_id(k) == IF AuthEnabled THEN Tenant[k] ELSE "default"
sub(k)       == IF AuthEnabled THEN User[k] ELSE "anonymous"

Goes(k, place) == at' = [at EXCEPT ![k] = place]

----------------------------------------------------------------------------
\* A client without a valid token is turned away.
Refuse(k) ==
    /\ at[k] = "away" /\ AuthEnabled
    /\ Goes(k, "done")
    /\ UNCHANGED <<link, registry, left, heard, issued, steady>>

Accept(k) ==
    /\ at[k] = "away"
    /\ Goes(k, "accepted") /\ link' = [link EXCEPT ![k] = "up"]
    /\ UNCHANGED <<registry, left, heard, issued, steady>>

Register(k) ==
    /\ at[k] = "accepted"
    /\ registry' = registry \cup {k}
    /\ Goes(k, "receive")
    /\ UNCHANGED <<link, left, heard, issued, steady>>

\* The client leaves; the server learns of it when it next receives or sends.
Leave(k) ==
    /\ link[k] = "up"
    /\ link' = [link EXCEPT ![k] = "down"]
    /\ steady' = [j \in Connections |-> steady[j] \ {k}]
    /\ UNCHANGED <<at, registry, left, heard, issued>>

Serving(k)  == at[k] \notin {"away", "accepted", "done"}
Audience(k) == {j \in Connections \ {k} : Serving(j) /\ link[j] = "up"
                                           /\ tenant_id(j) = tenant_id(k) /\ sub(j) # sub(k)}

\* remember or feedback; the other commands, and those refused, are answered and change nothing here.
Command(k) ==
    /\ at[k] = "receive" /\ link[k] = "up" /\ issued < MaxCommands
    /\ issued' = issued + 1
    /\ heard' = [heard EXCEPT ![k] = [j \in Connections |-> 0]]
    /\ steady' = [steady EXCEPT ![k] = Audience(k)]
    /\ Goes(k, "dispatch")
    /\ UNCHANGED <<link, registry, left>>

\* The store raises: the client is told, and there is no event.
CommandFails(k) ==
    /\ at[k] = "dispatch"
    /\ Goes(k, "reply") /\ steady' = [steady EXCEPT ![k] = {}]
    /\ UNCHANGED <<link, registry, left, heard, issued>>

\* emit() and broadcast(): the targets are copied once.
Emit(k) ==
    /\ at[k] = "dispatch"
    /\ left' = [left EXCEPT ![k] = {j \in registry : tenant_id(j) = tenant_id(k) /\ sub(j) # sub(k)}]
    /\ Goes(k, "send")
    /\ UNCHANGED <<link, registry, heard, issued, steady>>

\* A send to a client that has left fails and is passed over.
Send(k) ==
    /\ at[k] = "send"
    /\ \E j \in left[k] :
        /\ left' = [left EXCEPT ![k] = @ \ {j}]
        /\ heard' = IF link[j] = "up" THEN [heard EXCEPT ![k][j] = @ + 1] ELSE heard
    /\ UNCHANGED <<at, link, registry, issued, steady>>

\* The handlers of the bus are done.  The handler emits on the bus of the module, which a bus of
\* Redis made later does not replace for it (handler.py:18), so nothing is published.
Emitted(k) ==
    /\ at[k] = "send" /\ left[k] = {}
    /\ Goes(k, "reply")
    /\ UNCHANGED <<link, registry, left, heard, issued, steady>>

Reply(k) ==
    /\ at[k] = "reply" /\ link[k] = "up"
    /\ Goes(k, "receive") /\ steady' = [steady EXCEPT ![k] = {}]
    /\ UNCHANGED <<link, registry, left, heard, issued>>

\* Mutant: the last to leave is not looked for, and the tenant's entry goes with the first.
Unregistered_Tenant(k) == {j \in registry : tenant_id(j) # tenant_id(k)}

\* discard((ws, sub)); the tenant's entry goes when it is empty.
Unregistered(k) == registry \ {k}

\* disconnect(), in the finally.
Disconnect(k) ==
    /\ at[k] \in {"receive", "reply"} /\ link[k] = "down"
    /\ registry' = Unregistered(k)
    /\ Goes(k, "done")
    /\ UNCHANGED <<link, left, heard, issued, steady>>

EventsNext ==
    \E k \in Connections :
        \/ Refuse(k) \/ Accept(k) \/ Register(k) \/ Leave(k)
        \/ Command(k) \/ CommandFails(k) \/ Emit(k) \/ Send(k) \/ Emitted(k) \/ Reply(k)
        \/ Disconnect(k)

EventsSpec == EventsInit /\ [][EventsNext]_eventVars

----------------------------------------------------------------------------
\* When an event has been sent out, each connection of the tenant and of another subject that was
\* open all the time has it once, and no other tenant's and none of the sender's has it at all.
EveryListenerHears ==
    \A k \in Connections :
        /\ at[k] = "reply" => \A j \in steady[k] : heard[k][j] = 1
        /\ \A j \in Connections : heard[k][j] > 0 =>
              heard[k][j] = 1 /\ tenant_id(j) = tenant_id(k) /\ sub(j) # sub(k)
=============================================================================
