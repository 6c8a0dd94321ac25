----------------------------- MODULE Providers -----------------------------
(***************************************************************************)
(* The federated search of engram: a question is put to every active       *)
(* provider at once, each under a timeout, and what comes back is merged.  *)
(* Several questions run on one event loop and share each provider's       *)
(* connection and error count; they interleave wherever the code awaits.   *)
(***************************************************************************)
EXTENDS Naturals, FiniteSets

CONSTANTS
    Providers,
    Kind,       \* [Providers -> "mcp", "rest", "postgres" or "file"]
    Questions,
    NoQuestion,
    MaxConsecutiveErrors

ASSUME ProviderAssumption ==
    /\ Kind \in [Providers -> {"mcp", "rest", "postgres", "file"}]
    /\ MaxConsecutiveErrors \in Nat \ {0} /\ NoQuestion \notin Questions

VARIABLES
    question,  \* [Questions -> "new", "searching" or "answered"]
    search,    \* [Questions -> [Providers -> where that tracked_search is]]
    conn,      \* MCP session, pool or token of each provider
    errors,    \* stats.consecutive_errors
    disabled   \* _auto_disabled

providerVars == <<question, search, conn, errors, disabled>>

NoConn     == [by |-> NoQuestion, state |-> "none"]
Usable(q)  == [by |-> q, state |-> "ready"]
HalfMade(q) == [by |-> q, state |-> "half"]

ProvidersInit ==
    /\ question = [q \in Questions |-> "new"]
    /\ search = [q \in Questions |-> [p \in Providers |-> "none"]]
    /\ conn = [p \in Providers |-> IF Kind[p] = "file" THEN Usable(NoQuestion) ELSE NoConn]
    /\ errors = [p \in Providers |-> 0]
    /\ disabled = {}

Moves(q, p, stage) == search' = [search EXCEPT ![q][p] = stage]

is_active(p) == p \notin disabled

\* A question about the agent's own decisions, errors, ... is not put to providers.
ClassifiedInternal(q) ==
    /\ question[q] = "new"
    /\ question' = [question EXCEPT ![q] = "answered"]
    /\ UNCHANGED <<search, conn, errors, disabled>>

FanOut(q) ==
    /\ question[q] = "new"
    /\ search' = [search EXCEPT ![q] = [p \in Providers |-> IF is_active(p) THEN "start" ELSE "none"]]
    /\ question' = [question EXCEPT ![q] = "searching"]
    /\ UNCHANGED <<conn, errors, disabled>>

\* tracked_search looks again, and the adapter opens what it has not got.
Begin(q, p) ==
    /\ search[q][p] = "start"
    /\ Moves(q, p, IF ~is_active(p) THEN "empty" ELSE IF conn[p] = NoConn THEN "open" ELSE "call")
    /\ UNCHANGED <<question, conn, errors, disabled>>

\* Exceptions are counted, and too many in a row disable the provider for good.
SearchFailed(q, p) ==
    /\ errors' = [errors EXCEPT ![p] = @ + 1]
    /\ disabled' = IF errors[p] + 1 >= MaxConsecutiveErrors THEN disabled \cup {p} ELSE disabled
    /\ Moves(q, p, "failed")
    /\ UNCHANGED question

\* Mutant: the session that did not start is kept.
Cleaned_Kept(p) == conn

\* The MCP adapter closes the session it finds, its own or another question's.
Cleaned(p) == IF Kind[p] = "mcp" THEN [conn EXCEPT ![p] = NoConn] ELSE conn

\* No process, no pool, no token; or a session that cannot be initialised.
OpenFails(q, p) ==
    /\ search[q][p] \in {"open", "initialize"}
    /\ conn' = Cleaned(p)
    /\ SearchFailed(q, p)

\* The MCP session is kept before it is initialised; a pool or a token when it is there.
Opened(q, p) ==
    /\ search[q][p] = "open"
    /\ conn' = [conn EXCEPT ![p] = IF Kind[p] = "mcp" THEN HalfMade(q) ELSE Usable(q)]
    /\ Moves(q, p, IF Kind[p] = "mcp" THEN "initialize" ELSE "call")
    /\ UNCHANGED <<question, errors, disabled>>

Initialized(q, p) ==
    /\ search[q][p] = "initialize"
    /\ conn' = IF conn[p] = HalfMade(q) THEN [conn EXCEPT ![p] = Usable(q)] ELSE conn
    /\ Moves(q, p, "call")
    /\ UNCHANGED <<question, errors, disabled>>

\* A token comes near its end.
ExpireToken(p) ==
    /\ Kind[p] = "rest" /\ conn[p] # NoConn
    /\ conn' = [conn EXCEPT ![p] = NoConn]
    /\ UNCHANGED <<question, search, errors, disabled>>

CallFails(q, p) ==
    /\ search[q][p] = "call"
    /\ SearchFailed(q, p) /\ UNCHANGED conn

ResetBy(p) == [errors EXCEPT ![p] = 0]

\* A session that was closed meanwhile, or is half made, answers nothing.
Returns(q, p) ==
    /\ search[q][p] = "call" /\ (Kind[p] = "mcp" => conn[p].state = "ready")
    /\ errors' = ResetBy(p)
    /\ Moves(q, p, "returned")
    /\ UNCHANGED <<question, conn, disabled>>

\* wait_for cancels the search: a CancelledError is no Exception, so nothing is counted or cleaned.
TimesOut(q, p) ==
    /\ search[q][p] \in {"start", "open", "initialize", "call"}
    /\ Moves(q, p, "timedout")
    /\ UNCHANGED <<question, conn, errors, disabled>>

\* gather(return_exceptions = True) waits for all; the answer merges what the returned ones found.
Merge(q) ==
    /\ question[q] = "searching"
    /\ \A p \in Providers : search[q][p] \in {"none", "empty", "failed", "returned", "timedout"}
    /\ question' = [question EXCEPT ![q] = "answered"]
    /\ UNCHANGED <<search, conn, errors, disabled>>

ProvidersNext ==
    \/ \E q \in Questions : ClassifiedInternal(q) \/ FanOut(q) \/ Merge(q)
    \/ \E q \in Questions, p \in Providers :
          \/ Begin(q, p) \/ OpenFails(q, p) \/ Opened(q, p) \/ Initialized(q, p)
          \/ CallFails(q, p) \/ Returns(q, p) \/ TimesOut(q, p)
    \/ \E p \in Providers : ExpireToken(p)

ProvidersSpec == ProvidersInit /\ [][ProvidersNext]_providerVars

----------------------------------------------------------------------------
\* A session that is kept and not initialised is one that is being initialised, or one whose
\* question was cancelled meanwhile (mcp_adapter.py:57).
HalfMadeHasOpener ==
    \A p \in Providers : conn[p].state = "half" =>
        search[conn[p].by][p] \in {"initialize", "timedout"}
============================================================================
