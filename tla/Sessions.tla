------------------------------ MODULE Sessions ------------------------------
(***************************************************************************)
(* SessionStore of engram: the one active session is a file that any       *)
(* process may replace, read or remove (the MCP servers, the command line  *)
(* and the terminal interface); a session that ends is archived under its  *)
(* own name.  Each read or write of a file is a step.                      *)
(***************************************************************************)
EXTENDS Naturals, FiniteSets

CONSTANTS
    SessionIds,  \* what uuid4() may return
    NoSession,   \* no active.json, or none
    Users        \* processes that use the store

ASSUME SessionAssumption == IsFiniteSet(SessionIds) /\ NoSession \notin SessionIds

VARIABLES
    active,    \* active.json
    torn,      \* it was emptied and not written yet
    archived,  \* sessions with a file of their own
    user,      \* what each process is doing
    born,      \* history: sessions started
    replaced   \* history: sessions a start wrote over, or an end removed unread

sessionVars == <<active, torn, archived, user, born, replaced>>

Away == [at |-> "idle", session |-> NoSession]

SessionsInit ==
    /\ active = NoSession /\ torn = FALSE /\ archived = {}
    /\ user = [u \in Users |-> Away]
    /\ born = {} /\ replaced = {}

Goes(u, at, s) == user' = [user EXCEPT ![u] = [at |-> at, session |-> s]]

\* get_active: a file that does not parse is none.
get_active == IF torn THEN NoSession ELSE active

----------------------------------------------------------------------------
\* start(): whatever session was active is forgotten, ended or not.
StartSession(u) ==
    /\ user[u].at = "idle"
    /\ \E s \in SessionIds \ born :
        /\ born' = born \cup {s}
        /\ Goes(u, "write", s)
    /\ replaced' = replaced \cup ({active} \ {NoSession})
    /\ torn' = TRUE
    /\ UNCHANGED <<active, archived>>

\* What is written to a file that was removed meanwhile goes astray.
WriteAstray(u) ==
    /\ user[u].at = "astray"
    /\ replaced' = replaced \cup {user[u].session}
    /\ Goes(u, "idle", NoSession)
    /\ UNCHANGED <<active, torn, archived, born>>

WriteActive(u) ==
    /\ user[u].at = "write"
    /\ active' = user[u].session /\ torn' = FALSE
    /\ replaced' = replaced \cup ({active} \ {NoSession})
    /\ Goes(u, "idle", NoSession)
    /\ UNCHANGED <<archived, born>>

\* end(): the active session is read ...
ReadActive(u) ==
    /\ user[u].at = "idle" /\ get_active # NoSession
    /\ Goes(u, "archive", get_active)
    /\ UNCHANGED <<active, torn, archived, born, replaced>>

\* Mutant: the session is archived after it is removed, which does not happen if the process ends.
Archive_Late(u) ==
    /\ user[u].at = "archive"
    /\ Goes(u, "unlink", user[u].session)
    /\ UNCHANGED <<active, torn, archived, born, replaced>>

\* ... archived under its id ...
Archive(u) ==
    /\ user[u].at = "archive"
    /\ archived' = archived \cup {user[u].session}
    /\ Goes(u, "unlink", user[u].session)
    /\ UNCHANGED <<active, torn, born, replaced>>

\* ... and the file removed, whoever's it is by now.
RemoveActive(u) ==
    /\ user[u].at = "unlink"
    /\ active' = NoSession /\ torn' = FALSE
    /\ replaced' = replaced \cup ({active} \ {NoSession, user[u].session})
    /\ user' = [o \in Users |-> IF o = u THEN Away
                               ELSE IF user[o].at = "write" THEN [user[o] EXCEPT !.at = "astray"] ELSE user[o]]
    /\ UNCHANGED <<archived, born>>

\* The end of a process, in the middle of either.
KillUser(u) ==
    /\ user[u].at # "idle"
    /\ Goes(u, "idle", NoSession)
    /\ replaced' = IF user[u].at \in {"write", "astray"} THEN replaced \cup {user[u].session} ELSE replaced
    /\ UNCHANGED <<active, torn, archived, born>>

SessionsNext ==
    \E u \in Users :
        \/ StartSession(u) \/ WriteActive(u) \/ WriteAstray(u)
        \/ ReadActive(u) \/ Archive(u) \/ RemoveActive(u)
        \/ KillUser(u)

SessionsSpec == SessionsInit /\ [][SessionsNext]_sessionVars

----------------------------------------------------------------------------
\* Every session that was started is active, archived, on its way to either, or a start of another
\* session came between (session/store.py:33, 81).
SessionsAccounted ==
    \A s \in born : \/ s = active \/ s \in archived \/ s \in replaced
                    \/ \E u \in Users : user[u].session = s
=============================================================================
