-------------------------- MODULE BackgroundProofs --------------------------
(***************************************************************************)
(* Proofs about what works in the background, for every number of          *)
(* processes, sessions, PIDs, memories and tasks: the session store, the   *)
(* daemons and their PID files, consolidation, and the scheduler.          *)
(***************************************************************************)
EXTENDS Consolidation, Daemon, Scheduler, Sessions, FiniteSetTheorems, TLAPS

-----------------------------------------------------------------------------
(* The session store.                                                      *)

\* Where sessions and processes may be.
SessionTypes ==
    /\ born \subseteq SessionIds
    /\ user \in [Users -> [at : {"idle", "write", "astray", "archive", "unlink"},
                           session : SessionIds \cup {NoSession}]]
    /\ active \in SessionIds \cup {NoSession}

\* Where each process stands, and what became of the session it holds.
UserInv(u) ==
    /\ user[u].at = "idle" <=> user[u].session = NoSession
    /\ user[u].at = "unlink" => user[u].session \in archived
    /\ user[u].at = "archive" => user[u].session \in {active} \cup archived \cup replaced

\* The inductive invariant of the session store.
SessionInv == SessionTypes /\ (\A u \in Users : UserInv(u)) /\ SessionsAccounted

\* A process that moves on, and the others.
LEMMA UserMoves ==
    ASSUME SessionTypes, NEW u \in Users, NEW at, NEW s, Goes(u, at, s)
    PROVE  /\ user'[u].at = at /\ user'[u].session = s
           /\ \A o \in Users \ {u} : user'[o] = user[o]
           /\ (at \in {"idle", "write", "astray", "archive", "unlink"} /\ s \in SessionIds \cup {NoSession})
                => user' \in [Users -> [at : {"idle", "write", "astray", "archive", "unlink"},
                                        session : SessionIds \cup {NoSession}]]
BY DEF SessionTypes, Goes

\* No step loses a session that was not replaced.
LEMMA SessionInvNext ==
    ASSUME SessionInv, [SessionsNext]_sessionVars
    PROVE  SessionInv'
<1> USE DEF SessionInv
<1>0. NoSession \notin SessionIds
  BY SessionAssumption
<1>1. CASE UNCHANGED sessionVars
  BY <1>1 DEF sessionVars, SessionTypes, UserInv, SessionsAccounted
<1>2. ASSUME NEW u \in Users, StartSession(u)
      PROVE  SessionInv'
  <2>1. PICK s \in SessionIds \ born : born' = born \cup {s} /\ Goes(u, "write", s)
    BY <1>2 DEF StartSession
  <2>2. /\ user'[u].at = "write" /\ user'[u].session = s /\ \A o \in Users \ {u} : user'[o] = user[o]
        /\ user[u].session = NoSession /\ UNCHANGED <<active, archived>>
        /\ replaced \subseteq replaced'
    BY <1>2, <2>1, UserMoves DEF StartSession, UserInv
  <2>3. SessionTypes'
    BY <2>1, <2>2, UserMoves DEF SessionTypes
  <2>4. \A o \in Users : UserInv(o)'
    BY <1>0, <2>2 DEF UserInv
  <2>5. SessionsAccounted'
    BY <1>0, <2>1, <2>2 DEF SessionsAccounted, SessionTypes
  <2> QED BY <2>3, <2>4, <2>5
<1>3. ASSUME NEW u \in Users, WriteActive(u)
      PROVE  SessionInv'
  <2>1. /\ user'[u].at = "idle" /\ user'[u].session = NoSession /\ \A o \in Users \ {u} : user'[o] = user[o]
        /\ active' = user[u].session /\ UNCHANGED <<archived, born>>
        /\ replaced' = replaced \cup ({active} \ {NoSession})
    BY <1>3, UserMoves DEF WriteActive
  <2>2. SessionTypes'
    BY <1>3, <2>1, UserMoves DEF SessionTypes, WriteActive
  <2>3. \A o \in Users : UserInv(o)'
    BY <2>1 DEF UserInv
  <2>4. SessionsAccounted'
    BY <1>0, <2>1 DEF SessionsAccounted, SessionTypes
  <2> QED BY <2>2, <2>3, <2>4
<1>4. ASSUME NEW u \in Users, WriteAstray(u)
      PROVE  SessionInv'
  <2>1. /\ user'[u].at = "idle" /\ user'[u].session = NoSession /\ \A o \in Users \ {u} : user'[o] = user[o]
        /\ UNCHANGED <<active, archived, born>>
        /\ replaced' = replaced \cup {user[u].session}
    BY <1>4, UserMoves DEF WriteAstray
  <2>2. SessionTypes'
    BY <1>4, <2>1, UserMoves DEF SessionTypes, WriteAstray
  <2>3. \A o \in Users : UserInv(o)'
    BY <2>1 DEF UserInv
  <2>4. SessionsAccounted'
    BY <1>0, <2>1 DEF SessionsAccounted, SessionTypes
  <2> QED BY <2>2, <2>3, <2>4
<1>5. ASSUME NEW u \in Users, ReadActive(u)
      PROVE  SessionInv'
  <2>1. /\ user'[u].at = "archive" /\ user'[u].session = active /\ active # NoSession
        /\ \A o \in Users \ {u} : user'[o] = user[o]
        /\ user[u].session = NoSession /\ UNCHANGED <<active, archived, born, replaced>>
    BY <1>5, UserMoves DEF ReadActive, get_active, UserInv
  <2>2. SessionTypes'
    BY <1>5, <2>1, UserMoves DEF SessionTypes, ReadActive, get_active
  <2>3. \A o \in Users : UserInv(o)'
    BY <2>1 DEF UserInv
  <2>4. SessionsAccounted'
    BY <1>0, <2>1 DEF SessionsAccounted, SessionTypes
  <2> QED BY <2>2, <2>3, <2>4
<1>6. ASSUME NEW u \in Users, Archive(u)
      PROVE  SessionInv'
  <2>1. /\ user[u].at = "archive" /\ user'[u].at = "unlink" /\ user'[u].session = user[u].session
        /\ \A o \in Users \ {u} : user'[o] = user[o]
        /\ archived' = archived \cup {user[u].session} /\ UNCHANGED <<active, born, replaced>>
    BY <1>6, UserMoves DEF Archive
  <2>2. SessionTypes'
    BY <1>6, <2>1, UserMoves DEF SessionTypes, Archive
  <2>3. \A o \in Users : UserInv(o)'
    BY <2>1 DEF UserInv
  <2>4. SessionsAccounted'
    BY <2>1 DEF SessionsAccounted
  <2> QED BY <2>2, <2>3, <2>4
<1>7. ASSUME NEW u \in Users, RemoveActive(u)
      PROVE  SessionInv'
  <2>1. /\ user[u].session \in archived
        /\ active' = NoSession /\ UNCHANGED <<archived, born>>
        /\ replaced' = replaced \cup ({active} \ {NoSession, user[u].session})
    BY <1>7 DEF RemoveActive, UserInv
  <2>2. /\ user'[u].at = "idle" /\ user'[u].session = NoSession
        /\ \A o \in Users \ {u} :
              /\ user'[o].session = user[o].session
              /\ user'[o].at = IF user[o].at = "write" THEN "astray" ELSE user[o].at
    BY <1>7 DEF RemoveActive, Away, SessionTypes
  <2>3. SessionTypes'
    BY <1>7, <2>1 DEF SessionTypes, RemoveActive, Away
  <2>4. \A o \in Users : UserInv(o)'
    BY <2>1, <2>2 DEF UserInv
  <2>5. SessionsAccounted'
    BY <1>0, <2>1, <2>2 DEF SessionsAccounted, SessionTypes
  <2> QED BY <2>3, <2>4, <2>5
<1>8. ASSUME NEW u \in Users, KillUser(u)
      PROVE  SessionInv'
  <2>1. /\ user'[u].at = "idle" /\ user'[u].session = NoSession /\ \A o \in Users \ {u} : user'[o] = user[o]
        /\ UNCHANGED <<active, archived, born>> /\ replaced \subseteq replaced'
        /\ user[u].at \in {"write", "astray"} => user[u].session \in replaced'
    BY <1>8, UserMoves DEF KillUser
  <2>2. SessionTypes'
    BY <1>8, <2>1, UserMoves DEF SessionTypes, KillUser
  <2>3. \A o \in Users : UserInv(o)'
    BY <2>1 DEF UserInv
  <2>4. user[u].session \in {NoSession, active} \cup archived \cup replaced'
    BY <2>1 DEF UserInv, SessionTypes
  <2>5. SessionsAccounted'
    BY <1>0, <2>1, <2>4 DEF SessionsAccounted, SessionTypes
  <2> QED BY <2>2, <2>3, <2>5
<1> QED BY <1>1, <1>2, <1>3, <1>4, <1>5, <1>6, <1>7, <1>8 DEF SessionsNext

\* For any number of processes that start, read, end and die over one active.json: a session
\* that was started is active, archived, in the hands of a process, or a start came between.
THEOREM NoSessionIsLost == SessionsSpec => []SessionsAccounted
<1>1. SessionsInit => SessionInv
  BY DEF SessionsInit, SessionInv, SessionTypes, UserInv, SessionsAccounted, Away
<1>2. SessionInv /\ [SessionsNext]_sessionVars => SessionInv'
  BY SessionInvNext
<1>3. SessionInv => SessionsAccounted
  BY DEF SessionInv
<1> QED BY <1>1, <1>2, <1>3, PTL DEF SessionsSpec

-----------------------------------------------------------------------------
(* The daemons and their PID files.                                        *)

At == {"done", "read", "check", "fork", "open", "write", "astray", "kill", "unlink"}

\* What processes, PID files and commands look like; a command past its reading has a PID.
DaemonTypes ==
    /\ proc \in [Pids -> [kind : Kinds \cup {"none"}, at : {"running", "stopping", "lingering", "free", "stranger"}]]
    /\ file \in [Kinds -> Pids \cup {NoPid, Torn}]
    /\ cmd \in [Commands -> [at : At, job : {"none", "start", "stop"}, kind : Kinds \cup {"none"},
                             pid : Pids \cup {NoPid}]]
    /\ \A p \in Pids : proc[p].at \in {"running", "stopping"} => proc[p].kind \in Kinds
    /\ \A c \in Commands : cmd[c].at # "done" => cmd[c].kind \in Kinds
    /\ \A c \in Commands : cmd[c].at \in {"check", "open", "write", "astray", "kill"} => cmd[c].pid \in Pids

\* A daemon that was not told to stop.
Serves(p, k) == proc[p].kind = k /\ proc[p].at = "running"

\* Command c is at work on a daemon of kind k.
Deals(c, k) == cmd[c].at # "done" /\ cmd[c].kind = k

\* What a command on its own knows of the daemon of its kind.
Knows(c, k) ==
    /\ cmd[c].at \in {"fork", "unlink"} => \A p \in Pids : ~Serves(p, k)
    /\ cmd[c].at \in {"check", "kill"} => file[k] \in {cmd[c].pid, NoPid}
    /\ cmd[c].at \in {"open", "write"} => \A p \in Pids : Serves(p, k) => p = cmd[c].pid
    /\ cmd[c].at # "astray"

\* As long as commands came one at a time: one is under way, and a daemon is in the file
\* unless that command is about to write it there.
Orderly(k) ==
    /\ \A c, d \in Commands : Deals(c, k) /\ Deals(d, k) => c = d
    /\ \A c \in Commands : Deals(c, k) => Knows(c, k)
    /\ (\A c \in Commands : Deals(c, k) => cmd[c].at \notin {"open", "write"})
          => \A p \in Pids : Serves(p, k) => file[k] = p

\* Kinds whose files two shells used at once are excused, as in DaemonIsKnown.
DaemonInv == DaemonTypes /\ \A k \in Kinds \ raced : Orderly(k)

CmdTypes == [at : At, job : {"none", "start", "stop"}, kind : Kinds \cup {"none"}, pid : Pids \cup {NoPid}]

\* A command goes to a place with a PID; another shell's open file may have gone astray.
Steps(c, at, pid) ==
    /\ cmd' \in [Commands -> CmdTypes]
    /\ cmd'[c].at = at /\ cmd'[c].pid = pid /\ cmd'[c].job = cmd[c].job /\ cmd'[c].kind = cmd[c].kind
    /\ \A d \in Commands \ {c} :
          /\ cmd'[d].pid = cmd[d].pid /\ cmd'[d].job = cmd[d].job /\ cmd'[d].kind = cmd[d].kind
          /\ \/ cmd'[d].at = cmd[d].at
             \/ cmd[d].at = "write" /\ cmd'[d].at = "astray" /\ cmd[d].kind = cmd[c].kind

\* A command that goes on with the PID it has.
LEMMA StepsAt ==
    ASSUME DaemonTypes, NEW c \in Commands, NEW at \in At,
           \/ cmd' = [cmd EXCEPT ![c].at = at]
           \/ at # "write" /\ cmd' = Unlinked(cmd[c].kind, [cmd EXCEPT ![c].at = at])
    PROVE  Steps(c, at, cmd[c].pid)
<1>1. cmd \in [Commands -> CmdTypes] /\ cmd[c] \in CmdTypes
  BY DEF DaemonTypes, CmdTypes
<1> DEFINE r == [cmd[c] EXCEPT !.at = at]
           w == [cmd EXCEPT ![c] = r]
<1>2. r \in CmdTypes /\ r.at = at /\ r.pid = cmd[c].pid /\ r.job = cmd[c].job /\ r.kind = cmd[c].kind
  BY <1>1 DEF CmdTypes
<1>3. [cmd EXCEPT ![c].at = at] = w
  BY <1>1
<1> HIDE DEF r
<1>4. w \in [Commands -> CmdTypes] /\ w[c] = r /\ \A d \in Commands \ {c} : w[d] = cmd[d]
  BY <1>1, <1>2
<1> HIDE DEF w
<1>5. CASE cmd' = w
  BY <1>2, <1>4, <1>5 DEF Steps
<1>6. CASE at # "write" /\ cmd' = Unlinked(cmd[c].kind, w)
  <2>1. \A d \in Commands : cmd'[d] = IF w[d].at = "write" /\ w[d].kind = cmd[c].kind
                                         THEN [w[d] EXCEPT !.at = "astray"] ELSE w[d]
    BY <1>6 DEF Unlinked
  <2>2. ASSUME NEW d \in Commands
        PROVE  [w[d] EXCEPT !.at = "astray"] \in CmdTypes
               /\ [w[d] EXCEPT !.at = "astray"].at = "astray" /\ [w[d] EXCEPT !.at = "astray"].pid = w[d].pid
               /\ [w[d] EXCEPT !.at = "astray"].job = w[d].job /\ [w[d] EXCEPT !.at = "astray"].kind = w[d].kind
    BY <1>4 DEF CmdTypes, At
  <2>3. cmd'[c] = r
    BY <1>2, <1>4, <1>6, <2>1
  <2>4. cmd' \in [Commands -> CmdTypes]
    <3>1. cmd' = [d \in Commands |-> IF w[d].at = "write" /\ w[d].kind = cmd[c].kind
                                        THEN [w[d] EXCEPT !.at = "astray"] ELSE w[d]]
      BY <1>6 DEF Unlinked
    <3> QED BY <1>4, <2>2, <3>1
  <2>5. ASSUME NEW d \in Commands \ {c}
        PROVE  /\ cmd'[d].pid = cmd[d].pid /\ cmd'[d].job = cmd[d].job /\ cmd'[d].kind = cmd[d].kind
               /\ \/ cmd'[d].at = cmd[d].at
                  \/ cmd[d].at = "write" /\ cmd'[d].at = "astray" /\ cmd[d].kind = cmd[c].kind
    <3>1. w[d] = cmd[d]
      BY <1>4
    <3>2. CASE w[d].at = "write" /\ w[d].kind = cmd[c].kind
      <4>1. cmd'[d] = [w[d] EXCEPT !.at = "astray"]
        BY <2>1, <3>2
      <4> QED BY <2>2, <3>1, <3>2, <4>1
    <3>3. CASE ~(w[d].at = "write" /\ w[d].kind = cmd[c].kind)
      BY <2>1, <3>1, <3>3
    <3> QED BY <3>2, <3>3
  <2> QED BY <1>2, <2>3, <2>4, <2>5 DEF Steps
<1> QED BY <1>3, <1>5, <1>6

\* A command that goes on with another PID.
LEMMA StepsWith ==
    ASSUME DaemonTypes, NEW c \in Commands, NEW at \in At, NEW p \in Pids,
           cmd' = [cmd EXCEPT ![c].at = at, ![c].pid = p]
    PROVE  Steps(c, at, p)
<1>1. cmd \in [Commands -> CmdTypes] /\ cmd[c] \in CmdTypes
  BY DEF DaemonTypes, CmdTypes
<1> DEFINE r == [cmd[c] EXCEPT !.at = at, !.pid = p]
<1>2. r \in CmdTypes /\ r.at = at /\ r.pid = p /\ r.job = cmd[c].job /\ r.kind = cmd[c].kind
  BY <1>1 DEF CmdTypes
<1>3. cmd' = [cmd EXCEPT ![c] = r]
  BY <1>1
<1> HIDE DEF r
<1> QED BY <1>1, <1>2, <1>3 DEF Steps

\* Types that a step of a command keeps.
LEMMA StepsTypes ==
    ASSUME DaemonTypes, NEW c \in Commands, cmd[c].at # "done", NEW at, NEW p, Steps(c, at, p),
           at \in {"check", "open", "write", "astray", "kill"} => p \in Pids,
           file' \in [Kinds -> Pids \cup {NoPid, Torn}],
           proc' \in [Pids -> [kind : Kinds \cup {"none"}, at : {"running", "stopping", "lingering", "free", "stranger"}]],
           \A q \in Pids : proc'[q].at \in {"running", "stopping"} => proc'[q].kind \in Kinds
    PROVE  DaemonTypes'
<1>1. \A d \in Commands : cmd'[d].at # "done" => cmd'[d].kind \in Kinds
  BY DEF Steps, DaemonTypes
<1>2. \A d \in Commands : cmd'[d].at \in {"check", "open", "write", "astray", "kill"} => cmd'[d].pid \in Pids
  BY DEF Steps, DaemonTypes
<1> QED BY <1>1, <1>2 DEF Steps, DaemonTypes, CmdTypes

\* The other kind of daemon is not concerned.
LEMMA OtherKind ==
    ASSUME DaemonTypes, NEW c \in Commands, cmd[c].at # "done", NEW at, NEW p, Steps(c, at, p),
           NEW j \in Kinds, j # cmd[c].kind, Orderly(j), file'[j] = file[j],
           \A q \in Pids : Serves(q, j)' => Serves(q, j)
    PROVE  Orderly(j)'
<1>1. \A d \in Commands : /\ Deals(d, j)' <=> Deals(d, j)
                          /\ Deals(d, j) => cmd'[d].at = cmd[d].at /\ cmd'[d].pid = cmd[d].pid
  BY DEF Steps, Deals
<1>2. \A d \in Commands : Deals(d, j) => Knows(d, j)'
  <2> SUFFICES ASSUME NEW d \in Commands, Deals(d, j)
               PROVE  Knows(d, j)'
    OBVIOUS
  <2>1. Knows(d, j) /\ cmd'[d].at = cmd[d].at /\ cmd'[d].pid = cmd[d].pid
    BY <1>1 DEF Orderly
  <2> QED BY <2>1 DEF Knows
<1> QED BY <1>1, <1>2 DEF Orderly

\* The kind a command deals with, when it is the only one to.
LEMMA SameKind ==
    ASSUME DaemonTypes, NEW c \in Commands, cmd[c].at # "done", NEW at, NEW p, Steps(c, at, p),
           NEW k \in Kinds, k = cmd[c].kind, Orderly(k), at = "done" \/ Knows(c, k)',
           at \notin {"open", "write"} => \A q \in Pids : Serves(q, k)' => file'[k] = q
    PROVE  Orderly(k)'
<1>1. \A d \in Commands \ {c} : ~Deals(d, k) /\ ~Deals(d, k)'
  BY DEF Orderly, Deals, Steps
<1>2. Deals(c, k)' <=> at # "done"
  BY DEF Deals, Steps
<1> QED BY <1>1, <1>2 DEF Orderly, Steps

\* A step of a command, from what it does to the daemons and files of either kind.
LEMMA DaemonStep ==
    ASSUME DaemonInv, NEW c \in Commands, cmd[c].at # "done", NEW at, NEW p, Steps(c, at, p),
           DaemonTypes', raced' = raced, NEW k \in Kinds, k = cmd[c].kind,
           \A j \in Kinds \ {k} : /\ file'[j] = file[j]
                                 /\ \A q \in Pids : Serves(q, j)' => Serves(q, j),
           k \notin raced =>
              /\ at = "done" \/ Knows(c, k)'
              /\ at \notin {"open", "write"} => \A q \in Pids : Serves(q, k)' => file'[k] = q
    PROVE  DaemonInv'
<1>1. \A j \in Kinds \ raced : Orderly(j)'
  <2> SUFFICES ASSUME NEW j \in Kinds \ raced
               PROVE  Orderly(j)'
    OBVIOUS
  <2>1. CASE j = k
    BY <2>1, SameKind DEF DaemonInv
  <2>2. CASE j # k
    BY <2>2, OtherKind DEF DaemonInv
  <2> QED BY <2>1, <2>2
<1> QED BY <1>1 DEF DaemonInv

\* What a command knows while it is the only one of its kind.
LEMMA KnowsNow ==
    ASSUME DaemonInv, NEW c \in Commands, cmd[c].at # "done", cmd[c].kind \notin raced
    PROVE  /\ Knows(c, cmd[c].kind)
           /\ cmd[c].at \notin {"open", "write"} =>
                 \A q \in Pids : Serves(q, cmd[c].kind) => file[cmd[c].kind] = q
<1>1. cmd[c].kind \in Kinds /\ Deals(c, cmd[c].kind)
  BY DEF DaemonInv, DaemonTypes, Deals
<1> QED BY <1>1 DEF DaemonInv, Orderly, Deals

\* A command begins, beside another or on its own.
LEMMA CommandKeeps ==
    ASSUME DaemonInv, NEW c \in Commands, NEW job \in {"start", "stop"}, NEW k \in Kinds, Command(c, job, k)
    PROVE  DaemonInv'
<1> DEFINE r == [NoCommand EXCEPT !.at = "read", !.job = job, !.kind = k]
<1>1. r \in CmdTypes /\ r.at = "read" /\ r.kind = k
  BY DEF CmdTypes, NoCommand, At
<1>2. cmd' = [cmd EXCEPT ![c] = r] /\ cmd[c].at = "done" /\ UNCHANGED <<proc, file>>
      /\ raced' = IF InFlight(k) = {} THEN raced ELSE raced \cup {k}
  BY DEF Command
<1> HIDE DEF r
<1>3. cmd' \in [Commands -> CmdTypes] /\ cmd'[c] = r /\ \A d \in Commands \ {c} : cmd'[d] = cmd[d]
  BY <1>1, <1>2 DEF DaemonInv, DaemonTypes, CmdTypes
<1>4. DaemonTypes'
  BY <1>1, <1>2, <1>3 DEF DaemonInv, DaemonTypes, CmdTypes
<1>5. ASSUME NEW j \in Kinds, j \notin raced'
      PROVE  Orderly(j)'
  <2>1. Orderly(j) /\ (j = k => \A d \in Commands : ~Deals(d, k))
    BY <1>2, <1>5 DEF DaemonInv, InFlight, Deals
  <2>2. \A d \in Commands : Deals(d, j)' <=> Deals(d, j) \/ (d = c /\ j = k)
    BY <1>1, <1>2, <1>3 DEF Deals
  <2>3. \A d \in Commands : Deals(d, j)' => Knows(d, j)'
    BY <1>1, <1>2, <1>3, <2>1, <2>2 DEF Orderly, Knows, Serves, Deals
  <2>4. \A d, e \in Commands : Deals(d, j)' /\ Deals(e, j)' => d = e
    BY <2>1, <2>2 DEF Orderly
  <2>5. (\A d \in Commands : Deals(d, j)' => cmd'[d].at \notin {"open", "write"}) =>
           \A p \in Pids : Serves(p, j)' => file'[j] = p
    BY <1>1, <1>2, <1>3, <2>1, <2>2 DEF Orderly, Serves, Deals
  <2> QED BY <2>3, <2>4, <2>5 DEF Orderly
<1> QED BY <1>4, <1>5 DEF DaemonInv

\* A command looks at the PID file, and at the process it names.
LEMMA LookKeeps ==
    ASSUME DaemonInv, NEW c \in Commands, Read(c) \/ Check(c)
    PROVE  DaemonInv'
<1>0. PICK k \in Kinds : k = cmd[c].kind
  BY DEF DaemonInv, DaemonTypes, Read, Check, Fork, Open, Write, Kill, Unlink
<1>a. /\ cmd[c].at \in {"read", "check"} /\ DaemonTypes
      /\ file \in [Kinds -> Pids \cup {NoPid, Torn}] /\ UNCHANGED <<proc, raced>>
  BY DEF Read, Check, DaemonInv, DaemonTypes
<1>b. NoPid \notin Pids /\ Torn \notin Pids \cup {NoPid}
  BY DaemonAssumption
<1>c. k \notin raced => Knows(c, k) /\ \A q \in Pids : Serves(q, k) => file[k] = q
  BY <1>0, <1>a, KnowsNow
<1>d. \A q \in Pids, j \in Kinds : Serves(q, j)' => Serves(q, j)
  BY <1>a DEF Serves
<1>1. ASSUME NEW at \in {"done", "fork", "kill", "check"}, NEW p \in Pids \cup {NoPid}, Steps(c, at, p),
             at \in {"check", "kill"} => p \in Pids,
             \/ file' = file
             \/ file' = [file EXCEPT ![k] = NoPid] /\ at \in {"done", "fork"},
             k \notin raced =>
                /\ at = "fork" => \A q \in Pids : ~Serves(q, k)
                /\ at \in {"check", "kill"} => file[k] \in {p, NoPid}
                /\ file' # file => \A q \in Pids : ~Serves(q, k)
      PROVE  DaemonInv'
  <2>1. file' \in [Kinds -> Pids \cup {NoPid, Torn}] /\ \A j \in Kinds \ {k} : file'[j] = file[j]
    BY <1>a, <1>1
  <2>2. DaemonTypes'
    BY <1>a, <1>1, <2>1, StepsTypes DEF DaemonTypes
  <2>3. k \notin raced => at = "done" \/ Knows(c, k)'
    BY <1>1, <1>d DEF Knows, Steps
  <2>4. k \notin raced => \A q \in Pids : Serves(q, k)' => file'[k] = q
    BY <1>1, <1>a, <1>c, <1>d
  <2> QED BY <1>0, <1>1, <1>a, <1>d, <2>1, <2>2, <2>3, <2>4, DaemonStep
<1>2. ASSUME NEW at \in At \ {"write"},
             cmd' = [cmd EXCEPT ![c].at = at] \/ cmd' = Unlinked(k, [cmd EXCEPT ![c].at = at])
      PROVE  Steps(c, at, cmd[c].pid)
  BY <1>0, <1>2, <1>a, StepsAt
<1>e. NotRunning(c) \in {"done", "fork"} /\ {"done", "fork", "kill", "check"} \subseteq At \ {"write"}
  BY DEF NotRunning, At
<1>f. cmd[c].pid \in Pids \cup {NoPid}
  BY <1>a DEF DaemonTypes
<1>3. CASE Read(c)
  <2>1. CASE file[k] = NoPid /\ cmd' = [cmd EXCEPT ![c].at = NotRunning(c)] /\ file' = file
    <3>1. k \notin raced => \A q \in Pids : ~Serves(q, k)
      BY <1>b, <1>c, <2>1
    <3> QED BY <1>1, <1>2, <1>e, <1>f, <2>1, <3>1
  <2>2. CASE /\ file[k] = Torn /\ file' = [file EXCEPT ![k] = NoPid]
             /\ cmd' = Unlinked(k, [cmd EXCEPT ![c].at = NotRunning(c)])
    <3>1. k \notin raced => \A q \in Pids : ~Serves(q, k)
      BY <1>b, <1>c, <2>2
    <3> QED BY <1>1, <1>2, <1>e, <1>f, <2>2, <3>1
  <2>3. CASE file[k] = Torn /\ cmd' = [cmd EXCEPT ![c].at = "done"] /\ file' = file
    BY <1>1, <1>2, <1>e, <1>f, <2>3
  <2>4. CASE /\ file[k] \in Pids /\ file' = file
             /\ cmd' = [cmd EXCEPT ![c].at = IF Verifies(c) THEN "check" ELSE "kill", ![c].pid = file[k]]
    <3>1. Steps(c, IF Verifies(c) THEN "check" ELSE "kill", file[k])
      BY <1>a, <1>e, <2>4, StepsWith
    <3> QED BY <1>1, <2>4, <3>1
  <2> QED BY <1>0, <1>3, <2>1, <2>2, <2>3, <2>4 DEF Read
<1>4. CASE Check(c)
  <2> DEFINE p == cmd[c].pid
  <2>1. p \in Pids /\ (k \notin raced => file[k] \in {p, NoPid})
    BY <1>4, <1>a, <1>c DEF Check, DaemonTypes, Knows
  <2>2. CASE /\ cmd' = [cmd EXCEPT ![c].at = IF cmd[c].job = "start" THEN "done" ELSE "kill"]
             /\ file' = file
    BY <1>1, <1>2, <1>e, <2>1, <2>2
  <2>3. CASE /\ ~Alive(p) /\ file' = [file EXCEPT ![k] = NoPid]
             /\ cmd' = Unlinked(k, [cmd EXCEPT ![c].at = NotRunning(c)])
    <3>1. ~Serves(p, k)
      BY <1>a, <2>3 DEF Alive, Engram, Serves
    <3>2. k \notin raced => \A q \in Pids : ~Serves(q, k)
      BY <1>b, <1>c, <2>1, <3>1
    <3> QED BY <1>1, <1>2, <1>e, <1>f, <2>3, <3>2
  <2> QED BY <1>0, <1>4, <2>2, <2>3 DEF Check
<1> QED BY <1>3, <1>4

\* A start forks its daemon and writes the PID file.
LEMMA StartKeeps ==
    ASSUME DaemonInv, NEW c \in Commands, Fork(c) \/ Open(c) \/ Write(c)
    PROVE  DaemonInv'
<1>0. PICK k \in Kinds : k = cmd[c].kind
  BY DEF DaemonInv, DaemonTypes, Read, Check, Fork, Open, Write, Kill, Unlink
<1>a. /\ cmd[c].at # "done" /\ DaemonTypes /\ raced' = raced
      /\ file \in [Kinds -> Pids \cup {NoPid, Torn}]
      /\ {"open", "write", "done"} \subseteq At
  BY DEF Fork, Open, Write, DaemonInv, DaemonTypes, At
<1>b. k \notin raced => Knows(c, k)
  BY <1>0, <1>a, KnowsNow
<1>1. CASE Fork(c)
  <2>1. PICK p \in Pids : /\ proc[p] = Free
                         /\ proc' = [proc EXCEPT ![p] = Running(k)]
                         /\ cmd' = [cmd EXCEPT ![c].at = "open", ![c].pid = p]
    BY <1>0, <1>1 DEF Fork
  <2>2. Steps(c, "open", p) /\ file' = file /\ cmd[c].at = "fork"
    BY <1>1, <1>a, <2>1, StepsWith DEF Fork
  <2>3. /\ \A q \in Pids \ {p} : proc'[q] = proc[q]
        /\ proc'[p].kind = k /\ proc'[p].at = "running"
        /\ proc' \in [Pids -> [kind : Kinds \cup {"none"}, at : {"running", "stopping", "lingering", "free", "stranger"}]]
    BY <1>a, <2>1 DEF DaemonTypes, Running
  <2>4. DaemonTypes'
    BY <1>a, <2>2, <2>3, StepsTypes DEF DaemonTypes
  <2>5. \A j \in Kinds \ {k}, q \in Pids : Serves(q, j)' => Serves(q, j)
    BY <2>3 DEF Serves
  <2>6. k \notin raced => Knows(c, k)'
    BY <1>b, <2>2, <2>3 DEF Knows, Steps, Serves
  <2> QED BY <1>0, <1>a, <2>2, <2>4, <2>5, <2>6, DaemonStep
<1>2. CASE Open(c)
  <2>1. /\ Steps(c, "write", cmd[c].pid) /\ cmd[c].at = "open" /\ cmd[c].pid \in Pids
        /\ file' = [file EXCEPT ![k] = Torn] /\ proc' = proc
    BY <1>0, <1>2, <1>a, StepsAt DEF Open, DaemonTypes
  <2>2. file' \in [Kinds -> Pids \cup {NoPid, Torn}] /\ \A j \in Kinds \ {k} : file'[j] = file[j]
    BY <1>a, <2>1
  <2>3. DaemonTypes'
    BY <1>a, <2>1, <2>2, StepsTypes DEF DaemonTypes
  <2>4. k \notin raced => Knows(c, k)'
    BY <1>b, <2>1 DEF Knows, Steps, Serves
  <2> QED BY <1>0, <1>a, <2>1, <2>2, <2>3, <2>4, DaemonStep DEF Serves
<1>3. CASE Write(c)
  <2>1. /\ Steps(c, "done", cmd[c].pid) /\ cmd[c].at \in {"write", "astray"} /\ cmd[c].pid \in Pids
        /\ file' = IF cmd[c].at = "write" THEN [file EXCEPT ![k] = cmd[c].pid] ELSE file
        /\ proc' = proc
    BY <1>0, <1>3, <1>a, StepsAt DEF Write, DaemonTypes
  <2>2. file' \in [Kinds -> Pids \cup {NoPid, Torn}] /\ \A j \in Kinds \ {k} : file'[j] = file[j]
    BY <1>a, <2>1
  <2>3. DaemonTypes'
    BY <1>a, <2>1, <2>2, StepsTypes DEF DaemonTypes
  <2>4. k \notin raced => \A q \in Pids : Serves(q, k)' => file'[k] = q
    BY <1>a, <1>b, <2>1 DEF Knows, Serves
  <2> QED BY <1>0, <1>a, <2>1, <2>2, <2>3, <2>4, DaemonStep DEF Serves
<1> QED BY <1>1, <1>2, <1>3

\* A stop signals what the file named, and removes the file.
LEMMA StopKeeps ==
    ASSUME DaemonInv, NEW c \in Commands, Kill(c) \/ Unlink(c)
    PROVE  DaemonInv'
<1>0. PICK k \in Kinds : k = cmd[c].kind
  BY DEF DaemonInv, DaemonTypes, Read, Check, Fork, Open, Write, Kill, Unlink
<1>a. /\ cmd[c].at \in {"kill", "unlink"} /\ DaemonTypes /\ raced' = raced
      /\ file \in [Kinds -> Pids \cup {NoPid, Torn}]
      /\ {"unlink", "done"} \subseteq At
  BY DEF Kill, Unlink, DaemonInv, DaemonTypes, At
<1>b. k \notin raced => Knows(c, k) /\ \A q \in Pids : Serves(q, k) => file[k] = q
  BY <1>0, <1>a, KnowsNow
<1>1. CASE Kill(c)
  <2> DEFINE p == cmd[c].pid
  <2>1. p \in Pids /\ Steps(c, "unlink", p) /\ file' = file /\ cmd[c].at = "kill"
    BY <1>1, <1>a, StepsAt DEF Kill, DaemonTypes
  <2>2. proc' = [proc EXCEPT ![p] = IF proc[p].at = "running" THEN Stopping(proc[p].kind)
                                    ELSE IF proc[p] = Stranger THEN Free ELSE proc[p]]
    BY <1>1, <1>a DEF Kill, DaemonTypes
  <2> HIDE DEF p
  <2>3. proc[p] \in [kind : Kinds \cup {"none"}, at : {"running", "stopping", "lingering", "free", "stranger"}]
    BY <1>a, <2>1 DEF DaemonTypes
  <2>4. /\ \A q \in Pids \ {p} : proc'[q] = proc[q]
        /\ proc'[p] \in [kind : Kinds \cup {"none"}, at : {"running", "stopping", "lingering", "free", "stranger"}]
        /\ proc'[p].at # "running"
        /\ proc'[p].at = "stopping" => (proc[p].at = "running" /\ proc'[p].kind = proc[p].kind) \/ proc'[p] = proc[p]
    BY <1>a, <2>1, <2>2, <2>3 DEF DaemonTypes, Stopping, Free
  <2>5. /\ proc' \in [Pids -> [kind : Kinds \cup {"none"}, at : {"running", "stopping", "lingering", "free", "stranger"}]]
        /\ \A q \in Pids : proc'[q].at \in {"running", "stopping"} => proc'[q].kind \in Kinds
    BY <1>a, <2>1, <2>2, <2>4 DEF DaemonTypes
  <2>6. DaemonTypes'
    BY <1>a, <2>1, <2>5, StepsTypes DEF DaemonTypes
  <2>7. \A q \in Pids, j \in Kinds : Serves(q, j)' => Serves(q, j) /\ q # p
    BY <2>4 DEF Serves
  <2>8. k \notin raced => \A q \in Pids : ~Serves(q, k)'
    <3>1. k \notin raced => file[k] \in {p, NoPid}
      BY <1>b, <2>1 DEF Knows, p
    <3> QED BY <1>b, <2>7, <3>1, DaemonAssumption
  <2>9. k \notin raced => Knows(c, k)'
    BY <2>1, <2>8 DEF Knows, Steps
  <2> QED BY <1>0, <1>a, <2>1, <2>6, <2>7, <2>8, <2>9, DaemonStep
<1>2. CASE Unlink(c)
  <2>1. /\ Steps(c, "done", cmd[c].pid) /\ cmd[c].at = "unlink"
        /\ file' = [file EXCEPT ![k] = NoPid] /\ proc' = proc
    BY <1>0, <1>2, <1>a, StepsAt DEF Unlink
  <2>2. file' \in [Kinds -> Pids \cup {NoPid, Torn}] /\ \A j \in Kinds \ {k} : file'[j] = file[j]
    BY <1>a, <2>1
  <2>3. DaemonTypes'
    BY <1>a, <2>1, <2>2, StepsTypes DEF DaemonTypes
  <2>4. k \notin raced => \A q \in Pids : ~Serves(q, k)
    BY <1>b, <2>1 DEF Knows
  <2> QED BY <1>0, <1>a, <2>1, <2>2, <2>3, <2>4, DaemonStep DEF Serves
<1> QED BY <1>1, <1>2

\* The processes end, crash and give their PIDs back.
LEMMA EndKeeps ==
    ASSUME DaemonInv, NEW p \in Pids, Stops(p) \/ Dies(p) \/ Reused(p)
    PROVE  DaemonInv'
<1>a. /\ DaemonTypes /\ cmd' = cmd /\ raced' = raced
      /\ file \in [Kinds -> Pids \cup {NoPid, Torn}]
      /\ proc[p] \in [kind : Kinds \cup {"none"}, at : {"running", "stopping", "lingering", "free", "stranger"}]
  BY DEF Stops, Cleanup, Dies, Reused, DaemonInv, DaemonTypes
<1>b. PICK r \in {Lingering, Free, Stranger} : proc' = [proc EXCEPT ![p] = r]
  BY <1>a DEF Stops, Dies, Reused, DaemonTypes
<1>c. /\ r \in [kind : Kinds \cup {"none"}, at : {"running", "stopping", "lingering", "free", "stranger"}]
      /\ r.at \notin {"running", "stopping"}
  BY DEF Lingering, Free, Stranger, Kinds
<1>d. (\A q \in Pids \ {p} : proc'[q] = proc[q]) /\ proc'[p] = r
      /\ proc' \in [Pids -> [kind : Kinds \cup {"none"}, at : {"running", "stopping", "lingering", "free", "stranger"}]]
  BY <1>a, <1>b, <1>c DEF DaemonTypes
<1>e. \A q \in Pids, k \in Kinds : Serves(q, k)' => Serves(q, k) /\ q # p
  BY <1>c, <1>d DEF Serves
<1>f. \A k \in Kinds : file'[k] = file[k] \/ (file[k] = p /\ file'[k] = NoPid)
  <2>1. CASE Stops(p)
    <3>1. PICK j : j = proc[p].kind
      OBVIOUS
    <3>2. file' = [file EXCEPT ![j] = IF @ = p THEN NoPid ELSE @]
      BY <2>1, <3>1 DEF Stops, Cleanup
    <3> QED BY <1>a, <3>2
  <2> QED BY <2>1 DEF Dies, Reused
<1>g. file' \in [Kinds -> Pids \cup {NoPid, Torn}]
  <2>1. CASE Stops(p)
    <3>1. PICK j : j = proc[p].kind
      OBVIOUS
    <3>2. file' = [file EXCEPT ![j] = IF @ = p THEN NoPid ELSE @]
      BY <2>1, <3>1 DEF Stops, Cleanup
    <3> QED BY <1>a, <3>2
  <2> QED BY <1>a, <2>1 DEF Dies, Reused
<1>1. DaemonTypes'
  BY <1>a, <1>c, <1>d, <1>g DEF DaemonTypes
<1>2. ASSUME NEW k \in Kinds \ raced
      PROVE  Orderly(k)'
  <2>1. Orderly(k) /\ \A c \in Commands : Deals(c, k)' <=> Deals(c, k)
    BY <1>a DEF DaemonInv, Deals
  <2>2. \A c \in Commands : Deals(c, k) => Knows(c, k)'
    <3> SUFFICES ASSUME NEW c \in Commands, Deals(c, k)
                 PROVE  Knows(c, k)'
      OBVIOUS
    <3>1. Knows(c, k)
      BY <2>1 DEF Orderly
    <3>2. file[k] \in {cmd[c].pid, NoPid} => file'[k] \in {cmd[c].pid, NoPid}
      BY <1>f
    <3> QED BY <1>a, <1>e, <3>1, <3>2 DEF Knows
  <2>3. (\A c \in Commands : Deals(c, k) => cmd[c].at \notin {"open", "write"})
           => \A q \in Pids : Serves(q, k)' => file'[k] = q
    BY <1>e, <1>f, <2>1 DEF Orderly
  <2> QED BY <1>a, <2>1, <2>2, <2>3 DEF Orderly
<1> QED BY <1>a, <1>1, <1>2 DEF DaemonInv

\* For any number of PIDs, commands, crashes and reused PIDs: unless two commands for one kind
\* of daemon ran at once, its PID file names every daemon that was not told to stop, so a
\* start never leaves a second one behind. What is inductive is what the one command under
\* way knows between two of its steps.
THEOREM DaemonsAreKnown == DaemonSpec => []DaemonIsKnown
<1>1. DaemonInit => DaemonInv
  <2> SUFFICES ASSUME DaemonInit
               PROVE  DaemonInv
    OBVIOUS
  <2>1. \A c \in Commands : cmd[c] = NoCommand /\ cmd[c].at = "done"
    BY DEF DaemonInit, NoCommand
  <2>2. \A p \in Pids : proc[p] = Free /\ proc[p].at = "free"
    BY DEF DaemonInit, Free
  <2>3. DaemonTypes
    BY <2>1, <2>2 DEF DaemonInit, DaemonTypes, NoCommand, Free, At
  <2>4. \A k \in Kinds : Orderly(k)
    BY <2>1, <2>2 DEF Orderly, Deals, Serves
  <2> QED BY <2>3, <2>4 DEF DaemonInv
<1>2. DaemonInv /\ [DaemonNext]_daemonVars => DaemonInv'
  <2> SUFFICES ASSUME DaemonInv, [DaemonNext]_daemonVars
               PROVE  DaemonInv'
    OBVIOUS
  <2>1. CASE UNCHANGED daemonVars
    BY <2>1 DEF daemonVars, DaemonInv, DaemonTypes, Orderly, Deals, Knows, Serves
  <2>2. CASE \E c \in Commands, job \in {"start", "stop"}, k \in Kinds : Command(c, job, k)
    BY <2>2, CommandKeeps
  <2>3. CASE \E c \in Commands : Read(c) \/ Check(c) \/ Fork(c) \/ Open(c) \/ Write(c) \/ Kill(c) \/ Unlink(c)
    BY <2>3, LookKeeps, StartKeeps, StopKeeps
  <2>4. CASE \E p \in Pids : Stops(p) \/ Dies(p) \/ Reused(p)
    BY <2>4, EndKeeps
  <2> QED BY <2>1, <2>2, <2>3, <2>4 DEF DaemonNext
<1>3. DaemonInv => DaemonIsKnown
  <2> SUFFICES ASSUME DaemonInv, NEW p \in Pids, NEW k \in Kinds,
                      proc[p] = Running(k), InFlight(k) = {}, k \notin raced
               PROVE  file[k] = p
    BY DEF DaemonIsKnown
  <2>1. Serves(p, k) /\ \A c \in Commands : ~Deals(c, k)
    BY DEF Serves, Running, Deals, InFlight
  <2> QED BY <2>1 DEF DaemonInv, Orderly
<1> QED BY <1>1, <1>2, <1>3, PTL DEF DaemonSpec
-----------------------------------------------------------------------------
(* Consolidation.                                                          *)

Runs == [at : {"idle", "next", "summary", "mark"}, rest : SUBSET Memories, cluster : SUBSET Memories,
         summary : Memories \cup {NoSummary}, left : SUBSET Memories, alone : BOOLEAN]

\* What a run of the engine and its traces look like.
RunTypes ==
    /\ live \subseteq Memories /\ waiting \subseteq Summaries
    /\ into \in [Memories -> Memories \cup {NoSummary}]
    /\ covers \in [Summaries -> SUBSET Memories]
    /\ run \in [Runners -> Runs]

\* A run on its own has no other beside it.
RunShape(r) ==
    /\ run[r].at = "idle" => run[r].rest = {}
    /\ run[r].at \in {"idle", "next"} => run[r].cluster = {}
    /\ run[r].at = "summary" => run[r].cluster # {}
    /\ run[r].at = "mark" => run[r].summary \in Memories /\ run[r].left \subseteq run[r].cluster
    /\ run[r].rest \cap run[r].cluster = {}
    /\ run[r].at # "idle" /\ run[r].alone => \A o \in Runners \ {r} : run[o].at = "idle"

Held(m)    == \E r \in Runners : m \in run[r].rest \cup run[r].cluster
Covered(m) == \E s \in Summaries : m \in covers[s]
Marked(m)  == into[m] # NoSummary \/ m \notin live

\* A memory that was stored does not wait, and a summary that was stored was written for a cluster.
Settled(m) == m \notin waiting /\ (m \in Summaries => covers[m] # {})

\* One summary at most covers m.
Once(m) == \A s, t \in Summaries : m \in covers[s] /\ m \in covers[t] => s = t

\* What keeps a memory from being summarised again: its run overlaps another, or is on its
\* own and about to mark it, or has marked it, so that no later snapshot has it.
Protected(m) ==
    \/ \E r \in Runners : run[r].at = "mark" /\ ~run[r].alone /\ m \in run[r].cluster
    \/ Once(m) /\ \E r \in Runners : /\ run[r].at = "mark" /\ run[r].alone
                                     /\ m \in run[r].cluster /\ (m \in run[r].left \/ Marked(m))
    \/ Once(m) /\ Marked(m) /\ ~Held(m)

\* The inductive invariant: whatever a summary covers is protected.
RunInv ==
    /\ RunTypes
    /\ \A r \in Runners : RunShape(r)
    /\ \A m \in Memories : m \in live \/ Held(m) \/ Covered(m) => Settled(m)
    /\ \A s \in waiting : covers[s] # {}
    /\ \A m \in Memories : Covered(m) /\ m \notin excused => Protected(m)

\* One runner goes on, the others stay where they are.
WentOn(r, x) == run' \in [Runners -> Runs] /\ run'[r] = x /\ \A o \in Runners \ {r} : run'[o] = run[o]

\* An update of one run.
LEMMA RunsOn ==
    ASSUME RunTypes, NEW r \in Runners, NEW x \in Runs, run' = [run EXCEPT ![r] = x]
    PROVE  WentOn(r, x)
BY DEF RunTypes, WentOn

\* A run begun on its own is the only one.
LEMMA AloneIsOnly ==
    ASSUME RunInv, NEW r \in Runners, NEW o \in Runners, o # r, run[r].at # "idle", run[o].at # "idle"
    PROVE  ~run[r].alone /\ ~run[o].alone
BY DEF RunInv, RunShape

\* The shape of the runs after one went on to x.
LEMMA ShapeOn ==
    ASSUME RunInv, NEW r \in Runners, NEW x \in Runs, WentOn(r, x),
           run[r].at # "idle", x.alone = run[r].alone \/ x.at = "idle",
           x.at = "idle" => x.rest = {},
           x.at \in {"idle", "next"} => x.cluster = {},
           x.at = "summary" => x.cluster # {},
           x.at = "mark" => x.summary \in Memories /\ x.left \subseteq x.cluster,
           x.rest \cap x.cluster = {}
    PROVE  \A o \in Runners : RunShape(o)'
<1> SUFFICES ASSUME NEW o \in Runners
             PROVE  RunShape(o)'
  OBVIOUS
<1>1. CASE o = r
  BY <1>1 DEF RunInv, RunShape, WentOn
<1>2. CASE o # r
  BY <1>2 DEF RunInv, RunShape, WentOn
<1> QED BY <1>1, <1>2

\* A memory stays protected in a step that holds no more, unmarks nothing, and leaves the
\* runs that mark it where they are.
LEMMA StaysProtected ==
    ASSUME NEW m \in Memories, Protected(m), covers' = covers, Marked(m) => Marked(m)', Held(m)' => Held(m),
           \A o \in Runners : run[o].at = "mark" /\ m \in run[o].cluster =>
               /\ run'[o].at = "mark" /\ m \in run'[o].cluster /\ run'[o].alone = run[o].alone
               /\ m \in run[o].left => m \in run'[o].left \/ Marked(m)'
    PROVE  Protected(m)'
<1>1. Once(m)' <=> Once(m)
  BY DEF Once
<1>2. CASE \E r \in Runners : run[r].at = "mark" /\ ~run[r].alone /\ m \in run[r].cluster
  BY <1>2 DEF Protected
<1>3. CASE Once(m) /\ \E r \in Runners : /\ run[r].at = "mark" /\ run[r].alone
                                        /\ m \in run[r].cluster /\ (m \in run[r].left \/ Marked(m))
  <2>1. PICK r \in Runners : run[r].at = "mark" /\ run[r].alone /\ m \in run[r].cluster
                             /\ (m \in run[r].left \/ Marked(m))
    BY <1>3
  <2>2. run'[r].at = "mark" /\ run'[r].alone /\ m \in run'[r].cluster /\ (m \in run'[r].left \/ Marked(m)')
    BY <2>1
  <2> QED BY <1>1, <1>3, <2>2 DEF Protected
<1>4. CASE Once(m) /\ Marked(m) /\ ~Held(m)
  BY <1>1, <1>4 DEF Protected
<1> QED BY <1>2, <1>3, <1>4 DEF Protected

\* A snapshot: whoever ran on his own does so no longer.
LEMMA FetchKeeps ==
    ASSUME RunInv, NEW r \in Runners, Fetch(r)
    PROVE  RunInv'
<1> DEFINE others == {o \in Runners \ {r} : run[o].at # "idle"}
           x    == [NoRun EXCEPT !.at = "next", !.rest = Unconsolidated, !.alone = others = {}]
<1>a. RunTypes /\ run[r].at = "idle" /\ UNCHANGED <<live, waiting, into, covers, excused>>
  BY DEF Fetch, RunInv
<1>b. run' = [o \in Runners |-> IF o = r THEN x ELSE [run[o] EXCEPT !.alone = @ /\ o \notin others]]
  BY DEF Fetch
<1>c. /\ x \in Runs /\ x.at = "next" /\ x.rest = Unconsolidated /\ x.cluster = {} /\ x.alone = (others = {})
  BY <1>a DEF NoRun, Runs, RunTypes, Unconsolidated
<1>d. ASSUME NEW o \in Runners \ {r}
      PROVE  /\ run'[o] \in Runs /\ run'[o].at = run[o].at /\ run'[o].rest = run[o].rest
             /\ run'[o].cluster = run[o].cluster /\ run'[o].summary = run[o].summary
             /\ run'[o].left = run[o].left /\ (run'[o].alone => run[o].at = "idle")
  <2> DEFINE b == run[o].alone /\ o \notin others
  <2>1. run'[o] = [run[o] EXCEPT !.alone = b]
    BY <1>b
  <2>2. run[o] \in Runs /\ b \in BOOLEAN /\ (b => run[o].at = "idle")
    BY <1>a DEF RunTypes
  <2> HIDE DEF b
  <2> QED BY <2>1, <2>2 DEF Runs
<1>e. run'[r] = x /\ run' \in [Runners -> Runs]
  BY <1>b, <1>c, <1>d
<1> HIDE DEF x
<1>f. x.alone => \A o \in Runners \ {r} : run[o].at = "idle"
  BY <1>c
<1>1. \A o \in Runners : RunShape(o)'
  <2> SUFFICES ASSUME NEW o \in Runners
               PROVE  RunShape(o)'
    OBVIOUS
  <2>1. CASE o = r
    BY <1>c, <1>d, <1>e, <1>f, <2>1 DEF RunShape
  <2>2. CASE o # r
    BY <1>d, <2>2 DEF RunShape, RunInv
  <2> QED BY <2>1, <2>2
<1>2. \A m \in Memories : Held(m)' => Held(m) \/ m \in Unconsolidated
  BY <1>c, <1>d, <1>e DEF Held
<1>3. \A m \in Memories : m \in live' \/ Held(m)' \/ Covered(m)' => Settled(m)'
  BY <1>2, <1>a DEF RunInv, Settled, Covered, Unconsolidated
<1>4. ASSUME NEW m \in Memories, Covered(m), m \notin excused
      PROVE  Protected(m)'
  <2>1. Protected(m)
    BY <1>4 DEF RunInv
  <2>2. CASE \E o \in Runners : run[o].at = "mark" /\ m \in run[o].cluster
    <3>1. PICK o \in Runners : run[o].at = "mark" /\ m \in run[o].cluster
      BY <2>2
    <3>2. o # r
      BY <3>1, <1>a
    <3>3. run'[o].at = "mark" /\ m \in run'[o].cluster /\ ~run'[o].alone
      BY <1>d, <3>1, <3>2
    <3> QED BY <3>3 DEF Protected
  <2>3. CASE Once(m) /\ Marked(m) /\ ~Held(m)
    <3>1. m \notin Unconsolidated
      BY <2>3 DEF Marked, Unconsolidated
    <3>2. ~Held(m)' /\ Once(m)' /\ Marked(m)'
      BY <1>a, <1>2, <2>3, <3>1 DEF Once, Marked
    <3> QED BY <3>2 DEF Protected
  <2> QED BY <2>1, <2>2, <2>3 DEF Protected
<1> QED BY <1>a, <1>e, <1>1, <1>3, <1>4 DEF RunInv, RunTypes, Covered

\* A step of one run that stores nothing, holds no more than before and unmarks nothing.
LEMMA RunStep ==
    ASSUME RunInv, NEW r \in Runners, run[r].at # "idle", NEW x \in Runs, WentOn(r, x),
           \A o \in Runners : RunShape(o)',
           UNCHANGED <<live, waiting, covers>>, excused \subseteq excused',
           into' \in [Memories -> Memories \cup {NoSummary}],
           \A m \in Memories : into[m] # NoSummary => into'[m] # NoSummary,
           x.rest \cup x.cluster \subseteq run[r].rest \cup run[r].cluster,
           run[r].at = "mark" => \A m \in run[r].cluster :
               \/ x.at = "mark" /\ x.alone = run[r].alone /\ m \in x.cluster
                  /\ (m \in run[r].left => m \in x.left \/ Marked(m)' \/ m \in excused')
               \/ m \in excused'
               \/ run[r].alone /\ m \notin run[r].left /\ m \notin x.rest \cup x.cluster
    PROVE  RunInv'
<1>1. \A m \in Memories : (Held(m)' => Held(m)) /\ (Covered(m)' <=> Covered(m)) /\ (Once(m)' <=> Once(m))
                            /\ (Marked(m) => Marked(m)')
  BY DEF Held, WentOn, Covered, Once, Marked
<1>2. \A m \in Memories : m \in live' \/ Held(m)' \/ Covered(m)' => Settled(m)'
  BY <1>1 DEF RunInv, Settled
<1>3. ASSUME NEW m \in Memories, Covered(m), m \notin excused'
      PROVE  Protected(m)'
  <2>1. Protected(m)
    BY <1>3 DEF RunInv
  <2>2. CASE run[r].at = "mark" /\ m \in run[r].cluster
    <3>1. CASE x.at = "mark" /\ x.alone = run[r].alone /\ m \in x.cluster
               /\ (m \in run[r].left => m \in x.left \/ Marked(m)')
      <4>1. \A o \in Runners : run[o].at = "mark" /\ m \in run[o].cluster =>
               /\ run'[o].at = "mark" /\ m \in run'[o].cluster /\ run'[o].alone = run[o].alone
               /\ m \in run[o].left => m \in run'[o].left \/ Marked(m)'
        BY <3>1 DEF WentOn
      <4> QED BY <1>1, <2>1, <4>1, StaysProtected
    <3>2. CASE run[r].alone /\ m \notin run[r].left /\ m \notin x.rest \cup x.cluster
      <4>1. \A o \in Runners \ {r} : run[o].at = "idle" /\ run[o].rest = {} /\ run[o].cluster = {}
        BY <2>2, <3>2 DEF RunInv, RunShape
      <4>2. ~Held(m)'
        BY <3>2, <4>1 DEF Held, WentOn
      <4>3. Once(m) /\ Marked(m)
        BY <2>1, <2>2, <3>2, <4>1 DEF Protected, Held
      <4> QED BY <1>1, <4>2, <4>3 DEF Protected
    <3> QED BY <1>3, <2>2, <3>1, <3>2
  <2>3. CASE ~(run[r].at = "mark" /\ m \in run[r].cluster)
    <3>1. \A o \in Runners : run[o].at = "mark" /\ m \in run[o].cluster => run'[o] = run[o]
      BY <2>3 DEF WentOn
    <3> QED BY <1>1, <2>1, <3>1, StaysProtected
  <2> QED BY <2>2, <2>3
<1> QED BY <1>1, <1>2, <1>3 DEF RunInv, RunTypes, WentOn

\* A cluster is not empty.
LEMMA ClusterHasMembers ==
    \A C : Cardinality(C) >= MinCluster => C # {}
<1>1. Cardinality({}) = 0 /\ MinCluster \in Nat \ {0}
  BY FS_EmptySet, ConsolidationAssumption
<1> QED BY <1>1

\* From one cluster to the next, and the end of a run.
LEMMA BetweenClusters ==
    ASSUME RunInv, NEW r \in Runners,
           Summarize(r) \/ Finish(r) \/ ClusterFails(r) \/ NextCluster(r) \/ CancelRun(r)
    PROVE  RunInv'
<1>a. /\ run \in [Runners -> Runs] /\ run[r] \in Runs /\ RunShape(r) /\ run[r].at # "idle"
      /\ UNCHANGED <<live, waiting, covers, into>> /\ excused \subseteq excused'
      /\ into \in [Memories -> Memories \cup {NoSummary}]
  BY DEF RunInv, RunTypes, Summarize, Finish, ClusterFails, NextCluster, CancelRun
<1>1. CASE Summarize(r)
  <2>1. PICK C \in SUBSET run[r].rest :
           /\ Cardinality(C) >= MinCluster
           /\ run' = [run EXCEPT ![r].at = "summary", ![r].cluster = C, ![r].rest = @ \ C]
    BY <1>1 DEF Summarize
  <2> DEFINE x == [run[r] EXCEPT !.at = "summary", !.cluster = C, !.rest = run[r].rest \ C]
  <2>2. x \in Runs /\ x.at = "summary" /\ x.cluster = C /\ x.rest = run[r].rest \ C /\ x.alone = run[r].alone
    BY <1>a DEF Runs
  <2>3. run' = [run EXCEPT ![r] = x] /\ run[r].at = "next"
    BY <1>a, <1>1, <2>1 DEF Summarize
  <2> HIDE DEF x
  <2>4. WentOn(r, x)
    BY <2>2, <2>3, RunsOn DEF RunInv
  <2>5. \A o \in Runners : RunShape(o)'
    BY <1>a, <2>1, <2>2, <2>4, ShapeOn, ClusterHasMembers
  <2> QED BY <1>a, <2>2, <2>3, <2>4, <2>5, RunStep
<1>2. CASE Finish(r) \/ CancelRun(r)
  <2>1. NoRun \in Runs /\ NoRun.at = "idle" /\ NoRun.rest = {} /\ NoRun.cluster = {} /\ NoRun.alone = TRUE
    BY DEF NoRun, Runs
  <2>2. WentOn(r, NoRun)
    BY <1>2, <2>1, RunsOn DEF Finish, CancelRun, RunInv
  <2>3. \A o \in Runners : RunShape(o)'
    BY <1>a, <2>1, <2>2, ShapeOn
  <2>4. run[r].at = "mark" => run[r].cluster \subseteq excused'
    BY <1>2 DEF Finish, CancelRun
  <2> QED BY <1>a, <2>1, <2>2, <2>3, <2>4, RunStep
<1>3. CASE ClusterFails(r)
  <2> DEFINE x == [run[r] EXCEPT !.at = "next", !.cluster = {}]
  <2>1. x \in Runs /\ x.at = "next" /\ x.cluster = {} /\ x.rest = run[r].rest /\ x.alone = run[r].alone
    BY <1>a DEF Runs
  <2>2. run' = [run EXCEPT ![r] = x] /\ run[r].at = "summary"
    BY <1>a, <1>3 DEF ClusterFails
  <2> HIDE DEF x
  <2>3. WentOn(r, x)
    BY <2>1, <2>2, RunsOn DEF RunInv
  <2>4. \A o \in Runners : RunShape(o)'
    BY <1>a, <2>1, <2>3, ShapeOn
  <2> QED BY <1>a, <2>1, <2>2, <2>3, <2>4, RunStep
<1>4. CASE NextCluster(r)
  <2> DEFINE x == [run[r] EXCEPT !.at = "next", !.cluster = {}, !.summary = NoSummary]
  <2>1. x \in Runs /\ x.at = "next" /\ x.cluster = {} /\ x.rest = run[r].rest /\ x.alone = run[r].alone
    BY <1>a DEF Runs
  <2>2. /\ run' = [run EXCEPT ![r] = x] /\ run[r].at = "mark" /\ run[r].left = {}
        /\ ~run[r].alone => run[r].cluster \subseteq excused'
    BY <1>a, <1>4 DEF NextCluster
  <2> HIDE DEF x
  <2>3. WentOn(r, x)
    BY <2>1, <2>2, RunsOn DEF RunInv
  <2>4. \A o \in Runners : RunShape(o)'
    BY <1>a, <2>1, <2>3, ShapeOn
  <2>5. \A m \in run[r].cluster : m \in excused' \/ (run[r].alone /\ m \notin run[r].left /\ m \notin x.rest \cup x.cluster)
    BY <1>a, <2>1, <2>2 DEF RunShape
  <2> QED BY <1>a, <2>1, <2>2, <2>3, <2>4, <2>5, RunStep
<1> QED BY <1>1, <1>2, <1>3, <1>4

\* The originals are marked one after the other.
LEMMA MarkKeeps ==
    ASSUME RunInv, NEW r \in Runners, Mark(r) \/ MarkFails(r)
    PROVE  RunInv'
<1>a. /\ run \in [Runners -> Runs] /\ run[r] \in Runs /\ RunShape(r) /\ run[r].at = "mark"
      /\ UNCHANGED <<live, waiting, covers>> /\ excused \subseteq excused'
      /\ into \in [Memories -> Memories \cup {NoSummary}]
  BY DEF RunInv, RunTypes, Mark, MarkFails
<1>b. PICK m \in run[r].left :
        /\ run' = [run EXCEPT ![r].left = @ \ {m}]
        /\ \/ into' = IF m \in live THEN [into EXCEPT ![m] = run[r].summary] ELSE into
           \/ into' = into /\ m \in excused'
  BY DEF Mark, MarkFails
<1> DEFINE x == [run[r] EXCEPT !.left = run[r].left \ {m}]
<1>1. /\ x \in Runs /\ x.at = "mark" /\ x.cluster = run[r].cluster /\ x.rest = run[r].rest
      /\ x.alone = run[r].alone /\ x.left = run[r].left \ {m} /\ x.summary = run[r].summary
  BY <1>a DEF Runs
<1>2. run' = [run EXCEPT ![r] = x]
  BY <1>a, <1>b
<1> HIDE DEF x
<1>3. WentOn(r, x)
  BY <1>1, <1>2, RunsOn DEF RunInv
<1>4. \A o \in Runners : RunShape(o)'
  BY <1>a, <1>1, <1>3, ShapeOn DEF RunShape
<1>5. m \in Memories /\ run[r].summary \in Memories /\ NoSummary \notin Memories
  BY <1>a, ConsolidationAssumption DEF RunShape, Runs, Memories
<1>6. into' \in [Memories -> Memories \cup {NoSummary}] /\ \A n \in Memories : into[n] # NoSummary => into'[n] # NoSummary
  BY <1>a, <1>b, <1>5
<1>7. Marked(m)' \/ m \in excused'
  BY <1>a, <1>b, <1>5 DEF Marked
<1> QED BY <1>a, <1>1, <1>3, <1>4, <1>6, <1>7, RunStep

\* remember() returned: the run goes on to mark its cluster.
LEMMA MarkingOn ==
    ASSUME RunInv, NEW r \in Runners, run[r].at = "summary", NEW id \in Memories, Marking(r, id)
    PROVE  /\ run' \in [Runners -> Runs] /\ \A o \in Runners \ {r} : run'[o] = run[o]
           /\ run'[r].at = "mark" /\ run'[r].alone = run[r].alone
           /\ run'[r].rest = run[r].rest /\ run'[r].cluster = run[r].cluster /\ run'[r].left = run[r].cluster
           /\ \A o \in Runners : RunShape(o)'
           /\ \A m \in Memories : Held(m)' <=> Held(m)
<1> DEFINE x == [run[r] EXCEPT !.at = "mark", !.summary = id, !.left = run[r].cluster]
<1>1. run[r] \in Runs /\ run \in [Runners -> Runs] /\ RunShape(r)
  BY DEF RunInv, RunTypes
<1>2. /\ x \in Runs /\ x.at = "mark" /\ x.cluster = run[r].cluster /\ x.rest = run[r].rest
      /\ x.alone = run[r].alone /\ x.left = run[r].cluster /\ x.summary = id
  BY <1>1 DEF Runs
<1>3. run' = [run EXCEPT ![r] = x]
  BY <1>1 DEF Marking
<1> HIDE DEF x
<1>4. WentOn(r, x)
  BY <1>2, <1>3, RunsOn DEF RunInv
<1>5. \A o \in Runners : RunShape(o)'
  BY <1>1, <1>2, <1>4, ShapeOn DEF RunShape
<1>6. \A m \in Memories : Held(m)' <=> Held(m)
  BY <1>2, <1>4 DEF Held, WentOn
<1> QED BY <1>2, <1>4, <1>5, <1>6 DEF WentOn

\* A memory in the hands of a run that has no summary of it yet is protected only by
\* another run; on its own, a run has none such.
LEMMA HeldIsNotDone ==
    ASSUME RunInv, NEW r \in Runners, run[r].at = "summary", NEW m \in run[r].cluster, Protected(m)
    PROVE  \E o \in Runners \ {r} : run[o].at = "mark" /\ ~run[o].alone /\ m \in run[o].cluster
<1>1. Held(m)
  BY DEF Held
<1>2. PICK o \in Runners : run[o].at = "mark" /\ m \in run[o].cluster
  BY <1>1 DEF Protected
<1>3. o # r /\ ~run[o].alone
  BY <1>2, AloneIsOnly
<1> QED BY <1>2, <1>3

\* A summary is stored or queued, for a cluster: what was not covered is so now, once if
\* the run is on its own.
LEMMA WrittenKeeps ==
    ASSUME RunInv, NEW r \in Runners, NEW s \in Summaries, Stored(r, s) \/ Queued(r, s)
    PROVE  RunInv'
<1>a. /\ run[r].at = "summary" /\ s \in Fresh /\ Marking(r, s) /\ covers' = [covers EXCEPT ![s] = run[r].cluster]
      /\ UNCHANGED <<into, excused>>
      /\ \/ live' = live \cup {s} /\ waiting' = waiting
         \/ live' = live /\ waiting' \in {waiting, waiting \cup {s}}
  BY DEF Stored, Queued
<1>b. RunTypes /\ RunShape(r) /\ run[r].cluster # {} /\ run[r].cluster \subseteq Memories
  BY <1>a DEF RunInv, RunTypes, RunShape, Runs
<1>c. /\ covers[s] = {} /\ covers'[s] = run[r].cluster /\ \A t \in Summaries \ {s} : covers'[t] = covers[t]
      /\ covers' \in [Summaries -> SUBSET Memories]
      /\ s \in Memories
  BY <1>a, <1>b DEF Fresh, RunTypes, Memories
<1>d. /\ run' \in [Runners -> Runs] /\ \A o \in Runners \ {r} : run'[o] = run[o]
      /\ run'[r].at = "mark" /\ run'[r].alone = run[r].alone
      /\ run'[r].rest = run[r].rest /\ run'[r].cluster = run[r].cluster /\ run'[r].left = run[r].cluster
      /\ \A o \in Runners : RunShape(o)'
      /\ \A m \in Memories : Held(m)' <=> Held(m)
  BY <1>a, <1>c, MarkingOn
<1>e. \A m \in Memories : Covered(m)' <=> Covered(m) \/ m \in run[r].cluster
  BY <1>c DEF Covered
<1>f. \A m \in Memories : m \in live \/ Held(m) \/ Covered(m) => Settled(m) /\ m # s
  BY <1>c DEF RunInv, Settled
<1>g. \A m \in run[r].cluster : Held(m)
  BY DEF Held
<1>1. RunTypes'
  BY <1>a, <1>b, <1>c, <1>d DEF RunTypes, Memories
<1>2. \A m \in Memories : m \in live' \/ Held(m)' \/ Covered(m)' => Settled(m)'
  <2> SUFFICES ASSUME NEW m \in Memories, m \in live' \/ Held(m)' \/ Covered(m)'
               PROVE  Settled(m)'
    OBVIOUS
  <2>1. CASE m = s /\ m \in live'
    <3>1. s \notin waiting /\ live' = live \cup {s} /\ waiting' = waiting
      BY <1>a, <1>c, <1>f, <2>1 DEF RunInv
    <3> QED BY <1>b, <1>c, <2>1, <3>1 DEF Settled
  <2>2. CASE m \in live \/ Held(m) \/ Covered(m)
    <3>1. Settled(m) /\ m # s
      BY <1>f, <2>2
    <3>2. m \in Summaries => covers'[m] = covers[m]
      BY <1>c, <3>1
    <3> QED BY <1>a, <3>1, <3>2 DEF Settled
  <2> QED BY <1>a, <1>d, <1>e, <1>g, <2>1, <2>2
<1>3. \A t \in waiting' : covers'[t] # {}
  BY <1>a, <1>b, <1>c DEF RunInv, RunTypes
<1>4. ASSUME NEW m \in Memories, Covered(m)', m \notin excused
      PROVE  Protected(m)'
  <2>1. CASE m \in run[r].cluster
    <3>1. CASE ~run[r].alone
      BY <1>d, <2>1, <3>1 DEF Protected
    <3>2. CASE run[r].alone
      <4>1. ~Covered(m)
        <5>1. \A o \in Runners \ {r} : run[o].at = "idle"
          BY <1>a, <3>2 DEF RunInv, RunShape
        <5>2. ~Protected(m)
          BY <1>a, <2>1, <5>1, HeldIsNotDone
        <5> QED BY <1>4, <5>2 DEF RunInv
      <4>2. Once(m)'
        BY <1>c, <4>1 DEF Once, Covered
      <4> QED BY <1>d, <2>1, <3>2, <4>2 DEF Protected
    <3> QED BY <3>1, <3>2
  <2>2. CASE m \notin run[r].cluster
    <3>1. Covered(m) /\ Protected(m) /\ m # s
      BY <1>4, <1>e, <1>f, <2>2 DEF RunInv
    <3>2. CASE \E o \in Runners : run[o].at = "mark" /\ m \in run[o].cluster
      <4>1. PICK o \in Runners : run[o].at = "mark" /\ m \in run[o].cluster
        BY <3>2
      <4>2. o # r /\ ~run[o].alone /\ run'[o] = run[o]
        BY <1>a, <1>d, <4>1, AloneIsOnly
      <4> QED BY <4>1, <4>2 DEF Protected
    <3>3. CASE Once(m) /\ Marked(m) /\ ~Held(m)
      <4>1. Once(m)'
        BY <1>c, <2>2, <3>3 DEF Once
      <4>2. Marked(m)'
        BY <1>a, <3>1, <3>3 DEF Marked
      <4> QED BY <1>d, <3>3, <4>1, <4>2 DEF Protected
    <3> QED BY <3>1, <3>2, <3>3 DEF Protected
  <2> QED BY <2>1, <2>2
<1> QED BY <1>a, <1>d, <1>1, <1>2, <1>3, <1>4 DEF RunInv

\* A summary is merged into a memory that was there.
LEMMA MergedKeeps ==
    ASSUME RunInv, NEW r \in Runners, NEW id \in Memories, Merged(r, id)
    PROVE  RunInv'
<1>a. /\ run[r].at = "summary" /\ Marking(r, id)
      /\ UNCHANGED <<live, waiting, into, covers, excused>>
  BY DEF Merged
<1>b. /\ run' \in [Runners -> Runs] /\ \A o \in Runners \ {r} : run'[o] = run[o]
      /\ \A o \in Runners : RunShape(o)'
      /\ \A m \in Memories : Held(m)' <=> Held(m)
  BY <1>a, MarkingOn
<1>1. RunTypes' /\ \A m \in Memories : m \in live' \/ Held(m)' \/ Covered(m)' => Settled(m)'
  BY <1>a, <1>b DEF RunInv, RunTypes, Covered, Settled
<1>2. ASSUME NEW m \in Memories, Covered(m), m \notin excused
      PROVE  Protected(m)'
  <2>1. Protected(m)
    BY <1>2 DEF RunInv
  <2>2. \A o \in Runners : run[o].at = "mark" => run'[o] = run[o]
    BY <1>a, <1>b
  <2> QED BY <1>a, <1>b, <2>1, <2>2, StaysProtected DEF Marked
<1> QED BY <1>a, <1>b, <1>1, <1>2 DEF RunInv, Covered

\* The retry queue, and the deletion of a memory.
LEMMA OthersKeep ==
    ASSUME RunInv,
           \/ \E s \in Summaries : RetryStores(s) \/ RetryGivesUp(s)
           \/ \E m \in Memories : Removed(m)
    PROVE  RunInv'
<1>a. UNCHANGED <<into, run, covers, excused>> /\ RunTypes
  BY DEF RetryStores, RetryGivesUp, Removed, RunInv
<1>b. PICK s : \/ s \in waiting /\ waiting' = waiting \ {s} /\ live' = live \cup {s}
               \/ waiting' = waiting \ {s} /\ live' = live
               \/ waiting' = waiting /\ live' = live \ {s}
  BY DEF RetryStores, RetryGivesUp, Removed
<1>1. RunTypes'
  BY <1>a, <1>b DEF RunTypes, Memories
<1>2. \A r \in Runners : RunShape(r)'
  BY <1>a DEF RunInv, RunShape
<1>3. \A m \in Memories : (Held(m)' <=> Held(m)) /\ (Covered(m)' <=> Covered(m))
  BY <1>a DEF Held, Covered
<1>4. \A m \in Memories : m \in live' \/ Held(m)' \/ Covered(m)' => Settled(m)'
  BY <1>a, <1>b, <1>3 DEF RunInv, Settled
<1>5. ASSUME NEW m \in Memories, Covered(m), m \notin excused
      PROVE  Protected(m)'
  <2>1. Protected(m) /\ m \notin waiting
    BY <1>5 DEF RunInv, Settled
  <2>2. Marked(m) => Marked(m)'
    BY <1>a, <1>b, <2>1 DEF Marked
  <2> QED BY <1>a, <1>3, <2>1, <2>2, StaysProtected
<1> QED BY <1>a, <1>b, <1>1, <1>2, <1>3, <1>4, <1>5 DEF RunInv

\* The first state of the runs.
LEMMA RunInvInit ==
    ConsolidationInit => RunInv
<1> SUFFICES ASSUME ConsolidationInit
             PROVE  RunInv
  OBVIOUS
<1>1. \A r \in Runners : /\ run[r] = NoRun /\ run[r].at = "idle" /\ run[r].rest = {} /\ run[r].cluster = {}
  BY DEF ConsolidationInit, NoRun
<1>2. RunTypes
  BY DEF ConsolidationInit, RunTypes, NoRun, Runs, Memories
<1>3. \A r \in Runners : RunShape(r)
  BY <1>1 DEF RunShape
<1>4. \A m \in Memories : ~Covered(m) /\ ~Held(m) /\ (m \in live => Settled(m))
  BY <1>1, ConsolidationAssumption DEF ConsolidationInit, Covered, Held, Settled
<1> QED BY <1>2, <1>3, <1>4 DEF RunInv, ConsolidationInit

\* Every step of consolidation.
LEMMA RunInvNext ==
    RunInv /\ [ConsolidationNext]_consolidationVars => RunInv'
<1> SUFFICES ASSUME RunInv, [ConsolidationNext]_consolidationVars
             PROVE  RunInv'
  OBVIOUS
<1>1. CASE UNCHANGED consolidationVars
  BY <1>1 DEF consolidationVars, RunInv, RunTypes, RunShape, Held, Covered, Settled, Protected, Once, Marked
<1>2. ASSUME NEW r \in Runners,
             \/ Fetch(r) \/ Summarize(r) \/ Finish(r) \/ ClusterFails(r)
             \/ \E s \in Summaries : Stored(r, s) \/ Queued(r, s)
             \/ \E m \in Memories : Merged(r, m)
             \/ Mark(r) \/ MarkFails(r) \/ NextCluster(r) \/ CancelRun(r)
      PROVE  RunInv'
  <2>1. CASE Fetch(r)
    BY <2>1, FetchKeeps
  <2>2. CASE Summarize(r) \/ Finish(r) \/ ClusterFails(r) \/ NextCluster(r) \/ CancelRun(r)
    BY <2>2, BetweenClusters
  <2>3. CASE \E s \in Summaries : Stored(r, s) \/ Queued(r, s)
    BY <2>3, WrittenKeeps
  <2>4. CASE \E m \in Memories : Merged(r, m)
    BY <2>4, MergedKeeps
  <2>5. CASE Mark(r) \/ MarkFails(r)
    BY <2>5, MarkKeeps
  <2> QED BY <1>2, <2>1, <2>2, <2>3, <2>4, <2>5
<1>3. CASE \/ \E s \in Summaries : RetryStores(s) \/ RetryGivesUp(s)
           \/ \E m \in Memories : Removed(m)
  BY <1>3, OthersKeep
<1> QED BY <1>1, <1>2, <1>3 DEF ConsolidationNext

\* For any memories, runners, clusters, deletions and failures: two summaries of one memory
\* come only of runs that overlapped, were cut off or could not mark. What is inductive is
\* how a memory that was summarised is kept out of every later cluster.
THEOREM NothingIsSummarisedTwice == ConsolidationSpec => []SummarisedOnce
<1>1. RunInv => SummarisedOnce
  <2> SUFFICES ASSUME RunInv, NEW s \in Summaries, NEW t \in Summaries, s # t,
                      NEW m \in covers[s] \cap covers[t], m \notin excused
               PROVE  \E r \in Runners : m \in run[r].cluster /\ ~run[r].alone
    BY DEF SummarisedOnce
  <2>1. m \in Memories /\ Covered(m) /\ ~Once(m)
    BY DEF RunInv, RunTypes, Covered, Once
  <2> QED BY <2>1 DEF RunInv, Protected
<1> QED BY RunInvInit, RunInvNext, <1>1, PTL DEF ConsolidationSpec

\* What m was consolidated into is a summary written for it, or was merged into a memory.
Traced(m, s) == s \in merged \/ (s \in Summaries /\ m \in covers[s])

\* No summaries cover one another round in a circle: among any of them is one that none covers.
Acyclic == \A R \in SUBSET Summaries : R # {} => \E s \in R : \A t \in R : s \notin covers[t]

\* The inductive invariant: what is marked, and what is about to be, can be traced to its summary.
HeirInv ==
    /\ \A m \in Memories : into[m] # NoSummary => Traced(m, into[m])
    /\ \A r \in Runners : run[r].at = "mark" => \A m \in run[r].left : Traced(m, run[r].summary)
    /\ Acyclic
    /\ \A s \in Summaries : covers[s] # {} => s \in live \cup waiting \cup gone

\* A step that forgets no cluster and writes no summary.
LEMMA SameSummaries ==
    ASSUME HeirInv, covers' = covers, merged \subseteq merged',
           live \cup waiting \cup gone \subseteq live' \cup waiting' \cup gone',
           \A m \in Memories : into'[m] \in {NoSummary, into[m]} \/ Traced(m, into'[m]),
           \A r \in Runners : run'[r].at = "mark" =>
               \A m \in run'[r].left : \/ Traced(m, run[r].summary)'
                                       \/ run[r].at = "mark" /\ m \in run[r].left /\ run'[r].summary = run[r].summary
    PROVE  HeirInv'
<1>1. \A m, s : Traced(m, s) => Traced(m, s)'
  BY DEF Traced
<1>2. \A m \in Memories : into'[m] # NoSummary => Traced(m, into[m])'
  BY <1>1 DEF HeirInv
<1>3. \A r \in Runners : run'[r].at = "mark" => \A m \in run'[r].left : Traced(m, run[r].summary)'
  BY <1>1 DEF HeirInv
<1>4. Acyclic'
  BY DEF HeirInv, Acyclic
<1>5. \A s \in Summaries : covers'[s] # {} => s \in live' \cup waiting' \cup gone'
  BY DEF HeirInv
<1> QED BY <1>2, <1>3, <1>4, <1>5 DEF HeirInv

\* A summary is written: it covers its cluster, and nothing covers it yet.
LEMMA WrittenIsTraced ==
    ASSUME RunInv, HeirInv, NEW r \in Runners, NEW s \in Summaries, Stored(r, s) \/ Queued(r, s)
    PROVE  HeirInv'
<1>a. /\ run[r].at = "summary" /\ s \in Fresh /\ Marking(r, s) /\ covers' = [covers EXCEPT ![s] = run[r].cluster]
      /\ into' = into /\ merged' = merged
      /\ live \cup waiting \cup gone \cup {s} \subseteq live' \cup waiting' \cup gone'
  BY DEF Stored, Queued
<1>b. /\ covers \in [Summaries -> SUBSET Memories] /\ run \in [Runners -> Runs]
      /\ covers[s] = {} /\ covers'[s] = run[r].cluster /\ \A t \in Summaries \ {s} : covers'[t] = covers[t]
  BY <1>a DEF RunInv, RunTypes, Fresh
<1>c. s \in Memories /\ s \notin run[r].cluster /\ \A t \in Summaries : s \notin covers[t]
  <2>1. s \in Memories /\ ~Settled(s)
    BY <1>b DEF Memories, Settled
  <2>2. ~Held(s) /\ ~Covered(s)
    BY <2>1 DEF RunInv
  <2> QED BY <2>1, <2>2 DEF Held, Covered
<1>1. \A m, t : Traced(m, t) => Traced(m, t)'
  BY <1>a, <1>b DEF Traced
<1>2. \A o \in Runners : run'[o].at = "mark" => \A m \in run'[o].left : Traced(m, run[o].summary)'
  <2> SUFFICES ASSUME NEW o \in Runners, run'[o].at = "mark", NEW m \in run'[o].left
               PROVE  Traced(m, run[o].summary)'
    OBVIOUS
  <2>1. CASE o = r
    <3>1. run'[o].summary = s /\ run'[o].left = run[r].cluster
      BY <1>a, <1>b, <2>1 DEF Marking, Runs
    <3> QED BY <1>b, <3>1 DEF Traced
  <2>2. CASE o # r
    BY <1>1, <1>a, <1>b, <2>2 DEF Marking, HeirInv
  <2> QED BY <2>1, <2>2
<1>3. Acyclic'
  <2> SUFFICES ASSUME NEW R \in SUBSET Summaries, R # {}
               PROVE  \E t \in R : \A u \in R : t \notin covers'[u]
    BY DEF Acyclic
  <2>1. CASE s \in R
    BY <1>b, <1>c, <2>1
  <2>2. CASE s \notin R
    BY <1>b, <2>2 DEF HeirInv, Acyclic
  <2> QED BY <2>1, <2>2
<1>4. \A t \in Summaries : covers'[t] # {} => t \in live' \cup waiting' \cup gone'
  BY <1>a, <1>b DEF HeirInv
<1> QED BY <1>1, <1>2, <1>3, <1>4, <1>a DEF HeirInv

\* One run goes on without writing a summary.
LEMMA RunIsTraced ==
    ASSUME RunInv, HeirInv, NEW r \in Runners,
           \/ Fetch(r) \/ Summarize(r) \/ Finish(r) \/ ClusterFails(r)
           \/ \E m \in Memories : Merged(r, m)
           \/ Mark(r) \/ MarkFails(r) \/ NextCluster(r) \/ CancelRun(r)
    PROVE  HeirInv'
<1>a. run \in [Runners -> Runs] /\ into \in [Memories -> Memories \cup {NoSummary}] /\ RunShape(r)
  BY DEF RunInv, RunTypes
<1>b. covers' = covers /\ merged \subseteq merged' /\ UNCHANGED <<live, waiting, gone>>
  BY DEF Fetch, Summarize, Finish, ClusterFails, Merged, Mark, MarkFails, NextCluster, CancelRun
<1>1. CASE Fetch(r)
  <2>1. \A o \in Runners : run'[o].at = "mark" =>
            run[o].at = "mark" /\ run'[o].left = run[o].left /\ run'[o].summary = run[o].summary
    BY <1>1, <1>a DEF Fetch, NoRun, Runs
  <2> QED BY <1>1, <1>b, <2>1, SameSummaries DEF Fetch
<1>2. CASE Summarize(r) \/ Finish(r) \/ ClusterFails(r) \/ NextCluster(r) \/ CancelRun(r)
  <2>1. run'[r].at # "mark" /\ \A o \in Runners \ {r} : run'[o] = run[o]
    <3>1. CASE Finish(r) \/ CancelRun(r)
      BY <3>1, <1>a DEF Finish, CancelRun, NoRun
    <3>2. CASE Summarize(r)
      BY <3>2, <1>a DEF Summarize, Runs
    <3>3. CASE ClusterFails(r)
      BY <3>3, <1>a DEF ClusterFails, Runs
    <3>4. CASE NextCluster(r)
      BY <3>4, <1>a DEF NextCluster, Runs
    <3> QED BY <1>2, <3>1, <3>2, <3>3, <3>4
  <2>2. into' = into
    BY <1>2 DEF Summarize, Finish, ClusterFails, NextCluster, CancelRun
  <2> QED BY <1>b, <2>1, <2>2, SameSummaries
<1>3. CASE \E m \in Memories : Merged(r, m)
  <2>1. PICK m \in Memories : Merged(r, m)
    BY <1>3
  <2>2. run'[r].summary = m /\ m \in merged' /\ into' = into /\ \A o \in Runners \ {r} : run'[o] = run[o]
    BY <1>a, <2>1 DEF Merged, Marking, Runs
  <2> QED BY <1>b, <2>2, SameSummaries DEF Traced
<1>4. CASE Mark(r) \/ MarkFails(r)
  <2>1. PICK m \in run[r].left :
          /\ run' = [run EXCEPT ![r].left = @ \ {m}]
          /\ into' = (IF m \in live THEN [into EXCEPT ![m] = run[r].summary] ELSE into) \/ into' = into
    BY <1>4 DEF Mark, MarkFails
  <2>2. run[r].at = "mark" /\ Traced(m, run[r].summary)
    BY <1>4, <2>1 DEF Mark, MarkFails, HeirInv
  <2>3. /\ run'[r].summary = run[r].summary /\ run'[r].left \subseteq run[r].left
        /\ \A o \in Runners \ {r} : run'[o] = run[o]
    BY <1>a, <2>1 DEF Runs
  <2>4. \A n \in Memories : into'[n] = into[n] \/ (n = m /\ into'[n] = run[r].summary)
    BY <1>a, <2>1
  <2> QED BY <1>b, <2>2, <2>3, <2>4, SameSummaries
<1> QED BY <1>1, <1>2, <1>3, <1>4

\* Every step of consolidation.
LEMMA HeirInvNext ==
    ASSUME RunInv, HeirInv, [ConsolidationNext]_consolidationVars
    PROVE  HeirInv'
<1>1. CASE UNCHANGED consolidationVars
  BY <1>1, SameSummaries DEF consolidationVars
<1>2. ASSUME NEW r \in Runners, NEW s \in Summaries, Stored(r, s) \/ Queued(r, s)
      PROVE  HeirInv'
  BY <1>2, WrittenIsTraced
<1>3. ASSUME NEW r \in Runners,
             \/ Fetch(r) \/ Summarize(r) \/ Finish(r) \/ ClusterFails(r)
             \/ \E m \in Memories : Merged(r, m)
             \/ Mark(r) \/ MarkFails(r) \/ NextCluster(r) \/ CancelRun(r)
      PROVE  HeirInv'
  BY <1>3, RunIsTraced
<1>4. CASE \/ \E s \in Summaries : RetryStores(s) \/ RetryGivesUp(s)
           \/ \E m \in Memories : Removed(m)
  <2>1. /\ UNCHANGED <<into, run, merged, covers>>
        /\ live \cup waiting \cup gone \subseteq live' \cup waiting' \cup gone'
    BY <1>4 DEF RetryStores, RetryGivesUp, Removed
  <2> QED BY <2>1, SameSummaries
<1> QED BY <1>1, <1>2, <1>3, <1>4 DEF ConsolidationNext

\* Heirs(m) has what m was consolidated into, and what each of its members was.
LEMMA HeirsAreClosed ==
    ASSUME RunTypes, NEW m \in Memories
    PROVE  \A x \in Heirs(m) \cup {m} : into[x] # NoSummary => into[x] \in Heirs(m)
<1> SUFFICES ASSUME NEW x \in Heirs(m) \cup {m}, into[x] # NoSummary
             PROVE  into[x] \in Heirs(m)
  OBVIOUS
<1>1. x \in Memories /\ into[x] \in Memories
  BY DEF Heirs, RunTypes
<1>2. ASSUME NEW H \in SUBSET Memories, \A y \in H \cup {m} : into[y] # NoSummary => into[y] \in H
      PROVE  into[x] \in H
  BY <1>2 DEF Heirs
<1> QED BY <1>1, <1>2 DEF Heirs

\* Heirs(m) is the smallest such set.
LEMMA HeirsAreLeast ==
    ASSUME NEW m \in Memories, NEW H \in SUBSET Memories,
           \A x \in H \cup {m} : into[x] # NoSummary => into[x] \in H
    PROVE  Heirs(m) \subseteq H
BY DEF Heirs

\* For any memories, runners, clusters, deletions and failures: what recall passes over is
\* spoken for by a memory it does not pass over, unless a summary on the way waits, is gone or
\* was merged. Were it not so, the heirs would be live summaries each covered by another.
THEOREM HiddenMemoriesHaveHeirs == ConsolidationSpec => []HiddenHasHeir
<1>1. ConsolidationInit => HeirInv
  <2> SUFFICES ASSUME ConsolidationInit
               PROVE  HeirInv
    OBVIOUS
  <2>1. /\ \A m \in Memories : into[m] = NoSummary
        /\ \A r \in Runners : run[r].at = "idle"
        /\ \A s \in Summaries : covers[s] = {}
    BY DEF ConsolidationInit, NoRun
  <2> QED BY <2>1 DEF HeirInv, Acyclic
<1>2. RunInv /\ HeirInv => HiddenHasHeir
  <2> SUFFICES ASSUME RunInv, HeirInv, NEW m \in live, into[m] # NoSummary,
                      \A s \in Heirs(m) : s \notin Unconsolidated \cup waiting \cup gone \cup merged
               PROVE  FALSE
    BY DEF HiddenHasHeir
  <2> DEFINE Known == {s \in Heirs(m) \cap Summaries : covers[s] # {}}
  <2>1. RunTypes /\ m \in Memories
    BY DEF RunInv, RunTypes
  <2>2. \A x \in Heirs(m) \cup {m} : into[x] # NoSummary => into[x] \in Known /\ x \in covers[into[x]]
    <3> SUFFICES ASSUME NEW x \in Heirs(m) \cup {m}, into[x] # NoSummary
                 PROVE  into[x] \in Known /\ x \in covers[into[x]]
      OBVIOUS
    <3>1. into[x] \in Heirs(m) /\ x \in Memories
      BY <2>1, HeirsAreClosed DEF Heirs
    <3>2. into[x] \notin merged /\ Traced(x, into[x])
      BY <3>1 DEF HeirInv
    <3> QED BY <3>1, <3>2 DEF Traced
  <2>3. Heirs(m) \subseteq Known
    <3>1. Known \subseteq Memories /\ Known \subseteq Heirs(m)
      BY DEF Memories
    <3> HIDE DEF Known
    <3> QED BY <2>1, <2>2, <3>1, HeirsAreLeast
  <2>4. Known # {} /\ Known \subseteq Summaries /\ Known \subseteq Heirs(m)
    BY <2>2
  <2>5. \A s \in Known : into[s] # NoSummary
    BY DEF HeirInv, Unconsolidated
  <2>6. \A s \in Known : into[s] \in Known /\ s \in covers[into[s]]
    BY <2>2, <2>4, <2>5
  <2>7. \E s \in Known : \A t \in Known : s \notin covers[t]
    BY <2>4 DEF HeirInv, Acyclic
  <2> QED BY <2>6, <2>7
<1> QED BY RunInvInit, RunInvNext, HeirInvNext, <1>1, <1>2, PTL DEF ConsolidationSpec
-----------------------------------------------------------------------------
(* The scheduler.                                                          *)

Boot == wall - uptime   \* when the machine booted

\* A tick in progress began at `now`, after the boot.
TickTypes ==
    /\ wall \in Nat /\ uptime \in Nat /\ uptime >= 1 /\ Boot >= 0
    /\ last_run \in [Tasks -> Int] /\ saved \in [Tasks -> Int] /\ finished \in [Tasks -> Int]
    /\ now \in Int
    /\ now # Never => now >= 1 /\ now <= uptime
    /\ todo \in Seq(Tasks) /\ busy \in Tasks \cup {Idle}
    /\ now = Never => todo = <<>> /\ busy = Idle
    /\ now # Never => running
    /\ ~running => dirty = {}
    /\ ~rebooted => Boot = 0

\* When a task last completed, as the monotonic clock has it, and as the file has it; a
\* time before the boot may be forgotten in both.
AgreesInMemory(t) == last_run[t] = finished[t] - Boot \/ (last_run[t] = 0 /\ finished[t] <= Boot)
AgreesInFile(t)   == saved[t] = finished[t] \/ (saved[t] = Never /\ finished[t] <= Boot)

\* No time recorded in memory is later than this.
Latest == IF now = Never THEN uptime ELSE now

\* What memory and file know of a task, and that a tick does not pass over a due one.
TaskInv(t) ==
    /\ finished[t] = Never \/ (finished[t] >= 1 /\ finished[t] <= wall)
    /\ finished[t] # Never /\ t \notin lost /\ running => AgreesInMemory(t)
    /\ finished[t] # Never /\ t \notin lost \cup dirty => AgreesInFile(t)
    /\ saved[t] = Never \/ saved[t] <= Boot + Latest
    /\ running => last_run[t] <= Latest
    /\ ~rebooted /\ finished[t] # Never => saved[t] <= finished[t] /\ (running => last_run[t] <= finished[t])
    /\ now # Never /\ t \notin begun \cup NeedsLlm /\ t \notin ToSet(todo) => ~Due(t)

\* The inductive invariant of the scheduler.
SchedulerInv == TickTypes /\ \A t \in Tasks : TaskInv(t)

\* The assumption on the tasks, and the length of their intervals.
LEMMA IntervalsPositive ==
    /\ Order \in Seq(Tasks) /\ Idle \notin Tasks
    /\ \A t \in Tasks : Interval[t] \in Nat /\ Interval[t] >= 1
BY SchedulerAssumption

\* The tasks the tick has not come to are those of the rest of its list, and the next one.
LEMMA HeadOrTail ==
    ASSUME todo \in Seq(Tasks), todo # <<>>
    PROVE  /\ Head(todo) \in Tasks /\ Tail(todo) \in Seq(Tasks)
           /\ ToSet(todo) \subseteq {Head(todo)} \cup ToSet(Tail(todo))
<1>1. Head(todo) \in Tasks /\ Tail(todo) \in Seq(Tasks) /\ Len(todo) \in Nat /\ Len(todo) >= 1
  OBVIOUS
<1>2. ASSUME NEW x \in ToSet(todo)
      PROVE  x = Head(todo) \/ x \in ToSet(Tail(todo))
  <2>1. PICK i \in DOMAIN todo : x = todo[i]
    BY DEF ToSet
  <2>2. i \in 1..Len(todo)
    BY <2>1
  <2>3. CASE i = 1
    BY <2>1, <2>3
  <2>4. CASE i # 1
    <3>1. i - 1 \in 1..Len(Tail(todo)) /\ Tail(todo)[i - 1] = todo[i]
      BY <1>1, <2>2, <2>4
    <3>2. i - 1 \in DOMAIN Tail(todo)
      BY <1>1, <3>1
    <3> QED BY <2>1, <3>1, <3>2 DEF ToSet
  <2> QED BY <2>3, <2>4
<1> QED BY <1>1, <1>2

\* Between ticks and in one: the start of the scheduler and of a tick.
LEMMA BeginKeeps ==
    ASSUME SchedulerInv, Begin \/ BeginTick
    PROVE  SchedulerInv'
<1> USE DEF Boot, Never
<1>1. CASE Begin
  <2>1. /\ UNCHANGED <<wall, uptime, saved, now, todo, busy, finished, begun, dirty, lost, rebooted>>
        /\ ~running /\ running' = TRUE /\ last_run' = [t \in Tasks |-> Loaded(t)] /\ now = Never /\ dirty = {}
    BY <1>1 DEF Begin, clocks, SchedulerInv, TickTypes
  <2>2. \A t \in Tasks : Loaded(t) \in Int
    BY DEF Loaded, SchedulerInv, TickTypes
  <2>3. TickTypes'
    BY <2>1, <2>2 DEF SchedulerInv, TickTypes
  <2>4. ASSUME NEW t \in Tasks
        PROVE  TaskInv(t)'
    <3>1. /\ saved[t] \in Int /\ finished[t] \in Int /\ wall \in Nat /\ uptime \in Nat /\ uptime >= 1
          /\ wall - uptime >= 0 /\ TaskInv(t) /\ (~rebooted => wall - uptime = 0)
      BY DEF SchedulerInv, TickTypes
    <3>2. last_run'[t] = IF saved[t] = -1 THEN 0 ELSE uptime - (wall - saved[t])
      BY <2>1 DEF Loaded
    <3> QED BY <2>1, <3>1, <3>2 DEF TaskInv, AgreesInMemory, AgreesInFile, Latest
  <2> QED BY <2>3, <2>4 DEF SchedulerInv
<1>2. CASE BeginTick
  <2>1. /\ UNCHANGED <<wall, uptime, running, last_run, saved, busy, finished, dirty, lost, rebooted>>
        /\ running /\ now = -1 /\ now' = uptime /\ todo' = Order /\ begun' = {}
    BY <1>2 DEF BeginTick, clocks
  <2>2. TickTypes'
    BY <2>1, IntervalsPositive DEF SchedulerInv, TickTypes
  <2>3. ASSUME NEW t \in Tasks
        PROVE  TaskInv(t)'
    <3>1. TaskInv(t) /\ t \in ToSet(todo') /\ uptime \in Nat
      BY <2>1 DEF SchedulerInv, TickTypes, Tasks
    <3> QED BY <2>1, <3>1 DEF TaskInv, AgreesInMemory, AgreesInFile, Latest
  <2> QED BY <2>2, <2>3 DEF SchedulerInv
<1> QED BY <1>1, <1>2

\* The tasks of a tick.
LEMMA TickKeeps ==
    ASSUME SchedulerInv, Skip \/ Await \/ Error
    PROVE  SchedulerInv'
<1> USE DEF Boot, Never
<1>1. CASE Skip \/ Await
  <2>1. /\ UNCHANGED <<wall, uptime, running, last_run, saved, now, finished, dirty, lost, rebooted>>
        /\ todo # <<>> /\ busy = Idle /\ todo' = Tail(todo)
        /\ \/ busy' = busy /\ begun' = begun /\ (~Due(Head(todo)) \/ Head(todo) \in NeedsLlm)
           \/ busy' = Head(todo) /\ begun' = begun \cup {Head(todo)}
    BY <1>1 DEF Skip, Await, clocks
  <2>2. /\ Head(todo) \in Tasks /\ Tail(todo) \in Seq(Tasks)
        /\ ToSet(todo) \subseteq {Head(todo)} \cup ToSet(Tail(todo))
    BY <2>1, HeadOrTail DEF SchedulerInv, TickTypes
  <2>3. TickTypes'
    BY <2>1, <2>2 DEF SchedulerInv, TickTypes
  <2>4. ASSUME NEW t \in Tasks
        PROVE  TaskInv(t)'
    <3>1. TaskInv(t) /\ (Due(t)' <=> Due(t))
      BY <2>1 DEF SchedulerInv, Due, Elapsed
    <3>2. now # -1 /\ t \notin begun' \cup NeedsLlm /\ t \notin ToSet(todo') => ~Due(t)
      <4>1. now # -1 /\ t \notin begun \cup NeedsLlm /\ t \notin ToSet(todo) => ~Due(t)
        BY <3>1 DEF TaskInv
      <4> QED BY <2>1, <2>2, <4>1
    <3> QED BY <2>1, <3>1, <3>2 DEF TaskInv, AgreesInMemory, AgreesInFile, Latest
  <2> QED BY <2>3, <2>4 DEF SchedulerInv
<1>2. CASE Error
  <2>1. /\ UNCHANGED <<wall, uptime, running, last_run, saved, now, todo, finished, begun, dirty, lost, rebooted>>
        /\ busy' = Idle
    BY <1>2 DEF Error, clocks
  <2>2. TickTypes'
    BY <2>1 DEF SchedulerInv, TickTypes
  <2>3. \A t \in Tasks : TaskInv(t)'
    BY <2>1 DEF SchedulerInv, TaskInv, AgreesInMemory, AgreesInFile, Latest, Due, Elapsed
  <2> QED BY <2>2, <2>3 DEF SchedulerInv
<1> QED BY <1>1, <1>2

\* A task completes as of the tick's time.
LEMMA CompleteKeeps ==
    ASSUME SchedulerInv, Complete
    PROVE  SchedulerInv'
<1> USE DEF Boot, Never
<1>1. /\ UNCHANGED <<wall, uptime, running, saved, now, todo, begun, rebooted>>
      /\ busy # Idle /\ busy' = Idle /\ busy \in Tasks /\ now # -1 /\ running
      /\ last_run' = [last_run EXCEPT ![busy] = now]
      /\ finished' = [finished EXCEPT ![busy] = wall - (uptime - now)]
      /\ dirty' = dirty \cup {busy} /\ lost' = lost \ {busy}
  BY DEF Complete, clocks, SchedulerInv, TickTypes
<1>2. /\ wall \in Nat /\ uptime \in Nat /\ now \in Int /\ now >= 1 /\ now <= uptime /\ wall - uptime >= 0
      /\ (~rebooted => wall - uptime = 0)
  BY <1>1 DEF SchedulerInv, TickTypes
<1>3. TickTypes'
  BY <1>1, <1>2 DEF SchedulerInv, TickTypes
<1>4. ASSUME NEW t \in Tasks
      PROVE  TaskInv(t)'
  <2>0. /\ TaskInv(t) /\ last_run[t] \in Int /\ finished[t] \in Int /\ saved[t] \in Int
        /\ last_run \in [Tasks -> Int] /\ finished \in [Tasks -> Int]
    BY DEF SchedulerInv, TickTypes
  <2>1. CASE t # busy
    <3>1. last_run'[t] = last_run[t] /\ finished'[t] = finished[t]
      BY <1>1, <2>0, <2>1
    <3> QED BY <1>1, <2>0, <2>1, <3>1 DEF TaskInv, AgreesInMemory, AgreesInFile, Latest, Due, Elapsed
  <2>2. CASE t = busy
    <3>1. last_run'[t] = now /\ finished'[t] = wall - (uptime - now) /\ t \in dirty'
      BY <1>1, <2>0, <2>2
    <3>2. Interval[t] \in Nat /\ Interval[t] >= 1
      BY IntervalsPositive
    <3>3. ~Due(t)'
      BY <1>1, <1>2, <3>1, <3>2 DEF Due, Elapsed
    <3>4. saved[t] = -1 \/ saved[t] <= (wall - uptime) + now
      BY <1>1, <2>0 DEF TaskInv, Latest
    <3> QED BY <1>1, <1>2, <2>0, <3>1, <3>3, <3>4 DEF TaskInv, AgreesInMemory, AgreesInFile, Latest
  <2> QED BY <2>1, <2>2
<1> QED BY <1>3, <1>4 DEF SchedulerInv

\* What a save writes is what the tasks last did, or nothing of what was before the boot.
LEMMA SaveKeeps ==
    ASSUME SchedulerInv, running, Save, now' = Never, todo' = <<>>, busy' = Idle,
           UNCHANGED <<wall, uptime, last_run, finished, lost, rebooted>>, running' \in BOOLEAN
    PROVE  SchedulerInv'
<1> USE DEF Boot, Never
<1>1. /\ wall \in Nat /\ uptime \in Nat /\ uptime >= 1 /\ wall - uptime >= 0
      /\ (~rebooted => wall - uptime = 0) /\ last_run \in [Tasks -> Int]
  BY DEF SchedulerInv, TickTypes
<1>2. saved' = [t \in Tasks |-> Stamp(t)] /\ dirty' = {}
  BY DEF Save
<1>3. \A t \in Tasks : Stamp(t) \in Int
  BY <1>1 DEF Stamp
<1>4. TickTypes'
  BY <1>2, <1>3 DEF SchedulerInv, TickTypes
<1>5. ASSUME NEW t \in Tasks
      PROVE  TaskInv(t)'
  <2>1. /\ TaskInv(t) /\ last_run[t] \in Int /\ finished[t] \in Int
        /\ last_run[t] <= uptime
    BY <1>1 DEF SchedulerInv, TickTypes, TaskInv, Latest
  <2>2. saved'[t] = IF last_run[t] > 0 THEN wall - (uptime - last_run[t]) ELSE -1
    BY <1>2 DEF Stamp
  <2>3. /\ finished'[t] = finished[t] /\ last_run'[t] = last_run[t] /\ lost' = lost /\ dirty' = {}
        /\ wall' = wall /\ uptime' = uptime /\ now' = -1 /\ rebooted' = rebooted
    BY <1>2
  <2>4. AgreesInMemory(t)' <=> AgreesInMemory(t)
    BY <2>3 DEF AgreesInMemory
  <2>5. finished[t] # -1 /\ t \notin lost => AgreesInFile(t)'
    <3> SUFFICES ASSUME finished[t] # -1, t \notin lost
                 PROVE  saved'[t] = finished[t] \/ (saved'[t] = -1 /\ finished[t] <= wall - uptime)
      BY <2>3 DEF AgreesInFile
    <3>1. last_run[t] = finished[t] - (wall - uptime) \/ (last_run[t] = 0 /\ finished[t] <= wall - uptime)
      BY <2>1 DEF TaskInv, AgreesInMemory
    <3> QED BY <1>1, <2>1, <2>2, <3>1
  <2>6. saved'[t] = -1 \/ saved'[t] <= (wall - uptime) + uptime
    BY <1>1, <2>1, <2>2
  <2>7. ~rebooted /\ finished[t] # -1 => saved'[t] <= finished[t] /\ last_run[t] <= finished[t]
    <3> SUFFICES ASSUME ~rebooted, finished[t] # -1
                 PROVE  saved'[t] <= finished[t] /\ last_run[t] <= finished[t]
      OBVIOUS
    <3>1. last_run[t] <= finished[t] /\ finished[t] >= 1 /\ wall - uptime = 0
      BY <1>1, <2>1 DEF TaskInv
    <3> QED BY <1>1, <2>1, <2>2, <3>1
  <2>8. /\ finished[t] = -1 \/ (finished[t] >= 1 /\ finished[t] <= wall)
    BY <2>1 DEF TaskInv
  <2> QED BY <2>1, <2>3, <2>4, <2>5, <2>6, <2>7, <2>8 DEF TaskInv, Latest
<1> QED BY <1>4, <1>5 DEF SchedulerInv

\* A crash loses the runs that were not saved; a reboot sets the monotonic clock back.
LEMMA CrashKeeps ==
    ASSUME SchedulerInv, CrashScheduler
    PROVE  SchedulerInv'
<1> USE DEF Boot, Never
<1>1. /\ UNCHANGED <<last_run, saved, finished>> /\ lost' = lost \cup dirty /\ dirty' = {}
      /\ running' = FALSE /\ now' = -1 /\ todo' = <<>> /\ busy' = Idle
      /\ \/ UNCHANGED <<wall, uptime, rebooted>>
         \/ wall' = wall + 1 /\ uptime' = 1 /\ rebooted' = TRUE
  BY DEF CrashScheduler, clocks
<1>2. /\ wall \in Nat /\ uptime \in Nat /\ uptime >= 1 /\ wall - uptime >= 0
      /\ (~rebooted => wall - uptime = 0) /\ now \in Int /\ (now # -1 => now <= uptime)
  BY DEF SchedulerInv, TickTypes
<1>3. TickTypes'
  BY <1>1, <1>2 DEF SchedulerInv, TickTypes
<1>4. ASSUME NEW t \in Tasks
      PROVE  TaskInv(t)'
  <2>1. TaskInv(t) /\ saved[t] \in Int /\ finished[t] \in Int
    BY DEF SchedulerInv, TickTypes
  <2>2. CASE UNCHANGED <<wall, uptime, rebooted>>
    <3>1. finished[t] = -1 \/ (finished[t] >= 1 /\ finished[t] <= wall)
      BY <2>1 DEF TaskInv
    <3>2. AgreesInFile(t)' <=> AgreesInFile(t)
      BY <1>1, <2>2 DEF AgreesInFile
    <3>3. finished[t] # -1 /\ t \notin lost' => AgreesInFile(t)
      BY <1>1, <2>1 DEF TaskInv
    <3>4. saved[t] = -1 \/ saved[t] <= (wall - uptime) + uptime
      <4>1. saved[t] = -1 \/ saved[t] <= (wall - uptime) + Latest
        BY <2>1 DEF TaskInv
      <4>2. Latest \in Int /\ Latest <= uptime
        BY <1>2 DEF Latest
      <4> HIDE DEF Latest
      <4> QED BY <1>2, <2>1, <4>1, <4>2
    <3>5. ~rebooted /\ finished[t] # -1 => saved[t] <= finished[t]
      BY <2>1 DEF TaskInv
    <3> QED BY <1>1, <2>2, <3>1, <3>2, <3>3, <3>4, <3>5 DEF TaskInv, Latest
  <2>3. CASE wall' = wall + 1 /\ uptime' = 1 /\ rebooted' = TRUE
    BY <1>1, <1>2, <2>1, <2>3 DEF TaskInv, AgreesInMemory, AgreesInFile, Latest
  <2> QED BY <1>1, <2>2, <2>3
<1> QED BY <1>3, <1>4 DEF SchedulerInv

\* Time passes for both clocks.
LEMMA TimeKeeps ==
    ASSUME SchedulerInv, TimePasses
    PROVE  SchedulerInv'
<1> USE DEF Boot, Never
<1>1. /\ UNCHANGED <<running, last_run, saved, now, todo, busy, finished, begun, dirty, lost, rebooted>>
      /\ wall' = wall + 1 /\ uptime' = uptime + 1
  BY DEF TimePasses
<1>2. wall \in Nat /\ uptime \in Nat /\ now \in Int
  BY DEF SchedulerInv, TickTypes
<1>3. TickTypes'
  BY <1>1, <1>2 DEF SchedulerInv, TickTypes
<1>4. ASSUME NEW t \in Tasks
      PROVE  TaskInv(t)'
  <2>1. TaskInv(t) /\ saved[t] \in Int /\ finished[t] \in Int /\ last_run[t] \in Int
    BY DEF SchedulerInv, TickTypes
  <2> QED BY <1>1, <1>2, <2>1 DEF TaskInv, AgreesInMemory, AgreesInFile, Latest, Due, Elapsed
<1> QED BY <1>3, <1>4 DEF SchedulerInv

\* Every step of the scheduler keeps the invariant.
LEMMA SchedulerInvNext ==
    ASSUME SchedulerInv, [SchedulerNext]_schedulerVars
    PROVE  SchedulerInv'
<1>1. CASE UNCHANGED schedulerVars
  BY <1>1 DEF schedulerVars, clocks, SchedulerInv, TickTypes, TaskInv, AgreesInMemory, AgreesInFile,
              Latest, Due, Elapsed, Boot
<1>2. CASE TierChanges
  BY <1>2 DEF TierChanges, clocks, SchedulerInv, TickTypes, TaskInv, AgreesInMemory, AgreesInFile,
              Latest, Due, Elapsed, Boot
<1>3. CASE EndTick
  <2>1. running
    BY <1>3 DEF EndTick, SchedulerInv, TickTypes
  <2>2. running' = running /\ todo' = <<>> /\ busy' = Idle
    BY <1>3 DEF EndTick
  <2> QED BY <1>3, <2>1, <2>2, SaveKeeps DEF EndTick, clocks
<1>4. CASE StopScheduler
  BY <1>4, SaveKeeps DEF StopScheduler, clocks
<1> QED BY <1>1, <1>2, <1>3, <1>4, BeginKeeps, TickKeeps, CompleteKeeps, CrashKeeps, TimeKeeps
    DEF SchedulerNext

\* It holds before the first start.
LEMMA SchedulerInvInit ==
    ASSUME SchedulerInit
    PROVE  SchedulerInv
<1>1. TickTypes
  BY DEF SchedulerInit, TickTypes, Boot, Never
<1>2. \A t \in Tasks : TaskInv(t)
  BY DEF SchedulerInit, TaskInv, Latest, Boot, Never
<1> QED BY <1>1, <1>2 DEF SchedulerInv

\* For any tasks, intervals, stops, crashes and reboots: a task is not begun again before its
\* interval has passed since it last completed, unless a crash came between the run and the
\* save. The time in memory and the time in the file are the same time, seen from the two
\* clocks, or a time before the boot that counts as none.
THEOREM NoTaskTooEarly == SchedulerSpec => NotTooEarly
<1>1. SchedulerInv /\ [SchedulerNext]_schedulerVars =>
         [busy = Idle /\ busy' \in Tasks =>
            \/ finished[busy'] = Never
            \/ wall - finished[busy'] >= Interval[busy']
            \/ busy' \in lost]_schedulerVars
  <2> SUFFICES ASSUME SchedulerInv, SchedulerNext, busy = Idle, busy' \in Tasks,
                      finished[busy'] # Never, busy' \notin lost
               PROVE  wall - finished[busy'] >= Interval[busy']
    OBVIOUS
  <2>1. Await
    <3>1. busy' # busy
      BY IntervalsPositive
    <3> QED BY <3>1 DEF SchedulerNext, Begin, BeginTick, Skip, Complete, Error, EndTick, StopScheduler,
                        CrashScheduler, TimePasses, TierChanges
  <2>2. PICK t \in Tasks : t = busy'
    OBVIOUS
  <2>3. Due(t) /\ todo # <<>>
    BY <2>1, <2>2 DEF Await
  <2>4. /\ now # -1 /\ running /\ now \in Int /\ now <= uptime /\ uptime \in Nat /\ wall \in Nat
        /\ last_run[t] \in Int /\ finished[t] \in Int /\ Interval[t] \in Nat
    BY <2>3, IntervalsPositive DEF SchedulerInv, TickTypes, Never
  <2>5. AgreesInMemory(t)
    BY <2>2, <2>4 DEF SchedulerInv, TaskInv
  <2>6. wall - finished[t] >= Interval[t]
    BY <2>3, <2>4, <2>5 DEF AgreesInMemory, Boot, Due, Elapsed
  <2> QED BY <2>2, <2>6
<1> QED BY <1>1, SchedulerInvInit, SchedulerInvNext, PTL DEF SchedulerSpec, NotTooEarly

\* Under the same conditions but a reboot: a tick comes to every task whose interval had passed
\* when it began, except for want of the language model.
THEOREM NoTaskForgotten == SchedulerSpec => OverdueTasksRun
<1>1. SchedulerInv /\ [SchedulerNext]_schedulerVars =>
         [now # Never /\ now' = Never /\ running' =>
            \A t \in Tasks \ (begun \cup NeedsLlm) :
               finished[t] # Never /\ wall - (uptime - now) - finished[t] >= Interval[t]
                   => rebooted]_schedulerVars
  <2> SUFFICES ASSUME SchedulerInv, SchedulerNext, now # Never, now' = Never, running',
                      NEW t \in Tasks \ (begun \cup NeedsLlm), finished[t] # Never,
                      wall - (uptime - now) - finished[t] >= Interval[t], ~rebooted
               PROVE  FALSE
    OBVIOUS
  <2>1. todo = <<>>
    BY DEF SchedulerNext, Begin, BeginTick, Skip, Await, Complete, Error, EndTick, StopScheduler,
           CrashScheduler, TimePasses, TierChanges
  <2>2. t \notin ToSet(todo)
    BY <2>1 DEF ToSet
  <2>3. /\ running /\ now \in Int /\ uptime \in Nat /\ wall \in Nat /\ wall - uptime = 0
        /\ last_run[t] \in Int /\ finished[t] \in Int /\ Interval[t] \in Nat
    BY IntervalsPositive DEF SchedulerInv, TickTypes, Boot
  <2>4. ~Due(t) /\ last_run[t] <= finished[t]
    BY <2>2, <2>3 DEF SchedulerInv, TaskInv
  <2> QED BY <2>3, <2>4 DEF Due, Elapsed
<1> QED BY <1>1, SchedulerInvInit, SchedulerInvNext, PTL DEF SchedulerSpec, OverdueTasksRun
=============================================================================
