------------------------------- MODULE Daemon -------------------------------
(***************************************************************************)
(* The background processes of engram, the server and the watcher, and the *)
(* PID file each is found by.  A command reads the file, asks the kernel   *)
(* about the process it names, and then forks a daemon or signals it; the  *)
(* steps of two commands, and the end and reuse of PIDs, come in between.  *)
(***************************************************************************)
EXTENDS Naturals, FiniteSets

CONSTANTS
    Pids,          \* what the kernel may hand out
    NoPid,         \* there is no PID file
    Torn,          \* the file is there and empty: its writer has opened it
    Commands,      \* shells that run engram commands
    WatchSessions, \* config: a session directory is watched (it is by default)
    MaxCommands,   \* bound: commands run
    MaxEnds        \* bound: processes that crash or other programs that start

ASSUME DaemonAssumption ==
    /\ NoPid \notin Pids /\ Torn \notin Pids \cup {NoPid}
    /\ WatchSessions \in BOOLEAN /\ MaxCommands \in Nat /\ MaxEnds \in Nat

Kinds == {"serve", "watch"}

VARIABLES
    proc,   \* [Pids -> "free", "stranger", or an engram process]
    file,   \* the PID file of each kind
    cmd,    \* what each shell is doing
    raced,  \* history: kinds two commands dealt with at the same time
    issued, ends

daemonVars == <<proc, file, cmd, raced, issued, ends>>

Running(k)  == [kind |-> k, at |-> "running"]
Stopping(k) == [kind |-> k, at |-> "stopping"]   \* SIGTERM was received
Lingering   == [kind |-> "watch", at |-> "lingering"]
Free        == [kind |-> "none", at |-> "free"]
Stranger    == [kind |-> "none", at |-> "stranger"]

Engram(p) == proc[p].kind \in Kinds

NoCommand == [at |-> "done", job |-> "none", kind |-> "none", pid |-> NoPid]

DaemonInit ==
    /\ proc = [p \in Pids |-> Free] /\ file = [k \in Kinds |-> NoPid]
    /\ cmd = [c \in Commands |-> NoCommand]
    /\ raced = {} /\ issued = 0 /\ ends = 0

InFlight(k) == {c \in Commands : cmd[c].at # "done" /\ cmd[c].kind = k}

\* Another shell's open file is no longer the one under this name.
Unlinked(k, cs) ==
    [c \in Commands |-> IF cs[c].at = "write" /\ cs[c].kind = k THEN [cs[c] EXCEPT !.at = "astray"] ELSE cs[c]]

----------------------------------------------------------------------------
Command(c, job, k) ==
    /\ cmd[c].at = "done" /\ issued < MaxCommands
    /\ issued' = issued + 1
    /\ cmd' = [cmd EXCEPT ![c] = [NoCommand EXCEPT !.at = "read", !.job = job, !.kind = k]]
    /\ raced' = IF InFlight(k) = {} THEN raced ELSE raced \cup {k}
    /\ UNCHANGED <<proc, file, ends>>

NotRunning(c) == IF cmd[c].job = "start" THEN "fork" ELSE "done"

\* The watcher's stop takes the file at its word.
Verifies(c) == cmd[c].job = "start" \/ cmd[c].kind = "serve"

Read(c) ==
    /\ cmd[c].at = "read"
    /\ LET k == cmd[c].kind  IN
       \/ /\ file[k] = NoPid
          /\ cmd' = [cmd EXCEPT ![c].at = NotRunning(c)]
          /\ UNCHANGED file
       \/ /\ file[k] = Torn /\ Verifies(c)
          /\ file' = [file EXCEPT ![k] = NoPid]
          /\ cmd' = Unlinked(k, [cmd EXCEPT ![c].at = NotRunning(c)])
       \/ /\ file[k] = Torn /\ ~Verifies(c)         \* int() raises
          /\ cmd' = [cmd EXCEPT ![c].at = "done"]
          /\ UNCHANGED file
       \/ /\ file[k] \in Pids
          /\ cmd' = [cmd EXCEPT ![c].at = IF Verifies(c) THEN "check" ELSE "kill", ![c].pid = file[k]]
          /\ UNCHANGED file
    /\ UNCHANGED <<proc, raced, issued, ends>>

\* os.kill(pid, 0), and "engram" in the command line.
Alive(p) == Engram(p)

Check(c) ==
    /\ cmd[c].at = "check"
    /\ LET k == cmd[c].kind  p == cmd[c].pid  IN
       IF Alive(p)
       THEN /\ cmd' = [cmd EXCEPT ![c].at = IF cmd[c].job = "start" THEN "done" ELSE "kill"]
            /\ UNCHANGED file
       ELSE /\ file' = [file EXCEPT ![k] = NoPid]
            /\ cmd' = Unlinked(k, [cmd EXCEPT ![c].at = NotRunning(c)])
    /\ UNCHANGED <<proc, raced, issued, ends>>

Fork(c) ==
    /\ cmd[c].at = "fork"
    /\ \E p \in Pids :
        /\ proc[p] = Free
        /\ proc' = [proc EXCEPT ![p] = Running(cmd[c].kind)]
        /\ cmd' = [cmd EXCEPT ![c].at = "open", ![c].pid = p]
    /\ UNCHANGED <<file, raced, issued, ends>>

\* The parent writes the child's PID, which is running by then: the file is emptied first ...
Open(c) ==
    /\ cmd[c].at = "open"
    /\ file' = [file EXCEPT ![cmd[c].kind] = Torn]
    /\ cmd' = [cmd EXCEPT ![c].at = "write"]
    /\ UNCHANGED <<proc, raced, issued, ends>>

\* ... and what is written goes astray if it was unlinked meanwhile.
Write(c) ==
    /\ cmd[c].at \in {"write", "astray"}
    /\ file' = IF cmd[c].at = "write" THEN [file EXCEPT ![cmd[c].kind] = cmd[c].pid] ELSE file
    /\ cmd' = [cmd EXCEPT ![c].at = "done"]
    /\ UNCHANGED <<proc, raced, issued, ends>>

Kill(c) ==
    /\ cmd[c].at = "kill"
    /\ LET p == cmd[c].pid IN
       proc' = [proc EXCEPT ![p] = IF @.at = "running" THEN Stopping(@.kind)
                                   ELSE IF @ = Stranger THEN Free ELSE @]
    /\ cmd' = [cmd EXCEPT ![c].at = "unlink"]
    /\ UNCHANGED <<file, raced, issued, ends>>

Unlink(c) ==
    /\ cmd[c].at = "unlink"
    /\ file' = [file EXCEPT ![cmd[c].kind] = NoPid]
    /\ cmd' = Unlinked(cmd[c].kind, [cmd EXCEPT ![c].at = "done"])
    /\ UNCHANGED <<proc, raced, issued, ends>>

\* Mutant: a daemon that ends removes the file whoever it names.
Cleanup_Blind(p) ==
    /\ file' = [file EXCEPT ![proc[p].kind] = NoPid]
    /\ cmd' = Unlinked(proc[p].kind, cmd)

\* _cleanup_pid: the file goes if it names this process.
Cleanup(p) ==
    /\ file' = [file EXCEPT ![proc[p].kind] = IF @ = p THEN NoPid ELSE @]
    /\ UNCHANGED cmd

\* The server exits on SIGTERM.  The watcher's handler ends the inbox loop only: the process awaits
\* the session watchers too, which nothing stops.
Stops(p) ==
    /\ proc[p].at = "stopping"
    /\ Cleanup(p)
    /\ proc' = [proc EXCEPT ![p] = IF @.kind = "watch" /\ WatchSessions THEN Lingering ELSE Free]
    /\ UNCHANGED <<raced, issued, ends>>

End == ends < MaxEnds /\ ends' = ends + 1

\* A crash, or SIGKILL: no cleanup.
Dies(p) ==
    /\ Engram(p) /\ End
    /\ proc' = [proc EXCEPT ![p] = Free]
    /\ UNCHANGED <<file, cmd, raced, issued>>

\* The kernel gives a free PID to some other program.
Reused(p) ==
    /\ proc[p] = Free /\ End
    /\ proc' = [proc EXCEPT ![p] = Stranger]
    /\ UNCHANGED <<file, cmd, raced, issued>>

DaemonNext ==
    \/ \E c \in Commands :
        \/ \E job \in {"start", "stop"}, k \in Kinds : Command(c, job, k)
        \/ Read(c) \/ Check(c) \/ Fork(c) \/ Open(c) \/ Write(c) \/ Kill(c) \/ Unlink(c)
    \/ \E p \in Pids : Stops(p) \/ Dies(p) \/ Reused(p)

DaemonSpec == DaemonInit /\ [][DaemonNext]_daemonVars

----------------------------------------------------------------------------
\* When no command is under way, the PID file names every daemon that has not been told to stop,
\* so there is never a second one, unless two commands ran at once (watcher.py:256).
DaemonIsKnown ==
    \A p \in Pids, k \in Kinds :
        proc[p] = Running(k) /\ InFlight(k) = {} => file[k] = p \/ k \in raced
=============================================================================
