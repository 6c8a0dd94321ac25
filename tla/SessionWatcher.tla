--------------------------- MODULE SessionWatcher ---------------------------
(***************************************************************************)
(* The session watcher of engram follows .jsonl files other programs       *)
(* append to.  It remembers how far it has read each file, reads on when   *)
(* its observer thread gets a file-system event and whenever the event     *)
(* loop scans the directory, saves the positions, and hands what it read   *)
(* to the ingest function without waiting for it.                          *)
(*                                                                         *)
(* A file is a sequence of half lines: a line read in two halves is twice  *)
(* not JSON.  Every whole line is one parse_session_line keeps.  An action *)
(* is what a thread does up to a point where the other may come in.        *)
(***************************************************************************)
EXTENDS Integers, Sequences

CONSTANTS
    Files,       \* paths of the directory
    MaxLines,    \* bound: lines written
    MaxFileOps,  \* bound: renamings and truncations
    MaxRestarts  \* bound: stops and crashes

ASSUME SessionAssumption ==
    <<>> \notin Files /\ MaxLines \in Nat /\ MaxFileOps \in Nat /\ MaxRestarts \in Nat

Threads   == {"observer", "loop"}
Lines     == 1..MaxLines
Untracked == -1     \* no position is known
NoFile    == [there |-> FALSE, half |-> <<>>]
Free      == [file |-> <<>>, from |-> 0, early |-> FALSE]

VARIABLES
    disk,      \* [Files -> [there, half: its half lines, each the number of its line]]
    lines,     \* lines begun so far
    positions, \* _positions
    saved,     \* the positions file
    events,    \* file-system events the observer has not handled
    reading,   \* [Threads -> the file whose lock it holds, and the position it reads from]
    ingests,   \* batches of lines handed to the event loop and not finished
    running,   \* the watcher runs
    captured,  \* history: how often each line was handed over
    ingested,  \* history: lines whose ingestion succeeded
    unheard,   \* history: paths the observer has not been told of, or of whose earlier name it has not;
               \* a restart that finds a position of such a path saved does not change that
    raced,     \* history: lines of a read begun while the path was unheard of
    missed,    \* history: lines read by halves, skipped by a start, or in a lost batch
    cut,       \* history: paths whose content was taken away
    fileOps, restarts

written == <<disk, lines>>
history == <<captured, ingested, unheard, raced, missed, cut>>
bounds  == <<fileOps, restarts>>
sessionVars == <<written, positions, saved, events, reading, ingests, running, history, bounds>>

SessionInit ==
    /\ disk = [f \in Files |-> NoFile] /\ lines = 0
    /\ positions = [f \in Files |-> Untracked] /\ saved = positions
    /\ events = <<>> /\ ingests = {} /\ running = FALSE
    /\ reading = [t \in Threads |-> Free]
    /\ captured = [l \in Lines |-> 0] /\ ingested = {} /\ unheard = {} /\ raced = {}
    /\ missed = {} /\ cut = {}
    /\ fileOps = 0 /\ restarts = 0

\* The halves of a line follow each other.
LinesOf(s)    == {s[i] : i \in 1..Len(s)}
WholeLines(s) == {s[i] : i \in {j \in 1..(Len(s) - 1) : s[j] = s[j + 1]}}
TornLines(s)  == LinesOf(s) \ WholeLines(s)
Size(f)       == Len(disk[f].half)
Min(m, n)     == IF m < n THEN m ELSE n

----------------------------------------------------------------------------
\* Other programs: a line is written at once or in two halves; a file is renamed or cut.
\* A name that was renamed away is not used again: session files have unique names.

Notify(kind, f, g) ==
    /\ events'  = IF running THEN Append(events, <<kind, f, g>>) ELSE events
    /\ unheard' = IF running /\ kind # "modified" THEN unheard \cup {g} ELSE unheard

Write(f) ==
    /\ disk[f].there \/ f \notin cut
    /\ LET s == disk[f].half IN
        \/ /\ TornLines(s) # {}
           /\ disk' = [disk EXCEPT ![f].half = Append(s, s[Len(s)])]
           /\ UNCHANGED lines
        \/ /\ TornLines(s) = {} /\ lines < MaxLines
           /\ lines' = lines + 1
           /\ \E more \in {<<lines'>>, <<lines', lines'>>} :
                disk' = [disk EXCEPT ![f] = [there |-> TRUE, half |-> s \o more]]
    /\ Notify(IF disk[f].there THEN "modified" ELSE "created", f, f)
    /\ UNCHANGED <<positions, saved, reading, ingests, running, captured, ingested, raced, missed,
                   cut, bounds>>

Rename(f, g) ==
    /\ disk[f].there /\ ~disk[g].there /\ g \notin cut /\ fileOps < MaxFileOps
    /\ fileOps' = fileOps + 1
    /\ disk' = [disk EXCEPT ![f] = NoFile, ![g] = disk[f]]
    /\ cut' = cut \cup {f} \cup (IF f \in cut THEN {g} ELSE {})
    /\ Notify("moved", f, g)
    /\ UNCHANGED <<lines, positions, saved, reading, ingests, running, captured, ingested, raced,
                   missed, restarts>>

Truncate(f) ==
    /\ Size(f) > 0 /\ fileOps < MaxFileOps
    /\ fileOps' = fileOps + 1
    /\ disk' = [disk EXCEPT ![f].half = <<>>]
    /\ cut' = cut \cup {f}
    /\ Notify("modified", f, f)
    /\ UNCHANGED <<lines, positions, saved, reading, ingests, running, captured, ingested, raced,
                   missed, restarts>>

----------------------------------------------------------------------------
\* The watcher.

\* Mutant: every file is taken up at its end.
Resume_AtEnd(f) == IF disk[f].there THEN Size(f) ELSE saved[f]

Resume(f) ==
    IF saved[f] = Untracked /\ disk[f].there THEN Size(f) ELSE saved[f]

\* start(): the positions are loaded, files without one are taken up at their end.
StartWatching ==
    /\ ~running
    /\ running' = TRUE
    /\ positions' = [f \in Files |-> Resume(f)]
    /\ missed' = missed \cup UNION {LinesOf(disk[f].half) : f \in {g \in Files : saved[g] = Untracked}}
    /\ UNCHANGED <<written, saved, events, reading, ingests, captured, ingested, unheard, raced, cut, bounds>>

\* Where _process_new_lines begins: at 0 in a file that is not tracked or has shrunk.
From(pos, f) == IF pos[f] > Size(f) \/ pos[f] = Untracked THEN 0 ELSE pos[f]

\* Mutant: the threads do not exclude each other.
Locked_Never(f) == FALSE

Locked(f) == \E t \in Threads : reading[t].file = f

\* The lock is taken without waiting, and there is something to read.
Begin(t, pos, f) ==
    IF disk[f].there /\ ~Locked(f) /\ Size(f) > From(pos, f)
      THEN reading' = [reading EXCEPT ![t] = [file |-> f, from |-> From(pos, f),
                                              early |-> f \in unheard']]
      ELSE UNCHANGED reading

\* Mutant: a renamed file is taken up at its end.
Moved_AtEnd(e) == IF e[1] = "moved" THEN [positions EXCEPT ![e[3]] = Size(e[3])] ELSE positions

\* on_modified, on_created and on_moved set the position without the file's lock.
Moved(e) ==
    CASE e[1] = "modified" -> positions
      [] e[1] = "created"  -> [positions EXCEPT ![e[3]] = 0]
      [] e[1] = "moved" /\ positions[e[2]] # Untracked
                           -> [positions EXCEPT ![e[3]] = positions[e[2]], ![e[2]] = Untracked]
      [] OTHER             -> [positions EXCEPT ![e[3]] = IF @ = Untracked THEN 0 ELSE @]

\* A path is heard of by its event, if the observer heard of the name the file had before.
Heard(e) ==
    IF e[1] = "created" \/ (e[1] = "moved" /\ e[2] \notin unheard) THEN unheard \ {e[3]} ELSE unheard

Observe ==
    /\ running /\ events # <<>> /\ reading["observer"] = Free
    /\ events' = Tail(events)
    /\ unheard' = Heard(Head(events))
    /\ positions' = Moved(Head(events))
    /\ Begin("observer", positions', Head(events)[3])
    /\ UNCHANGED <<written, saved, ingests, running, captured, ingested, raced, missed, cut, bounds>>

\* An event may not arrive at all.
MissEvent ==
    /\ running /\ events # <<>>
    /\ events' = Tail(events)
    /\ UNCHANGED <<written, positions, saved, reading, ingests, running, history, bounds>>

\* The scan every 30 seconds.
Scan(f) ==
    /\ running /\ reading["loop"] = Free
    /\ UNCHANGED unheard
    /\ Begin("loop", positions, f) /\ reading' # reading
    /\ UNCHANGED <<written, positions, saved, events, ingests, running, captured, ingested, raced,
                   missed, cut, bounds>>

\* Nothing is read behind the end.
ReadTo(f, from) == IF Size(f) < from THEN from ELSE Size(f)

\* The file is read to its present end, and the position saved before anything is ingested.
Read(t) ==
    /\ reading[t] # Free
    /\ reading' = [reading EXCEPT ![t] = Free]
    /\ LET f    == reading[t].file
           half == SubSeq(disk[f].half, reading[t].from + 1, Size(f))
           new  == WholeLines(half)
       IN  IF ~disk[f].there
             THEN UNCHANGED <<positions, saved, ingests, captured, missed, raced>>
             ELSE /\ positions' = [positions EXCEPT ![f] = ReadTo(f, reading[t].from)]
                  /\ saved'     = positions'
                  /\ ingests'   = IF new = {} THEN ingests ELSE ingests \cup {new}
                  /\ captured'  = [l \in Lines |-> IF l \in new THEN captured[l] + 1 ELSE captured[l]]
                  /\ missed'    = missed \cup TornLines(half)
                  /\ raced'     = IF reading[t].early THEN raced \cup new ELSE raced
    /\ UNCHANGED <<written, events, running, ingested, unheard, cut, bounds>>

\* The coroutine finishes; a failure is only logged.
IngestBatch(b) ==
    /\ ingests' = ingests \ {b}
    /\ \/ ingested' = ingested \cup b /\ UNCHANGED missed
       \/ missed' = missed \cup b /\ UNCHANGED ingested
    /\ UNCHANGED <<written, positions, saved, events, reading, running, captured, unheard, raced, cut, bounds>>

\* A crash while the positions file is rewritten leaves it empty, and _load_positions reads {}.
Crash ==
    /\ running /\ restarts < MaxRestarts
    /\ restarts' = restarts + 1
    /\ running' = FALSE
    /\ events' = <<>> /\ ingests' = {}
    /\ reading' = [t \in Threads |-> Free]
    /\ positions' = [f \in Files |-> Untracked]
    /\ missed' = missed \cup UNION ingests
    /\ \/ UNCHANGED saved
       \/ /\ \E t \in Threads : reading[t] # Free
          /\ saved' = positions'
    /\ unheard' = {f \in unheard : saved'[f] # Untracked}
    /\ UNCHANGED <<written, captured, ingested, raced, cut, fileOps>>

SessionWatch == Observe \/ (\E t \in Threads : Read(t)) \/ (\E b \in ingests : IngestBatch(b))

SessionNext ==
    \/ \E f \in Files : Write(f) \/ Truncate(f) \/ Scan(f)
    \/ \E f, g \in Files : Rename(f, g)
    \/ StartWatching \/ MissEvent \/ SessionWatch \/ Crash

\* The scan comes round to every file again, and threads and coroutines go on.
SessionFair ==
    /\ \A f \in Files : WF_sessionVars(Scan(f))
    /\ WF_sessionVars(SessionWatch)

SessionSpec == SessionInit /\ [][SessionNext]_sessionVars /\ SessionFair

----------------------------------------------------------------------------
\* A line is handed over once, although two threads read the file: only a scan that came before
\* the event that announces the path or an earlier name of the file, or in its place, lets a line be
\* read again, and so does a restart that takes up the position such a path was left with
\* (session_watcher.py:188, 214, 224).
CapturedOnce == \A l \in Lines : captured[l] > 1 => l \in raced

\* A whole line behind the position is stored or being ingested, unless it was read before it
\* was finished, its ingestion failed or was cut off by a crash, a start skipped it, or the path
\* had another content before (session_watcher.py:239, 248, 256, 330).
PassedIsIngested ==
    \A f \in Files \ cut :
        running /\ positions[f] # Untracked =>
            \A l \in WholeLines(SubSeq(disk[f].half, 1, Min(positions[f], Size(f)))) :
                l \in ingested \cup missed \cup UNION ingests

\* Lost events are made up for by the scan: a finished line is read some time, while the watcher
\* runs and its path keeps its content.
LinesAreRead ==
    \A l \in Lines :
        (running /\ \E f \in Files : l \in WholeLines(disk[f].half))
            ~> \/ captured[l] > 0 \/ l \in missed \/ ~running
               \/ \A f \in Files \ cut : l \notin LinesOf(disk[f].half)
=============================================================================
