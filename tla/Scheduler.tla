----------------------------- MODULE Scheduler -----------------------------
(***************************************************************************)
(* The maintenance scheduler of engram: a tick runs the due tasks one after*)
(* the other and then saves when each last ran.  In memory a run is a time *)
(* of the monotonic clock, which starts at 0 when the machine boots; in    *)
(* the file it is a time of day.                                           *)
(*                                                                         *)
(* The clocks advance together, by one unit at a time.                     *)
(***************************************************************************)
EXTENDS Integers, FiniteSets, Sequences, SequencesExt

CONSTANTS
    Order,       \* the tasks in the order of their registration
    Interval,    \* [tasks -> interval_seconds]
    NeedsLlm,    \* tasks with requires_llm
    MaxTime,     \* bound: time of day at the end
    MaxFaults,   \* bound: crashes and reboots
    MaxErrors    \* bound: tasks that fail or time out

Tasks == ToSet(Order)
Never == -1      \* last_run_iso is null
Idle  == "idle"  \* no task is awaited

ASSUME SchedulerAssumption ==
    /\ Order \in Seq(Tasks) /\ Idle \notin Tasks
    /\ Interval \in [Tasks -> Nat \ {0}] /\ NeedsLlm \subseteq Tasks
    /\ MaxTime \in Nat /\ MaxFaults \in Nat /\ MaxErrors \in Nat

VARIABLES
    wall, uptime, \* time of day, monotonic clock
    running,
    last_run,     \* of each task, on the monotonic clock; 0 if it has not run
    saved,        \* the state file: the time of day each task last ran, or Never
    now,          \* the tick's time, or Never between two ticks
    todo,         \* tasks the tick has not come to
    busy,         \* the task it awaits, or Idle
    llm,          \* can_use_llm()
    finished,     \* history: the time of day each task last completed, for the tick that ran it
    begun,        \* history: tasks this tick has awaited
    dirty,        \* history: tasks that completed since the last save
    lost,         \* history: tasks whose last run a crash kept from being saved
    rebooted,     \* history: the machine was restarted
    faults, errors

clocks == <<wall, uptime>>
schedulerVars == <<clocks, running, last_run, saved, now, todo, busy, llm, finished, begun, dirty, lost,
                   rebooted, faults, errors>>

SchedulerInit ==
    /\ wall = 1 /\ uptime = 1 /\ running = FALSE
    /\ last_run = [t \in Tasks |-> 0] /\ saved = [t \in Tasks |-> Never]
    /\ now = Never /\ todo = <<>> /\ busy = Idle /\ llm = TRUE
    /\ finished = saved /\ begun = {} /\ dirty = {} /\ lost = {}
    /\ rebooted = FALSE /\ faults = 0 /\ errors = 0

Elapsed(t) == now - last_run[t]
Due(t)     == Elapsed(t) >= Interval[t]

----------------------------------------------------------------------------
\* Mutant: what the file says is not used.
Loaded_None(t) == 0

\* _load_state: a time before the machine booted is a negative one.
Loaded(t) == IF saved[t] = Never THEN 0 ELSE uptime - (wall - saved[t])

\* start()
Begin ==
    /\ ~running
    /\ running' = TRUE
    /\ last_run' = [t \in Tasks |-> Loaded(t)]
    /\ UNCHANGED <<clocks, saved, now, todo, busy, llm, finished, begun, dirty, lost, rebooted, faults, errors>>

\* A tick takes the time once, for all its tasks.
BeginTick ==
    /\ running /\ now = Never
    /\ now' = uptime /\ todo' = Order /\ begun' = {}
    /\ UNCHANGED <<clocks, running, last_run, saved, busy, llm, finished, dirty, lost, rebooted, faults, errors>>

\* The next task is passed over ...
Skip ==
    /\ todo # <<>> /\ busy = Idle
    /\ ~Due(Head(todo)) \/ (Head(todo) \in NeedsLlm /\ ~llm)
    /\ todo' = Tail(todo)
    /\ UNCHANGED <<clocks, running, last_run, saved, now, busy, llm, finished, begun, dirty, lost, rebooted,
                   faults, errors>>

\* ... or awaited ...
Await ==
    /\ todo # <<>> /\ busy = Idle
    /\ Due(Head(todo)) /\ (Head(todo) \in NeedsLlm => llm)
    /\ busy' = Head(todo) /\ todo' = Tail(todo) /\ begun' = begun \cup {Head(todo)}
    /\ UNCHANGED <<clocks, running, last_run, saved, now, llm, finished, dirty, lost, rebooted, faults, errors>>

\* ... and completes as of the tick's time ...
Complete ==
    /\ busy # Idle
    /\ busy' = Idle
    /\ last_run' = [last_run EXCEPT ![busy] = now]
    /\ finished' = [finished EXCEPT ![busy] = wall - (uptime - now)]
    /\ dirty' = dirty \cup {busy} /\ lost' = lost \ {busy}
    /\ UNCHANGED <<clocks, running, saved, now, todo, llm, begun, rebooted, faults, errors>>

\* Mutant: a failed task counts as run.
Error_Counts ==
    /\ busy # Idle /\ errors < MaxErrors
    /\ busy' = Idle /\ errors' = errors + 1
    /\ last_run' = [last_run EXCEPT ![busy] = now]
    /\ UNCHANGED <<clocks, running, saved, now, todo, llm, finished, begun, dirty, lost, rebooted, faults>>

\* ... or fails or times out, and stays due.
Error ==
    /\ busy # Idle /\ errors < MaxErrors
    /\ busy' = Idle /\ errors' = errors + 1
    /\ UNCHANGED <<clocks, running, last_run, saved, now, todo, llm, finished, begun, dirty, lost, rebooted, faults>>

\* _save_state: a run before the boot is written as none at all.
Stamp(t) == IF last_run[t] > 0 THEN wall - (uptime - last_run[t]) ELSE Never

Save == saved' = [t \in Tasks |-> Stamp(t)] /\ dirty' = {}

EndTick ==
    /\ now # Never /\ todo = <<>> /\ busy = Idle
    /\ now' = Never
    /\ Save
    /\ UNCHANGED <<clocks, running, last_run, todo, busy, llm, finished, begun, lost, rebooted, faults, errors>>

\* stop(): the tick is cancelled wherever it is, and the state saved.
StopScheduler ==
    /\ running
    /\ running' = FALSE /\ now' = Never /\ todo' = <<>> /\ busy' = Idle /\ begun' = {}
    /\ Save
    /\ UNCHANGED <<clocks, last_run, llm, finished, lost, rebooted, faults, errors>>

\* A crash saves nothing; a reboot sets the monotonic clock back.
CrashScheduler ==
    /\ faults < MaxFaults
    /\ faults' = faults + 1
    /\ lost' = lost \cup dirty /\ dirty' = {}
    /\ running' = FALSE /\ now' = Never /\ todo' = <<>> /\ busy' = Idle /\ begun' = {}
    /\ \/ UNCHANGED <<clocks, rebooted>>
       \/ wall < MaxTime /\ wall' = wall + 1 /\ uptime' = 1 /\ rebooted' = TRUE
    /\ UNCHANGED <<last_run, saved, llm, finished, errors>>

TimePasses ==
    /\ wall < MaxTime
    /\ wall' = wall + 1 /\ uptime' = uptime + 1
    /\ UNCHANGED <<running, last_run, saved, now, todo, busy, llm, finished, begun, dirty, lost, rebooted,
                   faults, errors>>

TierChanges ==
    /\ llm' = ~llm
    /\ UNCHANGED <<clocks, running, last_run, saved, now, todo, busy, finished, begun, dirty, lost, rebooted,
                   faults, errors>>

SchedulerNext ==
    \/ Begin \/ BeginTick \/ Skip \/ Await \/ Complete \/ Error \/ EndTick
    \/ StopScheduler \/ CrashScheduler \/ TimePasses \/ TierChanges

SchedulerSpec == SchedulerInit /\ [][SchedulerNext]_schedulerVars

----------------------------------------------------------------------------
\* A task is not begun again before its interval has passed since it last completed, across stops
\* and restarts too, unless a crash came between the run and the save (scheduler.py:140).
NotTooEarly ==
    [][busy = Idle /\ busy' \in Tasks =>
         \/ finished[busy'] = Never
         \/ wall - finished[busy'] >= Interval[busy']
         \/ busy' \in lost]_schedulerVars

\* A tick comes to every task whose interval had passed when it began, except for want of the
\* language model; not so after a reboot, when runs before it are forgotten (scheduler.py:185).
OverdueTasksRun ==
    [][now # Never /\ now' = Never /\ running' =>
         \A t \in Tasks \ (begun \cup NeedsLlm) :
            finished[t] # Never /\ wall - (uptime - now) - finished[t] >= Interval[t]
                => rebooted]_schedulerVars
=============================================================================
