------------------------------- MODULE Setup -------------------------------
(***************************************************************************)
(* engram setup and engram init write engram into the settings files of    *)
(* the agents they find.  The files belong to the agents and their users;  *)
(* two runs, or a run and an agent, may be at one file, and a run may be   *)
(* killed between any two of its reads and writes.                         *)
(***************************************************************************)
EXTENDS Naturals, FiniteSets

CONSTANTS
    Agents,
    Format,    \* [Agents -> "json" (mcpServers, Zed), "yaml" (aider) or "text" (a skill or guide)]
    Runs,      \* runs of setup or init
    MaxEdits   \* bound: edits by the agents and their users

ASSUME SetupAssumption ==
    /\ Format \in [Agents -> {"json", "yaml", "text"}] /\ MaxEdits \in Nat
    /\ "none" \notin Agents \cup Runs

VARIABLES
    settings,  \* each agent's settings file
    backup,    \* the .bak beside it
    run,       \* what each run is doing
    edits,
    copied,    \* history: [Agents -> times a run copied the file to its backup, up to 2]
    disturbed, \* history: agents whose file was edited or written during a run's work, or left half written
    first      \* history: each settings file at the start

setupVars == <<settings, backup, run, edits, copied, disturbed, first>>

\* own: the user's entries; engram: ours; parses: as its format.
Absent  == [there |-> FALSE, own |-> FALSE, engram |-> FALSE, parses |-> TRUE]
FreshFile   == [there |-> TRUE, own |-> FALSE, engram |-> FALSE, parses |-> TRUE]
Emptied == [there |-> TRUE, own |-> FALSE, engram |-> FALSE, parses |-> FALSE]
Theirs  == [there |-> TRUE, own |-> TRUE, engram |-> FALSE, parses |-> TRUE]
\* Theirs with comments, or damaged
Odd     == [Theirs EXCEPT !.parses = FALSE]

NotRunning == [at |-> "idle", left |-> {}, agent |-> "none", seen |-> Absent]

SetupInit ==
    /\ first \in [Agents -> {Absent, Theirs, Odd}]
    /\ settings = first
    /\ backup = [a \in Agents |-> Absent]
    /\ run = [r \in Runs |-> NotRunning]
    /\ edits = 0
    /\ copied = [a \in Agents |-> 0] /\ disturbed = {}

AtWork(a) == {r \in Runs : run[r].agent = a}

Unparsed(c) == ~c.parses

\* json.loads or yaml.safe_load: what does not parse counts as no settings.
Existing(a) == IF Unparsed(settings[a]) THEN FreshFile ELSE settings[a]

Configured(a) == settings[a].engram /\ (Format[a] # "text" => settings[a].parses)

----------------------------------------------------------------------------
\* scan_agents, and what the user selects of it: all that are installed when nobody is asked.
Start(r) ==
    /\ run[r].at = "idle"
    /\ \E chosen \in SUBSET Agents \ {{}} :
          run' = [run EXCEPT ![r] = [NotRunning EXCEPT !.at = "next", !.left = chosen]]
    /\ UNCHANGED <<settings, backup, edits, copied, disturbed, first>>

Disturbs(a, r) == IF AtWork(a) \ {r} = {} THEN disturbed ELSE disturbed \cup {a}

\* configure() of one connector: a file that has engram is left alone.
Passed(r, a) == [run[r] EXCEPT !.left = @ \ {a}]

Begun(r, a) ==
    [at |-> IF settings[a].there /\ Format[a] # "yaml" THEN "backup" ELSE "empty",
     left |-> run[r].left \ {a}, agent |-> a, seen |-> Existing(a)]

Read(r, a) ==
    /\ run[r].at = "next" /\ a \in run[r].left
    /\ run' = [run EXCEPT ![r] = IF Configured(a) THEN Passed(r, a) ELSE Begun(r, a)]
    /\ disturbed' = IF Configured(a) THEN disturbed ELSE Disturbs(a, r)
    /\ UNCHANGED <<settings, backup, edits, copied, first>>

BackupSettings(r, a) ==
    /\ run[r].at = "backup" /\ run[r].agent = a
    /\ backup' = [backup EXCEPT ![a] = settings[a]]
    /\ copied' = [copied EXCEPT ![a] = IF @ = 2 THEN 2 ELSE @ + 1]
    /\ run' = [run EXCEPT ![r].at = "empty"]
    /\ UNCHANGED <<settings, edits, disturbed, first>>

\* write_text and open(..., "w") empty the file first.
Empty(r, a) ==
    /\ run[r].at = "empty" /\ run[r].agent = a
    /\ settings' = [settings EXCEPT ![a] = Emptied]
    /\ run' = [run EXCEPT ![r].at = "write"]
    /\ UNCHANGED <<backup, edits, copied, disturbed, first>>

\* Mutant: the entry is written in place of the settings.
Merged_Alone(a, seen) == [FreshFile EXCEPT !.engram = TRUE]

\* The entry is added to the settings that were read; a skill or guide is written as a whole.
Merged(a, seen) ==
    IF Format[a] = "text" THEN [FreshFile EXCEPT !.engram = TRUE]
    ELSE [seen EXCEPT !.there = TRUE, !.engram = TRUE]

WriteMerged(r, a) ==
    /\ run[r].at = "write" /\ run[r].agent = a
    /\ settings' = [settings EXCEPT ![a] = Merged(a, run[r].seen)]
    /\ run' = [run EXCEPT ![r] = [NotRunning EXCEPT !.at = "next", !.left = run[r].left]]
    /\ UNCHANGED <<backup, edits, copied, disturbed, first>>

\* A connector that raises is reported and the next one is configured.
ConnectorFails(r, a) ==
    /\ run[r].at \in {"backup", "empty", "write"} /\ run[r].agent = a
    /\ run' = [run EXCEPT ![r] = [NotRunning EXCEPT !.at = "next", !.left = run[r].left]]
    /\ disturbed' = IF run[r].at = "write" THEN disturbed \cup {a} ELSE disturbed
    /\ UNCHANGED <<settings, backup, edits, copied, first>>

\* The services and the server that are started next are not modelled here.
FinishSetup(r) ==
    /\ run[r].at = "next" /\ run[r].left = {}
    /\ run' = [run EXCEPT ![r] = NotRunning]
    /\ UNCHANGED <<settings, backup, edits, copied, disturbed, first>>

KillRun(r) ==
    /\ run[r].at # "idle"
    /\ run' = [run EXCEPT ![r] = NotRunning]
    /\ disturbed' = IF run[r].at = "write" THEN disturbed \cup {run[r].agent} ELSE disturbed
    /\ UNCHANGED <<settings, backup, edits, copied, first>>

\* The agent, or its user, adds settings, repairs the file or takes engram out of it.
EditSettings(a) ==
    /\ edits < MaxEdits /\ edits' = edits + 1
    /\ \E c \in {settings[a], [settings[a] EXCEPT !.engram = FALSE]} :
          settings' = [settings EXCEPT ![a] = [c EXCEPT !.there = TRUE, !.parses = TRUE]]
    /\ disturbed' = Disturbs(a, "none")
    /\ UNCHANGED <<backup, run, copied, first>>

SetupNext ==
    \/ \E r \in Runs :
          \/ Start(r) \/ FinishSetup(r) \/ KillRun(r)
          \/ \E a \in Agents : Read(r, a) \/ BackupSettings(r, a) \/ Empty(r, a) \/ WriteMerged(r, a) \/ ConnectorFails(r, a)
    \/ \E a \in Agents : EditSettings(a)

SetupSpec == SetupInit /\ [][SetupNext]_setupVars

----------------------------------------------------------------------------
\* The user's settings come through a run: those that parse in the file itself, others in the
\* backup until it is made again ("start fresh but preserve original via backup",
\* mcp_json_mixin.py:43), while nobody else writes the file and no run dies writing it.
SettingsKept ==
    \A a \in Agents : first[a].there /\ a \notin disturbed /\ AtWork(a) = {} =>
        /\ first[a].parses /\ Format[a] # "text" => settings[a].own
        /\ Format[a] # "yaml" /\ copied[a] < 2 => settings[a].own \/ backup[a].own
=============================================================================
