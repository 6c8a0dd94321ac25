---------------------------- MODULE MCBackground ----------------------------
(* The components that work in the background.  They share no state in this *)
(* model, so a behaviour is a behaviour of one of them: side says which.    *)
EXTENDS Consolidation, Daemon, Scheduler, Sessions, ResourceTier, TLC

VARIABLE side

MCOrder    == <<"drain", "consolidate">>
MCInterval == [drain |-> 1, consolidate |-> 3]

Symm == Permutations(Originals) \cup Permutations(Summaries) \cup Permutations(Runners)

backgroundVars == <<side, consolidationVars, daemonVars, schedulerVars, sessionVars, tierVars>>

BackgroundInit ==
    /\ side \in {"consolidation", "daemon", "scheduler", "sessions", "tier"}
    /\ ConsolidationInit /\ DaemonInit /\ SchedulerInit /\ SessionsInit /\ TierInit

OnConsolidation ==
    /\ side = "consolidation" /\ ConsolidationNext
    /\ UNCHANGED <<side, daemonVars, schedulerVars, sessionVars, tierVars>>
OnDaemon ==
    /\ side = "daemon" /\ DaemonNext
    /\ UNCHANGED <<side, consolidationVars, schedulerVars, sessionVars, tierVars>>
OnScheduler ==
    /\ side = "scheduler" /\ SchedulerNext
    /\ UNCHANGED <<side, consolidationVars, daemonVars, sessionVars, tierVars>>
OnSessions ==
    /\ side = "sessions" /\ SessionsNext
    /\ UNCHANGED <<side, consolidationVars, daemonVars, schedulerVars, tierVars>>
OnTier ==
    /\ side = "tier" /\ TierNext
    /\ UNCHANGED <<side, consolidationVars, daemonVars, schedulerVars, sessionVars>>

BackgroundNext == OnConsolidation \/ OnDaemon \/ OnScheduler \/ OnSessions \/ OnTier

BackgroundSpec == BackgroundInit /\ [][BackgroundNext]_backgroundVars
=============================================================================
