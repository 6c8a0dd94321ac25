----------------------------- MODULE MCServices -----------------------------
(* What serves requests and commands.  The components share no state in     *)
(* this model, so a behaviour is a behaviour of one of them: side says      *)
(* which.                                                                   *)
EXTENDS MCSettings, ServerCache, Events, Providers, Setup, Recall, Transfer, Frontends, Client, Extraction

VARIABLE side

MCTenant     == [k \in Connections |-> IF k = "k4" THEN "other" ELSE "acme"]
MCUser       == [k \in Connections |-> IF k \in {"k1", "k2"} THEN "ann" ELSE "bob"]
MCKind       == [m |-> "mcp", r |-> "rest"]
MCFormat     == [claude |-> "json", aider |-> "yaml"]
MCContent    == [m \in Memories |-> "t"]
MCConfidence == [m \in Memories |-> IF m = "m1" THEN 80 ELSE 20]
MCTold       == [t1 |-> {"f", "g"}, t2 |-> {"f"}]

Symm == Permutations(Items) \cup Permutations(Clients)

serverVars   == <<cacheVars, eventVars, providerVars, recallVars>>
commandVars  == <<settingVars, setupVars, transferVars, frontVars, clientVars, extractionVars>>
servicesVars == <<side, serverVars, commandVars>>

\* Of the components that may start in several ways only that of the side does.
ServicesInit ==
    /\ side \in {"cache", "events", "providers", "recall", "settings", "setup", "transfer",
                 "frontends", "client", "extraction"}
    /\ ServerInit /\ EventsInit /\ ProvidersInit /\ RecallInit
    /\ SettingsInit /\ SetupInit /\ TransferInit /\ FrontendsInit /\ ClientInit /\ ExtractionInit
    /\ side # "setup" => first = [a \in Agents |-> Absent]
    /\ side # "extraction" => total = 1

OnServer ==
    /\ \/ /\ side = "cache" /\ ServerNext
          /\ UNCHANGED <<eventVars, providerVars, recallVars>>
       \/ /\ side = "events" /\ EventsNext
          /\ UNCHANGED <<cacheVars, providerVars, recallVars>>
       \/ /\ side = "providers" /\ ProvidersNext
          /\ UNCHANGED <<cacheVars, eventVars, recallVars>>
       \/ /\ side = "recall" /\ RecallNext
          /\ UNCHANGED <<cacheVars, eventVars, providerVars>>
    /\ UNCHANGED <<side, commandVars>>

OnCommands ==
    /\ \/ /\ side = "settings" /\ SettingsNext
          /\ UNCHANGED <<setupVars, transferVars, frontVars, clientVars, extractionVars>>
       \/ /\ side = "setup" /\ SetupNext
          /\ UNCHANGED <<settingVars, transferVars, frontVars, clientVars, extractionVars>>
       \/ /\ side = "transfer" /\ TransferNext
          /\ UNCHANGED <<settingVars, setupVars, frontVars, clientVars, extractionVars>>
       \/ /\ side = "frontends" /\ FrontendsNext
          /\ UNCHANGED <<settingVars, setupVars, transferVars, clientVars, extractionVars>>
       \/ /\ side = "client" /\ ClientNext
          /\ UNCHANGED <<settingVars, setupVars, transferVars, frontVars, extractionVars>>
       \/ /\ side = "extraction" /\ ExtractionNext
          /\ UNCHANGED <<settingVars, setupVars, transferVars, frontVars, clientVars>>
    /\ UNCHANGED <<side, serverVars>>

ServicesNext == OnServer \/ OnCommands

ServicesSpec == ServicesInit /\ [][ServicesNext]_servicesVars
=============================================================================
