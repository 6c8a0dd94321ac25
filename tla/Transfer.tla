------------------------------ MODULE Transfer ------------------------------
(***************************************************************************)
(* Memories that travel: the chunks and the manifest of engram sync in a   *)
(* directory that several machines share through git, and the archives of  *)
(* backup and restore.  Commands of different machines do not overlap (git *)
(* refuses that); a command may be killed between two of its writes.       *)
(*                                                                         *)
(* A memory has a version in place of its text; the graph of an archive is *)
(* left out, and with it the nodes and edges restore() adds one by one.    *)
(***************************************************************************)
EXTENDS Integers, Sequences, FiniteSets, SequencesExt

CONSTANTS
    Machines,
    Ids,          \* memory ids
    PageLimit,    \* what get_many returns without a limit: 100
    MaxVersion,   \* bound: edits of one memory
    MaxChunks,    \* bound: chunk files
    MaxArchives,  \* bound: backups
    NoMachine

ASSUME TransferAssumption ==
    /\ {PageLimit, MaxVersion} \subseteq Nat \ {0} /\ {MaxChunks, MaxArchives} \subseteq Nat
    /\ NoMachine \notin Machines

VARIABLES
    held,      \* held[m]: the memories of m, newest first, as [id, version]
    chunks,    \* the chunk files by name: [records, torn]
    manifest,  \* [synced, imported]
    archives,  \* what backups wrote, in order
    command    \* the command under way: [by, does, records, loaded]

transferVars == <<held, chunks, manifest, archives, command>>

NoCommand == [by |-> NoMachine, does |-> "nothing", records |-> <<>>, loaded |-> [synced |-> {}, imported |-> {}]]
IdsOf(rs) == {rs[i].id : i \in DOMAIN rs}
NoneRuns      == command = NoCommand

\* Files sort by a random name: that of chunk n is taken to be n, the records of a torn one are lost.
FreshName == Len(chunks) + 1

----------------------------------------------------------------------------
\* QdrantBackend.get_many without ids: the newest, a page of them.
get_many(m) == SubSeq(held[m], 1, IF Len(held[m]) < PageLimit THEN Len(held[m]) ELSE PageLimit)

\* QdrantBackend.upsert: records without a vector are filtered out.
upsert(m, records, embedded) ==
    IF embedded THEN SelectSeq(held[m], LAMBDA r : r.id \notin IdsOf(records)) \o records ELSE held[m]

----------------------------------------------------------------------------
TransferInit ==
    /\ held = [m \in Machines |-> <<>>]
    /\ chunks = <<>> /\ archives = <<>>
    /\ manifest = [synced |-> {}, imported |-> {}]
    /\ command = NoCommand

Known == UNION {IdsOf(held[m]) : m \in Machines} \cup UNION {IdsOf(chunks[n].records) : n \in DOMAIN chunks}
         \cup UNION {IdsOf(archives[n].records) : n \in DOMAIN archives} \cup manifest.synced

Remember(m) ==
    /\ NoneRuns
    /\ \E i \in Ids \ Known : held' = [held EXCEPT ![m] = <<[id |-> i, version |-> 1]>> \o @]
    /\ UNCHANGED <<chunks, manifest, archives, command>>

EditMemory(m) ==
    /\ NoneRuns
    /\ \E k \in DOMAIN held[m] :
         held[m][k].version < MaxVersion /\ held' = [held EXCEPT ![m][k].version = @ + 1]
    /\ UNCHANGED <<chunks, manifest, archives, command>>

DropMemory(m) ==
    /\ NoneRuns /\ held[m] # <<>>
    /\ \E k \in DOMAIN held[m] : held' = [held EXCEPT ![m] = RemoveAt(@, k)]
    /\ UNCHANGED <<chunks, manifest, archives, command>>

\* export_memories(): the manifest, then the page; nothing new, nothing written.
ToExport(m) == SelectSeq(get_many(m), LAMBDA r : r.id \notin manifest.synced)

Export(m) ==
    /\ NoneRuns /\ Len(chunks) < MaxChunks /\ ToExport(m) # <<>>
    /\ command' = [by |-> m, does |-> "write", records |-> ToExport(m), loaded |-> manifest]
    /\ UNCHANGED <<held, chunks, manifest, archives>>

\* Mutant: the ids are recorded before their chunk is written.
WriteChunk_Later ==
    /\ command.does = "write"
    /\ manifest' = [manifest EXCEPT !.synced = @ \cup IdsOf(command.records)]
    /\ command' = [command EXCEPT !.does = "record"]
    /\ UNCHANGED <<held, chunks, archives>>

WriteChunk ==
    /\ command.does = "write"
    /\ chunks' = Append(chunks, [records |-> command.records, torn |-> FALSE])
    /\ command' = [command EXCEPT !.does = "record"]
    /\ UNCHANGED <<held, manifest, archives>>

Record ==
    /\ command.does = "record"
    /\ manifest' = [command.loaded EXCEPT !.synced = @ \cup IdsOf(command.records)]
    /\ command' = NoCommand
    /\ UNCHANGED <<held, chunks, archives>>

\* The process is killed: while the chunk is written it leaves the beginning of a file.
KillCommand ==
    /\ ~NoneRuns
    /\ IF command.does = "write"
       THEN chunks' = Append(chunks, [records |-> <<>>, torn |-> TRUE])
       ELSE UNCHANGED chunks
    /\ command' = NoCommand
    /\ UNCHANGED <<held, manifest, archives>>

\* import_memories(): chunks not yet recorded, in order; one that cannot be read ends the command
\* before it records the others.
Unread == {n \in DOMAIN chunks : n \notin manifest.imported}

Import(m) ==
    /\ NoneRuns /\ Unread # {}
    /\ LET bad   == {n \in Unread : chunks[n].torn}
           read  == SetToSortSeq({n \in Unread : \A b \in bad : n < b}, <)
           after == FoldLeft(LAMBDA h, n : upsert(m, chunks[n].records, FALSE), held[m], read)
       IN  /\ held' = [held EXCEPT ![m] = after]
           /\ command' = IF bad = {} THEN [by |-> m, does |-> "import", records |-> <<>>, loaded |-> manifest]
                                     ELSE NoCommand
    /\ UNCHANGED <<chunks, manifest, archives>>

RecordImport ==
    /\ command.does = "import"
    /\ manifest' = [command.loaded EXCEPT !.imported = DOMAIN chunks]
    /\ command' = NoCommand
    /\ UNCHANGED <<held, chunks, archives>>

\* backup(): the count is that of the store, the memories are those of one page.
Backup(m) ==
    /\ NoneRuns /\ Len(archives) < MaxArchives
    /\ archives' = Append(archives, [records |-> get_many(m), count |-> Len(held[m])])
    /\ UNCHANGED <<held, chunks, manifest, command>>

\* restore(): the archive wins over what the machine holds.
Restore(m) ==
    /\ NoneRuns
    /\ \E n \in DOMAIN archives : held' = [held EXCEPT ![m] = upsert(m, archives[n].records, TRUE)]
    /\ UNCHANGED <<chunks, manifest, archives, command>>

TransferNext ==
    \/ \E m \in Machines :
         Remember(m) \/ EditMemory(m) \/ DropMemory(m) \/ Export(m) \/ Import(m) \/ Backup(m) \/ Restore(m)
    \/ WriteChunk \/ Record \/ RecordImport \/ KillCommand

TransferSpec == TransferInit /\ [][TransferNext]_transferVars

----------------------------------------------------------------------------
(***************************************************************************)
(* An id that the manifest calls synced is in a chunk that can be read,    *)
(* wherever an export was killed: it is never skipped by the next export   *)
(* without being in the directory.                                         *)
(***************************************************************************)
SyncedIsInAChunk == manifest.synced \subseteq UNION {IdsOf(chunks[n].records) : n \in DOMAIN chunks}

(***************************************************************************)
(* "No embeddings in chunk files - pass None so backend stores without     *)
(* vector": what import_memories records as imported is in the store of    *)
(* the machine that imported it.                                           *)
(***************************************************************************)
ImportedIsStored ==
    [][\A m \in Machines : command.by = m /\ manifest'.imported # manifest.imported =>
        \A n \in manifest'.imported \ manifest.imported : IdsOf(chunks[n].records) \subseteq IdsOf(held[m])]_transferVars
=============================================================================
