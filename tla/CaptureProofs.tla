--------------------------- MODULE CaptureProofs ---------------------------
(***************************************************************************)
(* Proofs about the two watchers that capture what other programs write.   *)
(*                                                                         *)
(* InboxWatcher, for every number of files, names, watchers, messages,     *)
(* attempts and crashes: a file is in one place under a name of its own    *)
(* stem, the watchers deliver the inbox (InboxDelivery), a file in         *)
(* processed/ was handed over, and one in failed/ was tried.               *)
(*                                                                         *)
(* SessionWatcher, for every number of paths, lines, renamings, missed     *)
(* events and restarts: a line is handed over once, and what lies before a *)
(* position is ingested.                                                   *)
(***************************************************************************)
EXTENDS InboxWatcher, SessionWatcher, FiniteSetTheorems, TLAPS

-----------------------------------------------------------------------------
(* Where the files are.                                                    *)

File == Docs \cup {NoDoc}

Watcher == [at : {"off", "recover", "poll"}, orphans : SUBSET Stems, path : Paths \cup {<<>>},
            doc : File, sent : 0..Messages]

\* What directories, counts and watchers look like.
TypeOK ==
    /\ form \in [Docs -> Forms]
    /\ proxied \in BOOLEAN
    /\ dropped \subseteq Docs /\ aged \subseteq dropped
    /\ recovered \subseteq dropped /\ processed \subseteq dropped
    /\ files \in [Paths -> File] /\ claimed \in [Stems -> File] /\ failed \in [Paths -> File]
    /\ retries \in [Watchers -> [Paths -> Nat]]
    /\ w \in [Watchers -> Watcher]
    /\ errors \in [Docs -> 0.._MAX_RETRIES]
    /\ stops \in Nat

StemOf(d) == form[d].path[1]

\* No document has two names in a directory.
OneName(dir) == \A x, y \in DOMAIN dir : (dir[x] = dir[y] /\ dir[x] # NoDoc) => x = y

\* A document is in one place.
Apart(d) ==
    /\ Has(files, d) => ~Has(claimed, d) /\ d \notin processed /\ ~Has(failed, d)
    /\ Has(claimed, d) => d \notin processed /\ ~Has(failed, d)
    /\ d \in processed => ~Has(failed, d)
    /\ (Has(files, d) \/ Has(claimed, d) \/ Has(failed, d) \/ d \in processed) => d \in dropped

\* ... and under its own stem.
OwnStems ==
    /\ \A p \in Paths : files[p] # NoDoc => StemOf(files[p]) = p[1]
    /\ \A p \in Paths : failed[p] # NoDoc => StemOf(failed[p]) = p[1]
    /\ \A s \in Stems : claimed[s] # NoDoc => StemOf(claimed[s]) = s

\* A document is in one place, under one name, and a stem of its own.
Places == /\ OneName(files) /\ OneName(claimed) /\ OneName(failed)
          /\ \A d \in Docs : Apart(d)
          /\ OwnStems

Directory(K) == [K -> File]

\* new is dir with the document x, or none, under the name k.
Replaced(K, dir, new, k, x) ==
    /\ new \in Directory(K) /\ OneName(new)
    /\ new[k] = x /\ \A j \in K : j # k => new[j] = dir[j]
    /\ \A d \in Docs : Has(new, d) <=> (d = x \/ (Has(dir, d) /\ dir[k] # d))

\* Writing a document that the directory does not have under a name replaces the one that was there.
LEMMA Put ==
    ASSUME NEW K, NEW dir \in Directory(K), OneName(dir), NEW k \in K, NEW x \in File,
           x = NoDoc \/ ~Has(dir, x)
    PROVE  Replaced(K, dir, [dir EXCEPT ![k] = x], k, x)
<1> DEFINE new == [dir EXCEPT ![k] = x]
<1> USE DEF Directory
<1>1. NoDoc \notin Docs
  BY InboxAssumption
<1>2. DOMAIN dir = K /\ DOMAIN new = K /\ new \in [K -> File] /\ new[k] = x
      /\ \A j \in K \ {k} : new[j] = dir[j]
  OBVIOUS
<1>3. OneName(new)
  BY <1>1, <1>2 DEF OneName, Has
<1>4. ASSUME NEW d \in Docs
      PROVE  Has(new, d) <=> (d = x \/ (Has(dir, d) /\ dir[k] # d))
  <2>1. CASE d = x
    BY <1>2, <2>1 DEF Has
  <2>2. CASE d # x
    <3>1. Has(new, d) => Has(dir, d) /\ dir[k] # d
      <4> SUFFICES ASSUME NEW j \in K, new[j] = d
                   PROVE  Has(dir, d) /\ dir[k] # d
        BY <1>2 DEF Has
      <4>1. j # k /\ dir[j] = d
        BY <1>2, <2>2
      <4> QED BY <1>1, <1>2, <4>1 DEF OneName, Has
    <3>2. Has(dir, d) /\ dir[k] # d => Has(new, d)
      BY <1>2 DEF Has
    <3> QED BY <2>2, <3>1, <3>2
  <2> QED BY <2>1, <2>2
<1> QED BY <1>2, <1>3, <1>4 DEF Replaced

-----------------------------------------------------------------------------
(* What a step of the watchers or of the users does to the directories.    *)

\* A user drops a file.
Arrives(d) ==
    /\ d \notin dropped /\ dropped' = dropped \cup {d}
    /\ files' = [files EXCEPT ![form[d].path] = d]
    /\ UNCHANGED <<form, claimed, processed, failed>>

\* A file is renamed to .processing.
Taken(p) ==
    /\ files[p] # NoDoc
    /\ claimed' = [claimed EXCEPT ![p[1]] = files[p]]
    /\ files' = [files EXCEPT ![p] = NoDoc]
    /\ UNCHANGED <<form, dropped, processed, failed>>

\* ... and put back, given up, or finished.
Returned(p) ==
    /\ claimed[p[1]] # NoDoc
    /\ claimed' = [claimed EXCEPT ![p[1]] = NoDoc]
    /\ files' = [files EXCEPT ![p] = claimed[p[1]]]
    /\ UNCHANGED <<form, dropped, processed, failed>>

\* The file claimed under the stem of p goes to failed/.
GivenUp(p) ==
    /\ claimed[p[1]] # NoDoc
    /\ claimed' = [claimed EXCEPT ![p[1]] = NoDoc]
    /\ failed' = [failed EXCEPT ![p] = claimed[p[1]]]
    /\ UNCHANGED <<form, dropped, files, processed>>

\* The file claimed under stem s goes to processed/.
Finished(s) ==
    /\ claimed[s] # NoDoc
    /\ claimed' = [claimed EXCEPT ![s] = NoDoc]
    /\ processed' = processed \cup {claimed[s]}
    /\ UNCHANGED <<form, dropped, files, failed>>

\* One step moves one document, or none.
FileStep ==
    \/ UNCHANGED <<form, dropped, dirs>>
    \/ \E d \in Docs : Arrives(d)
    \/ \E p \in Paths : Taken(p) \/ Returned(p) \/ GivenUp(p)
    \/ \E s \in Stems : Finished(s)

\* The except branch puts the document back or gives it up, or finds none.
LEMMA FailMoves ==
    ASSUME TypeOK, NEW v \in Watchers, Busy(v), Fail(v), UNCHANGED <<form, dropped>>
    PROVE  FileStep
<1>1. PICK p \in Paths : p = w[v].path
  BY DEF TypeOK, Watcher, Busy
<1>2. p[1] \in Stems
  BY DEF Paths
<1>3. CASE claimed[p[1]] = NoDoc
  <2>1. [claimed EXCEPT ![p[1]] = NoDoc] = claimed
    BY <1>2, <1>3 DEF TypeOK
  <2> QED BY <1>1, <1>3, <2>1 DEF Fail, Here, FileStep, dirs
<1>4. CASE claimed[p[1]] # NoDoc
  BY <1>1, <1>4 DEF Fail, Here, FileStep, Returned, GivenUp
<1> QED BY <1>3, <1>4

\* Every step of InboxWatcher is a FileStep.
LEMMA StepsAreFileSteps ==
    ASSUME TypeOK, [InboxNext]_inboxVars
    PROVE  FileStep
<1>1. CASE UNCHANGED inboxVars
  BY <1>1 DEF inboxVars, FileStep, dirs
<1>2. ASSUME NEW d \in Docs, Drop(d)
      PROVE  FileStep
  BY <1>2 DEF Drop, Arrives, FileStep
<1>3. CASE HourPasses
  BY <1>3 DEF HourPasses, FileStep
<1>4. ASSUME NEW v \in Watchers, Start(v) \/ Stop(v) \/ BeginPolling(v) \/ Ingest(v) \/ Post(v)
      PROVE  FileStep
  BY <1>4 DEF Start, Stop, BeginPolling, Ingest, Post, FileStep
<1>5. ASSUME NEW v \in Watchers, Recover(v)
      PROVE  FileStep
  <2>1. PICK s \in w[v].orphans :
            IF claimed[s] \in aged
              THEN /\ files'   = [files EXCEPT ![<<s, "json">>] = claimed[s]]
                   /\ claimed' = [claimed EXCEPT ![s] = NoDoc]
              ELSE UNCHANGED <<files, claimed>>
    BY <1>5 DEF Recover
  <2>2. UNCHANGED <<form, dropped, processed, failed>>
    BY <1>5 DEF Recover
  <2>3. s \in Stems
    BY DEF TypeOK, Watcher
  <2>4. CASE claimed[s] \in aged
    <3>1. claimed[s] # NoDoc
      BY <2>4, InboxAssumption DEF TypeOK
    <3>2. PICK p \in Paths : p = <<s, "json">>
      BY <2>3 DEF Paths, Exts
    <3>3. p[1] = s
      BY <3>2
    <3> QED BY <2>1, <2>2, <2>4, <3>1, <3>2, <3>3 DEF FileStep, Returned
  <2>5. CASE claimed[s] \notin aged
    BY <2>1, <2>2, <2>5 DEF FileStep, dirs
  <2> QED BY <2>4, <2>5
<1>6. ASSUME NEW v \in Watchers, Claim(v)
      PROVE  FileStep
  BY <1>6 DEF Claim, Taken, FileStep
<1>7. ASSUME NEW v \in Watchers, Load(v)
      PROVE  FileStep
  <2>1. UNCHANGED <<form, dropped>> /\ Busy(v) /\ (UNCHANGED dirs \/ Fail(v))
    BY <1>7 DEF Load
  <2> QED BY <2>1, FailMoves DEF FileStep
<1>8. ASSUME NEW v \in Watchers, IngestFails(v)
      PROVE  FileStep
  <2>1. UNCHANGED <<form, dropped>> /\ Busy(v) /\ Fail(v)
    BY <1>8 DEF IngestFails, Fail
  <2> QED BY <2>1, FailMoves
<1>9. ASSUME NEW v \in Watchers, Finish(v)
      PROVE  FileStep
  <2>1. PICK s \in Stems : s = w[v].path[1]
    BY <1>9 DEF Finish, Busy, TypeOK, Watcher, Paths
  <2>2. CASE claimed[s] = NoDoc
    BY <1>9, <2>1, <2>2, FailMoves DEF Finish, Here
  <2>3. CASE claimed[s] # NoDoc
    BY <1>9, <2>1, <2>3 DEF Finish, Here, FileStep, Finished
  <2> QED BY <2>2, <2>3
<1> QED BY <1>1, <1>2, <1>3, <1>4, <1>5, <1>6, <1>7, <1>8, <1>9 DEF InboxNext, Poll

-----------------------------------------------------------------------------
(* The abstract specification.                                             *)

Fate == [d \in Docs |-> FateOf(d)]

FateIsOf(d) ==
    /\ FateOf(d) \in {"new", "waiting", "taken", "done", "failed", "lost"}
    /\ FateOf(d) = "new"     <=> d \notin dropped
    /\ FateOf(d) = "waiting" <=> Has(files, d)
    /\ FateOf(d) = "taken"   <=> Has(claimed, d)
    /\ FateOf(d) = "done"    <=> d \in processed
    /\ FateOf(d) = "failed"  <=> Has(failed, d)

FatesAre == \A d \in Docs : FateIsOf(d)

\* A document has the fate of the place it is in.
LEMMA FateIs == Places => FatesAre
<1> SUFFICES ASSUME Places, NEW d \in Docs
             PROVE  FateIsOf(d)
  BY DEF FatesAre
<1>1. Apart(d)
  BY DEF Places
<1>2. CASE d \notin dropped
  BY <1>1, <1>2 DEF Apart, FateOf, FateIsOf
<1>3. CASE Has(files, d)
  BY <1>1, <1>3 DEF Apart, FateOf, FateIsOf
<1>4. CASE Has(claimed, d)
  BY <1>1, <1>4 DEF Apart, FateOf, FateIsOf
<1>5. CASE d \in processed
  BY <1>1, <1>5 DEF Apart, FateOf, FateIsOf
<1>6. CASE Has(failed, d)
  BY <1>1, <1>6 DEF Apart, FateOf, FateIsOf
<1>7. CASE d \in dropped /\ ~Has(files, d) /\ ~Has(claimed, d) /\ d \notin processed /\ ~Has(failed, d)
  BY <1>1, <1>7 DEF Apart, FateOf, FateIsOf
<1> QED BY <1>2, <1>3, <1>4, <1>5, <1>6, <1>7

\* The same of the state after a step.
LEMMA FateIsNext == Places' => FatesAre'
BY FateIs, PTL

\* A step that moves one document as it may move, and replaces none or one of its stem.
LEMMA MoveDelivers ==
    ASSUME NEW d \in Docs, NEW to \in Delivery!Fates, Delivery!Moves(d, FateOf(d), to),
           FateOf(d)' = to, UNCHANGED form,
           NEW x \in File, x # d,
           x # NoDoc => /\ StemOf(x) = StemOf(d)
                        /\ FateOf(x) \in {"waiting", "taken", "failed"}
                        /\ FateOf(x)' = "lost",
           \A o \in Docs \ {d, x} : FateOf(o)' = FateOf(o)
    PROVE  Delivery!DeliveryNext
<1>1. Fate' = [o \in Docs |-> FateOf(o)'] /\ Fate = [o \in Docs |-> FateOf(o)]
  BY DEF Fate
<1>2. CASE x = NoDoc
  <2>1. Fate' = [Fate EXCEPT ![d] = to]
    BY <1>1, <1>2, InboxAssumption
  <2> QED BY <2>1 DEF Fate, Delivery!DeliveryNext, Delivery!Deliver
<1>3. CASE x # NoDoc
  <2>1. x \in Docs \ {d}
    BY <1>3 DEF File
  <2>2. Fate' = [Fate EXCEPT ![d] = to, ![x] = "lost"]
    BY <1>1, <1>3, <2>1
  <2> QED BY <1>3, <2>1, <2>2 DEF Fate, StemOf, Delivery!DeliveryNext, Delivery!Deliver
<1> QED BY <1>2, <1>3

\* The directories, with what the lemmas on them need.
LEMMA Dirs ==
    ASSUME TypeOK, Places
    PROVE  /\ files \in Directory(Paths) /\ OneName(files)
           /\ claimed \in Directory(Stems) /\ OneName(claimed)
           /\ failed \in Directory(Paths) /\ OneName(failed)
           /\ NoDoc \notin Docs /\ Docs \subseteq File /\ NoDoc \in File
           /\ \A p \in Paths : p[1] \in Stems
           /\ \A p \in Paths : files[p] # NoDoc =>
                 files[p] \in Docs /\ Has(files, files[p]) /\ StemOf(files[p]) = p[1]
           /\ \A p \in Paths : failed[p] # NoDoc =>
                 failed[p] \in Docs /\ Has(failed, failed[p]) /\ StemOf(failed[p]) = p[1]
           /\ \A s \in Stems : claimed[s] # NoDoc =>
                 claimed[s] \in Docs /\ Has(claimed, claimed[s]) /\ StemOf(claimed[s]) = s
<1>1. /\ files \in Directory(Paths) /\ claimed \in Directory(Stems) /\ failed \in Directory(Paths)
  BY DEF TypeOK, Directory
<1>2. NoDoc \notin Docs /\ Docs \subseteq File /\ NoDoc \in File /\ \A x \in File : x # NoDoc => x \in Docs
  BY InboxAssumption DEF File
<1>3. OneName(files) /\ OneName(claimed) /\ OneName(failed) /\ OwnStems
  BY DEF Places
<1>4. \A p \in Paths : p[1] \in Stems
  BY DEF Paths
<1> QED BY <1>1, <1>2, <1>3, <1>4 DEF OwnStems, Has, Directory

\* A dropped file waits, and replaces the one of its name.
LEMMA ArrivesDelivers ==
    ASSUME TypeOK, Places, NEW d \in Docs, Arrives(d)
    PROVE  Places' /\ Delivery!DeliveryNext
<1>1. PICK q \in Paths : q = form[d].path
  BY DEF TypeOK, Forms, Paths, Exts
<1>2. /\ files' = [files EXCEPT ![q] = d] /\ StemOf(d) = q[1]
      /\ d \notin dropped /\ dropped' = dropped \cup {d}
      /\ UNCHANGED <<form, claimed, processed, failed>>
  BY <1>1 DEF Arrives, StemOf
<1>3. PICK x \in File : x = files[q]
  BY Dirs DEF Directory
<1>4. /\ ~Has(files, d) /\ ~Has(claimed, d) /\ ~Has(failed, d) /\ d \notin processed
      /\ \A o \in Docs : Apart(o)
  BY <1>2 DEF Places, Apart
<1>5. Replaced(Paths, files, files', q, d)
  <2>1. d \in File
    BY Dirs
  <2> QED BY <1>2, <1>4, <2>1, Dirs, Put
<1>6. x # d /\ (x # NoDoc => x \in Docs /\ Has(files, x) /\ StemOf(x) = StemOf(d))
  BY <1>2, <1>3, <1>4, Dirs
<1>7. ASSUME NEW o \in Docs
      PROVE  Apart(o)'
  BY <1>2, <1>3, <1>4, <1>5 DEF Apart, Replaced
<1>8. OwnStems'
  BY <1>2, <1>5 DEF Places, OwnStems, StemOf, Replaced
<1>9. Places'
  BY <1>2, <1>5, <1>7, <1>8 DEF Places, Replaced
<1>10. FateOf(d) = "new" /\ FateOf(d)' = "waiting"
  BY <1>2, <1>5, <1>9, FateIs, FateIsNext DEF FatesAre, FateIsOf, Replaced
<1>11. \A o \in Docs \ {d, x} : FateOf(o)' = FateOf(o)
  BY <1>2, <1>3, <1>5, <1>9, FateIs, FateIsNext DEF FatesAre, FateIsOf, Replaced
<1>12. x # NoDoc => FateOf(x) = "waiting" /\ FateOf(x)' = "lost"
  <2> SUFFICES ASSUME x # NoDoc
               PROVE  FateOf(x) = "waiting" /\ FateOf(x)' = "lost"
    OBVIOUS
  <2>1. /\ x \in dropped' /\ ~Has(files', x) /\ ~Has(claimed', x) /\ x \notin processed'
        /\ ~Has(failed', x)
    BY <1>2, <1>4, <1>3, <1>5, <1>6 DEF Apart, Replaced
  <2> QED BY <1>6, <1>9, <2>1, FateIs, FateIsNext DEF FatesAre, FateIsOf
<1> QED BY <1>2, <1>6, <1>9, <1>10, <1>11, <1>12, MoveDelivers DEF Delivery!Moves, Delivery!Fates

\* A claimed file is taken, and replaces the one its stem had claimed.
LEMMA TakenDelivers ==
    ASSUME TypeOK, Places, NEW p \in Paths, Taken(p)
    PROVE  Places' /\ Delivery!DeliveryNext
<1>1. PICK s \in Stems : s = p[1]
  BY Dirs
<1>2. PICK d \in Docs : d = files[p]
  BY <1>1, Dirs DEF Taken
<1>3. PICK x \in File : x = claimed[s]
  BY <1>1, Dirs DEF Directory
<1>4. /\ files' = [files EXCEPT ![p] = NoDoc] /\ claimed' = [claimed EXCEPT ![s] = d]
      /\ StemOf(d) = s /\ d \in dropped
      /\ UNCHANGED <<form, dropped, processed, failed>>
  <2>1. Has(files, d) /\ d # NoDoc
    BY <1>1, <1>2, Dirs DEF Taken, Has, Directory
  <2>2. d \in dropped
    BY <2>1 DEF Places, Apart
  <2>3. StemOf(d) = s
    BY <1>1, <1>2, <2>1, Dirs
  <2> QED BY <1>1, <1>2, <2>2, <2>3 DEF Taken
<1>5. /\ ~Has(claimed, d) /\ ~Has(failed, d) /\ d \notin processed
      /\ Has(files, d) /\ \A o \in Docs : Apart(o)
  <2>1. Has(files, d)
    BY <1>1, <1>2, Dirs DEF Has, Directory
  <2> QED BY <2>1 DEF Places, Apart
<1>6. Replaced(Paths, files, files', p, NoDoc) /\ Replaced(Stems, claimed, claimed', s, d)
  <2>1. d \in File
    BY Dirs
  <2> QED BY <1>1, <1>4, <1>5, <2>1, Dirs, Put
<1>7. x # d /\ (x # NoDoc => x \in Docs /\ Has(claimed, x) /\ StemOf(x) = StemOf(d))
  BY <1>1, <1>3, <1>4, <1>5, Dirs
<1>8. ASSUME NEW o \in Docs
      PROVE  Apart(o)'
  <2>1. o # NoDoc
    BY Dirs
  <2> QED BY <1>2, <1>3, <1>4, <1>5, <1>6, <2>1 DEF Apart, Replaced
<1>9. OwnStems'
  BY <1>1, <1>4, <1>6 DEF Places, OwnStems, StemOf, Replaced
<1>10. Places'
  BY <1>4, <1>6, <1>8, <1>9 DEF Places, Replaced
<1>11. FateOf(d) = "waiting" /\ FateOf(d)' = "taken"
  BY <1>4, <1>5, <1>6, <1>10, FateIs, FateIsNext DEF FatesAre, FateIsOf, Replaced
<1>12. ASSUME NEW o \in Docs \ {d, x}
       PROVE  FateOf(o)' = FateOf(o)
  <2>1. o # NoDoc
    BY Dirs
  <2>2. /\ (Has(files, o) <=> Has(files', o)) /\ (Has(claimed, o) <=> Has(claimed', o))
        /\ (Has(failed, o) <=> Has(failed', o))
    BY <1>2, <1>3, <1>4, <1>6, <2>1 DEF Replaced
  <2>3. FateIsOf(o) /\ FateIsOf(o)'
    BY <1>10, FateIs, FateIsNext DEF FatesAre
  <2> QED BY <1>4, <2>2, <2>3 DEF FateIsOf
<1>13. x # NoDoc => FateOf(x) = "taken" /\ FateOf(x)' = "lost"
  <2> SUFFICES ASSUME x # NoDoc
               PROVE  FateOf(x) = "taken" /\ FateOf(x)' = "lost"
    OBVIOUS
  <2>1. /\ x \in dropped' /\ ~Has(files', x) /\ ~Has(claimed', x) /\ x \notin processed'
        /\ ~Has(failed', x)
    BY <1>3, <1>4, <1>5, <1>6, <1>7 DEF Apart, Replaced
  <2> QED BY <1>7, <1>10, <2>1, FateIs, FateIsNext DEF FatesAre, FateIsOf
<1> QED BY <1>4, <1>7, <1>10, <1>11, <1>12, <1>13, MoveDelivers DEF Delivery!Moves, Delivery!Fates

\* A file put back waits again, under the name given, and replaces the one of that name.
LEMMA ReturnedDelivers ==
    ASSUME TypeOK, Places, NEW p \in Paths, Returned(p)
    PROVE  Places' /\ Delivery!DeliveryNext
<1>1. PICK s \in Stems : s = p[1]
  BY Dirs
<1>2. PICK d \in Docs : d = claimed[s]
  BY <1>1, Dirs DEF Returned
<1>3. PICK x \in File : x = files[p]
  BY <1>1, Dirs DEF Directory
<1>4. /\ claimed' = [claimed EXCEPT ![s] = NoDoc] /\ files' = [files EXCEPT ![p] = d]
      /\ StemOf(d) = s /\ d \in dropped
      /\ UNCHANGED <<form, dropped, processed, failed>>
  <2>1. Has(claimed, d) /\ d # NoDoc
    BY <1>1, <1>2, Dirs DEF Returned, Has, Directory
  <2>2. d \in dropped
    BY <2>1 DEF Places, Apart
  <2>3. StemOf(d) = s
    BY <1>1, <1>2, <2>1, Dirs
  <2> QED BY <1>1, <1>2, <2>2, <2>3 DEF Returned
<1>5. /\ ~Has(files, d) /\ ~Has(failed, d) /\ d \notin processed
      /\ Has(claimed, d) /\ \A o \in Docs : Apart(o)
  <2>1. Has(claimed, d)
    BY <1>1, <1>2, Dirs DEF Has, Directory
  <2> QED BY <2>1 DEF Places, Apart
<1>6. Replaced(Stems, claimed, claimed', s, NoDoc) /\ Replaced(Paths, files, files', p, d)
  <2>1. d \in File
    BY Dirs
  <2> QED BY <1>1, <1>4, <1>5, <2>1, Dirs, Put
<1>7. x # d /\ (x # NoDoc => x \in Docs /\ Has(files, x) /\ StemOf(x) = StemOf(d))
  BY <1>1, <1>3, <1>4, <1>5, Dirs
<1>8. ASSUME NEW o \in Docs
      PROVE  Apart(o)'
  <2>1. o # NoDoc
    BY Dirs
  <2> QED BY <1>2, <1>3, <1>4, <1>5, <1>6, <2>1 DEF Apart, Replaced
<1>9. OwnStems'
  BY <1>1, <1>4, <1>6 DEF Places, OwnStems, StemOf, Replaced
<1>10. Places'
  BY <1>4, <1>6, <1>8, <1>9 DEF Places, Replaced
<1>11. FateOf(d) = "taken" /\ FateOf(d)' = "waiting"
  BY <1>4, <1>5, <1>6, <1>10, FateIs, FateIsNext DEF FatesAre, FateIsOf, Replaced
<1>12. ASSUME NEW o \in Docs \ {d, x}
       PROVE  FateOf(o)' = FateOf(o)
  <2>1. o # NoDoc
    BY Dirs
  <2>2. /\ (Has(files, o) <=> Has(files', o)) /\ (Has(claimed, o) <=> Has(claimed', o))
        /\ (Has(failed, o) <=> Has(failed', o))
    BY <1>2, <1>3, <1>4, <1>6, <2>1 DEF Replaced
  <2>3. FateIsOf(o) /\ FateIsOf(o)'
    BY <1>10, FateIs, FateIsNext DEF FatesAre
  <2> QED BY <1>4, <2>2, <2>3 DEF FateIsOf
<1>13. x # NoDoc => FateOf(x) = "waiting" /\ FateOf(x)' = "lost"
  <2> SUFFICES ASSUME x # NoDoc
               PROVE  FateOf(x) = "waiting" /\ FateOf(x)' = "lost"
    OBVIOUS
  <2>1. /\ x \in dropped' /\ ~Has(files', x) /\ ~Has(claimed', x) /\ x \notin processed'
        /\ ~Has(failed', x)
    BY <1>3, <1>4, <1>5, <1>6, <1>7 DEF Apart, Replaced
  <2> QED BY <1>7, <1>10, <2>1, FateIs, FateIsNext DEF FatesAre, FateIsOf
<1> QED BY <1>4, <1>7, <1>10, <1>11, <1>12, <1>13, MoveDelivers DEF Delivery!Moves, Delivery!Fates

\* A file given up has failed, and replaces the one of that name.
LEMMA GivenUpDelivers ==
    ASSUME TypeOK, Places, NEW p \in Paths, GivenUp(p)
    PROVE  Places' /\ Delivery!DeliveryNext
<1>1. PICK s \in Stems : s = p[1]
  BY Dirs
<1>2. PICK d \in Docs : d = claimed[s]
  BY <1>1, Dirs DEF GivenUp
<1>3. PICK x \in File : x = failed[p]
  BY <1>1, Dirs DEF Directory
<1>4. /\ claimed' = [claimed EXCEPT ![s] = NoDoc] /\ failed' = [failed EXCEPT ![p] = d]
      /\ StemOf(d) = s /\ d \in dropped
      /\ UNCHANGED <<form, dropped, files, processed>>
  <2>1. Has(claimed, d) /\ d # NoDoc
    BY <1>1, <1>2, Dirs DEF GivenUp, Has, Directory
  <2>2. d \in dropped
    BY <2>1 DEF Places, Apart
  <2>3. StemOf(d) = s
    BY <1>1, <1>2, <2>1, Dirs
  <2> QED BY <1>1, <1>2, <2>2, <2>3 DEF GivenUp
<1>5. /\ ~Has(files, d) /\ ~Has(failed, d) /\ d \notin processed
      /\ Has(claimed, d) /\ \A o \in Docs : Apart(o)
  <2>1. Has(claimed, d)
    BY <1>1, <1>2, Dirs DEF Has, Directory
  <2> QED BY <2>1 DEF Places, Apart
<1>6. Replaced(Stems, claimed, claimed', s, NoDoc) /\ Replaced(Paths, failed, failed', p, d)
  <2>1. d \in File
    BY Dirs
  <2> QED BY <1>1, <1>4, <1>5, <2>1, Dirs, Put
<1>7. x # d /\ (x # NoDoc => x \in Docs /\ Has(failed, x) /\ StemOf(x) = StemOf(d))
  BY <1>1, <1>3, <1>4, <1>5, Dirs
<1>8. ASSUME NEW o \in Docs
      PROVE  Apart(o)'
  <2>1. o # NoDoc
    BY Dirs
  <2> QED BY <1>2, <1>3, <1>4, <1>5, <1>6, <2>1 DEF Apart, Replaced
<1>9. OwnStems'
  BY <1>1, <1>4, <1>6 DEF Places, OwnStems, StemOf, Replaced
<1>10. Places'
  BY <1>4, <1>6, <1>8, <1>9 DEF Places, Replaced
<1>11. FateOf(d) = "taken" /\ FateOf(d)' = "failed"
  BY <1>4, <1>5, <1>6, <1>10, FateIs, FateIsNext DEF FatesAre, FateIsOf, Replaced
<1>12. ASSUME NEW o \in Docs \ {d, x}
       PROVE  FateOf(o)' = FateOf(o)
  <2>1. o # NoDoc
    BY Dirs
  <2>2. /\ (Has(files, o) <=> Has(files', o)) /\ (Has(claimed, o) <=> Has(claimed', o))
        /\ (Has(failed, o) <=> Has(failed', o))
    BY <1>2, <1>3, <1>4, <1>6, <2>1 DEF Replaced
  <2>3. FateIsOf(o) /\ FateIsOf(o)'
    BY <1>10, FateIs, FateIsNext DEF FatesAre
  <2> QED BY <1>4, <2>2, <2>3 DEF FateIsOf
<1>13. x # NoDoc => FateOf(x) = "failed" /\ FateOf(x)' = "lost"
  <2> SUFFICES ASSUME x # NoDoc
               PROVE  FateOf(x) = "failed" /\ FateOf(x)' = "lost"
    OBVIOUS
  <2>1. /\ x \in dropped' /\ ~Has(files', x) /\ ~Has(claimed', x) /\ x \notin processed'
        /\ ~Has(failed', x)
    BY <1>3, <1>4, <1>5, <1>6, <1>7 DEF Apart, Replaced
  <2> QED BY <1>7, <1>10, <2>1, FateIs, FateIsNext DEF FatesAre, FateIsOf
<1> QED BY <1>4, <1>7, <1>10, <1>11, <1>12, <1>13, MoveDelivers DEF Delivery!Moves, Delivery!Fates

\* A file moved to processed/ is done, and replaces none.
LEMMA FinishedDelivers ==
    ASSUME TypeOK, Places, NEW s \in Stems, Finished(s)
    PROVE  Places' /\ Delivery!DeliveryNext
<1>1. PICK d \in Docs : d = claimed[s]
  BY Dirs DEF Finished
<1>2. /\ claimed' = [claimed EXCEPT ![s] = NoDoc] /\ processed' = processed \cup {d}
      /\ UNCHANGED <<form, dropped, files, failed>>
  BY <1>1 DEF Finished
<1>3. Has(claimed, d) /\ d # NoDoc /\ \A o \in Docs : Apart(o) /\ o # NoDoc
  BY <1>1, Dirs DEF Has, Directory, Places
<1>4. Replaced(Stems, claimed, claimed', s, NoDoc)
  BY <1>2, Dirs, Put
<1>5. ASSUME NEW o \in Docs
      PROVE  Apart(o)'
  BY <1>1, <1>2, <1>3, <1>4 DEF Apart, Replaced
<1>6. OwnStems'
  BY <1>2, <1>4 DEF Places, OwnStems, StemOf, Replaced
<1>7. Places'
  BY <1>2, <1>4, <1>5, <1>6 DEF Places, Replaced
<1>8. FateOf(d) = "taken" /\ FateOf(d)' = "done"
  BY <1>2, <1>3, <1>7, FateIs, FateIsNext DEF FatesAre, FateIsOf
<1>9. \A o \in Docs \ {d, NoDoc} : FateOf(o)' = FateOf(o)
  BY <1>1, <1>2, <1>3, <1>4, <1>7, FateIs, FateIsNext DEF FatesAre, FateIsOf, Replaced
<1>10. NoDoc \in File
  BY Dirs
<1> QED BY <1>2, <1>3, <1>7, <1>8, <1>9, <1>10, MoveDelivers DEF Delivery!Moves, Delivery!Fates

\* Places and fates under any step.
LEMMA FilesDeliver ==
    ASSUME TypeOK, Places, FileStep
    PROVE  /\ Places'
           /\ Delivery!DeliveryNext \/ UNCHANGED <<Fate, form>>
<1>1. CASE UNCHANGED <<form, dropped, dirs>>
  <2>1. UNCHANGED <<form, dropped, files, claimed, processed, failed>>
    BY <1>1 DEF dirs
  <2>2. UNCHANGED Fate
    BY <2>1 DEF Fate, FateOf, Has
  <2> QED BY <2>1, <2>2 DEF Places, Apart, OneName, OwnStems, StemOf, Has
<1>2. CASE \E d \in Docs : Arrives(d)
  BY <1>2, ArrivesDelivers
<1>3. CASE \E p \in Paths : Taken(p) \/ Returned(p) \/ GivenUp(p)
  BY <1>3, TakenDelivers, ReturnedDelivers, GivenUpDelivers
<1>4. CASE \E s \in Stems : Finished(s)
  BY <1>4, FinishedDelivers
<1> QED BY <1>1, <1>2, <1>3, <1>4 DEF FileStep

-----------------------------------------------------------------------------
(* Types.                                                                  *)

\* A watcher's record, with any of its fields written.
LEMMA WatcherFields ==
    ASSUME TypeOK, NEW v \in Watchers
    PROVE  /\ \A x \in File, n \in 0..Messages, a \in {"off", "recover", "poll"}, S \in SUBSET Stems :
                 /\ [w[v] EXCEPT !.path = <<>>, !.doc = x, !.sent = n] \in Watcher
                 /\ [w[v] EXCEPT !.doc = x] \in Watcher
                 /\ [w[v] EXCEPT !.sent = n] \in Watcher
                 /\ [Off EXCEPT !.at = a, !.orphans = S] \in Watcher
                 /\ [w[v] EXCEPT !.at = a] \in Watcher
           /\ w[v].sent < Messages => w[v].sent + 1 \in 0..Messages
           /\ Off \in Watcher
           /\ NoDoc \in File /\ 0 \in 0..Messages /\ Messages \in 0..Messages
<1>1. NoDoc \in File /\ 0 \in 0..Messages /\ Messages \in 0..Messages
  BY InboxAssumption DEF File
<1>2. w[v] \in Watcher
  BY DEF TypeOK
<1>3. Off \in Watcher
  BY <1>1 DEF Off, Watcher
<1>4. w[v].sent < Messages => w[v].sent + 1 \in 0..Messages
  BY <1>2, InboxAssumption DEF Watcher
<1> QED BY <1>1, <1>2, <1>3, <1>4 DEF Watcher, Off

\* What a failed attempt leaves is well typed.
LEMMA FailType ==
    ASSUME TypeOK, NEW v \in Watchers, Busy(v), Fail(v)
    PROVE  /\ files' \in [Paths -> File] /\ claimed' \in [Stems -> File]
           /\ failed' \in [Paths -> File]
           /\ retries' \in [Watchers -> [Paths -> Nat]]
           /\ w' \in [Watchers -> Watcher] /\ errors' \in [Docs -> 0.._MAX_RETRIES]
<1>1. PICK p \in Paths : p = w[v].path
  BY DEF TypeOK, Watcher, Busy
<1>2. PICK d \in File : d = claimed[p[1]]
  BY DEF TypeOK, Paths
<1>3. NoDoc \in File /\ Messages \in Nat /\ _MAX_RETRIES \in Nat
  BY InboxAssumption DEF File
<1>4. files' \in [Paths -> File] /\ failed' \in [Paths -> File]
  BY <1>1, <1>2 DEF Fail, Here, TypeOK
<1>5. claimed' \in [Stems -> File]
  BY <1>1, <1>3 DEF Fail, TypeOK
<1>6. w' \in [Watchers -> Watcher]
  <2>1. w' = [w EXCEPT ![v] = [w[v] EXCEPT !.path = <<>>, !.doc = NoDoc, !.sent = 0]]
    BY DEF Fail, Done, TypeOK
  <2> QED BY <2>1, WatcherFields DEF TypeOK
<1>7. retries' \in [Watchers -> [Paths -> Nat]]
  <2>1. Count(Failures(v, p)) \in Nat
    BY DEF Count, Failures, TypeOK
  <2> QED BY <1>1, <2>1 DEF Fail, TypeOK
<1>8. errors' \in [Docs -> 0.._MAX_RETRIES]
  <2>1. \A n \in 0.._MAX_RETRIES : More(n) \in 0.._MAX_RETRIES
    BY <1>3 DEF More
  <2> QED BY <1>1, <1>2, <2>1 DEF Fail, Here, TypeOK
<1> QED BY <1>4, <1>5, <1>6, <1>7, <1>8

\* Files, watchers and histories stay well typed.
LEMMA TypeNext ==
    ASSUME TypeOK, Places, [InboxNext]_inboxVars
    PROVE  TypeOK'
<1>0. NoDoc \in File /\ Docs \subseteq File /\ Messages \in Nat
  BY InboxAssumption DEF File
<1>1. CASE UNCHANGED inboxVars
  BY <1>1 DEF inboxVars, dirs, TypeOK
<1>2. ASSUME NEW d \in Docs, Drop(d)
      PROVE  TypeOK'
  <2>1. form[d].path \in Paths
    BY DEF TypeOK, Forms, Paths, Exts
  <2>2. files' \in [Paths -> File]
    BY <1>0, <1>2, <2>1 DEF Drop, TypeOK
  <2> QED BY <1>2, <2>2 DEF Drop, TypeOK
<1>3. CASE HourPasses
  BY <1>3 DEF HourPasses, TypeOK, dirs
<1>4. ASSUME NEW v \in Watchers, Start(v) \/ Stop(v) \/ BeginPolling(v)
      PROVE  TypeOK'
  <2>1. w' \in [Watchers -> Watcher]
    <3>1. \E r \in Watcher : w' = [w EXCEPT ![v] = r]
      <4>1. CASE Start(v)
        BY <4>1, WatcherFields DEF Start
      <4>2. CASE Stop(v)
        BY <4>2, WatcherFields DEF Stop
      <4>3. CASE BeginPolling(v)
        <5>1. w' = [w EXCEPT ![v] = [w[v] EXCEPT !.at = "poll"]]
          BY <4>3 DEF BeginPolling, TypeOK
        <5> QED BY <5>1, WatcherFields
      <4> QED BY <1>4, <4>1, <4>2, <4>3
    <3> QED BY <3>1 DEF TypeOK
  <2>2. retries' \in [Watchers -> [Paths -> Nat]]
    BY <1>4 DEF Start, Stop, BeginPolling, NoRetries, TypeOK
  <2>3. stops' \in Nat
    BY <1>4 DEF Start, Stop, BeginPolling, TypeOK
  <2>4. UNCHANGED <<form, proxied, dropped, aged, files, claimed, processed, failed, errors, recovered>>
    BY <1>4 DEF Start, Stop, BeginPolling, dirs
  <2> QED BY <2>1, <2>2, <2>3, <2>4 DEF TypeOK
<1>5. ASSUME NEW v \in Watchers, Recover(v)
      PROVE  TypeOK'
  <2>1. PICK s \in w[v].orphans :
            /\ w' = [w EXCEPT ![v].orphans = @ \ {s}]
            /\ IF claimed[s] \in aged
                 THEN /\ files'     = [files EXCEPT ![<<s, "json">>] = claimed[s]]
                      /\ claimed'   = [claimed EXCEPT ![s] = NoDoc]
                      /\ recovered' = recovered \cup {claimed[s]}
                 ELSE UNCHANGED <<files, claimed, recovered>>
    BY <1>5 DEF Recover
  <2>2. UNCHANGED <<form, proxied, dropped, aged, processed, failed, retries, stored, errors, stops>>
    BY <1>5 DEF Recover
  <2>3. w' \in [Watchers -> Watcher]
    BY <2>1 DEF TypeOK, Watcher
  <2>4. s \in Stems /\ claimed[s] \in File
    BY DEF TypeOK, Watcher
  <2>5. files' \in [Paths -> File] /\ claimed' \in [Stems -> File] /\ recovered' \subseteq dropped
    <3>1. <<s, "json">> \in Paths
      BY <2>4 DEF Paths, Exts
    <3>2. recovered' \subseteq dropped
      BY <2>1 DEF TypeOK
    <3>3. claimed' \in [Stems -> File]
      BY <1>0, <2>1, <2>4 DEF TypeOK
    <3>4. PICK p \in Paths : p = <<s, "json">>
      BY <3>1
    <3>5. files' = [files EXCEPT ![p] = claimed[s]] \/ files' = files
      BY <2>1, <3>4
    <3>6. files' \in [Paths -> File]
      BY <2>4, <3>5 DEF TypeOK
    <3> QED BY <3>2, <3>3, <3>6
  <2> QED BY <2>2, <2>3, <2>5 DEF TypeOK
<1>6. ASSUME NEW v \in Watchers, Claim(v)
      PROVE  TypeOK'
  <2>1. PICK p \in Paths :
            /\ w' = [w EXCEPT ![v].path = p]
            /\ claimed' = [claimed EXCEPT ![p[1]] = files[p]]
            /\ files'   = [files EXCEPT ![p] = NoDoc]
    BY <1>6 DEF Claim
  <2>2. w' \in [Watchers -> Watcher]
    BY <2>1 DEF TypeOK, Watcher
  <2>3. files' \in [Paths -> File] /\ claimed' \in [Stems -> File]
    BY <1>0, <2>1 DEF TypeOK
  <2> QED BY <1>6, <2>2, <2>3 DEF Claim, TypeOK
<1>7. ASSUME NEW v \in Watchers, Load(v)
      PROVE  TypeOK'
  <2>1. CASE Fail(v)
    BY <1>7, <2>1, FailType DEF Load, TypeOK
  <2>2. CASE ~Fail(v)
    <3>1. /\ \/ w' = [w EXCEPT ![v].doc = Here(v)]
             \/ w' = [w EXCEPT ![v].sent = Messages]
          /\ UNCHANGED <<dirs, retries, errors>>
      BY <1>7, <2>2 DEF Load
    <3>2. Here(v) \in File
      BY <1>7 DEF Load, Here, Busy, TypeOK, Watcher, Paths
    <3>3. w' \in [Watchers -> Watcher]
      <4>1. CASE w' = [w EXCEPT ![v].doc = Here(v)]
        <5>1. w' = [w EXCEPT ![v] = [w[v] EXCEPT !.doc = Here(v)]]
          BY <4>1 DEF TypeOK
        <5> QED BY <3>2, <5>1, WatcherFields DEF TypeOK
      <4>2. CASE w' = [w EXCEPT ![v].sent = Messages]
        <5>1. w' = [w EXCEPT ![v] = [w[v] EXCEPT !.sent = Messages]]
          BY <4>2 DEF TypeOK
        <5> QED BY <5>1, WatcherFields DEF TypeOK
      <4> QED BY <3>1, <4>1, <4>2
    <3> QED BY <1>7, <3>1, <3>3 DEF Load, TypeOK, dirs
  <2> QED BY <2>1, <2>2
<1>8. ASSUME NEW v \in Watchers, Ingest(v) \/ Post(v)
      PROVE  TypeOK'
  <2>1. w' \in [Watchers -> Watcher]
    <3>1. PICK n \in 0..Messages : w' = [w EXCEPT ![v].sent = n]
      BY <1>8, WatcherFields DEF Ingest, Post
    <3>2. w' = [w EXCEPT ![v] = [w[v] EXCEPT !.sent = n]]
      BY <3>1 DEF TypeOK
    <3> QED BY <3>2, WatcherFields DEF TypeOK
  <2>2. UNCHANGED <<form, proxied, dropped, aged, files, claimed, processed, failed, retries,
                    errors, recovered, stops>>
    BY <1>8 DEF Ingest, Post, dirs
  <2> QED BY <2>1, <2>2 DEF TypeOK
<1>9. ASSUME NEW v \in Watchers, IngestFails(v)
      PROVE  TypeOK'
  <2>1. Busy(v) /\ Fail(v)
    BY <1>9 DEF IngestFails
  <2>2. UNCHANGED <<form, proxied, dropped, aged, processed, recovered, stops>>
    BY <1>9 DEF IngestFails, Fail
  <2> QED BY <2>1, <2>2, FailType DEF TypeOK
<1>10. ASSUME NEW v \in Watchers, Finish(v)
       PROVE  TypeOK'
  <2>1. CASE Here(v) = NoDoc
    BY <1>10, <2>1, FailType DEF Finish, Fail, TypeOK
  <2>2. CASE Here(v) # NoDoc
    <3>1. PICK p \in Paths : p = w[v].path
      BY <1>10 DEF Finish, Busy, TypeOK, Watcher
    <3>2. PICK d \in Docs : d = claimed[p[1]]
      BY <2>2, <3>1 DEF Here, TypeOK, File, Paths
    <3>3. d \in dropped
      <4>1. Has(claimed, d)
        BY <3>1, <3>2 DEF Has, TypeOK, Paths
      <4> QED BY <4>1 DEF Places, Apart
    <3>4. /\ processed' = processed \cup {d} /\ claimed' = [claimed EXCEPT ![p[1]] = NoDoc]
          /\ retries' = [retries EXCEPT ![v][p] = 0] /\ w' = Done(v)
          /\ UNCHANGED <<form, proxied, dropped, aged, files, failed, errors, recovered, stops>>
      BY <1>10, <2>2, <3>1, <3>2 DEF Finish, Here
    <3>5. w' \in [Watchers -> Watcher]
      <4>1. w' = [w EXCEPT ![v] = [w[v] EXCEPT !.path = <<>>, !.doc = NoDoc, !.sent = 0]]
        BY <3>4 DEF Done, TypeOK
      <4> QED BY <4>1, WatcherFields DEF TypeOK
    <3>6. claimed' \in [Stems -> File] /\ retries' \in [Watchers -> [Paths -> Nat]]
      BY <1>0, <3>4 DEF TypeOK
    <3> QED BY <3>3, <3>4, <3>5, <3>6 DEF TypeOK
  <2> QED BY <2>1, <2>2
<1> QED BY <1>1, <1>2, <1>3, <1>4, <1>5, <1>6, <1>7, <1>8, <1>9, <1>10 DEF InboxNext, Poll

\* The first states, and every step.
LEMMA InitPlaces == InboxInit => TypeOK /\ Places
<1> SUFFICES ASSUME InboxInit
             PROVE  TypeOK /\ Places
  OBVIOUS
<1>1. NoDoc \in File /\ NoDoc \notin Docs /\ 0 \in 0..Messages /\ 0 \in 0.._MAX_RETRIES
  BY InboxAssumption DEF File
<1>2. TypeOK
  BY <1>1 DEF InboxInit, TypeOK, Watcher, Off, NoRetries
<1>3. \A d \in Docs : ~Has(files, d) /\ ~Has(claimed, d) /\ ~Has(failed, d)
  BY <1>1 DEF InboxInit, Has
<1>4. OneName(files) /\ OneName(claimed) /\ OneName(failed) /\ OwnStems
  BY DEF InboxInit, OneName, OwnStems
<1> QED BY <1>2, <1>3, <1>4 DEF Places, Apart, InboxInit

\* Types and places together.
Placed == TypeOK /\ Places

\* Types and places are kept by every step.
LEMMA PlacedNext == Placed /\ [InboxNext]_inboxVars => Placed'
BY TypeNext, StepsAreFileSteps, FilesDeliver DEF Placed

\* A file is at all times in one place, under a name of its own stem.
THEOREM FilesArePlaced == InboxSpec => []Placed
BY InitPlaces, PlacedNext, PTL DEF InboxSpec, Placed

\* The watchers implement InboxDelivery: for any number of files, watchers, messages and
\* crashes, a file is lost only to another of its stem and a finished one never comes back.
THEOREM InboxIsDelivered == InboxSpec => InboxDelivers
<1>1. InboxInit => Delivery!DeliveryInit
  <2> SUFFICES ASSUME InboxInit
               PROVE  Delivery!DeliveryInit
    OBVIOUS
  <2>1. \A d \in Docs : FateOf(d) = "new"
    BY InitPlaces, FateIs DEF InboxInit, FatesAre, FateIsOf
  <2>2. \A d \in Docs : form[d].path[1] \in Stems
    BY DEF InboxInit, Forms
  <2> QED BY <2>1, <2>2 DEF Delivery!DeliveryInit
<1>2. Placed /\ [InboxNext]_inboxVars =>
         [Delivery!DeliveryNext]_<<[d \in Docs |-> FateOf(d)], [d \in Docs |-> form[d].path[1]]>>
  BY StepsAreFileSteps, FilesDeliver DEF Placed, Fate
<1> QED BY <1>1, <1>2, FilesArePlaced, PTL DEF InboxSpec, InboxDelivers, Delivery!DeliverySpec

-----------------------------------------------------------------------------
(* What an attempt at a file may do.                                       *)

\* A document may be under a name that is not its own after a recovery, or for another's sake.
Named(d, p) == p = form[d].path \/ (d \in recovered /\ p[2] = "json") \/ Clash(d)

\* A file that waits has its own name, that of a recovery, or one of a shared stem.
FilesNamed == \A p \in Paths : files[p] # NoDoc => Named(files[p], p)

\* Recovery gave a .jsonl file the extension .json.
Misread(d) == d \in recovered /\ form[d].path[2] = "jsonl"

\* The documents ever dropped under the stem of p.
OfStem(p) == {d \in dropped : StemOf(d) = p[1]}

\* An attempt is at a file of its stem; what it has loaded it has handed over so far; and it
\* loaded nothing only from a file that was misread.
Attempt(v) ==
    /\ ~Busy(v) => w[v].doc = NoDoc /\ w[v].sent = 0
    /\ Busy(v) =>
          LET p == w[v].path  d == w[v].doc IN
          /\ w[v].at = "poll"
          /\ OfStem(p) # {} /\ \A o \in OfStem(p) : Named(o, p)
          /\ d # NoDoc => /\ d \in OfStem(p)
                          /\ proxied \/ \A i \in 1..w[v].sent : <<d, i>> \in stored
          /\ (d = NoDoc /\ w[v].sent # 0) => \A o \in OfStem(p) : Clash(o) \/ Misread(o)

\* Every attempt under way is at the file it claimed.
Attempts == FilesNamed /\ \A v \in Watchers : Attempt(v)

\* What only grows.
LEMMA Grows ==
    ASSUME TypeOK, [InboxNext]_inboxVars
    PROVE  /\ UNCHANGED <<form, proxied>>
           /\ dropped \subseteq dropped' /\ recovered \subseteq recovered' /\ stored \subseteq stored'
           /\ \A d \in Docs : errors[d] <= errors'[d]
<1>1. UNCHANGED <<form, proxied>> /\ dropped \subseteq dropped'
  BY DEF InboxNext, Poll, inboxVars, Drop, HourPasses, Start, Stop, Recover, BeginPolling, Claim,
         Load, Ingest, IngestFails, Post, Finish, Fail
<1>2. recovered \subseteq recovered'
  BY DEF InboxNext, Poll, inboxVars, Drop, HourPasses, Start, Stop, Recover, BeginPolling, Claim,
         Load, Ingest, IngestFails, Post, Finish, Fail
<1>3. stored \subseteq stored'
  BY DEF InboxNext, Poll, inboxVars, Drop, HourPasses, Start, Stop, Recover, BeginPolling, Claim,
         Load, Ingest, IngestFails, Post, Finish
<1>4. ASSUME NEW d \in Docs
      PROVE  errors[d] <= errors'[d]
  <2>1. errors' = errors \/ \E v \in Watchers : Fail(v)
    BY DEF InboxNext, Poll, inboxVars, Drop, HourPasses, Start, Stop, Recover, BeginPolling, Claim,
           Load, Ingest, IngestFails, Post, Finish
  <2>2. errors[d] \in Nat /\ \A n \in Nat : n <= More(n)
    BY InboxAssumption DEF TypeOK, More
  <2>3. ASSUME NEW v \in Watchers, Fail(v)
        PROVE  errors[d] <= errors'[d]
    <3>1. errors' = [errors EXCEPT ![Here(v)] = More(errors[Here(v)])] \/ errors' = errors
      BY <2>3 DEF Fail
    <3> QED BY <2>2, <3>1 DEF TypeOK
  <2> QED BY <2>1, <2>2, <2>3
<1> QED BY <1>1, <1>2, <1>3, <1>4

\* What was said of a document stays true of it.
LEMMA NamesStay ==
    ASSUME TypeOK, [InboxNext]_inboxVars, NEW d
    PROVE  /\ Clash(d) => Clash(d)'
           /\ Misread(d) => Misread(d)'
           /\ \A p \in Paths : Named(d, p) => Named(d, p)'
           /\ StemOf(d)' = StemOf(d)
<1>1. /\ UNCHANGED form /\ dropped \subseteq dropped' /\ recovered \subseteq recovered'
  BY Grows
<1> QED BY <1>1 DEF Clash, Misread, Named, StemOf

\* A newcomer clashes with the document that was there first.
LEMMA NewcomersClash ==
    ASSUME TypeOK, [InboxNext]_inboxVars, NEW p \in Paths, OfStem(p) # {}
    PROVE  /\ OfStem(p) \subseteq OfStem(p)' /\ OfStem(p)' # {}
           /\ \A o \in OfStem(p)' : o \in OfStem(p) \/ Clash(o)'
<1>1. /\ UNCHANGED form /\ dropped \subseteq dropped'
  BY Grows
<1>2. PICK e \in dropped : StemOf(e) = p[1]
  BY DEF OfStem
<1>3. \A o \in OfStem(p)' : o \in dropped \/ Clash(o)'
  BY <1>1, <1>2 DEF OfStem, Clash, StemOf
<1> QED BY <1>1, <1>2, <1>3 DEF OfStem, StemOf

\* A step that leaves a watcher alone leaves its attempt good.
LEMMA AttemptKept ==
    ASSUME TypeOK, [InboxNext]_inboxVars, NEW v \in Watchers, Attempt(v), w'[v] = w[v]
    PROVE  Attempt(v)'
<1>1. CASE ~Busy(v)
  BY <1>1 DEF Attempt, Busy
<1>2. CASE Busy(v)
  <2>1. PICK p \in Paths : p = w[v].path
    BY <1>2 DEF Busy, TypeOK, Watcher
  <2>2. /\ OfStem(p) # {} /\ \A o \in OfStem(p) : Named(o, p)
        /\ w[v].doc # NoDoc => /\ w[v].doc \in OfStem(p)
                               /\ proxied \/ \A i \in 1..w[v].sent : <<w[v].doc, i>> \in stored
        /\ (w[v].doc = NoDoc /\ w[v].sent # 0) => \A o \in OfStem(p) : Clash(o) \/ Misread(o)
        /\ w[v].at = "poll"
    BY <1>2, <2>1 DEF Attempt
  <2>3. /\ OfStem(p) \subseteq OfStem(p)' /\ OfStem(p)' # {}
        /\ \A o \in OfStem(p)' : o \in OfStem(p) \/ Clash(o)'
    BY <2>2, NewcomersClash
  <2>4. \A o \in OfStem(p)' : Named(o, p)'
    <3>1. \A o \in OfStem(p)' : Clash(o)' => Named(o, p)'
      BY DEF Named
    <3> QED BY <2>2, <2>3, <3>1, NamesStay
  <2>5. stored \subseteq stored' /\ proxied' = proxied
    BY Grows
  <2>6. (w[v].doc = NoDoc /\ w[v].sent # 0) => \A o \in OfStem(p)' : Clash(o)' \/ Misread(o)'
    BY <2>2, <2>3, NamesStay
  <2> QED BY <1>2, <2>1, <2>2, <2>3, <2>4, <2>5, <2>6 DEF Attempt, Busy, OfStem
<1> QED BY <1>1, <1>2

\* A watcher that has stopped, failed or finished is at no file.
LEMMA IdleAttempt ==
    ASSUME NEW v \in Watchers, w'[v].path = <<>>, w'[v].doc = NoDoc, w'[v].sent = 0
    PROVE  Attempt(v)'
BY DEF Attempt, Busy

\* Names stay right when what a step writes under a name may have it.
LEMMA NamedKept ==
    ASSUME TypeOK, Places, FilesNamed, [InboxNext]_inboxVars,
           \A p \in Paths, x \in Docs : files'[p] = x => files[p] = x \/ Named(x, p)'
    PROVE  FilesNamed'
<1>1. \A p \in Paths : files'[p] # NoDoc => files'[p] \in Docs
  BY TypeNext DEF TypeOK, File
<1>2. \A p \in Paths, x \in Docs : files'[p] = x => Named(x, p)'
  <2>1. NoDoc \notin Docs
    BY InboxAssumption
  <2>2. \A p \in Paths, x \in Docs : files[p] = x => Named(x, p)'
    BY <2>1, NamesStay DEF FilesNamed
  <2> QED BY <2>2
<1> QED BY <1>1, <1>2 DEF FilesNamed

\* The except branch leaves the watcher idle and puts a file back under a name it may have.
LEMMA FailAttempts ==
    ASSUME TypeOK, Places, Attempts, [InboxNext]_inboxVars, NEW v \in Watchers, Busy(v), Fail(v)
    PROVE  Attempts'
<1>1. PICK p \in Paths : p = w[v].path
  BY DEF TypeOK, Watcher, Busy
<1>2. w' = Done(v) /\ (files' = files \/ (files' = [files EXCEPT ![p] = Here(v)] /\ Here(v) # NoDoc))
  BY <1>1 DEF Fail
<1>3. Here(v) # NoDoc => Named(Here(v), p)
  <2> SUFFICES ASSUME Here(v) # NoDoc
               PROVE  Named(Here(v), p)
    OBVIOUS
  <2>1. Here(v) \in Docs /\ Has(claimed, Here(v)) /\ StemOf(Here(v)) = p[1]
    BY <1>1, Dirs DEF Here
  <2>2. Here(v) \in OfStem(p)
    BY <2>1 DEF OfStem, Places, Apart
  <2> QED BY <1>1, <2>2 DEF Attempts, Attempt
<1>4. FilesNamed'
  <2>1. \A q \in Paths, x \in Docs : files'[q] = x => files[q] = x \/ Named(x, q)'
    <3> SUFFICES ASSUME NEW q \in Paths, NEW x \in Docs, files'[q] = x, files[q] # x
                 PROVE  Named(x, q)'
      OBVIOUS
    <3>1. q = p /\ x = Here(v) /\ Here(v) # NoDoc
      BY <1>2 DEF TypeOK
    <3>2. Named(x, q)
      BY <1>3, <3>1
    <3> QED BY <3>2, NamesStay
  <2> QED BY <2>1, NamedKept DEF Attempts
<1>5. ASSUME NEW u \in Watchers
      PROVE  Attempt(u)'
  <2>1. CASE u = v
    <3>1. w'[v].path = <<>> /\ w'[v].doc = NoDoc /\ w'[v].sent = 0
      BY <1>2 DEF Done, TypeOK, Watcher
    <3> QED BY <2>1, <3>1, IdleAttempt
  <2>2. CASE u # v
    BY <1>2, <2>2, AttemptKept DEF Attempts, Done, TypeOK
  <2> QED BY <2>1, <2>2
<1> QED BY <1>4, <1>5 DEF Attempts

\* A claim, from a file under a name it may have.
LEMMA ClaimAttempts ==
    ASSUME TypeOK, Places, Attempts, [InboxNext]_inboxVars, NEW v \in Watchers, Claim(v)
    PROVE  Attempts'
<1>1. PICK p \in Paths :
         /\ files[p] # NoDoc
         /\ w' = [w EXCEPT ![v].path = p]
         /\ files' = [files EXCEPT ![p] = NoDoc]
  BY DEF Claim
<1>2. w[v].at = "poll" /\ ~Busy(v) /\ dropped' = dropped
  BY DEF Claim, Busy
<1>3. /\ w'[v].at = "poll" /\ w'[v].path = p /\ w'[v].doc = NoDoc /\ w'[v].sent = 0
      /\ \A u \in Watchers \ {v} : w'[u] = w[u]
  BY <1>1, <1>2 DEF TypeOK, Watcher, Attempts, Attempt
<1>4. PICK d \in Docs : d = files[p]
  BY <1>1, Dirs
<1>5. d \in OfStem(p) /\ Named(d, p)
  <2>1. Has(files, d) /\ StemOf(d) = p[1]
    BY <1>1, <1>4, Dirs
  <2> QED BY <1>1, <1>4, <2>1 DEF Places, Apart, OfStem, Attempts, FilesNamed
<1>6. \A o \in OfStem(p) : Named(o, p)
  <2>1. \A o \in OfStem(p) : o = d \/ Clash(o)
    BY <1>5 DEF OfStem, Clash, StemOf
  <2> QED BY <1>5, <2>1 DEF Named
<1>7. OfStem(p)' = OfStem(p) /\ \A o : Named(o, p) => Named(o, p)'
  BY <1>2, NamesStay, Grows DEF OfStem, StemOf
<1>8. Attempt(v)'
  BY <1>3, <1>5, <1>6, <1>7 DEF Attempt
<1>9. FilesNamed'
  <2>1. \A q \in Paths, x \in Docs : files'[q] = x => files[q] = x
    BY <1>1, Dirs DEF TypeOK
  <2> QED BY <2>1, NamedKept DEF Attempts
<1> QED BY <1>3, <1>8, <1>9, AttemptKept DEF Attempts

\* Loading: what parses as nothing was misread, unless two files share the stem.
LEMMA LoadAttempts ==
    ASSUME TypeOK, Places, Attempts, [InboxNext]_inboxVars, NEW v \in Watchers, Load(v), ~Fail(v)
    PROVE  Attempts'
<1>1. PICK p \in Paths : p = w[v].path
  BY DEF Load, TypeOK, Watcher, Busy
<1>2. /\ Busy(v) /\ w[v].sent = 0 /\ w[v].doc = NoDoc
      /\ UNCHANGED <<form, proxied, dropped, recovered, stored, files>>
  BY DEF Load, dirs
<1>3. \/ Parse(Here(v), p[2]) = "messages" /\ w' = [w EXCEPT ![v].doc = Here(v)]
      \/ Parse(Here(v), p[2]) = "nothing"  /\ w' = [w EXCEPT ![v].sent = Messages]
  BY <1>1 DEF Load
<1>4. Here(v) # NoDoc /\ Here(v) \in OfStem(p)
  <2>1. Here(v) # NoDoc
    BY <1>3 DEF Parse
  <2>2. Here(v) \in Docs /\ Has(claimed, Here(v)) /\ StemOf(Here(v)) = p[1]
    BY <1>1, <2>1, Dirs DEF Here
  <2> QED BY <2>1, <2>2 DEF OfStem, Places, Apart
<1>5. /\ w'[v].path = p /\ w'[v].at = w[v].at
      /\ \A u \in Watchers \ {v} : w'[u] = w[u]
      /\ \/ w'[v].doc = Here(v) /\ w'[v].sent = 0
         \/ /\ w'[v].doc = NoDoc
            /\ Parse(Here(v), p[2]) = "nothing"
  BY <1>1, <1>2, <1>3 DEF TypeOK, Watcher
<1>6. OfStem(p)' = OfStem(p)
  BY <1>2 DEF OfStem, StemOf
<1>7. ASSUME Parse(Here(v), p[2]) = "nothing", NEW o \in OfStem(p)
      PROVE  Clash(o) \/ Misread(o)
  <2>1. CASE o # Here(v)
    BY <1>4, <2>1 DEF OfStem, Clash, StemOf
  <2>2. CASE o = Here(v)
    <3>1. form[o].path[2] # p[2]
      BY <1>4, <1>7, <2>2 DEF Parse
    <3>2. Named(o, p)
      BY <1>1, <1>2, <1>4, <2>2 DEF Attempts, Attempt
    <3>3. form[o].path[2] \in {"json", "jsonl"}
      BY DEF TypeOK, Forms, OfStem
    <3> QED BY <3>1, <3>2, <3>3 DEF Named, Misread
  <2> QED BY <2>1, <2>2
<1>8. Attempt(v)'
  <2>1. /\ w[v].at = "poll" /\ OfStem(p) # {} /\ \A o \in OfStem(p) : Named(o, p)
    BY <1>1, <1>2 DEF Attempts, Attempt
  <2>2. \A o : (Named(o, p) => Named(o, p)') /\ (Clash(o) => Clash(o)') /\ (Misread(o) => Misread(o)')
    BY NamesStay
  <2>3. Busy(v)'
    BY <1>1, <1>2, <1>5 DEF Busy
  <2>4. \A o \in OfStem(p)' : Named(o, p)'
    BY <1>6, <2>1, <2>2
  <2>5. w'[v].doc # NoDoc => w'[v].doc \in OfStem(p)' /\ w'[v].sent = 0
    BY <1>4, <1>5, <1>6
  <2>6. w'[v].doc = NoDoc => \A o \in OfStem(p)' : Clash(o)' \/ Misread(o)'
    BY <1>4, <1>5, <1>6, <1>7, <2>2
  <2> QED BY <1>5, <1>6, <2>1, <2>3, <2>4, <2>5, <2>6 DEF Attempt
<1>9. FilesNamed'
  BY <1>2, NamedKept DEF Attempts
<1> QED BY <1>5, <1>8, <1>9, AttemptKept DEF Attempts

\* Handing over, one by one or in one request.
LEMMA IngestAttempts ==
    ASSUME TypeOK, Places, Attempts, [InboxNext]_inboxVars, NEW v \in Watchers, Ingest(v) \/ Post(v)
    PROVE  Attempts'
<1>1. PICK p \in Paths : p = w[v].path
  BY DEF Ingest, Post, TypeOK, Watcher, Busy
<1>2. /\ Busy(v) /\ w[v].doc # NoDoc
      /\ UNCHANGED <<form, proxied, dropped, recovered, files>>
  BY DEF Ingest, Post, dirs
<1>3. PICK n \in 0..Messages : w' = [w EXCEPT ![v].sent = n] /\ (proxied \/ n = w[v].sent + 1)
  BY WatcherFields DEF Ingest, Post
<1>4. /\ w'[v].path = p /\ w'[v].at = w[v].at /\ w'[v].doc = w[v].doc /\ w'[v].sent = n
      /\ \A u \in Watchers \ {v} : w'[u] = w[u]
  BY <1>1, <1>3 DEF TypeOK, Watcher
<1>5. OfStem(p)' = OfStem(p)
  BY <1>2 DEF OfStem, StemOf
<1>6. proxied \/ \A i \in 1..n : <<w[v].doc, i>> \in stored'
  <2> SUFFICES ASSUME ~proxied
               PROVE  \A i \in 1..n : <<w[v].doc, i>> \in stored'
    OBVIOUS
  <2>1. stored' = stored \cup {<<w[v].doc, w[v].sent + 1>>}
    BY DEF Ingest, Post
  <2>2. \A i \in 1..w[v].sent : <<w[v].doc, i>> \in stored
    BY <1>1, <1>2 DEF Attempts, Attempt
  <2>3. w[v].sent \in Nat /\ n = w[v].sent + 1
    BY <1>3, InboxAssumption DEF TypeOK, Watcher
  <2>4. \A i \in 1..n : i \in 1..w[v].sent \/ i = w[v].sent + 1
    BY <2>3
  <2> QED BY <2>1, <2>2, <2>3, <2>4
<1>7. Attempt(v)'
  <2>1. /\ w[v].at = "poll" /\ OfStem(p) # {} /\ \A o \in OfStem(p) : Named(o, p)
        /\ w[v].doc \in OfStem(p)
    BY <1>1, <1>2 DEF Attempts, Attempt
  <2>2. \A o : Named(o, p) => Named(o, p)'
    BY NamesStay
  <2> QED BY <1>1, <1>2, <1>4, <1>5, <1>6, <2>1, <2>2 DEF Attempt, Busy
<1>8. FilesNamed'
  BY <1>2, NamedKept DEF Attempts
<1> QED BY <1>4, <1>7, <1>8, AttemptKept DEF Attempts

\* Recovery gives a file the extension it may have after one.
LEMMA RecoverAttempts ==
    ASSUME TypeOK, Places, Attempts, [InboxNext]_inboxVars, NEW v \in Watchers, Recover(v)
    PROVE  Attempts'
<1>1. PICK s \in w[v].orphans :
         /\ w' = [w EXCEPT ![v].orphans = @ \ {s}]
         /\ IF claimed[s] \in aged
              THEN /\ files'     = [files EXCEPT ![<<s, "json">>] = claimed[s]]
                   /\ claimed'   = [claimed EXCEPT ![s] = NoDoc]
                   /\ recovered' = recovered \cup {claimed[s]}
              ELSE UNCHANGED <<files, claimed, recovered>>
  BY DEF Recover
<1>2. /\ ~Busy(v) /\ w[v].doc = NoDoc /\ w[v].sent = 0
  BY DEF Recover, Attempts, Attempt
<1>3. /\ w'[v].path = <<>> /\ w'[v].doc = NoDoc /\ w'[v].sent = 0
      /\ \A u \in Watchers \ {v} : w'[u] = w[u]
  BY <1>1, <1>2 DEF Busy, TypeOK, Watcher
<1>4. s \in Stems
  BY DEF TypeOK, Watcher
<1>5. PICK q \in Paths : q = <<s, "json">>
  BY <1>4 DEF Paths, Exts
<1>6. q[2] = "json"
  BY <1>5
<1>7. \A p \in Paths, x \in Docs : files'[p] = x => files[p] = x \/ Named(x, p)'
  <2> SUFFICES ASSUME NEW p \in Paths, NEW x \in Docs, files'[p] = x, files[p] # x
               PROVE  Named(x, p)'
    OBVIOUS
  <2>1. p = q /\ x = claimed[s] /\ recovered' = recovered \cup {claimed[s]}
    BY <1>1, <1>5 DEF TypeOK
  <2> QED BY <1>6, <2>1 DEF Named
<1>8. FilesNamed'
  BY <1>7, NamedKept DEF Attempts
<1>9. Attempt(v)'
  BY <1>3, IdleAttempt
<1> QED BY <1>3, <1>8, <1>9, AttemptKept DEF Attempts

\* Attempts stay what they are under every step.
LEMMA AttemptsNext ==
    ASSUME TypeOK, Places, Attempts, [InboxNext]_inboxVars
    PROVE  Attempts'
<1>1. CASE UNCHANGED <<files, w>>
  <2>1. FilesNamed'
    BY <1>1, NamedKept DEF Attempts
  <2> QED BY <1>1, <2>1, AttemptKept DEF Attempts
<1>2. ASSUME NEW d \in Docs, Drop(d)
      PROVE  Attempts'
  <2>1. files' = [files EXCEPT ![form[d].path] = d] /\ UNCHANGED <<w, form>>
    BY <1>2 DEF Drop
  <2>2. \A p \in Paths, x \in Docs : files'[p] = x => files[p] = x \/ Named(x, p)'
    BY <2>1 DEF TypeOK, Named
  <2>3. FilesNamed'
    BY <2>2, NamedKept DEF Attempts
  <2> QED BY <2>1, <2>3, AttemptKept DEF Attempts
<1>3. ASSUME NEW v \in Watchers, Start(v) \/ Stop(v) \/ BeginPolling(v)
      PROVE  Attempts'
  <2>1. UNCHANGED files /\ \A u \in Watchers \ {v} : w'[u] = w[u]
    BY <1>3 DEF Start, Stop, BeginPolling, dirs, TypeOK
  <2>2. w'[v].path = <<>> /\ w'[v].doc = NoDoc /\ w'[v].sent = 0
    <3>1. CASE Start(v)
      BY <3>1 DEF Start, Off, TypeOK
    <3>3. CASE Stop(v)
      BY <3>3 DEF Stop, Off, TypeOK
    <3>2. CASE BeginPolling(v)
      <4>1. ~Busy(v) /\ w[v].doc = NoDoc /\ w[v].sent = 0
        BY <3>2 DEF BeginPolling, Attempts, Attempt
      <4> QED BY <3>2, <4>1 DEF BeginPolling, Busy, TypeOK, Watcher
    <3> QED BY <1>3, <3>1, <3>2, <3>3
  <2>3. FilesNamed'
    BY <2>1, NamedKept DEF Attempts
  <2> QED BY <2>1, <2>2, <2>3, IdleAttempt, AttemptKept DEF Attempts
<1>4. ASSUME NEW v \in Watchers, Recover(v) \/ Claim(v) \/ Ingest(v) \/ Post(v)
      PROVE  Attempts'
  BY <1>4, RecoverAttempts, ClaimAttempts, IngestAttempts
<1>5. ASSUME NEW v \in Watchers, Load(v) \/ IngestFails(v)
      PROVE  Attempts'
  <2>1. Busy(v) /\ (Fail(v) \/ (Load(v) /\ ~Fail(v)))
    BY <1>5 DEF Load, IngestFails
  <2> QED BY <2>1, FailAttempts, LoadAttempts
<1>6. ASSUME NEW v \in Watchers, Finish(v)
      PROVE  Attempts'
  <2>1. CASE Fail(v)
    BY <1>6, <2>1, FailAttempts DEF Finish
  <2>2. CASE ~Fail(v)
    <3>1. w' = Done(v) /\ UNCHANGED files
      BY <1>6, <2>2 DEF Finish
    <3>2. /\ w'[v].path = <<>> /\ w'[v].doc = NoDoc /\ w'[v].sent = 0
          /\ \A u \in Watchers \ {v} : w'[u] = w[u]
      BY <3>1 DEF Done, TypeOK, Watcher
    <3>3. FilesNamed'
      BY <3>1, NamedKept DEF Attempts
    <3> QED BY <3>2, <3>3, IdleAttempt, AttemptKept DEF Attempts
  <2> QED BY <2>1, <2>2
<1>7. (HourPasses \/ UNCHANGED inboxVars) => UNCHANGED <<files, w>>
  BY DEF HourPasses, inboxVars, dirs
<1> QED BY <1>1, <1>2, <1>3, <1>4, <1>5, <1>6, <1>7 DEF InboxNext, Poll

\* Before the first file there is no attempt.
LEMMA InitAttempts == InboxInit => Attempts
<1> SUFFICES ASSUME InboxInit
             PROVE  Attempts
  OBVIOUS
<1>1. \A v \in Watchers : w[v].path = <<>> /\ w[v].doc = NoDoc /\ w[v].sent = 0
  BY DEF InboxInit, Off
<1>2. FilesNamed
  BY DEF InboxInit, FilesNamed
<1> QED BY <1>1, <1>2 DEF Attempts, Attempt, Busy

\* What a watcher finishes was handed over, or one of the three things went wrong with it.
LEMMA FinishStored ==
    ASSUME TypeOK, Places, Attempts, NEW v \in Watchers, Finish(v), Here(v) # NoDoc
    PROVE  \/ \A i \in 1..Messages : <<Here(v), i>> \in stored
           \/ proxied \/ Clash(Here(v)) \/ Misread(Here(v))
<1>1. PICK p \in Paths : p = w[v].path
  BY DEF Finish, TypeOK, Watcher, Busy
<1>2. Here(v) \in OfStem(p)
  <2>1. Here(v) \in Docs /\ Has(claimed, Here(v)) /\ StemOf(Here(v)) = p[1]
    BY <1>1, Dirs DEF Here
  <2> QED BY <2>1 DEF OfStem, Places, Apart
<1>3. w[v].sent = Messages /\ Messages # 0 /\ Busy(v)
  BY InboxAssumption DEF Finish
<1>4. CASE w[v].doc = NoDoc
  BY <1>1, <1>2, <1>3, <1>4 DEF Attempts, Attempt
<1>5. CASE w[v].doc # NoDoc
  <2>1. w[v].doc \in OfStem(p) /\ (proxied \/ \A i \in 1..w[v].sent : <<w[v].doc, i>> \in stored)
    BY <1>1, <1>3, <1>5 DEF Attempts, Attempt
  <2>2. w[v].doc # Here(v) => Clash(Here(v))
    BY <1>2, <2>1 DEF OfStem, Clash, StemOf
  <2> QED BY <1>3, <2>1, <2>2
<1> QED BY <1>4, <1>5

\* A file in processed/ has had every message handed over, unless the HTTP ingest swallowed
\* an error, recovery gave a .jsonl file the extension .json, or another file shared its stem:
\* these are the only three ways, for any number of watchers and crashes.
THEOREM ProcessedIsStored == InboxSpec => []ProcessedMeansStored
<1> DEFINE Inv == Attempts /\ ProcessedMeansStored
<1>1. InboxInit => Inv
  BY InitAttempts DEF InboxInit, ProcessedMeansStored
<1>2. Placed /\ Inv /\ [InboxNext]_inboxVars => Inv'
  <2> SUFFICES ASSUME TypeOK, Places, Attempts, ProcessedMeansStored, [InboxNext]_inboxVars
               PROVE  ProcessedMeansStored'
    BY AttemptsNext DEF Placed
  <2> DEFINE Excused(d) == \/ \A i \in 1..Messages : <<d, i>> \in stored
                           \/ proxied \/ Clash(d) \/ Misread(d)
  <2>1. ASSUME NEW d, Excused(d)
        PROVE  Excused(d)'
    BY <2>1, NamesStay, Grows
  <2>2. ASSUME NEW d \in processed', d \notin processed
        PROVE  Excused(d)
    <3>1. PICK v \in Watchers : Finish(v) /\ ~Fail(v)
      BY <2>2 DEF InboxNext, Poll, inboxVars, dirs, Drop, HourPasses, Start, Stop, Recover,
                  BeginPolling, Claim, Load, Ingest, IngestFails, Post, Finish, Fail
    <3>2. d = Here(v) /\ Here(v) # NoDoc
      BY <2>2, <3>1 DEF Finish
    <3> QED BY <3>1, <3>2, FinishStored
  <2>3. \A d \in processed : Excused(d)
    BY DEF ProcessedMeansStored, Misread
  <2>4. \A d \in processed' : Excused(d)'
    BY <2>1, <2>2, <2>3
  <2> QED BY <2>4 DEF ProcessedMeansStored, Misread
<1>3. Inv => ProcessedMeansStored
  OBVIOUS
<1> QED BY <1>1, <1>2, <1>3, FilesArePlaced, PTL DEF InboxSpec

-----------------------------------------------------------------------------
(* The count of the attempts.                                              *)

\* There is one watcher only.
Solo == \A u, v \in Watchers : u = v

\* No other file and no other watcher can meddle with the attempts at the document.
Alone(d) == ~Clash(d) /\ (d \in recovered => Solo)

\* The watchers at work on stem s.
At(s) == {v \in Watchers : Busy(v) /\ w[v].path[1] = s}

\* One watcher at most is at the document, and has it.
Held(d) == \A u, v \in At(StemOf(d)) : u = v /\ claimed[StemOf(d)] = d

\* No watcher counts more failures under a name of its stem than there were at it.
NotOvercounted(d) ==
    \A v \in Watchers, p \in Paths : p[1] = StemOf(d) => retries[v][p] <= errors[d]

\* A count belongs to a document, and a document alone at its stem is not overcounted.
Tries ==
    /\ \A v \in Watchers, p \in Paths : retries[v][p] # 0 => OfStem(p) # {}
    /\ \A d \in dropped : Alone(d) => Held(d) /\ NotOvercounted(d)

\* What a step may do to the counts and claims of a stem it is not about.
Untouched(s) ==
    /\ claimed'[s] = claimed[s] /\ At(s)' \subseteq At(s)
    /\ \A v \in Watchers, p \in Paths :
          p[1] = s => (retries'[v][p] = retries[v][p] \/ retries'[v][p] = 0)

\* A document that is alone now always was.
LEMMA AloneBefore ==
    ASSUME TypeOK, [InboxNext]_inboxVars, NEW d, Alone(d)'
    PROVE  Alone(d)
<1>1. Clash(d) => Clash(d)'
  BY NamesStay
<1>2. recovered \subseteq recovered' /\ (Solo <=> Solo')
  BY Grows DEF Solo
<1> QED BY <1>1, <1>2 DEF Alone

\* A step about another stem changes no count of this one.
LEMMA UntouchedTries ==
    ASSUME TypeOK, Tries, [InboxNext]_inboxVars, NEW d \in dropped, Alone(d), Untouched(StemOf(d))
    PROVE  Held(d)' /\ NotOvercounted(d)'
<1>1. StemOf(d)' = StemOf(d) /\ errors[d] <= errors'[d] /\ Held(d) /\ NotOvercounted(d)
  BY NamesStay, Grows DEF Tries, TypeOK
<1>2. \A v \in Watchers, p \in Paths : retries[v][p] \in Nat
  BY DEF TypeOK
<1>3. errors[d] \in Nat /\ errors'[d] \in Nat
  <2>1. d \in Docs /\ (errors' = errors \/ \E v \in Watchers : Fail(v))
    BY DEF TypeOK, InboxNext, Poll, inboxVars, Drop, HourPasses, Start, Stop, Recover, BeginPolling,
           Claim, Load, Ingest, IngestFails, Post, Finish
  <2>2. errors[d] \in 0.._MAX_RETRIES /\ \A n \in Nat : More(n) \in Nat
    BY <2>1, InboxAssumption DEF TypeOK, More
  <2>3. errors[d] \in Nat
    BY <2>2, InboxAssumption
  <2>4. ASSUME NEW v \in Watchers, Fail(v)
        PROVE  errors'[d] \in Nat
    <3>1. errors' = [errors EXCEPT ![Here(v)] = More(errors[Here(v)])] \/ errors' = errors
      BY <2>4 DEF Fail
    <3> QED BY <2>1, <2>2, <2>3, <3>1 DEF TypeOK
  <2> QED BY <2>1, <2>3, <2>4
<1>4. Held(d)'
  BY <1>1 DEF Held, Untouched
<1>5. NotOvercounted(d)'
  <2> SUFFICES ASSUME NEW v \in Watchers, NEW p \in Paths, p[1] = StemOf(d)
               PROVE  retries'[v][p] <= errors'[d]
    BY <1>1 DEF NotOvercounted
  <2>1. retries[v][p] <= errors[d] /\ (retries'[v][p] = retries[v][p] \/ retries'[v][p] = 0)
    BY <1>1 DEF NotOvercounted, Untouched
  <2> QED BY <1>1, <1>2, <1>3, <2>1
<1> QED BY <1>4, <1>5

\* The document of a stem with one document.
LEMMA OneOfStem ==
    ASSUME TypeOK, Places, NEW d \in dropped, Alone(d)
    PROVE  /\ claimed[StemOf(d)] # NoDoc => claimed[StemOf(d)] = d
           /\ \A p \in Paths : (p[1] = StemOf(d) /\ files[p] # NoDoc) => files[p] = d
           /\ StemOf(d) \in Stems
<1>1. StemOf(d) \in Stems /\ d \in Docs
  BY DEF TypeOK, Forms, StemOf
<1>2. \A e \in dropped : StemOf(e) = StemOf(d) => e = d
  BY DEF Alone, Clash, StemOf
<1>3. claimed[StemOf(d)] # NoDoc => claimed[StemOf(d)] \in dropped
  BY <1>1, Dirs DEF Places, Apart
<1>4. \A p \in Paths : files[p] # NoDoc => files[p] \in dropped
  BY Dirs DEF Places, Apart
<1> QED BY <1>1, <1>2, <1>3, <1>4, Dirs

\* A recovery, a claim, and a failed or finished attempt, for the document of their stem.
LEMMA RecoverTries ==
    ASSUME TypeOK, Places, Attempts, Tries, [InboxNext]_inboxVars,
           NEW v \in Watchers, Recover(v), NEW d \in dropped, Alone(d)'
    PROVE  Held(d)' /\ NotOvercounted(d)'
<1>0. Alone(d)
  BY AloneBefore
<1>1. PICK s \in w[v].orphans :
         /\ w' = [w EXCEPT ![v].orphans = @ \ {s}]
         /\ IF claimed[s] \in aged
              THEN /\ claimed'   = [claimed EXCEPT ![s] = NoDoc]
                   /\ recovered' = recovered \cup {claimed[s]}
              ELSE UNCHANGED <<claimed, recovered>>
  BY DEF Recover
<1>2. s \in Stems /\ retries' = retries /\ \A u \in Watchers : w'[u].path = w[u].path
  BY <1>1 DEF Recover, TypeOK, Watcher
<1>3. At(StemOf(d))' = At(StemOf(d)) /\ StemOf(d)' = StemOf(d)
  <2>1. StemOf(d)' = StemOf(d)
    BY NamesStay
  <2> QED BY <1>2, <2>1 DEF At, Busy
<1>4. CASE claimed'[StemOf(d)] = claimed[StemOf(d)]
  <2>1. Untouched(StemOf(d))
    BY <1>2, <1>3, <1>4 DEF Untouched
  <2> QED BY <1>0, <2>1, UntouchedTries
<1>5. CASE claimed'[StemOf(d)] # claimed[StemOf(d)]
  <2>1. s = StemOf(d) /\ claimed[s] \in aged /\ recovered' = recovered \cup {claimed[s]}
    BY <1>1, <1>5, OneOfStem, <1>0 DEF TypeOK
  <2>2. claimed[s] # NoDoc
    BY <2>1, InboxAssumption DEF TypeOK
  <2>3. claimed[s] = d
    BY <1>0, <2>1, <2>2, OneOfStem
  <2>4. Solo
    BY <2>1, <2>3 DEF Alone, Solo
  <2>5. ~Busy(v)
    BY DEF Recover, Attempts, Attempt
  <2>6. At(StemOf(d)) = {}
    BY <2>4, <2>5 DEF At, Solo
  <2>7. Held(d)'
    BY <1>3, <2>6 DEF Held
  <2>8. NotOvercounted(d)'
    BY <1>0, <1>2, <1>3 DEF Tries, NotOvercounted, Recover
  <2> QED BY <2>7, <2>8
<1> QED BY <1>4, <1>5

\* A claim takes the only file of its stem.
LEMMA ClaimTries ==
    ASSUME TypeOK, Places, Attempts, Tries, [InboxNext]_inboxVars,
           NEW v \in Watchers, Claim(v), NEW d \in dropped, Alone(d)
    PROVE  Held(d)' /\ NotOvercounted(d)'
<1>1. PICK p \in Paths :
         /\ files[p] # NoDoc
         /\ w' = [w EXCEPT ![v].path = p]
         /\ claimed' = [claimed EXCEPT ![p[1]] = files[p]]
  BY DEF Claim
<1>2. /\ UNCHANGED <<retries, errors>> /\ StemOf(d)' = StemOf(d)
      /\ w'[v].path = p /\ \A u \in Watchers \ {v} : w'[u] = w[u]
  BY <1>1, NamesStay DEF Claim, TypeOK, Watcher
<1>3. At(StemOf(d))' \subseteq At(StemOf(d)) \cup {v} /\ (p[1] # StemOf(d) => v \notin At(StemOf(d))')
  BY <1>2 DEF At, Busy
<1>4. CASE p[1] # StemOf(d)
  <2>1. claimed'[StemOf(d)] = claimed[StemOf(d)]
    BY <1>1, <1>4, OneOfStem DEF TypeOK
  <2>2. At(StemOf(d))' \subseteq At(StemOf(d))
    BY <1>3, <1>4
  <2>3. Untouched(StemOf(d))
    BY <1>2, <2>1, <2>2 DEF Untouched
  <2> QED BY <2>3, UntouchedTries
<1>5. CASE p[1] = StemOf(d)
  <2>1. files[p] = d /\ d \in Docs
    BY <1>1, <1>5, OneOfStem, Dirs
  <2>2. claimed[StemOf(d)] # d
    <3>1. Has(files, d) /\ ~Has(claimed, d)
      BY <1>1, <2>1, Dirs DEF Places, Apart
    <3> QED BY <3>1, OneOfStem, Dirs DEF Has, Directory
  <2>3. At(StemOf(d)) = {}
    BY <2>2 DEF Tries, Held
  <2>4. claimed'[StemOf(d)] = d
    BY <1>1, <1>5, <2>1, OneOfStem DEF TypeOK
  <2>5. Held(d)'
    BY <1>2, <1>3, <2>3, <2>4 DEF Held
  <2>6. NotOvercounted(d)'
    BY <1>2 DEF Tries, NotOvercounted
  <2> QED BY <2>5, <2>6
<1> QED BY <1>4, <1>5

\* A failed attempt at a document that is alone is counted for it.
LEMMA FailTries ==
    ASSUME TypeOK, Places, Attempts, Tries, [InboxNext]_inboxVars,
           NEW v \in Watchers, Busy(v), Fail(v), NEW d \in dropped, Alone(d)
    PROVE  Held(d)' /\ NotOvercounted(d)'
<1>1. PICK p \in Paths : p = w[v].path
  BY DEF TypeOK, Watcher, Busy
<1>2. /\ claimed' = [claimed EXCEPT ![p[1]] = NoDoc]
      /\ retries' = [retries EXCEPT ![v][p] = Count(Failures(v, p))]
      /\ w'[v].path = <<>> /\ \A u \in Watchers \ {v} : w'[u] = w[u]
  BY <1>1 DEF Fail, Done, TypeOK, Watcher
<1>3. StemOf(d)' = StemOf(d) /\ d \in Docs /\ StemOf(d) \in Stems
  BY NamesStay, OneOfStem DEF TypeOK
<1>4. At(StemOf(d))' \subseteq At(StemOf(d)) \ {v}
  BY <1>2, <1>3 DEF At, Busy
<1>5. CASE p[1] # StemOf(d)
  <2>1. claimed'[StemOf(d)] = claimed[StemOf(d)]
    BY <1>2, <1>3, <1>5 DEF TypeOK
  <2>2. \A u \in Watchers, q \in Paths : q[1] = StemOf(d) => retries'[u][q] = retries[u][q]
    BY <1>2, <1>5 DEF TypeOK
  <2>3. Untouched(StemOf(d))
    BY <1>4, <2>1, <2>2 DEF Untouched
  <2> QED BY <2>3, UntouchedTries
<1>6. CASE p[1] = StemOf(d)
  <2>1. v \in At(StemOf(d))
    BY <1>1, <1>6 DEF At
  <2>2. Here(v) = d /\ At(StemOf(d)) = {v}
    BY <1>1, <1>6, <2>1 DEF Tries, Held, Here
  <2>3. Held(d)'
    BY <1>3, <1>4, <2>2 DEF Held
  <2>4. errors'[d] = More(errors[d])
    BY <1>3, <2>2, InboxAssumption DEF Fail, TypeOK
  <2>5. \A u \in Watchers, q \in Paths : q[1] = StemOf(d) =>
           retries[u][q] <= errors[d] /\ retries[u][q] \in Nat
    BY DEF Tries, NotOvercounted, TypeOK
  <2>6. errors[d] \in 0.._MAX_RETRIES /\ _MAX_RETRIES \in Nat
    BY <1>3, InboxAssumption DEF TypeOK
  <2>7. Count(Failures(v, p)) <= errors'[d]
    BY <1>6, <2>4, <2>5, <2>6 DEF Count, Failures, LastTry, More
  <2>8. \A u \in Watchers, q \in Paths : q[1] = StemOf(d) => retries'[u][q] <= errors'[d]
    <3>1. errors[d] <= errors'[d]
      BY <2>4, <2>6 DEF More
    <3>2. errors'[d] \in Nat
      BY <2>4, <2>6 DEF More
    <3>3. \A u \in Watchers, q \in Paths :
             retries'[u][q] = Count(Failures(v, p)) \/ retries'[u][q] = retries[u][q]
      BY <1>2 DEF TypeOK
    <3> QED BY <2>5, <2>6, <2>7, <3>1, <3>2, <3>3
  <2> QED BY <1>3, <2>3, <2>8 DEF NotOvercounted
<1> QED BY <1>5, <1>6

\* Any step keeps the counts of what was dropped before it.
LEMMA TriesKept ==
    ASSUME TypeOK, Places, Attempts, Tries, [InboxNext]_inboxVars, NEW d \in dropped, Alone(d)'
    PROVE  Held(d)' /\ NotOvercounted(d)'
<1>0. Alone(d) /\ StemOf(d)' = StemOf(d) /\ StemOf(d) \in Stems
  BY AloneBefore, NamesStay, OneOfStem
<1>1. ASSUME claimed' = claimed, \A u \in Watchers : w'[u].path = w[u].path \/ w'[u].path = <<>>,
             \A u \in Watchers : retries'[u] = retries[u] \/ retries'[u] = NoRetries
      PROVE  Held(d)' /\ NotOvercounted(d)'
  <2>1. At(StemOf(d))' \subseteq At(StemOf(d))
    BY <1>0, <1>1 DEF At, Busy
  <2>2. Untouched(StemOf(d))
    BY <1>1, <2>1 DEF Untouched, NoRetries
  <2> QED BY <1>0, <2>2, UntouchedTries
<1>2. ASSUME NEW e \in Docs, Drop(e)
      PROVE  Held(d)' /\ NotOvercounted(d)'
  BY <1>1, <1>2 DEF Drop
<1>3. CASE HourPasses \/ UNCHANGED inboxVars
  BY <1>1, <1>3 DEF HourPasses, inboxVars, dirs
<1>4. ASSUME NEW v \in Watchers, Start(v)
      PROVE  Held(d)' /\ NotOvercounted(d)'
  BY <1>1, <1>4 DEF Start, Off, dirs, TypeOK, Watcher
<1>5. ASSUME NEW v \in Watchers, Stop(v)
      PROVE  Held(d)' /\ NotOvercounted(d)'
  BY <1>1, <1>5 DEF Stop, Off, dirs, TypeOK, Watcher
<1>6. ASSUME NEW v \in Watchers, BeginPolling(v) \/ Ingest(v) \/ Post(v) \/ (Load(v) /\ ~Fail(v))
      PROVE  Held(d)' /\ NotOvercounted(d)'
  <2>1. UNCHANGED <<claimed, retries>>
    BY <1>6 DEF BeginPolling, Ingest, Post, Load, dirs
  <2>2. \A u \in Watchers : w'[u].path = w[u].path
    <3>1. CASE BeginPolling(v)
      BY <3>1 DEF BeginPolling, TypeOK, Watcher
    <3>2. CASE Ingest(v)
      BY <3>2 DEF Ingest, TypeOK, Watcher
    <3>3. CASE Post(v)
      BY <3>3 DEF Post, TypeOK, Watcher
    <3>4. CASE Load(v) /\ ~Fail(v)
      <4>1. w' = [w EXCEPT ![v].doc = Here(v)] \/ w' = [w EXCEPT ![v].sent = Messages]
        BY <3>4 DEF Load
      <4>2. \A u \in Watchers : w[u] \in Watcher
        BY DEF TypeOK
      <4>3. CASE w' = [w EXCEPT ![v].doc = Here(v)]
        BY <4>2, <4>3 DEF TypeOK, Watcher
      <4>4. CASE w' = [w EXCEPT ![v].sent = Messages]
        BY <4>2, <4>4 DEF TypeOK, Watcher
      <4> QED BY <4>1, <4>3, <4>4
    <3> QED BY <1>6, <3>1, <3>2, <3>3, <3>4
  <2> QED BY <1>1, <2>1, <2>2
<1>7. ASSUME NEW v \in Watchers, IngestFails(v) \/ (Load(v) /\ Fail(v)) \/ (Finish(v) /\ Fail(v))
      PROVE  Held(d)' /\ NotOvercounted(d)'
  BY <1>0, <1>7, FailTries DEF IngestFails, Load, Finish
<1>8. ASSUME NEW v \in Watchers, Finish(v), ~Fail(v)
      PROVE  Held(d)' /\ NotOvercounted(d)'
  <2>1. PICK p \in Paths : p = w[v].path
    BY <1>8 DEF Finish, Busy, TypeOK, Watcher
  <2>2. /\ claimed' = [claimed EXCEPT ![p[1]] = NoDoc]
        /\ retries' = [retries EXCEPT ![v][p] = 0]
        /\ w' = Done(v)
    BY <1>8, <2>1 DEF Finish
  <2>3. w'[v].path = <<>> /\ \A u \in Watchers \ {v} : w'[u] = w[u]
    BY <2>2 DEF Done, TypeOK, Watcher
  <2>4. At(StemOf(d))' \subseteq At(StemOf(d)) \ {v}
    BY <1>0, <2>3 DEF At, Busy
  <2>5. \A u \in Watchers, q \in Paths : retries'[u][q] = retries[u][q] \/ retries'[u][q] = 0
    BY <2>2 DEF TypeOK
  <2>6. CASE p[1] # StemOf(d)
    <3>1. claimed'[StemOf(d)] = claimed[StemOf(d)]
      BY <1>0, <2>2, <2>6 DEF TypeOK
    <3>2. Untouched(StemOf(d))
      BY <2>4, <2>5, <3>1 DEF Untouched
    <3> QED BY <1>0, <3>2, UntouchedTries
  <2>7. CASE p[1] = StemOf(d)
    <3>1. v \in At(StemOf(d))
      BY <1>8, <2>1, <2>7 DEF At, Finish
    <3>2. At(StemOf(d))' = {}
      BY <1>0, <2>4, <3>1 DEF Tries, Held
    <3>3. NotOvercounted(d)'
      <4>1. errors' = errors
        BY <1>8 DEF Finish
      <4>2. \A u \in Watchers, q \in Paths : q[1] = StemOf(d) =>
               retries[u][q] <= errors[d] /\ retries[u][q] \in Nat
        BY <1>0 DEF Tries, NotOvercounted, TypeOK
      <4>3. errors[d] \in Nat
        BY InboxAssumption DEF TypeOK
      <4> QED BY <1>0, <2>5, <4>1, <4>2, <4>3 DEF NotOvercounted
    <3> QED BY <3>2, <3>3 DEF Held
  <2> QED BY <2>6, <2>7
<1>9. ASSUME NEW v \in Watchers, Recover(v) \/ Claim(v)
      PROVE  Held(d)' /\ NotOvercounted(d)'
  BY <1>0, <1>9, RecoverTries, ClaimTries
<1> QED BY <1>2, <1>3, <1>4, <1>5, <1>6, <1>7, <1>8, <1>9 DEF InboxNext, Poll

\* A document that arrives alone has no counts and no watcher at its stem yet.
LEMMA TriesArrive ==
    ASSUME TypeOK, Places, Attempts, Tries, [InboxNext]_inboxVars,
           NEW d \in dropped', d \notin dropped, Alone(d)'
    PROVE  Held(d)' /\ NotOvercounted(d)'
<1>1. Drop(d) /\ d \in Docs
  <2>1. \E e \in Docs : Drop(e)
    <3>1. dropped' # dropped
      OBVIOUS
    <3> QED BY <3>1 DEF InboxNext, Poll, inboxVars, HourPasses, Start, Stop, Recover, BeginPolling,
                Claim, Load, Ingest, IngestFails, Post, Finish, Fail
  <2> QED BY <2>1 DEF Drop
<1>2. UNCHANGED <<form, w, retries, errors, claimed>> /\ d \in Docs /\ dropped' = dropped \cup {d}
  BY <1>1 DEF Drop
<1>3. \A p \in Paths : p[1] = StemOf(d) => OfStem(p) = {}
  BY <1>2 DEF Alone, Clash, OfStem, StemOf
<1>4. At(StemOf(d)) = {}
  <2> SUFFICES ASSUME NEW v \in Watchers, Busy(v), w[v].path[1] = StemOf(d)
               PROVE  FALSE
    BY DEF At
  <2>1. w[v].path \in Paths /\ OfStem(w[v].path) # {}
    BY DEF Attempts, Attempt, Busy, TypeOK, Watcher
  <2> QED BY <1>3, <2>1
<1>5. At(StemOf(d))' = {} /\ StemOf(d)' = StemOf(d)
  BY <1>2, <1>4 DEF At, Busy, StemOf
<1>6. Held(d)'
  BY <1>5 DEF Held
<1>7. errors[d] \in Nat
  BY <1>2, InboxAssumption DEF TypeOK
<1>8. \A v \in Watchers, p \in Paths : p[1] = StemOf(d) => retries[v][p] = 0
  BY <1>3 DEF Tries
<1>9. NotOvercounted(d)'
  BY <1>2, <1>5, <1>7, <1>8 DEF NotOvercounted
<1> QED BY <1>6, <1>9

\* The counts are kept by every step.
LEMMA TriesNext ==
    ASSUME TypeOK, Places, Attempts, Tries, [InboxNext]_inboxVars
    PROVE  Tries'
<1>1. ASSUME NEW v \in Watchers, NEW p \in Paths, retries'[v][p] # 0
      PROVE  OfStem(p)' # {}
  <2>1. retries[v][p] # 0 \/ OfStem(p) # {}
    <3>1. CASE UNCHANGED retries
      BY <1>1, <3>1
    <3>2. ASSUME NEW u \in Watchers, Busy(u), Fail(u)
          PROVE  retries[v][p] # 0 \/ OfStem(p) # {}
      <4>1. PICK q \in Paths : q = w[u].path
        BY <3>2 DEF TypeOK, Watcher, Busy
      <4>2. OfStem(q) # {}
        BY <3>2, <4>1 DEF Attempts, Attempt
      <4>3. retries' = [retries EXCEPT ![u][q] = Count(Failures(u, q))]
        BY <3>2, <4>1 DEF Fail
      <4> QED BY <1>1, <4>2, <4>3 DEF TypeOK
    <3>3. ASSUME NEW u \in Watchers, Stop(u) \/ (Finish(u) /\ ~Fail(u))
          PROVE  retries[v][p] # 0
      <4>1. CASE Stop(u)
        BY <1>1, <4>1 DEF Stop, NoRetries, TypeOK
      <4>2. CASE Finish(u) /\ ~Fail(u)
        <5>1. PICK q \in Paths : q = w[u].path
          BY <4>2 DEF Finish, Busy, TypeOK, Watcher
        <5>2. retries' = [retries EXCEPT ![u][q] = 0]
          BY <4>2, <5>1 DEF Finish
        <5> QED BY <1>1, <5>2 DEF TypeOK
      <4> QED BY <3>3, <4>1, <4>2
    <3> QED BY <3>1, <3>2, <3>3 DEF InboxNext, Poll, inboxVars, Drop, HourPasses, Start, Recover,
             BeginPolling, Claim, Load, Ingest, IngestFails, Post, Finish
  <2>2. OfStem(p) # {}
    BY <2>1 DEF Tries
  <2> QED BY <2>2, NewcomersClash
<1>2. ASSUME NEW d \in dropped', Alone(d)'
      PROVE  Held(d)' /\ NotOvercounted(d)'
  BY <1>2, TriesKept, TriesArrive
<1> QED BY <1>1, <1>2 DEF Tries

\* More than one watcher.
LEMMA NotSolo == ~Solo => Cardinality(Watchers) > 1
<1> SUFFICES ASSUME NEW u \in Watchers, NEW v \in Watchers, u # v
             PROVE  Cardinality(Watchers) > 1
  BY DEF Solo
<1>1. IsFiniteSet({u}) /\ Cardinality({u}) = 1
  BY FS_Singleton
<1>2. IsFiniteSet({u} \cup {v}) /\ Cardinality({u} \cup {v}) = Cardinality({u}) + 1
  BY <1>1, FS_AddElement
<1>3. {u} \cup {v} \subseteq Watchers /\ IsFiniteSet(Watchers)
  BY InboxAssumption
<1>4. Cardinality({u} \cup {v}) <= Cardinality(Watchers) /\ Cardinality(Watchers) \in Nat
  BY <1>3, FS_Subset, FS_CardinalityType
<1> QED BY <1>1, <1>2, <1>4

\* What is given up now was tried _MAX_RETRIES times, if nothing could meddle with it.
LEMMA GivenUpTried ==
    ASSUME TypeOK, Places, Attempts, Tries, [InboxNext]_inboxVars, NEW p \in Paths,
           failed'[p] # failed[p]
    PROVE  /\ failed'[p] \in dropped
           /\ Alone(failed'[p]) => errors'[failed'[p]] >= _MAX_RETRIES
<1>1. PICK v \in Watchers : Fail(v) /\ Busy(v)
  BY DEF InboxNext, Poll, inboxVars, dirs, Drop, HourPasses, Start, Stop, Recover, BeginPolling,
         Claim, Load, Ingest, IngestFails, Post, Finish
<1>2. PICK q \in Paths : q = w[v].path
  BY <1>1 DEF TypeOK, Watcher, Busy
<1>3. q = p /\ failed'[p] = Here(v) /\ Here(v) # NoDoc /\ LastTry(Failures(v, p))
  BY <1>1, <1>2 DEF Fail, TypeOK
<1>4. PICK d \in Docs : d = Here(v)
  BY <1>2, <1>3, Dirs DEF Here
<1>5. d \in dropped /\ StemOf(d) = p[1]
  <2>1. Has(claimed, d) /\ StemOf(d) = p[1]
    BY <1>2, <1>3, <1>4, Dirs DEF Here
  <2> QED BY <2>1 DEF Places, Apart
<1>6. ASSUME Alone(d)
      PROVE  errors'[d] >= _MAX_RETRIES
  <2>1. retries[v][p] <= errors[d] /\ retries[v][p] \in Nat
    BY <1>5, <1>6 DEF Tries, NotOvercounted, TypeOK
  <2>2. errors'[d] = More(errors[d])
    BY <1>1, <1>3, <1>4 DEF Fail, TypeOK
  <2>3. errors[d] \in 0.._MAX_RETRIES /\ _MAX_RETRIES \in Nat
    BY InboxAssumption DEF TypeOK
  <2> QED BY <1>3, <2>1, <2>2, <2>3 DEF LastTry, Failures, More
<1> QED BY <1>3, <1>4, <1>5, <1>6

\* A file is given up only after _MAX_RETRIES failed attempts at it, unless another file
\* shared its stem or a second watcher's recovery took it away: there is no fourth way.
THEOREM GivenUpIsTried == InboxSpec => []GivenUpAfterRetries
<1> DEFINE Inv == Attempts /\ Tries /\ GivenUpAfterRetries
           Excused(d) == \/ errors[d] >= _MAX_RETRIES
                         \/ Clash(d)
                         \/ d \in recovered /\ Cardinality(Watchers) > 1
<1>1. InboxInit => Inv
  <2> SUFFICES ASSUME InboxInit
               PROVE  Tries /\ GivenUpAfterRetries
    BY InitAttempts
  <2>1. \A p \in Paths : failed[p] = NoDoc
    BY DEF InboxInit
  <2>2. dropped = {} /\ \A v \in Watchers, p \in Paths : retries[v][p] = 0
    BY DEF InboxInit, NoRetries
  <2> QED BY <2>1, <2>2 DEF Tries, GivenUpAfterRetries
<1>2. Placed /\ Inv /\ [InboxNext]_inboxVars => Inv'
  <2> SUFFICES ASSUME TypeOK, Places, Attempts, Tries, GivenUpAfterRetries, [InboxNext]_inboxVars
               PROVE  GivenUpAfterRetries'
    BY AttemptsNext, TriesNext DEF Placed
  <2>1. ASSUME NEW d \in Docs, Excused(d)
        PROVE  Excused(d)'
    <3>1. errors[d] <= errors'[d] /\ (Clash(d) => Clash(d)') /\ recovered \subseteq recovered'
      BY Grows, NamesStay
    <3>2. errors[d] \in 0.._MAX_RETRIES /\ errors'[d] \in 0.._MAX_RETRIES /\ _MAX_RETRIES \in Nat
      BY TypeNext, InboxAssumption DEF TypeOK
    <3>3. errors[d] >= _MAX_RETRIES => errors'[d] >= _MAX_RETRIES
      BY <3>1, <3>2
    <3> QED BY <2>1, <3>1, <3>3
  <2>2. ASSUME NEW p \in Paths, NEW d, d = failed'[p], d # NoDoc
        PROVE  Excused(d)'
    <3>1. CASE failed'[p] = failed[p]
      <4>1. Excused(d) /\ d \in Docs
        BY <2>2, <3>1, Dirs DEF GivenUpAfterRetries
      <4> QED BY <2>1, <4>1
    <3>2. CASE failed'[p] # failed[p]
      <4>1. d \in dropped /\ d \in Docs /\ (Alone(d) => errors'[d] >= _MAX_RETRIES)
        BY <2>2, <3>2, GivenUpTried DEF TypeOK
      <4>2. ~Alone(d) => Excused(d)
        BY NotSolo DEF Alone
      <4> QED BY <2>1, <4>1, <4>2
    <3> QED BY <3>1, <3>2
  <2> QED BY <2>2 DEF GivenUpAfterRetries
<1>3. Inv => GivenUpAfterRetries
  OBVIOUS
<1> QED BY <1>1, <1>2, <1>3, FilesArePlaced, PTL DEF InboxSpec

-----------------------------------------------------------------------------
(* The session watcher.  A line that was handed over lies before the       *)
(* position its file is read from, although the file may by then have      *)
(* another name and its position still be kept under the old one.          *)

\* What SessionAssumption says, with Lines and Untracked spelled out.
LEMMA SessionFacts == <<>> \notin Files /\ MaxLines \in Nat /\ Lines = 1..MaxLines /\ Untracked = -1
BY SessionAssumption DEF Lines, Untracked

\* What positions, events and readers look like.
WatchTypes ==
    /\ disk \in [Files -> [there : BOOLEAN, half : Seq(Lines)]] /\ lines \in 0..MaxLines
    /\ positions \in [Files -> Nat \cup {Untracked}] /\ saved \in [Files -> Nat \cup {Untracked}]
    /\ events \in Seq({"created", "modified", "moved"} \X Files \X Files)
    /\ reading \in [Threads -> [file : Files \cup {<<>>}, from : Nat, early : BOOLEAN]]
    /\ \A t \in Threads : reading[t].file = <<>> => reading[t] = Free
    /\ captured \in [Lines -> Nat] /\ running \in BOOLEAN
    /\ unheard \subseteq Files /\ cut \subseteq Files

\* A path that is not there holds nothing; the only torn line of a file is its last.
FileShape(f) ==
    /\ ~disk[f].there => disk[f].half = <<>>
    /\ \A i \in 1..Size(f) : disk[f].half[i] <= lines
    /\ \A i \in 1..Size(f) : \/ disk[f].half[i] = disk[f].half[Size(f)]
                             \/ disk[f].half[i] \in WholeLines(disk[f].half)

\* A line is in one file only, and one that was handed over is whole.
LinesApart ==
    /\ \A f, g \in Files : \A i \in 1..Size(f), j \in 1..Size(g) :
          disk[f].half[i] = disk[g].half[j] => f = g
    /\ \A f \in Files : \A i \in 1..Size(f) :
          captured[disk[f].half[i]] > 0 => disk[f].half[i] \in WholeLines(disk[f].half)
    /\ \A l \in Lines : l > lines => captured[l] = 0

\* The event announces a path; a path was renamed to another; a path is announced; it is a new file.
Announces(k, f) == events[k][1] # "modified" /\ events[k][3] = f
MovedTo(a, b)   == \E k \in DOMAIN events : events[k] = <<"moved", a, b>>
Announced(f)    == \E k \in DOMAIN events : Announces(k, f)
Created(f)      == \E k \in DOMAIN events : Announces(k, f) /\ events[k][1] = "created"

\* A path is announced once, and renamed away once.
Queue ==
    /\ ~running => events = <<>> /\ \A t \in Threads : reading[t] = Free
    /\ \A k \in DOMAIN events :
          /\ events[k][1] # "modified" => events[k][3] \in unheard
          /\ events[k][1] = "moved" =>
                events[k][2] # events[k][3] /\ events[k][2] \in cut /\ ~disk[events[k][2]].there
    /\ \A j, k \in DOMAIN events :
          /\ events[j][1] # "modified" /\ events[k][1] # "modified" /\ events[j][3] = events[k][3] => j = k
          /\ events[j][1] = "moved" /\ events[k][1] = "moved" /\ events[j][2] = events[k][2] => j = k

\* A name that has not been used is known nowhere.
Fresh(g) ==
    /\ positions[g] = Untracked /\ saved[g] = Untracked
    /\ \A k \in DOMAIN events : events[k][2] # g /\ events[k][3] # g
    /\ \A t \in Threads : reading[t].file # g

\* Types, the shape of the files, and what queue and threads may hold.
WatchInv ==
    /\ WatchTypes /\ (\A f \in Files : FileShape(f)) /\ LinesApart /\ Queue
    /\ \A g \in Files \ cut : disk[g].there \/ Fresh(g)
    /\ \A t, u \in Threads : reading[t].file = reading[u].file /\ reading[t].file # <<>> => t = u

\* The paths h[a] that hold what the position of a is about, now or when the events are handled.
Heirs(h) ==
    /\ h \in [Files -> SUBSET Files]
    /\ \A a \in Files : a \in h[a]
    /\ \A a, b \in Files : MovedTo(a, b) => h[b] \subseteq h[a]

\* The line may not be handed over again.
Over(l)    == captured[l] > 0 /\ l \notin raced

\* Nothing of the file may not be handed over again.
NoneOver(f) == \A i \in 1..Size(f) : ~Over(disk[f].half[i])

\* What must not be handed over again lies before position p.
Behind(f, p) == \A i \in 1..Size(f) : Over(disk[f].half[i]) => p <= Size(f) /\ i <= p

\* A position that is heard of has everything over before it, in each file it may come to be about.
Ahead(h) ==
    running => \A a \in Files : \A f \in h[a] :
        /\ a \notin unheard => Behind(f, positions[a])
        /\ Created(a) => NoneOver(f)

\* A position under a name that is heard of, or will be, is usable.
Usable(f) ==
    /\ f \notin unheard \/ Announced(f) => saved[f] = Untracked \/ Behind(f, saved[f])
    /\ Announced(f) => positions[f] = Untracked \/ Behind(f, positions[f])

\* A thread that reads begins behind what is over, or did not know the path.
Reader(t) ==
    LET f == reading[t].file IN
    f # <<>> /\ disk[f].there =>
        /\ reading[t].from <= Size(f) \/ NoneOver(f)
        /\ ~reading[t].early => f \notin unheard /\ Behind(f, reading[t].from)

\* The inductive invariant of CapturedOnce, next to WatchInv.
OnceInv ==
    /\ CapturedOnce
    /\ \E h \in [Files -> SUBSET Files] : Heirs(h) /\ Ahead(h)
    /\ \A f \in Files : Usable(f)
    /\ \A t \in Threads : Reader(t)

\* The whole lines before p are accounted for.
Accounted(f, p) ==
    /\ p <= Size(f)
    /\ \A i \in 1..(p - 1) : disk[f].half[i] = disk[f].half[i + 1]
                               => disk[f].half[i] \in ingested \cup missed \cup UNION ingests

\* The inductive invariant of PassedIsIngested: positions, saved positions and readers.
PassedInv ==
    /\ \E h \in [Files -> SUBSET Files] :
          Heirs(h) /\ \A a \in Files : \A f \in h[a] \ cut : running => Accounted(f, positions[a])
    /\ \A f \in Files \ cut : Accounted(f, saved[f])
    /\ \A t \in Threads : reading[t].file \in Files \ cut => Accounted(reading[t].file, reading[t].from)

-----------------------------------------------------------------------------
(* The files: what writes, renames and truncations do to them.             *)

\* A file only grows at its end, by lines that were not handed over yet.
Longer(f) ==
    /\ disk' \in [Files -> [there : BOOLEAN, half : Seq(Lines)]] /\ disk'[f].there
    /\ \A g \in Files \ {f} : disk'[g] = disk[g]
    /\ Size(f) <= Size(f)' /\ \A i \in 1..Size(f) : disk'[f].half[i] = disk[f].half[i]
    /\ \A i \in 1..Size(f)' : i > Size(f) => captured[disk'[f].half[i]] = 0

\* The second half of a torn line.
LEMMA WriteHalf ==
    ASSUME WatchInv, NEW f \in Files, TornLines(disk[f].half) # {},
           disk' = [disk EXCEPT ![f].half = Append(disk[f].half, disk[f].half[Len(disk[f].half)])],
           UNCHANGED <<lines, captured>>
    PROVE  Longer(f) /\ lines' \in 0..MaxLines /\ LinesApart' /\ FileShape(f)'
<1>1. PICK s \in Seq(Lines) : s = disk[f].half
  BY DEF WatchInv, WatchTypes
<1>2. disk[f].there /\ disk[f].there \in BOOLEAN
  BY <1>1 DEF WatchInv, WatchTypes, FileShape, TornLines, LinesOf, Size
<1>3. Len(s) \in Nat /\ Len(s) >= 1 /\ s[Len(s)] \in Lines /\ s[Len(s)] \notin WholeLines(s)
  <2>1. PICK i \in 1..Len(s) : s[i] \notin WholeLines(s)
    BY <1>1 DEF TornLines, LinesOf
  <2>2. s[i] = s[Len(s)]
    BY <1>1, <2>1 DEF WatchInv, FileShape, Size
  <2> QED BY <2>1, <2>2
<1>4. PICK x \in Lines : x = s[Len(s)]
  BY <1>3
<1>a. Append(s, x) \in Seq(Lines)
  OBVIOUS
<1>5. PICK s2 \in Seq(Lines) : s2 = Append(s, x)
  BY <1>a
<1>6. /\ Len(s2) = Len(s) + 1 /\ s2[Len(s2)] = x /\ s2[Len(s)] = x
      /\ \A i \in 1..Len(s) : s2[i] = s[i]
  BY <1>3, <1>4, <1>5
<1>7. disk' = [disk EXCEPT ![f].half = s2]
  BY <1>1, <1>4, <1>5
<1>8. /\ disk' \in [Files -> [there : BOOLEAN, half : Seq(Lines)]]
      /\ disk'[f].half = s2 /\ disk'[f].there
      /\ \A g \in Files \ {f} : disk'[g] = disk[g]
  <2> DEFINE r == [disk[f] EXCEPT !.half = s2]
  <2>1. disk[f] \in [there : BOOLEAN, half : Seq(Lines)] /\ disk \in [Files -> [there : BOOLEAN, half : Seq(Lines)]]
    BY DEF WatchInv, WatchTypes
  <2>2. r \in [there : BOOLEAN, half : Seq(Lines)] /\ r.half = s2 /\ r.there = disk[f].there
    BY <2>1
  <2>3. disk' = [disk EXCEPT ![f] = r]
    BY <1>7
  <2> QED BY <1>2, <2>1, <2>2, <2>3
<1>9. captured[x] = 0
  <2>1. captured[x] \in Nat
    BY DEF WatchInv, WatchTypes
  <2>2. captured[x] > 0 => x \in WholeLines(s)
    BY <1>1, <1>3, <1>4 DEF WatchInv, LinesApart, Size
  <2> QED BY <1>3, <1>4, <2>1, <2>2
<1>10. Longer(f)
  BY <1>1, <1>3, <1>6, <1>8, <1>9 DEF Longer, Size
<1>11. WholeLines(s) \cup {x} \subseteq WholeLines(s2)
  <2>1. x \in WholeLines(s2)
    BY <1>3, <1>6 DEF WholeLines
  <2>2. ASSUME NEW j \in 1..(Len(s) - 1), s[j] = s[j + 1] PROVE s[j] \in WholeLines(s2)
    BY <1>3, <1>6, <2>2 DEF WholeLines
  <2> QED BY <2>1, <2>2 DEF WholeLines
<1>12. FileShape(f)'
  <2>1. \A i \in 1..Len(s) : s[i] <= lines /\ (s[i] = x \/ s[i] \in WholeLines(s))
    BY <1>1, <1>4 DEF WatchInv, FileShape, Size
  <2>2. ASSUME NEW i \in 1..Len(s2) PROVE s2[i] <= lines /\ s2[i] \in WholeLines(s2)
    <3>1. CASE i = Len(s2)
      BY <1>3, <1>4, <1>6, <1>11, <2>1, <3>1
    <3>2. CASE i \in 1..Len(s)
      BY <1>6, <1>11, <2>1, <3>2
    <3> QED BY <1>3, <1>6, <3>1, <3>2
  <2> QED BY <1>8, <2>2 DEF FileShape, Size
<1>13. LinesApart'
  <2>1. \A i \in 1..Len(s2) : \E j \in 1..Len(s) : s2[i] = s[j]
    BY <1>3, <1>4, <1>6
  <2>2. ASSUME NEW g \in Files, NEW i \in 1..Len(disk'[g].half)
        PROVE  \E j \in 1..Size(g) : disk'[g].half[i] = disk[g].half[j]
    BY <1>1, <1>8, <2>1 DEF Size
  <2>3. \A g, k \in Files : \A i \in 1..Size(g), j \in 1..Size(k) :
          disk[g].half[i] = disk[k].half[j] => g = k
    BY DEF WatchInv, LinesApart
  <2>4. \A g, k \in Files : \A i \in 1..Len(disk'[g].half), j \in 1..Len(disk'[k].half) :
          disk'[g].half[i] = disk'[k].half[j] => g = k
    <3>1. ASSUME NEW g \in Files, NEW k \in Files, NEW i \in 1..Len(disk'[g].half),
                 NEW j \in 1..Len(disk'[k].half), disk'[g].half[i] = disk'[k].half[j]
          PROVE  g = k
      <4>1. PICK m \in 1..Size(g) : disk'[g].half[i] = disk[g].half[m]
        BY <2>2
      <4>2. PICK n \in 1..Size(k) : disk'[k].half[j] = disk[k].half[n]
        BY <2>2
      <4> QED BY <2>3, <3>1, <4>1, <4>2
    <3> QED BY <3>1
  <2>5. ASSUME NEW g \in Files, NEW i \in 1..Len(disk'[g].half), captured[disk'[g].half[i]] > 0
        PROVE  disk'[g].half[i] \in WholeLines(disk'[g].half)
    <3>1. PICK j \in 1..Size(g) : disk'[g].half[i] = disk[g].half[j]
      BY <2>2
    <3>2. disk[g].half[j] \in WholeLines(disk[g].half)
      BY <2>5, <3>1 DEF WatchInv, LinesApart
    <3> QED BY <1>1, <1>8, <1>11, <3>1, <3>2
  <2> QED BY <2>4, <2>5 DEF WatchInv, LinesApart, Size
<1> QED BY <1>10, <1>12, <1>13 DEF WatchInv, WatchTypes

\* A new line, whole or not, goes to a file without a torn one.
LEMMA WriteLine ==
    ASSUME WatchInv, NEW f \in Files, TornLines(disk[f].half) = {}, lines < MaxLines,
           NEW more \in {<<lines + 1>>, <<lines + 1, lines + 1>>},
           disk' = [disk EXCEPT ![f] = [there |-> TRUE, half |-> disk[f].half \o more]],
           lines' = lines + 1, UNCHANGED captured
    PROVE  Longer(f) /\ lines' \in 0..MaxLines /\ LinesApart' /\ FileShape(f)'
<1>1. PICK s \in Seq(Lines) : s = disk[f].half
  BY DEF WatchInv, WatchTypes
<1>2. PICK x \in Lines : x = lines + 1
  BY SessionFacts DEF WatchInv, WatchTypes
<1>3. /\ Len(s) \in Nat /\ more \in Seq(Lines) /\ Len(more) \in {1, 2}
      /\ \A i \in 1..Len(more) : more[i] = x
  <2>1. Len(s) \in Nat
    OBVIOUS
  <2>2. CASE more = <<x>>
    BY <2>1, <2>2
  <2>3. CASE more = <<x, x>>
    BY <2>1, <2>3
  <2> QED BY <1>2, <2>2, <2>3
<1>a. s \o more \in Seq(Lines)
  BY <1>3
<1>4. PICK s2 \in Seq(Lines) : s2 = s \o more
  BY <1>a
<1>5. /\ Len(s2) = Len(s) + Len(more)
      /\ \A i \in 1..Len(s) : s2[i] = s[i]
      /\ \A i \in 1..Len(s2) : i > Len(s) => s2[i] = x
  <2>1. \A i \in 1..Len(s2) : s2[i] = IF i <= Len(s) THEN s[i] ELSE more[i - Len(s)]
    BY <1>3, <1>4
  <2>2. Len(s2) = Len(s) + Len(more)
    BY <1>3, <1>4
  <2> QED BY <1>3, <2>1, <2>2
<1>6. /\ disk' \in [Files -> [there : BOOLEAN, half : Seq(Lines)]]
      /\ disk'[f].half = s2 /\ disk'[f].there
      /\ \A g \in Files \ {f} : disk'[g] = disk[g]
  <2> DEFINE r == [there |-> TRUE, half |-> s2]
  <2>1. disk \in [Files -> [there : BOOLEAN, half : Seq(Lines)]] /\ r \in [there : BOOLEAN, half : Seq(Lines)]
    BY DEF WatchInv, WatchTypes
  <2>2. disk' = [disk EXCEPT ![f] = r]
    BY <1>1, <1>4
  <2>3. r.half = s2 /\ r.there
    OBVIOUS
  <2> HIDE DEF r
  <2> QED BY <2>1, <2>2, <2>3
<1>7. captured[x] = 0 /\ x > lines
  BY <1>2 DEF WatchInv, WatchTypes, LinesApart
<1>8. Longer(f)
  BY <1>1, <1>3, <1>5, <1>6, <1>7 DEF Longer, Size
<1>9. WholeLines(s) \subseteq WholeLines(s2)
  <2>1. ASSUME NEW j \in 1..(Len(s) - 1), s[j] = s[j + 1] PROVE s[j] \in WholeLines(s2)
    BY <1>3, <1>5, <2>1 DEF WholeLines
  <2> QED BY <2>1 DEF WholeLines
<1>10. \A i \in 1..Len(s) : s[i] \in WholeLines(s) /\ s[i] <= lines
  <2>1. \A i \in 1..Len(s) : s[i] <= lines
    BY <1>1 DEF WatchInv, FileShape, Size
  <2>2. \A i \in 1..Len(s) : s[i] \in WholeLines(s)
    BY <1>1 DEF TornLines, LinesOf
  <2> QED BY <2>1, <2>2
<1>11. FileShape(f)'
  <2>1. ASSUME NEW i \in 1..Len(s2)
        PROVE  s2[i] <= lines + 1 /\ (s2[i] = s2[Len(s2)] \/ s2[i] \in WholeLines(s2))
    <3>a. lines \in Nat
      BY DEF WatchInv, WatchTypes
    <3>1. CASE i > Len(s)
      <4>1. s2[i] = x /\ s2[Len(s2)] = x
        BY <1>3, <1>5, <3>1
      <4> QED BY <1>2, <3>a, <4>1
    <3>2. CASE i \in 1..Len(s)
      <4>1. s2[i] = s[i] /\ s[i] \in WholeLines(s) /\ s[i] <= lines /\ s[i] \in Nat
        BY <1>5, <1>10, <3>2, SessionFacts
      <4> QED BY <1>9, <3>a, <4>1
    <3> QED BY <1>3, <1>5, <3>1, <3>2
  <2> QED BY <1>6, <2>1 DEF FileShape, Size
<1>12. \A g \in Files : \A i \in 1..Size(g) : disk[g].half[i] \in Lines /\ disk[g].half[i] <= lines
  <2>1. \A g \in Files : disk[g].half \in Seq(Lines)
    BY DEF WatchInv, WatchTypes
  <2> QED BY <2>1 DEF WatchInv, FileShape, Size
<1>13. ASSUME NEW g \in Files, NEW i \in 1..Len(disk'[g].half)
       PROVE  \/ g = f /\ i > Len(s) /\ disk'[g].half[i] = x
              \/ i \in 1..Size(g) /\ disk'[g].half[i] = disk[g].half[i]
  <2>1. CASE g # f
    BY <1>6, <2>1 DEF Size
  <2>2. CASE g = f
    BY <1>1, <1>3, <1>5, <1>6, <2>2 DEF Size
  <2> QED BY <2>1, <2>2
<1>14. \A g, k \in Files : \A i \in 1..Len(disk'[g].half), j \in 1..Len(disk'[k].half) :
          disk'[g].half[i] = disk'[k].half[j] => g = k
  <2>1. ASSUME NEW g \in Files, NEW k \in Files, NEW i \in 1..Len(disk'[g].half),
               NEW j \in 1..Len(disk'[k].half), disk'[g].half[i] = disk'[k].half[j]
        PROVE  g = k
    <3>1. \/ g = f /\ disk'[g].half[i] = x
          \/ i \in 1..Size(g) /\ disk'[g].half[i] = disk[g].half[i] /\ disk'[g].half[i] <= lines
      BY <1>12, <1>13
    <3>2. \/ k = f /\ disk'[k].half[j] = x
          \/ j \in 1..Size(k) /\ disk'[k].half[j] = disk[k].half[j] /\ disk'[k].half[j] <= lines
      BY <1>12, <1>13
    <3>3. \A m \in 1..Size(g), n \in 1..Size(k) : disk[g].half[m] = disk[k].half[n] => g = k
      BY DEF WatchInv, LinesApart
    <3>4. lines \in Nat /\ x \in Nat /\ x > lines
      BY <1>2, <1>7 DEF WatchInv, WatchTypes
    <3>5. CASE disk'[g].half[i] = x
      <4>1. ~(x <= lines)
        BY <3>4
      <4>2. g = f
        BY <3>1, <3>5, <4>1
      <4>3. k = f
        BY <2>1, <3>2, <3>5, <4>1
      <4> QED BY <4>2, <4>3
    <3>6. CASE disk'[g].half[i] # x
      BY <2>1, <3>1, <3>2, <3>3, <3>6
    <3> QED BY <3>5, <3>6
  <2> QED BY <2>1
<1>15. ASSUME NEW g \in Files, NEW i \in 1..Len(disk'[g].half), captured[disk'[g].half[i]] > 0
       PROVE  disk'[g].half[i] \in WholeLines(disk'[g].half)
  <2>1. i \in 1..Size(g) /\ disk'[g].half[i] = disk[g].half[i]
    BY <1>7, <1>13, <1>15
  <2>2. disk[g].half[i] \in WholeLines(disk[g].half)
    BY <1>15, <2>1 DEF WatchInv, LinesApart
  <2> QED BY <1>1, <1>6, <1>9, <2>1, <2>2
<1>16. LinesApart'
  <2>1. \A l \in Lines : l > lines' => captured'[l] = 0
    BY SessionFacts DEF WatchInv, WatchTypes, LinesApart
  <2> QED BY <1>14, <1>15, <2>1 DEF LinesApart, Size
<1> QED BY <1>8, <1>11, <1>16, <1>2, SessionFacts DEF WatchInv, WatchTypes

\* What a write does to the file.
LEMMA WriteLonger ==
    ASSUME WatchInv, NEW f \in Files, Write(f)
    PROVE  Longer(f) /\ lines' \in 0..MaxLines /\ lines <= lines' /\ LinesApart' /\ FileShape(f)'
<1>1. CASE TornLines(disk[f].half) # {}
  <2>1. /\ disk' = [disk EXCEPT ![f].half = Append(disk[f].half, disk[f].half[Len(disk[f].half)])]
        /\ UNCHANGED <<lines, captured>>
    BY <1>1 DEF Write
  <2>2. lines <= lines'
    BY <2>1 DEF WatchInv, WatchTypes
  <2> QED BY <1>1, <2>1, <2>2, WriteHalf
<1>2. CASE TornLines(disk[f].half) = {}
  <2>1. /\ lines < MaxLines /\ lines' = lines + 1 /\ captured' = captured
        /\ \E more \in {<<lines + 1>>, <<lines + 1, lines + 1>>} :
              disk' = [disk EXCEPT ![f] = [there |-> TRUE, half |-> disk[f].half \o more]]
    BY <1>2 DEF Write
  <2>2. lines <= lines'
    BY <2>1 DEF WatchInv, WatchTypes
  <2>3. PICK more \in {<<lines + 1>>, <<lines + 1, lines + 1>>} :
          disk' = [disk EXCEPT ![f] = [there |-> TRUE, half |-> disk[f].half \o more]]
    BY <2>1
  <2> QED BY <1>2, <2>1, <2>2, <2>3, WriteLine
<1> QED BY <1>1, <1>2

\* A file takes another name.
Renamed(f, g) ==
    /\ disk' \in [Files -> [there : BOOLEAN, half : Seq(Lines)]]
    /\ ~disk'[f].there /\ disk'[f].half = <<>> /\ disk'[g] = disk[f] /\ disk[f].there
    /\ \A k \in Files \ {f, g} : disk'[k] = disk[k]

\* A rename leaves the old name empty and takes a name that was never used.
LEMMA RenameRenames ==
    ASSUME WatchInv, NEW f \in Files, NEW g \in Files, Rename(f, g)
    PROVE  Renamed(f, g) /\ f # g /\ ~disk[g].there /\ g \notin cut
<1>1. disk' = [disk EXCEPT ![f] = NoFile, ![g] = disk[f]] /\ disk[f].there /\ ~disk[g].there /\ g \notin cut
  BY DEF Rename
<1>2. f # g
  BY <1>1
<1>3. disk \in [Files -> [there : BOOLEAN, half : Seq(Lines)]]
  BY DEF WatchInv, WatchTypes
<1>4. NoFile \in [there : BOOLEAN, half : Seq(Lines)] /\ ~NoFile.there /\ NoFile.half = <<>>
  BY DEF NoFile
<1> QED BY <1>1, <1>2, <1>3, <1>4 DEF Renamed

\* Files are emptied or renamed: there is nothing new in any of them.
LEMMA FilesKept ==
    ASSUME WatchInv, NEW from \in [Files -> Files],
           disk' \in [Files -> [there : BOOLEAN, half : Seq(Lines)]],
           \A k \in Files : disk'[k] = disk[from[k]] \/ disk'[k].half = <<>>,
           \A k, m \in Files : disk'[k].half # <<>> /\ disk'[m].half # <<>> /\ from[k] = from[m] => k = m,
           UNCHANGED <<lines, captured>>
    PROVE  LinesApart' /\ \A k \in Files : FileShape(k)'
<1>1. \A k \in Files : disk[k].half \in Seq(Lines) /\ disk'[k].half \in Seq(Lines)
  BY DEF WatchInv, WatchTypes
<1>2. ASSUME NEW k \in Files, disk'[k].half # <<>>
      PROVE  disk'[k] = disk[from[k]]
  BY <1>2
<1>3. ASSUME NEW k \in Files PROVE FileShape(k)'
  <2>1. CASE disk'[k].half = <<>>
    BY <2>1 DEF FileShape, Size
  <2>2. CASE disk'[k].half # <<>>
    <3>1. FileShape(from[k]) /\ disk'[k] = disk[from[k]]
      BY <1>2, <2>2 DEF WatchInv
    <3> QED BY <3>1 DEF FileShape, Size
  <2> QED BY <2>1, <2>2
<1>4. ASSUME NEW k \in Files, NEW i \in 1..Len(disk'[k].half)
      PROVE  /\ disk'[k].half # <<>> /\ disk'[k].half = disk[from[k]].half
             /\ i \in 1..Size(from[k])
  <2>1. disk'[k].half # <<>>
    OBVIOUS
  <2> QED BY <1>2, <2>1 DEF Size
<1>5. ASSUME NEW k \in Files, NEW m \in Files, NEW i \in 1..Len(disk'[k].half), NEW j \in 1..Len(disk'[m].half),
             disk'[k].half[i] = disk'[m].half[j]
      PROVE  k = m
  <2>1. from[k] = from[m]
    <3>1. /\ disk[from[k]].half[i] = disk[from[m]].half[j]
          /\ i \in 1..Size(from[k]) /\ j \in 1..Size(from[m])
      BY <1>4, <1>5
    <3>2. from[k] \in Files /\ from[m] \in Files
      OBVIOUS
    <3> QED BY <3>1, <3>2 DEF WatchInv, LinesApart
  <2> QED BY <1>4, <2>1
<1>6. ASSUME NEW k \in Files, NEW i \in 1..Len(disk'[k].half), captured[disk'[k].half[i]] > 0
      PROVE  disk'[k].half[i] \in WholeLines(disk'[k].half)
  BY <1>4, <1>6 DEF WatchInv, LinesApart
<1>7. LinesApart'
  BY <1>5, <1>6 DEF WatchInv, LinesApart, Size
<1> QED BY <1>3, <1>7

\* A rename keeps the files in shape.
LEMMA RenameKeepsFiles ==
    ASSUME WatchInv, NEW f \in Files, NEW g \in Files, Rename(f, g)
    PROVE  LinesApart' /\ \A k \in Files : FileShape(k)'
<1> DEFINE from == [k \in Files |-> IF k = g THEN f ELSE k]
<1>1. Renamed(f, g) /\ f # g /\ UNCHANGED <<lines, captured>>
  BY RenameRenames DEF Rename
<1>2. from \in [Files -> Files] /\ \A k \in Files : from[k] = IF k = g THEN f ELSE k
  OBVIOUS
<1> HIDE DEF from
<1>3. disk' \in [Files -> [there : BOOLEAN, half : Seq(Lines)]]
  BY <1>1 DEF Renamed
<1>4. \A k \in Files : disk'[k] = disk[from[k]] \/ disk'[k].half = <<>>
  BY <1>1, <1>2 DEF Renamed
<1>5. \A k, m \in Files : disk'[k].half # <<>> /\ disk'[m].half # <<>> /\ from[k] = from[m] => k = m
  <2>1. disk'[f].half = <<>>
    BY <1>1 DEF Renamed
  <2>2. ASSUME NEW k \in Files, NEW m \in Files, disk'[k].half # <<>>, disk'[m].half # <<>>, from[k] = from[m]
        PROVE  k = m
    <3>1. k # f /\ m # f
      BY <2>1, <2>2
    <3> QED BY <1>2, <2>2, <3>1
  <2> QED BY <2>2
<1> QED BY <1>1, <1>2, <1>3, <1>4, <1>5, FilesKept

\* A file loses its content.
Emptied(f) ==
    /\ disk' \in [Files -> [there : BOOLEAN, half : Seq(Lines)]]
    /\ disk'[f].there /\ disk'[f].half = <<>> /\ disk[f].there
    /\ \A k \in Files \ {f} : disk'[k] = disk[k]

\* A truncation empties the file and keeps the others.
LEMMA TruncateEmpties ==
    ASSUME WatchInv, NEW f \in Files, Truncate(f)
    PROVE  Emptied(f) /\ LinesApart' /\ \A k \in Files : FileShape(k)'
<1>1. disk \in [Files -> [there : BOOLEAN, half : Seq(Lines)]]
  BY DEF WatchInv, WatchTypes
<1>2. disk[f].there
  BY <1>1 DEF Truncate, WatchInv, FileShape, Size
<1>3. Emptied(f)
  <2> DEFINE r == [disk[f] EXCEPT !.half = <<>>]
  <2>0. <<>> \in Seq(Lines) /\ disk[f] \in [there : BOOLEAN, half : Seq(Lines)]
    BY <1>1
  <2>1. r \in [there : BOOLEAN, half : Seq(Lines)] /\ r.half = <<>> /\ r.there = disk[f].there
    BY <2>0
  <2>2. disk' = [disk EXCEPT ![f] = r]
    BY DEF Truncate
  <2> HIDE DEF r
  <2> QED BY <1>1, <1>2, <2>1, <2>2 DEF Emptied
<1>4. PICK from \in [Files -> Files] : from = [k \in Files |-> k]
  OBVIOUS
<1>5. UNCHANGED <<lines, captured>>
  BY DEF Truncate
<1>6. \A k \in Files : from[k] = k /\ (disk'[k] = disk[from[k]] \/ disk'[k].half = <<>>)
  BY <1>3, <1>4 DEF Emptied
<1> QED BY <1>3, <1>5, <1>6, FilesKept DEF Emptied

-----------------------------------------------------------------------------
(* The queue of events, and WatchInv step by step.                         *)

\* The events there are.
EventSet == {"created", "modified", "moved"} \X Files \X Files

\* An event joins the queue, if the watcher runs.
Noted(e) ==
    /\ events' \in Seq(EventSet)
    /\ \A k \in DOMAIN events' : \/ k \in DOMAIN events /\ events'[k] = events[k]
                                 \/ running /\ k = Len(events) + 1 /\ events'[k] = e
    /\ ~running => events' = events

\* Notify appends its event, or the watcher does not run.
LEMMA NotifyNotes ==
    ASSUME WatchInv, NEW kind \in {"created", "modified", "moved"}, NEW f \in Files, NEW g \in Files,
           Notify(kind, f, g)
    PROVE  Noted(<<kind, f, g>>)
<1>1. events \in Seq(EventSet) /\ <<kind, f, g>> \in EventSet
  BY DEF WatchInv, WatchTypes, EventSet
<1>2. PICK e \in EventSet : e = <<kind, f, g>>
  BY <1>1
<1>3. CASE running
  <2>1. events' = Append(events, e)
    BY <1>2, <1>3 DEF Notify
  <2> QED BY <1>1, <1>2, <1>3, <2>1 DEF Noted
<1>4. CASE ~running
  <2>1. events' = events
    BY <1>4 DEF Notify
  <2> QED BY <1>1, <1>4, <2>1 DEF Noted
<1> QED BY <1>3, <1>4

\* The queue stays orderly when its new event announces a new name, and moves a file for the first time.
LEMMA NotifyKeeps ==
    ASSUME WatchInv, NEW kind \in {"created", "modified", "moved"}, NEW f \in Files, NEW g \in Files,
           Notify(kind, f, g), UNCHANGED <<running, reading>>, cut \subseteq cut',
           kind # "modified" => \A k \in DOMAIN events : events[k][3] # g,
           kind = "moved" => f # g /\ disk[f].there /\ f \in cut' /\ ~disk'[f].there,
           \A x \in cut : ~disk[x].there => ~disk'[x].there
    PROVE  Noted(<<kind, f, g>>) /\ unheard' \subseteq Files /\ unheard \subseteq unheard' /\ Queue'
<1> DEFINE e == <<kind, f, g>>
<1>1. Noted(e)
  BY NotifyNotes
<1>2. /\ e[1] = kind /\ e[2] = f /\ e[3] = g
      /\ unheard' \subseteq Files /\ unheard \subseteq unheard'
      /\ running /\ kind # "modified" => g \in unheard'
  BY DEF Notify, WatchInv, WatchTypes
<1>3. events \in Seq(EventSet) /\ \A k \in DOMAIN events : events[k][2] \in Files /\ events[k][3] \in Files
  BY DEF WatchInv, WatchTypes, EventSet
<1> HIDE DEF e
<1>4. \A k \in DOMAIN events' :
          /\ events'[k][1] # "modified" => events'[k][3] \in unheard'
          /\ events'[k][1] = "moved" =>
                events'[k][2] # events'[k][3] /\ events'[k][2] \in cut' /\ ~disk'[events'[k][2]].there
  <2>1. ASSUME NEW k \in DOMAIN events'
        PROVE  /\ events'[k][1] # "modified" => events'[k][3] \in unheard'
               /\ events'[k][1] = "moved" =>
                events'[k][2] # events'[k][3] /\ events'[k][2] \in cut' /\ ~disk'[events'[k][2]].there
    <3>1. CASE k \in DOMAIN events /\ events'[k] = events[k]
      BY <1>2, <3>1 DEF WatchInv, Queue
    <3>2. CASE running /\ events'[k] = e
      BY <1>2, <3>2
    <3> QED BY <1>1, <3>1, <3>2 DEF Noted
  <2> QED BY <2>1
<1>5. ASSUME NEW j \in DOMAIN events', NEW k \in DOMAIN events'
      PROVE  /\ events'[j][1] # "modified" /\ events'[k][1] # "modified" /\ events'[j][3] = events'[k][3] => j = k
             /\ events'[j][1] = "moved" /\ events'[k][1] = "moved" /\ events'[j][2] = events'[k][2] => j = k
  <2>1. \/ j \in DOMAIN events /\ events'[j] = events[j]
        \/ j = Len(events) + 1 /\ events'[j] = e
    BY <1>1 DEF Noted
  <2>2. \/ k \in DOMAIN events /\ events'[k] = events[k]
        \/ k = Len(events) + 1 /\ events'[k] = e
    BY <1>1 DEF Noted
  <2>3. ASSUME NEW m \in DOMAIN events, kind # "modified" PROVE events[m][3] # g
    BY <2>3
  <2>4. ASSUME NEW m \in DOMAIN events, kind = "moved", events[m][1] = "moved" PROVE events[m][2] # f
    BY <2>4 DEF WatchInv, Queue
  <2>5. CASE j \in DOMAIN events /\ k \in DOMAIN events /\ events'[j] = events[j] /\ events'[k] = events[k]
    BY <2>5 DEF WatchInv, Queue
  <2>6. CASE j \in DOMAIN events /\ events'[j] = events[j] /\ events'[k] = e
    BY <1>2, <2>3, <2>4, <2>6
  <2>7. CASE k \in DOMAIN events /\ events'[k] = events[k] /\ events'[j] = e
    BY <1>2, <2>3, <2>4, <2>7
  <2> QED BY <2>1, <2>2, <2>5, <2>6, <2>7
<1>6. ~running' => events' = <<>> /\ \A t \in Threads : reading'[t] = Free
  BY <1>1 DEF Noted, WatchInv, Queue
<1> QED BY <1>1, <1>2, <1>4, <1>5, <1>6 DEF Queue, e

\* A name that stays unused stays unknown.
LEMMA NotifyKeepsFresh ==
    ASSUME WatchInv, NEW kind, NEW f \in Files, NEW g \in Files, Noted(<<kind, f, g>>),
           UNCHANGED <<positions, saved, reading>>, cut \subseteq cut',
           \A x \in Files \ cut' : disk'[x].there \/ (x # f /\ x # g /\ ~disk[x].there)
    PROVE  \A x \in Files \ cut' : disk'[x].there \/ Fresh(x)'
<1>1. ASSUME NEW x \in Files \ cut', ~disk'[x].there
      PROVE  Fresh(x)'
  <2>1. x # f /\ x # g /\ Fresh(x)
    BY <1>1 DEF WatchInv
  <2>2. \A k \in DOMAIN events' : events'[k][2] # x /\ events'[k][3] # x
    BY <2>1 DEF Noted, Fresh
  <2> QED BY <2>1, <2>2 DEF Fresh
<1> QED BY <1>1

\* A write keeps WatchInv.
LEMMA WatchWrite ==
    ASSUME WatchInv, NEW f \in Files, Write(f)
    PROVE  WatchInv' /\ Longer(f) /\ Noted(<<IF disk[f].there THEN "modified" ELSE "created", f, f>>)
<1>1. Longer(f) /\ lines' \in 0..MaxLines /\ lines <= lines' /\ LinesApart' /\ FileShape(f)'
  BY WriteLonger
<1>2. /\ Notify(IF disk[f].there THEN "modified" ELSE "created", f, f) /\ (disk[f].there \/ f \notin cut)
      /\ UNCHANGED <<positions, saved, reading, running, captured, cut>>
  BY DEF Write
<1>3. PICK kind \in {"created", "modified", "moved"} : kind = IF disk[f].there THEN "modified" ELSE "created"
  OBVIOUS
<1>4. kind # "modified" => \A k \in DOMAIN events : events[k][3] # f
  BY <1>2, <1>3 DEF WatchInv, Fresh
<1>5. \A x \in cut : ~disk[x].there => ~disk'[x].there
  BY <1>1, <1>2 DEF Longer, WatchInv, WatchTypes
<1>6. Noted(<<kind, f, f>>) /\ unheard' \subseteq Files /\ Queue'
  BY <1>2, <1>3, <1>4, <1>5, NotifyKeeps
<1>7. \A x \in Files \ cut' : disk'[x].there \/ Fresh(x)'
  <2>1. \A x \in Files \ cut' : disk'[x].there \/ (x # f /\ ~disk[x].there)
    BY <1>1 DEF Longer
  <2> QED BY <1>2, <1>6, <2>1, NotifyKeepsFresh
<1>8. ASSUME NEW k \in Files PROVE FileShape(k)'
  <2>1. CASE k # f
    <3>1. disk'[k] = disk[k] /\ disk[k].half \in Seq(Lines) /\ lines \in Nat /\ lines' \in Nat
      BY <1>1, <2>1 DEF Longer, WatchInv, WatchTypes
    <3>2. \A i \in 1..Len(disk[k].half) : disk[k].half[i] <= lines /\ disk[k].half[i] \in Nat
      BY <3>1, SessionFacts DEF WatchInv, FileShape, Size
    <3>3. \A i \in 1..Len(disk[k].half) : disk[k].half[i] <= lines'
      BY <1>1, <3>1, <3>2
    <3> QED BY <3>1, <3>3 DEF WatchInv, FileShape, Size
  <2> QED BY <1>1, <2>1
<1>9. WatchTypes'
  BY <1>1, <1>2, <1>6 DEF WatchInv, WatchTypes, Longer, Noted, EventSet
<1> QED BY <1>1, <1>2, <1>3, <1>6, <1>7, <1>8, <1>9 DEF WatchInv

\* A truncation keeps WatchInv.
LEMMA WatchTruncate ==
    ASSUME WatchInv, NEW f \in Files, Truncate(f)
    PROVE  WatchInv' /\ Emptied(f) /\ Noted(<<"modified", f, f>>)
<1>1. Emptied(f) /\ LinesApart' /\ \A k \in Files : FileShape(k)'
  BY TruncateEmpties
<1>2. /\ Notify("modified", f, f) /\ cut' = cut \cup {f}
      /\ UNCHANGED <<positions, saved, reading, running, captured, lines>>
  BY DEF Truncate
<1>3. \A x \in cut : ~disk[x].there => ~disk'[x].there
  BY <1>1 DEF Emptied, WatchInv, WatchTypes
<1>4. Noted(<<"modified", f, f>>) /\ unheard' \subseteq Files /\ Queue'
  BY <1>2, <1>3, NotifyKeeps
<1>5. \A x \in Files \ cut' : disk'[x].there \/ Fresh(x)'
  <2>1. \A x \in Files \ cut' : disk'[x].there \/ (x # f /\ ~disk[x].there)
    BY <1>1 DEF Emptied
  <2> QED BY <1>2, <1>4, <2>1, NotifyKeepsFresh
<1>6. WatchTypes'
  BY <1>1, <1>2, <1>4 DEF WatchInv, WatchTypes, Emptied, Noted, EventSet
<1> QED BY <1>1, <1>2, <1>4, <1>5, <1>6 DEF WatchInv

\* A rename keeps WatchInv.
LEMMA WatchRename ==
    ASSUME WatchInv, NEW f \in Files, NEW g \in Files, Rename(f, g)
    PROVE  WatchInv' /\ Renamed(f, g) /\ f # g /\ Fresh(g) /\ Noted(<<"moved", f, g>>)
<1>1. Renamed(f, g) /\ f # g /\ Fresh(g) /\ LinesApart' /\ \A k \in Files : FileShape(k)'
  BY RenameRenames, RenameKeepsFiles DEF WatchInv
<1>2. /\ Notify("moved", f, g) /\ f \in cut' /\ cut \subseteq cut' /\ cut' \subseteq Files /\ g \notin cut
      /\ UNCHANGED <<positions, saved, reading, running, captured, lines>>
  BY DEF Rename, WatchInv, WatchTypes
<1>3. \A x \in cut : ~disk[x].there => ~disk'[x].there
  BY <1>1, <1>2 DEF Renamed, WatchInv, WatchTypes
<1>4. Noted(<<"moved", f, g>>) /\ unheard' \subseteq Files /\ Queue'
  <2>1. f # g /\ disk[f].there /\ ~disk'[f].there /\ \A k \in DOMAIN events : events[k][3] # g
    BY <1>1 DEF Renamed, Fresh
  <2> QED BY <1>2, <1>3, <2>1, NotifyKeeps
<1>5. \A x \in Files \ cut' : disk'[x].there \/ Fresh(x)'
  <2>1. \A x \in Files \ cut' : disk'[x].there \/ (x # f /\ x # g /\ ~disk[x].there)
    BY <1>1, <1>2 DEF Renamed
  <2> QED BY <1>2, <1>4, <2>1, NotifyKeepsFresh
<1>6. WatchTypes'
  BY <1>1, <1>2, <1>4 DEF WatchInv, WatchTypes, Renamed, Noted, EventSet
<1> QED BY <1>1, <1>2, <1>4, <1>5, <1>6 DEF WatchInv

\* The files stay as they are.
LEMMA FilesStay ==
    ASSUME WatchInv, UNCHANGED <<disk, lines, captured>>
    PROVE  LinesApart' /\ \A k \in Files : FileShape(k)'
BY DEF WatchInv, LinesApart, FileShape, Size

\* A thread begins to read, or cannot.
Begun(t, pos, f) ==
    /\ reading' \in [Threads -> [file : Files \cup {<<>>}, from : Nat, early : BOOLEAN]]
    /\ \A u \in Threads \ {t} : reading'[u] = reading[u]
    /\ \A u \in Threads : reading[u].file # f
    /\ reading'[t].file = f /\ reading'[t].from = From(pos, f) /\ disk[f].there /\ Size(f) > From(pos, f)
    /\ reading'[t].early \in BOOLEAN /\ (reading'[t].early <=> f \in unheard')

\* Begin lets the thread read the file, or changes nothing.
LEMMA BeginBegins ==
    ASSUME WatchInv, NEW t \in Threads, NEW pos \in [Files -> Nat \cup {Untracked}], NEW f \in Files,
           Begin(t, pos, f)
    PROVE  reading' = reading \/ Begun(t, pos, f)
<1>1. CASE ~(disk[f].there /\ ~Locked(f) /\ Size(f) > From(pos, f))
  BY <1>1 DEF Begin
<1>2. CASE disk[f].there /\ ~Locked(f) /\ Size(f) > From(pos, f)
  <2>1. PICK early \in BOOLEAN : early <=> f \in unheard'
    OBVIOUS
  <2>2. From(pos, f) \in Nat
    BY SessionFacts DEF From
  <2>3. PICK from \in Nat : from = From(pos, f)
    BY <2>2
  <2> DEFINE r == [file |-> f, from |-> from, early |-> early]
  <2>4. /\ r \in [file : Files \cup {<<>>}, from : Nat, early : BOOLEAN]
        /\ r.file = f /\ r.from = from /\ r.early = early
    <3>1. r.file = f /\ r.from = from /\ r.early = early
      BY Zenon
    <3>2. PICK x \in Files \cup {<<>>} : x = f
      OBVIOUS
    <3>3. [file |-> x, from |-> from, early |-> early] \in [file : Files \cup {<<>>}, from : Nat, early : BOOLEAN]
      BY Zenon
    <3> QED BY <3>1, <3>2, <3>3
  <2>5. reading' = [reading EXCEPT ![t] = r]
    BY <1>2, <2>1, <2>3 DEF Begin
  <2> HIDE DEF r
  <2>6. reading \in [Threads -> [file : Files \cup {<<>>}, from : Nat, early : BOOLEAN]]
    BY DEF WatchInv, WatchTypes
  <2>7. \A u \in Threads : reading[u].file # f
    BY <1>2 DEF Locked
  <2> QED BY <1>2, <2>1, <2>3, <2>4, <2>5, <2>6, <2>7 DEF Begun
<1> QED BY <1>1, <1>2

\* A thread that begins excludes the other, and reads no unknown path.
LEMMA BeginExcludes ==
    ASSUME WatchInv, NEW t \in Threads, NEW pos, NEW f \in Files, reading' = reading \/ Begun(t, pos, f)
    PROVE  /\ reading' \in [Threads -> [file : Files \cup {<<>>}, from : Nat, early : BOOLEAN]]
           /\ \A u \in Threads : reading'[u].file = <<>> => reading'[u] = Free
           /\ \A u, v \in Threads : reading'[u].file = reading'[v].file /\ reading'[u].file # <<>> => u = v
           /\ \A x \in Files : ~disk[x].there /\ (\A u \in Threads : reading[u].file # x)
                                   => \A u \in Threads : reading'[u].file # x
<1>1. CASE reading' = reading
  BY <1>1 DEF WatchInv, WatchTypes
<1>2. CASE Begun(t, pos, f)
  <2>1. \A u \in Threads : u # t => reading'[u] = reading[u] /\ reading[u].file # f
    BY <1>2 DEF Begun
  <2>2. reading'[t].file = f /\ f # <<>> /\ disk[f].there
    BY <1>2, SessionFacts DEF Begun
  <2>3. \A u \in Threads : reading[u].file = <<>> => reading[u] = Free
    BY DEF WatchInv, WatchTypes
  <2>4. \A u, v \in Threads : reading[u].file = reading[v].file /\ reading[u].file # <<>> => u = v
    BY DEF WatchInv
  <2>5. \A u \in Threads : reading'[u].file = <<>> => reading'[u] = Free
    BY <2>1, <2>2, <2>3
  <2>6. \A u, v \in Threads : reading'[u].file = reading'[v].file /\ reading'[u].file # <<>> => u = v
    BY <2>1, <2>2, <2>4
  <2>7. ASSUME NEW x \in Files, ~disk[x].there, \A u \in Threads : reading[u].file # x
        PROVE  \A u \in Threads : reading'[u].file # x
    BY <2>1, <2>2, <2>7
  <2> QED BY <1>2, <2>5, <2>6, <2>7 DEF Begun
<1> QED BY <1>1, <1>2

\* The scan keeps WatchInv.
LEMMA WatchScan ==
    ASSUME WatchInv, NEW f \in Files, Scan(f)
    PROVE  WatchInv' /\ Begun("loop", positions, f)
<1>1. /\ running /\ Begin("loop", positions, f) /\ reading' # reading
      /\ UNCHANGED <<disk, lines, positions, saved, events, running, captured, unheard, cut>>
  BY DEF Scan, written
<1>2. positions \in [Files -> Nat \cup {Untracked}] /\ "loop" \in Threads
  BY DEF WatchInv, WatchTypes, Threads
<1>3. Begun("loop", positions, f)
  BY <1>1, <1>2, BeginBegins
<1>4. /\ reading' \in [Threads -> [file : Files \cup {<<>>}, from : Nat, early : BOOLEAN]]
      /\ \A u \in Threads : reading'[u].file = <<>> => reading'[u] = Free
      /\ \A u, v \in Threads : reading'[u].file = reading'[v].file /\ reading'[u].file # <<>> => u = v
      /\ \A x \in Files : ~disk[x].there /\ (\A u \in Threads : reading[u].file # x)
                               => \A u \in Threads : reading'[u].file # x
  BY <1>2, <1>3, BeginExcludes
<1>5. WatchTypes'
  BY <1>1, <1>4 DEF WatchInv, WatchTypes
<1>6. Queue'
  BY <1>1 DEF WatchInv, Queue
<1>7. \A g \in Files \ cut : disk'[g].there \/ Fresh(g)'
  BY <1>1, <1>4 DEF WatchInv, Fresh
<1> QED BY <1>1, <1>3, <1>4, <1>5, <1>6, <1>7, FilesStay DEF WatchInv

\* A start keeps WatchInv.
LEMMA WatchStart ==
    ASSUME WatchInv, StartWatching
    PROVE  WatchInv'
<1>1. /\ ~running /\ running' = TRUE /\ positions' = [f \in Files |-> Resume(f)]
      /\ UNCHANGED <<disk, lines, saved, events, reading, captured, unheard, cut>>
  BY DEF StartWatching, written
<1>2. \A f \in Files : Resume(f) \in Nat \cup {Untracked} /\ (~disk[f].there => Resume(f) = saved[f])
  <2>1. ASSUME NEW f \in Files
        PROVE  Resume(f) \in Nat \cup {Untracked} /\ (~disk[f].there => Resume(f) = saved[f])
    <3>1. saved[f] \in Nat \cup {Untracked} /\ disk[f].half \in Seq(Lines)
      BY DEF WatchInv, WatchTypes
    <3>2. Size(f) \in Nat
      BY <3>1 DEF Size
    <3> QED BY <3>1, <3>2 DEF Resume
  <2> QED BY <2>1
<1> HIDE DEF Resume
<1>3. WatchTypes'
  BY <1>1, <1>2 DEF WatchInv, WatchTypes
<1>4. Queue'
  BY <1>1 DEF WatchInv, Queue
<1>5. \A g \in Files \ cut : disk'[g].there \/ Fresh(g)'
  BY <1>1, <1>2 DEF WatchInv, Fresh
<1> QED BY <1>1, <1>3, <1>4, <1>5, FilesStay DEF WatchInv

\* An event leaves the queue.
Dropped ==
    /\ events' \in Seq(EventSet) /\ Head(events) \in EventSet /\ Len(events) >= 1
    /\ Head(events) = events[1]
    /\ \A k \in DOMAIN events' : k + 1 \in DOMAIN events /\ k + 1 # 1 /\ events'[k] = events[k + 1]
    /\ \A j, k \in DOMAIN events' : j + 1 = k + 1 => j = k

\* The tail of the queue is the queue without its first event.
LEMMA TailDrops ==
    ASSUME WatchInv, events # <<>>, events' = Tail(events)
    PROVE  Dropped
<1>1. PICK s \in Seq(EventSet) : s = events
  BY DEF WatchInv, WatchTypes, EventSet
<1>2. Len(s) >= 1 /\ Head(s) = s[1] /\ s[1] \in EventSet /\ Tail(s) \in Seq(EventSet) /\ Len(s) \in Nat
  BY <1>1
<1>3. Len(Tail(s)) = Len(s) - 1 /\ \A k \in 1..(Len(s) - 1) : Tail(s)[k] = s[k + 1]
  BY <1>1, <1>2
<1>4. DOMAIN Tail(s) = 1..(Len(s) - 1) /\ DOMAIN s = 1..Len(s)
  BY <1>2, <1>3
<1> QED BY <1>1, <1>2, <1>3, <1>4 DEF Dropped

\* The queue without its first event.
LEMMA DropKeepsQueue ==
    ASSUME WatchInv, running, Dropped, UNCHANGED <<disk, running, cut>>, unheard' \subseteq unheard,
           \A x \in unheard \ unheard' : Head(events)[1] # "modified" /\ x = Head(events)[3]
    PROVE  Queue'
<1>1. 1 \in DOMAIN events
  BY DEF Dropped, WatchInv, WatchTypes
<1>2. ASSUME NEW k \in DOMAIN events'
      PROVE  /\ events'[k][1] # "modified" => events'[k][3] \in unheard'
             /\ events'[k][1] = "moved" =>
                events'[k][2] # events'[k][3] /\ events'[k][2] \in cut /\ ~disk[events'[k][2]].there
  <2>1. k + 1 \in DOMAIN events /\ k + 1 # 1 /\ events'[k] = events[k + 1] /\ Head(events) = events[1]
    BY DEF Dropped
  <2>2. PICK m \in DOMAIN events : m = k + 1
    BY <2>1
  <2>3. events[m][1] # "modified" => events[m][3] \in unheard
    BY DEF WatchInv, Queue
  <2>4. events[m][1] # "modified" /\ events[1][1] # "modified" => events[m][3] # events[1][3]
    BY <1>1, <2>1, <2>2 DEF WatchInv, Queue
  <2>5. events[m][1] = "moved" => events[m][2] # events[m][3] /\ events[m][2] \in cut /\ ~disk[events[m][2]].there
    BY DEF WatchInv, Queue
  <2> QED BY <2>1, <2>2, <2>3, <2>4, <2>5
<1>3. ASSUME NEW j \in DOMAIN events', NEW k \in DOMAIN events'
      PROVE  /\ events'[j][1] # "modified" /\ events'[k][1] # "modified" /\ events'[j][3] = events'[k][3] => j = k
             /\ events'[j][1] = "moved" /\ events'[k][1] = "moved" /\ events'[j][2] = events'[k][2] => j = k
  <2>1. PICK m \in DOMAIN events : m = j + 1 /\ events'[j] = events[m]
    BY DEF Dropped
  <2>2. PICK n \in DOMAIN events : n = k + 1 /\ events'[k] = events[n]
    BY DEF Dropped
  <2>3. m = n => j = k
    BY <2>1, <2>2 DEF Dropped
  <2> QED BY <2>1, <2>2, <2>3 DEF WatchInv, Queue
<1> QED BY <1>2, <1>3 DEF Queue

\* A missed event keeps WatchInv.
LEMMA WatchMiss ==
    ASSUME WatchInv, MissEvent
    PROVE  WatchInv' /\ Dropped
<1>1. /\ running /\ events # <<>> /\ events' = Tail(events)
      /\ UNCHANGED <<disk, lines, positions, saved, reading, running, captured, unheard, cut>>
  BY DEF MissEvent, written, history
<1>2. Dropped
  BY <1>1, TailDrops
<1>3. WatchTypes'
  BY <1>1, <1>2 DEF WatchInv, WatchTypes, Dropped, EventSet
<1>4. Queue'
  BY <1>1, <1>2, DropKeepsQueue
<1>5. \A g \in Files \ cut : disk'[g].there \/ Fresh(g)'
  BY <1>1, <1>2 DEF WatchInv, Fresh, Dropped
<1> QED BY <1>1, <1>2, <1>3, <1>4, <1>5, FilesStay DEF WatchInv

\* Only a path an event names gets another position.
LEMMA MovedMoves ==
    ASSUME WatchInv, NEW e \in EventSet
    PROVE  /\ Moved(e) \in [Files -> Nat \cup {Untracked}]
           /\ \A x \in Files : x # e[2] /\ x # e[3] => Moved(e)[x] = positions[x]
           /\ e[1] = "modified" => Moved(e) = positions
           /\ e[1] = "created" => Moved(e)[e[3]] = 0 /\ \A x \in Files : x # e[3] => Moved(e)[x] = positions[x]
           /\ e[1] = "moved" /\ e[2] # e[3] =>
                 /\ positions[e[2]] # Untracked => Moved(e)[e[3]] = positions[e[2]] /\ Moved(e)[e[2]] = Untracked
                 /\ positions[e[2]] = Untracked =>
                       /\ Moved(e)[e[3]] = IF positions[e[3]] = Untracked THEN 0 ELSE positions[e[3]]
                       /\ Moved(e)[e[2]] = Untracked
<1>1. PICK f \in Files, g \in Files : e[2] = f /\ e[3] = g
  BY DEF EventSet
<1>2. PICK p \in [Files -> Nat \cup {Untracked}] : p = positions
  BY DEF WatchInv, WatchTypes
<1>3. e[1] \in {"created", "modified", "moved"}
  BY DEF EventSet
<1>4. CASE e[1] = "modified"
  BY <1>1, <1>2, <1>4 DEF Moved
<1>5. CASE e[1] = "created"
  <2>1. Moved(e) = [p EXCEPT ![g] = 0]
    BY <1>1, <1>2, <1>5 DEF Moved
  <2> QED BY <1>1, <1>2, <1>5, <2>1
<1>6. CASE e[1] = "moved" /\ positions[e[2]] # Untracked
  <2>1. Moved(e) = [p EXCEPT ![g] = p[f], ![f] = Untracked]
    BY <1>1, <1>2, <1>6 DEF Moved
  <2> QED BY <1>1, <1>2, <1>6, <2>1
<1>7. CASE e[1] = "moved" /\ positions[e[2]] = Untracked
  <2>1. Moved(e) = [p EXCEPT ![g] = IF p[g] = Untracked THEN 0 ELSE p[g]]
    BY <1>1, <1>2, <1>7 DEF Moved
  <2> QED BY <1>1, <1>2, <1>7, <2>1
<1> QED BY <1>3, <1>4, <1>5, <1>6, <1>7

\* The observer keeps WatchInv.
LEMMA WatchObserve ==
    ASSUME WatchInv, Observe
    PROVE  /\ WatchInv' /\ Dropped /\ positions' = Moved(Head(events))
           /\ reading' = reading \/ Begun("observer", positions', Head(events)[3])
<1>1. /\ running /\ events # <<>> /\ events' = Tail(events)
      /\ unheard' = Heard(Head(events)) /\ positions' = Moved(Head(events))
      /\ Begin("observer", positions', Head(events)[3])
      /\ UNCHANGED <<disk, lines, saved, running, captured, cut>>
  BY DEF Observe, written
<1>2. Dropped
  BY <1>1, TailDrops
<1>3. PICK e \in EventSet : e = Head(events)
  BY <1>2 DEF Dropped
<1>4. e[1] \in {"created", "modified", "moved"} /\ e[2] \in Files /\ e[3] \in Files
  BY DEF EventSet
<1>5. /\ unheard' \subseteq unheard
      /\ \A x \in unheard \ unheard' : Head(events)[1] # "modified" /\ x = Head(events)[3]
  BY <1>1 DEF Heard
<1>6. positions' \in [Files -> Nat \cup {Untracked}]
  BY <1>1, <1>3, MovedMoves
<1>7. reading' = reading \/ Begun("observer", positions', e[3])
  <2>1. PICK pos \in [Files -> Nat \cup {Untracked}] : pos = positions'
    BY <1>6
  <2>2. Begin("observer", pos, e[3]) /\ "observer" \in Threads
    BY <1>1, <1>3, <2>1 DEF Threads
  <2>3. reading' = reading \/ Begun("observer", pos, e[3])
    BY <1>4, <2>2, BeginBegins
  <2> QED BY <2>1, <2>3
<1>8. /\ reading' \in [Threads -> [file : Files \cup {<<>>}, from : Nat, early : BOOLEAN]]
      /\ \A u \in Threads : reading'[u].file = <<>> => reading'[u] = Free
      /\ \A u, v \in Threads : reading'[u].file = reading'[v].file /\ reading'[u].file # <<>> => u = v
      /\ \A x \in Files : ~disk[x].there /\ (\A u \in Threads : reading[u].file # x)
                               => \A u \in Threads : reading'[u].file # x
  <2>1. "observer" \in Threads
    BY DEF Threads
  <2> QED BY <1>4, <1>7, <2>1, BeginExcludes
<1>9. WatchTypes'
  BY <1>1, <1>2, <1>5, <1>6, <1>8 DEF WatchInv, WatchTypes, Dropped, EventSet
<1>10. Queue'
  BY <1>1, <1>2, <1>5, DropKeepsQueue
<1>11. ASSUME NEW g \in Files \ cut, ~disk[g].there
       PROVE  Fresh(g)'
  <2>1. Fresh(g)
    BY <1>11 DEF WatchInv
  <2>2. e[2] # g /\ e[3] # g
    <3>1. 1 \in DOMAIN events /\ e = events[1]
      BY <1>2, <1>3 DEF Dropped, WatchInv, WatchTypes
    <3> QED BY <2>1, <3>1 DEF Fresh
  <2>3. positions'[g] = positions[g]
    BY <1>1, <1>3, <2>2, MovedMoves
  <2>4. \A u \in Threads : reading'[u].file # g
    BY <1>8, <1>11, <2>1 DEF Fresh
  <2>5. \A k \in DOMAIN events' : events'[k][2] # g /\ events'[k][3] # g
    BY <1>2, <2>1 DEF Dropped, Fresh
  <2> QED BY <1>1, <2>1, <2>3, <2>4, <2>5 DEF Fresh
<1> QED BY <1>1, <1>2, <1>3, <1>7, <1>8, <1>9, <1>10, <1>11, FilesStay DEF WatchInv

\* A thread lets go of its file.
Freed(t) ==
    /\ reading' \in [Threads -> [file : Files \cup {<<>>}, from : Nat, early : BOOLEAN]]
    /\ reading'[t] = Free /\ \A u \in Threads \ {t} : reading'[u] = reading[u]

\* What a thread reads: whole lines of its file, behind the position it began at.
Half(t)    == SubSeq(disk[reading[t].file].half, reading[t].from + 1, Size(reading[t].file))
NewLine(t) == WholeLines(Half(t))

\* The read moves the position to the end and hands over the whole lines behind the old one.
TakesIn(t) ==
    LET f == reading[t].file IN
    /\ disk[f].there /\ NewLine(t) \subseteq Lines
    /\ positions' \in [Files -> Nat \cup {Untracked}] /\ saved' = positions'
    /\ positions'[f] = ReadTo(f, reading[t].from) /\ \A x \in Files \ {f} : positions'[x] = positions[x]
    /\ \A l \in NewLine(t) : \E i \in 1..(Size(f) - 1) :
          i > reading[t].from /\ disk[f].half[i] = l /\ disk[f].half[i + 1] = l
    /\ captured' \in [Lines -> Nat]
    /\ \A l \in Lines : captured'[l] = IF l \in NewLine(t) THEN captured[l] + 1 ELSE captured[l]

\* The lines of the rest of a file behind a position.
LEMMA SubLines ==
    ASSUME NEW s \in Seq(Lines), NEW from \in Nat
    PROVE  /\ \A l \in WholeLines(SubSeq(s, from + 1, Len(s))) :
                 \E i \in 1..(Len(s) - 1) : i > from /\ s[i] = l /\ s[i + 1] = l
           /\ \A i \in 1..(Len(s) - 1) : i > from /\ s[i] = s[i + 1] => s[i] \in WholeLines(SubSeq(s, from + 1, Len(s)))
           /\ \A i \in 1..Len(s) : i > from => s[i] \in LinesOf(SubSeq(s, from + 1, Len(s)))
<1>1. Len(s) \in Nat
  OBVIOUS
<1>2. CASE from >= Len(s)
  <2>1. SubSeq(s, from + 1, Len(s)) = <<>>
    BY <1>1, <1>2
  <2>2. WholeLines(<<>>) = {}
    BY DEF WholeLines
  <2>3. \A i \in 1..Len(s) : ~(i > from)
    BY <1>1, <1>2
  <2>4. \A i \in 1..(Len(s) - 1) : ~(i > from)
    BY <1>1, <1>2
  <2> QED BY <2>1, <2>2, <2>3, <2>4
<1>3. CASE from < Len(s)
  <2>1. \A i \in (from + 1)..Len(s) : s[i] \in Lines
    BY <1>1
  <2>a. SubSeq(s, from + 1, Len(s)) \in Seq(Lines)
    BY <1>1, <1>3, <2>1
  <2>2. PICK r \in Seq(Lines) : r = SubSeq(s, from + 1, Len(s))
    BY <2>a
  <2>3. Len(r) = Len(s) - from
    BY <1>1, <1>3, <2>2
  <2>4. \A i \in 1..(Len(s) - from) : r[i] = s[from + i]
    BY <1>1, <1>3, <2>2
  <2>5. ASSUME NEW l \in WholeLines(r)
        PROVE  \E i \in 1..(Len(s) - 1) : i > from /\ s[i] = l /\ s[i + 1] = l
    <3>1. PICK j \in 1..(Len(r) - 1) : r[j] = r[j + 1] /\ l = r[j]
      BY DEF WholeLines
    <3>2. r[j] = s[from + j] /\ r[j + 1] = s[from + (j + 1)] /\ from + (j + 1) = (from + j) + 1
      BY <1>1, <2>3, <2>4
    <3>3. from + j \in 1..(Len(s) - 1) /\ from + j > from
      BY <1>1, <2>3
    <3> QED BY <3>1, <3>2, <3>3
  <2>6. ASSUME NEW i \in 1..(Len(s) - 1), i > from, s[i] = s[i + 1] PROVE s[i] \in WholeLines(r)
    <3>1. PICK j \in 1..(Len(r) - 1) : i = from + j
      <4>1. i - from \in 1..(Len(r) - 1) /\ i = from + (i - from)
        BY <1>1, <2>3, <2>6
      <4> QED BY <4>1
    <3>2. r[j] = s[from + j] /\ r[j + 1] = s[from + (j + 1)] /\ from + (j + 1) = i + 1
      BY <1>1, <2>3, <2>4, <3>1
    <3> QED BY <2>6, <3>1, <3>2 DEF WholeLines
  <2>7. ASSUME NEW i \in 1..Len(s), i > from PROVE s[i] \in LinesOf(r)
    <3>1. PICK j \in 1..Len(r) : i = from + j
      <4>1. i - from \in 1..Len(r) /\ i = from + (i - from)
        BY <1>1, <2>3, <2>7
      <4> QED BY <4>1
    <3> QED BY <2>3, <2>4, <3>1 DEF LinesOf
  <2> QED BY <2>2, <2>5, <2>6, <2>7
<1> QED BY <1>1, <1>2, <1>3

\* A read takes the file in, unless it is gone.
LEMMA ReadTakes ==
    ASSUME WatchInv, NEW t \in Threads, Read(t)
    PROVE  /\ Freed(t) /\ reading[t].file \in Files
           /\ \/ ~disk[reading[t].file].there /\ UNCHANGED <<positions, saved, ingests, captured, missed, raced>>
              \/ /\ TakesIn(t)
                 /\ raced' = IF reading[t].early THEN raced \cup NewLine(t) ELSE raced
                 /\ missed' = missed \cup TornLines(Half(t))
                 /\ ingests' = IF NewLine(t) = {} THEN ingests ELSE ingests \cup {NewLine(t)}
<1>1. /\ reading \in [Threads -> [file : Files \cup {<<>>}, from : Nat, early : BOOLEAN]]
      /\ positions \in [Files -> Nat \cup {Untracked}] /\ captured \in [Lines -> Nat]
      /\ disk \in [Files -> [there : BOOLEAN, half : Seq(Lines)]]
      /\ reading[t].file = <<>> => reading[t] = Free
  BY DEF WatchInv, WatchTypes
<1>2. reading[t] # Free /\ reading' = [reading EXCEPT ![t] = Free]
  BY DEF Read
<1>3. Free \in [file : Files \cup {<<>>}, from : Nat, early : BOOLEAN]
  BY DEF Free
<1>4. PICK f \in Files : f = reading[t].file
  BY <1>1, <1>2
<1>5. PICK from \in Nat : from = reading[t].from
  BY <1>1
<1>6. Freed(t)
  BY <1>1, <1>2, <1>3 DEF Freed
<1>7. CASE ~disk[f].there
  BY <1>4, <1>6, <1>7 DEF Read
<1>8. CASE disk[f].there
  <2>1. /\ positions' = [positions EXCEPT ![f] = ReadTo(f, from)] /\ saved' = positions'
        /\ ingests' = IF NewLine(t) = {} THEN ingests ELSE ingests \cup {NewLine(t)}
        /\ captured' = [l \in Lines |-> IF l \in NewLine(t) THEN captured[l] + 1 ELSE captured[l]]
        /\ missed' = missed \cup TornLines(Half(t))
        /\ raced' = IF reading[t].early THEN raced \cup NewLine(t) ELSE raced
    BY <1>4, <1>5, <1>8 DEF Read, Half, NewLine
  <2>2. PICK s \in Seq(Lines) : s = disk[f].half
    BY <1>1
  <2>3. Size(f) = Len(s) /\ Half(t) = SubSeq(s, from + 1, Len(s)) /\ Len(s) \in Nat
    BY <1>4, <1>5, <2>2 DEF Size, Half
  <2>4. \A l \in NewLine(t) : \E i \in 1..(Len(s) - 1) : i > from /\ s[i] = l /\ s[i + 1] = l
    BY <2>3, SubLines DEF NewLine
  <2>5. NewLine(t) \subseteq Lines
    <3>1. ASSUME NEW l \in NewLine(t) PROVE l \in Lines
      <4>1. PICK i \in 1..(Len(s) - 1) : s[i] = l
        BY <2>4
      <4>2. i \in 1..Len(s)
        BY <2>3
      <4> QED BY <4>1, <4>2
    <3> QED BY <3>1
  <2>6. ReadTo(f, from) \in Nat
    BY <2>3 DEF ReadTo
  <2>7. positions' \in [Files -> Nat \cup {Untracked}] /\ positions'[f] = ReadTo(f, from)
        /\ \A x \in Files \ {f} : positions'[x] = positions[x]
    BY <1>1, <2>1, <2>6
  <2>8. /\ captured' \in [Lines -> Nat]
        /\ \A l \in Lines : captured'[l] = IF l \in NewLine(t) THEN captured[l] + 1 ELSE captured[l]
    BY <1>1, <2>1
  <2>9. TakesIn(t)
    BY <1>4, <1>5, <1>8, <2>1, <2>2, <2>3, <2>4, <2>5, <2>7, <2>8 DEF TakesIn
  <2> QED BY <1>4, <1>6, <2>1, <2>9
<1> QED BY <1>7, <1>8

\* A thread that lets go leaves a name that is not used alone.
LEMMA FreedKeeps ==
    ASSUME WatchInv, NEW t \in Threads, Freed(t)
    PROVE  /\ \A u \in Threads : reading'[u].file = <<>> => reading'[u] = Free
           /\ \A u, v \in Threads : reading'[u].file = reading'[v].file /\ reading'[u].file # <<>> => u = v
           /\ \A u \in Threads : reading'[u].file = reading[u].file \/ reading'[u].file = <<>>
<1>1. Free.file = <<>>
  BY DEF Free
<1>2. \A u \in Threads : u # t => reading'[u] = reading[u]
  BY DEF Freed
<1>3. reading'[t] = Free
  BY DEF Freed
<1>4. \A u \in Threads : reading[u].file = <<>> => reading[u] = Free
  BY DEF WatchInv, WatchTypes
<1>5. \A u, v \in Threads : reading[u].file = reading[v].file /\ reading[u].file # <<>> => u = v
  BY DEF WatchInv
<1>6. \A u \in Threads : reading'[u].file = <<>> => reading'[u] = Free
  BY <1>2, <1>3, <1>4
<1>7. \A u, v \in Threads : reading'[u].file = reading'[v].file /\ reading'[u].file # <<>> => u = v
  BY <1>1, <1>2, <1>3, <1>5
<1>8. \A u \in Threads : reading'[u].file = reading[u].file \/ reading'[u].file = <<>>
  BY <1>1, <1>2, <1>3
<1> QED BY <1>6, <1>7, <1>8

\* A read keeps WatchInv.
LEMMA WatchRead ==
    ASSUME WatchInv, NEW t \in Threads, Read(t)
    PROVE  WatchInv'
<1>1. /\ Freed(t) /\ reading[t].file \in Files
      /\ \/ ~disk[reading[t].file].there /\ UNCHANGED <<positions, saved, ingests, captured, missed, raced>>
         \/ TakesIn(t)
  BY ReadTakes
<1>2. UNCHANGED <<disk, lines, events, running, unheard, cut>> /\ reading[t] # Free
  BY DEF Read, written
<1>3. /\ \A u \in Threads : reading'[u].file = <<>> => reading'[u] = Free
      /\ \A u, v \in Threads : reading'[u].file = reading'[v].file /\ reading'[u].file # <<>> => u = v
      /\ \A u \in Threads : reading'[u].file = reading[u].file \/ reading'[u].file = <<>>
  BY <1>1, FreedKeeps
<1>4. running
  BY <1>2 DEF WatchInv, Queue
<1>5. Queue'
  BY <1>2, <1>4 DEF WatchInv, Queue
<1>6. PICK f \in Files : f = reading[t].file
  BY <1>1
<1>7. \A g \in Files \ cut : disk'[g].there \/ Fresh(g)'
  <2>1. ASSUME NEW g \in Files \ cut, ~disk[g].there PROVE Fresh(g)'
    <3>1. Fresh(g)
      BY <2>1 DEF WatchInv
    <3>2. g # f
      BY <1>6, <3>1 DEF Fresh
    <3>3. positions'[g] = Untracked /\ saved'[g] = Untracked
      BY <1>1, <1>6, <3>1, <3>2 DEF Fresh, TakesIn
    <3>4. \A u \in Threads : reading'[u].file # g
      BY <1>3, <3>1, SessionFacts DEF Fresh
    <3> QED BY <1>2, <3>1, <3>3, <3>4 DEF Fresh
  <2> QED BY <1>2, <2>1
<1>8. CASE UNCHANGED <<positions, saved, captured>>
  <2>1. WatchTypes'
    BY <1>1, <1>2, <1>3, <1>8 DEF WatchInv, WatchTypes, Freed
  <2> QED BY <1>2, <1>3, <1>5, <1>7, <1>8, <2>1, FilesStay DEF WatchInv
<1>9. CASE TakesIn(t)
  <2>1. WatchTypes'
    BY <1>1, <1>2, <1>3, <1>9 DEF WatchInv, WatchTypes, Freed, TakesIn
  <2>2. \A k \in Files : FileShape(k)'
    BY <1>2 DEF WatchInv, FileShape, Size
  <2>3. PICK s \in Seq(Lines) : s = disk[f].half
    BY DEF WatchInv, WatchTypes
  <2>4. ASSUME NEW l \in NewLine(t)
        PROVE  /\ l \in WholeLines(s) /\ l <= lines
               /\ \E i \in 1..Size(f) : disk[f].half[i] = l
    <3>1. PICK i \in 1..(Size(f) - 1) : disk[f].half[i] = l /\ disk[f].half[i + 1] = l
      BY <1>6, <1>9 DEF TakesIn
    <3>2. i \in 1..Size(f) /\ Size(f) = Len(s)
      BY <2>3 DEF Size
    <3>3. disk[f].half[i] <= lines
      BY <3>2 DEF WatchInv, FileShape
    <3>4. l \in WholeLines(s)
      BY <2>3, <3>1, <3>2 DEF WholeLines
    <3> QED BY <3>1, <3>2, <3>3, <3>4
  <2>5. ASSUME NEW g \in Files, NEW i \in 1..Size(g), captured'[disk[g].half[i]] > 0
        PROVE  disk[g].half[i] \in WholeLines(disk[g].half)
    <3>0. disk[g].half[i] \in Lines
      BY DEF WatchInv, WatchTypes, Size
    <3>1. CASE disk[g].half[i] \in NewLine(t)
      <4>1. PICK j \in 1..Size(f) : disk[f].half[j] = disk[g].half[i]
        BY <2>4, <3>1
      <4>2. f = g
        BY <4>1 DEF WatchInv, LinesApart
      <4> QED BY <2>3, <2>4, <3>1, <4>2
    <3>2. CASE disk[g].half[i] \notin NewLine(t)
      <4>1. captured[disk[g].half[i]] > 0
        BY <1>9, <2>5, <3>0, <3>2 DEF TakesIn
      <4> QED BY <4>1 DEF WatchInv, LinesApart
    <3> QED BY <3>1, <3>2
  <2>6. ASSUME NEW l \in Lines, l > lines PROVE captured'[l] = 0
    <3>1. lines \in Nat /\ l \in Nat
      BY SessionFacts DEF WatchInv, WatchTypes
    <3>2. l \notin NewLine(t)
      BY <2>4, <2>6, <3>1
    <3>3. captured'[l] = captured[l]
      BY <1>9, <3>2 DEF TakesIn
    <3> QED BY <2>6, <3>3 DEF WatchInv, LinesApart
  <2>7. LinesApart'
    BY <1>2, <2>5, <2>6 DEF WatchInv, LinesApart, Size
  <2> QED BY <1>2, <1>3, <1>5, <1>7, <2>1, <2>2, <2>7 DEF WatchInv
<1> QED BY <1>1, <1>8, <1>9

\* An ingestion keeps WatchInv.
LEMMA WatchIngest ==
    ASSUME WatchInv, NEW b, IngestBatch(b)
    PROVE  WatchInv'
<1>1. UNCHANGED <<disk, lines, positions, saved, events, reading, running, captured, unheard, cut>>
  BY DEF IngestBatch, written
<1>2. WatchTypes' /\ Queue' /\ \A g \in Files \ cut : disk'[g].there \/ Fresh(g)'
  BY <1>1 DEF WatchInv, WatchTypes, Queue, Fresh
<1> QED BY <1>1, <1>2, FilesStay DEF WatchInv

\* A crash keeps WatchInv.
LEMMA WatchCrash ==
    ASSUME WatchInv, Crash
    PROVE  /\ WatchInv' /\ ~running' /\ events' = <<>>
           /\ \A f \in Files : positions'[f] = Untracked
           /\ \A f \in Files : saved'[f] = saved[f] \/ saved'[f] = Untracked
           /\ unheard' = {f \in unheard : saved'[f] # Untracked}
           /\ \A t \in Threads : reading'[t] = Free
           /\ UNCHANGED <<disk, lines, captured, raced, cut>>
<1>1. /\ running' = FALSE /\ events' = <<>> /\ reading' = [t \in Threads |-> Free]
      /\ positions' = [f \in Files |-> Untracked]
      /\ saved' = saved \/ saved' = positions'
      /\ unheard' = {f \in unheard : saved'[f] # Untracked}
      /\ UNCHANGED <<disk, lines, captured, raced, cut>>
  BY DEF Crash, written
<1>2. /\ positions' \in [Files -> Nat \cup {Untracked}] /\ saved' \in [Files -> Nat \cup {Untracked}]
      /\ \A f \in Files : saved'[f] = saved[f] \/ saved'[f] = Untracked
      /\ \A f \in Files : positions'[f] = Untracked
  BY <1>1 DEF WatchInv, WatchTypes
<1>3. /\ \A t \in Threads : reading'[t] = Free
      /\ reading' \in [Threads -> [file : Files \cup {<<>>}, from : Nat, early : BOOLEAN]]
      /\ Free.file = <<>>
  BY <1>1 DEF Free
<1>4. events' \in Seq({"created", "modified", "moved"} \X Files \X Files) /\ DOMAIN events' = {}
  BY <1>1
<1>5. WatchTypes'
  BY <1>1, <1>2, <1>3, <1>4 DEF WatchInv, WatchTypes
<1>6. Queue'
  BY <1>1, <1>3, <1>4 DEF Queue
<1>7. \A g \in Files \ cut : disk'[g].there \/ Fresh(g)'
  BY <1>1, <1>2, <1>3, <1>4, SessionFacts DEF WatchInv, Fresh
<1> QED BY <1>1, <1>2, <1>3, <1>5, <1>6, <1>7, FilesStay DEF WatchInv

\* WatchInv holds at first.
LEMMA WatchInit ==
    ASSUME SessionInit
    PROVE  WatchInv
<1>1. /\ disk = [f \in Files |-> NoFile] /\ lines = 0
      /\ positions = [f \in Files |-> Untracked] /\ saved = positions
      /\ events = <<>> /\ running = FALSE /\ reading = [t \in Threads |-> Free]
      /\ captured = [l \in Lines |-> 0] /\ unheard = {} /\ cut = {}
  BY DEF SessionInit
<1>2. NoFile \in [there : BOOLEAN, half : Seq(Lines)] /\ NoFile.half = <<>> /\ Len(<<>>) = 0
  <2>1. <<>> \in Seq(Lines)
    OBVIOUS
  <2> QED BY <2>1 DEF NoFile
<1>3. disk \in [Files -> [there : BOOLEAN, half : Seq(Lines)]] /\ \A f \in Files : disk[f].half = <<>>
  BY <1>1, <1>2
<1>4. Free \in [file : Files \cup {<<>>}, from : Nat, early : BOOLEAN] /\ Free.file = <<>>
  BY DEF Free
<1>5. events \in Seq({"created", "modified", "moved"} \X Files \X Files) /\ DOMAIN events = {}
  BY <1>1
<1>6. WatchTypes
  <2>1. lines \in 0..MaxLines /\ unheard \subseteq Files /\ cut \subseteq Files /\ running \in BOOLEAN
    <3>1. lines \in 0..MaxLines
      BY <1>1, SessionFacts
    <3>2. running \in BOOLEAN
      BY <1>1
    <3> QED BY <1>1, <3>1, <3>2
  <2>2. positions \in [Files -> Nat \cup {Untracked}] /\ saved \in [Files -> Nat \cup {Untracked}]
    BY <1>1
  <2>3. /\ reading \in [Threads -> [file : Files \cup {<<>>}, from : Nat, early : BOOLEAN]]
        /\ \A t \in Threads : reading[t].file = <<>> => reading[t] = Free
    BY <1>1, <1>4
  <2>4. captured \in [Lines -> Nat]
    BY <1>1
  <2> QED BY <1>3, <1>5, <2>1, <2>2, <2>3, <2>4 DEF WatchTypes
<1>7. LinesApart /\ \A f \in Files : FileShape(f)
  BY <1>1, <1>2, <1>3 DEF LinesApart, FileShape, Size
<1>8. Queue
  BY <1>1, <1>5 DEF Queue
<1>9. \A g \in Files \ cut : Fresh(g)
  BY <1>1, <1>4, <1>5, SessionFacts DEF Fresh
<1> QED BY <1>1, <1>4, <1>6, <1>7, <1>8, <1>9 DEF WatchInv

-----------------------------------------------------------------------------
(* A line is handed over once.                                             *)

\* An empty file is behind every position.
LEMMA EmptyHasNone ==
    ASSUME NEW f \in Files, disk[f].half = <<>>
    PROVE  NoneOver(f) /\ \A p \in Nat \cup {Untracked} : Behind(f, p)
BY DEF NoneOver, Behind, Size

\* A file with nothing over is behind every position.
LEMMA NoneIsBehind ==
    ASSUME NEW f \in Files, NoneOver(f)
    PROVE  \A p \in Nat \cup {Untracked} : Behind(f, p)
BY DEF NoneOver, Behind

\* Only a file with nothing over is behind no position.
LEMMA UntrackedHasNone ==
    ASSUME NEW f \in Files, Behind(f, Untracked)
    PROVE  NoneOver(f)
BY SessionFacts DEF NoneOver, Behind

\* The line may not be handed over again after the step.
NowOver(l) == captured'[l] > 0 /\ l \notin raced'

\* NoneOver and Behind after the step.
LEMMA NowIsPrimed ==
    ASSUME NEW f \in Files
    PROVE  /\ NoneOver(f)' <=> \A i \in 1..Len(disk'[f].half) : ~NowOver(disk'[f].half[i])
           /\ \A p \in Nat \cup {Untracked} :
                 Behind(f, p)' <=> \A i \in 1..Len(disk'[f].half) :
                                     NowOver(disk'[f].half[i]) => p <= Len(disk'[f].half) /\ i <= p
BY DEF NoneOver, Behind, Over, NowOver, Size

\* A file as it was, under its name or another one.
LEMMA SameIsBehind ==
    ASSUME NEW f \in Files, NEW g \in Files, disk'[g] = disk[f],
           \A i \in 1..Size(f) : NowOver(disk[f].half[i]) => Over(disk[f].half[i])
    PROVE  (NoneOver(f) => NoneOver(g)') /\ \A p \in Nat \cup {Untracked} : Behind(f, p) => Behind(g, p)'
<1>1. disk'[g].half = disk[f].half /\ Size(f) = Len(disk[f].half)
  BY DEF Size
<1>2. NoneOver(f) => NoneOver(g)'
  <2>1. NoneOver(f) => \A i \in 1..Len(disk'[g].half) : ~NowOver(disk'[g].half[i])
    BY <1>1 DEF NoneOver
  <2> QED BY <2>1, NowIsPrimed
<1>3. ASSUME NEW p \in Nat \cup {Untracked}, Behind(f, p) PROVE Behind(g, p)'
  <2>1. \A i \in 1..Len(disk'[g].half) : NowOver(disk'[g].half[i]) => p <= Len(disk'[g].half) /\ i <= p
    BY <1>1, <1>3 DEF Behind
  <2> QED BY <2>1, NowIsPrimed
<1> QED BY <1>2, <1>3

\* The appended lines are not over.
LEMMA LongerIsBehind ==
    ASSUME WatchInv, NEW f \in Files, Longer(f), UNCHANGED <<captured, raced>>, NEW g \in Files
    PROVE  (NoneOver(g) => NoneOver(g)') /\ \A p \in Nat \cup {Untracked} : Behind(g, p) => Behind(g, p)'
<1>1. \A l : NowOver(l) <=> Over(l)
  BY DEF Over, NowOver
<1>2. CASE g # f
  <2>1. disk'[g] = disk[g]
    BY <1>2 DEF Longer
  <2> QED BY <1>1, <2>1, SameIsBehind
<1>3. CASE g = f
  <2>1. Size(f) \in Nat /\ Len(disk'[f].half) \in Nat /\ Size(f) <= Len(disk'[f].half)
    BY DEF Longer, Size, WatchInv, WatchTypes
  <2>2. ASSUME NEW i \in 1..Len(disk'[f].half), NowOver(disk'[f].half[i])
        PROVE  i \in 1..Size(f) /\ Over(disk[f].half[i])
    <3>1. ~(captured[disk'[f].half[i]] = 0)
      BY <1>1, <2>2 DEF Over
    <3>2. i \in 1..Size(f)
      BY <2>1, <3>1 DEF Longer, Size
    <3>3. disk'[f].half[i] = disk[f].half[i]
      BY <3>2 DEF Longer
    <3> QED BY <1>1, <2>2, <3>2, <3>3
  <2>3. NoneOver(f) => NoneOver(f)'
    <3>1. NoneOver(f) => \A i \in 1..Len(disk'[f].half) : ~NowOver(disk'[f].half[i])
      BY <2>2 DEF NoneOver
    <3> QED BY <3>1, NowIsPrimed
  <2>4. ASSUME NEW p \in Nat \cup {Untracked}, Behind(f, p) PROVE Behind(f, p)'
    <3>1. p \in Int
      BY SessionFacts
    <3>2. ASSUME NEW i \in 1..Len(disk'[f].half), NowOver(disk'[f].half[i])
          PROVE  p <= Len(disk'[f].half) /\ i <= p
      <4>1. p <= Size(f) /\ i <= p
        BY <2>2, <2>4, <3>2 DEF Behind
      <4> QED BY <2>1, <3>1, <4>1
    <3> QED BY <3>2, NowIsPrimed
  <2> QED BY <1>3, <2>3, <2>4
<1> QED BY <1>2, <1>3

\* The position a thread begins at.
LEMMA FromIsBehind ==
    ASSUME NEW f \in Files, NEW pos \in [Files -> Nat \cup {Untracked}], disk[f].half \in Seq(Lines),
           Behind(f, pos[f])
    PROVE  Behind(f, From(pos, f))
<1>1. CASE pos[f] = Untracked
  BY <1>1, UntrackedHasNone, NoneIsBehind DEF From
<1>2. CASE pos[f] # Untracked /\ pos[f] > Size(f)
  <2>1. NoneOver(f)
    <3>1. Size(f) \in Nat /\ pos[f] \in Nat
      BY <1>2 DEF Size
    <3> QED BY <1>2, <3>1 DEF Behind, NoneOver
  <2> QED BY <1>2, <2>1, NoneIsBehind DEF From
<1>3. CASE pos[f] # Untracked /\ ~(pos[f] > Size(f))
  BY <1>3 DEF From
<1> QED BY <1>1, <1>2, <1>3

\* A file that is there is on its way nowhere.
LEMMA ThereIsNotMoved ==
    ASSUME WatchInv, NEW a \in Files, NEW b \in Files, MovedTo(a, b)
    PROVE  ~disk[a].there /\ disk[a].half = <<>> /\ a # b /\ b \in unheard
<1>1. PICK k \in DOMAIN events : events[k] = <<"moved", a, b>>
  BY DEF MovedTo
<1>2. events[k][1] = "moved" /\ events[k][2] = a /\ events[k][3] = b
  BY <1>1
<1>3. "moved" # "modified"
  OBVIOUS
<1>4. ~disk[a].there /\ a # b /\ b \in unheard
  BY <1>2, <1>3 DEF WatchInv, Queue
<1> QED BY <1>4 DEF WatchInv, FileShape

\* A path that is announced is not heard of.
LEMMA AnnouncedIsUnheard ==
    ASSUME WatchInv, NEW f \in Files, Announced(f)
    PROVE  f \in unheard
BY DEF Announced, Announces, WatchInv, Queue

\* A new file's event announces its path.
LEMMA CreatedIsAnnounced ==
    ASSUME NEW f, Created(f)
    PROVE  Announced(f)
BY DEF Created, Announced

\* A file that is empty after the step has nothing over.
LEMMA NowEmptyHasNone ==
    ASSUME NEW f \in Files, disk'[f].half = <<>>
    PROVE  NoneOver(f)' /\ \A p \in Nat \cup {Untracked} : Behind(f, p)'
<1>1. \A i \in 1..Len(disk'[f].half) : FALSE
  OBVIOUS
<1>2. NoneOver(f)'
  BY <1>1, NowIsPrimed
<1>3. ASSUME NEW p \in Nat \cup {Untracked} PROVE Behind(f, p)'
  BY <1>1, NowIsPrimed
<1> QED BY <1>2, <1>3

\* What is over in a file lies where it lay.
FileKept(g) == (NoneOver(g) => NoneOver(g)') /\ \A p \in Nat \cup {Untracked} : Behind(g, p) => Behind(g, p)'

\* A thread that reads on reads what it read.
LEMMA ReaderStays ==
    ASSUME WatchInv, WatchInv', NEW t \in Threads, Reader(t), reading'[t] = reading[t],
           \A f \in Files : f = reading[t].file /\ disk'[f].there =>
                /\ disk[f].there /\ FileKept(f) /\ (Size(f) <= Size(f)' \/ NoneOver(f)')
                /\ f \notin unheard => f \notin unheard'
    PROVE  Reader(t)'
<1>1. PICK x \in Files \cup {<<>>} : x = reading[t].file
  BY DEF WatchInv, WatchTypes
<1>2. PICK from \in Nat : from = reading[t].from
  BY DEF WatchInv, WatchTypes
<1>3. CASE x = <<>>
  BY <1>1, <1>3 DEF Reader
<1>4. CASE x # <<>> /\ ~disk'[x].there
  BY <1>1, <1>4 DEF Reader
<1>5. CASE x # <<>> /\ disk'[x].there
  <2>1. x \in Files
    BY <1>1, <1>5
  <2>2. /\ disk[x].there /\ FileKept(x) /\ (Size(x) <= Size(x)' \/ NoneOver(x)')
        /\ x \notin unheard => x \notin unheard'
    BY <1>1, <1>5, <2>1
  <2>3. Size(x) \in Nat /\ Size(x)' \in Nat
    <3>1. disk[x].half \in Seq(Lines) /\ disk'[x].half \in Seq(Lines)
      BY <2>1 DEF WatchInv, WatchTypes
    <3> QED BY <3>1 DEF Size
  <2>4. /\ from <= Size(x) \/ NoneOver(x)
        /\ ~reading[t].early => x \notin unheard /\ Behind(x, from)
    BY <1>1, <1>2, <1>5, <2>2 DEF Reader
  <2>5. /\ from <= Size(x)' \/ NoneOver(x)'
        /\ ~reading[t].early => x \notin unheard' /\ Behind(x, from)'
    BY <2>2, <2>3, <2>4 DEF FileKept
  <2> QED BY <1>1, <1>2, <2>5 DEF Reader
<1> QED BY <1>1, <1>3, <1>4, <1>5

\* Nothing new is announced, and no position changes.
Kept ==
    /\ \A g \in Files : FileKept(g)
    /\ \A g \in Files : /\ Announced(g)' => Announced(g)
                        /\ Created(g)' => Created(g)
                        /\ \A b \in Files : MovedTo(g, b)' => MovedTo(g, b)
    /\ UNCHANGED <<positions, saved, running, captured, raced, unheard>>

\* A step that only keeps keeps OnceInv.
LEMMA KeptIsOnce ==
    ASSUME WatchInv, OnceInv, Kept, \A t \in Threads : Reader(t)'
    PROVE  OnceInv'
<1>1. \A g \in Files : FileKept(g)
  BY DEF Kept
<1>2. \A g \in Files : positions[g] \in Nat \cup {Untracked} /\ saved[g] \in Nat \cup {Untracked}
  BY DEF WatchInv, WatchTypes
<1>3. \E h \in [Files -> SUBSET Files] : Heirs(h)' /\ Ahead(h)'
  <2>1. PICK h \in [Files -> SUBSET Files] : Heirs(h) /\ Ahead(h)
    BY DEF OnceInv
  <2>2. Heirs(h)'
    BY <2>1 DEF Heirs, Kept
  <2>3. ASSUME running, NEW a \in Files, NEW x \in h[a]
        PROVE  (a \notin unheard' => Behind(x, positions[a])') /\ (Created(a)' => NoneOver(x)')
    <3>1. x \in Files
      OBVIOUS
    <3>2. (a \notin unheard => Behind(x, positions[a])) /\ (Created(a) => NoneOver(x))
      BY <2>1, <2>3 DEF Ahead
    <3>3. PICK p \in Nat \cup {Untracked} : p = positions[a]
      BY <1>2
    <3>4. FileKept(x) /\ p = positions'[a] /\ unheard' = unheard /\ (Created(a)' => Created(a))
      BY <1>1, <3>1, <3>3 DEF Kept
    <3>5. a \notin unheard' => Behind(x, p)'
      BY <3>2, <3>3, <3>4 DEF FileKept
    <3> QED BY <3>2, <3>4, <3>5 DEF FileKept
  <2>4. Ahead(h)'
    BY <2>3 DEF Ahead, Kept
  <2> QED BY <2>2, <2>4
<1>4. ASSUME NEW g \in Files PROVE Usable(g)'
  <2>1. PICK p \in Nat \cup {Untracked}, q \in Nat \cup {Untracked} : p = positions[g] /\ q = saved[g]
    BY <1>2
  <2>2. /\ g \notin unheard \/ Announced(g) => q = Untracked \/ Behind(g, q)
        /\ Announced(g) => p = Untracked \/ Behind(g, p)
    BY <2>1 DEF OnceInv, Usable
  <2>3. p = positions'[g] /\ q = saved'[g] /\ unheard' = unheard /\ (Announced(g)' => Announced(g))
    BY <2>1 DEF Kept
  <2>4. (Behind(g, p) => Behind(g, p)') /\ (Behind(g, q) => Behind(g, q)')
    BY <1>1 DEF FileKept
  <2>5. /\ g \notin unheard' \/ Announced(g)' => q = Untracked \/ Behind(g, q)'
        /\ Announced(g)' => p = Untracked \/ Behind(g, p)'
    BY <2>2, <2>3, <2>4
  <2> QED BY <2>3, <2>5 DEF Usable
<1>5. CapturedOnce'
  BY DEF OnceInv, CapturedOnce, Kept
<1> QED BY <1>3, <1>4, <1>5 DEF OnceInv

\* A line that is written is not over; a path that is created was not known.
LEMMA OnceWrite ==
    ASSUME WatchInv, OnceInv, NEW f \in Files, Write(f)
    PROVE  OnceInv'
<1> DEFINE kind == IF disk[f].there THEN "modified" ELSE "created"
<1>1. WatchInv' /\ Longer(f) /\ Noted(<<kind, f, f>>)
  BY WatchWrite
<1>2. /\ disk[f].there \/ f \notin cut
      /\ Notify(kind, f, f)
      /\ UNCHANGED <<positions, saved, reading, running, captured, raced, cut>>
  BY DEF Write
<1>3. /\ unheard \subseteq unheard' /\ (disk[f].there => unheard' = unheard)
      /\ \A x \in unheard' \ unheard : x = f
      /\ running /\ ~disk[f].there => f \in unheard'
  BY <1>2 DEF Notify
<1>4. ~disk[f].there => Fresh(f)
  BY <1>2 DEF WatchInv
<1>5. <<kind, f, f>>[1] = kind /\ <<kind, f, f>>[2] = f /\ <<kind, f, f>>[3] = f
  OBVIOUS
<1>6. \A g \in Files : FileKept(g)
  BY <1>1, <1>2, LongerIsBehind DEF FileKept
<1>7. ASSUME NEW a \in Files, NEW b \in Files, MovedTo(a, b)' PROVE MovedTo(a, b) /\ (~disk[f].there => a # f /\ b # f)
  <2>1. PICK k \in DOMAIN events' : events'[k] = <<"moved", a, b>>
    BY <1>7 DEF MovedTo
  <2>2. events'[k][1] = "moved" /\ events'[k][2] = a /\ events'[k][3] = b
    BY <2>1
  <2>3. kind # "moved"
    OBVIOUS
  <2>4. k \in DOMAIN events /\ events'[k] = events[k]
    BY <1>1, <1>5, <2>2, <2>3 DEF Noted
  <2> QED BY <1>4, <2>1, <2>2, <2>4 DEF MovedTo, Fresh
<1>8. ASSUME NEW g \in Files, Announced(g)' PROVE Announced(g) \/ (g = f /\ Fresh(f))
  <2>1. PICK k \in DOMAIN events' : events'[k][1] # "modified" /\ events'[k][3] = g
    BY <1>8 DEF Announced, Announces
  <2>2. CASE k \in DOMAIN events /\ events'[k] = events[k]
    BY <2>1, <2>2 DEF Announced, Announces
  <2>3. CASE events'[k] = <<kind, f, f>>
    <3>1. kind # "modified" /\ g = f
      BY <1>5, <2>1, <2>3
    <3>2. ~disk[f].there
      BY <3>1
    <3> QED BY <1>4, <3>1, <3>2
  <2> QED BY <1>1, <2>2, <2>3 DEF Noted
<1>9. ASSUME NEW g \in Files, Created(g)' PROVE Created(g) \/ (g = f /\ Fresh(f) /\ ~disk[f].there)
  <2>1. PICK k \in DOMAIN events' : events'[k][1] = "created" /\ events'[k][3] = g
    BY <1>9 DEF Created, Announces
  <2>2. CASE k \in DOMAIN events /\ events'[k] = events[k]
    BY <2>1, <2>2 DEF Created, Announces
  <2>3. CASE events'[k] = <<kind, f, f>>
    <3>1. kind # "modified" /\ g = f
      BY <1>5, <2>1, <2>3
    <3>2. ~disk[f].there
      BY <3>1
    <3> QED BY <1>4, <3>1, <3>2
  <2> QED BY <1>1, <2>2, <2>3 DEF Noted
<1> HIDE DEF kind
<1>10. \A g \in Files : positions[g] \in Nat \cup {Untracked} /\ saved[g] \in Nat \cup {Untracked}
  BY DEF WatchInv, WatchTypes
<1>11. ~disk[f].there => NoneOver(f)'
  <2>1. ~disk[f].there => NoneOver(f)
    BY EmptyHasNone DEF WatchInv, FileShape
  <2> QED BY <1>6, <2>1 DEF FileKept
<1>12. \E h \in [Files -> SUBSET Files] : Heirs(h)' /\ Ahead(h)'
  <2>1. PICK h \in [Files -> SUBSET Files] : Heirs(h) /\ Ahead(h)
    BY DEF OnceInv
  <2>2. PICK m \in [Files -> SUBSET Files] :
           m = [a \in Files |-> IF ~disk[f].there /\ a = f THEN {f} ELSE h[a]]
    OBVIOUS
  <2>3. \A a \in Files : a \in m[a] /\ m[a] \subseteq h[a] /\ (~disk[f].there /\ a = f => m[a] = {f})
    BY <2>1, <2>2 DEF Heirs
  <2>4. Heirs(m)'
    <3>1. ASSUME NEW a \in Files, NEW b \in Files, MovedTo(a, b)' PROVE m[b] \subseteq m[a]
      <4>1. MovedTo(a, b) /\ (~disk[f].there => a # f /\ b # f)
        BY <1>7, <3>1
      <4>2. m[a] = h[a] /\ m[b] = h[b]
        BY <2>2, <4>1
      <4> QED BY <2>1, <4>1, <4>2 DEF Heirs
    <3> QED BY <2>3, <3>1 DEF Heirs
  <2>5. ASSUME running, NEW a \in Files, NEW x \in m[a]
        PROVE  (a \notin unheard' => Behind(x, positions[a])') /\ (Created(a)' => NoneOver(x)')
    <3>1. x \in Files /\ x \in h[a]
      BY <2>3
    <3>2. (a \notin unheard => Behind(x, positions[a])) /\ (Created(a) => NoneOver(x))
      BY <2>1, <2>5, <3>1 DEF Ahead
    <3>3. a \notin unheard' => Behind(x, positions[a])'
      <4>1. PICK p \in Nat \cup {Untracked} : p = positions[a]
        BY <1>10
      <4>2. Behind(x, p) => Behind(x, p)'
        BY <1>6, <3>1 DEF FileKept
      <4>3. p = positions'[a]
        BY <1>2, <4>1
      <4> QED BY <1>3, <3>2, <4>1, <4>2, <4>3
    <3>4. Created(a)' => NoneOver(x)'
      <4>1. CASE Created(a)
        BY <1>6, <3>1, <3>2, <4>1 DEF FileKept
      <4>2. CASE a = f /\ ~disk[f].there
        <5>1. x = f
          BY <2>3, <4>2
        <5> QED BY <1>11, <4>2, <5>1
      <4> QED BY <1>9, <4>1, <4>2
    <3> QED BY <3>3, <3>4
  <2>6. Ahead(m)'
    BY <1>2, <2>5 DEF Ahead
  <2> QED BY <2>4, <2>6
<1>13. ASSUME NEW g \in Files PROVE Usable(g)'
  <2>1. PICK p \in Nat \cup {Untracked}, q \in Nat \cup {Untracked} : p = positions[g] /\ q = saved[g]
    BY <1>10
  <2>2. /\ g \notin unheard \/ Announced(g) => q = Untracked \/ Behind(g, q)
        /\ Announced(g) => p = Untracked \/ Behind(g, p)
    BY <2>1 DEF OnceInv, Usable
  <2>3. p = positions'[g] /\ q = saved'[g]
    BY <1>2, <2>1
  <2>4. CASE g = f /\ Fresh(f)
    BY <2>1, <2>3, <2>4 DEF Fresh, Usable
  <2>5. CASE ~(g = f /\ Fresh(f))
    <3>1. Announced(g)' => Announced(g)
      BY <1>8, <2>5
    <3>2. (Behind(g, p) => Behind(g, p)') /\ (Behind(g, q) => Behind(g, q)')
      BY <1>6 DEF FileKept
    <3>3. /\ g \notin unheard' \/ Announced(g)' => q = Untracked \/ Behind(g, q)'
          /\ Announced(g)' => p = Untracked \/ Behind(g, p)'
      BY <1>3, <2>2, <3>1, <3>2
    <3> QED BY <2>3, <3>3 DEF Usable
  <2> QED BY <2>4, <2>5
<1>14. ASSUME NEW t \in Threads PROVE Reader(t)'
  <2>1. ASSUME NEW x \in Files, x = reading[t].file, disk'[x].there
        PROVE  disk[x].there /\ FileKept(x) /\ Size(x) <= Size(x)' /\ (x \notin unheard => x \notin unheard')
    <3>1. ~(x = f /\ ~disk[f].there)
      BY <1>4, <2>1 DEF Fresh
    <3>2. disk[x].there
      BY <1>1, <2>1, <3>1 DEF Longer
    <3>3. Size(x) <= Size(x)'
      <4>1. CASE x = f
        BY <1>1, <4>1 DEF Longer
      <4>2. CASE x # f
        <5>1. disk'[x] = disk[x] /\ Len(disk[x].half) \in Nat
          BY <1>1, <4>2 DEF Longer, WatchInv, WatchTypes
        <5> QED BY <5>1 DEF Size
      <4> QED BY <4>1, <4>2
    <3> QED BY <1>3, <1>6, <3>1, <3>2, <3>3
  <2> QED BY <1>1, <1>2, <2>1, ReaderStays DEF OnceInv
<1>15. CapturedOnce'
  BY <1>2 DEF OnceInv, CapturedOnce
<1> QED BY <1>12, <1>13, <1>14, <1>15 DEF OnceInv

\* The events that are left were there.
LEMMA DroppedIsOld ==
    ASSUME Dropped, NEW g
    PROVE  /\ Announced(g)' => Announced(g)
           /\ Created(g)' => Created(g)
           /\ \A b : MovedTo(g, b)' => MovedTo(g, b)
<1>1. \A k \in DOMAIN events' : \E j \in DOMAIN events : events'[k] = events[j]
  BY DEF Dropped
<1>2. Announced(g)' => Announced(g)
  BY <1>1 DEF Announced, Announces
<1>3. Created(g)' => Created(g)
  BY <1>1 DEF Created, Announces
<1>4. ASSUME NEW b, MovedTo(g, b)' PROVE MovedTo(g, b)
  BY <1>1, <1>4 DEF MovedTo
<1> QED BY <1>2, <1>3, <1>4

\* A truncation keeps OnceInv: the file has nothing left to hand over.
LEMMA OnceTruncate ==
    ASSUME WatchInv, OnceInv, NEW f \in Files, Truncate(f)
    PROVE  OnceInv'
<1>1. WatchInv' /\ Emptied(f) /\ Noted(<<"modified", f, f>>)
  BY WatchTruncate
<1>2. UNCHANGED <<positions, saved, reading, running, captured, raced>> /\ unheard' = unheard
  BY DEF Truncate, Notify
<1>3. \A k \in DOMAIN events' : (k \in DOMAIN events /\ events'[k] = events[k]) \/ events'[k][1] = "modified"
  <2>1. <<"modified", f, f>>[1] = "modified"
    OBVIOUS
  <2> QED BY <1>1, <2>1 DEF Noted
<1>4. \A l : NowOver(l) <=> Over(l)
  BY <1>2 DEF Over, NowOver
<1>5. ASSUME NEW g \in Files PROVE FileKept(g)
  <2>1. CASE g = f
    <3>1. disk'[f].half = <<>>
      BY <1>1 DEF Emptied
    <3>2. NoneOver(f)' /\ \A p \in Nat \cup {Untracked} : Behind(f, p)'
      BY <3>1, NowEmptyHasNone
    <3> QED BY <2>1, <3>2 DEF FileKept
  <2>2. CASE g # f
    <3>1. disk'[g] = disk[g]
      BY <1>1, <2>2 DEF Emptied
    <3> QED BY <1>4, <3>1, SameIsBehind DEF FileKept
  <2> QED BY <2>1, <2>2
<1>6. /\ \A g \in Files : Announced(g)' => Announced(g)
      /\ \A g \in Files : Created(g)' => Created(g)
  BY <1>3 DEF Announced, Created, Announces
<1>7. ASSUME NEW g \in Files, NEW b \in Files, MovedTo(g, b)' PROVE MovedTo(g, b)
  <2>1. PICK k \in DOMAIN events' : events'[k] = <<"moved", g, b>>
    BY <1>7 DEF MovedTo
  <2>2. events'[k][1] = "moved"
    BY <2>1
  <2> QED BY <1>3, <2>1, <2>2 DEF MovedTo
<1>8. Kept
  BY <1>2, <1>5, <1>6, <1>7 DEF Kept
<1>9. ASSUME NEW t \in Threads PROVE Reader(t)'
  <2>1. ASSUME NEW x \in Files
        PROVE  disk'[x].there => disk[x].there /\ (Size(x) <= Size(x)' \/ NoneOver(x)')
    <3>1. CASE x = f
      <4>1. disk'[x].half = <<>> /\ disk[x].there
        BY <1>1, <3>1 DEF Emptied
      <4> QED BY <4>1, NowEmptyHasNone
    <3>2. CASE x # f
      <4>1. disk'[x] = disk[x] /\ Len(disk[x].half) \in Nat
        BY <1>1, <3>2 DEF Emptied, WatchInv, WatchTypes
      <4> QED BY <4>1 DEF Size
    <3> QED BY <3>1, <3>2
  <2> QED BY <1>1, <1>2, <1>5, <2>1, ReaderStays DEF OnceInv
<1> QED BY <1>8, <1>9, KeptIsOnce

\* A missed event keeps OnceInv: fewer names are on their way.
LEMMA OnceMiss ==
    ASSUME WatchInv, OnceInv, MissEvent
    PROVE  OnceInv'
<1>1. WatchInv' /\ Dropped
  BY WatchMiss
<1>2. UNCHANGED <<disk, positions, saved, reading, running, captured, raced, unheard>>
  BY DEF MissEvent, written, history
<1>3. \A l : NowOver(l) <=> Over(l)
  BY <1>2 DEF Over, NowOver
<1>4. \A g \in Files : FileKept(g)
  BY <1>2, <1>3, SameIsBehind DEF FileKept
<1>5. Kept
  BY <1>1, <1>2, <1>4, DroppedIsOld DEF Kept
<1>6. ASSUME NEW t \in Threads PROVE Reader(t)'
  <2>1. \A x \in Files : Size(x)' = Size(x) /\ Size(x) \in Nat
    BY <1>2 DEF Size, WatchInv, WatchTypes
  <2> QED BY <1>1, <1>2, <1>4, <2>1, ReaderStays DEF OnceInv
<1> QED BY <1>5, <1>6, KeptIsOnce

\* A rename keeps OnceInv: whatever may come to be about the old name may come to be about the new one.
LEMMA OnceRename ==
    ASSUME WatchInv, OnceInv, NEW f \in Files, NEW g \in Files, Rename(f, g)
    PROVE  OnceInv'
<1>1. WatchInv' /\ Renamed(f, g) /\ f # g /\ Fresh(g) /\ Noted(<<"moved", f, g>>)
  BY WatchRename
<1>2. /\ Notify("moved", f, g)
      /\ UNCHANGED <<positions, saved, reading, running, captured, raced>>
  BY DEF Rename
<1>3. /\ unheard \subseteq unheard' /\ (\A x \in unheard' \ unheard : x = g) /\ (running => g \in unheard')
  BY <1>2 DEF Notify
<1>4. \A l : NowOver(l) <=> Over(l)
  BY <1>2 DEF Over, NowOver
<1>5. <<"moved", f, g>>[1] = "moved" /\ <<"moved", f, g>>[2] = f /\ <<"moved", f, g>>[3] = g
  OBVIOUS
<1>6. ASSUME NEW x \in Files \ {g} PROVE FileKept(x)
  <2>1. CASE x = f
    <3>1. disk'[f].half = <<>>
      BY <1>1 DEF Renamed
    <3> QED BY <2>1, <3>1, NowEmptyHasNone DEF FileKept
  <2>2. CASE x # f
    <3>1. disk'[x] = disk[x]
      BY <1>1, <2>2 DEF Renamed
    <3> QED BY <1>4, <3>1, SameIsBehind DEF FileKept
  <2> QED BY <2>1, <2>2
<1>7. (NoneOver(f) => NoneOver(g)') /\ \A p \in Nat \cup {Untracked} : Behind(f, p) => Behind(g, p)'
  <2>1. disk'[g] = disk[f]
    BY <1>1 DEF Renamed
  <2> QED BY <1>4, <2>1, SameIsBehind
<1>8. ASSUME NEW a \in Files, NEW b \in Files, MovedTo(a, b)'
      PROVE  (MovedTo(a, b) /\ a # g /\ b # g) \/ (a = f /\ b = g)
  <2>1. PICK k \in DOMAIN events' : events'[k] = <<"moved", a, b>>
    BY <1>8 DEF MovedTo
  <2>2. events'[k][2] = a /\ events'[k][3] = b
    BY <2>1
  <2>3. CASE k \in DOMAIN events /\ events'[k] = events[k]
    <3>1. MovedTo(a, b)
      BY <2>1, <2>3 DEF MovedTo
    <3>2. events[k][2] # g /\ events[k][3] # g
      BY <1>1, <2>3 DEF Fresh
    <3>3. events[k][2] = a /\ events[k][3] = b
      BY <2>2, <2>3
    <3> QED BY <3>1, <3>2, <3>3
  <2>4. CASE events'[k] = <<"moved", f, g>>
    BY <1>5, <2>2, <2>4
  <2> QED BY <1>1, <2>3, <2>4 DEF Noted
<1>9. ASSUME NEW a \in Files, Announced(a)' PROVE Announced(a) \/ a = g
  <2>1. PICK k \in DOMAIN events' : events'[k][1] # "modified" /\ events'[k][3] = a
    BY <1>9 DEF Announced, Announces
  <2>2. CASE k \in DOMAIN events /\ events'[k] = events[k]
    BY <2>1, <2>2 DEF Announced, Announces
  <2>3. CASE events'[k] = <<"moved", f, g>>
    BY <1>5, <2>1, <2>3
  <2> QED BY <1>1, <2>2, <2>3 DEF Noted
<1>10. ASSUME NEW a \in Files, Created(a)' PROVE Created(a) /\ a # g
  <2>1. PICK k \in DOMAIN events' : events'[k][1] = "created" /\ events'[k][3] = a
    BY <1>10 DEF Created, Announces
  <2>2. k \in DOMAIN events /\ events'[k] = events[k]
    BY <1>1, <1>5, <2>1 DEF Noted
  <2> QED BY <1>1, <2>1, <2>2 DEF Created, Announces, Fresh
<1>11. \A a \in Files : positions[a] \in Nat \cup {Untracked} /\ saved[a] \in Nat \cup {Untracked}
  BY DEF WatchInv, WatchTypes
<1>12. \E h \in [Files -> SUBSET Files] : Heirs(h)' /\ Ahead(h)'
  <2>1. PICK h \in [Files -> SUBSET Files] : Heirs(h) /\ Ahead(h)
    BY DEF OnceInv
  <2>2. PICK m \in [Files -> SUBSET Files] :
           m = [a \in Files |-> IF a = g THEN {g} ELSE (h[a] \ {g}) \cup (IF f \in h[a] THEN {g} ELSE {})]
    OBVIOUS
  <2>3. /\ m[g] = {g}
        /\ \A a \in Files \ {g} : \A x \in Files : x \in m[a] <=> (x # g /\ x \in h[a]) \/ (x = g /\ f \in h[a])
    BY <2>2
  <2>4. Heirs(m)'
    <3>1. ASSUME NEW a \in Files, NEW b \in Files, MovedTo(a, b)' PROVE m[b] \subseteq m[a]
      <4>1. CASE MovedTo(a, b) /\ a # g /\ b # g
        <5>1. h[b] \subseteq h[a]
          BY <2>1, <4>1 DEF Heirs
        <5> QED BY <2>3, <4>1, <5>1
      <4>2. CASE a = f /\ b = g
        <5>1. f \in h[f]
          BY <2>1 DEF Heirs
        <5> QED BY <1>1, <2>3, <4>2, <5>1
      <4> QED BY <1>8, <3>1, <4>1, <4>2
    <3>2. \A a \in Files : a \in m[a]
      BY <2>1, <2>3 DEF Heirs
    <3> QED BY <3>1, <3>2 DEF Heirs
  <2>5. ASSUME running, NEW a \in Files, NEW x \in m[a]
        PROVE  (a \notin unheard' => Behind(x, positions[a])') /\ (Created(a)' => NoneOver(x)')
    <3>1. CASE a = g
      BY <1>3, <1>10, <2>5, <3>1
    <3>2. CASE a # g
      <4>1. PICK p \in Nat \cup {Untracked} : p = positions[a] /\ p = positions'[a]
        BY <1>2, <1>11
      <4>2. a \notin unheard' => a \notin unheard
        BY <1>3
      <4>3. CASE x # g
        <5>1. x \in h[a]
          BY <2>3, <3>2, <4>3
        <5>2. (a \notin unheard => Behind(x, p)) /\ (Created(a) => NoneOver(x))
          BY <2>1, <2>5, <4>1, <5>1 DEF Ahead
        <5>3. FileKept(x)
          BY <1>6, <4>3
        <5>4. (a \notin unheard' => Behind(x, p)') /\ (Created(a)' => NoneOver(x)')
          BY <1>10, <4>2, <5>2, <5>3 DEF FileKept
        <5> QED BY <4>1, <5>4
      <4>4. CASE x = g
        <5>1. f \in h[a]
          BY <2>3, <3>2, <4>4
        <5>2. (a \notin unheard => Behind(f, p)) /\ (Created(a) => NoneOver(f))
          BY <2>1, <2>5, <4>1, <5>1 DEF Ahead
        <5>3. (a \notin unheard' => Behind(x, p)') /\ (Created(a)' => NoneOver(x)')
          BY <1>7, <1>10, <4>2, <4>4, <5>2
        <5> QED BY <4>1, <5>3
      <4> QED BY <4>3, <4>4
    <3> QED BY <3>1, <3>2
  <2>6. Ahead(m)'
    BY <1>2, <2>5 DEF Ahead
  <2> QED BY <2>4, <2>6
<1>13. ASSUME NEW a \in Files PROVE Usable(a)'
  <2>1. PICK p \in Nat \cup {Untracked}, q \in Nat \cup {Untracked} : p = positions[a] /\ q = saved[a]
    BY <1>11
  <2>2. /\ a \notin unheard \/ Announced(a) => q = Untracked \/ Behind(a, q)
        /\ Announced(a) => p = Untracked \/ Behind(a, p)
    BY <2>1 DEF OnceInv, Usable
  <2>3. p = positions'[a] /\ q = saved'[a]
    BY <1>2, <2>1
  <2>4. CASE a = g
    BY <1>1, <2>1, <2>3, <2>4 DEF Fresh, Usable
  <2>5. CASE a # g
    <3>1. Announced(a)' => Announced(a)
      BY <1>9, <2>5
    <3>2. FileKept(a)
      BY <1>6, <2>5
    <3>3. /\ a \notin unheard' \/ Announced(a)' => q = Untracked \/ Behind(a, q)'
          /\ Announced(a)' => p = Untracked \/ Behind(a, p)'
      BY <1>3, <2>2, <3>1, <3>2 DEF FileKept
    <3> QED BY <2>3, <3>3 DEF Usable
  <2> QED BY <2>4, <2>5
<1>14. ASSUME NEW t \in Threads PROVE Reader(t)'
  <2>1. ASSUME NEW x \in Files, x = reading[t].file, disk'[x].there
        PROVE  /\ disk[x].there /\ FileKept(x) /\ Size(x) <= Size(x)'
               /\ x \notin unheard => x \notin unheard'
    <3>1. x # g /\ x # f
      BY <1>1, <2>1 DEF Fresh, Renamed
    <3>2. disk'[x] = disk[x] /\ Len(disk[x].half) \in Nat
      BY <1>1, <3>1 DEF Renamed, WatchInv, WatchTypes
    <3> QED BY <1>3, <1>6, <2>1, <3>1, <3>2 DEF Size
  <2> QED BY <1>1, <1>2, <2>1, ReaderStays DEF OnceInv
<1>15. CapturedOnce'
  BY <1>2 DEF OnceInv, CapturedOnce
<1> QED BY <1>12, <1>13, <1>14, <1>15 DEF OnceInv

\* A start keeps OnceInv: a saved position is usable, and the end of a file is behind nothing.
LEMMA OnceStart ==
    ASSUME WatchInv, OnceInv, StartWatching
    PROVE  OnceInv'
<1>1. /\ ~running /\ positions' = [f \in Files |-> Resume(f)]
      /\ UNCHANGED <<disk, saved, events, reading, captured, unheard, raced>>
  BY DEF StartWatching, written
<1>2. events = <<>> /\ \A t \in Threads : reading[t] = Free
  BY <1>1 DEF WatchInv, Queue
<1>3. \A l : NowOver(l) <=> Over(l)
  BY <1>1 DEF Over, NowOver
<1>4. \A g \in Files : FileKept(g)
  BY <1>1, <1>3, SameIsBehind DEF FileKept
<1>5. \A a : ~Announced(a)' /\ ~Created(a)' /\ \A b : ~MovedTo(a, b)'
  BY <1>1, <1>2 DEF Announced, Created, MovedTo
<1>6. ASSUME NEW a \in Files, a \notin unheard PROVE Behind(a, Resume(a))
  <2>1. saved[a] = Untracked \/ Behind(a, saved[a])
    BY <1>6 DEF OnceInv, Usable
  <2>2. disk[a].half \in Seq(Lines) /\ Size(a) \in Nat
    BY DEF WatchInv, WatchTypes, Size
  <2>3. CASE saved[a] = Untracked /\ disk[a].there
    BY <2>2, <2>3 DEF Resume, Behind
  <2>4. CASE saved[a] = Untracked /\ ~disk[a].there
    <3>1. disk[a].half = <<>>
      BY <2>4 DEF WatchInv, FileShape
    <3> QED BY <2>4, <3>1, EmptyHasNone DEF Resume
  <2>5. CASE saved[a] # Untracked
    BY <2>1, <2>5 DEF Resume
  <2> QED BY <2>3, <2>4, <2>5
<1>7. \E h \in [Files -> SUBSET Files] : Heirs(h)' /\ Ahead(h)'
  <2>1. PICK h \in [Files -> SUBSET Files] : h = [a \in Files |-> {a}]
    OBVIOUS
  <2>2. Heirs(h)'
    BY <1>5, <2>1 DEF Heirs
  <2>3. ASSUME NEW a \in Files, NEW x \in h[a]
        PROVE  (a \notin unheard' => Behind(x, positions[a])') /\ (Created(a)' => NoneOver(x)')
    <3>1. PICK p : p = Resume(a) /\ p = positions'[a]
      BY <1>1
    <3>2. p \in Nat \cup {Untracked}
      BY <1>1, <3>1, WatchStart DEF WatchInv, WatchTypes
    <3>3. x = a /\ (a \notin unheard' => Behind(a, p)')
      BY <1>1, <1>4, <1>6, <2>1, <3>1, <3>2 DEF FileKept
    <3> QED BY <1>5, <3>1, <3>3
  <2> QED BY <2>2, <2>3 DEF Ahead
<1>8. ASSUME NEW a \in Files PROVE Usable(a)'
  <2>1. PICK q \in Nat \cup {Untracked} : q = saved[a] /\ q = saved'[a]
    BY <1>1 DEF WatchInv, WatchTypes
  <2>2. a \notin unheard => q = Untracked \/ Behind(a, q)'
    BY <1>4, <2>1 DEF OnceInv, Usable, FileKept
  <2> QED BY <1>1, <1>5, <2>1, <2>2 DEF Usable
<1>9. \A t \in Threads : Reader(t)'
  BY <1>1, <1>2 DEF Reader, Free
<1> QED BY <1>1, <1>7, <1>8, <1>9 DEF OnceInv, CapturedOnce

\* OnceInv only speaks of these variables.
LEMMA OnceUnchanged ==
    ASSUME OnceInv, UNCHANGED <<disk, positions, saved, events, reading, running, captured, unheard, raced>>
    PROVE  OnceInv'
BY DEF OnceInv, CapturedOnce, Heirs, Ahead, Usable, Reader, Behind, NoneOver, Over, Size,
       MovedTo, Announced, Created, Announces

\* An ingestion keeps OnceInv.
LEMMA OnceIngest ==
    ASSUME WatchInv, OnceInv, NEW b, IngestBatch(b)
    PROVE  OnceInv'
<1>1. UNCHANGED <<disk, positions, saved, events, reading, running, captured, unheard, raced>>
  BY DEF IngestBatch, written
<1> QED BY <1>1, OnceUnchanged

\* A crash keeps OnceInv: what it leaves saved of a path that is not heard of stays unheard of.
LEMMA OnceCrash ==
    ASSUME WatchInv, OnceInv, Crash
    PROVE  OnceInv'
<1>1. /\ ~running' /\ events' = <<>>
      /\ \A f \in Files : saved'[f] = saved[f] \/ saved'[f] = Untracked
      /\ unheard' = {f \in unheard : saved'[f] # Untracked}
      /\ \A t \in Threads : reading'[t] = Free
      /\ UNCHANGED <<disk, lines, captured, raced, cut>>
  BY WatchCrash
<1>2. \A l : NowOver(l) <=> Over(l)
  BY <1>1 DEF Over, NowOver
<1>3. \A g \in Files : FileKept(g)
  BY <1>1, <1>2, SameIsBehind DEF FileKept
<1>4. \A a : ~Announced(a)' /\ ~Created(a)' /\ \A b : ~MovedTo(a, b)'
  BY <1>1 DEF Announced, Created, MovedTo
<1>5. \E h \in [Files -> SUBSET Files] : Heirs(h)' /\ Ahead(h)'
  <2>1. PICK h \in [Files -> SUBSET Files] : h = [a \in Files |-> {a}]
    OBVIOUS
  <2> QED BY <1>1, <1>4, <2>1 DEF Heirs, Ahead
<1>6. ASSUME NEW a \in Files PROVE Usable(a)'
  <2>1. PICK q \in Nat \cup {Untracked} : q = saved[a]
    BY DEF WatchInv, WatchTypes
  <2>2. a \notin unheard => q = Untracked \/ Behind(a, q)'
    BY <1>3, <2>1 DEF OnceInv, Usable, FileKept
  <2>3. a \notin unheard' => saved'[a] = Untracked \/ (saved'[a] = q /\ Behind(a, q)')
    BY <1>1, <2>1, <2>2
  <2>4. a \notin unheard' => saved'[a] = Untracked \/ Behind(a, saved[a])'
    <3>1. CASE saved'[a] = q
      BY <2>3, <3>1
    <3>2. CASE saved'[a] # q
      BY <2>3, <3>2
    <3> QED BY <3>1, <3>2
  <2> QED BY <1>4, <2>4 DEF Usable
<1>7. \A t \in Threads : Reader(t)'
  BY <1>1 DEF Reader, Free
<1> QED BY <1>1, <1>5, <1>6, <1>7 DEF OnceInv, CapturedOnce

\* A thread that begins on time finds what is over behind it.
LEMMA BegunReads ==
    ASSUME WatchInv, WatchInv', NEW t \in Threads, NEW pos \in [Files -> Nat \cup {Untracked}], NEW f \in Files,
           Begun(t, pos, f), disk' = disk, f \notin unheard' => Behind(f, pos[f])',
           \A l : NowOver(l) <=> Over(l)
    PROVE  Reader(t)'
<1>1. /\ reading'[t].file = f /\ reading'[t].from = From(pos, f) /\ Size(f) > From(pos, f)
      /\ reading'[t].early <=> f \in unheard'
  BY DEF Begun
<1>2. PICK p \in Nat \cup {Untracked} : p = pos[f]
  OBVIOUS
<1>3. FileKept(f) /\ disk[f].half \in Seq(Lines)
  BY SameIsBehind DEF FileKept, WatchInv, WatchTypes
<1>4. PICK from \in Nat : from = From(pos, f)
  BY <1>2, SessionFacts DEF From
<1>5. f \notin unheard' => Behind(f, from)'
  <2>1. ASSUME Behind(f, p)' PROVE Behind(f, p)
    BY <2>1 DEF Behind, NoneOver, Size, Over, NowOver
  <2>2. f \notin unheard' => Behind(f, pos[f])
    BY <1>2, <2>1
  <2>3. f \notin unheard' => Behind(f, from)
    BY <1>3, <1>4, <2>2, FromIsBehind
  <2> QED BY <1>3, <2>3 DEF FileKept
<1>6. from <= Size(f)'
  BY <1>1, <1>3, <1>4 DEF Size
<1> QED BY <1>1, <1>4, <1>5, <1>6 DEF Reader

\* The scan keeps OnceInv: it begins at the position, or does not know the path.
LEMMA OnceScan ==
    ASSUME WatchInv, OnceInv, NEW f \in Files, Scan(f)
    PROVE  OnceInv'
<1>1. WatchInv' /\ Begun("loop", positions, f) /\ "loop" \in Threads
  BY WatchScan DEF Threads
<1>2. UNCHANGED <<disk, positions, saved, events, running, captured, unheard, raced>> /\ running
  BY DEF Scan, written
<1>3. \A l : NowOver(l) <=> Over(l)
  BY <1>2 DEF Over, NowOver
<1>4. \A g \in Files : FileKept(g)
  BY <1>2, <1>3, SameIsBehind DEF FileKept
<1>5. PICK pos \in [Files -> Nat \cup {Untracked}] : pos = positions
  BY DEF WatchInv, WatchTypes
<1>6. f \notin unheard' => Behind(f, pos[f])'
  <2>1. PICK h \in [Files -> SUBSET Files] : Heirs(h) /\ Ahead(h)
    BY DEF OnceInv
  <2>2. f \notin unheard => Behind(f, pos[f])
    BY <1>2, <1>5, <2>1 DEF Heirs, Ahead
  <2>3. PICK p \in Nat \cup {Untracked} : p = pos[f]
    OBVIOUS
  <2> QED BY <1>2, <1>4, <2>2, <2>3 DEF FileKept
<1>7. Reader("loop")'
  BY <1>1, <1>2, <1>3, <1>5, <1>6, BegunReads
<1>8. ASSUME NEW t \in Threads, t # "loop" PROVE Reader(t)'
  <2>1. \A x \in Files : Size(x)' = Size(x) /\ Size(x) \in Nat
    BY <1>2 DEF Size, WatchInv, WatchTypes
  <2>2. reading'[t] = reading[t]
    BY <1>1, <1>8 DEF Begun
  <2> QED BY <1>1, <1>2, <1>4, <2>1, <2>2, ReaderStays DEF OnceInv
<1>9. Kept
  BY <1>2, <1>4 DEF Kept, Announced, Created, Announces, MovedTo
<1> QED BY <1>7, <1>8, <1>9, KeptIsOnce

\* The event that announces a path is the only one.
LEMMA AnnouncedOnce ==
    ASSUME WatchInv, Dropped, Head(events)[1] # "modified", NEW g, g = Head(events)[3]
    PROVE  ~Announced(g)' /\ Announced(g)
<1>1. 1 \in DOMAIN events /\ Head(events) = events[1]
  BY DEF Dropped, WatchInv, WatchTypes
<1>2. Announced(g)
  BY <1>1 DEF Announced, Announces
<1>3. ASSUME NEW k \in DOMAIN events', events'[k][1] # "modified", events'[k][3] = g PROVE FALSE
  <2>1. PICK m \in DOMAIN events : m = k + 1 /\ m # 1 /\ events'[k] = events[m]
    BY DEF Dropped
  <2> QED BY <1>1, <1>3, <2>1 DEF WatchInv, Queue
<1>4. ~Announced(g)'
  BY <1>3 DEF Announced, Announces
<1> QED BY <1>2, <1>4

\* The observer's step without the reading: events, positions and what is unheard.
Handled(e, f, g) ==
    /\ e = Head(events) /\ f = e[2] /\ g = e[3] /\ f \in Files /\ g \in Files
    /\ e[1] \in {"created", "modified", "moved"} /\ e \in EventSet
    /\ positions' = Moved(e) /\ unheard' = Heard(e) /\ Dropped /\ running
    /\ UNCHANGED <<disk, saved, running, captured, raced>>

\* An event hands the position of the old name to the new one, and what was ahead of it is still.
LEMMA HandledIsAhead ==
    ASSUME WatchInv, WatchInv', OnceInv, NEW e, NEW f, NEW g, Handled(e, f, g)
    PROVE  /\ \E h \in [Files -> SUBSET Files] : Heirs(h)' /\ Ahead(h)'
           /\ \A x \in Files : Usable(x)'
<1>1. PICK h \in [Files -> SUBSET Files] : Heirs(h) /\ Ahead(h)
  BY DEF OnceInv
<1>2. \A l : NowOver(l) <=> Over(l)
  BY DEF Handled, Over, NowOver
<1>3. \A x \in Files : FileKept(x)
  BY <1>2, SameIsBehind DEF FileKept, Handled
<1>4. \A x \in Files : /\ positions[x] \in Nat \cup {Untracked} /\ saved[x] \in Nat \cup {Untracked}
                       /\ positions'[x] \in Nat \cup {Untracked}
  BY DEF WatchInv, WatchTypes
<1>5. \A x : /\ Announced(x)' => Announced(x)
             /\ Created(x)' => Created(x)
             /\ \A b : MovedTo(x, b)' => MovedTo(x, b)
  BY DroppedIsOld DEF Handled
<1>6. e[1] # "modified" => ~Announced(g)' /\ Announced(g) /\ g \in unheard
  BY AnnouncedOnce, AnnouncedIsUnheard DEF Handled
<1>7. 1 \in DOMAIN events /\ events[1] = e
  BY DEF Handled, Dropped, WatchInv, WatchTypes
<1>8. e[1] = "moved" => MovedTo(f, g) /\ f # g /\ ~disk[f].there /\ disk[f].half = <<>>
  <2>1. e[1] = "moved" => e = <<"moved", f, g>>
    BY DEF Handled, EventSet
  <2>2. e[1] = "moved" => MovedTo(f, g)
    BY <1>7, <2>1 DEF MovedTo
  <2> QED BY <2>2, ThereIsNotMoved DEF Handled
<1>9. e[1] = "created" => Created(g)
  BY <1>7 DEF Created, Announces, Handled
<1>10. e[1] = "moved" => \A b : ~MovedTo(f, b)'
  <2>1. ASSUME e[1] = "moved", NEW b, MovedTo(f, b)' PROVE FALSE
    <3>1. PICK k \in DOMAIN events' : events'[k] = <<"moved", f, b>>
      BY <2>1 DEF MovedTo
    <3>2. PICK m \in DOMAIN events : m = k + 1 /\ m # 1 /\ events'[k] = events[m]
      BY DEF Dropped, Handled
    <3>3. events[m][1] = "moved" /\ events[m][2] = f
      BY <3>1, <3>2
    <3>4. events[1][1] = "moved" /\ events[1][2] = f
      BY <1>7, <2>1 DEF Handled
    <3> QED BY <1>7, <3>2, <3>3, <3>4 DEF WatchInv, Queue
  <2> QED BY <2>1
<1>11. unheard' \subseteq unheard /\ \A x \in unheard \ unheard' : x = g /\ (e[1] = "moved" => f \notin unheard)
  BY DEF Handled, Heard
\* What the positions are after the step.
<1>12. ASSUME NEW x \in Files, x # g, x # f PROVE positions'[x] = positions[x]
  BY <1>12, MovedMoves DEF Handled
<1>13. e[1] = "modified" => positions' = positions /\ unheard' = unheard
  BY MovedMoves DEF Handled, Heard
<1>14. e[1] = "created" => positions'[g] = 0 /\ \A x \in Files : x # g => positions'[x] = positions[x]
  BY MovedMoves DEF Handled
<1>15. e[1] = "moved" =>
          /\ positions'[f] = Untracked
          /\ positions[f] # Untracked => positions'[g] = positions[f]
  BY <1>8, MovedMoves DEF Handled
<1>16. PICK m \in [Files -> SUBSET Files] : m = [a \in Files |-> IF e[1] = "moved" /\ a = f THEN {f} ELSE h[a]]
  <2>1. f \in Files
    BY DEF Handled
  <2> QED BY <2>1
<1>17. \A a \in Files : a \in m[a] /\ m[a] \subseteq h[a] /\ (e[1] = "moved" /\ a = f => m[a] = {f})
  BY <1>1, <1>16 DEF Heirs
<1>18. Heirs(m)'
  <2>1. ASSUME NEW a \in Files, NEW b \in Files, MovedTo(a, b)' PROVE m[b] \subseteq m[a]
    <3>1. h[b] \subseteq h[a]
      BY <1>1, <1>5, <2>1 DEF Heirs
    <3>2. ~(e[1] = "moved" /\ a = f)
      BY <1>10, <2>1
    <3>3. m[a] = h[a]
      BY <1>16, <3>2
    <3> QED BY <1>17, <3>1, <3>3
  <2> QED BY <1>17, <2>1 DEF Heirs
\* What the new position of a path that is heard of is about.
<1>19. ASSUME NEW a \in Files, NEW x \in m[a], a \notin unheard' PROVE Behind(x, positions'[a])
  <2>1. x \in Files /\ x \in h[a]
    BY <1>17
  <2>2. a \notin unheard => Behind(x, positions[a])
    BY <1>1, <2>1 DEF Ahead, Handled
  <2>3. CASE e[1] = "modified"
    BY <1>13, <1>19, <2>2, <2>3
  <2>4. CASE e[1] = "created"
    <3>1. CASE a = g
      <4>1. NoneOver(x)
        BY <1>1, <1>9, <2>1, <2>4, <3>1 DEF Ahead, Handled
      <4> QED BY <1>14, <2>1, <2>4, <3>1, <4>1, NoneIsBehind
    <3>2. CASE a # g
      BY <1>11, <1>14, <1>19, <2>2, <2>4, <3>2
    <3> QED BY <3>1, <3>2
  <2>5. CASE e[1] = "moved"
    <3>1. CASE a = f
      <4>1. x = f /\ positions'[a] \in Nat \cup {Untracked}
        BY <1>4, <1>17, <2>5, <3>1
      <4> QED BY <1>8, <2>1, <2>5, <4>1, EmptyHasNone
    <3>2. CASE a = g
      <4>1. f \notin unheard
        BY <1>6, <1>11, <1>19, <2>5, <3>2
      <4>2. x \in h[f]
        BY <1>1, <1>8, <2>1, <2>5, <3>2 DEF Heirs, Handled
      <4>3. Behind(x, positions[f])
        BY <1>1, <4>1, <4>2 DEF Ahead, Handled
      <4>4. CASE positions[f] # Untracked
        BY <1>15, <2>5, <3>2, <4>3, <4>4
      <4>5. CASE positions[f] = Untracked
        <5>1. NoneOver(x)
          BY <2>1, <4>3, <4>5, UntrackedHasNone
        <5> QED BY <1>4, <2>1, <5>1, NoneIsBehind
      <4> QED BY <4>4, <4>5
    <3>3. CASE a # f /\ a # g
      BY <1>11, <1>12, <1>19, <2>2, <3>3
    <3> QED BY <3>1, <3>2, <3>3
  <2> QED BY <2>3, <2>4, <2>5 DEF Handled
<1>20. Ahead(m)'
  <2>1. ASSUME NEW a \in Files, NEW x \in m[a]
        PROVE  (a \notin unheard' => Behind(x, positions[a])') /\ (Created(a)' => NoneOver(x)')
    <3>1. PICK p \in Nat \cup {Untracked} : p = positions'[a]
      BY <1>4
    <3>2. x \in Files /\ x \in h[a]
      BY <1>17
    <3>3. a \notin unheard' => Behind(x, p)
      BY <1>19, <3>1
    <3>4. a \notin unheard' => Behind(x, p)'
      BY <1>3, <3>2, <3>3 DEF FileKept
    <3>5. Created(a)' => NoneOver(x)'
      BY <1>1, <1>3, <1>5, <3>2 DEF FileKept, Ahead, Handled
    <3> QED BY <3>1, <3>4, <3>5
  <2> QED BY <2>1 DEF Ahead
<1>21. ASSUME NEW x \in Files PROVE Usable(x)'
  <2>1. PICK q \in Nat \cup {Untracked} : q = saved[x] /\ q = saved'[x]
    BY <1>4 DEF Handled
  <2>2. PICK p \in Nat \cup {Untracked} : p = positions'[x]
    BY <1>4
  <2>3. x \notin unheard \/ Announced(x) => q = Untracked \/ Behind(x, q)
    BY <2>1 DEF OnceInv, Usable
  <2>4. x \notin unheard' => x \notin unheard \/ Announced(x)
    <3>1. x \in unheard \ unheard' => x = g /\ e[1] # "modified"
      BY <1>11, <1>13
    <3> QED BY <1>6, <3>1
  <2>5. x \notin unheard' \/ Announced(x)' => q = Untracked \/ Behind(x, q)'
    BY <1>3, <1>5, <2>3, <2>4 DEF FileKept
  <2>6. Announced(x)' => p = Untracked \/ Behind(x, p)
    <3>1. CASE e[1] = "modified" \/ (x # f /\ x # g)
      <4>1. p = positions[x]
        BY <1>12, <1>13, <2>2, <3>1
      <4> QED BY <1>5, <4>1 DEF OnceInv, Usable
    <3>2. CASE e[1] # "modified" /\ x = g
      BY <1>6, <3>2
    <3>3. CASE e[1] = "created" /\ x # g
      <4>1. p = positions[x]
        BY <1>14, <2>2, <3>3
      <4> QED BY <1>5, <4>1 DEF OnceInv, Usable
    <3>4. CASE e[1] = "moved" /\ x = f
      BY <1>15, <2>2, <3>4
    <3> QED BY <3>1, <3>2, <3>3, <3>4 DEF Handled
  <2>7. Announced(x)' => p = Untracked \/ Behind(x, p)'
    BY <1>3, <2>6 DEF FileKept
  <2> QED BY <2>1, <2>2, <2>5, <2>7 DEF Usable
<1> QED BY <1>18, <1>20, <1>21

\* The observer keeps OnceInv.
LEMMA OnceObserve ==
    ASSUME WatchInv, OnceInv, Observe
    PROVE  OnceInv'
<1>1. /\ WatchInv' /\ Dropped /\ positions' = Moved(Head(events))
      /\ reading' = reading \/ Begun("observer", positions', Head(events)[3])
  BY WatchObserve
<1>2. running /\ unheard' = Heard(Head(events)) /\ UNCHANGED <<disk, saved, running, captured, raced>>
  BY DEF Observe, written
<1>3. PICK e, f, g : e = Head(events) /\ f = e[2] /\ g = e[3]
  OBVIOUS
<1>4. Handled(e, f, g)
  <2>1. Head(events) \in EventSet
    BY <1>1 DEF Dropped
  <2>2. e[2] \in Files /\ e[3] \in Files /\ e[1] \in {"created", "modified", "moved"}
    BY <1>3, <2>1 DEF EventSet
  <2> QED BY <1>1, <1>2, <1>3, <2>1, <2>2 DEF Handled
<1>5. /\ \E h \in [Files -> SUBSET Files] : Heirs(h)' /\ Ahead(h)'
      /\ \A x \in Files : Usable(x)'
  BY <1>1, <1>4, HandledIsAhead
<1>6. \A l : NowOver(l) <=> Over(l)
  BY <1>2 DEF Over, NowOver
<1>7. \A x \in Files : FileKept(x)
  BY <1>2, <1>6, SameIsBehind DEF FileKept
<1>8. unheard' \subseteq unheard
  BY <1>2 DEF Heard
<1>9. ASSUME NEW t \in Threads, reading'[t] = reading[t] PROVE Reader(t)'
  <2>1. \A x \in Files : Size(x)' = Size(x) /\ Size(x) \in Nat
    BY <1>2 DEF Size, WatchInv, WatchTypes
  <2> QED BY <1>1, <1>2, <1>7, <1>8, <1>9, <2>1, ReaderStays DEF OnceInv
<1>10. PICK pos \in [Files -> Nat \cup {Untracked}] : pos = positions'
  BY <1>1 DEF WatchInv, WatchTypes
<1>11. ASSUME Begun("observer", positions', g) PROVE Reader("observer")'
  <2>1. g \notin unheard' => Behind(g, pos[g])'
    <3>1. PICK p \in Nat \cup {Untracked} : p = pos[g] /\ p = positions'[g]
      BY <1>4, <1>10 DEF Handled
    <3>2. PICK h \in [Files -> SUBSET Files] : Heirs(h)' /\ Ahead(h)'
      BY <1>5
    <3>3. g \in Files /\ g \in h[g]
      BY <1>4, <3>2 DEF Handled, Heirs
    <3>4. g \notin unheard' => Behind(g, positions[g])'
      BY <1>2, <3>2, <3>3 DEF Ahead
    <3>5. g \notin unheard' => Behind(g, p)'
      BY <3>1, <3>4
    <3> QED BY <3>1, <3>5
  <2>2. "observer" \in Threads /\ g \in Files
    BY <1>4 DEF Threads, Handled
  <2> QED BY <1>1, <1>2, <1>6, <1>10, <1>11, <2>1, <2>2, BegunReads
<1>12. \A t \in Threads : Reader(t)'
  <2>1. CASE reading' = reading
    BY <1>9, <2>1
  <2>2. CASE Begun("observer", positions', g)
    <3>1. \A t \in Threads : t # "observer" => reading'[t] = reading[t]
      BY <2>2 DEF Begun
    <3> QED BY <1>9, <1>11, <2>2, <3>1
  <2> QED BY <1>1, <1>3, <2>1, <2>2
<1>13. CapturedOnce'
  BY <1>2 DEF OnceInv, CapturedOnce
<1> QED BY <1>5, <1>12, <1>13 DEF OnceInv

\* Only the lines that are read become over, and only those of a read that began on time.
LEMMA ReadOnly ==
    ASSUME WatchInv, NEW t \in Threads, TakesIn(t), NEW f \in Files, f = reading[t].file, disk' = disk,
           raced' = IF reading[t].early THEN raced \cup NewLine(t) ELSE raced
    PROVE  /\ \A x \in Files \ {f} : FileKept(x)
           /\ reading[t].early => FileKept(f)
<1>1. \A l \in Lines : NowOver(l) => Over(l) \/ (l \in NewLine(t) /\ ~reading[t].early)
  BY DEF NowOver, Over, TakesIn
<1>2. \A x \in Files : \A i \in 1..Size(x) : disk[x].half[i] \in Lines
  BY DEF WatchInv, WatchTypes, Size
<1>3. ASSUME NEW x \in Files \ {f}, NEW i \in 1..Size(x) PROVE disk[x].half[i] \notin NewLine(t)
  <2>1. ASSUME disk[x].half[i] \in NewLine(t) PROVE FALSE
    <3>1. PICK j \in 1..(Size(f) - 1) : disk[f].half[j] = disk[x].half[i]
      BY <2>1 DEF TakesIn
    <3>2. j \in 1..Size(f)
      BY DEF Size, WatchInv, WatchTypes
    <3> QED BY <3>1, <3>2 DEF WatchInv, LinesApart
  <2> QED BY <2>1
<1>4. \A x \in Files \ {f} : FileKept(x)
  <2>1. \A x \in Files \ {f} : \A i \in 1..Size(x) : NowOver(disk[x].half[i]) => Over(disk[x].half[i])
    BY <1>1, <1>2, <1>3
  <2> QED BY <2>1, SameIsBehind DEF FileKept
<1>5. reading[t].early => FileKept(f)
  <2>1. reading[t].early => \A i \in 1..Size(f) : NowOver(disk[f].half[i]) => Over(disk[f].half[i])
    BY <1>1, <1>2
  <2> QED BY <2>1, SameIsBehind DEF FileKept
<1> QED BY <1>4, <1>5

\* The file is read to its end, and everything of it lies behind the new position.
LEMMA ReadIsBehind ==
    ASSUME WatchInv, OnceInv, NEW t \in Threads, TakesIn(t), NEW f \in Files, f = reading[t].file, disk' = disk,
           raced' = IF reading[t].early THEN raced \cup NewLine(t) ELSE raced
    PROVE  Behind(f, positions[f])'
<1>1. PICK from \in Nat : from = reading[t].from
  BY DEF WatchInv, WatchTypes
<1>2. Size(f) \in Nat /\ Size(f) = Len(disk'[f].half)
  BY DEF WatchInv, WatchTypes, Size
<1>3. PICK p \in Nat \cup {Untracked} : p = ReadTo(f, from) /\ p = positions'[f]
  BY <1>1, <1>2 DEF TakesIn, ReadTo
<1>4. CASE from <= Size(f)
  <2>1. p = Size(f)
    BY <1>2, <1>3, <1>4 DEF ReadTo
  <2>2. Behind(f, p)'
    BY <1>2, <2>1, NowIsPrimed
  <2> QED BY <1>3, <2>2
<1>5. CASE ~(from <= Size(f))
  <2>1. NoneOver(f)
    BY <1>1, <1>5, SessionFacts DEF OnceInv, Reader, TakesIn
  <2>2. \A i \in 1..(Size(f) - 1) : ~(i > from)
    BY <1>2, <1>5
  <2>3. NewLine(t) = {}
    BY <1>1, <2>2 DEF TakesIn
  <2>4. \A l \in Lines : NowOver(l) => Over(l)
    BY <2>3 DEF NowOver, Over, TakesIn
  <2>5. \A i \in 1..Size(f) : disk[f].half[i] \in Lines
    BY DEF WatchInv, WatchTypes, Size
  <2>6. \A i \in 1..Size(f) : ~NowOver(disk'[f].half[i])
    BY <2>1, <2>4, <2>5 DEF NoneOver
  <2>7. Behind(f, p)'
    BY <1>2, <2>6, NowIsPrimed
  <2> QED BY <1>3, <2>7
<1> QED BY <1>4, <1>5

\* A read keeps OnceInv: the lines it hands over lie before the new position.
LEMMA OnceRead ==
    ASSUME WatchInv, OnceInv, NEW t \in Threads, Read(t)
    PROVE  OnceInv'
<1>1. /\ Freed(t) /\ reading[t].file \in Files
      /\ \/ ~disk[reading[t].file].there /\ UNCHANGED <<positions, saved, ingests, captured, missed, raced>>
         \/ /\ TakesIn(t)
            /\ raced' = IF reading[t].early THEN raced \cup NewLine(t) ELSE raced
  BY ReadTakes
<1>2. UNCHANGED <<disk, events, running, unheard>> /\ reading[t] # Free /\ WatchInv'
  BY WatchRead DEF Read, written
<1>3. PICK f \in Files : f = reading[t].file
  BY <1>1
<1>4. running
  BY <1>2 DEF WatchInv, Queue
<1>5. \A x \in Files : Size(x)' = Size(x) /\ Size(x) \in Nat
  BY <1>2 DEF Size, WatchInv, WatchTypes
<1>6. Reader(t)'
  BY <1>1 DEF Freed, Reader, Free
<1>7. \A u \in Threads : u # t => reading'[u] = reading[u] /\ reading[u].file # f
  BY <1>1, <1>3, SessionFacts DEF Freed, WatchInv
<1>8. ASSUME \A x \in Files \ {f} : FileKept(x), NEW u \in Threads, u # t PROVE Reader(u)'
  BY <1>2, <1>5, <1>7, <1>8, ReaderStays DEF OnceInv
<1>9. CASE UNCHANGED <<positions, saved, captured, raced>>
  <2>1. \A l : NowOver(l) <=> Over(l)
    BY <1>9 DEF Over, NowOver
  <2>2. \A g \in Files : FileKept(g)
    BY <1>2, <2>1, SameIsBehind DEF FileKept
  <2>3. Kept
    BY <1>2, <1>9, <2>2 DEF Kept, Announced, Created, Announces, MovedTo
  <2> QED BY <1>6, <1>8, <2>2, <2>3, KeptIsOnce
<1>10. CASE TakesIn(t) /\ raced' = IF reading[t].early THEN raced \cup NewLine(t) ELSE raced
  <2>1. (\A x \in Files \ {f} : FileKept(x)) /\ (reading[t].early => FileKept(f))
    BY <1>2, <1>3, <1>10, ReadOnly
  <2>2. Behind(f, positions[f])'
    BY <1>2, <1>3, <1>10, ReadIsBehind
  <2>3. \A x \in Files : x # f => positions'[x] = positions[x]
    BY <1>3, <1>10 DEF TakesIn
  <2>4. disk[f].there /\ saved' = positions' /\ \A x \in Files : positions'[x] \in Nat \cup {Untracked}
    BY <1>3, <1>10 DEF TakesIn
  <2>5. ~reading[t].early => f \notin unheard /\ Behind(f, reading[t].from)
    BY <1>3, <2>4, SessionFacts DEF OnceInv, Reader
  <2>6. \A x : /\ Announced(x)' <=> Announced(x)
               /\ Created(x)' <=> Created(x)
               /\ \A b : MovedTo(x, b)' <=> MovedTo(x, b)
    BY <1>2 DEF Announced, Created, Announces, MovedTo
  <2>7. PICK h \in [Files -> SUBSET Files] : Heirs(h) /\ Ahead(h)
    BY DEF OnceInv
  <2>8. PICK m \in [Files -> SUBSET Files] :
           m = [a \in Files |-> IF a = f THEN {f} ELSE IF reading[t].early THEN h[a] ELSE h[a] \ {f}]
    OBVIOUS
  <2>9. /\ m[f] = {f}
        /\ \A a \in Files : a \in m[a] /\ m[a] \subseteq h[a]
        /\ \A a \in Files : a # f /\ ~reading[t].early => f \notin m[a]
        /\ \A a \in Files : a # f => \A x \in h[a] : x \in m[a] \/ (x = f /\ ~reading[t].early)
    BY <2>7, <2>8 DEF Heirs
  <2>10. Heirs(m)'
    <3>1. ASSUME NEW a \in Files, NEW b \in Files, MovedTo(a, b) PROVE m[b] \subseteq m[a]
      <4>1. a # f /\ b \in unheard
        BY <2>4, <3>1, ThereIsNotMoved
      <4>2. h[b] \subseteq h[a]
        BY <2>7, <3>1 DEF Heirs
      <4>3. CASE b = f
        <5>1. reading[t].early /\ f \in h[a]
          BY <2>5, <2>7, <4>1, <4>2, <4>3 DEF Heirs
        <5> QED BY <2>9, <4>1, <4>3, <5>1
      <4>4. CASE b # f
        <5>1. ASSUME NEW x \in m[b] PROVE x \in m[a]
          BY <2>9, <4>1, <4>2, <4>4
        <5> QED BY <5>1
      <4> QED BY <4>3, <4>4
    <3> QED BY <2>6, <2>9, <3>1 DEF Heirs
  <2>11. ASSUME NEW a \in Files, NEW x \in m[a]
         PROVE  (a \notin unheard => Behind(x, positions[a])') /\ (Created(a) => NoneOver(x)')
    <3>1. x \in Files /\ x \in h[a]
      BY <2>9
    <3>2. (a \notin unheard => Behind(x, positions[a])) /\ (Created(a) => NoneOver(x))
      BY <1>4, <2>7, <3>1 DEF Ahead
    <3>3. PICK p \in Nat \cup {Untracked} : p = positions'[a]
      BY <2>4
    <3>4. Created(a) => a \in unheard
      BY CreatedIsAnnounced, AnnouncedIsUnheard
    <3>5. CASE x # f
      <4>1. a # f
        BY <2>9, <3>5
      <4>2. p = positions[a]
        BY <2>3, <3>3, <4>1
      <4>3. FileKept(x)
        BY <2>1, <3>1, <3>5
      <4>4. (a \notin unheard => Behind(x, p)') /\ (Created(a) => NoneOver(x)')
        BY <3>2, <4>2, <4>3 DEF FileKept
      <4> QED BY <3>3, <4>4
    <3>6. CASE x = f /\ reading[t].early
      <4>1. Created(a) => NoneOver(x)'
        BY <2>1, <3>2, <3>6 DEF FileKept
      <4>2. CASE a = f
        BY <2>2, <3>6, <4>1, <4>2
      <4>3. CASE a # f
        <5>1. p = positions[a]
          BY <2>3, <3>3, <4>3
        <5>2. a \notin unheard => Behind(x, p)'
          BY <2>1, <3>2, <3>6, <5>1 DEF FileKept
        <5> QED BY <3>3, <4>1, <5>2
      <4> QED BY <4>2, <4>3
    <3>7. CASE x = f /\ ~reading[t].early
      <4>1. a = f
        BY <2>9, <3>7
      <4> QED BY <2>2, <2>5, <3>4, <3>7, <4>1
    <3> QED BY <3>5, <3>6, <3>7
  <2>12. Ahead(m)'
    BY <1>2, <2>6, <2>11 DEF Ahead
  <2>13. ASSUME NEW x \in Files PROVE Usable(x)'
    <3>1. PICK p \in Nat \cup {Untracked} : p = positions'[x] /\ p = saved'[x]
      BY <2>4
    <3>2. x \notin unheard => Behind(x, p)'
      <4>1. x \notin unheard => Behind(x, positions[x])'
        BY <2>9, <2>11
      <4> QED BY <3>1, <4>1
    <3>3. Announced(x) => p = Untracked \/ Behind(x, p)'
      <4>1. CASE x = f
        <5>1. Behind(x, positions[x])'
          BY <2>2, <4>1
        <5> QED BY <3>1, <5>1
      <4>2. CASE x # f
        <5>1. p = positions[x] /\ FileKept(x)
          BY <2>1, <2>3, <3>1, <4>2
        <5>2. Announced(x) => p = Untracked \/ Behind(x, p)
          BY <5>1 DEF OnceInv, Usable
        <5> QED BY <5>1, <5>2 DEF FileKept
      <4> QED BY <4>1, <4>2
    <3>4. x \notin unheard' \/ Announced(x)' => p = Untracked \/ Behind(x, p)'
      BY <1>2, <2>6, <3>2, <3>3
    <3>5. Announced(x)' => p = Untracked \/ Behind(x, p)'
      BY <2>6, <3>3
    <3> QED BY <3>1, <3>4, <3>5 DEF Usable
  <2>14. ASSUME NEW l \in Lines, captured'[l] > 1, l \notin raced' PROVE FALSE
    <3>1. captured[l] \in Nat /\ l \notin raced
      BY <1>10, <2>14 DEF WatchInv, WatchTypes
    <3>2. CASE l \notin NewLine(t)
      BY <1>10, <2>14, <3>1, <3>2 DEF TakesIn, OnceInv, CapturedOnce
    <3>3. CASE l \in NewLine(t)
      <4>1. captured[l] > 0 /\ ~reading[t].early
        BY <1>10, <2>14, <3>1, <3>3 DEF TakesIn
      <4>2. PICK i \in 1..(Size(f) - 1) : i > reading[t].from /\ disk[f].half[i] = l
        BY <1>3, <1>10, <3>3 DEF TakesIn
      <4>3. i \in 1..Size(f) /\ Over(disk[f].half[i])
        BY <1>5, <3>1, <4>1, <4>2 DEF Over
      <4>4. i <= reading[t].from /\ reading[t].from \in Nat
        BY <2>5, <4>1, <4>3 DEF Behind, WatchInv, WatchTypes
      <4> QED BY <4>2, <4>4
    <3> QED BY <3>2, <3>3
  <2>15. CapturedOnce'
    BY <2>14 DEF CapturedOnce
  <2>16. \A u \in Threads : Reader(u)'
    BY <1>6, <1>8, <2>1
  <2> QED BY <2>10, <2>12, <2>13, <2>15, <2>16 DEF OnceInv
<1> QED BY <1>1, <1>9, <1>10

\* Every step keeps WatchInv and OnceInv.
LEMMA OnceStep ==
    ASSUME WatchInv, OnceInv, [SessionNext]_sessionVars
    PROVE  WatchInv' /\ OnceInv'
<1>1. ASSUME NEW f \in Files, Write(f) PROVE WatchInv' /\ OnceInv'
  BY <1>1, WatchWrite, OnceWrite
<1>2. ASSUME NEW f \in Files, Truncate(f) PROVE WatchInv' /\ OnceInv'
  BY <1>2, WatchTruncate, OnceTruncate
<1>3. ASSUME NEW f \in Files, Scan(f) PROVE WatchInv' /\ OnceInv'
  BY <1>3, WatchScan, OnceScan
<1>4. ASSUME NEW f \in Files, NEW g \in Files, Rename(f, g) PROVE WatchInv' /\ OnceInv'
  BY <1>4, WatchRename, OnceRename
<1>5. CASE StartWatching
  BY <1>5, WatchStart, OnceStart
<1>6. CASE MissEvent
  BY <1>6, WatchMiss, OnceMiss
<1>7. CASE Observe
  BY <1>7, WatchObserve, OnceObserve
<1>8. ASSUME NEW t \in Threads, Read(t) PROVE WatchInv' /\ OnceInv'
  BY <1>8, WatchRead, OnceRead
<1>9. ASSUME NEW b, IngestBatch(b) PROVE WatchInv' /\ OnceInv'
  BY <1>9, WatchIngest, OnceIngest
<1>10. CASE Crash
  BY <1>10, WatchCrash, OnceCrash
<1>11. CASE UNCHANGED sessionVars
  <2>1. UNCHANGED <<disk, lines, positions, saved, events, reading, running, captured, unheard, raced, cut>>
    BY <1>11 DEF sessionVars, written, history
  <2>2. WatchInv'
    BY <2>1, FilesStay DEF WatchInv, WatchTypes, Queue, Fresh
  <2>3. OnceInv'
    BY <2>1, OnceUnchanged
  <2> QED BY <2>2, <2>3
<1> QED BY <1>1, <1>2, <1>3, <1>4, <1>5, <1>6, <1>7, <1>8, <1>9, <1>10, <1>11 DEF SessionNext, SessionWatch

\* WatchInv and OnceInv hold at first.
LEMMA OnceAtStart ==
    ASSUME SessionInit
    PROVE  WatchInv /\ OnceInv
<1>1. WatchInv
  BY WatchInit
<1>2. /\ events = <<>> /\ running = FALSE /\ reading = [t \in Threads |-> Free]
      /\ captured = [l \in Lines |-> 0] /\ saved = positions /\ positions = [f \in Files |-> Untracked]
  BY DEF SessionInit
<1>3. DOMAIN events = {} /\ Free.file = <<>>
  BY <1>2 DEF Free
<1>4. \E h \in [Files -> SUBSET Files] : Heirs(h) /\ Ahead(h)
  <2>1. PICK h \in [Files -> SUBSET Files] : h = [a \in Files |-> {a}]
    OBVIOUS
  <2> QED BY <1>2, <1>3, <2>1 DEF Heirs, Ahead, MovedTo
<1>5. \A f \in Files : Usable(f)
  BY <1>2, <1>3 DEF Usable, Announced
<1>6. \A t \in Threads : Reader(t)
  BY <1>2, <1>3 DEF Reader
<1>7. CapturedOnce
  BY <1>2 DEF CapturedOnce
<1> QED BY <1>1, <1>4, <1>5, <1>6, <1>7 DEF OnceInv

\* CapturedOnce: a line is handed over twice only after a read of a path the observer had not been told of
\* (session_watcher.py:188, 214, 224).
THEOREM LinesAreCapturedOnce == SessionSpec => []CapturedOnce
<1>1. SessionInit => WatchInv /\ OnceInv
  BY OnceAtStart
<1>2. WatchInv /\ OnceInv => CapturedOnce
  BY DEF OnceInv
<1> QED BY <1>1, <1>2, OnceStep, PTL DEF SessionSpec

-----------------------------------------------------------------------------
(* What was passed is ingested.                                            *)

\* Once accounted for, always accounted for.
AllKept == ingested \cup missed \cup UNION ingests \subseteq ingested' \cup missed' \cup UNION ingests'

\* A file's accounted lines stay accounted for, under its name or another one.
NowAccounted(f, p) ==
    /\ p <= Len(disk'[f].half)
    /\ \A i \in 1..(p - 1) : disk'[f].half[i] = disk'[f].half[i + 1]
                               => disk'[f].half[i] \in ingested' \cup missed' \cup UNION ingests'

\* What is accounted for before a position of f is so in g after the step.
StaysAccounted(f, g) == \A p \in Nat \cup {Untracked} : Accounted(f, p) => NowAccounted(g, p)

\* Nothing lies before the beginning of a file.
LEMMA AtStartAccounted ==
    ASSUME NEW f \in Files, disk[f].half \in Seq(Lines)
    PROVE  Accounted(f, 0) /\ Accounted(f, Untracked)
<1>1. Size(f) \in Nat
  BY DEF Size
<1>2. 1..(0 - 1) = {} /\ 1..(Untracked - 1) = {}
  BY SessionFacts
<1> QED BY <1>1, <1>2, SessionFacts DEF Accounted

\* A file that stays as it is, under its name or another, stays accounted for.
LEMMA SameAccounted ==
    ASSUME NEW f \in Files, NEW g \in Files, disk'[g] = disk[f], AllKept
    PROVE  StaysAccounted(f, g)
<1>1. Size(g)' = Size(f) /\ disk'[g].half = disk[f].half
  BY DEF Size
<1>2. ASSUME NEW p \in Nat \cup {Untracked}, Accounted(f, p) PROVE NowAccounted(g, p)
  <2>1. \A i \in 1..(p - 1) : disk'[g].half[i] = disk'[g].half[i + 1]
                               => disk'[g].half[i] \in ingested' \cup missed' \cup UNION ingests'
    BY <1>1, <1>2 DEF Accounted, AllKept
  <2>2. p <= Len(disk'[g].half)
    BY <1>1, <1>2 DEF Accounted, Size
  <2> QED BY <2>1, <2>2 DEF NowAccounted
<1> QED BY <1>2 DEF StaysAccounted

\* A file that grows at its end stays accounted for.
LEMMA LongerAccounted ==
    ASSUME WatchInv, NEW f \in Files, Longer(f), AllKept, NEW g \in Files
    PROVE  StaysAccounted(g, g)
<1>1. CASE g # f
  <2>1. disk'[g] = disk[g]
    BY <1>1 DEF Longer
  <2> QED BY <2>1, SameAccounted
<1>2. CASE g = f
  <2>1. Size(f) \in Nat /\ Len(disk'[f].half) \in Nat /\ Size(f) <= Len(disk'[f].half)
    BY DEF Longer, Size, WatchInv, WatchTypes
  <2>2. ASSUME NEW p \in Nat \cup {Untracked}, Accounted(f, p) PROVE NowAccounted(f, p)
    <3>1. p \in Int /\ p <= Size(f)
      BY <2>2, SessionFacts DEF Accounted
    <3>2. ASSUME NEW i \in 1..(p - 1)
          PROVE  disk'[f].half[i] = disk[f].half[i] /\ disk'[f].half[i + 1] = disk[f].half[i + 1]
      <4>1. i \in 1..Size(f) /\ i + 1 \in 1..Size(f)
        BY <2>1, <3>1
      <4> QED BY <4>1 DEF Longer
    <3>3. \A i \in 1..(p - 1) : disk'[f].half[i] = disk'[f].half[i + 1]
                                 => disk'[f].half[i] \in ingested' \cup missed' \cup UNION ingests'
      BY <2>2, <3>2 DEF Accounted, AllKept
    <3>4. p <= Len(disk'[f].half)
      BY <2>1, <3>1
    <3> QED BY <3>3, <3>4 DEF NowAccounted
  <2> QED BY <1>2, <2>2 DEF StaysAccounted
<1> QED BY <1>1, <1>2

\* NowAccounted is Accounted after the step.
LEMMA NowIsAccounted ==
    ASSUME NEW f, NEW p
    PROVE  Accounted(f, p)' <=> NowAccounted(f, p)
BY DEF Accounted, NowAccounted, Size

\* Nothing lies before the beginning of a file after the step.
LEMMA NowAtStart ==
    ASSUME NEW f \in Files, disk'[f].half \in Seq(Lines)
    PROVE  NowAccounted(f, 0) /\ NowAccounted(f, Untracked)
<1>1. Len(disk'[f].half) \in Nat
  OBVIOUS
<1>2. 1..(0 - 1) = {} /\ 1..(Untracked - 1) = {}
  BY SessionFacts
<1> QED BY <1>1, <1>2, SessionFacts DEF NowAccounted

\* PassedInv after a step, in terms of what is now accounted for.
LEMMA PassedNow ==
    ASSUME NEW h \in [Files -> SUBSET Files], Heirs(h)',
           \A a \in Files : \A f \in h[a] \ cut' : running' => NowAccounted(f, positions'[a]),
           \A f \in Files \ cut' : NowAccounted(f, saved'[f]),
           \A t \in Threads : reading'[t].file \in Files \ cut' => NowAccounted(reading'[t].file, reading'[t].from)
    PROVE  PassedInv'
<1>1. \A a \in Files : \A f \in h[a] \ cut' : running' => Accounted(f, positions[a])'
  BY DEF NowAccounted, Accounted, Size
<1>2. \A f \in Files \ cut' : Accounted(f, saved[f])'
  BY DEF NowAccounted, Accounted, Size
<1>3. \A t \in Threads : reading'[t].file \in Files \ cut' => Accounted(reading[t].file, reading[t].from)'
  BY DEF NowAccounted, Accounted, Size
<1> QED BY <1>1, <1>2, <1>3 DEF PassedInv

\* A step that moves no position, and announces no new name of a file.
Quiet ==
    /\ \A x \in Files \ cut' : StaysAccounted(x, x)
    /\ \A a, b \in Files : MovedTo(a, b)' => MovedTo(a, b)
    /\ cut \subseteq cut' /\ UNCHANGED <<positions, saved, running>>

\* A quiet step keeps PassedInv, if the threads that begin to read begin behind accounted lines.
LEMMA QuietIsPassed ==
    ASSUME WatchInv, PassedInv, Quiet,
           \A t \in Threads : reading'[t].file \in Files \ cut' =>
                reading'[t] = reading[t] \/ NowAccounted(reading'[t].file, reading'[t].from)
    PROVE  PassedInv'
<1>1. \A x \in Files : positions[x] \in Nat \cup {Untracked} /\ saved[x] \in Nat \cup {Untracked}
  BY DEF WatchInv, WatchTypes
<1>2. \A x \in Files \ cut' : x \in Files \ cut /\ StaysAccounted(x, x)
  BY DEF Quiet
<1>3. UNCHANGED <<positions, saved, running>>
  BY DEF Quiet
<1>4. PICK h \in [Files -> SUBSET Files] :
         Heirs(h) /\ \A a \in Files : \A f \in h[a] \ cut : running => Accounted(f, positions[a])
  BY DEF PassedInv
<1>5. Heirs(h)'
  BY <1>4 DEF Heirs, Quiet
<1>6. ASSUME NEW a \in Files, NEW f \in h[a] \ cut', running' PROVE NowAccounted(f, positions'[a])
  <2>1. f \in Files \ cut'
    OBVIOUS
  <2>2. f \in h[a] \ cut
    BY <1>2, <2>1
  <2> QED BY <1>1, <1>2, <1>3, <1>4, <1>6, <2>1, <2>2 DEF StaysAccounted
<1>7. ASSUME NEW f \in Files \ cut' PROVE NowAccounted(f, saved'[f])
  BY <1>1, <1>2, <1>3 DEF StaysAccounted, PassedInv
<1>8. ASSUME NEW t \in Threads, reading'[t].file \in Files \ cut' PROVE NowAccounted(reading'[t].file, reading'[t].from)
  <2>1. CASE reading'[t] = reading[t]
    <3>1. reading[t].from \in Nat
      BY DEF WatchInv, WatchTypes
    <3>2. Accounted(reading[t].file, reading[t].from)
      BY <1>2, <1>8, <2>1 DEF PassedInv
    <3> QED BY <1>2, <1>8, <2>1, <3>1, <3>2 DEF StaysAccounted
  <2> QED BY <1>8, <2>1
<1> QED BY <1>5, <1>6, <1>7, <1>8, PassedNow

\* A write keeps PassedInv.
LEMMA PassedWrite ==
    ASSUME WatchInv, PassedInv, NEW f \in Files, Write(f)
    PROVE  PassedInv'
<1> DEFINE kind == IF disk[f].there THEN "modified" ELSE "created"
<1>1. Longer(f) /\ Noted(<<kind, f, f>>)
  BY WatchWrite
<1>2. UNCHANGED <<positions, saved, reading, running, cut, ingested, missed, ingests>>
  BY DEF Write
<1>3. \A x \in Files : StaysAccounted(x, x)
  BY <1>1, <1>2, LongerAccounted DEF AllKept
<1>4. <<kind, f, f>>[1] # "moved"
  OBVIOUS
<1> HIDE DEF kind
<1>5. ASSUME NEW a \in Files, NEW b \in Files, MovedTo(a, b)' PROVE MovedTo(a, b)
  <2>1. PICK k \in DOMAIN events' : events'[k] = <<"moved", a, b>>
    BY <1>5 DEF MovedTo
  <2>2. events'[k][1] = "moved"
    BY <2>1
  <2> QED BY <1>1, <1>4, <2>1, <2>2 DEF MovedTo, Noted
<1>6. Quiet
  BY <1>2, <1>3, <1>5 DEF Quiet
<1> QED BY <1>2, <1>6, QuietIsPassed

\* A truncation keeps PassedInv: the path is cut.
LEMMA PassedTruncate ==
    ASSUME WatchInv, PassedInv, NEW f \in Files, Truncate(f)
    PROVE  PassedInv'
<1>1. Emptied(f) /\ Noted(<<"modified", f, f>>)
  BY WatchTruncate
<1>2. UNCHANGED <<positions, saved, reading, running, ingested, missed, ingests>> /\ cut' = cut \cup {f}
  BY DEF Truncate
<1>3. \A x \in Files \ {f} : StaysAccounted(x, x)
  BY <1>1, <1>2, SameAccounted DEF AllKept, Emptied
<1>4. <<"modified", f, f>>[1] # "moved"
  OBVIOUS
<1>5. ASSUME NEW a \in Files, NEW b \in Files, MovedTo(a, b)' PROVE MovedTo(a, b)
  <2>1. PICK k \in DOMAIN events' : events'[k] = <<"moved", a, b>>
    BY <1>5 DEF MovedTo
  <2>2. events'[k][1] = "moved"
    BY <2>1
  <2> QED BY <1>1, <1>4, <2>1, <2>2 DEF MovedTo, Noted
<1>6. Quiet
  BY <1>2, <1>3, <1>5 DEF Quiet
<1> QED BY <1>2, <1>6, QuietIsPassed

\* A missed event keeps PassedInv.
LEMMA PassedMiss ==
    ASSUME WatchInv, PassedInv, MissEvent
    PROVE  PassedInv'
<1>1. Dropped
  BY WatchMiss
<1>2. UNCHANGED <<disk, positions, saved, reading, running, cut, ingested, missed, ingests>>
  BY DEF MissEvent, written, history
<1>3. \A x \in Files : StaysAccounted(x, x)
  BY <1>2, SameAccounted DEF AllKept
<1>4. Quiet
  BY <1>1, <1>2, <1>3, DroppedIsOld DEF Quiet
<1> QED BY <1>2, <1>4, QuietIsPassed

\* An ingestion keeps PassedInv: a batch that fails is missed.
LEMMA PassedIngest ==
    ASSUME WatchInv, PassedInv, NEW b \in ingests, IngestBatch(b)
    PROVE  PassedInv'
<1>1. /\ UNCHANGED <<disk, positions, saved, events, reading, running, cut>>
      /\ ingests' = ingests \ {b} /\ ingested' \cup missed' = ingested \cup missed \cup b
  BY DEF IngestBatch, written
<1>2. AllKept
  <2>1. ASSUME NEW l \in UNION ingests PROVE l \in b \cup UNION ingests'
    BY <1>1
  <2> QED BY <1>1, <2>1 DEF AllKept
<1>3. \A x \in Files : StaysAccounted(x, x)
  BY <1>1, <1>2, SameAccounted
<1>4. Quiet
  BY <1>1, <1>3 DEF Quiet, MovedTo
<1> QED BY <1>1, <1>4, QuietIsPassed

\* The scan keeps PassedInv.
LEMMA PassedScan ==
    ASSUME WatchInv, PassedInv, NEW f \in Files, Scan(f)
    PROVE  PassedInv'
<1>1. Begun("loop", positions, f)
  BY WatchScan
<1>2. UNCHANGED <<disk, positions, saved, events, running, cut, ingested, missed, ingests>> /\ running
  BY DEF Scan, written
<1>3. \A x \in Files : StaysAccounted(x, x)
  BY <1>2, SameAccounted DEF AllKept
<1>4. Quiet
  BY <1>2, <1>3 DEF Quiet, MovedTo
<1>5. ASSUME NEW t \in Threads, reading'[t].file \in Files \ cut'
      PROVE  reading'[t] = reading[t] \/ NowAccounted(reading'[t].file, reading'[t].from)
  <2>1. CASE t # "loop"
    BY <1>1, <2>1 DEF Begun
  <2>2. CASE t = "loop"
    <3>1. f \notin cut /\ reading'[t].file = f /\ reading'[t].from = From(positions, f)
      BY <1>1, <1>2, <1>5, <2>2 DEF Begun
    <3>2. Accounted(f, positions[f])
      BY <1>2, <3>1 DEF PassedInv, Heirs
    <3>3. positions[f] \in Nat \cup {Untracked} /\ disk[f].half \in Seq(Lines)
      BY DEF WatchInv, WatchTypes
    <3>4. NowAccounted(f, positions[f]) /\ NowAccounted(f, 0)
      BY <1>2, <1>3, <3>2, <3>3, NowAtStart DEF StaysAccounted
    <3> QED BY <3>1, <3>4 DEF From
  <2> QED BY <2>1, <2>2
<1> QED BY <1>4, <1>5, QuietIsPassed

\* A start keeps PassedInv: a file that is taken up at its end is missed up to there.
LEMMA PassedStart ==
    ASSUME WatchInv, PassedInv, StartWatching
    PROVE  PassedInv'
<1>1. /\ ~running /\ positions' = [f \in Files |-> Resume(f)]
      /\ missed' = missed \cup UNION {LinesOf(disk[f].half) : f \in {g \in Files : saved[g] = Untracked}}
      /\ UNCHANGED <<disk, saved, events, reading, cut, ingests, ingested>>
  BY DEF StartWatching, written
<1>2. events = <<>> /\ \A t \in Threads : reading[t] = Free
  BY <1>1 DEF WatchInv, Queue
<1>3. \A x \in Files : StaysAccounted(x, x)
  BY <1>1, SameAccounted DEF AllKept
<1>4. \A x \in Files : disk[x].half \in Seq(Lines) /\ saved[x] \in Nat \cup {Untracked}
  BY DEF WatchInv, WatchTypes
<1>5. PICK h \in [Files -> SUBSET Files] : h = [a \in Files |-> {a}]
  OBVIOUS
<1>6. Heirs(h)'
  BY <1>1, <1>2, <1>5 DEF Heirs, MovedTo
<1>7. ASSUME NEW f \in Files \ cut' PROVE NowAccounted(f, saved'[f])
  BY <1>1, <1>3, <1>4 DEF StaysAccounted, PassedInv
<1>8. ASSUME NEW f \in Files \ cut PROVE NowAccounted(f, Resume(f))
  <2>1. CASE saved[f] # Untracked
    BY <1>1, <1>7, <2>1 DEF Resume
  <2>2. CASE saved[f] = Untracked /\ ~disk[f].there
    BY <1>1, <1>4, <2>2, NowAtStart DEF Resume
  <2>3. CASE saved[f] = Untracked /\ disk[f].there
    <3>1. LinesOf(disk[f].half) \subseteq missed'
      BY <1>1, <2>3
    <3>2. Len(disk[f].half) \in Nat /\ Resume(f) = Len(disk[f].half)
      BY <1>4, <2>3 DEF Resume, Size
    <3>3. \A i \in 1..(Len(disk[f].half) - 1) : disk[f].half[i] \in missed'
      BY <3>1, <3>2 DEF LinesOf
    <3> QED BY <1>1, <3>2, <3>3 DEF NowAccounted
  <2> QED BY <2>1, <2>2, <2>3
<1>9. \A t \in Threads : reading'[t].file \notin Files
  BY <1>1, <1>2, SessionFacts DEF Free
<1>10. \A a \in Files : \A f \in h[a] \ cut' : NowAccounted(f, positions'[a])
  BY <1>1, <1>5, <1>8
<1> QED BY <1>6, <1>7, <1>9, <1>10, PassedNow

\* A crash keeps PassedInv: the batches it cuts off are missed.
LEMMA PassedCrash ==
    ASSUME WatchInv, PassedInv, Crash
    PROVE  PassedInv'
<1>1. /\ ~running' /\ events' = <<>>
      /\ \A f \in Files : saved'[f] = saved[f] \/ saved'[f] = Untracked
      /\ \A t \in Threads : reading'[t] = Free
      /\ UNCHANGED <<disk, cut>>
  BY WatchCrash
<1>2. ingests' = {} /\ missed' = missed \cup UNION ingests /\ UNCHANGED ingested
  BY DEF Crash
<1>3. \A x \in Files : StaysAccounted(x, x)
  BY <1>1, <1>2, SameAccounted DEF AllKept
<1>4. PICK h \in [Files -> SUBSET Files] : h = [a \in Files |-> {a}]
  OBVIOUS
<1>5. Heirs(h)'
  BY <1>1, <1>4 DEF Heirs, MovedTo
<1>6. ASSUME NEW f \in Files \ cut' PROVE NowAccounted(f, saved'[f])
  <2>1. saved[f] \in Nat \cup {Untracked} /\ disk[f].half \in Seq(Lines) /\ Accounted(f, saved[f])
    BY <1>1 DEF WatchInv, WatchTypes, PassedInv
  <2>2. NowAccounted(f, saved[f]) /\ NowAccounted(f, Untracked)
    BY <1>1, <1>3, <2>1, NowAtStart DEF StaysAccounted
  <2> QED BY <1>1, <2>2
<1>7. \A t \in Threads : reading'[t].file \notin Files
  BY <1>1, SessionFacts DEF Free
<1> QED BY <1>1, <1>5, <1>6, <1>7, PassedNow

\* A rename keeps PassedInv: the old name is cut, and the new one has no position yet.
LEMMA PassedRename ==
    ASSUME WatchInv, PassedInv, NEW f \in Files, NEW g \in Files, Rename(f, g)
    PROVE  PassedInv'
<1>1. WatchInv' /\ Renamed(f, g) /\ f # g /\ Fresh(g) /\ Noted(<<"moved", f, g>>)
  BY WatchRename
<1>2. /\ UNCHANGED <<positions, saved, reading, running, ingested, missed, ingests>>
      /\ cut' = cut \cup {f} \cup (IF f \in cut THEN {g} ELSE {})
  BY DEF Rename
<1>3. \A x \in Files \ {f, g} : StaysAccounted(x, x)
  BY <1>1, <1>2, SameAccounted DEF AllKept, Renamed
<1>4. StaysAccounted(f, g)
  BY <1>1, <1>2, SameAccounted DEF AllKept, Renamed
<1>5. \A x \in Files : /\ positions[x] \in Nat \cup {Untracked} /\ saved[x] \in Nat \cup {Untracked}
                       /\ disk'[x].half \in Seq(Lines)
  BY <1>1 DEF WatchInv, WatchTypes
<1>6. <<"moved", f, g>>[2] = f /\ <<"moved", f, g>>[3] = g
  OBVIOUS
<1>7. ASSUME NEW a \in Files, NEW b \in Files, MovedTo(a, b)'
      PROVE  (MovedTo(a, b) /\ a # g /\ b # g) \/ (a = f /\ b = g)
  <2>1. PICK k \in DOMAIN events' : events'[k] = <<"moved", a, b>>
    BY <1>7 DEF MovedTo
  <2>2. events'[k][2] = a /\ events'[k][3] = b
    BY <2>1
  <2>3. CASE k \in DOMAIN events /\ events'[k] = events[k]
    <3>1. MovedTo(a, b)
      BY <2>1, <2>3 DEF MovedTo
    <3>2. events[k][2] # g /\ events[k][3] # g
      BY <1>1, <2>3 DEF Fresh
    <3>3. events[k][2] = a /\ events[k][3] = b
      BY <2>2, <2>3
    <3> QED BY <3>1, <3>2, <3>3
  <2>4. CASE events'[k] = <<"moved", f, g>>
    BY <1>6, <2>2, <2>4
  <2> QED BY <1>1, <2>3, <2>4 DEF Noted
<1>8. PICK h \in [Files -> SUBSET Files] :
         Heirs(h) /\ \A a \in Files : \A x \in h[a] \ cut : running => Accounted(x, positions[a])
  BY DEF PassedInv
<1>9. PICK m \in [Files -> SUBSET Files] :
         m = [a \in Files |-> IF a = g THEN {g} ELSE (h[a] \ {g}) \cup (IF f \in h[a] THEN {g} ELSE {})]
  OBVIOUS
<1>10. /\ m[g] = {g}
       /\ \A a \in Files \ {g} : \A x \in Files : x \in m[a] <=> (x # g /\ x \in h[a]) \/ (x = g /\ f \in h[a])
  BY <1>9
<1>11. Heirs(m)'
  <2>1. ASSUME NEW a \in Files, NEW b \in Files, MovedTo(a, b)' PROVE m[b] \subseteq m[a]
    <3>1. CASE MovedTo(a, b) /\ a # g /\ b # g
      <4>1. h[b] \subseteq h[a]
        BY <1>8, <3>1 DEF Heirs
      <4> QED BY <1>10, <3>1, <4>1
    <3>2. CASE a = f /\ b = g
      <4>1. f \in h[f]
        BY <1>8 DEF Heirs
      <4> QED BY <1>1, <1>10, <3>2, <4>1
    <3> QED BY <1>7, <2>1, <3>1, <3>2
  <2>2. \A a \in Files : a \in m[a]
    BY <1>8, <1>10 DEF Heirs
  <2> QED BY <2>1, <2>2 DEF Heirs
<1>12. positions'[g] = Untracked /\ saved'[g] = Untracked /\ \A t \in Threads : reading'[t].file # g
  BY <1>1, <1>2 DEF Fresh
<1>13. ASSUME NEW a \in Files, NEW x \in m[a] \ cut', running' PROVE NowAccounted(x, positions'[a])
  <2>1. CASE a = g
    <3>1. x = g
      BY <1>10, <2>1
    <3> QED BY <1>5, <1>12, <2>1, <3>1, NowAtStart
  <2>2. CASE a # g /\ x # g
    <3>1. x \in h[a] /\ x # f /\ x \notin cut /\ x \in Files
      BY <1>2, <1>10, <2>2
    <3> QED BY <1>2, <1>3, <1>5, <1>8, <1>13, <2>2, <3>1 DEF StaysAccounted
  <2>3. CASE a # g /\ x = g
    <3>1. f \in h[a] /\ f \notin cut
      BY <1>2, <1>10, <2>3
    <3> QED BY <1>2, <1>4, <1>5, <1>8, <1>13, <2>3, <3>1 DEF StaysAccounted
  <2> QED BY <2>1, <2>2, <2>3
<1>14. ASSUME NEW x \in Files \ cut' PROVE NowAccounted(x, saved'[x])
  <2>1. CASE x = g
    BY <1>5, <1>12, <2>1, NowAtStart
  <2>2. CASE x # g
    BY <1>2, <1>3, <1>5, <2>2 DEF StaysAccounted, PassedInv
  <2> QED BY <2>1, <2>2
<1>15. ASSUME NEW t \in Threads, reading'[t].file \in Files \ cut' PROVE NowAccounted(reading'[t].file, reading'[t].from)
  <2>1. PICK x \in Files, from \in Nat : x = reading[t].file /\ from = reading[t].from
    BY <1>2, <1>15 DEF WatchInv, WatchTypes
  <2>2. x # f /\ x # g /\ x \notin cut
    BY <1>2, <1>12, <1>15, <2>1
  <2>3. Accounted(x, from)
    BY <2>1, <2>2 DEF PassedInv
  <2> QED BY <1>2, <1>3, <2>1, <2>2, <2>3 DEF StaysAccounted
<1> QED BY <1>11, <1>13, <1>14, <1>15, PassedNow

\* The observer keeps PassedInv: a position moves to a name of the same file, or to the beginning.
LEMMA PassedObserve ==
    ASSUME WatchInv, PassedInv, Observe
    PROVE  PassedInv'
<1>1. /\ WatchInv' /\ Dropped /\ positions' = Moved(Head(events))
      /\ reading' = reading \/ Begun("observer", positions', Head(events)[3])
  BY WatchObserve
<1>2. running /\ UNCHANGED <<disk, saved, running, cut, ingested, missed, ingests>>
  BY DEF Observe, written
<1>3. PICK e \in EventSet : e = Head(events)
  BY <1>1 DEF Dropped
<1>4. PICK f \in Files, g \in Files : f = e[2] /\ g = e[3]
  BY DEF EventSet
<1>5. \A x \in Files : StaysAccounted(x, x)
  BY <1>2, SameAccounted DEF AllKept
<1>6. \A x \in Files : /\ positions[x] \in Nat \cup {Untracked} /\ saved[x] \in Nat \cup {Untracked}
                       /\ disk'[x].half \in Seq(Lines) /\ positions'[x] \in Nat \cup {Untracked}
  BY <1>1 DEF WatchInv, WatchTypes
<1>7. PICK h \in [Files -> SUBSET Files] :
         Heirs(h) /\ \A a \in Files : \A x \in h[a] \ cut : running => Accounted(x, positions[a])
  BY DEF PassedInv
<1>8. Heirs(h)'
  BY <1>1, <1>7, DroppedIsOld DEF Heirs
<1>9. e[1] = "moved" => f # g /\ h[g] \subseteq h[f]
  <2>1. 1 \in DOMAIN events /\ events[1] = e
    BY <1>1, <1>3 DEF Dropped, WatchInv, WatchTypes
  <2>2. e[1] = "moved" => e = <<"moved", f, g>>
    BY <1>4 DEF EventSet
  <2>3. e[1] = "moved" => MovedTo(f, g)
    BY <2>1, <2>2 DEF MovedTo
  <2> QED BY <1>7, <2>3, ThereIsNotMoved DEF Heirs
<1>10. \A a \in Files : \A x \in h[a] \ cut : NowAccounted(x, positions[a]) /\ NowAccounted(x, 0) /\ NowAccounted(x, Untracked)
  <2>1. ASSUME NEW a \in Files, NEW x \in h[a] \ cut
        PROVE  NowAccounted(x, positions[a]) /\ NowAccounted(x, 0) /\ NowAccounted(x, Untracked)
    <3>1. x \in Files /\ x \in h[a] \ cut
      OBVIOUS
    <3>2. Accounted(x, positions[a])
      BY <1>2, <1>7
    <3> QED BY <1>5, <1>6, <3>1, <3>2, NowAtStart DEF StaysAccounted
  <2> QED BY <2>1
<1>11. ASSUME NEW a \in Files, NEW x \in h[a] \ cut PROVE NowAccounted(x, positions'[a])
  <2>1. CASE e[1] = "modified" \/ (a # f /\ a # g)
    <3>1. positions'[a] = positions[a]
      BY <1>1, <1>3, <1>4, <2>1, MovedMoves
    <3> QED BY <1>10, <3>1
  <2>2. CASE e[1] = "created"
    <3>1. positions'[a] = positions[a] \/ positions'[a] = 0
      BY <1>1, <1>3, <1>4, <2>2, MovedMoves
    <3> QED BY <1>10, <3>1
  <2>3. CASE e[1] = "moved" /\ a = f
    <3>1. positions'[a] = Untracked
      BY <1>1, <1>3, <1>4, <1>9, <2>3, MovedMoves
    <3> QED BY <1>10, <3>1
  <2>4. CASE e[1] = "moved" /\ a = g
    <3>1. \/ positions'[a] = positions[f]
          \/ positions'[a] = positions[a]
          \/ positions'[a] = 0
      BY <1>1, <1>3, <1>4, <1>9, <2>4, MovedMoves
    <3>2. x \in h[f] \ cut
      BY <1>9, <2>4
    <3> QED BY <1>10, <3>1, <3>2
  <2>5. e[1] \in {"created", "modified", "moved"}
    BY DEF EventSet
  <2> QED BY <2>1, <2>2, <2>3, <2>4, <2>5
<1>12. ASSUME NEW x \in Files \ cut' PROVE NowAccounted(x, saved'[x])
  BY <1>2, <1>5, <1>6 DEF StaysAccounted, PassedInv
<1>13. ASSUME NEW t \in Threads, reading'[t].file \in Files \ cut' PROVE NowAccounted(reading'[t].file, reading'[t].from)
  <2>1. CASE reading'[t] = reading[t]
    <3>1. PICK x \in Files, from \in Nat : x = reading[t].file /\ from = reading[t].from
      BY <1>13, <2>1 DEF WatchInv, WatchTypes
    <3>2. Accounted(x, from)
      BY <1>2, <1>13, <2>1, <3>1 DEF PassedInv
    <3> QED BY <1>5, <2>1, <3>1, <3>2 DEF StaysAccounted
  <2>2. CASE Begun("observer", positions', g) /\ t = "observer"
    <3>1. reading'[t].file = g /\ reading'[t].from = From(positions', g) /\ g \notin cut
      BY <1>2, <1>13, <2>2 DEF Begun
    <3>2. g \in h[g]
      BY <1>7 DEF Heirs
    <3>3. NowAccounted(g, positions'[g]) /\ NowAccounted(g, 0)
      BY <1>10, <1>11, <3>1, <3>2
    <3> QED BY <3>1, <3>3 DEF From
  <2>3. CASE Begun("observer", positions', g) /\ t # "observer"
    BY <2>1, <2>3 DEF Begun
  <2> QED BY <1>1, <1>3, <1>4, <2>1, <2>2, <2>3
<1> QED BY <1>2, <1>8, <1>11, <1>12, <1>13, PassedNow

\* What is read is handed on, or given up because it was torn.
LEMMA ReadAccounts ==
    ASSUME WatchInv, NEW t \in Threads, TakesIn(t), NEW f \in Files, f = reading[t].file, disk' = disk,
           Accounted(f, reading[t].from), AllKept,
           NewLine(t) \subseteq UNION ingests', TornLines(Half(t)) \subseteq missed'
    PROVE  NowAccounted(f, positions'[f])
<1>1. PICK from \in Nat : from = reading[t].from
  BY DEF WatchInv, WatchTypes
<1>2. PICK s \in Seq(Lines) : s = disk[f].half
  BY DEF WatchInv, WatchTypes
<1>3. Size(f) = Len(s) /\ Len(s) \in Nat /\ Half(t) = SubSeq(s, from + 1, Len(s)) /\ disk'[f].half = s
  BY <1>1, <1>2 DEF Size, Half
<1>4. from <= Len(s)
  BY <1>1, <1>3 DEF Accounted
<1>5. positions'[f] = Len(s)
  BY <1>1, <1>3, <1>4 DEF TakesIn, ReadTo
<1>6. ASSUME NEW l \in LinesOf(Half(t)) PROVE l \in UNION ingests' \/ l \in missed'
  <2>1. l \in WholeLines(Half(t)) \/ l \in TornLines(Half(t))
    BY DEF TornLines
  <2>2. WholeLines(Half(t)) = NewLine(t)
    BY DEF NewLine
  <2> QED BY <2>1, <2>2
<1>7. ASSUME NEW i \in 1..(Len(s) - 1), s[i] = s[i + 1]
      PROVE  s[i] \in ingested' \cup missed' \cup UNION ingests'
  <2>1. CASE i < from
    <3>1. i \in 1..(from - 1)
      BY <1>1, <2>1
    <3> QED BY <1>1, <1>2, <1>7, <3>1 DEF Accounted, AllKept
  <2>2. CASE ~(i < from)
    <3>1. PICK j \in 1..Len(s) : j = i + 1 /\ j > from
      BY <1>1, <1>3, <2>2
    <3>2. s[j] \in LinesOf(Half(t))
      BY <1>3, <3>1, SubLines
    <3>3. s[j] = s[i]
      BY <1>7, <3>1
    <3>4. s[i] \in UNION ingests' \/ s[i] \in missed'
      BY <1>6, <3>2, <3>3
    <3> QED BY <3>4
  <2> QED BY <2>1, <2>2
<1> QED BY <1>3, <1>5, <1>7 DEF NowAccounted

\* A read keeps PassedInv.
LEMMA PassedRead ==
    ASSUME WatchInv, PassedInv, NEW t \in Threads, Read(t)
    PROVE  PassedInv'
<1>1. /\ Freed(t) /\ reading[t].file \in Files
      /\ \/ ~disk[reading[t].file].there /\ UNCHANGED <<positions, saved, ingests, captured, missed, raced>>
         \/ /\ TakesIn(t)
            /\ missed' = missed \cup TornLines(Half(t))
            /\ ingests' = IF NewLine(t) = {} THEN ingests ELSE ingests \cup {NewLine(t)}
  BY ReadTakes
<1>2. UNCHANGED <<disk, events, running, cut, ingested>> /\ reading[t] # Free
  BY DEF Read, written
<1>3. PICK f \in Files : f = reading[t].file
  BY <1>1
<1>4. running
  BY <1>2 DEF WatchInv, Queue
<1>5. ASSUME NEW u \in Threads, reading'[u].file \in Files PROVE reading'[u] = reading[u]
  BY <1>1, <1>5, SessionFacts DEF Freed, Free
<1>6. CASE UNCHANGED <<positions, saved, ingests, missed>>
  <2>1. \A x \in Files : StaysAccounted(x, x)
    BY <1>2, <1>6, SameAccounted DEF AllKept
  <2>2. Quiet
    BY <1>2, <1>6, <2>1 DEF Quiet, MovedTo
  <2> QED BY <1>5, <2>2, QuietIsPassed
<1>7. CASE /\ TakesIn(t) /\ missed' = missed \cup TornLines(Half(t))
           /\ ingests' = IF NewLine(t) = {} THEN ingests ELSE ingests \cup {NewLine(t)}
  <2>1. NewLine(t) \subseteq UNION ingests' /\ TornLines(Half(t)) \subseteq missed' /\ AllKept
    BY <1>2, <1>7 DEF AllKept
  <2>2. \A x \in Files : StaysAccounted(x, x)
    BY <1>2, <2>1, SameAccounted
  <2>3. f \notin cut => NowAccounted(f, positions'[f])
    <3>1. f \notin cut => Accounted(f, reading[t].from)
      BY <1>3 DEF PassedInv
    <3> QED BY <1>2, <1>3, <1>7, <2>1, <3>1, ReadAccounts
  <2>4. \A x \in Files : x # f => positions'[x] = positions[x]
    BY <1>3, <1>7 DEF TakesIn
  <2>5. disk[f].there /\ saved' = positions'
    BY <1>3, <1>7 DEF TakesIn
  <2>6. PICK h \in [Files -> SUBSET Files] :
           Heirs(h) /\ \A a \in Files : \A x \in h[a] \ cut : running => Accounted(x, positions[a])
    BY DEF PassedInv
  <2>7. PICK m \in [Files -> SUBSET Files] : m = [a \in Files |-> IF a = f THEN {f} ELSE h[a]]
    OBVIOUS
  <2>8. \A a \in Files : a \in m[a] /\ m[a] \subseteq h[a] /\ (a = f => m[a] = {f}) /\ (a # f => m[a] = h[a])
    BY <2>6, <2>7 DEF Heirs
  <2>9. Heirs(m)'
    <3>1. ASSUME NEW a \in Files, NEW b \in Files, MovedTo(a, b) PROVE m[b] \subseteq m[a]
      <4>1. a # f
        BY <2>5, <3>1, ThereIsNotMoved
      <4>2. h[b] \subseteq h[a]
        BY <2>6, <3>1 DEF Heirs
      <4> QED BY <2>8, <4>1, <4>2
    <3> QED BY <1>2, <2>8, <3>1 DEF Heirs, MovedTo
  <2>10. ASSUME NEW a \in Files, NEW x \in m[a] \ cut' PROVE NowAccounted(x, positions'[a])
    <3>1. CASE a = f
      BY <1>2, <2>3, <2>8, <3>1
    <3>2. CASE a # f
      <4>1. x \in h[a] \ cut /\ x \in Files /\ positions'[a] = positions[a]
        BY <1>2, <2>4, <2>8, <3>2
      <4>2. positions[a] \in Nat \cup {Untracked}
        BY DEF WatchInv, WatchTypes
      <4> QED BY <1>4, <2>2, <2>6, <4>1, <4>2 DEF StaysAccounted
    <3> QED BY <3>1, <3>2
  <2>11. ASSUME NEW x \in Files \ cut' PROVE NowAccounted(x, saved'[x])
    BY <2>5, <2>8, <2>10
  <2>12. ASSUME NEW u \in Threads, reading'[u].file \in Files \ cut' PROVE NowAccounted(reading'[u].file, reading'[u].from)
    <3>1. reading'[u] = reading[u]
      BY <1>5, <2>12
    <3>2. PICK x \in Files, from \in Nat : x = reading[u].file /\ from = reading[u].from
      BY <2>12, <3>1 DEF WatchInv, WatchTypes
    <3>3. Accounted(x, from)
      BY <1>2, <2>12, <3>1, <3>2 DEF PassedInv
    <3> QED BY <2>2, <3>1, <3>2, <3>3 DEF StaysAccounted
  <2> QED BY <2>9, <2>10, <2>11, <2>12, PassedNow
<1> QED BY <1>1, <1>6, <1>7

\* Every step keeps PassedInv.
LEMMA PassedStep ==
    ASSUME WatchInv, PassedInv, [SessionNext]_sessionVars
    PROVE  PassedInv'
<1>1. ASSUME NEW f \in Files, Write(f) PROVE PassedInv'
  BY <1>1, PassedWrite
<1>2. ASSUME NEW f \in Files, Truncate(f) PROVE PassedInv'
  BY <1>2, PassedTruncate
<1>3. ASSUME NEW f \in Files, Scan(f) PROVE PassedInv'
  BY <1>3, PassedScan
<1>4. ASSUME NEW f \in Files, NEW g \in Files, Rename(f, g) PROVE PassedInv'
  BY <1>4, PassedRename
<1>5. ASSUME NEW t \in Threads, Read(t) PROVE PassedInv'
  BY <1>5, PassedRead
<1>6. ASSUME NEW b \in ingests, IngestBatch(b) PROVE PassedInv'
  BY <1>6, PassedIngest
<1>7. CASE UNCHANGED sessionVars
  <2>1. UNCHANGED <<disk, positions, saved, events, reading, ingests, running, ingested, missed, cut>>
    BY <1>7 DEF sessionVars, written, history
  <2>2. Quiet
    BY <2>1, SameAccounted DEF Quiet, AllKept, MovedTo
  <2> QED BY <2>1, <2>2, QuietIsPassed
<1> QED BY <1>1, <1>2, <1>3, <1>4, <1>5, <1>6, <1>7, PassedStart, PassedMiss, PassedObserve, PassedCrash
        DEF SessionNext, SessionWatch

\* PassedInv implies the property.
LEMMA PassedMeansIngested ==
    ASSUME WatchInv, PassedInv
    PROVE  PassedIsIngested
<1>1. SUFFICES ASSUME NEW f \in Files \ cut, running, positions[f] # Untracked,
                      NEW l \in WholeLines(SubSeq(disk[f].half, 1, Min(positions[f], Size(f))))
               PROVE  l \in ingested \cup missed \cup UNION ingests
  BY DEF PassedIsIngested
<1>2. PICK s \in Seq(Lines), p \in Nat : s = disk[f].half /\ p = positions[f]
  BY <1>1 DEF WatchInv, WatchTypes
<1>3. Accounted(f, p)
  BY <1>1, <1>2 DEF PassedInv, Heirs
<1>4. p <= Len(s) /\ Len(s) \in Nat /\ Min(positions[f], Size(f)) = p
  BY <1>2, <1>3 DEF Accounted, Size, Min
<1>5. \A i \in 1..p : s[i] \in Lines
  BY <1>4
<1>6. SubSeq(s, 1, p) \in Seq(Lines) /\ Len(SubSeq(s, 1, p)) = p /\ \A i \in 1..p : SubSeq(s, 1, p)[i] = s[i]
  BY <1>4, <1>5
<1>7. PICK i \in 1..(p - 1) : SubSeq(s, 1, p)[i] = SubSeq(s, 1, p)[i + 1] /\ l = SubSeq(s, 1, p)[i]
  BY <1>2, <1>4, <1>6 DEF WholeLines
<1>8. i \in 1..p /\ i + 1 \in 1..p
  OBVIOUS
<1> QED BY <1>2, <1>3, <1>6, <1>7, <1>8 DEF Accounted

\* PassedIsIngested: a whole line behind the position is stored, being ingested or given up
\* (session_watcher.py:239, 248, 256, 330).
THEOREM PassedLinesAreIngested == SessionSpec => []PassedIsIngested
<1>1. SessionInit => WatchInv /\ OnceInv /\ PassedInv
  <2> SUFFICES ASSUME SessionInit PROVE PassedInv
    BY OnceAtStart
  <2>1. /\ disk = [f \in Files |-> NoFile] /\ events = <<>> /\ reading = [t \in Threads |-> Free]
        /\ saved = positions /\ positions = [f \in Files |-> Untracked] /\ running = FALSE
    BY DEF SessionInit
  <2>2. DOMAIN events = {} /\ Free.file \notin Files
    BY <2>1, SessionFacts DEF Free
  <2>3. \A f \in Files : disk[f].half \in Seq(Lines)
    BY WatchInit DEF WatchInv, WatchTypes
  <2>4. PICK h \in [Files -> SUBSET Files] : h = [a \in Files |-> {a}]
    OBVIOUS
  <2>5. Heirs(h)
    BY <2>2, <2>4 DEF Heirs, MovedTo
  <2>6. \A f \in Files : Accounted(f, saved[f])
    BY <2>1, <2>3, AtStartAccounted
  <2> QED BY <2>1, <2>2, <2>5, <2>6 DEF PassedInv
<1>2. WatchInv /\ OnceInv /\ PassedInv /\ [SessionNext]_sessionVars => (WatchInv /\ OnceInv /\ PassedInv)'
  BY OnceStep, PassedStep
<1>3. WatchInv /\ PassedInv => PassedIsIngested
  BY PassedMeansIngested
<1> QED BY <1>1, <1>2, <1>3, PTL DEF SessionSpec
=============================================================================
