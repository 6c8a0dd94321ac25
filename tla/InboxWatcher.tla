---------------------------- MODULE InboxWatcher ----------------------------
(***************************************************************************)
(* The inbox watcher of engram: it polls a directory for .json and .jsonl  *)
(* files, claims one by renaming it to <stem>.processing, loads it, hands  *)
(* its messages to an ingest function, and moves it to processed/; after a *)
(* failure it puts it back, and after the third one moves it to failed/.   *)
(* At its start a watcher puts back what crashes left claimed.             *)
(*                                                                         *)
(* Two watchers are two processes: an action is one file operation or one  *)
(* message handed over.  The sidecar lock is left out, the rename is atomic*)
(* without it; files in processed/ have a time in their name and never     *)
(* meet.  Stems have no dot: recovery would leave "a.b" without any        *)
(* extension.  The command line makes the watcher without auto memory and  *)
(* without a consolidation trigger, which are left out.                    *)
(***************************************************************************)
EXTENDS Naturals, FiniteSets

CONSTANTS
    Docs,         \* the files users will drop
    NoDoc,        \* no file
    Stems,        \* file names without their extension
    Watchers,     \* watcher processes
    Messages,     \* number of messages in a file
    _MAX_RETRIES, \* 3 in the code
    MaxStops      \* bound: stops and crashes

Exts  == {"json", "jsonl"}
Paths == Stems \X Exts
\* A .jsonl file of one line is valid JSON too, of many it is not; a .json file may be broken.
Forms == [path : Stems \X {"json"}, kind : {"one", "broken"}]
           \cup [path : Stems \X {"jsonl"}, kind : {"one", "many"}]

ASSUME InboxAssumption ==
    /\ IsFiniteSet(Docs) /\ NoDoc \notin Docs
    /\ IsFiniteSet(Stems) /\ IsFiniteSet(Watchers)
    /\ Messages \in Nat \ {0} /\ _MAX_RETRIES \in Nat \ {0}
    /\ MaxStops \in Nat

VARIABLES
    form,      \* [Docs -> [path, kind]], what the users drop
    proxied,   \* the ingest function is http_ingest_messages, which swallows its errors
    dropped,   \* documents dropped so far
    files,     \* the inbox: [Paths -> document]
    claimed,   \* its .processing files: [Stems -> document]
    aged,      \* documents last written over an hour ago
    processed, \* documents in processed/
    failed,    \* failed/: [Paths -> document]
    retries,   \* _retry_counts of each watcher
    w,         \* what each watcher is doing
    stored,    \* history: the messages handed over, <<document, number>>
    errors,    \* history: failed attempts at a document, up to _MAX_RETRIES
    recovered, \* history: documents put back by a starting watcher
    stops      \* stops and crashes so far

dirs      == <<files, claimed, processed, failed>>
inboxVars == <<form, proxied, dropped, aged, dirs, retries, w, stored, errors, recovered, stops>>

Off == [at |-> "off", orphans |-> {}, path |-> <<>>, doc |-> NoDoc, sent |-> 0]
NoRetries == [p \in Paths |-> 0]

InboxInit ==
    /\ form \in [Docs -> Forms]
    /\ proxied \in BOOLEAN
    /\ dropped = {} /\ aged = {} /\ processed = {} /\ recovered = {}
    /\ files   = [p \in Paths |-> NoDoc] /\ failed = files
    /\ claimed = [s \in Stems |-> NoDoc]
    /\ retries = [v \in Watchers |-> NoRetries]
    /\ w       = [v \in Watchers |-> Off]
    /\ stored  = {}
    /\ errors  = [d \in Docs |-> 0]
    /\ stops = 0

----------------------------------------------------------------------------
\* A user writes a file; one of the same name is replaced.
Drop(d) ==
    /\ d \notin dropped
    /\ dropped' = dropped \cup {d}
    /\ files' = [files EXCEPT ![form[d].path] = d]
    /\ UNCHANGED <<form, proxied, aged, claimed, processed, failed, retries, w, stored, errors,
                   recovered, stops>>

\* An hour passes.
HourPasses ==
    /\ aged' = dropped /\ aged # dropped
    /\ UNCHANGED <<form, proxied, dropped, dirs, retries, w, stored, errors, recovered, stops>>

Start(v) ==
    /\ w[v].at = "off"
    /\ w' = [w EXCEPT ![v] = [Off EXCEPT !.at = "recover",
                              !.orphans = {s \in Stems : claimed[s] # NoDoc}]]
    /\ UNCHANGED <<form, proxied, dropped, aged, dirs, retries, stored, errors, recovered, stops>>

\* _recover_orphaned_files: an orphan has no extension left in its stem, and gets .json.
Recover(v) ==
    /\ w[v].at = "recover"
    /\ \E s \in w[v].orphans :
        /\ w' = [w EXCEPT ![v].orphans = @ \ {s}]
        /\ IF claimed[s] \in aged
             THEN /\ files'     = [files EXCEPT ![<<s, "json">>] = claimed[s]]
                  /\ claimed'   = [claimed EXCEPT ![s] = NoDoc]
                  /\ recovered' = recovered \cup {claimed[s]}
             ELSE UNCHANGED <<files, claimed, recovered>>
    /\ UNCHANGED <<form, proxied, dropped, aged, processed, failed, retries, stored, errors, stops>>

BeginPolling(v) ==
    /\ w[v].at = "recover" /\ w[v].orphans = {}
    /\ w' = [w EXCEPT ![v].at = "poll"]
    /\ UNCHANGED <<form, proxied, dropped, aged, dirs, retries, stored, errors, recovered, stops>>

\* A listed file is claimed, or is gone and skipped: the rename finds out.
\* It replaces a .processing file of the same stem.
Claim(v) ==
    /\ w[v].at = "poll" /\ w[v].path = <<>>
    /\ \E p \in Paths :
        /\ files[p] # NoDoc
        /\ w' = [w EXCEPT ![v].path = p]
        /\ claimed' = [claimed EXCEPT ![p[1]] = files[p]]
        /\ files'   = [files EXCEPT ![p] = NoDoc]
    /\ UNCHANGED <<form, proxied, dropped, aged, processed, failed, retries, stored, errors, recovered, stops>>

Busy(v) == w[v].path # <<>>
Done(v) == [w EXCEPT ![v].path = <<>>, ![v].doc = NoDoc, ![v].sent = 0]
More(n) == IF n < _MAX_RETRIES THEN n + 1 ELSE n
Here(v) == claimed[w[v].path[1]]   \* the document under the name v claimed

\* Mutant: the first failure is the last.
LastTry_First(n) == n >= 1

Failures(v, p) == retries[v][p] + 1
LastTry(n)     == n >= _MAX_RETRIES
Count(n)       == IF LastTry(n) THEN 0 ELSE n

\* The except branch: counted under the file's name, kept for another attempt or given up.
\* A document that is no longer there can be moved nowhere.
Fail(v) ==
    LET p == w[v].path
        n == Failures(v, p)
        d == Here(v)
    IN  /\ retries' = [retries EXCEPT ![v][p] = Count(n)]
        /\ w' = Done(v)
        /\ claimed' = [claimed EXCEPT ![p[1]] = NoDoc]
        /\ files'   = IF d # NoDoc /\ ~LastTry(n) THEN [files EXCEPT ![p] = d] ELSE files
        /\ failed'  = IF d # NoDoc /\ LastTry(n) THEN [failed EXCEPT ![p] = d] ELSE failed
        /\ errors'  = IF d # NoDoc THEN [errors EXCEPT ![d] = More(@)] ELSE errors
        /\ UNCHANGED <<form, proxied, dropped, aged, processed, recovered, stops>>

\* Mutant: a file that does not parse counts as an empty one.
Parse_Lenient(d, ext) == IF d # NoDoc /\ ext = form[d].path[2] THEN "messages" ELSE "nothing"

\* What _load_chat_file makes of a document, read by the extension of its path.
Parse(d, ext) ==
    IF d = NoDoc \/ (ext = "json" /\ form[d].kind # "one") THEN "error"
    ELSE IF ext = form[d].path[2] THEN "messages" ELSE "nothing"

Load(v) ==
    /\ Busy(v) /\ w[v].sent = 0 /\ w[v].doc = NoDoc
    /\ CASE Parse(Here(v), w[v].path[2]) = "messages" ->
              /\ w' = [w EXCEPT ![v].doc = Here(v)]
              /\ UNCHANGED <<dirs, retries, errors>>
         [] Parse(Here(v), w[v].path[2]) = "nothing" ->
              /\ w' = [w EXCEPT ![v].sent = Messages]
              /\ UNCHANGED <<dirs, retries, errors>>
         [] OTHER -> Fail(v)
    /\ UNCHANGED <<form, proxied, dropped, aged, processed, stored, recovered, stops>>

\* do_ingest_messages stores the messages one by one.
Ingest(v) ==
    /\ Busy(v) /\ w[v].doc # NoDoc /\ w[v].sent < Messages
    /\ ~proxied
    /\ stored' = stored \cup {<<w[v].doc, w[v].sent + 1>>}
    /\ w' = [w EXCEPT ![v].sent = @ + 1]
    /\ UNCHANGED <<form, proxied, dropped, aged, dirs, retries, errors, recovered, stops>>

\* ... and an error between two of them ends the attempt.
IngestFails(v) ==
    /\ Busy(v) /\ w[v].doc # NoDoc /\ w[v].sent < Messages
    /\ ~proxied
    /\ Fail(v)
    /\ UNCHANGED stored

\* http_ingest_messages posts them all, and returns normally whatever becomes of the request.
Post(v) ==
    /\ Busy(v) /\ w[v].doc # NoDoc /\ w[v].sent < Messages
    /\ proxied
    /\ w' = [w EXCEPT ![v].sent = Messages]
    /\ \/ stored' = stored \cup ({w[v].doc} \X (1..Messages))
       \/ UNCHANGED stored
    /\ UNCHANGED <<form, proxied, dropped, aged, dirs, retries, errors, recovered, stops>>

\* The move to processed/ takes what is under the claimed name now.
Finish(v) ==
    /\ Busy(v) /\ w[v].sent = Messages
    /\ IF Here(v) = NoDoc
         THEN Fail(v)
         ELSE /\ processed' = processed \cup {Here(v)}
              /\ claimed' = [claimed EXCEPT ![w[v].path[1]] = NoDoc]
              /\ retries' = [retries EXCEPT ![v][w[v].path] = 0]
              /\ w' = Done(v)
              /\ UNCHANGED <<files, failed, errors>>
    /\ UNCHANGED <<form, proxied, dropped, aged, stored, recovered, stops>>

\* Mutant: a stopping watcher removes the .processing files.
Stop_Cleans(v) ==
    /\ w[v].at # "off" /\ stops < MaxStops
    /\ stops' = stops + 1
    /\ w' = [w EXCEPT ![v] = Off]
    /\ retries' = [retries EXCEPT ![v] = NoRetries]
    /\ claimed' = [s \in Stems |-> NoDoc]
    /\ UNCHANGED <<form, proxied, dropped, aged, files, processed, failed, stored, errors, recovered>>

\* SIGTERM between polls, or a crash anywhere: the counts are lost, the files stay.
Stop(v) ==
    /\ w[v].at # "off" /\ stops < MaxStops
    /\ stops' = stops + 1
    /\ w' = [w EXCEPT ![v] = Off]
    /\ retries' = [retries EXCEPT ![v] = NoRetries]
    /\ UNCHANGED <<form, proxied, dropped, aged, dirs, stored, errors, recovered>>

Poll(v) == \/ Recover(v) \/ BeginPolling(v) \/ Claim(v)
           \/ Load(v) \/ Ingest(v) \/ IngestFails(v) \/ Post(v) \/ Finish(v)

InboxNext ==
    \/ \E d \in Docs : Drop(d)
    \/ HourPasses
    \/ \E v \in Watchers : Start(v) \/ Poll(v) \/ Stop(v)

InboxSpec == InboxInit /\ [][InboxNext]_inboxVars

----------------------------------------------------------------------------
Clash(d) == \E o \in dropped \ {d} : form[o].path[1] = form[d].path[1]

\* A file in processed/ has had every message handed over: unless the HTTP ingest swallowed
\* an error, recovery gave a .jsonl file the extension .json, or another file shared its stem
\* (watcher.py:97, 118, http_ingest.py:56).
ProcessedMeansStored ==
    \A d \in processed :
        \/ \A i \in 1..Messages : <<d, i>> \in stored
        \/ proxied \/ Clash(d)
        \/ d \in recovered /\ form[d].path[2] = "jsonl"

\* A file is given up only after _MAX_RETRIES failed attempts at it, unless the attempts were at
\* another file under its stem (counts are kept by name, watcher.py:184), or a second watcher's
\* recovery took the file away under the hands of the first (watcher.py:91).
GivenUpAfterRetries ==
    \A p \in Paths : LET d == failed[p] IN
        d # NoDoc => \/ errors[d] >= _MAX_RETRIES
                     \/ Clash(d)
                     \/ d \in recovered /\ Cardinality(Watchers) > 1

\* A directory has the document, under any name.
Has(dir, d) == \E name \in DOMAIN dir : dir[name] = d

\* Where each document is, for the abstract specification.
FateOf(d) ==
    CASE d \notin dropped  -> "new"
      [] Has(files, d)    -> "waiting"
      [] Has(claimed, d)  -> "taken"
      [] d \in processed   -> "done"
      [] Has(failed, d)   -> "failed"
      [] OTHER            -> "lost"

Delivery == INSTANCE InboxDelivery WITH
    fate <- [d \in Docs |-> FateOf(d)],
    stem <- [d \in Docs |-> form[d].path[1]]

\* The watchers deliver the inbox: whatever crashes, retries and recoveries do, a file is never
\* dropped but for another of its stem, and a finished one never comes back.
InboxDelivers == Delivery!DeliverySpec
=============================================================================
