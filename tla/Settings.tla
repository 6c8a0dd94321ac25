------------------------------ MODULE Settings ------------------------------
(***************************************************************************)
(* The two files engram is set up by, config.yaml and api_keys.json.       *)
(* Command-line processes and the server read a file, change what they     *)
(* read and write it back: no lock is taken, and apart from PUT /config a  *)
(* write first empties the file.                                           *)
(***************************************************************************)
EXTENDS Naturals, FiniteSets

CONSTANTS
    Processes,
    ProviderNames,   \* names of external memory providers
    ApiKeys,        \* API keys, as their hashes
    KeyName,     \* [Keys -> label]
    Overlay,     \* ENGRAM_* in the environment: a value for the plain field, or "unset"
    Exported,    \* the variable that ${...} names is in the environment
    MaxChanges  \* bound: commands of all processes

ASSUME SettingsAssumption ==
    Overlay \in {"unset", "good", "wrong"} /\ Exported \in BOOLEAN /\ MaxChanges \in Nat

VARIABLES
    config,    \* config.yaml: a plain field, a secret field and the provider list
    keys,      \* api_keys.json: a set of records
    emptied,   \* files that were emptied and not written yet (keys: or that do not parse)
    proc,      \* the command each process runs
    started,    \* commands so far
    created,   \* history: keys whose create-key has finished
    revoked,   \* history: of those, the keys a finished revoke-key named
    clouded    \* history: api_keys.json was written from an old reading, or a write was cut off

settingVars == <<config, keys, emptied, proc, started, created, revoked, clouded>>

Defaults == [plain |-> "default", secret |-> "none", providers |-> {}]

AtRest == [at |-> "idle", op |-> "none", arg |-> "none", base |-> Defaults, stale |-> FALSE]

SettingsInit ==
    /\ config = Defaults /\ keys = {} /\ emptied = {}
    /\ proc = [p \in Processes |-> AtRest]
    /\ started = 0 /\ created = {} /\ revoked = {} /\ clouded = FALSE

----------------------------------------------------------------------------
\* yaml.safe_load("") or {}: an emptied configuration reads as one that sets nothing.
Raw == IF "config" \in emptied THEN Defaults ELSE config

\* ${VAR} is replaced if the environment has VAR.
_expand_env_vars(c) ==
    [c EXCEPT !.secret = IF @ = "reference" /\ Exported THEN "expanded" ELSE @]

_apply_env_overlay(c) == [c EXCEPT !.plain = IF Overlay = "unset" THEN @ ELSE Overlay]

load_config(c) == _apply_env_overlay(_expand_env_vars(c))

\* Config(**data): a value that does not fit its field raises.
Valid(c) == load_config(c).plain # "wrong"

\* Mutant: the dump goes to the file as it is.
_mask_secrets_Plain(c) == c

_mask_secrets(c) ==
    [c EXCEPT !.secret = IF @ \in {"literal", "expanded"} THEN "redacted" ELSE @]

\* What engram init writes.
Template == [plain |-> "default", secret |-> "reference", providers |-> {}]

----------------------------------------------------------------------------
FileOf(op) == IF op \in {"create", "revoke"} THEN "keys" ELSE "config"

\* The others that have read a file and not written it hold an old reading from now on.
Steps(p, file, rec) ==
    proc' = [q \in Processes |->
               IF q = p THEN rec
               ELSE [proc[q] EXCEPT !.stale = @ \/ (proc[q].op # "none" /\ FileOf(proc[q].op) = file)]]

\* Every command starts by loading the configuration, and ends there if it is not valid.
MayStart(p) ==
    /\ proc[p].at = "idle" /\ started < MaxChanges
    /\ started' = started + 1

Holds(p, at, op, arg, base) ==
    Steps(p, "none", [at |-> at, op |-> op, arg |-> arg, base |-> base, stale |-> FALSE])

\* config set: the raw file with one field changed; values are not looked at before they are written.
ConfigSet(p) ==
    /\ MayStart(p) /\ Valid(Raw)
    /\ \E c \in {[Raw EXCEPT !.plain = v] : v \in {"good", "wrong"}} \cup {[Raw EXCEPT !.secret = "literal"]} :
          Holds(p, "truncate", "set", "none", c)
    /\ UNCHANGED <<config, keys, emptied, created, revoked, clouded>>

\* schema init, discover, providers add, setup: the loaded configuration, to be saved when the
\* user has answered and the scan is over.
LoadToSave(p) ==
    /\ MayStart(p) /\ Valid(Raw)
    /\ \E new \in SUBSET ProviderNames :
          Holds(p, "truncate", "save", "none", [load_config(Raw) EXCEPT !.providers = @ \cup new])
    /\ UNCHANGED <<config, keys, emptied, created, revoked, clouded>>

\* init with no configuration there, with one there and --force or the user's consent, or with one
\* there and nobody to ask: it says that it skips the file, and goes on to write it.
ConfigInit(p) ==
    /\ MayStart(p) /\ Valid(Raw)
    /\ \E how \in IF config = Defaults THEN {"new"} ELSE {"allowed", "unasked"} :
          Holds(p, "truncate", "init", how, Template)
    /\ UNCHANGED <<config, keys, emptied, created, revoked, clouded>>

\* open(path, "w")
Truncate(p) ==
    /\ proc[p].at = "truncate"
    /\ emptied' = emptied \cup {"config"}
    /\ Steps(p, "config", [proc[p] EXCEPT !.at = "write"])
    /\ UNCHANGED <<config, keys, started, created, revoked, clouded>>

save_config(p) == IF proc[p].op = "save" THEN _mask_secrets(proc[p].base) ELSE proc[p].base

\* Two writes that overlap may leave the end of the longer one behind the shorter.
Garbled == [Defaults EXCEPT !.plain = "wrong"]

WriteConfig(p) ==
    /\ proc[p].at = "write"
    /\ \/ config' = save_config(p)
       \/ "config" \notin emptied /\ config' = Garbled
    /\ emptied' = emptied \ {"config"}
    /\ Steps(p, "config", AtRest)
    /\ UNCHANGED <<keys, started, created, revoked, clouded>>

\* PUT /config: the server holds its settings already.  The raw file is read ...
PutRead(p) ==
    /\ MayStart(p)
    /\ \E c \in {[Raw EXCEPT !.plain = v] : v \in {"good", "wrong"}} \cup {[Raw EXCEPT !.secret = "literal"]} :
          Holds(p, "put", "put", "none", c)
    /\ UNCHANGED <<config, keys, emptied, created, revoked, clouded>>

\* ... the new one written beside it and loaded ...
Accepted(c) == Valid(c)

\* ... and put in its place if it can be; what others still write goes to the file that was there.
PutReplace(p) ==
    /\ proc[p].at = "put" /\ Accepted(proc[p].base)
    /\ config' = proc[p].base /\ emptied' = emptied \ {"config"}
    /\ proc' = [q \in Processes |-> IF q = p \/ proc[q].at = "write" THEN AtRest ELSE proc[q]]
    /\ UNCHANGED <<keys, started, created, revoked, clouded>>

PutRefused(p) ==
    /\ proc[p].at = "put" /\ ~Accepted(proc[p].base)
    /\ Steps(p, "none", AtRest)
    /\ UNCHANGED <<config, keys, emptied, started, created, revoked, clouded>>

----------------------------------------------------------------------------
\* An emptied api_keys.json does not parse: the command fails.
_load_api_keys(p) == MayStart(p) /\ Valid(Raw) /\ "keys" \notin emptied

CreateKey(p) ==
    /\ _load_api_keys(p)
    /\ \E k \in ApiKeys :
        /\ \A r \in keys : r.key # k
        /\ \A q \in Processes : proc[q].op = "create" => proc[q].arg # k
        /\ k \notin created
        /\ Holds(p, "truncateKeys", "create", k, keys \cup {[key |-> k, active |-> TRUE]})
    /\ UNCHANGED <<config, keys, emptied, created, revoked, clouded>>

\* Mutant: the search ends at the first key of that name.
Deactivated_One(ks, n) ==
    LET r == CHOOSE r \in ks : KeyName[r.key] = n /\ r.active
    IN (ks \ {r}) \cup {[r EXCEPT !.active = FALSE]}

Deactivated(ks, n) ==
    {[r EXCEPT !.active = r.active /\ KeyName[r.key] # n] : r \in ks}

RevokeKey(p) ==
    /\ _load_api_keys(p)
    /\ \E n \in {KeyName[k] : k \in ApiKeys} :
        /\ \E r \in keys : KeyName[r.key] = n /\ r.active
        /\ Holds(p, "truncateKeys", "revoke", n, Deactivated(keys, n))
    /\ UNCHANGED <<config, keys, emptied, created, revoked, clouded>>

TruncateKeys(p) ==
    /\ proc[p].at = "truncateKeys"
    /\ emptied' = emptied \cup {"keys"}
    /\ clouded' = (clouded \/ proc[p].stale)
    /\ Steps(p, "keys", [proc[p] EXCEPT !.at = "writeKeys"])
    /\ UNCHANGED <<config, keys, started, created, revoked>>

_save_api_keys(p) ==
    /\ proc[p].at = "writeKeys"
    /\ keys' = proc[p].base
    /\ \/ emptied' = emptied \ {"keys"}
       \/ "keys" \notin emptied /\ emptied' = emptied \cup {"keys"}
    /\ created' = IF proc[p].op = "create" THEN created \cup {proc[p].arg} ELSE created
    /\ revoked' = IF proc[p].op = "revoke"
                  THEN revoked \cup {k \in created : KeyName[k] = proc[p].arg} ELSE revoked
    /\ clouded' = (clouded \/ proc[p].stale)
    /\ Steps(p, "keys", AtRest)
    /\ UNCHANGED <<config, started>>

\* A process that dies leaves the file as it is.
KillProcess(p) ==
    /\ proc[p].at # "idle"
    /\ clouded' = (clouded \/ proc[p].at = "writeKeys")
    /\ config' = IF proc[p].at = "write" THEN Raw ELSE config
    /\ Steps(p, "none", AtRest)
    /\ UNCHANGED <<keys, emptied, started, created, revoked>>

SettingsNext ==
    \E p \in Processes :
        \/ ConfigSet(p) \/ LoadToSave(p) \/ ConfigInit(p) \/ Truncate(p) \/ WriteConfig(p)
        \/ PutRead(p) \/ PutReplace(p) \/ PutRefused(p)
        \/ CreateKey(p) \/ RevokeKey(p) \/ TruncateKeys(p) \/ _save_api_keys(p)
        \/ KillProcess(p)

SettingsSpec == SettingsInit /\ [][SettingsNext]_settingVars

----------------------------------------------------------------------------
\* A secret that came in through a reference to the environment is not written to the file.
EnvironmentStaysOut == config.secret # "expanded"

\* While every writer of api_keys.json had read what it replaced, each key that was created is in it,
\* and active until a revoke-key names it (auth.py:107).
KeysKept ==
    ~clouded /\ "keys" \notin emptied =>
        /\ {r.key : r \in keys} = created
        /\ {r.key : r \in {x \in keys : x.active}} = created \ revoked

\* "Config already exists at ... - skipping (use --force to overwrite)" (cli/init_cmd.py:98): an
\* init that nobody can be asked about never empties the configuration.
InitKeepsConfig ==
    \A p \in Processes : proc[p].arg = "unasked" => proc[p].at # "write"
=============================================================================
