----------------------------- MODULE ModelCatalog -----------------------------
(***************************************************************************)
(* The providers of models a user has configured: models.yaml, the system    *)
(* keychain with their keys, the file of the default agent configuration,    *)
(* and the ModelFactory of the desktop.                                      *)
(*                                                                         *)
(* The file is read and written as a whole, by the desktop, its dialog and   *)
(* `TmAgentCli add-provider`.  It exists in an older form (models with        *)
(* their own keys) that is migrated when it is met.  Keys are kept in the     *)
(* file as references; what they refer to is read when providers are          *)
(* registered.  Addresses, temperatures and the like are left out.            *)
(***************************************************************************)
EXTENDS Naturals

CONSTANTS
    Ids,        \* provider instances
    Models,     \* models
    None, Env, Absent,
    MaxEdits    \* bound: edits of the file

VARIABLES
    file,       \* models.yaml
    keychain,   \* per model: the instance whose key was stored last under its name
    saved,      \* the file of the default agent configuration
    up,         \* the desktop runs
    factory,    \* its ModelFactory: per instance the key it uses, or Absent
    current,    \* its default agent configuration
    edits

desktop == <<up, factory, current>>
vars == <<file, keychain, saved, desktop, edits>>

NoEntry == [enabled |-> FALSE, key |-> Absent]
\* The key of a provider in the file: nothing, a variable of the environment (or the key
\* itself), or the name of an entry of the keychain, made of provider and model.
Refs == {None, Env} \cup Models
Entries == [enabled : BOOLEAN, key : Refs]
Choices == [provider : Ids \cup {None}, model : Models \cup {None}]
Nowhere == [i \in Ids |-> NoEntry]
Nothing == [i \in Ids |-> Absent]
NoChoice == [provider |-> None, model |-> None]

TypeOK ==
    /\ file.kind \in {"missing", "torn", "v1", "v2"}
    /\ file.list \in [Ids -> Entries \cup {NoEntry}]
    /\ file.default \in Choices
    /\ keychain \in [Models -> Ids \cup {None}]
    /\ saved \in Choices /\ current \in Choices
    /\ up \in BOOLEAN
    /\ factory \in [Ids -> Ids \cup {Absent, None, Env}]
    /\ edits \in 0..MaxEdits

Listed(f) == {i \in Ids : f.list[i] # NoEntry}

\* No file, or an older one with a model that is the default.
Init ==
    /\ keychain = [m \in Models |-> None]
    /\ \/ file = [kind |-> "missing", list |-> Nowhere, default |-> NoChoice]
       \/ \E i \in Ids, m \in Models, k \in {None, Env} : file =
             [kind |-> "v1",
              list |-> [Nowhere EXCEPT ![i] = [enabled |-> TRUE, key |-> k]],
              default |-> [provider |-> i, model |-> m]]
    /\ saved = NoChoice
    /\ up = FALSE /\ factory = Nothing /\ current = NoChoice
    /\ edits = 0

----------------------------------------------------------------------------
(* ModelConfigLoader.                                                      *)

\* A file that cannot be read, or is not YAML, has no provider and no default.
Readable(f) == IF f.kind \in {"missing", "torn"}
               THEN [kind |-> "v2", list |-> Nowhere, default |-> NoChoice] ELSE f

\* loadProviderInstances and loadFromFile without resolveEnv, each with the other's file:
\* a file of the older form has no providers.
Providers(f) == IF f.kind = "v2" THEN f.list ELSE Nowhere

\* saveProviderInstances
Written(list, default) == [kind |-> "v2", list |-> list, default |-> default]

\* resolveApiKeyFromEnv: a read of the keychain may fail, a variable may be unset, and one
\* named after the provider stands in for a key that is missing.
Resolved(key) == {None, IF key \in Models THEN keychain[key] ELSE Env}

\* migrateFromV1, with the keys as they are in the file.
Migrated(f) == Written(f.list, f.default)

\* addOrUpdateProviderInstance, then setDefaultProvider when there is no default.  The
\* model that is the default stays, whatever provider it belongs to.
Added(f, i, entry) ==
    Written([Providers(f) EXCEPT ![i] = entry],
            IF f.default.provider = None THEN [f.default EXCEPT !.provider = i] ELSE f.default)

\* removeProviderInstance
Removed(f, i) ==
    Written([Providers(f) EXCEPT ![i] = NoEntry],
            IF f.default.provider = i THEN NoChoice ELSE f.default)

----------------------------------------------------------------------------
(* The start of the desktop.                                               *)

\* The saved configuration goes before the default of the file.
Chosen(default) ==
    [provider |-> IF saved.provider = None THEN default.provider ELSE saved.provider,
          model |-> IF saved.model = None THEN default.model ELSE saved.model]

\* loadConfig: a file that is missing is written, in the older form and empty; one of the
\* older form is registered and migrated; the first provider is taken when there is no
\* default.  Without providers nothing is registered and no default is set.
LoadConfig ==
    /\ ~up /\ up' = TRUE
    /\ LET f == Readable(file) IN
       \/ /\ file.kind = "missing"
          /\ file' = [kind |-> "v1", list |-> Nowhere, default |-> NoChoice]
          /\ UNCHANGED <<factory, current>>
       \/ /\ file.kind # "missing" /\ Listed(f) = {}
          /\ UNCHANGED <<file, factory, current>>
       \/ /\ Listed(f) # {}
          /\ factory' \in {g \in [Ids -> Ids \cup {Absent, None, Env}] : \A i \in Ids :
                 IF f.list[i] = NoEntry THEN g[i] = Absent ELSE g[i] \in Resolved(f.list[i].key)}
          /\ \E first \in Listed(f) :
                current' = Chosen(IF f.default.provider # None THEN f.default
                                  ELSE [f.default EXCEPT !.provider = first])
          /\ file' = IF f.kind = "v1" THEN Migrated(f) ELSE file
    /\ UNCHANGED <<keychain, saved, edits>>

----------------------------------------------------------------------------
(* ModelConfigDialog.                                                      *)

Edit == up /\ edits < MaxEdits /\ edits' = edits + 1

\* configSaved: a key that is typed goes to the keychain, a reference to an entry that
\* exists is kept; the provider is registered and becomes the default of the agents, which
\* is saved.
SaveInstance(i, m, key, enabled) ==
    /\ Edit
    /\ \/ key = m /\ keychain' = [keychain EXCEPT ![m] = i]
       \/ /\ key = m => keychain[m] # None
          /\ keychain' = keychain
    /\ file' = Added(Readable(file), i, [enabled |-> enabled, key |-> key])
    /\ factory' = [factory EXCEPT ![i] = IF key = m THEN keychain'[m] ELSE key]
    /\ current' = [provider |-> i, model |-> m] /\ saved' = current'
    /\ UNCHANGED up

\* configDeleted, defaultChanged and enabledToggled change the file alone.
DeleteInstance(i) ==
    /\ Edit /\ i \in Listed(Readable(file))
    /\ file' = Removed(Readable(file), i)
    /\ UNCHANGED <<keychain, saved, desktop>>

SetDefault(i) ==
    /\ Edit /\ i \in Listed(Readable(file))
    /\ LET f == Readable(file) IN
       file' = Written(Providers(f), [f.default EXCEPT !.provider = i])
    /\ UNCHANGED <<keychain, saved, desktop>>

Toggle(i) ==
    /\ Edit /\ i \in Listed(Readable(file))
    /\ LET f == Readable(file) IN
       file' = Written([Providers(f) EXCEPT ![i].enabled = ~@], f.default)
    /\ UNCHANGED <<keychain, saved, desktop>>

\* TmAgentCli add-provider, beside the desktop or not.
AddProvider(i, m, key, first) ==
    /\ edits < MaxEdits /\ edits' = edits + 1
    /\ LET f == IF file.kind = "v1" THEN Migrated(file) ELSE Readable(file) IN
       file' = Written([f.list EXCEPT ![i] = [enabled |-> TRUE, key |-> key]],
                       IF first \/ f.default.provider = None
                       THEN [provider |-> i, model |-> m] ELSE f.default)
    /\ UNCHANGED <<keychain, saved, desktop>>

\* The desktop ends, or is ended while it writes the file it has truncated.
Stop ==
    /\ up /\ up' = FALSE /\ factory' = Nothing /\ current' = NoChoice
    /\ UNCHANGED <<file, keychain, saved, edits>>
StopWriting ==
    /\ Edit /\ up' = FALSE /\ factory' = Nothing /\ current' = NoChoice
    /\ file' = [kind |-> "torn", list |-> Nowhere, default |-> NoChoice]
    /\ UNCHANGED <<keychain, saved>>

Next ==
    \/ LoadConfig \/ Stop
    \/ \E i \in Ids :
          \/ \E m \in Models : \E key \in {None, Env, m}, enabled \in BOOLEAN :
                SaveInstance(i, m, key, enabled)
          \/ DeleteInstance(i) \/ SetDefault(i) \/ Toggle(i)
          \/ \E m \in Models, key \in {None, Env}, first \in BOOLEAN :
                AddProvider(i, m, key, first)
    \/ StopWriting

Spec == Init /\ [][Next]_vars

----------------------------------------------------------------------------
(* Properties.                                                             *)

\* The default provider of the file is one of its providers, after every sequence of
\* edits by the dialog and the command line, migrations and kills.
DefaultListed == file.default.provider \in Listed(file) \cup {None}

\* Each step changes the reference to the key of one provider at most, and only an edit
\* does: no load, migration, failed read of the keychain or edit of another provider
\* replaces it by what was read, or by nothing.
Rekeyed == {i \in Listed(file) :
    file'.list[i] # NoEntry /\ file'.list[i].key # file.list[i].key}
KeyStep == Rekeyed # {} => edits' # edits /\ \E i \in Ids : Rekeyed = {i}
KeyKept == [][KeyStep]_vars

\* The inductive invariant: only a file with providers has a default, and a desktop that
\* runs has migrated the file it found.
CatalogSound ==
    /\ file \in [kind : {"missing", "torn", "v1", "v2"}, list : [Ids -> Entries \cup {NoEntry}],
                default : Choices]
    /\ keychain \in [Models -> Ids \cup {None}]
    /\ saved \in Choices /\ current \in Choices /\ up \in BOOLEAN
    /\ factory \in [Ids -> Ids \cup {Absent, None, Env}]
    /\ edits \in 0..MaxEdits
    /\ DefaultListed
    /\ file.kind \in {"missing", "torn"} => Listed(file) = {}
    /\ file.kind = "v1" /\ up => Listed(file) = {}
=============================================================================
