------------------------------ MODULE Settings -------------------------------
(***************************************************************************)
(* The settings an administrator changes while the system runs, and the    *)
(* caches everybody reads them through: those of the application           *)
(* (app/app_settings.py), those of the AI assistant with the list of       *)
(* models its provider offers (app/ai/config.py), and the table of units   *)
(* (app/checks/uom.py).                                                    *)
(*                                                                         *)
(* The two caches of settings hold an entry for a while and have no lock   *)
(* around reading the row and storing it: a reader may store what a save   *)
(* has just replaced.  The table of units is held until it changes, and    *)
(* its lock is held while it is loaded.                                    *)
(*                                                                         *)
(* A form of several settings commits them one by one.  A value is the     *)
(* number of the form that wrote it; forms that are refused change nothing *)
(* and are left out.                                                       *)
(***************************************************************************)
EXTENDS Naturals, Sequences, FiniteSets

CONSTANTS
    Section,            \* the forms that are sent
    Asked,              \* the settings that are read
    FromEnv,            \* settings of the AI given by the environment
    Reader, Saver,     \* threads
    TTL, MODELS_TTL,    \* how long an entry is kept
    MaxSave             \* bound on the forms sent

VARIABLES
    running,            \* the process is up
    row,                \* [Setting -> its value in the database, or Unset]
    cached,             \* [Setting -> its entry in the cache, or NoEntry]
    models,             \* the entry of the list of models: of which address
    unitTable,          \* the units in the database: the form that changed them last
    units,              \* the loaded units, or NoUnits
    unitLock,           \* who holds uom._lock
    reader, saver,     \* what the threads do
    sent,               \* how many forms were sent
    spell               \* history: for how long, since it was last saved, an
                        \* old value of a setting was served, an old list

settingsVars ==
    <<running, row, cached, models, unitTable, units, unitLock, reader, saver, sent, spell>>

\* The settings of a form, in the order in which they are stored.
\* An empty key of a provider keeps the one that is there.
KeysOf(section, typed) ==
    CASE section = "connection" ->
            <<"base_url", "extra_headers">> \o (IF typed THEN <<"api_key">> ELSE <<>>)
      [] section = "models" ->
            <<"model_default", "model_fast", "model_deep", "temperature", "max_tokens">>
      [] section = "limits" ->
            <<"daily_budget_usd", "rate_limit_per_hour", "request_timeout_s",
              "tool_call_cap", "history_retention_days", "audit_retention_days">>
      [] section = "fallback" ->
            <<"fallback_enabled", "fallback_base_url">>
            \o (IF typed THEN <<"fallback_api_key">> ELSE <<>>)
            \o <<"fallback_model_default", "fallback_model_fast", "fallback_model_deep">>
      [] section = "flags" -> <<"enabled", "prompt_cache_enabled">>
      [] section \in {"risk_tier_uppers", "combos_enabled", "number_format"} -> <<section>>
      [] section = "units" -> <<>>

AppKey == Section \cap {"risk_tier_uppers", "combos_enabled", "number_format"}
SETTINGS_REGISTRY ==
    {"base_url"}
    \cup UNION {LET ks == KeysOf(s, TRUE) IN {ks[i] : i \in DOMAIN ks} : s \in Section \ AppKey}
Setting == AppKey \cup SETTINGS_REGISTRY

Nobody == "nobody"

ASSUME SettingsAssumption ==
    /\ IsFiniteSet(Reader) /\ Nobody \notin Reader
    /\ Section \subseteq {"connection", "models", "limits", "fallback", "flags", "units",
                          "risk_tier_uppers", "combos_enabled", "number_format"}
    /\ FromEnv \subseteq SETTINGS_REGISTRY /\ Asked \subseteq Setting
    /\ TTL \in Nat \ {0} /\ MODELS_TTL \in Nat \ {0} /\ MaxSave \in Nat

\* Values: of no row, of the registry, of the environment; those of forms follow.
Unset == 0
Default == 1
Given == 2
\* A row, or the default where there is none.
Effective(k) == IF row[k] = Unset THEN Default ELSE row[k]

NoEntry == [left |-> 0]
\* A unit of time less; an entry whose time is over is not served.
Older(e) ==
    IF e.left <= 1 THEN NoEntry ELSE [e EXCEPT !.left = @ - 1]

\* What is served though it is not what the database has.
Watched == Setting \cup {"models"}
Outdated(k) ==
    IF k = "models" THEN models # NoEntry /\ models.value # Effective("base_url")
    ELSE cached[k] # NoEntry /\ cached[k].value # Effective(k)

\* For how long an old list of models can be served: an old address is in the
\* cache once, and once more for each reader who was reading it; and when it has
\* gone, the list is there that was there, and one of each reader who was fetching.
Patience ==
    LET n == Cardinality(Reader) + 1 IN (TTL + MODELS_TTL * n) * n

NoUnits == <<>>
AtRest == [op |-> "none"]

-----------------------------------------------------------------------------
(* The process                                                             *)

\* seed_defaults writes the rows that are not there, in one transaction, from
\* the environment or the defaults; when it fails the process starts all the
\* same.
BootProcess(seeds) ==
    /\ ~running
    /\ running' = TRUE
    /\ row' = [k \in Setting |->
                 IF seeds /\ k \in SETTINGS_REGISTRY /\ row[k] = Unset
                 THEN (IF k \in FromEnv THEN Given ELSE Default) ELSE row[k]]
    /\ UNCHANGED <<cached, models, unitTable, units, unitLock, reader, saver, sent, spell>>

\* What is in memory is gone, and the settings of a form not stored yet.
Die ==
    /\ running
    /\ running' = FALSE
    /\ cached' = [k \in Setting |-> NoEntry]
    /\ models' = NoEntry
    /\ units' = NoUnits
    /\ unitLock' = Nobody
    /\ reader' = [r \in Reader |-> AtRest]
    /\ saver' = [s \in Saver |-> AtRest]
    /\ spell' = [k \in Watched |-> 0]
    /\ UNCHANGED <<row, unitTable, sent>>

TimePasses ==
    /\ cached' = [k \in Setting |-> Older(cached[k])]
    /\ models' = Older(models)
    /\ <<cached', models'>> # <<cached, models>>
    /\ spell' = [k \in Watched |-> IF Outdated(k) /\ spell[k] <= Patience
                                 THEN spell[k] + 1 ELSE spell[k]]
    /\ UNCHANGED <<running, row, unitTable, units, unitLock, reader, saver, sent>>

-----------------------------------------------------------------------------
(* Reading a setting, and the list of models                               *)

\* get_setting, get_risk_tier_uppers, ... find no entry and read the row; for
\* a setting, or for the address of the provider whose models are asked for.
ReadRow(r, k, then) ==
    /\ running /\ reader[r] = AtRest /\ cached[k] = NoEntry
    /\ then = "models" => k = "base_url"
    /\ reader' = [reader EXCEPT ![r] = [op |-> "read", key |-> k, value |-> Effective(k),
                                        then |-> then]]
    /\ UNCHANGED <<running, row, cached, models, unitTable, units, unitLock, saver, sent, spell>>

\* The value is stored, whatever has happened since it was read.
PutCached(r) ==
    /\ reader[r].op = "read"
    /\ cached' = [cached EXCEPT ![reader[r].key] = [value |-> reader[r].value, left |-> TTL]]
    /\ reader' = [reader EXCEPT ![r] = IF @.then = "models"
                                      THEN [op |-> "fetch", value |-> @.value] ELSE AtRest]
    /\ UNCHANGED <<running, row, models, unitTable, units, unitLock, saver, sent, spell>>

\* get_available_models, the address being in the cache; asked to refresh the
\* list, or with none.
FetchModels(r) ==
    /\ running /\ reader[r] = AtRest /\ cached["base_url"] # NoEntry
    /\ reader' = [reader EXCEPT ![r] = [op |-> "fetch", value |-> cached["base_url"].value]]
    /\ UNCHANGED <<running, row, cached, models, unitTable, units, unitLock, saver, sent, spell>>

\* The provider answers, after a while, or does not.
Fetched(r, ok) ==
    /\ reader[r].op = "fetch"
    /\ models' = IF ok THEN [value |-> reader[r].value, left |-> MODELS_TTL] ELSE models
    /\ reader' = [reader EXCEPT ![r] = AtRest]
    /\ UNCHANGED <<running, row, cached, unitTable, units, unitLock, saver, sent, spell>>

-----------------------------------------------------------------------------
(* Saving a form                                                           *)

Send(s, section, typed) ==
    /\ running /\ saver[s] = AtRest /\ sent < MaxSave
    /\ sent' = sent + 1
    /\ saver' = [saver EXCEPT ![s] =
           [op |-> "commit", section |-> section, form |-> Given + sent + 1,
            todo |-> KeysOf(section, typed)]]
    /\ UNCHANGED <<running, row, cached, models, unitTable, units, unitLock, reader, spell>>

\* set_setting, save_risk_tier_uppers, ...: the row is committed ...
CommitRow(s) ==
    /\ saver[s].op = "commit" /\ saver[s].section # "units"
    /\ row' = [row EXCEPT ![Head(saver[s].todo)] = saver[s].form]
    /\ saver' = [saver EXCEPT ![s].op = "bust", ![s].todo = Tail(@)]
    /\ spell' = [k \in Watched |->
           IF Head(saver[s].todo) = (IF k = "models" THEN "base_url" ELSE k) THEN 0 ELSE spell[k]]
    /\ UNCHANGED <<running, cached, models, unitTable, units, unitLock, reader, sent>>

\* ... and the cache it is in is emptied; that of the AI with its models.
bust_cache(s) ==
    LET gone == IF saver[s].section \in AppKey THEN AppKey ELSE SETTINGS_REGISTRY
    IN  /\ saver[s].op = "bust"
        /\ cached' = [k \in Setting |-> IF k \in gone THEN NoEntry ELSE cached[k]]
        /\ models' = IF saver[s].section \in AppKey THEN models ELSE NoEntry
        /\ saver' = [saver EXCEPT ![s] = IF @.todo = <<>> THEN AtRest
                                          ELSE [@ EXCEPT !.op = "commit"]]
        /\ UNCHANGED <<running, row, unitTable, units, unitLock, reader, sent, spell>>

-----------------------------------------------------------------------------
(* The units                                                               *)

\* get_cache finds nothing loaded, has the lock, and looks again: it reads the
\* spellings ...
LoadAliases(r) ==
    /\ running /\ reader[r] = AtRest /\ unitLock = Nobody /\ units = NoUnits
    /\ unitLock' = r
    /\ reader' = [reader EXCEPT ![r] = [op |-> "load", aliases |-> unitTable]]
    /\ UNCHANGED <<running, row, cached, models, unitTable, units, saver, sent, spell>>

\* ... and the families, which may be newer.
LoadFamilies(r) ==
    /\ reader[r].op = "load"
    /\ units' = <<reader[r].aliases, unitTable>>
    /\ unitLock' = Nobody
    /\ reader' = [reader EXCEPT ![r] = AtRest]
    /\ UNCHANGED <<running, row, cached, models, unitTable, saver, sent, spell>>

\* units_add_alias, units_delete_alias, units_add_canonical commit ...
CommitUnits(s) ==
    /\ saver[s].op = "commit" /\ saver[s].section = "units"
    /\ unitTable' = saver[s].form
    /\ saver' = [saver EXCEPT ![s].op = "invalidate"]
    /\ UNCHANGED <<running, row, cached, models, units, unitLock, reader, sent, spell>>

\* ... and drop what is loaded, once nobody is loading.
\* Mutant: without the lock, in the middle of a load.
invalidate_units_at_once(s) ==
    /\ saver[s].op = "invalidate"
    /\ units' = NoUnits
    /\ saver' = [saver EXCEPT ![s] = AtRest]
    /\ UNCHANGED <<running, row, cached, models, unitTable, unitLock, reader, sent, spell>>
invalidate_units(s) ==
    /\ saver[s].op = "invalidate" /\ unitLock = Nobody
    /\ units' = NoUnits
    /\ saver' = [saver EXCEPT ![s] = AtRest]
    /\ UNCHANGED <<running, row, cached, models, unitTable, unitLock, reader, sent, spell>>

-----------------------------------------------------------------------------
SettingsInit ==
    /\ running = FALSE
    /\ row = [k \in Setting |-> Unset]
    /\ cached = [k \in Setting |-> NoEntry]
    /\ models = NoEntry
    /\ unitTable = Given
    /\ units = NoUnits
    /\ unitLock = Nobody
    /\ reader = [r \in Reader |-> AtRest]
    /\ saver = [s \in Saver |-> AtRest]
    /\ sent = 0
    /\ spell = [k \in Watched |-> 0]

GoOnReading(r) == PutCached(r) \/ LoadFamilies(r) \/ \E ok \in BOOLEAN : Fetched(r, ok)
GoOnSaving(s) == CommitRow(s) \/ bust_cache(s) \/ CommitUnits(s) \/ invalidate_units(s)

SettingsNext ==
    \/ \E seeds \in BOOLEAN : BootProcess(seeds)
    \/ Die \/ TimePasses
    \/ \E r \in Reader :
        \/ \E k \in Asked, then \in {"nothing", "models"} : ReadRow(r, k, then)
        \/ FetchModels(r) \/ LoadAliases(r) \/ GoOnReading(r)
    \/ \E s \in Saver :
        \/ \E section \in Section, typed \in BOOLEAN : Send(s, section, typed)
        \/ GoOnSaving(s)

-----------------------------------------------------------------------------
(* Properties                                                              *)

Value == Default .. Given + MaxSave
Entry == {NoEntry} \cup [value : Value, left : 1 .. TTL]

\* Types; who loads the units, and nobody else, holds their lock.
SettingsTypeOK ==
    /\ running \in BOOLEAN
    /\ row \in [Setting -> Value \cup {Unset}]
    /\ cached \in [Setting -> Entry]
    /\ models = NoEntry \/ (models.value \in Value /\ models.left \in 1 .. MODELS_TTL)
    /\ spell \in [Watched -> 0 .. Patience + 1]
    /\ unitTable \in Given .. Given + MaxSave /\ sent \in 0 .. MaxSave
    /\ \A r \in Reader : reader[r].op = "load" <=> unitLock = r
    /\ \A s \in Saver : saver[s].op = "commit" /\ saver[s].section # "units" =>
                             saver[s].todo # <<>>

\* However reads, saves and restarts overlap, everybody reads what was saved:
\* of the units from the moment the one who changed them is answered, so that a
\* load that a change overtakes does not outlive it, torn or not; of a setting,
\* at the latest when what was there, and what each reader put back who was in
\* the middle of reading, has had its time; and the list of models is then, once
\* those of the old address have had theirs, that of the address in use.
OldValuesExpire ==
    /\ units \notin {NoUnits, <<unitTable, unitTable>>} =>
           \E s \in Saver : saver[s].op = "invalidate"
    /\ \A k \in Setting : spell[k] <= TTL * (Cardinality(Reader) + 1)
    /\ spell["models"] <= Patience

=============================================================================
