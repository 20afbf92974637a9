---------------------------------- MODULE Settings ----------------------------------
(***************************************************************************)
(* SettingsManager (config/manager.py): config.json and the environment.     *)
(* Reading and writing are synchronous, so within the process each is one    *)
(* step; but a file that is being rewritten is first truncated, and if the   *)
(* process dies there it holds no JSON any more.                             *)
(***************************************************************************)
EXTENDS Integers

CONSTANTS Keys,         \* the keys of DEFAULT_CONFIG
          Values,
          Environments, \* the environments of a process: what is in them when the module
                        \* is imported, and later, when load_dotenv() has added .env
          Absent,       \* no config.json
          Torn          \* a truncated config.json

\* A dictionary with some of the keys.
Dict == UNION {[some -> Values] : some \in SUBSET Keys}

ASSUME EnvironmentAssumption ==
    Environments \subseteq [imported : [Keys -> Values], loaded : [Keys -> Values]]
ASSUME FileAssumption == Absent \notin Dict /\ Torn \notin Dict

VARIABLES file,         \* config.json
          defaults,     \* DEFAULT_CONFIG: the environment when the module was imported
          environ,      \* what os.getenv answers at a call, or else DEFAULT_CONFIG
          managed,      \* the singleton manager exists
          accepted      \* history: settings that POST /config has confirmed

settingsVars == <<file, defaults, environ, managed, accepted>>

Nothing == [k \in {} |-> Absent]

\* {**base, **over}
Merge(base, over) ==
    [k \in DOMAIN base \cup DOMAIN over |-> IF k \in DOMAIN over THEN over[k] ELSE base[k]]

SettingsTypeOK ==
    /\ file \in Dict \cup {Absent, Torn}
    /\ {defaults, environ} \subseteq [Keys -> Values]
    /\ managed \in BOOLEAN
    /\ accepted \in Dict

\* A new process, perhaps in another environment.
ImportDefaults ==
    /\ \E e \in Environments : defaults' = e.imported /\ environ' = e.loaded
    /\ managed' = FALSE

\* get_settings: without a file that can be read the environment is asked again.
GetSettings == IF file \in {Absent, Torn} THEN environ ELSE Merge(defaults, file)

\* Mutant: only the new settings are dumped.
Dumped(update) == update

\* What write_settings leaves in the file.
Updated(update) == Merge(GetSettings, update)

\* The first get_settings_manager(): _ensure_config_file writes the defaults.
CreateManager ==
    /\ ~managed
    /\ managed' = TRUE
    /\ file' = IF file = Absent THEN Updated(defaults) ELSE file
    /\ UNCHANGED <<defaults, environ, accepted>>

\* POST /admin/api/v1/config
WriteSettings(update) ==
    /\ managed
    /\ file' = Updated(update)
    /\ accepted' = Merge(accepted, update)
    /\ UNCHANGED <<defaults, environ, managed>>

\* The process dies between open(..., "w") and the end of json.dump.
TearFile ==
    /\ managed \/ file = Absent
    /\ file' = Torn
    /\ accepted' = Nothing

\* A setting that was confirmed is what the program reads from then on, through other
\* updates, restarts and changes of the environment, until a write is torn.
SettingsKept == \A k \in DOMAIN accepted : GetSettings[k] = accepted[k]
====================================================================================
