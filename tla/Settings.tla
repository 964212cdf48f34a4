------------------------------ MODULE Settings ------------------------------
(***************************************************************************)
(* Where a setting comes from (cmd/app/root.go, configmerge.go): the flag, *)
(* the environment, tenzing.yaml and the built-in default, written over    *)
(* one record one after the other, and the mode the process ends up in.    *)
(* One setting is followed at a time; what matters of it is its kind.      *)
(*                                                                         *)
(* A layer gives Absent, or a value; "zero" is 0, "" or false, which only  *)
(* some layers can tell from nothing; "one" is true where that matters;    *)
(* "junk" does not parse.                                                  *)
(*                                                                         *)
(* With the registry of models and the prompt, all that a process starts   *)
(* with (StartSpec).                                                       *)
(***************************************************************************)
EXTENDS ModelCatalog, ProjectPrompt

Absent == "absent"

(* text: models, prompts.  number: budgets, advisor limits.  pointer:      *)
(* subagent-depth, thinking; timeout: approval-timeout, whose default      *)
(* depends on the mode.  switch: read-only, no-session and the like.       *)
(* port and debug take the environment; endpoint is connect and            *)
(* connect-token, grants connect-ephemeral-grants.                         *)
SettingKinds == {"text", "number", "pointer", "timeout", "switch", "port", "debug", "endpoint", "grants"}

EnvBacked == {"port", "debug", "endpoint", "grants"}

VARIABLES
  kind,            \* the setting's
  flag, env, yaml, \* what each layer says
  prompted,        \* -p was given
  dials,           \* the connect url that is in force, given the setting is another
  value, marked,   \* cliConfig's field, and its Set marker
  stage,           \* RunE's progress
  mode             \* what it dispatched to

settingVars == <<kind, flag, env, yaml, prompted, dials, value, marked, stage, mode>>
givenVars   == <<kind, flag, env, yaml, prompted, dials>>

(* The pflag default; grants default to true.                              *)
Default(k) == IF k = "grants" THEN "one" ELSE "default"

(* An unset flag has its default, and so has the field.                    *)
SettingInit ==
  /\ kind \in SettingKinds
  /\ flag \in {Absent, "zero", "one"} /\ yaml \in {Absent, "zero", "two"}
  /\ env \in IF kind \in EnvBacked THEN {Absent, "zero", "one", "junk"} ELSE {Absent}
  /\ kind \in {"switch", "debug"} => yaml # "two"
  /\ env = "junk" => kind = "grants"
  /\ prompted \in BOOLEAN /\ dials \in BOOLEAN
  /\ value = (IF flag = Absent THEN Default(kind) ELSE flag)
  /\ marked = FALSE /\ stage = "parsed" /\ mode = "none"

Passed  == flag # Absent
Present == env # Absent
-----------------------------------------------------------------------------
(* markSetFlags and mergeEnv.                                              *)
EnvGives ==
  /\ ~Passed
  /\ \/ kind \in {"port", "debug"} /\ Present
     \/ kind = "endpoint" /\ env \notin {Absent, "zero"}
     \/ kind = "grants" /\ env \notin {Absent, "junk"}

MergeEnv ==
  /\ stage = "parsed" /\ stage' = "env"
  /\ value' = IF EnvGives THEN env ELSE value
  /\ marked' = (kind \in {"pointer", "timeout"} /\ Passed)
  /\ UNCHANGED <<givenVars, mode>>

(* mergeConfigFile: a zero is a value where the file's field is a pointer; *)
(* an environment variable that is there keeps the file out, except for    *)
(* the connect section's url and token.                                    *)
FileGives ==
  /\ yaml # Absent /\ ~Passed
  /\ kind \in {"text", "number", "switch", "debug", "endpoint"} => yaml # "zero"
  /\ kind \in {"port", "debug", "grants"} => ~Present

MergeFile ==
  /\ stage = "env" /\ stage' = "file"
  /\ value' = IF FileGives THEN yaml ELSE value
  /\ marked' = (marked \/ (kind \in {"pointer", "timeout"} /\ FileGives))
  /\ UNCHANGED <<givenVars, mode>>

(* What harnessOptions makes of the field.                                 *)
InForce ==
  IF kind = "timeout" /\ ~marked THEN IF mode = "serve" THEN "default" ELSE "zero"
  ELSE IF kind = "pointer" /\ ~marked THEN "default"
  ELSE value

(* The modes exclude each other; whatever is not a turn or a dial serves.  *)
Connects == IF kind = "endpoint" THEN value \notin {"zero", "default"} ELSE dials

Dispatch ==
  /\ stage = "file"
  /\ stage' = IF prompted /\ Connects THEN "refused" ELSE "runs"
  /\ mode' = IF prompted /\ Connects THEN "none"
             ELSE IF prompted THEN "print" ELSE IF Connects THEN "connect" ELSE "serve"
  /\ UNCHANGED <<givenVars, value, marked>>

SettingNext == MergeEnv \/ MergeFile \/ Dispatch

SettingSpec == SettingInit /\ [][SettingNext]_settingVars
-----------------------------------------------------------------------------
EnvSays == env \notin {Absent, "junk"} /\ (kind = "endpoint" => env # "zero")

YamlSays == yaml # Absent /\ (kind \in {"text", "number", "switch", "debug", "endpoint"} => yaml # "zero")

FirstSaid ==
  IF Passed THEN flag ELSE IF EnvSays THEN env ELSE IF YamlSays THEN yaml
  ELSE IF kind = "timeout" /\ mode # "serve" THEN "zero" ELSE Default(kind)

(* "Per setting: explicit flag > env var > tenzing.yaml > default"         *)
(* (SYSTEM_ARCHITECTURE.md:776): what is in force is what the first layer  *)
(* that says something says, a deliberate zero included, and an unattended *)
(* run waits for approvals only if somebody said how long.  Two cases are  *)
(* left out: the connect section, where the file wins, and an environment  *)
(* variable that does not parse, which keeps the file out all the same.    *)
FirstLayerWins ==
  stage = "runs" /\ env # "junk" /\ ~(kind = "endpoint" /\ EnvSays /\ YamlSays) =>
    InForce = FirstSaid

(* "connect: section (flag > env TENZING_CONNECT > file)"                  *)
(* (configmerge.go:181): the plane the environment names is the one that   *)
(* is dialled, whatever the file says.                                     *)
ConnectEnvWins == stage = "runs" /\ kind = "endpoint" /\ ~Passed /\ EnvSays => value = env
-----------------------------------------------------------------------------
(* The three share nothing once the command line and the files are read.   *)
startVars == <<catalogVars, settingVars, promptVars>>

StartInit == CatalogInit /\ SettingInit /\ PromptInit

StartNext ==
  \/ CatalogNext /\ UNCHANGED <<settingVars, promptVars>>
  \/ SettingNext /\ UNCHANGED <<catalogVars, promptVars>>
  \/ PromptNext /\ UNCHANGED <<catalogVars, settingVars>>

StartSpec == StartInit /\ [][StartNext]_startVars

(* A process starts as its flags, its environment and its files say: every *)
(* setting from the first layer that gives it, every model under its own   *)
(* name, endpoint and effort, and the nearest prompt it may read.          *)
StartsAsConfigured == CatalogIsSound /\ FirstLayerWins /\ PromptIsSafe
=============================================================================
