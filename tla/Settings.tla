------------------------------- MODULE Settings -------------------------------
(***************************************************************************)
(* The settings a process of this service gets: Settings() of              *)
(* app/core/config.py, filled by pydantic-settings from the process        *)
(* environment and one .env file, then apply_environment_defaults.         *)
(*                                                                         *)
(* Three settings stand for all: ENVIRONMENT, which selects the table of   *)
(* per-environment defaults; DEBUG, which that table sets; JWT_ISSUER,     *)
(* which has no default.  A deployment is what a process finds when it     *)
(* starts:                                                                 *)
(*   appEnv   APP_ENV, letter case aside                                   *)
(*   environ  what os.environ has for each setting: its value, and whether *)
(*            under exactly that name (pydantic ignores letter case,       *)
(*            `key not in os.environ` does not), or NotGiven               *)
(*   files    what each .env file says, or NoFile                          *)
(***************************************************************************)
EXTENDS Naturals

CONSTANTS
  NotGiven, \* a setting that a source says nothing about
  NoFile    \* a .env file that does not exist

Environments == {"development", "staging", "production", "test"}
Keys == {"ENVIRONMENT", "DEBUG", "JWT_ISSUER"}

(* Slip: no aliases. *)
GetEnvironmentBySpelling(appEnv) ==
  IF appEnv \in Environments THEN appEnv ELSE "development"

(* get_environment. *)
GetEnvironment(appEnv) ==
  CASE appEnv \in {"production", "prod"} -> "production"
    [] appEnv \in {"staging", "stage"}   -> "staging"
    [] appEnv = "test"                   -> "test"
    [] OTHER                             -> "development"

(* The names of .env files: <<environment or "any", ends in .local>>. *)
FileNames == (Environments \cup {"any"}) \X BOOLEAN

(* Slip: the candidates of the default environment, as if APP_ENV were unset. *)
CandidatesByDefault(env) ==
  << <<"development", TRUE>>, <<"development", FALSE>>, <<"any", TRUE>>, <<"any", FALSE>> >>

Candidates(env) == << <<env, TRUE>>, <<env, FALSE>>, <<"any", TRUE>>, <<"any", FALSE>> >>

(* resolve_env_file: the first candidate that exists, and no other. *)
ResolveEnvFile(d) ==
  LET candidates == Candidates(GetEnvironment(d.appEnv))
      found == { i \in DOMAIN candidates : d.files[candidates[i]] # NoFile }
  IN  IF found = {} THEN [k \in Keys |-> NotGiven]
      ELSE d.files[candidates[CHOOSE i \in found : \A j \in found : i <= j]]

(* What someone has given, the environment before the file. *)
Given(d) ==
  [k \in Keys |-> IF d.environ[k] # NotGiven THEN d.environ[k].value ELSE ResolveEnvFile(d)[k]]

ClassDefaults(d) ==
  [ENVIRONMENT |-> GetEnvironment(d.appEnv), DEBUG |-> FALSE, JWT_ISSUER |-> NotGiven]

(* Settings(). *)
Construct(d) ==
  [k \in Keys |-> IF Given(d)[k] # NotGiven THEN Given(d)[k] ELSE ClassDefaults(d)[k]]

(* Slip: JWT_ISSUER optional. *)
ValidatesWithoutIssuer(d) == Construct(d).ENVIRONMENT \in Environments

(* No ValidationError: what is required is there, and an Environment. *)
Validates(d) ==
  /\ Construct(d).JWT_ISSUER # NotGiven
  /\ Construct(d).ENVIRONMENT \in Environments

InOsEnviron(d, k) == d.environ[k] # NotGiven /\ d.environ[k].exact

EnvironmentDefaults ==
  [e \in Environments |-> [DEBUG |-> e \in {"development", "test"}]]

(* Slip: the defaults set without a look at os.environ. *)
ApplyEnvironmentDefaultsAlways(d, s) ==
  LET defaults == EnvironmentDefaults[s.ENVIRONMENT]
  IN  [k \in Keys |-> IF k \in DOMAIN defaults THEN defaults[k] ELSE s[k]]

(* apply_environment_defaults. *)
ApplyEnvironmentDefaults(d, s) ==
  LET defaults == EnvironmentDefaults[s.ENVIRONMENT]
  IN  [k \in Keys |-> IF k \in DOMAIN defaults /\ ~InOsEnviron(d, k) THEN defaults[k] ELSE s[k]]

SettingsOf(d) == ApplyEnvironmentDefaults(d, Construct(d))

=============================================================================
