------------------------------- MODULE Process -------------------------------
(***************************************************************************)
(* The life of a process of this service as far as its settings reach:     *)
(* it computes them when app.main is imported, opens its log for the day,  *)
(* writes lines and answers unexpected errors, is stopped, and is started  *)
(* again in whatever deployment its operator has made meanwhile.           *)
(***************************************************************************)
EXTENDS Settings, SequencesExt

CONSTANTS
  Deployments, \* what a process may find when it starts
  Stopped,     \* no process
  LastDay,     \* bound: days
  MaxLines     \* bound: lines in all log files

(* A deployment is not `Stopped`, nor are its settings, and a DEBUG that
   pydantic takes from os.environ is a bool. *)
ASSUME ProcessAssumption ==
  /\ LastDay \in Nat \ {0} /\ MaxLines \in Nat
  /\ Stopped \notin Deployments
  /\ \A d \in Deployments :
       /\ Validates(d) => SettingsOf(d) # Stopped
       /\ InOsEnviron(d, "DEBUG") => d.environ["DEBUG"].value \in BOOLEAN
  /\ \A d \in Deployments, k \in Keys :
       d.environ[k] # NotGiven => d.environ[k].value # NotGiven

VARIABLES
  deployment, \* what the running process was started with
  settings,   \* its settings
  logFile,    \* file_path of its JsonlFileHandler
  answered,   \* what its error responses have said: "nothing", "generic" or "exception"
  day,        \* today
  files       \* the log files: the days on which their lines were written

vars == <<deployment, settings, logFile, answered, day, files>>

LogFiles == Environments \X (1..LastDay)

Lines == FoldFunction(LAMBDA lines, n : Len(lines) + n, 0, files)

Init ==
  /\ deployment = Stopped
  /\ settings = Stopped
  /\ logFile = Stopped
  /\ answered = "nothing"
  /\ day = 1
  /\ files = [f \in LogFiles |-> <<>>]

(* app.main is imported: settings, setup_logging, register_exception_handlers. *)
Start(d) ==
  /\ settings = Stopped
  /\ Validates(d)
  /\ deployment' = d
  /\ settings' = SettingsOf(d)
  /\ logFile' = <<SettingsOf(d).ENVIRONMENT, day>>
  /\ UNCHANGED <<answered, day, files>>

(* JsonlFileHandler.emit: opens the file to append a line, or fails and leaves
   the error to handleError, the line being lost. *)
Emit ==
  /\ settings # Stopped
  /\ Lines < MaxLines
  /\ files' \in {files, [files EXCEPT ![logFile] = Append(@, day)]}
  /\ UNCHANGED <<deployment, settings, logFile, answered, day>>

(* handle_unexpected_error: str(exc) if debug else a fixed message. *)
AnswerUnexpectedError ==
  /\ settings # Stopped
  /\ answered' = IF settings.DEBUG THEN "exception" ELSE "generic"
  /\ UNCHANGED <<deployment, settings, logFile, day, files>>

Midnight ==
  /\ day < LastDay
  /\ day' = day + 1
  /\ UNCHANGED <<deployment, settings, logFile, answered, files>>

Stop ==
  /\ settings # Stopped
  /\ deployment' = Stopped
  /\ settings' = Stopped
  /\ logFile' = Stopped
  /\ answered' = "nothing"
  /\ UNCHANGED <<day, files>>

Next ==
  \/ \E d \in Deployments : Start(d)
  \/ Emit \/ AnswerUnexpectedError \/ Midnight \/ Stop

Spec == Init /\ [][Next]_vars

-----------------------------------------------------------------------------
(* Type invariant: a process runs with valid settings, or not at all. *)
TypeOK ==
  /\ deployment \in Deployments \cup {Stopped}
  /\ deployment = Stopped <=> settings = Stopped
  /\ deployment = Stopped => logFile = Stopped /\ answered = "nothing"
  /\ deployment # Stopped =>
       /\ settings.ENVIRONMENT \in Environments
       /\ settings.DEBUG \in BOOLEAN
       /\ settings.JWT_ISSUER # NotGiven
       /\ logFile \in LogFiles
       /\ logFile[2] <= day
  /\ answered \in {"nothing", "generic", "exception"}
  /\ day \in 1..LastDay
  /\ files \in [LogFiles -> Seq(1..day)]

(***************************************************************************)
(* handle_unexpected_error, "production responses never leak internals":   *)
(* in a process started with APP_ENV prod or production, nothing any .env  *)
(* file says of DEBUG brings an exception into a response.  Only a DEBUG   *)
(* of os.environ does, or an ENVIRONMENT that contradicts APP_ENV.         *)
(***************************************************************************)
ProductionHidesInternals ==
  /\ deployment # Stopped
  /\ deployment.appEnv \in {"production", "prod"}
  /\ Given(deployment).ENVIRONMENT \in {NotGiven, "production"}
  /\ ~InOsEnviron(deployment, "DEBUG")
  => answered # "exception"

(***************************************************************************)
(* What os.environ says under a setting's own name is what the process     *)
(* runs with, whatever the .env files and the tables of defaults say.      *)
(***************************************************************************)
EnvironWins ==
  deployment # Stopped =>
    \A k \in Keys : InOsEnviron(deployment, k) => settings[k] = deployment.environ[k].value

(* The deployment, had it not the file f. *)
Without(d, f) ==
  [appEnv |-> d.appEnv, environ |-> d.environ,
   files |-> [g \in FileNames |-> IF g = f THEN NoFile ELSE d.files[g]]]

(***************************************************************************)
(* A process does not depend on another environment's .env files: delete   *)
(* any file but those of the environment it runs as and those for all, and *)
(* it has the same settings, every one of them.  Said where resolve_env_   *)
(* file can know the environment: where ENVIRONMENT was given, it agrees   *)
(* with APP_ENV.                                                           *)
(***************************************************************************)
OwnFileOnly ==
  /\ deployment # Stopped
  /\ Given(deployment).ENVIRONMENT \in {NotGiven, GetEnvironment(deployment.appEnv)}
  => \A f \in FileNames :
       f[1] \notin {"any", settings.ENVIRONMENT} => SettingsOf(Without(deployment, f)) = settings

(***************************************************************************)
(* JsonlFileHandler: "Appends one JSON object per log line to a daily      *)
(* rotating file", "one file per day per environment": the lines of a file *)
(* are of its day.                                                         *)
(***************************************************************************)
LinesInTheirDaysFile ==
  \A f \in LogFiles : \A i \in DOMAIN files[f] : files[f][i] = f[2]

=============================================================================
