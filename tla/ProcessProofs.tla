---------------------------- MODULE ProcessProofs ----------------------------
(***************************************************************************)
(* Proofs about Process and Settings, for every set of deployments.        *)
(***************************************************************************)
EXTENDS Process, SequenceTheorems, TLAPS

(* A process keeps the settings of the deployment it was started with, and no
   exception gets into a response unless DEBUG is on. *)
RunsAsDeployed ==
  /\ deployment # Stopped =>
       /\ Validates(deployment)
       /\ settings = SettingsOf(deployment)
  /\ answered = "exception" => deployment # Stopped /\ settings.DEBUG = TRUE

(* The inductive invariant. *)
IInv == TypeOK /\ RunsAsDeployed

-----------------------------------------------------------------------------
(* The table has DEBUG for each environment, and so has the last word on it
   unless os.environ has. *)
LEMMA SettingsValues ==
  ASSUME NEW d \in Deployments, Validates(d)
  PROVE  /\ SettingsOf(d).ENVIRONMENT = Construct(d).ENVIRONMENT
         /\ SettingsOf(d).ENVIRONMENT \in Environments
         /\ SettingsOf(d).JWT_ISSUER = Construct(d).JWT_ISSUER
         /\ SettingsOf(d).JWT_ISSUER # NotGiven
         /\ InOsEnviron(d, "DEBUG") => SettingsOf(d).DEBUG = d.environ["DEBUG"].value
         /\ ~InOsEnviron(d, "DEBUG") =>
              SettingsOf(d).DEBUG = (Construct(d).ENVIRONMENT \in {"development", "test"})
         /\ SettingsOf(d).DEBUG \in BOOLEAN
<1>1. Construct(d).ENVIRONMENT \in Environments /\ Construct(d).JWT_ISSUER # NotGiven
  BY DEF Validates
<1> DEFINE defaults == EnvironmentDefaults[Construct(d).ENVIRONMENT]
<1>2. defaults = [DEBUG |-> Construct(d).ENVIRONMENT \in {"development", "test"}]
  BY <1>1 DEF EnvironmentDefaults
<1>3. DOMAIN defaults = {"DEBUG"}
  BY <1>2
<1>4. SettingsOf(d) =
        [k \in Keys |-> IF k \in DOMAIN defaults /\ ~InOsEnviron(d, k)
                        THEN defaults[k] ELSE Construct(d)[k]]
  BY DEF SettingsOf, ApplyEnvironmentDefaults
<1>5. SettingsOf(d).ENVIRONMENT = Construct(d).ENVIRONMENT
  BY <1>3, <1>4 DEF Keys
<1>6. SettingsOf(d).JWT_ISSUER = Construct(d).JWT_ISSUER
  BY <1>3, <1>4 DEF Keys
<1>7. InOsEnviron(d, "DEBUG") => SettingsOf(d).DEBUG = d.environ["DEBUG"].value
  <2> SUFFICES ASSUME InOsEnviron(d, "DEBUG")
               PROVE  SettingsOf(d).DEBUG = d.environ["DEBUG"].value
    OBVIOUS
  <2>1. SettingsOf(d).DEBUG = Construct(d)["DEBUG"]
    BY <1>4 DEF Keys
  <2>2. Given(d)["DEBUG"] = d.environ["DEBUG"].value /\ Given(d)["DEBUG"] # NotGiven
    BY ProcessAssumption DEF Given, InOsEnviron, Keys
  <2>3. Construct(d)["DEBUG"] = Given(d)["DEBUG"]
    BY <2>2 DEF Construct, Keys
  <2> QED
    BY <2>1, <2>2, <2>3
<1>8. ~InOsEnviron(d, "DEBUG") => SettingsOf(d).DEBUG = defaults["DEBUG"]
  BY <1>3, <1>4 DEF Keys
<1>9. defaults["DEBUG"] = (Construct(d).ENVIRONMENT \in {"development", "test"})
  BY <1>2
<1>10. SettingsOf(d).DEBUG \in BOOLEAN
  <2>1. CASE InOsEnviron(d, "DEBUG")
    BY <1>7, <2>1, ProcessAssumption
  <2>2. CASE ~InOsEnviron(d, "DEBUG")
    <3>1. (Construct(d).ENVIRONMENT \in {"development", "test"}) \in BOOLEAN
      OBVIOUS
    <3> QED
      BY <1>8, <1>9, <2>2, <3>1
  <2> QED
    BY <2>1, <2>2
<1> QED
  BY <1>1, <1>5, <1>6, <1>7, <1>8, <1>9, <1>10

(* What os.environ has under the setting's own name is neither replaced by a
   .env file nor by a default. *)
LEMMA ExactNamesWin ==
  ASSUME NEW d \in Deployments, NEW k \in Keys, InOsEnviron(d, k)
  PROVE  SettingsOf(d)[k] = d.environ[k].value
<1>1. SettingsOf(d)[k] = Construct(d)[k]
  BY DEF SettingsOf, ApplyEnvironmentDefaults
<1>2. Given(d)[k] = d.environ[k].value /\ Given(d)[k] # NotGiven
  BY ProcessAssumption DEF Given, InOsEnviron
<1>3. Construct(d)[k] = Given(d)[k]
  BY <1>2 DEF Construct
<1> QED
  BY <1>1, <1>2, <1>3

(* resolve_env_file looks for files of this environment, and of all. *)
LEMMA CandidatesAreOwn ==
  ASSUME NEW env \in Environments
  PROVE  /\ DOMAIN Candidates(env) = 1..4
         /\ \A i \in 1..4 : /\ Candidates(env)[i] \in FileNames
                            /\ Candidates(env)[i][1] \in {"any", env}
<1> DEFINE candidates == Candidates(env)
           Own(f) == f \in FileNames /\ f[1] \in {"any", env}
<1>1. DOMAIN candidates = 1..4
  BY DEF Candidates
<1>2. Own(<<env, TRUE>>) /\ Own(<<env, FALSE>>)
  BY DEF FileNames
<1>3. Own(<<"any", TRUE>>) /\ Own(<<"any", FALSE>>)
  BY DEF FileNames
<1>4. /\ candidates[1] = <<env, TRUE>> /\ candidates[2] = <<env, FALSE>>
      /\ candidates[3] = <<"any", TRUE>> /\ candidates[4] = <<"any", FALSE>>
  BY DEF Candidates
<1>5. ASSUME NEW i \in 1..4 PROVE Own(candidates[i])
  <2> HIDE DEF candidates, Own
  <2>1. CASE i = 1
    BY <1>2, <1>4, <2>1
  <2>2. CASE i = 2
    BY <1>2, <1>4, <2>2
  <2>3. CASE i = 3
    BY <1>3, <1>4, <2>3
  <2>4. CASE i = 4
    BY <1>3, <1>4, <2>4
  <2> QED
    BY <2>1, <2>2, <2>3, <2>4
<1> QED
  BY <1>1, <1>5

(* Whether a file of another environment exists makes no difference to it. *)
LEMMA OtherFilesAreNotRead ==
  ASSUME NEW d, NEW f \in FileNames, f[1] \notin {"any", GetEnvironment(d.appEnv)}
  PROVE  ResolveEnvFile(Without(d, f)) = ResolveEnvFile(d)
<1> DEFINE env == GetEnvironment(d.appEnv)
           candidates == Candidates(env)
           found(e) == { i \in DOMAIN candidates : e.files[candidates[i]] # NoFile }
           e == Without(d, f)
<1>1. env \in Environments
  BY DEF GetEnvironment, Environments
<1>2. e.appEnv = d.appEnv
  BY DEF Without
<1>3. \A i \in DOMAIN candidates : e.files[candidates[i]] = d.files[candidates[i]]
  <2> SUFFICES ASSUME NEW i \in DOMAIN candidates
               PROVE  e.files[candidates[i]] = d.files[candidates[i]]
    OBVIOUS
  <2>1. candidates[i] \in FileNames /\ candidates[i] # f
    BY <1>1, CandidatesAreOwn
  <2> QED
    BY <2>1 DEF Without
<1>4. found(e) = found(d)
  BY <1>3
<1>5. CASE found(d) = {}
  BY <1>2, <1>4, <1>5 DEF ResolveEnvFile
<1>6. CASE found(d) # {}
  <2> DEFINE least(S) == CHOOSE i \in S : \A j \in S : i <= j
  <2>1. ResolveEnvFile(d) = d.files[candidates[least(found(d))]]
    BY <1>6 DEF ResolveEnvFile
  <2>2. ResolveEnvFile(e) = e.files[candidates[least(found(d))]]
    BY <1>2, <1>4, <1>6 DEF ResolveEnvFile
  <2>3. \E i \in found(d) : \A j \in found(d) : i <= j
    <3>1. found(d) \subseteq {1, 2, 3, 4}
      BY <1>1, CandidatesAreOwn
    <3> QED
      BY <1>6, <3>1
  <2>4. least(found(d)) \in DOMAIN candidates
    BY <2>3
  <2> QED
    BY <1>3, <2>1, <2>2, <2>4
<1> QED
  BY <1>5, <1>6

-----------------------------------------------------------------------------
LEMMA InitEstablishes == Init => IInv
<1> SUFFICES ASSUME Init PROVE IInv
  OBVIOUS
<1> USE ProcessAssumption DEF Init
<1>1. TypeOK
  BY DEF TypeOK
<1>2. RunsAsDeployed
  BY DEF RunsAsDeployed
<1> QED
  BY <1>1, <1>2 DEF IInv

LEMMA StutterKeeps == IInv /\ UNCHANGED vars => IInv'
  BY DEF IInv, TypeOK, RunsAsDeployed, Validates, Construct, Given, SettingsOf, vars

LEMMA StartKeeps ==
  ASSUME IInv, NEW d \in Deployments, Start(d) PROVE IInv'
<1>1. Validates(d) /\ d # Stopped /\ SettingsOf(d) # Stopped
  BY ProcessAssumption DEF Start
<1>2. /\ deployment' = d /\ settings' = SettingsOf(d)
      /\ logFile' = <<SettingsOf(d).ENVIRONMENT, day>>
      /\ UNCHANGED <<answered, day, files>>
  BY DEF Start
<1>3. answered # "exception"
  BY DEF Start, IInv, TypeOK, RunsAsDeployed
<1>4. day \in 1..LastDay
  BY DEF IInv, TypeOK
<1>5. logFile' \in LogFiles /\ logFile'[2] <= day
  BY <1>1, <1>2, <1>4, SettingsValues, ProcessAssumption DEF LogFiles
<1>6. TypeOK'
  BY <1>1, <1>2, <1>5, SettingsValues DEF IInv, TypeOK
<1>7. RunsAsDeployed'
  BY <1>1, <1>2, <1>3 DEF RunsAsDeployed
<1> QED
  BY <1>6, <1>7 DEF IInv

LEMMA EmitKeeps == IInv /\ Emit => IInv'
<1> SUFFICES ASSUME IInv, Emit PROVE IInv'
  OBVIOUS
<1>1. UNCHANGED <<deployment, settings, logFile, answered, day>>
  BY DEF Emit
<1>2. day \in 1..day
  BY ProcessAssumption DEF IInv, TypeOK
<1>3. files' \in [LogFiles -> Seq(1..day)]
  <2>1. logFile \in LogFiles /\ files \in [LogFiles -> Seq(1..day)]
    BY DEF Emit, IInv, TypeOK
  <2>2. Append(files[logFile], day) \in Seq(1..day)
    BY <1>2, <2>1
  <2>3. [files EXCEPT ![logFile] = Append(@, day)] \in [LogFiles -> Seq(1..day)]
    BY <2>1, <2>2
  <2> QED
    BY <2>1, <2>3 DEF Emit
<1>4. TypeOK'
  BY <1>1, <1>3 DEF IInv, TypeOK
<1>5. RunsAsDeployed'
  BY <1>1 DEF IInv, RunsAsDeployed
<1> QED
  BY <1>4, <1>5 DEF IInv

LEMMA AnswerKeeps == IInv /\ AnswerUnexpectedError => IInv'
  BY DEF IInv, TypeOK, RunsAsDeployed, AnswerUnexpectedError

LEMMA MidnightKeeps == IInv /\ Midnight => IInv'
<1> SUFFICES ASSUME IInv, Midnight PROVE IInv'
  OBVIOUS
<1>1. UNCHANGED <<deployment, settings, logFile, answered, files>>
  BY DEF Midnight
<1>2. day' = day + 1 /\ day \in 1..LastDay /\ day' \in 1..LastDay
  BY ProcessAssumption DEF Midnight, IInv, TypeOK
<1>3. 1..day \subseteq 1..day'
  BY <1>2
<1>4. files' \in [LogFiles -> Seq(1..day')]
  <2>1. ASSUME NEW s \in Seq(1..day) PROVE s \in Seq(1..day')
    BY <1>3, <2>1, SeqMonotonic
  <2> QED
    BY <1>1, <2>1 DEF IInv, TypeOK
<1>5. logFile \in LogFiles => logFile[2] \in Nat
  BY DEF LogFiles
<1>6. TypeOK'
  BY <1>1, <1>2, <1>4, <1>5 DEF IInv, TypeOK
<1>7. RunsAsDeployed'
  BY <1>1 DEF IInv, RunsAsDeployed
<1> QED
  BY <1>6, <1>7 DEF IInv

LEMMA StopKeeps == IInv /\ Stop => IInv'
  BY DEF IInv, TypeOK, RunsAsDeployed, Stop

(* Every process runs with the settings of its deployment. *)
THEOREM Invariance == Spec => []IInv
<1>1. ASSUME IInv, [Next]_vars PROVE IInv'
  <2>1. CASE UNCHANGED vars
    BY <1>1, <2>1, StutterKeeps
  <2>2. CASE \E d \in Deployments : Start(d)
    BY <1>1, <2>2, StartKeeps
  <2>3. CASE Emit
    BY <1>1, <2>3, EmitKeeps
  <2>4. CASE AnswerUnexpectedError
    BY <1>1, <2>4, AnswerKeeps
  <2>5. CASE Midnight
    BY <1>1, <2>5, MidnightKeeps
  <2>6. CASE Stop
    BY <1>1, <2>6, StopKeeps
  <2> QED
    BY <1>1, <2>1, <2>2, <2>3, <2>4, <2>5, <2>6 DEF Next
<1> QED
  BY InitEstablishes, <1>1, PTL DEF Spec

(* Whoever runs has valid settings. *)
THEOREM TypeCorrect == Spec => []TypeOK
<1>1. IInv => TypeOK
  BY DEF IInv
<1> QED
  BY Invariance, <1>1, PTL

(* No .env file switches DEBUG on in production. *)
THEOREM ProductionIsQuiet == Spec => []ProductionHidesInternals
<1>1. IInv => ProductionHidesInternals
  <2> SUFFICES ASSUME IInv, deployment # Stopped, answered = "exception",
                      deployment.appEnv \in {"production", "prod"},
                      Given(deployment).ENVIRONMENT \in {NotGiven, "production"},
                      ~InOsEnviron(deployment, "DEBUG")
               PROVE  FALSE
    BY DEF ProductionHidesInternals
  <2>1. /\ deployment \in Deployments /\ Validates(deployment)
        /\ SettingsOf(deployment).DEBUG = TRUE
    BY DEF IInv, TypeOK, RunsAsDeployed
  <2>2. Construct(deployment).ENVIRONMENT = "production"
    BY DEF Construct, ClassDefaults, GetEnvironment, Keys
  <2> QED
    BY <2>1, <2>2, SettingsValues
<1> QED
  BY Invariance, <1>1, PTL

(* os.environ wins over .env files and defaults. *)
THEOREM EnvironmentWins == Spec => []EnvironWins
<1>1. IInv => EnvironWins
  BY ExactNamesWin DEF IInv, TypeOK, RunsAsDeployed, EnvironWins
<1> QED
  BY Invariance, <1>1, PTL

(* A process has the settings it would have without any file of another
   environment than the one it runs as. *)
THEOREM FilesAreOwn == Spec => []OwnFileOnly
<1>1. IInv => OwnFileOnly
  <2> DEFINE d == deployment
  <2> SUFFICES ASSUME IInv, d # Stopped,
                      Given(d).ENVIRONMENT \in {NotGiven, GetEnvironment(d.appEnv)},
                      NEW f \in FileNames, f[1] \notin {"any", settings.ENVIRONMENT}
               PROVE  SettingsOf(Without(d, f)) = settings
    BY DEF OwnFileOnly
  <2>1. d \in Deployments /\ Validates(d) /\ settings = SettingsOf(d)
    BY DEF IInv, TypeOK, RunsAsDeployed
  <2>2. settings.ENVIRONMENT = GetEnvironment(d.appEnv)
    <3>1. settings.ENVIRONMENT = Construct(d).ENVIRONMENT
      BY <2>1, SettingsValues
    <3>2. Construct(d).ENVIRONMENT = GetEnvironment(d.appEnv)
      BY DEF Construct, ClassDefaults, Keys
    <3> QED
      BY <3>1, <3>2
  <2>3. ResolveEnvFile(Without(d, f)) = ResolveEnvFile(d)
    BY <2>2, OtherFilesAreNotRead
  <2>4. Without(d, f).appEnv = d.appEnv /\ Without(d, f).environ = d.environ
    BY DEF Without
  <2>5. Given(Without(d, f)) = Given(d)
    BY <2>3, <2>4 DEF Given
  <2>6. Construct(Without(d, f)) = Construct(d)
    BY <2>4, <2>5 DEF Construct, ClassDefaults
  <2>7. \A k \in Keys : InOsEnviron(Without(d, f), k) = InOsEnviron(d, k)
    BY <2>4 DEF InOsEnviron
  <2>8. SettingsOf(Without(d, f)) = SettingsOf(d)
    BY <2>6, <2>7 DEF SettingsOf, ApplyEnvironmentDefaults
  <2> QED
    BY <2>1, <2>8
<1> QED
  BY Invariance, <1>1, PTL

=============================================================================
