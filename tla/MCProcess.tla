------------------------------ MODULE MCProcess ------------------------------
(* Process with APP_ENV spelled in full, as an alias or unset, what os.environ
   may say of three settings, and up to two of four .env files. *)
EXTENDS Process

Exactly(value) == [value |-> value, exact |-> TRUE]
InOtherCase(value) == [value |-> value, exact |-> FALSE]

MCEnviron ==
  [ENVIRONMENT : {NotGiven, Exactly("production"), Exactly("development"), Exactly("prod")},
   DEBUG : {NotGiven, Exactly(TRUE), Exactly(FALSE), InOtherCase(TRUE)},
   JWT_ISSUER : {NotGiven, Exactly("operator")}]

MCFileNames == { <<"production", TRUE>>, <<"production", FALSE>>,
                 <<"development", TRUE>>, <<"any", FALSE>> }

(* The issuer in a file tells the file's environment. *)
MCContents(f) ==
  { [ENVIRONMENT |-> NotGiven, DEBUG |-> NotGiven, JWT_ISSUER |-> f[1]],
    [ENVIRONMENT |-> NotGiven, DEBUG |-> TRUE, JWT_ISSUER |-> NotGiven],
    [ENVIRONMENT |-> "development", DEBUG |-> NotGiven, JWT_ISSUER |-> f[1]] }

(* No file, one, or two of which the second gives an issuer only. *)
MCTwoFiles(first, content, second) ==
  [f \in FileNames |->
     IF f = first THEN content
     ELSE IF f = second
     THEN [ENVIRONMENT |-> NotGiven, DEBUG |-> NotGiven, JWT_ISSUER |-> second[1]]
     ELSE NoFile]

MCFiles ==
  {[f \in FileNames |-> NoFile]} \cup
  UNION { { MCTwoFiles(first, c, second) : c \in MCContents(first), second \in MCFileNames } :
          first \in MCFileNames }

MCDeployments ==
  [appEnv : {"prod", "production", "unset"}, environ : MCEnviron, files : MCFiles]

=============================================================================
