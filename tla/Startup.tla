---------------------------- MODULE Startup ----------------------------
(* From the environment the container is given to the requests it serves:    *)
(* config.ts reads the settings and validates them, server.ts listens, the   *)
(* signature middlewares use the keys and the first request that needs the   *)
(* database loads its credentials, which a refresh may replace later.        *)
(*                                                                           *)
(* A setting is what the code tells apart in it: a signing key is the length *)
(* and the different characters it has once trimmed, and whether there is    *)
(* white space around it; DB_CREDENTIALS is an ARN or some JSON.             *)
EXTENDS Naturals

CONSTANTS
  Keys,        \* values of a signing key
  None

Key == [length : Nat, unique : Nat, forbidden : BOOLEAN, padded : BOOLEAN]

ASSUME KeysAreKeys ==
  \A k \in Keys : k \in Key /\ k.unique <= k.length /\ (k.forbidden => k.length < 12)

Sources == {"DB_CREDENTIALS", "DB_CREDENTIALS_SECRET_ARN", "injected", "password"}

ASSUME NoneIsNothing == None \notin Keys /\ None \notin Sources

\* GOVPAY_API_URL and GOVPAY_API_KEY are in one setting, as are the numbers:
\* one that does not parse, one that parses and is out of its range.
Environments ==
  [nodeEnv : {"test", "other"},
   govPaySigningKey : Keys, bacsSigningKey : Keys,
   govPayApi : BOOLEAN,
   numbers : {"valid", "notANumber", "outOfRange"},
   dbCredentials : {"empty", "arn", "json", "incomplete", "malformed"},
   dbPassword : BOOLEAN,
   secretArn : BOOLEAN]

VARIABLES
  env,           \* process.env
  bacsKey,       \* config.bacsWebhookConfig.signingKey
  process,       \* how far the process has come
  credentials    \* where those of the pool come from

vars == <<env, bacsKey, process, credentials>>

TypeOK ==
  /\ env \in Environments
  /\ bacsKey \in Keys \cup {None}
  /\ process \in {"loading", "validating", "created", "listening", "exited"}
  /\ credentials \in Sources \cup {None}

Init ==
  /\ env \in Environments
  /\ bacsKey = None /\ process = "loading" /\ credentials = None

(* ----------------------------- config.ts ------------------------------ *)

Empty(key) == key.length = 0 /\ ~key.padded

\* Mutant: the signing keys default to the empty string.
RequiredButKeys == env.govPayApi

\* getConfigValue of what has no default.
RequiredPresent ==
  /\ ~Empty(env.govPaySigningKey) /\ ~Empty(env.bacsSigningKey)
  /\ env.govPayApi

NumbersParse == env.numbers # "notANumber"

\* The exported objects, evaluated when the module is first required.
LoadConfig ==
  /\ process = "loading"
  /\ IF RequiredPresent /\ NumbersParse
       THEN process' = "validating" /\ bacsKey' = env.bacsSigningKey
       ELSE process' = "exited" /\ UNCHANGED bacsKey
  /\ UNCHANGED <<env, credentials>>

MinSigningKeyLength == 32
RecommendedSigningKeyLength == 64

MinUnique(key) == IF key.length >= RecommendedSigningKeyLength THEN 16 ELSE 8

\* Mutant: the white space around a key counts.
LengthOkUntrimmed(key) == key.length + (IF key.padded THEN 2 ELSE 0) >= MinSigningKeyLength

LengthOk(key) == key.length >= MinSigningKeyLength

StrengthOk(key) == ~key.forbidden /\ key.unique >= MinUnique(key)

SigningKeyOk(key) == key.length > 0 /\ StrengthOk(key) /\ LengthOk(key)

\* Mutant: DB_HOST and DB_USER are enough.
DbCredentialsAnything == TRUE

DbCredentialsGiven == env.dbCredentials # "empty" \/ env.dbPassword

ConfigOk ==
  /\ SigningKeyOk(env.govPaySigningKey) /\ SigningKeyOk(bacsKey)
  /\ DbCredentialsGiven
  /\ env.numbers # "outOfRange"

\* validateConfig, which the unit tests' environment skips.  A throw while the
\* module loads ends the process as process.exit(1) does.
ValidateConfig ==
  /\ process = "validating"
  /\ process' = IF env.nodeEnv = "test" \/ ConfigOk THEN "created" ELSE "exited"
  /\ UNCHANGED <<env, bacsKey, credentials>>

Listen ==
  /\ process = "created"
  /\ process' = "listening"
  /\ UNCHANGED <<env, bacsKey, credentials>>

(* ---------------------------- credentials ----------------------------- *)

\* Mutant: JSON that parses is not looked into.
InitialSourceUnchecked ==
  CASE env.dbCredentials = "arn" -> "DB_CREDENTIALS"
    [] env.dbCredentials = "json" -> "injected"
    [] env.dbCredentials = "incomplete" -> "undefined"
    [] env.dbCredentials = "malformed" -> None
    [] OTHER -> IF env.dbPassword THEN "password" ELSE None

\* Where getDbSecretConfig finds credentials; None when it throws.  JSON
\* without a username or a password is passed over in silence.
InitialSource ==
  CASE env.dbCredentials = "arn" -> "DB_CREDENTIALS"
    [] env.dbCredentials = "json" -> "injected"
    [] env.dbCredentials = "malformed" -> None
    [] OTHER -> IF env.dbPassword THEN "password" ELSE None

\* The first request that asks for the pool.  Secrets Manager may not answer,
\* and then the next request tries again.
LoadInitialCredentials ==
  /\ process = "listening" /\ credentials = None
  /\ InitialSource # None
  /\ credentials' = InitialSource
  /\ UNCHANGED <<env, bacsKey, process>>

\* Mutant: only DB_CREDENTIALS_SECRET_ARN makes a refresh possible.
HasSecretArnVariable == env.secretArn

HasSecretArn == env.secretArn \/ env.dbCredentials = "arn"

\* The secret that refreshCredentials reads.
RefreshSource ==
  IF env.secretArn THEN "DB_CREDENTIALS_SECRET_ARN"
  ELSE IF env.dbCredentials = "arn" THEN "DB_CREDENTIALS" ELSE None

\* The database refused the password and the secret holds another.
RefreshCredentials ==
  /\ process = "listening" /\ credentials # None
  /\ HasSecretArn /\ RefreshSource # None
  /\ credentials' = RefreshSource
  /\ UNCHANGED <<env, bacsKey, process>>

Next ==
  \/ LoadConfig \/ ValidateConfig \/ Listen
  \/ LoadInitialCredentials \/ RefreshCredentials

Spec == Init /\ [][Next]_vars

\* The process starts, Secrets Manager answers in the end, and there is a
\* request that uses the database.  Nobody has to change the password.
Fairness ==
  /\ WF_vars(LoadConfig) /\ WF_vars(ValidateConfig) /\ WF_vars(Listen)
  /\ WF_vars(LoadInitialCredentials)

FairSpec == Spec /\ Fairness

(* ---------------------------- correctness ----------------------------- *)

\* A service that listens never answers that a signing key is not configured:
\* not the GOV.UK Pay middleware, which reads the environment at every request,
\* nor the BACS one, which reads what was loaded, whatever NODE_ENV is.
ListeningIsConfigured ==
  process = "listening" =>
    /\ ~Empty(env.govPaySigningKey)
    /\ bacsKey # None /\ ~Empty(bacsKey)

\* Outside the unit tests' environment no signature is verified with a key that
\* is short, repetitive or well known, white space and all: 32 characters, 8 of
\* them different, or 16 of a key of 64.
Strong(key) ==
  /\ ~key.forbidden
  /\ key.length >= 32 /\ key.unique >= 8
  /\ key.length >= 64 => key.unique >= 16

KeysInUseAreStrong ==
  process = "listening" /\ env.nodeEnv # "test" =>
    Strong(env.govPaySigningKey) /\ Strong(bacsKey)

\* Credentials that can rotate can be read again: the wrappers and the error
\* handler of the pool let a refresh begin exactly when refreshCredentials has
\* a secret to read, and it has one whenever the credentials came from a secret.
RotationSurvivable ==
  process = "listening" =>
    /\ HasSecretArn <=> RefreshSource # None
    /\ credentials \in {"DB_CREDENTIALS", "DB_CREDENTIALS_SECRET_ARN"} => HasSecretArn

\* A service that validateConfig let through gets its database credentials,
\* unless DB_CREDENTIALS is JSON it cannot use, which nothing checks before the
\* first request.
CredentialsLoad ==
  (process = "listening" /\ env.nodeEnv # "test"
    /\ env.dbCredentials # "malformed" /\ (env.dbCredentials = "incomplete" => env.dbPassword))
  ~> credentials # None
(* ------------- what the properties rest on, inductively -------------- *)

Loaded == process \in {"validating", "created", "listening"}

Validated == process \in {"created", "listening"} /\ env.nodeEnv # "test"

\* Each check is still true of what the process uses later: the environment is
\* read again by nobody who could find it changed.
StartupInv ==
  /\ TypeOK
  /\ Loaded => RequiredPresent /\ bacsKey = env.bacsSigningKey
  /\ Validated => ConfigOk
  /\ credentials # None => credentials \in {InitialSource, RefreshSource}

========================================================================
