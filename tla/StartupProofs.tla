------------------------- MODULE StartupProofs -------------------------
(* Proofs about Startup for any set of signing keys.                         *)
EXTENDS Startup, TLAPS

\* What SigningKeyOk lets through, on the trimmed key, is strong as it is.
LEMMA OkIsStrong ==
  ASSUME NEW key \in Keys, SigningKeyOk(key)
  PROVE  Strong(key)
<1>1. key.length \in Nat /\ key.unique \in Nat /\ key \in Key
  BY KeysAreKeys DEF Key
<1> QED BY <1>1 DEF SigningKeyOk, LengthOk, StrengthOk, MinUnique, MinSigningKeyLength,
                    RecommendedSigningKeyLength, Strong

\* Credentials come from one of the four sources, or from none.
LEMMA SourcesAreSources ==
  ASSUME TypeOK
  PROVE  InitialSource \in Sources \cup {None} /\ RefreshSource \in Sources \cup {None}
<1>1. env.dbCredentials \in {"empty", "arn", "json", "incomplete", "malformed"}
      /\ env.dbPassword \in BOOLEAN /\ env.secretArn \in BOOLEAN
  BY DEF TypeOK, Environments
<1> QED BY <1>1 DEF InitialSource, RefreshSource, Sources

\* What was checked at startup is true of what is used afterwards: it is
\* checked once, and the loaded key and the environment do not part.
THEOREM StartupInductive == Spec => []StartupInv
<1>1. Init => StartupInv
  BY DEF Init, StartupInv, TypeOK, Loaded, Validated
<1>2. StartupInv /\ [Next]_vars => StartupInv'
  <2> SUFFICES ASSUME StartupInv, [Next]_vars PROVE StartupInv'
    OBVIOUS
  <2> USE DEF StartupInv
  <2>0. /\ InitialSource \in Sources \cup {None} /\ RefreshSource \in Sources \cup {None}
        /\ env \in Environments /\ env.bacsSigningKey \in Keys
    BY SourcesAreSources DEF TypeOK, Environments
  <2>1. CASE LoadConfig
    BY <2>0, <2>1 DEF LoadConfig, TypeOK, Loaded, Validated, RequiredPresent, InitialSource,
                      RefreshSource
  <2>2. CASE ValidateConfig
    BY <2>2 DEF ValidateConfig, TypeOK, Loaded, Validated, RequiredPresent, ConfigOk,
                DbCredentialsGiven, InitialSource, RefreshSource
  <2>3. CASE Listen
    BY <2>3 DEF Listen, TypeOK, Loaded, Validated, RequiredPresent, ConfigOk,
                DbCredentialsGiven, InitialSource, RefreshSource
  <2>4. CASE LoadInitialCredentials
    BY <2>0, <2>4 DEF LoadInitialCredentials, TypeOK, Loaded, Validated, RequiredPresent,
                ConfigOk, DbCredentialsGiven, InitialSource, RefreshSource
  <2>5. CASE RefreshCredentials
    BY <2>0, <2>5 DEF RefreshCredentials, TypeOK, Loaded, Validated, RequiredPresent, ConfigOk,
                DbCredentialsGiven, InitialSource, RefreshSource
  <2>6. CASE UNCHANGED vars
    BY <2>6 DEF vars, TypeOK, Loaded, Validated, RequiredPresent, ConfigOk,
                DbCredentialsGiven, InitialSource, RefreshSource
  <2> QED BY <2>1, <2>2, <2>3, <2>4, <2>5, <2>6 DEF Next
<1> QED BY <1>1, <1>2, PTL DEF Spec

\* A service that listens has both signing keys, for the middleware that reads
\* the environment and for the one that reads what was loaded.
THEOREM KeysArePresent == Spec => []ListeningIsConfigured
<1>1. StartupInv => ListeningIsConfigured
  <2> SUFFICES ASSUME StartupInv, process = "listening"
               PROVE  ~Empty(env.govPaySigningKey) /\ bacsKey # None /\ ~Empty(bacsKey)
    BY DEF ListeningIsConfigured
  <2>1. RequiredPresent /\ bacsKey = env.bacsSigningKey
    BY DEF StartupInv, Loaded
  <2>2. env.bacsSigningKey \in Keys
    BY DEF StartupInv, TypeOK, Environments
  <2> QED BY <2>1, <2>2, NoneIsNothing DEF RequiredPresent
<1> QED BY <1>1, StartupInductive, PTL

\* No signature is verified with a weak key outside of the unit tests.
THEOREM KeysAreStrong == Spec => []KeysInUseAreStrong
<1>1. StartupInv => KeysInUseAreStrong
  <2> SUFFICES ASSUME StartupInv, process = "listening", env.nodeEnv # "test"
               PROVE  Strong(env.govPaySigningKey) /\ Strong(bacsKey)
    BY DEF KeysInUseAreStrong
  <2>1. ConfigOk /\ bacsKey = env.bacsSigningKey
    BY DEF StartupInv, Loaded, Validated
  <2>2. env.bacsSigningKey \in Keys /\ env.govPaySigningKey \in Keys
    BY DEF StartupInv, TypeOK, Environments
  <2> QED BY <2>1, <2>2, OkIsStrong DEF ConfigOk
<1> QED BY <1>1, StartupInductive, PTL

\* The four places that decide whether there is a secret to refresh from agree.
THEOREM RotationSurvives == Spec => []RotationSurvivable
<1>1. StartupInv => RotationSurvivable
  <2> SUFFICES ASSUME StartupInv
               PROVE  /\ HasSecretArn <=> RefreshSource # None
                      /\ credentials \in {"DB_CREDENTIALS", "DB_CREDENTIALS_SECRET_ARN"}
                           => HasSecretArn
    BY DEF RotationSurvivable
  <2>1. /\ env.dbCredentials \in {"empty", "arn", "json", "incomplete", "malformed"}
        /\ env.dbPassword \in BOOLEAN /\ env.secretArn \in BOOLEAN
    BY DEF StartupInv, TypeOK, Environments
  <2>2. None \notin Sources
    BY NoneIsNothing
  <2>3. HasSecretArn <=> RefreshSource # None
    BY <2>1, <2>2 DEF HasSecretArn, RefreshSource, Sources
  <2>4. credentials # None => credentials \in {InitialSource, RefreshSource}
    BY DEF StartupInv
  <2>5. InitialSource \in {"DB_CREDENTIALS", "DB_CREDENTIALS_SECRET_ARN"} => HasSecretArn
    BY <2>1, <2>2 DEF InitialSource, HasSecretArn, Sources
  <2>6. credentials \in {"DB_CREDENTIALS", "DB_CREDENTIALS_SECRET_ARN"} => HasSecretArn
    BY <2>2, <2>3, <2>4, <2>5 DEF Sources
  <2> QED BY <2>3, <2>6
<1> QED BY <1>1, StartupInductive, PTL
========================================================================
