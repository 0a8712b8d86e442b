\* Every environment, with ten signing keys around the limits of the checks.
SPECIFICATION FairSpec
CONSTANTS
  Keys <- BoundaryKeys
  None = None
INVARIANTS
  StartupInv
  ListeningIsConfigured
  KeysInUseAreStrong
  RotationSurvivable
PROPERTY
  CredentialsLoad
CHECK_DEADLOCK FALSE
