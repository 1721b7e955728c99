SPECIFICATION FairSpec
CONSTANTS
  Names <- MCNames
  Reserved <- MCReserved
  SASLprep <- MCSASLprep
  Options <- MCOptions
  Sites <- MCSites
  Account <- MCAccount
  MaxAttempts = 2
CHECK_DEADLOCK FALSE
INVARIANTS
  TypeOK
  DecidedByCredentials
PROPERTIES
  Implements
  KeyStaysHome
  TokenOnce
  LoginReturns
