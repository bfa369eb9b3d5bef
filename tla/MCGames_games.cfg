\* Every game on a small configuration, in sessions that drop and that keep a
\* frame that raised. A game that is over or stuck is not moved again.
SPECIFICATION Spec
CONSTANTS
  Configs <- MCConfigs
  KeepsFailed = {TRUE, FALSE}
INVARIANTS
  TypeOK
  ReadyOffers
  NothingOverdrawn
  QueueSound
  EndsInTime
PROPERTIES
  DecidedRightly
CHECK_DEADLOCK FALSE
