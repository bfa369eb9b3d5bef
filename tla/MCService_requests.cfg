CONSTANTS
  Users = {u1, u2, u3}
  Ledgers = {l1, l2, l3}
  Secrets = {s1, s2}
  NoUser = NoUser
  NoLedger = NoLedger
  client_secret = s1
  ScanYieldsKeys = TRUE
SPECIFICATION Spec
SYMMETRY Symmetric
INVARIANTS
  TypeOK
  ActiveIsPersisted
  SecretsUnique
  KeyFindsOwner
CHECK_DEADLOCK FALSE
