CONSTANTS
  r1 = r1
  n1 = n1
  c1 = c1
  Realms = {r1, r2}
  Notifiers = {n1, n2}
  RealmOf <- MCRealmOf
  Callbacks = {c1}
  NotifierOf <- MCNotifierOf
  Nobody = Nobody
  MaxVersion = 3
CHECK_DEADLOCK FALSE
SPECIFICATION Spec
INVARIANT SuppressionIsForItsCommit
CONSTRAINT AutorefreshStaysOn
