CONSTANTS
  r1 = r1
  n1 = n1
  c1 = c1
  Realms = {r1}
  Notifiers = {n1}
  RealmOf <- MCRealmOf
  Callbacks = {c1}
  NotifierOf <- MCNotifierOf
  Nobody = Nobody
  MaxVersion = 4
CHECK_DEADLOCK FALSE
SPECIFICATION FairSpec
INVARIANT TypeOK
INVARIANT EveryCommitIsTold
INVARIANT NothingIsToldTwiceOrEarly
INVARIANT OnlySuppressedCommitsAreDropped
INVARIANT NothingIsDiscarded
INVARIANT WorkerAssertionsHold
PROPERTY CallbacksCatchUp
