CONSTANTS
  u1 = u1
  UploadCallbacks = {u1}
  DownloadCallbacks = {}
  Configs <- MCConfigs
  ErrorKinds <- MCErrors
  MaxSessions = 2
  MaxVersion = 1
  MaxWaits = 2
  MaxDeaths = 2
  MaxResyncs = 1
  MaxDrops = 1
  MaxUnregisters = 1
CHECK_DEADLOCK FALSE
SPECIFICATION Spec
INVARIANT TypeOK
INVARIANT SessionMatchesState
INVARIANT QueuedCallbacksHaveAWait
INVARIANT NoCallbackIsLost
INVARIANT ActiveSessionKnowsAllCommits
INVARIANT HeldSessionIsRegistered
PROPERTY DeathWaitsForUploads
PROPERTY ImplementsContract
