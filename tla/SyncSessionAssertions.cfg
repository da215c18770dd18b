CONSTANTS
  u1 = u1
  UploadCallbacks = {u1}
  DownloadCallbacks = {}
  Configs <- MCConfigs
  ErrorKinds = {}
  MaxSessions = 1
  MaxVersion = 1
  MaxWaits = 1
  MaxDeaths = 1
  MaxResyncs = 0
  MaxDrops = 1
  MaxUnregisters = 2
CHECK_DEADLOCK FALSE
SPECIFICATION Spec
INVARIANT NoAssertionFails
