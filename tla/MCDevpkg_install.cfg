CONSTANTS
  Url <- Urls
  Kind <- Kinds
  Remote <- RemoteUrls
  None = None
  MaxRecords = 1
SPECIFICATION Spec
INVARIANT InstallInstalls
CHECK_DEADLOCK FALSE
