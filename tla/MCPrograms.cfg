CONSTANTS
  Url <- Urls
  Kind <- Kinds
  Remote <- RemoteUrls
  None = None
  MaxRecords = 2
  Self = Self
  Junk = Junk
  NoNeedle = NoNeedle
SPECIFICATION PartsSpec
INVARIANTS RecordsFollowInstalls Terminated DoesToText SearchesAgree OrdersAgree OneByteApart TablesAreSampled
PROPERTIES FilesAreKept FindsFirst StoresAreKnown IsByteStream
CHECK_DEADLOCK FALSE
