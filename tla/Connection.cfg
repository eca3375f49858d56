SPECIFICATION FairSpec
CONSTANTS
  MaxRetries = 2
  AutoReconnect = TRUE
  PahoErrors = TRUE
  MaxLag = 3
INVARIANTS
  ConnectReplacesIdleClient
  SettledViewIsTrue
  RetriesAreBounded
  CancelStopsRetries
PROPERTIES
  KeepsContract
  CancelViewResolves
  LossIsResolved
\* A tab whose MQTT client died with it does nothing more.
CHECK_DEADLOCK FALSE
