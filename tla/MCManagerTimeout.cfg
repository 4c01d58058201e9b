SPECIFICATION Spec
CONSTANTS
  Configured <- MCServers
  Offers <- MCOffers
  Timeout = 2
  OwnDriver = FALSE
  MaxReconnects = 2
INVARIANT SettlesInOneTimeout
CHECK_DEADLOCK FALSE
