SPECIFICATION FairSpec
CONSTANTS
  Configured <- MCServers
  Offers <- MCOffers
  Timeout = 2
  OwnDriver = FALSE
  MaxReconnects = 2
INVARIANTS
  RegistryIsCurrent
  OnlyCollisionsLose
  NoStrayProcess
PROPERTIES
  BackToIdle
CHECK_DEADLOCK FALSE
