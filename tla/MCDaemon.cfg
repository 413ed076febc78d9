SPECIFICATION DaemonSpec
CONSTANTS
  Last = 3
  PageLimit = 1
  MaxItemsLimit = 2
  Configurations <- MCConfigurations
  Offsets <- MCOffsets
  Window = 1
  Day = 2
  None = None
  MaxClock = 1
  MaxFaults = 1
INVARIANTS DaemonTypeOK NoRepeats Complete
PROPERTIES RefusedOnlyLate OnlyFaultsStopAStart ListingEnds ImplementsListing
