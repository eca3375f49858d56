SPECIFICATION Spec
CONSTANTS
  wide = wide
  narrow = narrow
  Filters <- MCFilters
  Matches <- MCMatches
  MaxIds = 3
  MaxInFlight = 2
  BrokerMayReject = TRUE
INVARIANTS
  FiltersAreUnique
  RegisteredHasRow
  RowIsBacked
  NothingIsForgotten
  SubscribedIsHeld
