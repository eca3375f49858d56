SPECIFICATION CtrlSpec
CONSTANTS
  Sorted <- MCSorted
  Within <- MCWithin
  Fields = {f1, f2}
  Nobody = Nobody
INVARIANTS
  OffersAreOfTheText
  PopupHasItsRow
CHECK_DEADLOCK FALSE
