SPECIFICATION Spec
CONSTANTS
  Defaults <- MCDefaults
  NewNames <- MCNewNames
  Texts <- MCTexts
  Tabs = {t1, t2}
  Others = {}
  Deaf = {}
  Blank = Blank
  MaxId = 3
  MaxQueue = 2
SYMMETRY MCSymmetry
INVARIANTS
  NamesAreUnique
  FilesAreLayouts
  TabShowsItsLayout
  OnlyOrphansAreFatal
CHECK_DEADLOCK FALSE
