SPECIFICATION FormSpec
CONSTANTS
  Defaults <- MCDefaults
  NewNames <- MCNewNames
  Texts <- MCTexts
  Tabs = {}
  SettingsTab = SettingsTab
  ProfileList = ProfileList
  Others = {SettingsTab, ProfileList}
  Deaf = {ProfileList}
  Blank = Blank
  MaxId = 3
  MaxQueue = 1
  Options = {o1, o2}
  DefaultOptions = o1
  Folder = Folder
  None = None
  MaxProfiles = 2
INVARIANTS
  FormIsOfSelection
  ConnectUsesWhatIsShown
  ProfileKeepsItsLayout
CHECK_DEADLOCK FALSE
