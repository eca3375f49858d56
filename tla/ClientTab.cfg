SPECIFICATION Spec
CONSTANTS
  Heads = {h}
  NoHead = NoHead
  Inbox = {"compact", "bytes", "latin"}
  Typed = {"", "words"}
  Choices = {"Auto", "Text", "Binary"}
  Panes = {p1}
  MaxLines = 3
  MaxStored = 2
  MaxSteps = 6
INVARIANTS
  EditorKeepsPayload
  PreviewIsOfSelection
  MenuActsOnItsLine
  SurvivesTheRest
  TogglesTellPanes
CHECK_DEADLOCK FALSE
