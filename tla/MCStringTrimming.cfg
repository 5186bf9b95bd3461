\* Every text of up to six characters.
SPECIFICATION Spec
CONSTANTS
  Char = {"a", " ", "nl", ";"}
  Space = " "
  Newline = "nl"
  Break = {";"}
  MaxLength = 6
INVARIANTS
  UnreadIsIntact
  TextIsCanonical
  TokensSurvive
  NamesComeOutAlike
CHECK_DEADLOCK FALSE
