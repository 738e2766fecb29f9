CONSTANTS
  Type <- CpuType
  Strings <- CpuStrings
  ChoiceSymbols <- CpuChoices
  ExprValue <- MCExprValue
  Parsed <- MCParsed
  Earlier <- MCEarlier
  MenuFrame = 14
  ListLines = 1
  BoxWidth = 2
  MaxLength = 2
  MaxScroll = 1
  RowsSet = {14, 17, 21}
  HotOf <- MCHotOf
  LettersTyped = {"r", "w"}
  TextLines <- MCTextLines
  Messages <- MCMessages
  Typed <- MCTyped
  LengthOf <- MCLengthOf
  FoundBy <- MCFoundBy
  LinesPerSymbol = 6
  JumpLine = 4
  MaxEdits = 1
  MaxDepth = 3
  DialogEdits = 1
CHECK_DEADLOCK FALSE
SPECIFICATION MCSpec
ACTION_CONSTRAINT InScope

INVARIANTS
  DialogsKeepPlace
  NothingUnsavedIsForgotten
