SPECIFICATION BuildSpec
CONSTANTS
  Type <- CpuType
  Strings <- CpuStrings
  ChoiceSymbols <- CpuChoices
  ExprValue <- MCExprValue
  Tables <- MCTables
  Settable <- MCSettable
  Texts <- MCTexts
  MaxStarts = 3
INVARIANTS
  ChangesAreMarked
  SavedConfigSurvives
  FilesReadBack
