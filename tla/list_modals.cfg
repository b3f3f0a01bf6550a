SPECIFICATION LSpec
CONSTANTS
  Letters = {"b", " "}
  Blank = " "
  Connections <- MCConnections
  Active <- MCActive
  HelpRows <- MCHelpRows
  Commands <- MCCommands
  Tables <- MCTables
  Columns <- MCColumns
  Formats <- MCFormats
  Completing <- MCStatements
  FixedRows = 5
  SplitRows = 3
  PickerRows = 6
  ContentWidth = 3
  Widths = {2, 3}
  None = None
  MaxFilter = 2
  MaxHistory = 3
INVARIANTS
  ColumnsAreOfTheTable
  FilterFindsAll
PROPERTIES
  KeysKeepHighlight
  EnterTakesWhatIsShown
