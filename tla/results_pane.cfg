SPECIFICATION MCRSpec
CONSTANTS
  PageSize = 3
  ScrollOff = 1
  ClipThreshold = 2
  WheelStep = 2
  MinHeight = 3
  SplitPercent = 65
  Terminals = {9, 11}
  RowCounts = {2, 4}
  NoResult = NoResult
  Statements = {"insert"}
  Offered = {{"insert"}}
  MaxMarks = 2
  MaxModals = 1
INVARIANTS
  VisualModeOfThisResult
  MarksAreRows
PROPERTIES
  MovesKeepCursorOnScreen
