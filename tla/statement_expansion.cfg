SPECIFICATION ESpec
CONSTANTS
  TableColumns <- MCTableColumns
  TableRows <- MCTableRows
  Keys <- MCKeys
  Projections <- MCProjections
  Queries <- MCQueries
  Null = Null
  Unknown = Unknown
  None = None
  MaxTableRows = 2
INVARIANTS
  WholeKeyHitsChosenRows
  DeletesReachShownRows
