SPECIFICATION PSpec
CONSTANTS
  Typed = {"u"}
  Newline = "newline"
  Semicolon = ";"
  Slash = Slash
  Offers <- MCOffers
  BareCatalog = BareCatalog
  Arriving <- MCArriving
  Heights = {2, 3}
  None = None
  MaxWords = 2
  MaxHistory = 2
  MaxTranscript = 1
INVARIANTS
  KeysLoseNothing
  CyclingNeverCompounds
  PositionIsShown
  MenuIsForThisText
  TypingIsSeen
