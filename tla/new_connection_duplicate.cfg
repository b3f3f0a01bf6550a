SPECIFICATION CSpec
CONSTANTS
  Saves = {s1, s2}
  Locations = {"global"}
  Types <- MCTypes
  TypeMatches <- MCTypeMatches
  FieldsOf <- MCFieldsOf
  Required = {"database"}
  Ports = {"port"}
  Optional = {"ssh_host"}
  DefaultOf <- MCDefaultOf
  Texts = {"", " ", "5432"}
  PortNumbers = {"5432"}
  Blank = {"", " "}
  Empty = ""
  Names = {"", "one"}
  OthersNames = {}
  Dsns = {"", "sqlite:db"}
  ParseOf <- MCParseOf
  DerivedName <- MCDerivedName
  OthersConn <- MCConn
  NoConn = NoConn
  NoText = NoText
INVARIANTS
  NoDuplicateTable
