CONSTANTS
  Names = {"a", "ab"}
  Wanted = {"a"}
  MaxBlocks = 2
  Misread <- Tails
  Text <- Serialize
  Parse <- Parse_string
  Built <- Build
SPECIFICATION Spec
INVARIANTS TypeOK HelloIsMetadata ValuesOwned ListedOnceAndRight MetadataHonest
