SPECIFICATION MCSpec
CONSTANTS
  Bits = 3
  Documents <- DocumentsOf
  TextLength <- TextLengths
  Default = "default"
  Counts = {1}
  Metadata <- MetadataDocuments
  MaxHot = 3
  MaxDeclared = 2

INVARIANT ChecksHold
INVARIANT QueriesExact
 
PROPERTY ImplementSet
