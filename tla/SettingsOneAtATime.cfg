SPECIFICATION FairSpec
CONSTANTS
  r1 = r1
  r2 = r2
  r3 = r3
  Requests <- ThreeRequests
  PatchOf <- OnOffOther
  Keys <- TwoKeys
  LiveKeys <- PpOnly
  Values <- OffOn
  Defaults <- AllOff
  Legal <- NotBoth
  EditTexts <- KnownEdits
  Serial = TRUE
  Torn = Torn
  Doubled = Doubled
  Original = Original
  Operator = Operator
  NoFile = NoFile
INVARIANTS
  FileIsSound
PROPERTIES
  SaveIsAtomic
  RunsAsSet
