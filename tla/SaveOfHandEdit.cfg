SPECIFICATION Spec
CONSTANTS
  r1 = r1
  r2 = r2
  r3 = r3
  Requests <- TwoRequests
  PatchOf <- OneOfEach
  Keys <- TwoKeys
  LiveKeys <- PpOnly
  Values <- OffOn
  Defaults <- AllOff
  Legal <- NotBoth
  EditTexts <- CommentedHeader
  Serial = TRUE
  Torn = Torn
  Doubled = Doubled
  Original = Original
  Operator = Operator
  NoFile = NoFile
CHECK_DEADLOCK FALSE
INVARIANT FileAlwaysLoads
