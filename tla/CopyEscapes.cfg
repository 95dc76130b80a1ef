SPECIFICATION Spec
CONSTANTS
  Tab = Tab
  Newline = Newline
  Return = Return
  Space = Space
  Quote = Quote
  Backslash = Backslash
  Letter = {"a"}
  Null = Null
  Batches <- JsonBatches
CHECK_DEADLOCK FALSE
INVARIANT JsonPreserved
