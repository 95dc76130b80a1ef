SPECIFICATION FairInventory
CONSTANTS
  Entity = {h1, h2, h3}
  Main = h1
  ChunkSize = 2
  TwoPasses = TRUE
  Retries = 1
  MaxVersion = 2
  Selection = {{}, {h1, h2, h3}}
  MaxPending = 2
  MaxFaults = 2
  Torn = Torn
CONSTRAINT Bounded
INVARIANT InventoryTypeOK
INVARIANT CompleteOnce
INVARIANT PartsInOrder
PROPERTY RowsGetNewer
PROPERTY Converges
