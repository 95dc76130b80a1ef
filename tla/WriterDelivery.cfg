SPECIFICATION FairSpec
CONSTANTS
  Batch = {1, 2, 3, 4, 5, 6, 7, 8, 9}
  File = {1, 2, 3, 4, 5, 6, 7, 8}
  Key = {"h1", "h2", "k1", "k2", "i", "r"}
  Table = {"hosts", "history", "items", "templates", "obm"}
  FileOf <- MCFileOf
  Meta <- MCMeta
  Keys <- MCKeys
  After <- MCAfter
  Direct = {1, 2, 3, 4, 5}
  MaxFaults = 2
  NoTable = NoTable
  UpdatedAt = UpdatedAt
  Nobody = Nobody
  Absent = Absent
  Torn = Torn
  Stub = Stub
CONSTRAINT Bounded
INVARIANT TypeOK
INVARIANT CopiesBounded
INVARIANT KeptUntilLoaded
INVARIANT Accounted
PROPERTY Delivered
PROPERTY ImplementsDelivery
PROPERTY ReloadIsIdempotent
PROPERTY NoRegressionWithoutFaults
