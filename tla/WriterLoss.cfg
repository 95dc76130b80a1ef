SPECIFICATION Spec
CONSTANTS
  Batch = {1, 2, 3}
  File = {1, 2}
  Key = {"h1", "h2"}
  Table = {"hosts"}
  FileOf <- HostFileOf
  Meta <- HostMeta
  Keys <- HostKeys
  After <- HostAfter
  Direct = {1, 2, 3}
  MaxFaults = 0
  NoTable = NoTable
  UpdatedAt = UpdatedAt
  Nobody = Nobody
  Absent = Absent
  Torn = Torn
  Stub = Stub
INVARIANT NeverLost
