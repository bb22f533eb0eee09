SPECIFICATION Spec
CONSTANTS
  People = {ann, bob}
  NoOne = NoOne
  Audiences <- PrivateOrShared
  Devices = {d1, d2}
  Events = {e1}
  Starts = {1, 2}
  Leads = {0}
  Lookback = 2
  KeepLog = 2
  MaxFailures = 2
  MaxSubscriptions = 2
  LastMinute = 4
  MaxOps = 4
  MaxFaults = 1
SYMMETRY Symmetry
INVARIANTS TypeOK NeverTwice 
