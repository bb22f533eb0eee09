SPECIFICATION Spec
CONSTANTS
  Providers = {"google"}
  Texts = {"a", "b"}
  Occurrences = {"o"}
  Events = {e1, e2}
  Remotes = {r1, r2}
  Syncs = {worker}
  NoRemote = NoRemote
  NoHash = NoHash
  UserFields <- PlainFields
  ProviderItems <- PlainItems
  MaxPush = 2
  Environment = {"expire token"}
  MaxUserOps = 1
  MaxProviderOps = 1
  MaxFaults = 1
SYMMETRY IdSymmetry
INVARIANTS NoDifferenceIsForgotten
