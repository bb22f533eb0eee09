SPECIFICATION Spec
CONSTANTS
  Providers = {"google", "caldav", "microsoft"}
  Texts = {"a", "b"}
  Occurrences = {"o"}
  Events = {e1, e2, e3, e4}
  Remotes = {r1, r2, r3, r4}
  Syncs = {worker}
  NoRemote = NoRemote
  NoHash = NoHash
  UserFields <- RuleFields
  ProviderItems <- MixedItems
  MaxPush = 1
  Environment = {"slow delete", "cancel occurrence", "expire token", "delete area"}
  MaxUserOps = 2
  MaxProviderOps = 2
  MaxFaults = 1
SYMMETRY IdSymmetry
INVARIANTS TypeOK LinksAreInjective NoCopyIsLeftBehind
PROPERTIES  OnlyDeletedIsForgotten
