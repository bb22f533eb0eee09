SPECIFICATION FairSpec
CONSTANTS
  Providers = {"google", "caldav"}
  Texts = {"a", "b"}
  Occurrences = {"o"}
  Events = {e1, e2, e3, e4}
  Remotes = {r1, r2, r3, r4}
  Syncs = {worker}
  NoRemote = NoRemote
  NoHash = NoHash
  UserFields <- PlainFields
  ProviderItems <- PlainItems
  MaxPush = 2
  Environment = {"refuse", "lose answer", "crash", "disconnect", "delete during push"}
  MaxUserOps = 1
  MaxProviderOps = 1
  MaxFaults = 1
INVARIANTS NoDifferenceIsForgotten NoCopyIsLeftBehind
PROPERTIES Converges
