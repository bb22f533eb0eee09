SPECIFICATION Spec
CONSTANTS
    Users = {ann, bob}
    NoOne = NoOne
    ann = ann
    bob = bob
    Clients = {c1, c2}
    Kinds <- TaskKinds
    Days <- OneDay
    NoDate = NoDate
    NewTasks <- Some
    Changes <- Edits
    StartOwner <- TwoAreas
    StartRole <- BobHelps
    StartTasks <- OneTask
    AreaLimit = 3
    MemberLimit = 2
    InviteLimit = 2
    MaxAreas = 3
    MaxTasks = 3
    MaxLinks = 2
    MaxOps = 4
INVARIANTS
    NeverTwoFollowers
SYMMETRY Symmetry
CHECK_DEADLOCK FALSE
