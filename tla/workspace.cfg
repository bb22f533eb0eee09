SPECIFICATION Spec
CONSTANTS
    Users = {ann, bob}
    NoOne = NoOne
    ann = ann
    bob = bob
    Clients = {c1, c2}
    Kinds <- AllKinds
    Days <- OneDay
    NoDate = NoDate
    NewTasks <- Some
    Changes <- EditsAndMoves
    StartOwner <- TwoAreas
    StartRole <- BobHelps
    StartTasks <- OneTask
    AreaLimit = 3
    MemberLimit = 2
    InviteLimit = 1
    MaxAreas = 3
    MaxTasks = 3
    MaxLinks = 1
    MaxOps = 4
INVARIANTS
    TypeOK
    LinkWorksOnce
    CompletionIsConsistent
    SeriesGoesOn
    EveryoneKeepsAnArea
    SomebodyIsAdmin
PROPERTIES
    NoTaskIsLost
SYMMETRY Symmetry
CHECK_DEADLOCK FALSE
