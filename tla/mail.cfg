SPECIFICATION FairSpec
CONSTANTS
    Accounts = {a}
    Worker = Worker
    m1 = m1
    m2 = m2
    m3 = m3
    t1 = t1
    t2 = t2
    Tabs = {t1}
    Mails <- ThreeMails
    Mailbox <- FirstMailbox
    Unreadable <- Last
    Ruled <- OneMail
    Invitations <- TwoMails
    FirstBatch = 1
    Batch = 1
    MaxStored = 1
    MaxOps = 5
    MaxFaults = 1
    MaxRounds = 0
INVARIANTS
    TypeOK
    NoMailIsSkipped
    StoredAsNumbered
    OneTaskPerMail
    SuggestionIsSettledOnce
PROPERTIES
    CatchesUp
CHECK_DEADLOCK FALSE
