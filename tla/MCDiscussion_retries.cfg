SPECIFICATION Spec
CONSTANTS
    t1 = t1
    t2 = t2
    a1 = a1
    Tabs = {t1, t2}
    Accounts = {a1}
    AccountOf <- OneAccount
    Admins = {}
    MaxComments = 3
    MaxKeys = 2
    MaxTexts = 3
    Boxes <- PostingBoxes
    MaxOpen = 1
    Erasing = {t2}
    Linked = {t2}
    Leaving = {t2}
    None = None
INVARIANTS TypeOK PublishedOnce VerdictIsTrue DraftsAreKept
PROPERTIES NeverOlder
CHECK_DEADLOCK FALSE
