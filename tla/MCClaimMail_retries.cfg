SPECIFICATION FairSpec
CONSTANTS
    Deliveries = {d1}
    Workers = {w1, w2}
    Addresses = {a1, a2}
    Allowed = {a1}
    Window = 1
    KeyLife = 2
    Lag = 1
    None = None
INVARIANTS
    TypeOK
    DeliveryLedger
    OneEmail
    OneContent
    SentMeansDelivered
PROPERTIES
    KeepsPromise
    NoDeletedNameSent
    EveryNoticeConcludes
