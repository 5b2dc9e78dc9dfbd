SPECIFICATION Spec
CONSTANTS
    Deliveries = {d1}
    Workers = {w1, w2}
    Addresses = {a1, a2}
    Allowed = {a1, a2}
    Window = 2
    KeyLife = 3
    Lag = 1
    None = None
SYMMETRY AnyWorker
INVARIANTS
    DeliveryLedger
    OneEmail
PROPERTIES
    KeepsRevisablePromise
    NoErasedNameSent
