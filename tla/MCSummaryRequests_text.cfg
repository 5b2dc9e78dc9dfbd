CONSTANTS
    hf1 = hf1  hf2 = hf2  A = A  B = B  v1 = v1  v2 = v2
    r1 = r1  r2 = r2  r3 = r3  r4 = r4  j1 = j1  j2 = j2  j3 = j3
    e1 = e1  e2 = e2  w1 = w1  None = None
    Bills <- OneBill
    Texts <- TwoTexts
    Contexts <- OneContext
    Requests <- TwoRequests
    Jobs <- TwoJobs
    Enqueuers <- OneEnqueuer
    Indexers <- OneIndexer
    Reservation = 2
    ActualCosts <- CheapCall
    MonthlyBudget = 3
    BillBudget = 3
    FailureCap = 3
    LastMonth = 2
    SearchInline <- Sometimes
    GateOpen <- Sometimes
    PromptRefused <- Sometimes
SPECIFICATION Spec
SYMMETRY Interchangeable
INVARIANTS SummaryIsPaidAndCurrent LiveRequestTracksText
PROPERTIES PaidAnswerIsUsed ReadyMeansSearchable
