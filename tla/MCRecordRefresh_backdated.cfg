SPECIFICATION CheckedSpec
CONSTANTS
    money = money  rechecks = rechecks  campaign = campaign
    Jobs = {money, rechecks}
    Lanes = {campaign}
    LaneOf <- OneLane
    Runners = {r1, r2}
    Observers = {o1}
    Interval = 3
    Timeout = 1
    Margin = 2
    StartDelay = 1
    StopDelay = 0
    RetryWaits = {1}
    Verify = {FALSE}
    LastVersion <- MoneyChanges
    Horizon = 5
    None = None
SYMMETRY AnyRunner
INVARIANTS
    SignalAnswered
