SPECIFICATION Spec
CONSTANTS
    m1 = m1
    m2 = m2
    p1 = p1
    p2 = p2
    b1 = b1
    b2 = b2
    None = None
    Masternodes = {m1, m2}
    nOthers = 9
    activeMasternode = m1
    Modes = {"auto", "suggest"}
    Proposals <- MCProposals
    nBlockStart <- MCStart
    nBlockEnd <- MCEnd
    nAmount <- MCAmount
    Malformed = {}
    Budgets <- MCBudgets
    vecBudgetPayments <- MCPayments
    FeeHeight <- MCFee
    ByHash <- MCByHash
    Votes <- MCVotes
    Cycle = 7
    Every = 3
    nTotalBudget = 4
    FeeConfirmations = 2
    UpdateMin = 2
    Ahead = 0
    Established = 0
    MaxAge = 3
    Window = 4
    MaxHeight = 6
    StartHeight = 2
    Stored <- MCStored
    MaxDisturbances = 1
INVARIANTS TypeOK TemplateAccepted BudgetSpendsBest
PROPERTY VotesKept
CHECK_DEADLOCK FALSE
