SPECIFICATION Spec
CONSTANTS
    m1 = m1  m2 = m2  p1 = p1  p2 = p2  NoPayee = NoPayee  None = None
    Masternodes <- MCMasternodes
    Payees <- MCPayees
    Ranked <- MCRanked
    Sent <- MCSent
    ActiveMasternode = m1
    SIGNATURES_REQUIRED = 2
    Windows = {0, 1}
    Limits = {1}
    Ahead = 0
    VoteAhead = 0
    MaxHeight = 3
    MaxStarts = 2
SYMMETRY Symmetry
INVARIANTS TalliesConsistent EnforcedIsBacked TemplateAccepted
