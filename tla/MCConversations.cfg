SPECIFICATION Spec
CONSTANTS
    t1 = t1
    t2 = t2
    t3 = t3
    s1 = s1
    s2 = s2
    dflt = dflt
    coder = coder
    Turns <- MCTurns
    Sessions <- MCSessions
    Names <- MCNames
    DefaultName = dflt
    HistoryLimit = 3
    None = None
SYMMETRY MCSymmetry
INVARIANTS
    AnswerFollowsQuestion
    OffLeavesNoTrace
    ContextIsWhatCameBefore
    IInv
