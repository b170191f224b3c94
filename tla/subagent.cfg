SPECIFICATION FairSpec
CONSTANTS
    Tasks = {t1, t2}
    Slots = 1
    MaxPolls = 1
CHECK_DEADLOCK FALSE
INVARIANT TypeOK
INVARIANT AnswerIsFinal
INVARIANT EntryOutlivesUsers
INVARIANT UsageReachesJournal
PROPERTY EveryJobEnds
PROPERTY EntryReclaimed
