SPECIFICATION FairResolverSpec
CONSTANTS
    r1 = r1
    r2 = r2
    yumeno = yumeno
    aika = aika
    canonical = canonical
    None = None
    Merged = Merged
    Requests <- MCRequests
    Queries <- MCQueries
    Files <- MCFiles
    Key <- MCKey
    Preferred <- MCPreferred
    TTL = 2
    MaxNow = 2
    MaxCrashes = 1
INVARIANT AnswerSound
PROPERTIES NoEntryLost RequestAnswered
CHECK_DEADLOCK FALSE
