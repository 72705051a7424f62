SPECIFICATION FairSpec
CONSTANTS
    fanza = fanza
    javbus = javbus
    heyzo = heyzo
    retired = retired
    Failed = Failed
    Providers <- MCProviders
    Searchers <- MCSearchers
    Results <- MCResults
    Offers <- MCOffers
    Asked <- MCAsked
    Matching <- MCMatching
    Weight <- MCWeight
    Rows <- MCRows
INVARIANTS ClosedAfterLastSend ReplyComplete ReplyWellFormed StoredWins
PROPERTY SearchReturns
