SPECIFICATION Spec
CONSTANTS
    r1 = r1
    r2 = r2
    avleague = avleague
    gfriends = gfriends
    NoId = NoId
    None = None
    Gfriends = gfriends
    Requests <- MCRequests
    Providers <- MCProviders
    Japanese <- MCJapanese
    Nilable <- MCNilable
    Ids <- MCIds
    Fold <- MCFold
    Normalize <- MCNormalize
    Answers <- MCAnswers
    Durable = TRUE
    MaxRev = 1
SYMMETRY Symmetry
INVARIANTS RowsOriginal InjectedOnce
PROPERTY ImplementsStore
