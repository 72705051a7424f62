SPECIFICATION Spec
CONSTANTS
    r1 = r1
    r2 = r2
    site = site
    NoId = NoId
    None = None
    Requests <- MCRequests
    Providers <- MCProviders
    Nilable <- MCNilable
    Ids <- MCIds
    Fold <- MCFold
    Normalize <- MCNormalize
    Answers <- MCAnswers
    Durable = FALSE
    MaxRev = 1
SYMMETRY Symmetry
INVARIANTS RowsGenuine ReplySound
PROPERTY ImplementsStore
