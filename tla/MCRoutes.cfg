SPECIFICATION FairSpec
CONSTANTS
    r1 = r1
    r2 = r2
    heyzo = heyzo
    javbus = javbus
    NoId = NoId
    None = None
    Requests <- MCRequests
    Providers <- MCProviders
    Reviewers <- MCReviewers
    Ids <- MCIds
    Fold <- MCFold
    Normalize <- MCNormalize
    Takes <- MCTakes
    Durable = FALSE
    MaxRev = 1
INVARIANTS ReviewsSound OneReply
PROPERTIES RequestEnds ImplementsStore
