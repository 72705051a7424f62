SPECIFICATION FairSpec
CONSTANTS
    avleague = avleague
    sodprime = sodprime
    gfriends = gfriends
    yua = yua
    mikami = mikami
    Gfriends = gfriends
    Failed = Failed
    NotFound = NotFound
    Nobody = Nobody
    Providers <- MCProviders
    Priority <- MCPriority
    Names <- MCNames
    Results <- MCResults
    Offers <- MCOffers
    Rows <- MCRows
    Similarity <- MCSimilarity
    MinSimilarity <- MCMinSimilarity
INVARIANT ReplySound
PROPERTIES SiteOverwritesRow SearchReturns
