\* Requests share the token; database errors, restarts, tokens that die early.
SPECIFICATION FairSpec
CONSTANTS
    Workers = {w1, w2}
    Nobody = Nobody
    MaxTokens = 3
    MaxFaults = 2
INVARIANTS MutexHeldByFetcher RetryIsNewer RowIsMemory
PROPERTIES EveryRequestEnds
