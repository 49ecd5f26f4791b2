\* Two requests of a part overlap; a write of the catalogue may fail.
SPECIFICATION MCSpec
CONSTANTS
    Methods = {"ppcbank", "cash"}
    Digital = "ppcbank"
    Workers = {w1, w2}
    NotCached = NotCached
    Values = {1, 2, 3}
    Products = {p1, p2}
    Words = {f1, f2}
    Texts = {"a", "b"}
    Categories = {k1}
    MaxFaults = 1
    Kids = {"g1", "g2"}
    Nobody = Nobody
    MaxAge = 2
    MaxBanners = 2
    Ips = {"i1", "i2"}
    Private = "local"
    Months = {0, 1, 6}
    MaxId = 3
    Unknown = Unknown
SYMMETRY Symmetric
VIEW View
INVARIANTS MethodsInv MethodsAgreeApart CatalogueInv CacheAgreesApart KeysInv AuditInv
PROPERTIES ReadsLikeTheRow DeletedStaysDeletedApart KeysAreCurrent EntriesGoAsAsked
