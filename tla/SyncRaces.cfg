\* Three requests race for one key with two models, on any connection of the pool.
SPECIFICATION Spec
CONSTANTS
    MaxProvider = 1
    MaxKey = 1
    Name = {n}
    Secret = {x}
    Model = {m1, m2}
    FkModes <- Pool
    Sync = {s1, s2, s3}
    DbFails = FALSE
SYMMETRY Alike
INVARIANTS TypeOK HistoryReplaysCache CacheIsOneAnswer
