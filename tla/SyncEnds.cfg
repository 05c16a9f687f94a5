\* Every request ends, with hanging upstreams and failing database calls.
SPECIFICATION FairSpec
CONSTANTS
    MaxProvider = 1
    MaxKey = 1
    Name = {n}
    Secret = {x}
    Model = {m1}
    FkModes <- OneConnection
    Sync = {s1, s2}
    DbFails = TRUE
INVARIANT BatchStandsTogether
PROPERTY RequestsEnd
