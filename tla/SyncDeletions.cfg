\* Two requests over two keys that may be deleted under them; foreign keys enforced.
SPECIFICATION Spec
CONSTANTS
    MaxProvider = 1
    MaxKey = 2
    Name = {n}
    Secret = {x}
    Model = {m1}
    FkModes <- OneConnection
    Sync = {s1, s2}
    DbFails = FALSE
SYMMETRY Alike
INVARIANTS NoOrphans BatchStandsTogether BatchErrorHasCause
PROPERTY LedgerSpec
