\* Two clients of the administration API on the one connection Open prepared.
SPECIFICATION Spec
CONSTANTS
    MaxProvider = 2
    MaxKey = 2
    Name = {n}
    Secret = {s1, s2}
    Model = {m}
    FkModes <- OneConnection
    Admin = {a1, a2}
SYMMETRY Clients
INVARIANTS TypeOK NoOrphans NotFoundIsFinal
PROPERTY StatementsOnly
