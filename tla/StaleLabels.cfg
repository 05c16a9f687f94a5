\* A provider or key is renamed between the read and the commit.
SPECIFICATION Spec
CONSTANTS
    MaxProvider = 1
    MaxKey = 1
    Name = {n1, n2}
    Secret = {x}
    Model = {m1}
    FkModes <- OneConnection
    Sync = {s1}
    DbFails = FALSE
PROPERTY LabelsAreCurrent
