\* One upstream repeats a model id in a batch of two keys.
SPECIFICATION Spec
CONSTANTS
    MaxProvider = 1
    MaxKey = 2
    Name = {n}
    Secret = {x}
    Model = {m1}
    FkModes <- OneConnection
    Sync = {s1}
    DbFails = FALSE
INVARIANTS AnsweredKeysAreStored
