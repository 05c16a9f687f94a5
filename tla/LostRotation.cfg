\* Two updates of one key: one rotates the api_key, one leaves it empty.
SPECIFICATION Spec
CONSTANTS
    MaxProvider = 1
    MaxKey = 1
    Name = {n}
    Secret = {s1, s2}
    Model = {m}
    FkModes <- OneConnection
    Admin = {a1, a2}
PROPERTY BlankKeepsSecret
