\* Three requests in flight, three clicks, two of restarts and failures.
SPECIFICATION FairSpec
CONSTANTS
    User = {admin, odd}
    Secret = {s1, s2}
    Carried = {admin}
    Text = {none, gpt}
    Blank = none
    MaxCall = 3
    MaxAct = 3
    MaxFault = 2
    Shift = 4
    ProviderId = {1, 2}
    KeyId = {1, 2, 3}
    ModelId = {1, 2}
INVARIANTS TypeOK SettledView ShownToSession ListedByKey ListedMerged
PROPERTIES PageSettles SessionLasts
\* A page at rest waits for its user.
CHECK_DEADLOCK FALSE
