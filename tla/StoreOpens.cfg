\* Two processes, three faults: one in each half of a migration, one while up.
SPECIFICATION FairSpec
CONSTANTS
    Proc = {p1, p2}
    MaxRun = 2
    MaxFault = 3
INVARIANTS TypeOK ServesCurrent EventsSurvive
PROPERTIES OpenRecovers
CHECK_DEADLOCK FALSE
