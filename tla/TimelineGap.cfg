\* A reload overtakes a page of older runs.
SPECIFICATION Spec
CONSTANTS
    MaxRun = 4
    MaxOld = 0
    Change = {k1}
    Limit = 2
    Load = {l1, l2}
INVARIANTS TimelineIsContiguous
