\* Three pages of up to two runs; a reload or a toast overlaps an older page.
SPECIFICATION Spec
CONSTANTS
    MaxRun = 5
    MaxOld = 1
    Change = {k1, k2}
    Limit = 2
    Load = {l1, l2}
SYMMETRY Alike
INVARIANTS TypeOK PagesAreSlices GroupsAreWhole EndIsTruthful FlagsHaveRequests
PROPERTY GapsNeedOvertaking
