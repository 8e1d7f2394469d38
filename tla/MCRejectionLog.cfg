SPECIFICATION Spec
CONSTANTS
    Tasks = {t1, t2, t3, t4, t5}
    Interval = 2
    MaxTime = 5
SYMMETRY Symmetry
INVARIANT LinesApart
INVARIANT LogRateBounded
INVARIANT RejectionsAccountedFor
PROPERTY LastNeverGoesBack
