SPECIFICATION Spec
CONSTANTS
    Vehicle = {v1, v2}
    Train = {t1}
    Layout = {l1, l2}
    Station = {s1, s2}
    Template = {m1}
    Num = {f1}
    Addr = {a1, a2}
    Proc = {p1, p2}
    MaxCalls = 3
    None = None
    Keep = Keep
SYMMETRY Symmetry
INVARIANTS RowsSound FollowsTemplate SnapshotFollows
CHECK_DEADLOCK FALSE
