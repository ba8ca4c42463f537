SPECIFICATION FairSpec
CONSTANTS
    Absent = Absent
    Nobody = Nobody
    order = order
    item = item
    q1 = q1
    q2 = q2
    KindOf <- MCKindOf
    LabelsOf <- MCLabelsOf
    Requested <- MCRequested
    Pushers = {p1, p2}
    Queries = {q1, q2}
    ElementIds = {e1}
    Values = {order, item}
    QueueCap = 1
    MaxPushes = 2
PROPERTIES
    PushReturns
    BootstrapEnds
