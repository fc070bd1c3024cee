SPECIFICATION Spec
CONSTANTS
    Entity = {v1, rest}
    Segment = {rest}
    Request = {r1, r2, r3}
    Employee = {lead, head}
    MaxStages = 2
    None = None
    Session = {x1, x2}
    ManageAll = {}
    Eligible = {lead, head}
SYMMETRY Symmetry
CHECK_DEADLOCK FALSE
INVARIANTS
    TypeOK
    RecordAgrees
    ApprovedByAllStages
PROPERTIES
    RejectedIsFinal
    CancelledStaysCancelled
