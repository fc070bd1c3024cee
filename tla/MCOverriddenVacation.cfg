SPECIFICATION Spec
CONSTANTS
    Entity = {v1}
    Segment = {}
    Request = {r1, r2}
    Employee = {lead}
    MaxStages = 2
    None = None
    Session = {x1}
    ManageAll = {}
    Eligible = {lead}
CHECK_DEADLOCK FALSE
INVARIANTS
    OverriddenAsksNobody
