SPECIFICATION Spec
CONSTANTS
    Entity = {c1}
    Request = {r1, r2, r3}
    Employee = {lead, head}
    MaxStages = 2
    None = None
    Session = {x1, x2}
    ManageAll = {}
    Eligible = {lead, head}
CHECK_DEADLOCK FALSE
PROPERTIES
    StaleApprovalsConflict
