SPECIFICATION Spec
CONSTANTS
    Entity = {v1}
    Segment = {}
    Request = {r1}
    Employee = {lead}
    MaxStages = 1
    None = None
    Session = {x1}
    ManageAll = {}
    Eligible = {lead}
CHECK_DEADLOCK FALSE
PROPERTIES
    CancelDeletesRequests
