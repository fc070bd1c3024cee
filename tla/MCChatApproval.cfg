SPECIFICATION ChatSpec
CONSTANTS
    Entity = {v1}
    Segment = {}
    Request = {r1, r2}
    Employee = {lead, head}
    MaxStages = 2
    None = None
    Session = {x1, x2}
    ManageAll = {}
    Eligible = {lead, head}
    Platform = {teams}
    Reassigning = {teams}
SYMMETRY Symmetry
CHECK_DEADLOCK FALSE
INVARIANTS
    ChatTypeOK
    ChainApprovedByItsStages
PROPERTIES
    BypassedChainIsFrozen
    DecidedRequestStaysClosed
