SPECIFICATION Spec
CONSTANTS
    Entity = {c1}
    Request = {r1, r2, r3}
    Employee = {lead, head, admin}
    MaxStages = 3
    None = None
    Session = {x1, x2}
    ManageAll = {admin}
    Eligible = {lead, head}
SYMMETRY Symmetry
CHECK_DEADLOCK FALSE
INVARIANTS
    TypeOK
    OneStageOpen
    DecidedByItsStages
    LoggedOnce
    StageDecidersEntitled
    NotifiedOfTheDecision
PROPERTIES
    DecisionsAreFinal
    PromiseSpec
