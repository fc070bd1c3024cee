SPECIFICATION ChatSpec
CONSTANTS
    Entity = {v1}
    Segment = {}
    Request = {r1, r2}
    Employee = {lead, head}
    MaxStages = 2
    None = None
    Session = {x1}
    ManageAll = {}
    Eligible = {lead, head}
    Platform = {teams, slack}
    Reassigning = {teams}
CHECK_DEADLOCK FALSE
INVARIANTS
    EveryStageAsked
