CONSTANTS
    p1 = p1
    p2 = p2
    hub = hub
SPECIFICATION Spec
INVARIANTS
    TypeOK
    SignaturesFit
    CallsAnswered
    TurnsAlternate
    RequestsFit
PROPERTIES
    
    AssignmentsConverge
    AcquisitionEnds
    HostSound
    StepsAllowed
