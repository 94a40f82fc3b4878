CONSTANTS
    ama = ama  p1 = p1  app1 = app1  q1 = q1  q2 = q2
    None = None
    Students <- OneStudent
    Years <- OneYear
    Tracks <- TwoTracks
    Classrooms <- OneClassroom
    Applications <- OneApplication
    Requests <- TwoRequests
SPECIFICATION Spec
SYMMETRY Symmetry
INVARIANTS
    EnrolledIsPlaced
    RevertSeesOutcome
PROPERTY TerminalStays
CHECK_DEADLOCK FALSE
