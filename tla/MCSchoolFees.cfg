CONSTANTS
    ama = ama  kofi = kofi  tuition = tuition  q1 = q1  q2 = q2
    p1 = p1
    Students <- TwoStudents
    Years <- OneYear
    Tracks <- OneTrack
    Classrooms <- OneClassroom
    Levels <- TwoLevels
    SchoolYears <- LastYearToo
    Fees <- OneFee
    LevelOf <- FirstLevel
    YearOf <- ThisYear
    Amounts <- TwoAmounts
    Billings <- TwoRequests
SPECIFICATION FeesSpec
SYMMETRY Symmetry
INVARIANT NoRevenueHole
PROPERTY PriceFrozen
CHECK_DEADLOCK FALSE
