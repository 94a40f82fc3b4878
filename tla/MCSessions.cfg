CONSTANTS
    ama = ama  kofi = kofi  admin = admin  manage = manage
    p1 = p1  p2 = p2  q1 = q1  q2 = q2  None = None
    Users <- TwoUsers
    SeedUser = ama
    Roles <- OneRole
    SeedRole = admin
    Permissions <- OnePermission
    Manage = manage
    Passwords <- TwoPasswords
    Requests <- TwoRequests
    MaxSessions = 3
    MaxResets = 1
SPECIFICATION Spec
SYMMETRY Symmetry
VIEW View
CONSTRAINT Bound
INVARIANTS
    InactiveIsCutOff
    OldPasswordIsCutOff
    RotationIsHandedOver
    TokensExplained
    SpentOnce
CHECK_DEADLOCK FALSE
