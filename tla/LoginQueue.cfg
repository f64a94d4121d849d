SPECIFICATION MCFairSpec
CONSTANTS
    Account = {1, 2, gm}
    Staff = {gm}
    Session = {s1, s2, s3, s4}
    NoSession = NoSession
    NoAccount = NoAccount
    Limits = {1, 2}
    Tolerance = TRUE
    MaxConnects = 4
INVARIANTS
    SingleOwner
    QueueConsistent
    PositionsTold
PROPERTIES
    SlotsGivenAway
    LimitRespected
    NoOvertaking
    ClosedSessionsLeave
