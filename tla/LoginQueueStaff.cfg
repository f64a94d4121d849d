SPECIFICATION MCSpec
CONSTANTS
    Account = {1, 2, gm}
    Staff = {gm}
    Session = {s1, s2, s3}
    NoSession = NoSession
    NoAccount = NoAccount
    Limits = {1}
    Tolerance = TRUE
    MaxConnects = 3
PROPERTY StaffTakeNoSlot
