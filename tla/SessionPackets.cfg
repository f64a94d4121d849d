SPECIFICATION MCFairSpec
CONSTANTS
    Kinds = {"enum", "login", "unsafe", "safe", "inplace", "ack", "cancel", "never"}
    FewKinds = {{"login", "unsafe"}, {"login", "safe"}}
    MaxPackets = 4
    MaxProcessed = 2
INVARIANTS
    PacketsAccounted
    OneCharacter
    OrderKept
PROPERTIES
    LogoutInWorldThread
    PacketsProcessed
    ClosedSessionDeleted
