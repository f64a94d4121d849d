SPECIFICATION MCSpec
CONSTANTS
    p1 = p1
    p2 = p2
    sword = sword
    ring = ring
    ring2 = ring2
    seal = seal
    gem = gem
    orb = orb
    unique = unique
    category = category
    Player = {p1, p2}
    Item = {sword, ring, ring2, seal, gem, orb}
    AuctionId = {}
    MailId = {}
    None = None
    MaxQueue = 1
    TRADE_SLOT_TRADED_COUNT = 2
    MAX_MONEY_AMOUNT = 5
    Capacity <- Slotcount
    Gold = {0, 2}
    OfferSlots <- Slots
    Perishable = {}
    StartMoney <- Money
    StartOwner <- Owner
    Copy <- Clone
    LimitsOf <- Limits
    MaxCount <- Counts
    Soulbound = {sword, seal}
    AccountWide = {seal}
    allowedGUIDs <- Allowed
    MaxCrashes = 0
PROPERTIES
    RefusalUndone
