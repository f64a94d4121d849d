SPECIFICATION MCSpec
CONSTANTS
    p1 = p1
    p2 = p2
    p3 = p3
    sword = sword
    Player = {p1, p2, p3}
    Item = {sword}
    AuctionId = {1}
    MailId = {1, 2, 3}
    None = None
    MaxQueue = 2
    StartMoney = 2
    StartItems <- OneItem
    Deposit = 1
    CutPercent = 50
    Prices = {1, 2}
    Modulus = 100
    ExpireWhileDown = TRUE
    MaxCrashes = 1
SYMMETRY Buyers
INVARIANT ItemsOnce
