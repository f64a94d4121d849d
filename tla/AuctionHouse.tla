---------------------------- MODULE AuctionHouse ----------------------------
(***************************************************************************)
(* Auctions, the mails they send and the purses and bags they move things  *)
(* between (AuctionHouseMgr.cpp, AuctionHouseHandler.cpp, Mail.cpp,        *)
(* MailHandler.cpp), with what of it is in memory and what is in the       *)
(* database.  All handlers run in the world thread; the worker of the      *)
(* database runs beside it, and the server may crash between any two steps.*)
(*                                                                         *)
(* Mails that carry neither money nor an item are left out.                *)
(***************************************************************************)
EXTENDS CharacterDatabase, FiniteSets, FiniteSetsExt

CONSTANTS
    StartMoney,         \* of every character
    StartItems,         \* the owner of each item
    Deposit,            \* GetAuctionDeposit, the same for every item
    CutPercent,         \* of the auction house
    Prices,             \* starting bids, buyouts and bids that clients send
    Modulus,            \* 2^32: AuctionEntry has uint32 amounts, packets uint64
    ExpireWhileDown,    \* the server may be down for so long that auctions end
    MaxCrashes

ASSUME AuctionHouseAssumption ==
    /\ IsFiniteSet(Player) /\ IsFiniteSet(Item)
    /\ MailId \subseteq Nat /\ IsFiniteSet(MailId)
    /\ IsFiniteSet(AuctionId)
    /\ None \notin Player \union Item \union AuctionId \union MailId
    /\ StartMoney \in Nat /\ Deposit \in Nat /\ CutPercent \in 0..100
    /\ StartItems \in [Item -> Player]
    /\ Prices \subseteq Nat /\ Modulus \in Nat \ {0}
    /\ ExpireWhileDown \in BOOLEAN
    /\ MaxQueue \in Nat /\ MaxCrashes \in Nat

\* Rows of the tables, and what a login loads
Auction == [item : Item, owner : Player, startbid : Nat, buyout : Nat,
            bidder : Player \union {None}, bid : Nat]
Mail == [to : Player, money : Nat, item : Item \union {None}]
LoginQueryHolder == [gold : Nat, items : SUBSET Item]

ASSUME NoneAssumption == None \notin Auction \union Mail \union LoginQueryHolder

VARIABLES
    server,         \* "up", "down", or "loading" between the two
    state,          \* of each player: "offline", "login" until the query of the
                    \* login is answered and taken up, or "online"
    holder,         \* answer to the query of a login
    money,          \* of the players that are online
    bags,           \* items of the players that are online
    m_mailsLoaded,  \* players whose mails are in memory
    m_mail,         \* mails in memory
    AuctionsMap,    \* auctions in memory; their items are in mAitems
    base,           \* money there was when the server was started
    crashes

playerVars == <<state, holder, money, bags>>
mailVars   == <<m_mailsLoaded, m_mail>>
runVars    == <<server, base, crashes>>
vars == <<db, dbQueue, playerVars, mailVars, AuctionsMap, runVars>>

Online == {p \in Player : state[p] = "online"}

-----------------------------------------------------------------------------
(* Amounts                                                                 *)

U32(n) == n % Modulus

GetAuctionCut(auction) == (auction.bid * CutPercent) \div 100

GetAuctionOutBid(auction) ==
    LET outbid == (auction.bid * 5) \div 100 IN IF outbid > 0 THEN outbid ELSE 1

Profit(auction) == U32(auction.bid + Deposit - GetAuctionCut(auction))

-----------------------------------------------------------------------------
(* Mails.  A draft is the receiver, the money and the item of a mail.      *)

MoneyMail(to, amount) == [to |-> to, money |-> amount, item |-> None]
ItemMail(to, item) == [to |-> to, money |-> 0, item |-> item]

\* Faulty: the item goes back to the owner.
FaultyWonMail(auction) == ItemMail(auction.owner, auction.item)


SendAuctionOutbiddedMail(auction) == MoneyMail(auction.bidder, auction.bid)
SendAuctionCancelledToBidderMail(auction) == MoneyMail(auction.bidder, auction.bid)
SendAuctionSuccessfulMail(auction) == MoneyMail(auction.owner, Profit(auction))
SendAuctionWonMail(auction) == ItemMail(auction.bidder, auction.item)
SendAuctionExpiredMail(auction) == ItemMail(auction.owner, auction.item)

\* GenerateMailID: ids are not used twice at a time.
FreshMailIds ==
    {m \in MailId : m_mail[m] = None /\ db.mail[m] = None /\ m \notin QueuedMails}

\* Rows of the mails drafts[1], drafts[2]...
MailRows(drafts) ==
    LET rank(m) == Cardinality({x \in FreshMailIds : x <= m})
    IN  [m \in {x \in FreshMailIds : rank(x) <= Len(drafts)} |-> drafts[rank(m)]]

\* SendMailTo: the rows go into the transaction, and into the memory of
\* receivers who have their mails loaded.
SendMailTo(drafts) ==
    /\ Len(drafts) <= Cardinality(FreshMailIds)
    /\ LET rows == MailRows(drafts)
       IN  m_mail' = [m \in MailId |->
                         IF m \in DOMAIN rows /\ rows[m].to \in m_mailsLoaded
                         THEN rows[m] ELSE m_mail[m]]

-----------------------------------------------------------------------------
(* Handlers of the auction house                                           *)

\* HandleAuctionSellItem.  The transaction saves the gold before the deposit is
\* taken from it.
SellItem(p, i, startbid, buyout) ==
    /\ p \in Online
    /\ i \in bags[p]
    /\ startbid > 0
    /\ money[p] >= Deposit
    /\ \E id \in AuctionId :
          /\ AuctionsMap[id] = None
          /\ db.auctionhouse[id] = None
          /\ id \notin QueuedAuctions
          /\ LET auction == [item |-> i, owner |-> p, startbid |-> U32(startbid),
                             buyout |-> U32(buyout), bidder |-> None, bid |-> 0]
             IN  /\ AuctionsMap' = [AuctionsMap EXCEPT ![id] = auction]
                 /\ CommitTransaction([NoRows EXCEPT
                        !.inventory = Row(i, None),
                        !.auctionhouse = Row(id, auction),
                        !.gold = Row(p, money[p])])
    /\ bags' = [bags EXCEPT ![p] = @ \ {i}]
    /\ money' = [money EXCEPT ![p] = @ - Deposit]
    /\ UNCHANGED <<state, holder, mailVars, runVars>>

\* Faulty: does not ask whether the player has the money.
FaultyMayBid(p, auction, price) ==
    /\ p \in Online
    /\ auction # None
    /\ auction.owner # p
    /\ price > auction.bid
    /\ price >= auction.startbid
    /\ \/ auction.buyout > 0 /\ price >= auction.buyout
       \/ price >= U32(auction.bid + GetAuctionOutBid(auction))

\* The checks of HandleAuctionPlaceBid
MayBid(p, auction, price) ==
    /\ p \in Online
    /\ auction # None
    /\ auction.owner # p
    /\ price > auction.bid
    /\ price >= auction.startbid
    /\ \/ auction.buyout > 0 /\ price >= auction.buyout
       \/ price >= U32(auction.bid + GetAuctionOutBid(auction))
    /\ money[p] >= price

\* Faulty: the bidder of the auction is replaced before the mail is sent.
FaultyPlaceBidRefund(p, id, price) ==
    LET auction == AuctionsMap[id]
        new     == [auction EXCEPT !.bidder = p, !.bid = U32(price)]
        paid    == IF auction.bidder = p THEN price - auction.bid ELSE price
        drafts  == IF auction.bidder \in {None, p} THEN <<>>
                   ELSE <<SendAuctionOutbiddedMail([auction EXCEPT !.bidder = p])>>
    IN  /\ MayBid(p, auction, price)
        /\ auction.buyout = 0 \/ price < auction.buyout
        /\ money' = [money EXCEPT ![p] = @ - paid]
        /\ AuctionsMap' = [AuctionsMap EXCEPT ![id] = new]
        /\ SendMailTo(drafts)
        /\ CommitTransaction([NoRows EXCEPT
               !.mail = MailRows(drafts),
               !.bid = Row(id, [bidder |-> new.bidder, bid |-> new.bid]),
               !.gold = Row(p, money'[p])])
        /\ UNCHANGED <<state, holder, bags, m_mailsLoaded, runVars>>

\* Faulty: the bid is not written to the table.
FaultyPlaceBid(p, id, price) ==
    LET auction == AuctionsMap[id]
        new     == [auction EXCEPT !.bidder = p, !.bid = U32(price)]
        paid    == IF auction.bidder = p THEN price - auction.bid ELSE price
        drafts  == IF auction.bidder \in {None, p} THEN <<>>
                   ELSE <<SendAuctionOutbiddedMail(auction)>>
    IN  /\ MayBid(p, auction, price)
        /\ auction.buyout = 0 \/ price < auction.buyout
        /\ money' = [money EXCEPT ![p] = @ - paid]
        /\ AuctionsMap' = [AuctionsMap EXCEPT ![id] = new]
        /\ SendMailTo(drafts)
        /\ CommitTransaction([NoRows EXCEPT
               !.mail = MailRows(drafts),
               !.gold = Row(p, money'[p])])
        /\ UNCHANGED <<state, holder, bags, m_mailsLoaded, runVars>>

\* HandleAuctionPlaceBid, below the buyout: the last bidder gets the money back.
PlaceBid(p, id, price) ==
    LET auction == AuctionsMap[id]
        new     == [auction EXCEPT !.bidder = p, !.bid = U32(price)]
        paid    == IF auction.bidder = p THEN price - auction.bid ELSE price
        drafts  == IF auction.bidder \in {None, p} THEN <<>>
                   ELSE <<SendAuctionOutbiddedMail(auction)>>
    IN  /\ MayBid(p, auction, price)
        /\ auction.buyout = 0 \/ price < auction.buyout
        /\ money' = [money EXCEPT ![p] = @ - paid]
        /\ AuctionsMap' = [AuctionsMap EXCEPT ![id] = new]
        /\ SendMailTo(drafts)
        /\ CommitTransaction([NoRows EXCEPT
               !.mail = MailRows(drafts),
               !.bid = Row(id, [bidder |-> new.bidder, bid |-> new.bid]),
               !.gold = Row(p, money'[p])])
        /\ UNCHANGED <<state, holder, bags, m_mailsLoaded, runVars>>

\* HandleAuctionPlaceBid, from the buyout on: the auction ends at once.
Buyout(p, id, price) ==
    LET auction == AuctionsMap[id]
        new     == [auction EXCEPT !.bidder = p, !.bid = auction.buyout]
        paid    == IF auction.bidder = p THEN auction.buyout - auction.bid
                                         ELSE auction.buyout
        drafts  == (IF auction.bidder \in {None, p} THEN <<>>
                    ELSE <<SendAuctionOutbiddedMail(auction)>>)
                   \o <<SendAuctionSuccessfulMail(new), SendAuctionWonMail(new)>>
    IN  /\ MayBid(p, auction, price)
        /\ auction.buyout > 0 /\ price >= auction.buyout
        /\ money' = [money EXCEPT ![p] = @ - paid]
        /\ AuctionsMap' = [AuctionsMap EXCEPT ![id] = None]
        /\ SendMailTo(drafts)
        /\ CommitTransaction([NoRows EXCEPT
               !.mail = MailRows(drafts),
               !.auctionhouse = Row(id, None),
               !.gold = Row(p, money'[p]),
               !.fees = GetAuctionCut(new)])
        /\ UNCHANGED <<state, holder, bags, m_mailsLoaded, runVars>>

\* HandleAuctionRemoveItem: the owner pays the cut, and gets no deposit back.
RemoveItem(p, id) ==
    LET auction == AuctionsMap[id]
        cut     == IF auction.bidder = None THEN 0 ELSE GetAuctionCut(auction)
        drafts  == (IF auction.bidder = None THEN <<>>
                    ELSE <<SendAuctionCancelledToBidderMail(auction)>>)
                   \o <<SendAuctionExpiredMail(auction)>>
    IN  /\ p \in Online
        /\ auction # None
        /\ auction.owner = p
        /\ money[p] >= cut
        /\ money' = [money EXCEPT ![p] = @ - cut]
        /\ AuctionsMap' = [AuctionsMap EXCEPT ![id] = None]
        /\ SendMailTo(drafts)
        /\ CommitTransaction([NoRows EXCEPT
               !.mail = MailRows(drafts),
               !.auctionhouse = Row(id, None),
               !.gold = Row(p, money'[p]),
               !.fees = Deposit + cut])
        /\ UNCHANGED <<state, holder, bags, m_mailsLoaded, runVars>>

\* The mails that end an auction whose time is over
EndMails(auction) ==
    IF auction.bidder = None THEN <<SendAuctionExpiredMail(auction)>>
    ELSE <<SendAuctionSuccessfulMail(auction), SendAuctionWonMail(auction)>>

EndFees(auction) ==
    IF auction.bidder = None THEN Deposit ELSE GetAuctionCut(auction)

\* AuctionHouseObject::Update, for one of the auctions it finds: those in the
\* database, past the queue, whose time is over, if they are still in memory.
ExpireAuction(id) ==
    LET auction == AuctionsMap[id]
    IN  /\ server = "up"
        /\ db.auctionhouse[id] # None
        /\ auction # None
        /\ AuctionsMap' = [AuctionsMap EXCEPT ![id] = None]
        /\ SendMailTo(EndMails(auction))
        /\ CommitTransaction([NoRows EXCEPT
               !.mail = MailRows(EndMails(auction)),
               !.auctionhouse = Row(id, None),
               !.fees = EndFees(auction)])
        /\ UNCHANGED <<playerVars, m_mailsLoaded, runVars>>

-----------------------------------------------------------------------------
(* Handlers of the mailbox                                                 *)

\* HandleGetMailList loads the mails from the database once, past the queue.
GetMailList(p) ==
    /\ p \in Online \ m_mailsLoaded
    /\ m_mailsLoaded' = m_mailsLoaded \union {p}
    /\ m_mail' = [m \in MailId |-> IF db.mail[m] # None /\ db.mail[m].to = p
                                   THEN db.mail[m] ELSE m_mail[m]]
    /\ UNCHANGED <<db, dbQueue, playerVars, AuctionsMap, runVars>>

\* Faulty: the mail is not saved.
FaultyTakeMoneyKeepingMail(p, m) ==
    /\ p \in m_mailsLoaded
    /\ m_mail[m] # None /\ m_mail[m].to = p /\ m_mail[m].item = None
    /\ money' = [money EXCEPT ![p] = @ + m_mail[m].money]
    /\ m_mail' = [m_mail EXCEPT ![m] = None]
    /\ CommitTransaction([NoRows EXCEPT !.gold = Row(p, money'[p])])
    /\ UNCHANGED <<state, holder, bags, m_mailsLoaded, AuctionsMap, runVars>>


TakeMoney(p, m) ==
    /\ p \in m_mailsLoaded
    /\ m_mail[m] # None /\ m_mail[m].to = p /\ m_mail[m].item = None
    /\ money' = [money EXCEPT ![p] = @ + m_mail[m].money]
    /\ m_mail' = [m_mail EXCEPT ![m] = None]
    /\ CommitTransaction([NoRows EXCEPT !.gold = Row(p, money'[p]), !.mail = Row(m, None)])
    /\ UNCHANGED <<state, holder, bags, m_mailsLoaded, AuctionsMap, runVars>>

\* Faulty: the mail is not saved.
FaultyTakeItem(p, m) ==
    /\ p \in m_mailsLoaded
    /\ m_mail[m] # None /\ m_mail[m].to = p /\ m_mail[m].item # None
    /\ bags' = [bags EXCEPT ![p] = @ \union {m_mail[m].item}]
    /\ m_mail' = [m_mail EXCEPT ![m] = None]
    /\ CommitTransaction([NoRows EXCEPT !.gold = Row(p, money[p]),
                                        !.inventory = Row(m_mail[m].item, p)])
    /\ UNCHANGED <<state, holder, money, m_mailsLoaded, AuctionsMap, runVars>>


TakeItem(p, m) ==
    /\ p \in m_mailsLoaded
    /\ m_mail[m] # None /\ m_mail[m].to = p /\ m_mail[m].item # None
    /\ bags' = [bags EXCEPT ![p] = @ \union {m_mail[m].item}]
    /\ m_mail' = [m_mail EXCEPT ![m] = None]
    /\ CommitTransaction([NoRows EXCEPT !.gold = Row(p, money[p]), !.mail = Row(m, None),
                                        !.inventory = Row(m_mail[m].item, p)])
    /\ UNCHANGED <<state, holder, money, m_mailsLoaded, AuctionsMap, runVars>>

-----------------------------------------------------------------------------
(* Players come and go                                                     *)

SavedPlayer(p) == [NoRows EXCEPT !.gold = Row(p, money[p]),
                                 !.inventory = [i \in bags[p] |-> p]]

\* Player::SaveToDB, now and then
Save(p) ==
    /\ p \in Online
    /\ CommitTransaction(SavedPlayer(p))
    /\ UNCHANGED <<playerVars, mailVars, AuctionsMap, runVars>>

\* LogoutPlayer saves the player, and deletes the object with its mails.
LogoutPlayer(p) ==
    /\ p \in Online
    /\ CommitTransaction(SavedPlayer(p))
    /\ state' = [state EXCEPT ![p] = "offline"]
    /\ money' = [money EXCEPT ![p] = 0]
    /\ bags' = [bags EXCEPT ![p] = {}]
    /\ m_mailsLoaded' = m_mailsLoaded \ {p}
    /\ m_mail' = [m \in MailId |-> IF m_mail[m] # None /\ m_mail[m].to = p
                                   THEN None ELSE m_mail[m]]
    /\ UNCHANGED <<holder, AuctionsMap, runVars>>

\* Faulty: the query of the login does not wait in the queue.
FaultyHandlePlayerLogin(p) ==
    /\ server = "up"
    /\ state[p] = "offline"
    /\ holder' = [holder EXCEPT ![p] =
           [gold |-> db.gold[p], items |-> {i \in Item : db.inventory[i] = p}]]
    /\ state' = [state EXCEPT ![p] = "login"]
    /\ UNCHANGED <<db, dbQueue, money, bags, mailVars, AuctionsMap, runVars>>


HandlePlayerLogin(p) ==
    /\ server = "up"
    /\ state[p] = "offline"
    /\ DelayQueryHolder(p)
    /\ state' = [state EXCEPT ![p] = "login"]
    /\ UNCHANGED <<holder, money, bags, mailVars, AuctionsMap, runVars>>

\* HandlePlayerLogin with the answer: Player::LoadFromDB
LoadFromDB(p) ==
    /\ state[p] = "login"
    /\ holder[p] # None
    /\ money' = [money EXCEPT ![p] = holder[p].gold]
    /\ bags' = [bags EXCEPT ![p] = holder[p].items]
    /\ state' = [state EXCEPT ![p] = "online"]
    /\ holder' = [holder EXCEPT ![p] = None]
    /\ UNCHANGED <<db, dbQueue, mailVars, AuctionsMap, runVars>>

-----------------------------------------------------------------------------
(* The worker of the database, crash and start                             *)

Execute ==
    /\ dbQueue # <<>>
    /\ dbQueue' = Tail(dbQueue)
    /\ LET t == Head(dbQueue)
       IN  IF t.login = None
           THEN db' = ExecuteTransaction(t) /\ UNCHANGED holder
           ELSE /\ holder' = [holder EXCEPT ![t.login] =
                       [gold  |-> db.gold[t.login],
                        items |-> {i \in Item : db.inventory[i] = t.login}]]
                /\ UNCHANGED db
    /\ UNCHANGED <<state, money, bags, mailVars, AuctionsMap, runVars>>

\* Everything is lost but the tables.
Crash ==
    /\ server # "down"
    /\ crashes < MaxCrashes
    /\ crashes' = crashes + 1
    /\ server' = "down"
    /\ dbQueue' = <<>>
    /\ state' = [p \in Player |-> "offline"]
    /\ holder' = [p \in Player |-> None]
    /\ money' = [p \in Player |-> 0]
    /\ bags' = [p \in Player |-> {}]
    /\ m_mailsLoaded' = {}
    /\ m_mail' = [m \in MailId |-> None]
    /\ AuctionsMap' = [id \in AuctionId |-> None]
    /\ UNCHANGED <<db, base>>

\* Money in the rows of the mails, and in those of the auctions
MoneyInMails == [m \in MailId |-> IF db.mail[m] = None THEN 0 ELSE db.mail[m].money]
MoneyInAuctions == [id \in AuctionId |-> IF db.auctionhouse[id] = None THEN 0
                                         ELSE db.auctionhouse[id].bid + Deposit]

\* Money in the tables, and what the fees took out of them
Persisted ==
    MapThenSumSet(LAMBDA p : db.gold[p], Player)
    + MapThenSumSet(LAMBDA m : MoneyInMails[m], MailId)
    + MapThenSumSet(LAMBDA id : MoneyInAuctions[id], AuctionId)
    + db.fees

\* DeleteExpiredAuctionsAtStartup, for the auction id or for none.  No item of an
\* auction is loaded at this time, and the mails that would carry it are not sent.
DeleteExpiredAuctionsAtStartup ==
    /\ server = "down"
    /\ server' = "loading"
    /\ base' = Persisted
    /\ \/ UNCHANGED <<db, dbQueue, m_mail>>
       \/ \E id \in AuctionId :
             LET auction == db.auctionhouse[id]
                 drafts  == IF auction.bidder = None THEN <<>>
                            ELSE <<SendAuctionSuccessfulMail(auction)>>
             IN  /\ ExpireWhileDown
                 /\ auction # None
                 /\ SendMailTo(drafts)
                 /\ CommitTransaction([NoRows EXCEPT
                        !.mail = MailRows(drafts),
                        !.auctionhouse = Row(id, None),
                        !.fees = EndFees(auction)])
    /\ UNCHANGED <<playerVars, m_mailsLoaded, AuctionsMap, crashes>>

\* LoadAuctionItems and LoadAuctions read the tables, past the queue.
LoadAuctions ==
    /\ server = "loading"
    /\ server' = "up"
    /\ AuctionsMap' = db.auctionhouse
    /\ UNCHANGED <<db, dbQueue, playerVars, mailVars, base, crashes>>

-----------------------------------------------------------------------------
Init ==
    /\ db = [gold |-> [p \in Player |-> StartMoney],
             inventory |-> StartItems,
             mail |-> [m \in MailId |-> None],
             auctionhouse |-> [id \in AuctionId |-> None],
             fees |-> 0]
    /\ dbQueue = <<>>
    /\ server = "up"
    /\ state = [p \in Player |-> "offline"]
    /\ holder = [p \in Player |-> None]
    /\ money = [p \in Player |-> 0]
    /\ bags = [p \in Player |-> {}]
    /\ m_mailsLoaded = {}
    /\ m_mail = [m \in MailId |-> None]
    /\ AuctionsMap = [id \in AuctionId |-> None]
    /\ base = Cardinality(Player) * StartMoney
    /\ crashes = 0

Next ==
    \/ \E p \in Player, i \in Item, startbid \in Prices, buyout \in Prices \union {0} :
          SellItem(p, i, startbid, buyout)
    \/ \E p \in Player, id \in AuctionId, price \in Prices :
          PlaceBid(p, id, price) \/ Buyout(p, id, price)
    \/ \E p \in Player, id \in AuctionId : RemoveItem(p, id)
    \/ \E id \in AuctionId : ExpireAuction(id)
    \/ \E p \in Player : GetMailList(p) \/ Save(p) \/ LogoutPlayer(p)
    \/ \E p \in Player : HandlePlayerLogin(p) \/ LoadFromDB(p)
    \/ \E p \in Player, m \in MailId : TakeMoney(p, m) \/ TakeItem(p, m)
    \/ Execute
    \/ Crash
    \/ DeleteExpiredAuctionsAtStartup
    \/ LoadAuctions

Spec == Init /\ [][Next]_vars

-----------------------------------------------------------------------------
(* Properties                                                              *)

\* Types of the tables and of what is in memory.
TypeOK ==
    /\ db.gold \in [Player -> Nat]
    /\ db.inventory \in [Item -> Player \union {None}]
    /\ db.mail \in [MailId -> Mail \union {None}]
    /\ db.auctionhouse \in [AuctionId -> Auction \union {None}]
    /\ db.fees \in Nat
    /\ Len(dbQueue) <= MaxQueue
    /\ server \in {"up", "down", "loading"}
    /\ state \in [Player -> {"offline", "login", "online"}]
    /\ money \in [Player -> Nat]
    /\ bags \in [Player -> SUBSET Item]
    /\ m_mailsLoaded \subseteq Online
    /\ m_mail \in [MailId -> Mail \union {None}]
    /\ AuctionsMap \in [AuctionId -> Auction \union {None}]
    /\ base \in Nat
    /\ crashes \in 0..MaxCrashes

\* Rows that hold the item i
PlacesOf(i, mails, auctions) ==
    Cardinality({m \in MailId : mails[m] # None /\ mails[m].item = i})
    + Cardinality({id \in AuctionId : auctions[id] # None /\ auctions[id].item = i})

\* Whenever the server dies, the tables hold every item exactly once: in a bag,
\* in a mail or in an auction.  This is what the transactions of the handlers
\* are cut for ("Mails must be under transaction control too to prevent data
\* loss", HandleAuctionPlaceBid).
ItemsOnce ==
    \A i \in Item :
        (IF db.inventory[i] = None THEN 0 ELSE 1)
        + PlacesOf(i, db.mail, db.auctionhouse) = 1

\* In memory no item is in two places: not in two bags, nor in a bag and in a
\* mail that can be opened or in an auction, although mails are read past the
\* queue of writes and players log in while their last save is still in it.
OneHolder ==
    \A i \in Item :
        Cardinality({p \in Player : i \in bags[p]}) + PlacesOf(i, m_mail, AuctionsMap) <= 1

\* Whenever the server dies, the tables hold all money there was, fees included,
\* and at most one deposit of each player too much: HandleAuctionSellItem saves
\* the gold before it takes the deposit, which the next save of the player mends.
MoneyConserved ==
    /\ Persisted >= base
    /\ Persisted <= base + Deposit * Cardinality(Player)

\* Once the worker has caught up the tables agree with the memory: the auctions
\* are the same, the bags are the same, gold differs by at most one deposit,
\* and no mail can be opened that has no row.
WrittenBehind ==
    server = "up" /\ dbQueue = <<>> =>
        /\ AuctionsMap = db.auctionhouse
        /\ \A p \in Online :
              /\ bags[p] = {i \in Item : db.inventory[i] = p}
              /\ money[p] \in {db.gold[p], db.gold[p] - Deposit}
        /\ \A m \in MailId : m_mail[m] # None => m_mail[m] = db.mail[m]

\* Money of p that is in bids, by the tables
OpenBids(p) ==
    MapThenSumSet(LAMBDA id : IF db.auctionhouse[id] # None /\ db.auctionhouse[id].bidder = p
                              THEN db.auctionhouse[id].bid ELSE 0, AuctionId)

\* What p has by the tables: gold, money in mails, and bids that are open
Claim(p) ==
    db.gold[p] + OpenBids(p)
    + MapThenSumSet(LAMBDA m : IF db.mail[m] # None /\ db.mail[m].to = p
                               THEN db.mail[m].money ELSE 0, MailId)

\* Items of p by the tables
Belongings(p) ==
    {i \in Item : \/ db.inventory[i] = p
                  \/ \E m \in MailId : /\ db.mail[m] # None
                                        /\ db.mail[m].to = p
                                        /\ db.mail[m].item = i}

\* Nobody pays for nothing: no step of the database costs a player anything unless
\* it brings him an item, but for a deposit; and not even that when a bid of his
\* ends.  So who is outbid, or whose auction is cancelled, gets back what he paid.
PaidForItems ==
    [][db' # db => \A p \in Player :
          \/ Claim(p)' >= Claim(p)
          \/ Claim(p)' >= Claim(p) - Deposit /\ OpenBids(p)' >= OpenBids(p)
          \/ ~ (Belongings(p)' \subseteq Belongings(p))]_vars

\* An auction that leaves the table is settled by that step.  Either its owner has
\* the item back and nobody else has less; or somebody else has it, at the price
\* of his bid or of the buyout, the owner has that price without the cut and the
\* deposit with it, and no third player, the last bidder say, has less.
AuctionsSettled ==
    [][db' # db => \A id \in AuctionId, owner \in Player :
          LET row == db.auctionhouse[id]
              nobodyElse(S) == \A q \in Player \ S : Claim(q)' >= Claim(q)
          IN  row # None /\ row.owner = owner /\ db'.auctionhouse[id] = None =>
                \/ row.item \in Belongings(owner)' /\ nobodyElse({owner})
                \/ \E p \in Player \ {owner}, price \in {row.bid, row.buyout} :
                      /\ price = row.bid => p = row.bidder \/ price = row.buyout
                      /\ row.item \in Belongings(p)'
                      /\ Claim(p)' <= Claim(p) - price
                      /\ Claim(owner)' = Claim(owner) + Deposit + price
                                         - GetAuctionCut([row EXCEPT !.bid = price])
                      /\ nobodyElse({p, owner})]_vars
=============================================================================
