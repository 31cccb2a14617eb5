--------------------------- MODULE NftMarketplace ---------------------------
(***************************************************************************)
(* contracts/soroban/src/nft_marketplace.rs: tokens are minted, listed and *)
(* bought, or auctioned to the highest bidder, whose bid the contract      *)
(* holds until a higher one or the settlement.  One payment token.         *)
(***************************************************************************)
EXTENDS Integers, Sequences, FiniteSetsExt

CONSTANTS
    Person,
    FeeBps, RoyaltyBps,     \* of the marketplace; what creators ask for
    Asked,                  \* prices, reserves and bids
    Durations,
    NoOffer, NoBidder,
    MaxTokens, MaxTime

VARIABLES
    now,
    feeBps,                 \* CONFIG.fee_bps
    nfts,                   \* TOKEN, in order of id
    listings, auctions,     \* LISTING and AUCTION of each id, or NoOffer
    purse,                  \* the contract's balance of the payment token
    unpaid                  \* history: royalties nobody was paid

vars == <<now, feeBps, nfts, listings, auctions, purse, unpaid>>

Init ==
    /\ now = 0
    /\ feeBps \in {f \in FeeBps : f <= 10000}
    /\ nfts = <<>>
    /\ listings = <<>>
    /\ auctions = <<>>
    /\ purse = 0
    /\ unpaid = 0

Offered(id) == listings[id] # NoOffer \/ auctions[id] # NoOffer

Mint(p, royalty) ==
    /\ Len(nfts) < MaxTokens
    /\ royalty <= 5000
    /\ nfts' = Append(nfts, [owner |-> p, creator |-> p, royaltyBps |-> royalty])
    /\ listings' = Append(listings, NoOffer)
    /\ auctions' = Append(auctions, NoOffer)
    /\ UNCHANGED <<now, feeBps, purse, unpaid>>

Transfer(id, to) ==
    /\ ~Offered(id)
    /\ nfts' = [nfts EXCEPT ![id].owner = to]
    /\ UNCHANGED <<now, feeBps, listings, auctions, purse, unpaid>>

List(id, price) ==
    /\ price > 0
    /\ ~Offered(id)
    /\ listings' = [listings EXCEPT ![id] = [seller |-> nfts[id].owner, price |-> price]]
    /\ UNCHANGED <<now, feeBps, nfts, auctions, purse, unpaid>>

CancelListing(id) ==
    /\ listings[id] # NoOffer
    /\ listings' = [listings EXCEPT ![id] = NoOffer]
    /\ UNCHANGED <<now, feeBps, nfts, auctions, purse, unpaid>>

(* distribute_payment: fee, royalty and the rest; a negative rest panics.   *)
(* The royalty of a creator who sells is deducted and paid to nobody.       *)
Fee(amount) == (amount * feeBps) \div 10000
Royalty(id, amount) == (amount * nfts[id].royaltyBps) \div 10000
Distributable(id, amount) == Fee(amount) + Royalty(id, amount) <= amount
Kept(id, seller, amount) == IF nfts[id].creator = seller THEN Royalty(id, amount) ELSE 0

(* The buyer pays everyone directly.                                        *)
Buy(p, id) ==
    /\ listings[id] # NoOffer
    /\ Distributable(id, listings[id].price)
    /\ nfts' = [nfts EXCEPT ![id].owner = p]
    /\ listings' = [listings EXCEPT ![id] = NoOffer]
    /\ UNCHANGED <<now, feeBps, auctions, purse, unpaid>>

StartAuction(id, reserve, duration) ==
    /\ reserve > 0
    /\ ~Offered(id)
    /\ auctions' = [auctions EXCEPT ![id] =
          [seller |-> nfts[id].owner, reserve |-> reserve, highestBid |-> 0,
           highestBidder |-> NoBidder, endsAt |-> now + duration]]
    /\ UNCHANGED <<now, feeBps, nfts, listings, purse, unpaid>>

(* The previous bid goes back first; the highest bid is 0 before the first. *)
MutBidUnreturned(p, id, amount) ==
    LET a == auctions[id] IN
    /\ a # NoOffer /\ now < a.endsAt /\ amount >= a.reserve
    /\ purse' = purse + amount
    /\ auctions' = [auctions EXCEPT ![id].highestBid = amount, ![id].highestBidder = p]
    /\ UNCHANGED <<now, feeBps, nfts, listings, unpaid>>
Bid(p, id, amount) ==
    LET a == auctions[id] IN
    /\ a # NoOffer
    /\ now < a.endsAt
    /\ amount > a.highestBid
    /\ amount >= a.reserve
    /\ purse >= a.highestBid
    /\ purse' = purse - a.highestBid + amount
    /\ auctions' = [auctions EXCEPT ![id].highestBid = amount, ![id].highestBidder = p]
    /\ UNCHANGED <<now, feeBps, nfts, listings, unpaid>>

SettleAuction(id) ==
    LET a == auctions[id]
        kept == Kept(id, a.seller, a.highestBid)
    IN /\ a # NoOffer
       /\ now >= a.endsAt
       /\ IF a.highestBidder = NoBidder
          THEN UNCHANGED <<nfts, purse, unpaid>>
          ELSE /\ Distributable(id, a.highestBid)
               /\ purse >= a.highestBid - kept
               /\ purse' = purse - (a.highestBid - kept)
               /\ unpaid' = unpaid + kept
               /\ nfts' = [nfts EXCEPT ![id].owner = a.highestBidder]
       /\ auctions' = [auctions EXCEPT ![id] = NoOffer]
       /\ UNCHANGED <<now, feeBps, listings>>

Tick ==
    /\ now < MaxTime
    /\ now' = now + 1
    /\ UNCHANGED <<feeBps, nfts, listings, auctions, purse, unpaid>>

Next ==
    \/ \E p \in Person, r \in RoyaltyBps : Mint(p, r)
    \/ \E id \in DOMAIN nfts :
         \/ \E p \in Person : \/ Transfer(id, p) \/ Buy(p, id)
                              \/ \E n \in Asked : Bid(p, id, n)
         \/ \E n \in Asked : \/ List(id, n)
                             \/ \E d \in Durations : StartAuction(id, n, d)
         \/ CancelListing(id)
         \/ SettleAuction(id)
    \/ Tick

Spec == Init /\ [][Next]_vars

(* Whatever is on offer belongs to the one who offers it, by one offer at a *)
(* time, until it is sold, settled or withdrawn.                            *)
OffersAreOwned ==
    \A id \in DOMAIN nfts :
        /\ listings[id] = NoOffer \/ auctions[id] = NoOffer
        /\ listings[id] # NoOffer => listings[id].seller = nfts[id].owner
        /\ auctions[id] # NoOffer => auctions[id].seller = nfts[id].owner

(* The contract can always pay back every open bid: it holds just the       *)
(* highest bids of the open auctions, whichever were outbid or settled      *)
(* before, and the royalties of creators who auctioned their own tokens.    *)
BidsAreCovered ==
    purse = unpaid + MapThenSumSet(
        LAMBDA id : IF auctions[id] = NoOffer THEN 0 ELSE auctions[id].highestBid,
        DOMAIN auctions)
=============================================================================
