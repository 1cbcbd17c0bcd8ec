--------------------------- MODULE MCAuctionHouse ---------------------------
(* Small instances of AuctionHouse for TLC. *)
EXTENDS AuctionHouse, TLC

CONSTANTS seller, ann, bob, cam, a1, a2

OneOwner == [a \in Auctions |-> seller]

(* Two auctions whose owners bid on each other's. *)
CrossOwner == (a1 :> seller) @@ (a2 :> ann)

(* The bidders have the same balance, and none owns the auction. *)
BiddersAlike == Permutations({ann, bob, cam})

OneDeposit == [u \in Users |-> IF u = seller THEN 0 ELSE 9000]
=============================================================================
