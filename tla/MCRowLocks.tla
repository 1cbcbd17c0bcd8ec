----------------------------- MODULE MCRowLocks -----------------------------
(* A small instance of RowLocks for TLC. *)
EXTENDS RowLocks, TLC

CONSTANTS seller, ann, bob, cam, a1, a2, t1, t2

(* Two auctions whose owners bid on each other's. *)
CrossOwner == (a1 :> seller) @@ (a2 :> ann)

OneDeposit == [u \in Users |-> IF u = seller THEN 5000 ELSE 9000]

(* Connections are alike, and so are two bidders who own no auction.  (The *)
(* CHOOSE in NextLeft is of the one user who has a deposit there.)          *)
Alike == Permutations(Txns) \cup Permutations({bob, cam})
=============================================================================
