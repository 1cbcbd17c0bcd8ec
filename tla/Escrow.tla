------------------------------- MODULE Escrow -------------------------------
(***************************************************************************)
(* What the auction house promises about money, without a word about       *)
(* statuses, orders, deadlines or locks: on every auction at most one      *)
(* person has a deposit at stake; it goes back to that person, into the    *)
(* payment, or to the house; an auction is paid for at most once, its      *)
(* owner gets the full sum, and nothing happens to it afterwards.          *)
(***************************************************************************)
EXTENDS Integers

CONSTANTS Users, Auctions, NoOne, Owner,
          Stake,      \* the deposit
          Sums        \* what can be paid, put in and taken out

VARIABLES
  purse,    \* the money a user can spend
  holder,   \* whose deposit is at stake on an auction, or NoOne
  kept,     \* what the house has kept
  sold      \* the auctions that were paid for

escrow == <<purse, holder, kept, sold>>

Init ==
  /\ purse \in [Users -> Nat]
  /\ holder = [a \in Auctions |-> NoOne]
  /\ kept = 0
  /\ sold = {}

(* What u has at stake on a. *)
AtStake(a, u) == IF holder[a] = u THEN Stake ELSE 0

(* u takes the lead on a; who led before has the deposit back. *)
Pledge(a, u) ==
  /\ a \notin sold /\ holder[a] # u
  /\ purse[u] >= Stake
  /\ purse' = [v \in Users |-> purse[v] + AtStake(a, v) - (IF v = u THEN Stake ELSE 0)]
  /\ holder' = [holder EXCEPT ![a] = u]
  /\ UNCHANGED <<kept, sold>>

(* The auction is called off. *)
GiveBack(a) ==
  /\ a \notin sold
  /\ purse' = [v \in Users |-> purse[v] + AtStake(a, v)]
  /\ holder' = [holder EXCEPT ![a] = NoOne]
  /\ UNCHANGED <<kept, sold>>

(* The holder lets the payment lapse. *)
Keep(a) ==
  /\ a \notin sold /\ holder[a] # NoOne
  /\ kept' = kept + Stake
  /\ holder' = [holder EXCEPT ![a] = NoOne]
  /\ UNCHANGED <<purse, sold>>

(* u pays for a, the deposit included; nobody else may have one at stake.  *)
Settle(a, u, sum) ==
  /\ a \notin sold /\ holder[a] \in {u, NoOne}
  /\ purse[u] + AtStake(a, u) >= sum
  /\ purse' = [v \in Users |-> purse[v] + (IF v = u THEN AtStake(a, u) - sum ELSE 0)
                                        + (IF v = Owner[a] THEN sum ELSE 0)]
  /\ holder' = [holder EXCEPT ![a] = NoOne]
  /\ sold' = sold \cup {a}
  /\ UNCHANGED kept

(* Money comes from outside, or leaves. *)
PutIn(u, x) ==
  /\ purse' = [v \in Users |-> purse[v] + (IF v = u THEN x ELSE 0)]
  /\ UNCHANGED <<holder, kept, sold>>

TakeOut(u, x) ==
  /\ purse[u] >= x
  /\ purse' = [v \in Users |-> purse[v] - (IF v = u THEN x ELSE 0)]
  /\ UNCHANGED <<holder, kept, sold>>

Next ==
  \/ \E a \in Auctions, u \in Users : Pledge(a, u)
  \/ \E a \in Auctions : GiveBack(a)
  \/ \E a \in Auctions : Keep(a)
  \/ \E a \in Auctions, u \in Users, x \in Sums : Settle(a, u, x)
  \/ \E u \in Users, x \in Sums : PutIn(u, x)
  \/ \E u \in Users, x \in Sums : TakeOut(u, x)

Spec == Init /\ [][Next]_escrow
=============================================================================
