------------------------------ MODULE Pricing ------------------------------
(***************************************************************************)
(* The money arithmetic shared by bids, orders and settlement: the minimum *)
(* increment of a bid, and what an order asks of its buyer once the bid    *)
(* deposit and the shipping fee are counted.  Amounts are integers, in     *)
(* cents: the code keeps them as Decimal(12, 2).                           *)
(***************************************************************************)
EXTENDS Integers

Deposit     == 5000    \* DEPOSIT_AMOUNT, $50
ShippingFee == 2000    \* SHIPPING_FEE, $20

(* Mutant: a price exactly at a bound stays in the lower tier. *)
minIncrementFor_Above(price) ==
  CASE price > 100000                    -> 5000
    [] price > 10000 /\ price <= 100000  -> 1000
    [] price > 2500  /\ price <= 10000   -> 200
    [] OTHER                             -> 100

(* The increment steps; a step begins exactly at its lower bound.  A       *)
(* negative price falls in the lowest one.                                 *)
minIncrementFor(price) ==
  CASE price >= 100000                    -> 5000
    [] price >= 10000 /\ price < 100000   -> 1000
    [] price >= 2500  /\ price < 10000    -> 200
    [] OTHER                              -> 100

TotalDue(amount) == amount + ShippingFee

(* Mutant: the deposit is credited even where it exceeds the total.        *)
WinnerDue_Unclamped(amount) == TotalDue(amount) - Deposit

(* What the winner still pays on top of the held deposit.                  *)
WinnerDue(amount) ==
  IF TotalDue(amount) > Deposit THEN TotalDue(amount) - Deposit ELSE 0

(* Mutant: the shipping fee is forgotten when the excess is computed.      *)
Excess_NoShipping(applied, amount) ==
  IF applied > amount THEN applied - amount ELSE 0

(* The part of the applied deposit that exceeds the total, paid back.      *)
Excess(applied, amount) ==
  IF applied > TotalDue(amount) THEN applied - TotalDue(amount) ELSE 0
=============================================================================
