----------------------------- MODULE MCPayments -----------------------------
(* Small instances of Payments for TLC. *)
EXTENDS Payments, TLC
CONSTANTS s1, w1, w2, p1, p2

(* Both withdrawals are covered only once a top-up has come. *)
Amounts == (s1 :> 1) @@ (w1 :> 1) @@ (w2 :> 2)
=============================================================================
