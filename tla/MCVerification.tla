--------------------------- MODULE MCVerification ---------------------------
(* Small instances of Verification for TLC. *)
EXTENDS Verification, TLC
CONSTANTS mail, sam, tom, eve, p, q, k1, k2

Kinds == (mail :> "register") @@ (sam :> "seller") @@ (tom :> "seller") @@ (eve :> "reset")

Alike == Permutations(Calls) \cup Permutations({sam, tom}) \cup Permutations(Claims)
=============================================================================
