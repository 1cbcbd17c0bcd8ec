----------------------------- MODULE MCRealtime -----------------------------
(* A small instance of Realtime for TLC. *)
EXTENDS Realtime
CONSTANTS a1, ann, bob, s1, s2
=============================================================================
