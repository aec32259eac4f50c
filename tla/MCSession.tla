----------------------------- MODULE MCSession -----------------------------
(* Three instances, any of which may die at any time, and two swaps: a swap *)
(* away from a dead master, over a dead instance and back.                  *)
EXTENDS Session
=============================================================================
