---------------------------- MODULE MCConnQueue ----------------------------
(* Instances of ConnQueue for TLC. *)
EXTENDS ConnQueue
=============================================================================
