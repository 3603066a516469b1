---------------------------- MODULE MCBlockList ----------------------------
(* The block list under every sequence of calls with indexes up to MaxIdx. *)
EXTENDS BlockList
=============================================================================
