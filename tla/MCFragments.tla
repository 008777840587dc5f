---------------------------- MODULE MCFragments ----------------------------
(***************************************************************************)
(* Answers of three frames.                                                *)
(***************************************************************************)
EXTENDS Fragments

MCLong == {[frags |-> 1, size |-> 8, once |-> FALSE]}
=============================================================================
