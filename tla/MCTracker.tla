------------------------------ MODULE MCTracker ------------------------------
(***************************************************************************)
(* Instances of Tracker for TLC.                                           *)
(***************************************************************************)
EXTENDS Tracker, TLC

(* Page 1 is the landing page of campaign 1, page 2 carries no parameters. *)
MCTag(u) == IF u = 1 THEN 1 ELSE 0

MCTabs == Permutations(Tabs)
=============================================================================
