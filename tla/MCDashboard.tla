---------------------------- MODULE MCDashboard ----------------------------
(***************************************************************************)
(* Instances of Dashboard for TLC.                                         *)
(***************************************************************************)
EXTENDS Dashboard, TLC

MCEdits == {[key |-> "path", value |-> "/a"],
            [key |-> "hitProps", value |-> <<[name |-> <<"plan">>, value |-> <<"pro">>]>>]}
MCWindows == {Window(98, 100)}
=============================================================================
