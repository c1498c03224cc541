---------------------------- MODULE MCStateBroker ----------------------------
(* Runs of StateBroker; the constants are given by the configurations. *)
EXTENDS StateBroker
=============================================================================
