---------------------------- MODULE MCTerminals ----------------------------
(***************************************************************************)
(* Instance of Terminals for TLC; the constants are in the cfg file.       *)
(***************************************************************************)
EXTENDS Terminals
=============================================================================
