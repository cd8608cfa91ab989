------------------------------- MODULE MCFraming -------------------------------
(***************************************************************************)
(* Small instances of Framing: its constants are numbers, and Framing.cfg  *)
(* gives them.                                                             *)
(***************************************************************************)
EXTENDS Framing
=============================================================================
