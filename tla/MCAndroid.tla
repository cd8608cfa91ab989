------------------------------- MODULE MCAndroid -------------------------------
(***************************************************************************)
(* A small instance of AndroidService.  Only constants are defined here.   *)
(***************************************************************************)
EXTENDS AndroidService

CONSTANTS a1, a2

MCCallers == {a1, a2}
=============================================================================
