------------------------------- MODULE MCLog -------------------------------
(* Module Log for TLC.                                                     *)
EXTENDS Log
=============================================================================
