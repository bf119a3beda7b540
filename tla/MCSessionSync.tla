--------------------------- MODULE MCSessionSync ---------------------------
(* Module SessionSync for TLC.                                             *)
EXTENDS SessionSync, TLC

Interchangeable == Permutations(Conn) \union Permutations(User)
=============================================================================
