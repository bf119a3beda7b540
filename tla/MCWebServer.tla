---------------------------- MODULE MCWebServer ----------------------------
(* Module WebServer for TLC.                                               *)
EXTENDS WebServer, TLC

Interchangeable == Permutations(Worker) \union Permutations(Session)
=============================================================================
