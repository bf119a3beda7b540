----------------------------- MODULE MCAccounts -----------------------------
(* Passwords and workers are interchangeable, users are not: one has a     *)
(* name under which mkdir may refuse a directory.                          *)
(*                                                                         *)
(* The view forgets what no later step and no property looks at: which     *)
(* connection it is, what an idle worker was asked for and told, and all   *)
(* that a crash has left but the disk, for a restart begins with a new     *)
(* pool.                                                                   *)
EXTENDS Accounts, TLC

Symmetry == Permutations(Worker)

Busy   == {w \in Worker : pc[w] # "idle"}
Having == {w \in Worker : conn[w] # None}
Recent == IF down \in {"crash", "opendir"} THEN <<disk, down, cut>>
          ELSE <<disk, down, cut, Cardinality(idle), used, mutex, pc, Having,
                 [w \in Busy |-> <<req[w], ret[w]>>]>>
=============================================================================
