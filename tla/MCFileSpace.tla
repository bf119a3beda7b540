---------------------------- MODULE MCFileSpace -----------------------------
(* Two users.  The first has a directory with a file, both shared; the     *)
(* second has a file and keeps it private.                                 *)
EXTENDS FileSpace, TLC
CONSTANTS u, v

Paths == {<<>>, <<u>>, <<v>>, <<u, u>>, <<u, v>>, <<u, v, v>>, <<v, v>>}

Node(k, s) == [kind |-> k, shared |-> s]
Homes == [p \in {<<>>, <<u>>, <<v>>} |-> Node("dir", TRUE)]
File(p, s) == p :> Node("file", s)
Trees ==
  { Homes @@ <<u, v>> :> Node("dir", TRUE) @@ File(<<u, v, v>>, TRUE) @@ File(<<v, v>>, FALSE) }

(* Each name by itself, the directory above, and a file in another's       *)
(* directory beside the own one.                                           *)
Names == {<<u>>, <<v>>, <<Up>>, <<Up, v, v>>}

(* The first user's directory and the one in it.                           *)
Starts == {<<u>>, <<u, v>>}

Symmetry == Permutations(Conn)
=============================================================================
