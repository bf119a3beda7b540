----------------------------- MODULE ByteStream -----------------------------
(***************************************************************************)
(* What a client of one connection may expect: an answer has a length,     *)
(* which is announced, and its bytes come in order, each once, in pieces   *)
(* of any size.  When the last one is out, and not before, the connection  *)
(* takes the next request or ends.  It may break at any time.              *)
(***************************************************************************)
EXTENDS Integers

VARIABLES phase, length, sent
vars == <<phase, length, sent>>

Init == phase = "over" /\ length = 0 /\ sent = 0

Open == phase = "over" /\ phase' = "idle" /\ UNCHANGED <<length, sent>>

Begin ==
  /\ phase = "idle" /\ phase' = "answering"
  /\ length' \in Nat /\ sent' = 0

(* The next bytes, in a number that the network chooses.                   *)
Send ==
  /\ phase = "answering" /\ phase' = "answering"
  /\ sent' \in Nat /\ sent < sent' /\ sent' < length /\ UNCHANGED length

(* The last bytes.                                                         *)
Finish ==
  /\ phase = "answering" /\ phase' \in {"idle", "over"}
  /\ sent < length /\ sent' = length /\ UNCHANGED length

Break == phase # "over" /\ phase' = "over" /\ UNCHANGED <<length, sent>>

Next == Open \/ Begin \/ Send \/ Finish \/ Break

Spec == Init /\ [][Next]_vars
=============================================================================
